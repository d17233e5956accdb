---------------------------- MODULE LoopServices ----------------------------
(***************************************************************************)
(* The services Core 1's loop runs between two looks at the console, and   *)
(* device_state, which they share with transmission_task on Core 0: the    *)
(* boot phases (flex-fsk-tx.ino), the WiFi connection (network.cpp,        *)
(* wifi.cpp), the time synchronisation (ntp_time.cpp) and the connection   *)
(* to the MQTT broker (mqtt.cpp).  It is the default build, without GSM.   *)
(*                                                                         *)
(* NTP and MQTT save device_state, announce their own value and restore    *)
(* the saved one; WiFi and the console write it directly; Core 0 writes    *)
(* TRANSMITTING and IDLE whenever it sends.  What Core 0 sends is module   *)
(* Transmission: here a transmission starts and ends, nothing more.        *)
(*                                                                         *)
(* loop_pc walks through one pass of loop.  Every delay and interval that  *)
(* the code measures with millis() may have passed or not.                 *)
(***************************************************************************)
EXTENDS Naturals, DeviceState

CONSTANTS NTP_MAX_ATTEMPTS,      \* 10 in ntp_time.cpp
          WIFI_RETRY_ATTEMPTS,   \* 3 in config.h
          Activities             \* what goes on around the services

ASSUME LoopAssumption ==
  /\ NTP_MAX_ATTEMPTS \in Nat \ {0} /\ WIFI_RETRY_ATTEMPTS \in Nat \ {0}
  /\ Activities \subseteq {"transmissions", "console", "broker", "outages"}

VARIABLES
  device_state,
  on_air,                    \* Core 0 holds the radio
  loop_pc, guard_active,
  new_state, ret,            \* change_device_state: what to write, where to return
  caller,                    \* where the service under way returns
  boot_phase,
  system_time_initialized,
  ntp_synced, ntp_sync_in_progress, ntp_sync_attempts,
  ntp_state_active, ntp_previous_state,
  mqtt_state_active, mqtt_previous_state,
  wifi_connected, wifi_retry_count, ap_mode_active, active_network,
  network_available_cached, network_connect_pending,
  in_range,                  \* a stored WiFi network can be reached
  station                    \* WiFi.status() = WL_CONNECTED

changeVars == <<new_state, ret, caller>>
ntpVars  == <<ntp_synced, ntp_sync_in_progress, ntp_sync_attempts,
              ntp_state_active, ntp_previous_state, system_time_initialized>>
mqttVars == <<mqtt_state_active, mqtt_previous_state>>
wifiVars == <<wifi_connected, wifi_retry_count, ap_mode_active>>
netVars  == <<active_network, network_available_cached, network_connect_pending>>
linkVars == <<in_range, station>>
vars == <<device_state, on_air, loop_pc, guard_active, changeVars, boot_phase,
          ntpVars, mqttVars, wifiVars, netVars, linkVars>>

BootPhases == { "NETWORK_PENDING", "NETWORK_READY", "NTP_SYNCING", "NTP_FAILED",
                "WATCHDOG_ACTIVE", "MQTT_PENDING", "MQTT_READY",
                "SERVICES_PENDING", "COMPLETE", "AP_COMPLETE" }
\* boot_phase >= BOOT_MQTT_READY in the order of the enum
MqttPhases == {"MQTT_READY", "SERVICES_PENDING", "COMPLETE", "AP_COMPLETE"}

LoopSteps == { "boot", "sample", "sample_rf", "serial", "pending", "wifi_check", "link", "active",
               "ntp", "process", "mqtt", "change", "reconnect", "wifi_scan", "wifi_wait",
               "wifi_up", "wifi_idle",
               "ntp_save", "ntp_announce", "ntp_begin", "ntp_restore", "ntp_restored",
               "mqtt_save", "mqtt_announce", "mqtt_wait", "mqtt_restored" }

(* setup(): network_boot ended with a WiFi connection, or in AP mode; an   *)
(* RTC may have set the time.                                              *)
Init ==
  /\ on_air = FALSE
  /\ loop_pc = "boot" /\ guard_active = FALSE
  /\ new_state = "IDLE" /\ ret = "boot" /\ caller = "boot"
  /\ boot_phase = "NETWORK_PENDING"
  /\ system_time_initialized \in BOOLEAN
  /\ ntp_synced = FALSE /\ ntp_sync_in_progress = FALSE /\ ntp_sync_attempts = 0
  /\ ntp_state_active = FALSE /\ ntp_previous_state = "IDLE"
  /\ mqtt_state_active = FALSE /\ mqtt_previous_state = "IDLE"
  /\ wifi_retry_count = 0
  /\ network_connect_pending = FALSE /\ network_available_cached = FALSE
  /\ in_range \in BOOLEAN
  /\ \/ /\ ap_mode_active = FALSE /\ wifi_connected = TRUE
        /\ active_network = "WIFI" /\ device_state = "IDLE"
        /\ station = in_range
     \/ /\ ap_mode_active = TRUE /\ wifi_connected = FALSE
        /\ active_network = "NONE" /\ device_state = "WIFI_AP_MODE"
        /\ station = FALSE

-----------------------------------------------------------------------------
(*                      Core 0 and the WiFi stack                          *)

KeepLoop == UNCHANGED <<loop_pc, guard_active, changeVars, boot_phase, ntpVars,
                        mqttVars, wifiVars, netVars>>

(* transmit_current_buffer.  A raw frame is taken in every state, so there *)
(* is no guard on device_state.                                            *)
TxStart ==
  /\ "transmissions" \in Activities
  /\ ~on_air /\ on_air' = TRUE
  /\ device_state' = "TRANSMITTING"
  /\ KeepLoop /\ UNCHANGED linkVars

TxEnd ==
  /\ on_air /\ on_air' = FALSE
  /\ device_state' = "IDLE"
  /\ KeepLoop /\ UNCHANGED linkVars

(* The network comes and goes; in AP mode the station is not used.         *)
Link ==
  /\ "outages" \in Activities
  /\ \/ in_range' = ~in_range /\ station' = FALSE
     \/ in_range /\ ~ap_mode_active /\ station' = ~station /\ UNCHANGED in_range
  /\ KeepLoop /\ UNCHANGED <<device_state, on_air>>

-----------------------------------------------------------------------------
(*                          change_device_state                            *)

KeepCore0 == UNCHANGED <<on_air, linkVars>>
Goes(from, to) == loop_pc = from /\ loop_pc' = to
Returns == loop_pc' = caller /\ caller' = "boot" /\ UNCHANGED <<new_state, ret>>

(* The transition is checked against device_state as it is now ...         *)
ChangeChecked(state, next) ==
  /\ IF IsValidTransition(device_state, state)
     THEN loop_pc' = "change" /\ new_state' = state /\ ret' = next
     ELSE loop_pc' = next /\ UNCHANGED <<new_state, ret>>
  /\ UNCHANGED <<caller, device_state>>

(* ... and written a little later, over whatever Core 0 wrote since.       *)
ChangeWritten ==
  /\ Goes("change", ret)
  /\ device_state' = new_state
  /\ new_state' = "IDLE" /\ ret' = "boot"
  /\ KeepCore0
  /\ UNCHANGED <<guard_active, caller, boot_phase, ntpVars, mqttVars, wifiVars, netVars>>

-----------------------------------------------------------------------------
(*                               ntp_time.cpp                              *)

KeepNet == UNCHANGED <<on_air, linkVars, guard_active, wifiVars, netVars>>

\* Mutant: the state is saved again whenever a service starts.
SavedAgain(active, previous) == device_state

(* The state to come back to: the one saved already, or the present one.   *)
Saved(active, previous) == IF active THEN previous ELSE device_state

(* ntp_sync_start: save a state to come back to, *)
NtpSave ==
  /\ loop_pc = "ntp_save"
  /\ IF ntp_sync_in_progress
     THEN Returns /\ UNCHANGED ntp_previous_state
     ELSE /\ loop_pc' = "ntp_announce" /\ UNCHANGED changeVars
          /\ ntp_previous_state' = Saved(ntp_state_active, ntp_previous_state)
  /\ KeepNet
  /\ UNCHANGED <<device_state, boot_phase, mqttVars, ntp_synced, ntp_sync_in_progress,
                 ntp_sync_attempts, ntp_state_active, system_time_initialized>>

(* then STATE_NTP_SYNC, *)
NtpAnnounce ==
  /\ loop_pc = "ntp_announce"
  /\ ChangeChecked("NTP_SYNC", "ntp_begin")
  /\ KeepNet /\ UNCHANGED <<boot_phase, ntpVars, mqttVars>>

(* and the synchronisation is under way. *)
NtpBegin ==
  /\ loop_pc = "ntp_begin" /\ Returns
  /\ ntp_state_active' = TRUE
  /\ ntp_sync_in_progress' = TRUE
  /\ ntp_sync_attempts' = 0
  /\ KeepNet
  /\ UNCHANGED <<device_state, boot_phase, mqttVars, ntp_synced,
                 ntp_previous_state, system_time_initialized>>

(* The hourly synchronisation. *)
NtpPeriodic ==
  /\ Goes("ntp", "ntp_save")
  /\ network_available_cached /\ ~ntp_sync_in_progress
  /\ caller' = "process"
  /\ KeepNet
  /\ UNCHANGED <<device_state, new_state, ret, boot_phase, ntpVars, mqttVars>>

NtpNotDue ==
  /\ Goes("ntp", "process")
  /\ KeepNet
  /\ UNCHANGED <<device_state, changeVars, boot_phase, ntpVars, mqttVars>>

(* ntp_sync_process: nothing to do or too early, ... *)
NtpWaits ==
  /\ Goes("process", "mqtt")
  /\ KeepNet
  /\ UNCHANGED <<device_state, changeVars, boot_phase, ntpVars, mqttVars>>

(* ... the time has arrived, ... *)
NtpAnswered ==
  /\ Goes("process", "ntp_restore")
  /\ network_available_cached /\ ntp_sync_in_progress
  /\ ntp_synced' = TRUE /\ system_time_initialized' = TRUE
  /\ ntp_sync_in_progress' = FALSE
  /\ KeepNet
  /\ UNCHANGED <<device_state, changeVars, boot_phase, mqttVars, ntp_sync_attempts,
                 ntp_state_active, ntp_previous_state>>

\* Mutant: a device_state that is not given back.
AfterMissedKept(last) == "mqtt"

LastAttempt(attempts) == attempts >= NTP_MAX_ATTEMPTS
AfterMissed(last) == IF last THEN "ntp_restore" ELSE "mqtt"

(* ... or it has not, and the last attempt gives up. *)
NtpMissed ==
  /\ loop_pc = "process"
  /\ network_available_cached /\ ntp_sync_in_progress
  /\ ntp_sync_attempts' = ntp_sync_attempts + 1
  /\ LET last == LastAttempt(ntp_sync_attempts')
     IN /\ loop_pc' = AfterMissed(last)
        /\ ntp_synced' = (ntp_synced /\ ~last)
        /\ ntp_sync_in_progress' = ~last
  /\ KeepNet
  /\ UNCHANGED <<device_state, changeVars, boot_phase, mqttVars, ntp_state_active,
                 ntp_previous_state, system_time_initialized>>

(* restore_ntp_state *)
NtpRestore ==
  /\ loop_pc = "ntp_restore"
  /\ IF ntp_state_active
     THEN ChangeChecked(ntp_previous_state, "ntp_restored")
     ELSE loop_pc' = "mqtt" /\ UNCHANGED <<changeVars, device_state>>
  /\ KeepNet /\ UNCHANGED <<boot_phase, ntpVars, mqttVars>>

NtpRestored ==
  /\ Goes("ntp_restored", "mqtt")
  /\ ntp_state_active' = FALSE
  /\ KeepNet
  /\ UNCHANGED <<device_state, changeVars, boot_phase, mqttVars, ntp_synced,
                 ntp_sync_in_progress, ntp_sync_attempts, ntp_previous_state,
                 system_time_initialized>>

NtpStep == \/ NtpSave \/ NtpAnnounce \/ NtpBegin \/ NtpPeriodic \/ NtpNotDue \/ NtpWaits
           \/ NtpAnswered \/ NtpMissed \/ NtpRestore \/ NtpRestored

-----------------------------------------------------------------------------
(*                         mqtt.cpp: mqtt_connect                          *)

(* Nothing to do with the broker in this pass. *)
MqttIdle ==
  /\ Goes("mqtt", "boot")
  /\ KeepNet
  /\ UNCHANGED <<device_state, changeVars, boot_phase, ntpVars, mqttVars>>

(* mqtt_initialize or mqtt_loop has to connect.  The RF guard does not     *)
(* keep them from it; a transmission only leaves device_state alone.       *)
MqttConnectStarts(next) ==
  /\ "broker" \in Activities
  /\ system_time_initialized /\ station
  /\ loop_pc' = IF RfActive(device_state) THEN "mqtt_wait" ELSE "mqtt_save"
  /\ caller' = next

MqttDue ==
  /\ loop_pc = "mqtt"
  /\ boot_phase \in MqttPhases /\ network_available_cached
  /\ MqttConnectStarts("boot")
  /\ KeepNet
  /\ UNCHANGED <<device_state, new_state, ret, boot_phase, ntpVars, mqttVars>>

MqttSave ==
  /\ Goes("mqtt_save", "mqtt_announce")
  /\ mqtt_previous_state' = Saved(mqtt_state_active, mqtt_previous_state)
  /\ KeepNet
  /\ UNCHANGED <<device_state, changeVars, boot_phase, ntpVars, mqtt_state_active>>

MqttAnnounce ==
  /\ loop_pc = "mqtt_announce"
  /\ ChangeChecked("MQTT_CONNECTING", "mqtt_wait")
  /\ mqtt_state_active' = TRUE
  /\ KeepNet /\ UNCHANGED <<boot_phase, ntpVars, mqtt_previous_state>>

(* connect returned, after up to some ten seconds; restore_mqtt_state      *)
MqttRestore ==
  /\ loop_pc = "mqtt_wait"
  /\ IF mqtt_state_active
     THEN ChangeChecked(mqtt_previous_state, "mqtt_restored")
     ELSE Returns /\ UNCHANGED device_state
  /\ KeepNet /\ UNCHANGED <<boot_phase, ntpVars, mqttVars>>

MqttRestored ==
  /\ loop_pc = "mqtt_restored" /\ Returns
  /\ mqtt_state_active' = FALSE
  /\ KeepNet
  /\ UNCHANGED <<device_state, boot_phase, ntpVars, mqtt_previous_state>>

MqttStep == MqttIdle \/ MqttDue \/ MqttSave \/ MqttAnnounce \/ MqttRestore \/ MqttRestored

-----------------------------------------------------------------------------
(*                         network.cpp and wifi.cpp                        *)

KeepServices == UNCHANGED <<on_air, in_range, guard_active, mqttVars, ap_mode_active>>
KeepNtp      == UNCHANGED ntpVars


(* network_update_active_state and on_network_changed, which declares a    *)
(* synchronisation over without restoring what it saved.                   *)
UpdateActive ==
  /\ active_network' = IF wifi_connected' THEN "WIFI" ELSE "NONE"
  /\ ntp_sync_in_progress' = (ntp_sync_in_progress /\ active_network' = active_network)
  /\ UNCHANGED <<ntp_synced, ntp_sync_attempts, ntp_state_active, ntp_previous_state,
                 system_time_initialized>>

(* network_connect_pending                                                 *)
RetryPending ==
  /\ loop_pc = "pending"
  /\ network_connect_pending' = FALSE
  /\ IF network_connect_pending
     THEN loop_pc' = "reconnect" /\ caller' = "wifi_check"
     ELSE loop_pc' = "wifi_check" /\ UNCHANGED caller
  /\ KeepServices /\ KeepNtp
  /\ UNCHANGED <<device_state, new_state, ret, boot_phase, wifi_connected, wifi_retry_count,
                 station, active_network, network_available_cached>>

(* network_reconnect: put off, or nothing to do, ...                       *)
ReconnectRefused ==
  /\ loop_pc = "reconnect" /\ Returns
  /\ \/ /\ GuardActive(device_state)
        /\ network_connect_pending' = TRUE
     \/ /\ ~GuardActive(device_state)
        /\ wifi_connected \/ device_state = "WIFI_CONNECTING"
        /\ UNCHANGED network_connect_pending
  /\ KeepServices /\ KeepNtp
  /\ UNCHANGED <<device_state, boot_phase, wifi_connected, wifi_retry_count,
                 station, active_network, network_available_cached>>

(* ... or a scan, which takes seconds: ...                                 *)
ReconnectScans ==
  /\ Goes("reconnect", "wifi_scan")
  /\ ~GuardActive(device_state)
  /\ ~wifi_connected /\ device_state # "WIFI_CONNECTING"
  /\ KeepServices /\ KeepNtp
  /\ UNCHANGED <<device_state, changeVars, boot_phase, wifi_connected, wifi_retry_count,
                 station, netVars>>

(* ... no network found; ...                                               *)
WifiNotFound ==
  /\ loop_pc = "wifi_scan" /\ Returns
  /\ ~in_range
  /\ UNCHANGED <<wifi_connected, wifi_retry_count>>
  /\ UpdateActive
  /\ KeepServices
  /\ UNCHANGED <<device_state, boot_phase, station, network_available_cached,
                 network_connect_pending>>

(* ... or wifi_connect, which takes device_state from whoever has it now.  *)
WifiConnect ==
  /\ Goes("wifi_scan", "wifi_wait")
  /\ in_range
  /\ device_state' = "WIFI_CONNECTING"
  /\ station' = TRUE
  /\ wifi_retry_count' = 0
  /\ KeepServices /\ KeepNtp
  /\ UNCHANGED <<changeVars, boot_phase, wifi_connected, netVars>>

(* check_wifi_connection, from the wait of network_reconnect or from loop: *)
CheckWifiFrom(from, next) ==
  /\ <<from, next>> \in {<<"wifi_wait", "wifi_wait">>, <<"wifi_check", "link">>}
  /\ loop_pc = from
  /\ from = "wifi_wait" => ~wifi_connected /\ wifi_retry_count < WIFI_RETRY_ATTEMPTS
  /\ KeepServices /\ KeepNtp
  /\ UNCHANGED <<device_state, new_state, caller, netVars>>

(* nothing to see while another value stands in device_state, or not yet;  *)
CheckWifiNothing == \E from \in {"wifi_wait", "wifi_check"}, next \in {"wifi_wait", "link"} :
  /\ CheckWifiFrom(from, next) /\ loop_pc' = next
  /\ device_state # "WIFI_CONNECTING" \/ ~station
  /\ UNCHANGED <<wifi_connected, wifi_retry_count, station, boot_phase, ret>>

(* connected;                                                              *)
CheckWifiConnected == \E from \in {"wifi_wait", "wifi_check"}, next \in {"wifi_wait", "link"} :
  /\ CheckWifiFrom(from, next) /\ loop_pc' = "wifi_up" /\ ret' = next
  /\ device_state = "WIFI_CONNECTING" /\ station
  /\ wifi_connected' = TRUE
  /\ boot_phase' = IF boot_phase = "NETWORK_PENDING" THEN "NETWORK_READY" ELSE boot_phase
  /\ UNCHANGED <<wifi_retry_count, station>>

(* failed or out of time: another scan, or the end.                        *)
CheckWifiFailed == \E from \in {"wifi_wait", "wifi_check"}, next \in {"wifi_wait", "link"} :
  /\ CheckWifiFrom(from, next)
  /\ device_state = "WIFI_CONNECTING" /\ ~station
  /\ wifi_retry_count' = wifi_retry_count + 1
  /\ IF wifi_retry_count' >= WIFI_RETRY_ATTEMPTS
     THEN loop_pc' = "wifi_idle" /\ ret' = next /\ UNCHANGED station
     ELSE loop_pc' = next /\ station' = in_range /\ UNCHANGED ret
  /\ UNCHANGED <<wifi_connected, boot_phase>>

(* ... device_state = STATE_IDLE, whatever it has become, ...              *)
WifiUp ==
  /\ Goes("wifi_up", ret)
  /\ device_state' = "IDLE"
  /\ ret' = "boot"
  /\ UNCHANGED <<wifi_connected, wifi_retry_count>>
  /\ UpdateActive
  /\ KeepServices
  /\ UNCHANGED <<new_state, caller, boot_phase, station, network_available_cached,
                 network_connect_pending>>

(* ... also after a failure.                                               *)
WifiIdle ==
  /\ Goes("wifi_idle", ret)
  /\ device_state' = "IDLE"
  /\ ret' = "boot"
  /\ KeepServices /\ KeepNtp
  /\ UNCHANGED <<new_state, caller, boot_phase, wifi_connected, wifi_retry_count,
                 station, netVars>>

(* The wait of network_reconnect ends: connected, given up, or 15 s.       *)
ReconnectEnds ==
  /\ loop_pc = "wifi_wait" /\ Returns
  /\ UNCHANGED <<wifi_connected, wifi_retry_count>>
  /\ UpdateActive
  /\ KeepServices
  /\ UNCHANGED <<device_state, boot_phase, station, network_available_cached,
                 network_connect_pending>>

\* Mutant: one attempt after the loss, none later.
LinkCheckOnce ==
  /\ loop_pc = "link"
  /\ wifi_connected /\ ~station
  /\ wifi_connected' = FALSE /\ wifi_retry_count' = 0
  /\ loop_pc' = "reconnect" /\ caller' = "active"
  /\ KeepServices /\ KeepNtp
  /\ UNCHANGED <<device_state, new_state, ret, boot_phase, station, netVars>>

(* loop looks after the link: the connection was lost, or it has been down *)
(* for 30 s.  In AP mode it does not look.                                 *)
LinkCheck ==
  /\ loop_pc = "link"
  /\ \/ /\ wifi_connected /\ ~station
        /\ wifi_connected' = FALSE /\ wifi_retry_count' = 0
        /\ loop_pc' = "reconnect" /\ caller' = "active"
     \/ /\ ~wifi_connected /\ ~ap_mode_active
        /\ loop_pc' = "reconnect" /\ caller' = "active"
        /\ UNCHANGED <<wifi_connected, wifi_retry_count>>
  /\ KeepServices /\ KeepNtp
  /\ UNCHANGED <<device_state, new_state, ret, boot_phase, station, netVars>>

LinkLeft ==
  /\ Goes("link", "active")
  /\ ~(wifi_connected /\ ~station)
  /\ KeepServices /\ KeepNtp
  /\ UNCHANGED <<device_state, changeVars, boot_phase, wifi_connected, wifi_retry_count,
                 station, netVars>>

NetworkUpdated ==
  /\ Goes("active", "ntp")
  /\ UNCHANGED <<wifi_connected, wifi_retry_count>>
  /\ UpdateActive
  /\ network_available_cached' = wifi_connected
  /\ KeepServices
  /\ UNCHANGED <<device_state, changeVars, boot_phase, station, network_connect_pending>>

NetworkStep ==
  \/ RetryPending \/ ReconnectRefused \/ ReconnectScans \/ WifiNotFound \/ WifiConnect
  \/ CheckWifiNothing \/ CheckWifiConnected \/ CheckWifiFailed \/ WifiUp \/ WifiIdle
  \/ ReconnectEnds \/ LinkCheck \/ LinkLeft \/ NetworkUpdated

-----------------------------------------------------------------------------
(*                   flex-fsk-tx.ino: boot phases and loop                 *)

KeepAllServices ==
  UNCHANGED <<on_air, linkVars, ntpVars, mqttVars, wifiVars, netVars, device_state>>

BootBecomes(from, to) == boot_phase = from /\ boot_phase' = to

(* Phases left as soon as their condition holds.  AP_COMPLETE is left only *)
(* out of AP mode, which AT+NETWORK ends (not modelled).                   *)
BootAdvances ==
  /\ Goes("boot", "sample")
  /\ \/ BootBecomes("NETWORK_PENDING", "NETWORK_READY") /\ station
     \/ BootBecomes("NETWORK_PENDING", "AP_COMPLETE") /\ ~station /\ ap_mode_active
     \/ BootBecomes("NETWORK_READY", "WATCHDOG_ACTIVE") /\ system_time_initialized
     \/ BootBecomes("NETWORK_READY", "NTP_SYNCING") /\ ~system_time_initialized
          /\ ntp_sync_in_progress
     \/ BootBecomes("NTP_SYNCING", "WATCHDOG_ACTIVE") /\ ntp_synced
     \/ BootBecomes("NTP_SYNCING", "NTP_FAILED") /\ ~ntp_synced
          /\ ntp_sync_attempts >= NTP_MAX_ATTEMPTS /\ ~ntp_sync_in_progress
     \/ BootBecomes("SERVICES_PENDING", "COMPLETE")
  /\ KeepAllServices /\ UNCHANGED <<guard_active, changeVars>>

(* Phases left after a delay.  *)
BootDelayOver ==
  /\ Goes("boot", "sample")
  /\ \/ BootBecomes("WATCHDOG_ACTIVE", "MQTT_PENDING")
     \/ BootBecomes("MQTT_PENDING", "MQTT_READY")
     \/ BootBecomes("MQTT_READY", "SERVICES_PENDING")
  /\ KeepAllServices /\ UNCHANGED <<guard_active, changeVars>>

\* Mutant: degraded mode stays.
BootSyncsOnce ==
  /\ Goes("boot", "ntp_save") /\ caller' = "sample"
  /\ BootBecomes("NETWORK_READY", "NTP_SYNCING")
  /\ ~system_time_initialized /\ ~ntp_sync_in_progress
  /\ KeepAllServices /\ UNCHANGED <<guard_active, new_state, ret>>

(* ntp_sync_start, whatever Core 0 is doing: the guard is sampled later.   *)
BootSyncs ==
  /\ Goes("boot", "ntp_save") /\ caller' = "sample"
  /\ \/ /\ BootBecomes("NETWORK_READY", "NTP_SYNCING")
        /\ ~system_time_initialized /\ ~ntp_sync_in_progress
     \/ BootBecomes("NTP_FAILED", "NTP_SYNCING")
  /\ KeepAllServices /\ UNCHANGED <<guard_active, new_state, ret>>

(* mqtt_initialize, when the broker is configured. *)
BootConnects ==
  /\ loop_pc = "boot" /\ BootBecomes("MQTT_PENDING", "MQTT_READY")
  /\ MqttConnectStarts("sample")
  /\ KeepAllServices /\ UNCHANGED <<guard_active, new_state, ret>>

(* The phase's condition does not hold yet. *)
BootWaits ==
  /\ Goes("boot", "sample")
  /\ CASE boot_phase = "NETWORK_PENDING" -> ~station /\ ~ap_mode_active
       [] boot_phase = "NTP_SYNCING" ->
            ~ntp_synced /\ (ntp_sync_attempts < NTP_MAX_ATTEMPTS \/ ntp_sync_in_progress)
       [] OTHER -> boot_phase \in {"NTP_FAILED", "WATCHDOG_ACTIVE", "MQTT_READY", "COMPLETE",
                                  "AP_COMPLETE"}
  /\ KeepAllServices /\ UNCHANGED <<guard_active, changeVars, boot_phase>>

BootStep == BootAdvances \/ BootDelayOver \/ BootSyncs \/ BootConnects \/ BootWaits

(* guard_active and rf_busy, each sampled once per pass; rf_busy keeps the *)
(* console from being served, guard_active the rest but the broker.        *)
SampleGuard ==
  /\ Goes("sample", "sample_rf")
  /\ guard_active' = GuardActive(device_state)
  /\ KeepAllServices /\ UNCHANGED <<changeVars, boot_phase>>

SerialDone ==
  /\ loop_pc' = IF guard_active THEN "mqtt" ELSE "pending"
  /\ guard_active' = FALSE

SampleRfBusy ==
  /\ loop_pc = "sample_rf"
  /\ IF RfActive(device_state) THEN SerialDone
     ELSE loop_pc' = "serial" /\ UNCHANGED guard_active
  /\ KeepAllServices /\ UNCHANGED <<changeVars, boot_phase>>

(* at_process_serial: nothing for device_state; ...                        *)
SerialIdle ==
  /\ loop_pc = "serial" /\ SerialDone
  /\ KeepAllServices /\ UNCHANGED <<changeVars, boot_phase>>

(* ... AT+MSG, accepted unless the guard is active; ...                    *)
SerialStages ==
  /\ loop_pc = "serial" /\ SerialDone
  /\ "console" \in Activities
  /\ ~GuardActive(device_state)
  /\ device_state' = "WAITING_FOR_MSG"
  /\ KeepCore0 /\ UNCHANGED <<changeVars, boot_phase, ntpVars, mqttVars,
                              wifiVars, netVars>>

(* ... the end of a message, or "AT": at_reset_state.                      *)
SerialResets ==
  /\ loop_pc = "serial" /\ SerialDone
  /\ "console" \in Activities
  /\ device_state' = IF device_state \in {"WIFI_CONNECTING", "WIFI_AP_MODE"}
                     THEN device_state ELSE "IDLE"
  /\ KeepCore0 /\ UNCHANGED <<changeVars, boot_phase, ntpVars, mqttVars,
                              wifiVars, netVars>>

LoopStep == SampleGuard \/ SampleRfBusy \/ SerialIdle \/ SerialStages \/ SerialResets

-----------------------------------------------------------------------------
Core1 == ChangeWritten \/ NtpStep \/ MqttStep \/ NetworkStep \/ BootStep \/ LoopStep
Next  == Core1 \/ TxStart \/ TxEnd \/ Link

(* loop keeps running and a transmission ends (Transmission!RfWindowEnds).  *)
(* millis() passes the delay of every boot phase, the wait and interval of *)
(* network_reconnect, the time-out of check_wifi_connection, the hour      *)
(* between two synchronisations and the second between two of its attempts. *)
BootMoves == BootStep /\ boot_phase' # boot_phase
Fairness ==
  /\ WF_vars(Core1) /\ WF_vars(TxEnd)
  /\ SF_vars(BootMoves)
  /\ SF_vars(LinkCheck \/ ReconnectEnds)
  /\ SF_vars(CheckWifiFailed)
  /\ SF_vars(NtpPeriodic)
  /\ SF_vars(NtpAnswered \/ NtpMissed)

Spec == Init /\ [][Next]_vars
FairSpec == Spec /\ Fairness

-----------------------------------------------------------------------------
(*                               Properties                                *)

LoopTypeOK ==
  /\ device_state \in DeviceStates /\ new_state \in DeviceStates
  /\ ntp_previous_state \in DeviceStates /\ mqtt_previous_state \in DeviceStates
  /\ loop_pc \in LoopSteps /\ ret \in LoopSteps /\ caller \in LoopSteps
  /\ boot_phase \in BootPhases
  /\ ntp_sync_attempts \in 0 .. NTP_MAX_ATTEMPTS
  /\ wifi_retry_count \in 0 .. WIFI_RETRY_ATTEMPTS
  /\ active_network \in {"NONE", "WIFI"}
  /\ {on_air, guard_active, system_time_initialized, ntp_synced, ntp_sync_in_progress,
      ntp_state_active, mqtt_state_active, wifi_connected, ap_mode_active,
      network_available_cached, network_connect_pending, in_range, station} \subseteq BOOLEAN

(* device_state never keeps the value of a service that has given it back: *)
(* NTP_SYNC stands only while ntp_time.cpp holds a state to restore, and   *)
(* MQTT_CONNECTING only inside mqtt_connect, however the two nest and      *)
(* whatever Core 0 and WiFi write in between.                              *)
ServiceStateOwned ==
  /\ device_state = "NTP_SYNC" =>
       ntp_state_active \/ loop_pc = "ntp_begin"
  /\ device_state = "MQTT_CONNECTING" =>
       mqtt_state_active /\ loop_pc \in {"mqtt_wait", "change", "mqtt_restored"}

(* A synchronisation under way always has a state to restore at its end,   *)
(* also after the transport changed under it.                              *)
SyncHasSavedState == ntp_sync_in_progress => ntp_state_active

(* No saved value is a value of the service that saved it, so restoring    *)
(* never announces a service again.                                        *)
NeverRestoresItself ==
  /\ ntp_state_active => ntp_previous_state \notin {"NTP_SYNC", "MQTT_CONNECTING"}
  /\ mqtt_state_active => mqtt_previous_state # "MQTT_CONNECTING"

(* Past the watchdog phase the clock is set, which the certificates of the *)
(* broker need; AP mode skips it.                                          *)
ServicesHaveTime ==
  boot_phase \in {"WATCHDOG_ACTIVE", "MQTT_PENDING", "MQTT_READY", "SERVICES_PENDING",
                  "COMPLETE"} => system_time_initialized

(* The state predicates of a pass of loop together: every variable has its    *)
(* type (an attempt counter never passes its maximum), a synchronisation in   *)
(* progress has a device_state to give back, which is never a value some      *)
(* service put there itself, and no service starts without the time           *)
(* (ntp_time.cpp:51, mqtt.cpp:289, flex-fsk-tx.ino:282).                      *)
LoopInv == LoopTypeOK /\ SyncHasSavedState /\ NeverRestoresItself /\ ServicesHaveTime

(* STATUS says TRANSMITTING only while something is sent                   *)
(* (AT_COMMANDS.md, Device Status States).                                 *)
TransmittingMeansOnAir == device_state = "TRANSMITTING" => on_air

(* STATUS says NTP_SYNC only while a synchronisation is in progress.       *)
NtpSyncMeansInProgress ==
  device_state = "NTP_SYNC" /\ loop_pc \in {"sample", "serial"} => ntp_sync_in_progress

(* While a frame is on the air no command starts staging a page            *)
(* (AT_COMMANDS.md: everything else returns ERROR until the guard clears). *)
CommandsRefusedOnAir == [][SerialStages => ~on_air]_vars

(* The network is back for good, and Core 0 has nothing more to send.      *)
Settles == <>[]in_range /\ <>[][~Link]_vars /\ <>[]~on_air

(* WiFi that is back is found again: whatever device_state went through,   *)
(* loop tries until check_wifi_connection sees the connection.             *)
WifiComesBack == ~ap_mode_active /\ Settles => <>[]wifi_connected

(* The boot sequence ends, also when the network was lost or the time      *)
(* server silent on the way, once the server answers for good.             *)
BootCompletes ==
  ~ap_mode_active /\ Settles /\ <>[][~NtpMissed]_vars => <>(boot_phase = "COMPLETE")

(* Every synchronisation gives device_state back in the end.               *)
SyncEnds == ~ap_mode_active /\ Settles => []<>~ntp_state_active
=============================================================================
