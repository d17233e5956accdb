------------------------------ MODULE Cellular ------------------------------
(***************************************************************************)
(* The build with ENABLE_GSM: the modem (gsm.cpp) and the choice between   *)
(* WiFi, the modem and the access point (network.cpp, wifi.cpp), from      *)
(* network_boot through the network section of loop.                       *)
(*                                                                         *)
(* The modem is driven through device_state, which Core 0 and the console  *)
(* write too: an attempt is under way while it says GSM_CONNECTING or      *)
(* GSM_REGISTERING, and anybody who writes IDLE there ends the attempt.    *)
(*                                                                         *)
(* pc is where Core 1 stands; Core 0 and the world move between its steps, *)
(* that is wherever the code waits (delay, async_delay, a modem's answer). *)
(* ret is where check_gsm_connection or gsm_connect returns to, after      *)
(* where network_reconnect does.  Intervals may have passed or not, except *)
(* the attempt's own timeout, which counts from gsm_connect_start.  Time   *)
(* synchronisation, MQTT and the steps of change_device_state are          *)
(* LoopServices'; gsm_config.enable_gsm is set and a WiFi network stored.  *)
(***************************************************************************)
EXTENDS Naturals, FiniteSets, DeviceState

CONSTANTS A76xxModes,                      \* 3 in gsm.cpp: LTE, 3G, 2G
          GSM_INTERNET_TEST_MAX_ATTEMPTS,  \* 10 in gsm.cpp
          WIFI_RETRY_ATTEMPTS,             \* 3 in config.h
          Modems,                          \* the families that may be fitted
          Cells,                           \* what the cellular network may be like
          Activities,                      \* what goes on around the network section
          MaxOutages, MaxRequests          \* bounds: moves of the world, of the console

ASSUME CellularAssumption ==
  /\ A76xxModes \in Nat \ {0, 1} /\ GSM_INTERNET_TEST_MAX_ATTEMPTS \in Nat \ {0}
  /\ WIFI_RETRY_ATTEMPTS \in Nat \ {0}
  /\ Modems \subseteq {"A7670SA", "SIM800L"}
  /\ Cells \subseteq {"good", "weak", "none", "denied", "no_data", "no_internet",
                      "no_sim", "silent"}
  /\ Activities \subseteq {"transmissions", "abort", "modes", "outages"}
  /\ MaxOutages \in Nat /\ MaxRequests \in Nat

VARIABLES
  device_state, on_air,                 \* on_air: Core 0 holds the radio
  pc, ret, after,
  guard_active, sampled_mode,           \* loop's copies, taken at the top of a pass
  network_mode, network_boot_complete, network_connect_pending,
  wifi_connected, wifi_retry_count, ap_mode_active,
  active_network, network_available_cached,
  gsm_power_state, gsm_modem_ready, gsm_initialized, gsm_module_type,
  gsm_connected, gsm_registration_complete, gsm_internet_verified,
  gsm_tcp_warmed_up, gsm_internet_test_attempt, gsm_boot_modes_exhausted,
  gsm_retry_count, gsm_current_network_mode_index,
  connect_start_fresh,                  \* gsm_connect_start was set within the timeout
  modem, cell,                          \* the modem fitted and what its network is like
  in_range, station,                    \* a stored WiFi network; WiFi.status() = WL_CONNECTED
  outages, requests,                    \* moves so far
  lock_broken                           \* history: WiFi has come up in the GSM mode

coreVars == <<device_state, on_air>>
pcVars   == <<pc, ret, after>>
loopVars == <<guard_active, sampled_mode>>
netVars  == <<network_mode, network_boot_complete, network_connect_pending>>
wifiVars == <<wifi_connected, wifi_retry_count, ap_mode_active>>
activeVars == <<active_network, network_available_cached>>
powerVars  == <<gsm_power_state, gsm_modem_ready, gsm_initialized>>
dataVars   == <<gsm_connected, gsm_internet_verified, gsm_tcp_warmed_up>>
attemptVars == <<gsm_registration_complete, gsm_retry_count, connect_start_fresh>>
modeVars == <<gsm_module_type, gsm_current_network_mode_index>>
gsmVars  == <<powerVars, dataVars, attemptVars, modeVars, gsm_internet_test_attempt,
              gsm_boot_modes_exhausted>>
worldVars == <<modem, cell, in_range, station>>
boundVars == <<outages, requests>>
vars == <<boundVars, lock_broken, coreVars, pcVars, loopVars, netVars, wifiVars, activeVars, gsmVars, worldVars>>

NetworkModes == {"AUTO", "WIFI", "GSM", "AP"}
CountLimit == 3                       \* the only value gsm_retry_count is compared with

(* gsm_capabilities_for_type and the predicates over it                    *)
NetworkModeCount(type) == IF type = "A7670SA" THEN A76xxModes ELSE 1
Multimode == NetworkModeCount(gsm_module_type) > 1
RequiresInternet == gsm_module_type = "A7670SA"

Connecting(state) == state \in {"GSM_CONNECTING", "GSM_REGISTERING"}
Attempting == Connecting(device_state)
Changed(to) == IF IsValidTransition(device_state, to) THEN to ELSE device_state

(* Core 1 moves on; every one of its steps keeps the bounds and the history *)
Noted == lock_broken' = (lock_broken \/ (network_mode = "GSM" /\ wifi_connected))
         /\ UNCHANGED outages
Moves(to, back, then) ==
  pc' = to /\ ret' = back /\ after' = then /\ Noted /\ UNCHANGED requests
Goes(to)          == Moves(to, ret, after)
Returns           == Moves(ret, "top", after)       \* check_gsm_connection, gsm_connect
Leaves            == Moves(after, ret, "top")       \* network_reconnect
Calls(step, back) == Moves(step, back, after)
Reconnects(then)  == Moves("reconnect", ret, then)
Asked(to, back) ==
  /\ requests < MaxRequests /\ requests' = requests + 1
  /\ pc' = to /\ ret' = back /\ UNCHANGED after /\ Noted
CanMutate == ~GuardActive(device_state)

Init ==
  /\ device_state = "IDLE" /\ on_air = FALSE
  /\ pc = "boot" /\ ret = "top" /\ after = "top"
  /\ guard_active = FALSE /\ sampled_mode = "AUTO"
  /\ network_mode = "AUTO" /\ network_boot_complete = FALSE /\ network_connect_pending = FALSE
  /\ wifi_connected = FALSE /\ wifi_retry_count = 0 /\ ap_mode_active = FALSE
  /\ active_network = "NONE" /\ network_available_cached = FALSE
  /\ gsm_power_state = FALSE /\ gsm_modem_ready = FALSE /\ gsm_initialized = FALSE
  /\ gsm_module_type = "A7670SA"
  /\ gsm_connected = FALSE /\ gsm_registration_complete = FALSE
  /\ gsm_internet_verified = FALSE /\ gsm_tcp_warmed_up = FALSE
  /\ gsm_internet_test_attempt = 0 /\ gsm_boot_modes_exhausted = FALSE
  /\ gsm_retry_count = 0 /\ gsm_current_network_mode_index = 0
  /\ connect_start_fresh = FALSE
  /\ modem \in Modems /\ cell \in Cells
  /\ in_range \in BOOLEAN /\ station = FALSE
  /\ outages = 0 /\ requests = 0 /\ lock_broken = FALSE

-----------------------------------------------------------------------------
(*                    Core 0, the console and the world                    *)

KeepLoop == UNCHANGED <<pcVars, loopVars, netVars, wifiVars, activeVars, gsmVars>>

(* init_transmission_core comes after network_boot.                        *)
TxStart ==
  /\ "transmissions" \in Activities /\ network_boot_complete /\ ~on_air
  /\ on_air' = TRUE /\ device_state' = "TRANSMITTING"
  /\ KeepLoop /\ UNCHANGED <<worldVars, boundVars, lock_broken>>

TxEnd ==
  /\ on_air /\ on_air' = FALSE /\ device_state' = "IDLE"
  /\ KeepLoop /\ UNCHANGED <<worldVars, boundVars, lock_broken>>

World ==
  /\ "outages" \in Activities /\ outages < MaxOutages /\ outages' = outages + 1
  /\ \/ in_range' = ~in_range /\ station' = FALSE /\ UNCHANGED <<modem, cell>>
     \/ cell' \in Cells \ {cell} /\ UNCHANGED <<modem, in_range, station>>
     \/ /\ in_range /\ network_mode \in {"AUTO", "WIFI"} /\ ~ap_mode_active
        /\ station' = ~station /\ UNCHANGED <<modem, cell, in_range>>
  /\ KeepLoop /\ UNCHANGED <<coreVars, requests, lock_broken>>

-----------------------------------------------------------------------------
(*                        network_update_active_state                      *)

Active(wifi, gsm) == IF wifi THEN "WIFI" ELSE IF gsm THEN "GSM" ELSE "NONE"
UpdateActive == active_network' = Active(wifi_connected', gsm_connected')

-----------------------------------------------------------------------------
(*                             Modem life cycle                            *)

\* Mutant: the modem is off and still counts as initialised
PowerPinOff == gsm_power_state' = FALSE /\ gsm_modem_ready' = FALSE /\ UNCHANGED gsm_initialized
PowerFlagsOff == gsm_power_state' = FALSE /\ gsm_modem_ready' = FALSE /\ gsm_initialized' = FALSE
SessionFlagsOff ==
  /\ gsm_connected' = FALSE /\ gsm_registration_complete' = FALSE
  /\ gsm_tcp_warmed_up' = FALSE /\ gsm_internet_verified' = FALSE

(* gsm_disconnect and gsm_power_off, as every caller but gsm_initialize    *)
(* calls them                                                              *)
Shutdown == PowerFlagsOff /\ SessionFlagsOff /\ gsm_internet_test_attempt' = 0
KeepModem == UNCHANGED <<powerVars, dataVars, gsm_registration_complete, gsm_internet_test_attempt>>
KeepModemRest == UNCHANGED <<gsm_retry_count, connect_start_fresh, modeVars,
                             gsm_boot_modes_exhausted>>

KeepShared == UNCHANGED <<on_air, loopVars, netVars, wifiVars, activeVars>>

(* What the modem answers.  Only the status 2 means searching: a modem     *)
(* that gives no answer counts as refused.                                 *)
ATReady == cell # "silent"
SimReady == cell # "no_sim"
Registration ==
  CASE cell = "none" -> "searching"
    [] cell \in {"denied", "no_sim", "silent"} -> "refused"
    [] cell = "weak" -> "too weak"
    [] OTHER -> "registered"
HasData     == cell \in {"good", "weak", "no_internet"}
HasInternet == cell \in {"good", "weak"}

(* gsm_connect: refused while the guard is up, else gsm_initialize         *)
GsmConnect ==
  /\ pc = "connect" /\ gsm_boot_modes_exhausted' = FALSE
  /\ IF ~CanMutate
     THEN /\ Returns /\ network_connect_pending' = TRUE
          /\ UNCHANGED <<device_state, gsm_power_state>>
     ELSE IF gsm_initialized /\ gsm_modem_ready
     THEN /\ Goes("start")
          /\ UNCHANGED <<device_state, gsm_power_state, network_connect_pending>>
     ELSE /\ Goes("init")                                  \* gsm_power_on waits 5 s
          /\ device_state' = Changed("GSM_INITIALIZING")
          /\ gsm_power_state' = TRUE
          /\ UNCHANGED network_connect_pending
  /\ UNCHANGED <<on_air, loopVars, network_mode, network_boot_complete, wifiVars, activeVars,
                 gsm_modem_ready, gsm_initialized, dataVars, attemptVars, modeVars,
                 gsm_internet_test_attempt, worldVars>>

(* The modem does not answer: off again, IDLE and then ERROR.              *)
InitSilent ==
  /\ pc = "init" /\ ~ATReady
  /\ PowerFlagsOff /\ SessionFlagsOff /\ gsm_internet_test_attempt' = 0
  /\ device_state' = "ERROR"
  /\ Returns /\ KeepShared /\ KeepModemRest /\ UNCHANGED worldVars

(* gsm_detect_module_from_info                                             *)
Detected ==
  /\ gsm_module_type' = modem
  /\ gsm_current_network_mode_index' =
       IF gsm_module_type = modem THEN gsm_current_network_mode_index ELSE 0

(* The modem answers: its family, then the PIN and the SIM.                *)
InitAnswers ==
  /\ pc = "init" /\ ATReady
  /\ gsm_modem_ready' = TRUE /\ Detected
  /\ IF SimReady
     THEN device_state' = Changed("IDLE") /\ Goes("start") /\ gsm_initialized' = TRUE
     ELSE device_state' = Changed("ERROR") /\ Returns /\ UNCHANGED gsm_initialized
  /\ KeepShared
  /\ UNCHANGED <<gsm_power_state, dataVars, attemptVars, gsm_internet_test_attempt,
                 gsm_boot_modes_exhausted, worldVars>>

(* The rest of gsm_connect: the counters, AT+CNMP, GSM_CONNECTING.         *)
ConnectStarts ==
  /\ pc = "start" /\ Returns
  /\ IF gsm_connected \/ Attempting
     THEN UNCHANGED <<device_state, dataVars, attemptVars, modeVars, gsm_internet_test_attempt>>
     ELSE /\ gsm_retry_count' = 0 /\ gsm_registration_complete' = FALSE
          /\ gsm_tcp_warmed_up' = FALSE /\ gsm_internet_verified' = FALSE
          /\ gsm_internet_test_attempt' = 0 /\ connect_start_fresh' = TRUE
          /\ gsm_current_network_mode_index' =
               IF Multimode THEN gsm_current_network_mode_index ELSE 0
          /\ device_state' = Changed("GSM_CONNECTING")
          /\ UNCHANGED <<gsm_connected, gsm_module_type>>
  /\ KeepShared /\ UNCHANGED <<powerVars, gsm_boot_modes_exhausted, worldVars>>

-----------------------------------------------------------------------------
(*                           check_gsm_connection                          *)

HasNextMode == gsm_current_network_mode_index < NetworkModeCount(gsm_module_type) - 1
NextMode == gsm_current_network_mode_index + 1

(* gsm_retry_count++.  Only >= 3 is ever asked, so the count stands at 3   *)
(* for 3..255 and may then wrap, as the uint8_t does.                      *)
Counted(n) == IF n < CountLimit THEN {n + 1} ELSE {CountLimit, 0}
\* Mutant: the count is kept when an attempt times out
NotCounted(n) == {n}
AfterTimeout(n) == Counted(n)

KeepCheck == KeepShared /\ UNCHANGED <<powerVars, gsm_module_type, worldVars>>

(* Not initialised, or no attempt under way.  With an attempt under way    *)
(* gsm_power_state is set (PowerFollows); the code's test of it stands.    *)
CheckIdle ==
  /\ pc = "check" /\ (~gsm_initialized \/ ~Attempting \/ ~gsm_power_state)
  /\ Returns
  /\ IF gsm_initialized /\ Attempting
     THEN gsm_initialized' = FALSE /\ device_state' = "ERROR"
     ELSE UNCHANGED <<gsm_initialized, device_state>>
  /\ KeepShared
  /\ UNCHANGED <<gsm_power_state, gsm_modem_ready, dataVars, attemptVars, modeVars,
                 gsm_internet_test_attempt, gsm_boot_modes_exhausted, worldVars>>

CheckDue == pc = "check" /\ gsm_initialized /\ Attempting /\ gsm_power_state

(* connection_timeout since gsm_connect_start: three of them end it.       *)
CheckTimesOut ==
  /\ CheckDue /\ ~connect_start_fresh
  /\ connect_start_fresh' = TRUE
  /\ gsm_retry_count' \in AfterTimeout(gsm_retry_count)
  /\ IF gsm_retry_count' >= CountLimit
     THEN device_state' = "IDLE" /\ Returns
     ELSE UNCHANGED device_state /\ Goes("check_on")
  /\ KeepCheck
  /\ UNCHANGED <<dataVars, gsm_registration_complete, gsm_internet_test_attempt,
                 gsm_boot_modes_exhausted, gsm_current_network_mode_index>>

CheckInTime ==
  /\ CheckDue /\ Goes("check_on")
  /\ KeepCheck
  /\ UNCHANGED <<device_state, dataVars, attemptVars, gsm_internet_test_attempt,
                 gsm_boot_modes_exhausted, gsm_current_network_mode_index>>

(* AT+CREG?: home or roaming, with the signal; searching; anything else.   *)
CheckRegistration ==
  /\ pc = "check_on" /\ ~gsm_registration_complete /\ Returns
  /\ CASE Registration = "searching" ->
            connect_start_fresh' = FALSE
            /\ UNCHANGED <<device_state, gsm_registration_complete, gsm_retry_count>>
       [] Registration = "refused" ->
            connect_start_fresh' = TRUE
            /\ gsm_retry_count' \in Counted(gsm_retry_count)
            /\ UNCHANGED <<device_state, gsm_registration_complete>>
       [] Registration = "too weak" ->            \* "Signal too weak, waiting..."
            gsm_registration_complete' = TRUE /\ connect_start_fresh' = FALSE
            /\ UNCHANGED <<device_state, gsm_retry_count>>
       [] OTHER ->
            gsm_registration_complete' = TRUE /\ connect_start_fresh' = FALSE
            /\ device_state' = Changed("GSM_REGISTERING")
            /\ UNCHANGED gsm_retry_count
  /\ KeepCheck
  /\ UNCHANGED <<dataVars, gsm_internet_test_attempt, gsm_boot_modes_exhausted,
                 gsm_current_network_mode_index>>

(* gprsConnect succeeds; 3 s to settle follow.                             *)
DataConnects ==
  /\ pc = "check_on" /\ gsm_registration_complete /\ HasData
  /\ gsm_connected' = TRUE /\ gsm_retry_count' = 0
  /\ Goes("data") /\ KeepCheck
  /\ UNCHANGED <<device_state, gsm_internet_verified, gsm_tcp_warmed_up, connect_start_fresh,
                 gsm_registration_complete, gsm_internet_test_attempt, gsm_boot_modes_exhausted,
                 gsm_current_network_mode_index>>

(* gprsConnect fails: after three failures the next mode's turn.  The      *)
(* modem is told of a mode by gsm_connect only, which is not called here.  *)
DataFails ==
  /\ pc = "check_on" /\ gsm_registration_complete /\ ~HasData
  /\ connect_start_fresh' = TRUE
  /\ \E n \in Counted(gsm_retry_count) :
       IF Multimode /\ n >= CountLimit /\ HasNextMode
       THEN /\ gsm_current_network_mode_index' = NextMode
            /\ gsm_retry_count' = 0 /\ gsm_registration_complete' = FALSE
       ELSE /\ gsm_retry_count' = n /\ UNCHANGED gsm_registration_complete
            /\ gsm_current_network_mode_index' =
                 IF Multimode /\ n >= CountLimit THEN 0 ELSE gsm_current_network_mode_index
  /\ Returns /\ KeepCheck
  /\ UNCHANGED <<device_state, dataVars, gsm_internet_test_attempt, gsm_boot_modes_exhausted>>

(* The session is up: IDLE, the transport, then the first internet test.   *)
DataUp ==
  /\ pc = "data" /\ device_state' = Changed("IDLE")
  /\ active_network' = Active(wifi_connected, gsm_connected)
  /\ IF gsm_tcp_warmed_up THEN Returns ELSE Goes("probe")
  /\ gsm_internet_test_attempt' = IF gsm_tcp_warmed_up THEN 0 ELSE 1
  /\ UNCHANGED <<on_air, loopVars, netVars, wifiVars, network_available_cached, powerVars,
                 dataVars, attemptVars, modeVars, gsm_boot_modes_exhausted, worldVars>>

(* One attempt of the test; a failed one renews the data session.          *)
Probe ==
  /\ pc = "probe"
  /\ IF HasInternet
     THEN /\ gsm_internet_verified' = TRUE /\ gsm_tcp_warmed_up' = TRUE
          /\ gsm_internet_test_attempt' = 0 /\ Returns
     ELSE /\ UNCHANGED <<gsm_internet_verified, gsm_tcp_warmed_up>>
          /\ IF HasData /\ gsm_internet_test_attempt < GSM_INTERNET_TEST_MAX_ATTEMPTS
             THEN Goes("probe") /\ gsm_internet_test_attempt' = gsm_internet_test_attempt + 1
             ELSE Goes("unverified") /\ gsm_internet_test_attempt' = 0
  /\ KeepShared
  /\ UNCHANGED <<device_state, powerVars, gsm_connected, attemptVars, modeVars,
                 gsm_boot_modes_exhausted, worldVars>>

(* No internet: the next mode; after the last, boot gives up and the       *)
(* runtime starts over.  A SIM800L keeps its session.                      *)
Unverified ==
  /\ pc = "unverified"
  /\ IF ~Multimode
     THEN /\ gsm_tcp_warmed_up' = TRUE /\ Returns
          /\ UNCHANGED <<device_state, active_network, gsm_connected, gsm_registration_complete,
                         gsm_internet_verified, gsm_current_network_mode_index,
                         gsm_boot_modes_exhausted>>
     ELSE /\ SessionFlagsOff
          /\ device_state' = IF Attempting THEN Changed("IDLE") ELSE device_state
          /\ active_network' = Active(wifi_connected, FALSE)
          /\ IF ~HasNextMode /\ ~network_boot_complete
             THEN /\ gsm_boot_modes_exhausted' = TRUE /\ Returns
                  /\ UNCHANGED gsm_current_network_mode_index
             ELSE /\ gsm_current_network_mode_index' =
                       IF HasNextMode THEN NextMode ELSE 0
                  /\ Goes("connect") /\ UNCHANGED gsm_boot_modes_exhausted
  /\ UNCHANGED <<on_air, loopVars, netVars, wifiVars, network_available_cached, powerVars,
                 gsm_retry_count, connect_start_fresh, gsm_module_type,
                 gsm_internet_test_attempt, worldVars>>

GsmStep == \/ GsmConnect \/ InitSilent \/ InitAnswers \/ ConnectStarts
           \/ CheckIdle \/ CheckTimesOut \/ CheckInTime \/ CheckRegistration
           \/ DataConnects \/ DataFails \/ DataUp \/ Probe \/ Unverified

-----------------------------------------------------------------------------
(*                                   WiFi                                  *)

KeepGsm == UNCHANGED gsmVars
MayJoin == IF in_range THEN BOOLEAN ELSE {FALSE}   \* what WiFi.begin comes to

(* wifi_connect, with stored networks; it waits for the first answer.      *)
WifiConnect ==
  /\ device_state' = "WIFI_CONNECTING" /\ wifi_retry_count' = 0
  /\ station' \in MayJoin

\* Mutant: the modem stays on when WiFi takes over
ModemStays == KeepModem
ModemOff == IF gsm_connected THEN Shutdown ELSE KeepModem

(* check_wifi_connection, in WIFI_CONNECTING                               *)
WifiUp ==
  /\ station /\ UNCHANGED station
  /\ wifi_connected' = TRUE /\ UNCHANGED <<wifi_retry_count, ap_mode_active>>
  /\ device_state' = "IDLE"
  /\ ModemOff
  /\ active_network' = "WIFI"

WifiRetries ==
  /\ ~station /\ wifi_retry_count' = wifi_retry_count + 1
  /\ IF wifi_retry_count' >= WIFI_RETRY_ATTEMPTS
     THEN device_state' = "IDLE" /\ UNCHANGED station
     ELSE station' \in MayJoin /\ UNCHANGED device_state
  /\ UNCHANGED <<wifi_connected, ap_mode_active, active_network>> /\ KeepModem

CheckWifi ==
  \/ device_state = "WIFI_CONNECTING" /\ (WifiUp \/ WifiRetries)
  \/ /\ \/ device_state # "WIFI_CONNECTING"
        \/ ~station                                   \* neither refused nor timed out yet
     /\ UNCHANGED <<device_state, station, wifiVars, active_network>> /\ KeepModem

KeepWorldButStation == UNCHANGED <<modem, cell, in_range>>

-----------------------------------------------------------------------------
(*                                network_boot                             *)

StartAp == device_state' = "WIFI_AP_MODE" /\ ap_mode_active' = TRUE

KeepBoot == UNCHANGED <<on_air, loopVars, network_mode, network_connect_pending,
                        network_available_cached, worldVars>>

(* wifi_ssid_scan, which may fail, then wifi_connect or the modem          *)
BootScans ==
  /\ pc = "boot"
  /\ \/ in_range /\ Goes("boot_wifi") /\ WifiConnect
     \/ /\ Goes("boot_gsm") /\ UNCHANGED <<device_state, wifi_retry_count, station>>
  /\ UNCHANGED <<on_air, loopVars, netVars, wifi_connected, ap_mode_active, activeVars>>
  /\ KeepGsm /\ KeepWorldButStation

BootWaitsWifi ==
  /\ pc = "boot_wifi" /\ CheckWifi
  /\ Goes(IF wifi_connected' THEN "top"
          ELSE IF wifi_retry_count' >= WIFI_RETRY_ATTEMPTS THEN "boot_gsm" ELSE "boot_wifi")
  /\ network_boot_complete' = wifi_connected'
  /\ KeepModemRest /\ KeepWorldButStation
  /\ UNCHANGED <<on_air, loopVars, network_mode, network_connect_pending,
                 network_available_cached>>

(* The 30 s are over.                                                      *)
BootWifiTimesOut ==
  /\ pc = "boot_wifi" /\ ~wifi_connected /\ Goes("boot_gsm")
  /\ UNCHANGED <<coreVars, loopVars, netVars, wifiVars, activeVars, worldVars>> /\ KeepGsm

BootTriesGsm ==
  /\ pc = "boot_gsm" /\ Calls("connect", "boot_check")
  /\ UNCHANGED <<coreVars, loopVars, netVars, wifiVars, activeVars, worldVars>> /\ KeepGsm

GsmServes == IF RequiresInternet THEN gsm_internet_verified ELSE gsm_connected

\* Mutant: boot waits for the modem as long as the modem tries
BudgetEnds == FALSE
BootBudget == TRUE

(* network_attempt_gsm_boot: until the modem serves, its modes or the time *)
(* budget run out, or the attempt has died.                                *)
BootChecksGsm ==
  /\ pc = "boot_wait" /\ ~GsmServes /\ ~gsm_boot_modes_exhausted
  /\ Calls("check", "boot_check")
  /\ UNCHANGED <<coreVars, loopVars, netVars, wifiVars, activeVars, worldVars>> /\ KeepGsm

BootAttemptOn ==
  /\ pc = "boot_check"
  /\ (Attempting \/ gsm_connected \/ gsm_internet_verified) /\ Goes("boot_wait")
  /\ UNCHANGED <<coreVars, loopVars, netVars, wifiVars, activeVars, worldVars>> /\ KeepGsm

BootEndsWithGsm ==
  /\ pc = "boot_wait" /\ GsmServes /\ Goes("top")
  /\ network_boot_complete' = TRUE
  /\ KeepBoot /\ KeepGsm /\ UNCHANGED <<device_state, wifiVars, active_network>>

KeepAp == KeepBoot /\ KeepGsm /\ UNCHANGED <<wifi_connected, wifi_retry_count, active_network>>
BootGivesUp ==
  /\ pc = "boot_wait" /\ ~GsmServes /\ (gsm_boot_modes_exhausted \/ BootBudget)
  /\ Goes("top") /\ StartAp /\ network_boot_complete' = TRUE /\ KeepAp

BootAttemptDead ==
  /\ pc = "boot_check" /\ ~Attempting /\ ~gsm_connected /\ ~gsm_internet_verified
  /\ Goes("top") /\ StartAp /\ network_boot_complete' = TRUE /\ KeepAp

BootStep == \/ BootScans \/ BootWaitsWifi \/ BootWifiTimesOut \/ BootTriesGsm
            \/ BootChecksGsm \/ BootAttemptOn \/ BootEndsWithGsm \/ BootGivesUp \/ BootAttemptDead

-----------------------------------------------------------------------------
(*                     network_reconnect, called by loop                   *)

KeepAll == UNCHANGED <<coreVars, loopVars, network_mode, network_boot_complete, wifiVars,
                       activeVars, worldVars>> /\ KeepGsm

\* Mutant: WiFi is looked for only without a transport
WifiWantedAlone == /\ network_mode = "AUTO" /\ ~wifi_connected /\ ~gsm_connected
                   /\ device_state # "WIFI_CONNECTING" /\ ~Attempting
WifiWanted == /\ network_mode = "AUTO" /\ ~wifi_connected
              /\ device_state # "WIFI_CONNECTING" /\ ~Attempting
\* Mutant: the modem is tried again only when it is off
GsmWantedOff == network_mode = "GSM" /\ ~gsm_power_state /\ ~Attempting
GsmWanted == network_mode = "GSM" /\ ~gsm_connected /\ ~Attempting
WifiOnlyWanted == network_mode = "WIFI" /\ ~wifi_connected /\ device_state # "WIFI_CONNECTING"
LeftAlone == ap_mode_active /\ network_mode # "AUTO"

ReconnectRefused ==
  /\ pc = "reconnect" /\ Leaves
  /\ \/ LeftAlone /\ UNCHANGED network_connect_pending
     \/ ~LeftAlone /\ ~CanMutate /\ network_connect_pending' = TRUE
     \/ /\ ~LeftAlone /\ CanMutate /\ ~WifiWanted /\ ~GsmWanted /\ ~WifiOnlyWanted
        /\ UNCHANGED network_connect_pending
  /\ KeepAll

(* The interval since the last scan or retry has not passed: 60 s for the  *)
(* WiFi mode, 300 s for the GSM mode and for AUTO with the modem connected *)
ReconnectEarly ==
  /\ pc = "reconnect" /\ ~LeftAlone /\ CanMutate /\ Leaves
  /\ WifiOnlyWanted \/ GsmWanted \/ (WifiWanted /\ gsm_connected)
  /\ UNCHANGED network_connect_pending /\ KeepAll

ReconnectWithGsm ==
  /\ pc = "reconnect" /\ ~LeftAlone /\ CanMutate /\ GsmWanted
  /\ Moves("connect", after, "top")
  /\ UNCHANGED network_connect_pending /\ KeepAll

ReconnectWithWifi ==
  /\ pc = "reconnect" /\ ~LeftAlone /\ CanMutate /\ WifiOnlyWanted /\ Leaves
  /\ IF in_range THEN WifiConnect ELSE UNCHANGED <<device_state, wifi_retry_count, station>>
  /\ UNCHANGED <<on_air, loopVars, netVars, wifi_connected, ap_mode_active, activeVars>>
  /\ KeepGsm /\ KeepWorldButStation

(* AUTO: scan (which may find nothing), then WiFi if there is any, else    *)
(* the modem.                                                              *)
ReconnectScans ==
  /\ pc = "reconnect" /\ ~LeftAlone /\ CanMutate /\ WifiWanted
  /\ \/ in_range /\ Goes("reconnect_wifi") /\ WifiConnect
     \/ /\ IF gsm_connected THEN Goes("reconnect_end")
           ELSE Calls("connect", "reconnect_end")
        /\ UNCHANGED <<device_state, wifi_retry_count, station>>
  /\ UNCHANGED <<on_air, loopVars, netVars, wifi_connected, ap_mode_active, activeVars>>
  /\ KeepGsm /\ KeepWorldButStation

(* At most 15 s of check_wifi_connection.                                  *)
ReconnectWaits ==
  /\ pc = "reconnect_wifi" /\ CheckWifi
  /\ Goes(IF wifi_connected' \/ wifi_retry_count' >= WIFI_RETRY_ATTEMPTS
          THEN "reconnect_end" ELSE "reconnect_wifi")
  /\ KeepModemRest /\ KeepWorldButStation
  /\ UNCHANGED <<on_air, loopVars, netVars, network_available_cached>>

ReconnectTimesOut ==
  /\ pc = "reconnect_wifi" /\ Goes("reconnect_end")
  /\ UNCHANGED network_connect_pending /\ KeepAll

(* network_update_active_state, and the modem off when WiFi has taken over *)
ReconnectEnds ==
  /\ pc = "reconnect_end" /\ Leaves
  /\ active_network' = Active(wifi_connected, gsm_connected)
  /\ IF wifi_connected THEN ModemOff ELSE KeepModem
  /\ UNCHANGED <<device_state, wifiVars>>
  /\ KeepModemRest
  /\ UNCHANGED <<on_air, loopVars, netVars, network_available_cached, worldVars>>

ReconnectStep == \/ ReconnectRefused \/ ReconnectEarly \/ ReconnectWithGsm \/ ReconnectWithWifi
                 \/ ReconnectScans \/ ReconnectWaits \/ ReconnectTimesOut \/ ReconnectEnds

-----------------------------------------------------------------------------
(*                                   loop                                  *)

KeepPassing == UNCHANGED <<coreVars, netVars, wifiVars, activeVars, worldVars>> /\ KeepGsm

Sample ==
  /\ pc = "top" /\ Goes("serial")
  /\ guard_active' = GuardActive(device_state) /\ sampled_mode' = network_mode
  /\ KeepPassing

SerialDone ==
  /\ pc = "serial" /\ Goes(IF guard_active THEN "top" ELSE "pending")
  /\ UNCHANGED loopVars /\ KeepPassing

(* AT+ABORT: at_reset_state                                                *)
Abort ==
  /\ "abort" \in Activities /\ pc = "serial" /\ ~guard_active
  /\ device_state \notin {"WIFI_CONNECTING", "WIFI_AP_MODE"}
  /\ device_state' = "IDLE" /\ Asked("pending", ret)
  /\ UNCHANGED <<on_air, loopVars, netVars, wifiVars, activeVars, worldVars>> /\ KeepGsm

(* AT+NETWORK: network_mode_switch.  The console found no guard, but Core  *)
(* 0 may have started since.                                               *)
Requested(mode) ==
  /\ "modes" \in Activities /\ pc = "serial" /\ ~guard_active /\ mode # network_mode

SwitchRefused ==
  /\ \E mode \in NetworkModes : Requested(mode)
  /\ ~CanMutate /\ network_connect_pending' = TRUE /\ Asked("pending", ret)
  /\ UNCHANGED <<coreVars, loopVars, network_mode, network_boot_complete, wifiVars, activeVars,
                 worldVars>> /\ KeepGsm

KeepSwitch == UNCHANGED <<on_air, loopVars, network_boot_complete, network_connect_pending,
                          network_available_cached>> /\ KeepWorldButStation

SwitchToAuto ==
  /\ Requested("AUTO") /\ CanMutate /\ network_mode' = "AUTO" /\ Asked("pending", ret)
  /\ KeepSwitch /\ KeepGsm /\ UNCHANGED <<device_state, wifiVars, active_network, station>>

SwitchToWifi ==
  /\ Requested("WIFI") /\ CanMutate /\ network_mode' = "WIFI" /\ Asked("pending", ret)
  /\ ModemOff /\ KeepModemRest
  /\ ap_mode_active' = FALSE /\ WifiConnect /\ UNCHANGED wifi_connected
  /\ UpdateActive /\ KeepSwitch

(* network_update_active_state follows when gsm_connect is done: switched  *)
SwitchToGsm ==
  /\ Requested("GSM") /\ CanMutate /\ network_mode' = "GSM"
  /\ Asked("connect", "switched")
  /\ wifi_connected' = FALSE /\ ap_mode_active' = FALSE
  /\ station' = IF wifi_connected THEN FALSE ELSE station
  /\ UNCHANGED <<device_state, wifi_retry_count, active_network>> /\ KeepSwitch /\ KeepGsm

Switched ==
  /\ pc = "switched" /\ Goes("pending")
  /\ active_network' = Active(wifi_connected, gsm_connected)
  /\ UNCHANGED <<coreVars, loopVars, netVars, wifiVars, network_available_cached, worldVars>>
  /\ KeepGsm

SwitchToAp ==
  /\ Requested("AP") /\ CanMutate /\ network_mode' = "AP" /\ Asked("pending", ret)
  /\ ModemOff /\ KeepModemRest
  /\ wifi_connected' = FALSE /\ UNCHANGED wifi_retry_count
  /\ station' = FALSE /\ StartAp
  /\ UpdateActive /\ KeepSwitch

(* The network section of a pass without guard                             *)
Pending ==
  /\ pc = "pending" /\ network_connect_pending' = FALSE
  /\ IF network_connect_pending
     THEN Reconnects("wifi")
     ELSE Goes("wifi")
  /\ KeepAll

WifiChecked ==
  /\ pc = "wifi" /\ Goes("gsm")
  /\ IF sampled_mode \in {"AUTO", "WIFI"} THEN CheckWifi
     ELSE UNCHANGED <<device_state, station, wifiVars, active_network>> /\ KeepModem
  /\ KeepModemRest /\ KeepWorldButStation
  /\ UNCHANGED <<on_air, loopVars, netVars, network_available_cached>>

GsmChecked ==
  /\ pc = "gsm"
  /\ IF sampled_mode \in {"AUTO", "GSM"}
     THEN Calls("check", "link")
     ELSE Goes("link")
  /\ UNCHANGED loopVars /\ KeepPassing

KeepLink == UNCHANGED <<coreVars, loopVars, netVars, ap_mode_active, activeVars, worldVars>> /\ KeepGsm

(* The health check of a WiFi connection                                   *)
LinkLost ==
  /\ pc = "link" /\ wifi_connected /\ ~station
  /\ wifi_connected' = FALSE /\ wifi_retry_count' = 0
  /\ Reconnects("active") /\ KeepLink

(* Neither: connected, in AP mode, or 30 s (60 s with the modem) not over  *)
LinkKept ==
  /\ pc = "link" /\ (wifi_connected => station)
  /\ Goes("active") /\ UNCHANGED <<wifi_connected, wifi_retry_count>> /\ KeepLink

LinkRetries ==
  /\ pc = "link" /\ ~wifi_connected /\ ~ap_mode_active
  /\ Reconnects("active") /\ UNCHANGED <<wifi_connected, wifi_retry_count>> /\ KeepLink

Available == wifi_connected \/ (gsm_connected /\ gsm_internet_verified)

Updated ==
  /\ pc = "active" /\ Goes("top")
  /\ active_network' = Active(wifi_connected, gsm_connected)
  /\ network_available_cached' = Available
  /\ guard_active' = FALSE /\ sampled_mode' = "AUTO"        \* dead until the next sample
  /\ UNCHANGED <<coreVars, netVars, wifiVars, worldVars>> /\ KeepGsm

Console == Abort \/ SwitchRefused \/ SwitchToAuto \/ SwitchToWifi \/ SwitchToGsm \/ SwitchToAp
LoopStep == \/ Sample \/ SerialDone \/ Switched \/ Pending \/ WifiChecked \/ GsmChecked
            \/ LinkLost \/ LinkKept \/ LinkRetries \/ Updated

Core1 == BootStep \/ GsmStep \/ ReconnectStep \/ LoopStep \/ Console
Next == TxStart \/ TxEnd \/ World \/ Core1

(* Both cores keep running; the loop never skips a due retry for ever.     *)
Spec == Init /\ [][Next]_vars
WifiJoined == pc' = "reconnect_wifi" /\ station'
Fairness ==
  /\ WF_vars(Core1) /\ WF_vars(TxEnd)
  /\ SF_vars(CheckTimesOut) /\ SF_vars(BootGivesUp)
  /\ SF_vars(LinkRetries) /\ SF_vars(ReconnectWithGsm)
  /\ SF_vars(ReconnectTimesOut)
  /\ SF_vars(ReconnectScans /\ WifiJoined)  \* a network in range is joined in the end
  /\ SF_vars(WifiChecked /\ wifi_retry_count' > wifi_retry_count)
FairSpec == Spec /\ Fairness

-----------------------------------------------------------------------------
(*                                Properties                               *)

Steps == {"boot", "boot_wifi", "boot_gsm", "boot_wait", "boot_check", "connect", "init", "start",
          "check", "check_on", "data", "probe", "unverified", "reconnect", "reconnect_wifi",
          "reconnect_end", "top", "serial", "switched", "pending", "wifi", "gsm", "link", "active"}

(* Every variable has its type; the mode index stays within the table of   *)
(* the module detected (gsm_active_network_mode_slot's repair is never     *)
(* needed).                                                                *)
CellularTypeOK ==
  /\ device_state \in DeviceStates /\ on_air \in BOOLEAN
  /\ {pc, ret, after} \subseteq Steps
  /\ guard_active \in BOOLEAN /\ {sampled_mode, network_mode} \subseteq NetworkModes
  /\ network_boot_complete \in BOOLEAN /\ network_connect_pending \in BOOLEAN
  /\ wifi_connected \in BOOLEAN /\ wifi_retry_count \in 0..WIFI_RETRY_ATTEMPTS
  /\ ap_mode_active \in BOOLEAN
  /\ active_network \in {"NONE", "WIFI", "GSM"} /\ network_available_cached \in BOOLEAN
  /\ gsm_power_state \in BOOLEAN /\ gsm_modem_ready \in BOOLEAN /\ gsm_initialized \in BOOLEAN
  /\ gsm_module_type \in {"A7670SA", "SIM800L"}
  /\ gsm_connected \in BOOLEAN /\ gsm_registration_complete \in BOOLEAN
  /\ gsm_internet_verified \in BOOLEAN /\ gsm_tcp_warmed_up \in BOOLEAN
  /\ gsm_internet_test_attempt \in 0..GSM_INTERNET_TEST_MAX_ATTEMPTS
  /\ gsm_boot_modes_exhausted \in BOOLEAN /\ gsm_retry_count \in 0..CountLimit
  /\ gsm_current_network_mode_index \in 0..NetworkModeCount(gsm_module_type) - 1
  /\ connect_start_fresh \in BOOLEAN
  /\ modem \in Modems /\ cell \in Cells /\ in_range \in BOOLEAN /\ station \in BOOLEAN

(* No combination of shutdowns, failed starts and switches leaves a flag   *)
(* of a later stage set without the earlier ones: data needs registration  *)
(* and a modem that is initialised, answers and has power.                 *)
PowerFollows ==
  /\ gsm_initialized => gsm_modem_ready /\ gsm_power_state
  /\ gsm_connected => gsm_initialized /\ gsm_registration_complete
  /\ gsm_internet_verified => gsm_connected

(* The modem's variables together: typed, the index into the table of      *)
(* modes within the table of the modem found (gsm.cpp:644), and each stage *)
(* of the connection on top of the one below it.                           *)
CellularInv == CellularTypeOK /\ PowerFollows

(* WiFi and the modem never carry data together, whatever order their      *)
(* connections, AT+NETWORK and outages come in (on_network_changed moves   *)
(* the SSL clients and services from one to the other).                    *)
OneTransport == lock_broken \/ ~(wifi_connected /\ gsm_connected)

(* network_boot ends, in WiFi, with the modem or as an access point.       *)
BootEnds == <>network_boot_complete

Settles == <>[](~on_air) /\ <>[][~World /\ ~Console]_vars

(* What keeps an attempt going for ever: every refusal restarts its time-  *)
(* out, of the SIM, by a modem that has fallen silent, of the data session *)
(* or of the internet.  A SIM800L that was registered once asks for data   *)
(* only, and never notices that its network is gone.                       *)
KeptGoing ==
  \/ cell \in {"denied", "no_data", "no_internet"}
  \/ cell \in {"silent", "no_sim"} /\ Attempting
  \/ cell = "none" /\ modem = "SIM800L" /\ gsm_registration_complete

(* An attempt that finds no network is given up, three timeouts later (so  *)
(* that AUTO can look for WiFi again), but for the SIM800L above.          *)
SearchGivenUp ==
  Settles /\ <>[](cell = "none" /\ ~KeptGoing) => []<>~Attempting

(* Once the cellular network is good and WiFi is away, an A7670SA outside  *)
(* AP mode comes up and the network is marked available for good.          *)
CellularComesUp ==
  /\ modem = "A7670SA" /\ Settles /\ <>[](cell = "good" /\ ~in_range)
  /\ <>[](~ap_mode_active /\ network_mode \in {"AUTO", "GSM"})
  => <>[]network_available_cached

InAuto == <>[](~ap_mode_active /\ network_mode = "AUTO")

(* With a WiFi network in range for good, AUTO ends on WiFi whatever the   *)
(* modem went through, unless an attempt is kept going.                    *)
WifiTakesOver ==
  Settles /\ InAuto /\ <>[](in_range /\ ~KeptGoing) => <>[]wifi_connected

(* README.md: "automatic WiFi -> GSM -> AP failover with reconnection      *)
(* attempts in the background".                                            *)
ReconnectsInBackground == Settles /\ InAuto /\ <>[]in_range => <>[]wifi_connected
=============================================================================
