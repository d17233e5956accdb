----------------------------- MODULE LoopProofs -----------------------------
(***************************************************************************)
(* What module LoopServices promises for every limit on attempts and every *)
(* set of activities around the services.                                  *)
(*                                                                         *)
(* LoopInv and ServiceStateOwned are not inductive.  Who holds a state to  *)
(* give back depends on the step the service has reached, and on the call  *)
(* of change_device_state under way (OwnInv); that the attempts to connect *)
(* stay below their maximum depends on nobody restoring WIFI_CONNECTING    *)
(* after the last one (WifiInv).                                           *)
(***************************************************************************)
EXTENDS LoopServices, TLAPS

Change(next) == loop_pc = "change" /\ ret = next

(* Who called, and where change_device_state and WiFi return to.           *)
CallInv ==
  /\ caller \in {"boot", "sample", "process", "active", "wifi_check"}
  /\ caller = "process" =>
       loop_pc \in {"ntp_save", "ntp_announce", "ntp_begin"} \/ Change("ntp_begin")
  /\ loop_pc = "change" => ret \in {"ntp_begin", "ntp_restored", "mqtt_wait", "mqtt_restored"}
  /\ loop_pc \in {"wifi_up", "wifi_idle"} => ret \in {"wifi_wait", "link"}

(* A saved state that will be restored: NTP's may outlive many passes of   *)
(* loop, MQTT's lives inside mqtt_connect and may hold NTP's value.        *)
NtpHolds  == ntp_state_active \/ loop_pc \in {"ntp_announce", "ntp_begin"} \/ Change("ntp_begin")
MqttHolds == mqtt_state_active \/ loop_pc = "mqtt_announce"

OwnInv ==
  /\ ServiceStateOwned
  /\ NtpHolds  => ntp_previous_state \notin {"NTP_SYNC", "MQTT_CONNECTING"}
  /\ MqttHolds => /\ mqtt_previous_state # "MQTT_CONNECTING"
                  /\ mqtt_previous_state = "NTP_SYNC" => ntp_state_active
  /\ mqtt_state_active =>
       loop_pc \in {"mqtt_wait", "mqtt_restored"} \/ Change("mqtt_wait") \/ Change("mqtt_restored")
  /\ loop_pc = "mqtt_restored" \/ Change("mqtt_wait") \/ Change("mqtt_restored") => mqtt_state_active
  /\ Change("ntp_begin") => new_state = "NTP_SYNC"
  /\ Change("ntp_restored") => new_state = ntp_previous_state
  /\ Change("mqtt_wait") => new_state = "MQTT_CONNECTING"
  /\ Change("mqtt_restored") => new_state = mqtt_previous_state
  /\ loop_pc = "ntp_restored" => device_state # "NTP_SYNC"
  /\ loop_pc = "mqtt_restored" => device_state # "MQTT_CONNECTING"

(* The synchronisation and the time it brings.                             *)
SyncInv ==
  /\ SyncHasSavedState
  /\ ntp_sync_in_progress => ntp_sync_attempts < NTP_MAX_ATTEMPTS
  /\ loop_pc \in {"ntp_restore", "ntp_restored"} \/ Change("ntp_restored") => ~ntp_sync_in_progress
  /\ loop_pc = "ntp_restored" \/ Change("ntp_restored") => ntp_state_active
  /\ ntp_synced => system_time_initialized
  /\ ServicesHaveTime

(* WIFI_CONNECTING stands, or may be restored, only while attempts remain: *)
(* a value NTP saved before the connection came up is never seen by        *)
(* check_wifi_connection.                                                  *)
MoreToTry == wifi_retry_count < WIFI_RETRY_ATTEMPTS
HoldsWifi == NtpHolds /\ ntp_previous_state = "WIFI_CONNECTING" /\ wifi_connected
WifiInv ==
  /\ loop_pc = "wifi_scan" => ~wifi_connected
  /\ (loop_pc \in {"ntp", "process"} \/ caller = "process") /\ network_available_cached
       => wifi_connected
  /\ loop_pc = "ntp_restore" \/ Change("ntp_restored") => wifi_connected
  /\ device_state = "WIFI_CONNECTING" /\ loop_pc # "wifi_idle" => MoreToTry
  /\ MqttHolds /\ mqtt_previous_state = "WIFI_CONNECTING" => MoreToTry
  /\ HoldsWifi =>
       /\ MoreToTry
       /\ device_state = "WIFI_CONNECTING" =>
            loop_pc \in {"wifi_up", "ntp_announce", "ntp_restored"}
              \/ Change("ntp_begin") \/ Change("ntp_restored")
       /\ ~(MqttHolds /\ mqtt_previous_state = "WIFI_CONNECTING")

(* The types by what they are about.                                       *)
StatesOK ==
  /\ device_state \in DeviceStates /\ new_state \in DeviceStates
  /\ ntp_previous_state \in DeviceStates /\ mqtt_previous_state \in DeviceStates
PlacesOK ==
  /\ loop_pc \in LoopSteps /\ ret \in LoopSteps /\ caller \in LoopSteps
  /\ boot_phase \in BootPhases
CountsOK ==
  /\ ntp_sync_attempts \in 0 .. NTP_MAX_ATTEMPTS
  /\ wifi_retry_count \in 0 .. WIFI_RETRY_ATTEMPTS
FlagsOK ==
  /\ active_network \in {"NONE", "WIFI"}
  /\ on_air \in BOOLEAN /\ guard_active \in BOOLEAN
  /\ system_time_initialized \in BOOLEAN /\ ntp_synced \in BOOLEAN
  /\ ntp_sync_in_progress \in BOOLEAN /\ ntp_state_active \in BOOLEAN
  /\ mqtt_state_active \in BOOLEAN /\ wifi_connected \in BOOLEAN
  /\ ap_mode_active \in BOOLEAN /\ network_available_cached \in BOOLEAN
  /\ network_connect_pending \in BOOLEAN /\ in_range \in BOOLEAN /\ station \in BOOLEAN

TypesOK == StatesOK /\ PlacesOK /\ CountsOK /\ FlagsOK
IInv == TypesOK /\ CallInv /\ OwnInv /\ SyncInv /\ WifiInv

(* The frames and small steps every action is made of.                     *)
USE DEF KeepLoop, KeepCore0, KeepNet, KeepServices, KeepNtp, KeepAllServices,
        Goes, Returns, ChangeChecked, Saved, LastAttempt, AfterMissed, MqttConnectStarts,
        UpdateActive, BootBecomes, SerialDone,
        changeVars, ntpVars, mqttVars, wifiVars, netVars, linkVars,
        DeviceStates, BootPhases, MqttPhases, LoopSteps,
        RfActive, AtStaging, GuardActive, IsValidTransition,
        ServiceStateOwned, SyncHasSavedState, ServicesHaveTime,
        Change, NtpHolds, MqttHolds, HoldsWifi, MoreToTry

-----------------------------------------------------------------------------
(* device_state and the saved values are values of the enum.               *)
LEMMA StatesStay ==
  ASSUME StatesOK, [Next]_vars
  PROVE  StatesOK'
  <1> USE DEF StatesOK
  <1>1. CASE UNCHANGED vars
    BY <1>1 DEF vars
  <1>2. CASE TxStart \/ TxEnd \/ Link
    BY <1>2 DEF TxStart, TxEnd, Link
  <1>3. CASE ChangeWritten
    BY <1>3 DEF ChangeWritten
  <1>4. CASE NtpSave \/ NtpAnnounce \/ NtpBegin
    BY <1>4 DEF NtpSave, NtpAnnounce, NtpBegin
  <1>5. CASE NtpPeriodic \/ NtpNotDue \/ NtpWaits
    BY <1>5 DEF NtpPeriodic, NtpNotDue, NtpWaits
  <1>6. CASE NtpAnswered \/ NtpMissed
    BY <1>6 DEF NtpAnswered, NtpMissed
  <1>7. CASE NtpRestore \/ NtpRestored
    BY <1>7 DEF NtpRestore, NtpRestored
  <1>8. CASE MqttIdle \/ MqttDue
    BY <1>8 DEF MqttIdle, MqttDue
  <1>9. CASE MqttSave \/ MqttAnnounce
    BY <1>9 DEF MqttSave, MqttAnnounce
  <1>10. CASE MqttRestore \/ MqttRestored
    BY <1>10 DEF MqttRestore, MqttRestored
  <1>11. CASE RetryPending \/ ReconnectRefused \/ ReconnectScans
    BY <1>11 DEF RetryPending, ReconnectRefused, ReconnectScans
  <1>12. CASE WifiNotFound \/ WifiConnect \/ ReconnectEnds
    BY <1>12 DEF WifiNotFound, WifiConnect, ReconnectEnds
  <1>13. CASE CheckWifiNothing \/ CheckWifiConnected \/ CheckWifiFailed
    BY <1>13 DEF CheckWifiNothing, CheckWifiConnected, CheckWifiFailed, CheckWifiFrom
  <1>14. CASE WifiUp \/ WifiIdle
    BY <1>14 DEF WifiUp, WifiIdle
  <1>15. CASE LinkCheck \/ LinkLeft \/ NetworkUpdated
    BY <1>15 DEF LinkCheck, LinkLeft, NetworkUpdated
  <1>16. CASE BootAdvances \/ BootDelayOver \/ BootSyncs \/ BootConnects \/ BootWaits
    BY <1>16 DEF BootAdvances, BootDelayOver, BootSyncs, BootConnects, BootWaits
  <1>17. CASE SampleGuard \/ SampleRfBusy \/ SerialIdle \/ SerialStages \/ SerialResets
    BY <1>17 DEF SampleGuard, SampleRfBusy, SerialIdle, SerialStages, SerialResets
  <1> QED
    BY <1>1, <1>2, <1>3, <1>4, <1>5, <1>6, <1>7, <1>8, <1>9, <1>10, <1>11, <1>12, <1>13, <1>14,
       <1>15, <1>16, <1>17
    DEF Next, Core1, NtpStep, MqttStep, NetworkStep, BootStep, LoopStep

(* Places and phases.                                                      *)
LEMMA PlacesStay ==
  ASSUME PlacesOK, CallInv, [Next]_vars
  PROVE  PlacesOK'
  <1> USE DEF PlacesOK, CallInv
  <1>1. CASE UNCHANGED vars
    BY <1>1 DEF vars
  <1>2. CASE TxStart \/ TxEnd \/ Link
    BY <1>2 DEF TxStart, TxEnd, Link
  <1>3. CASE ChangeWritten
    BY <1>3 DEF ChangeWritten
  <1>4. CASE NtpSave \/ NtpAnnounce \/ NtpBegin
    BY <1>4 DEF NtpSave, NtpAnnounce, NtpBegin
  <1>5. CASE NtpPeriodic \/ NtpNotDue \/ NtpWaits
    BY <1>5 DEF NtpPeriodic, NtpNotDue, NtpWaits
  <1>6. CASE NtpAnswered \/ NtpMissed
    BY <1>6 DEF NtpAnswered, NtpMissed
  <1>7. CASE NtpRestore \/ NtpRestored
    BY <1>7 DEF NtpRestore, NtpRestored
  <1>8. CASE MqttIdle \/ MqttDue
    BY <1>8 DEF MqttIdle, MqttDue
  <1>9. CASE MqttSave \/ MqttAnnounce
    BY <1>9 DEF MqttSave, MqttAnnounce
  <1>10. CASE MqttRestore \/ MqttRestored
    BY <1>10 DEF MqttRestore, MqttRestored
  <1>11. CASE RetryPending \/ ReconnectRefused \/ ReconnectScans
    BY <1>11 DEF RetryPending, ReconnectRefused, ReconnectScans
  <1>12. CASE WifiNotFound \/ WifiConnect \/ ReconnectEnds
    BY <1>12 DEF WifiNotFound, WifiConnect, ReconnectEnds
  <1>13. CASE CheckWifiNothing \/ CheckWifiConnected \/ CheckWifiFailed
    BY <1>13 DEF CheckWifiNothing, CheckWifiConnected, CheckWifiFailed, CheckWifiFrom
  <1>14. CASE WifiUp \/ WifiIdle
    BY <1>14 DEF WifiUp, WifiIdle
  <1>15. CASE LinkCheck \/ LinkLeft \/ NetworkUpdated
    BY <1>15 DEF LinkCheck, LinkLeft, NetworkUpdated
  <1>16. CASE BootAdvances \/ BootDelayOver \/ BootSyncs \/ BootConnects \/ BootWaits
    BY <1>16 DEF BootAdvances, BootDelayOver, BootSyncs, BootConnects, BootWaits
  <1>17. CASE SampleGuard \/ SampleRfBusy \/ SerialIdle \/ SerialStages \/ SerialResets
    BY <1>17 DEF SampleGuard, SampleRfBusy, SerialIdle, SerialStages, SerialResets
  <1> QED
    BY <1>1, <1>2, <1>3, <1>4, <1>5, <1>6, <1>7, <1>8, <1>9, <1>10, <1>11, <1>12, <1>13, <1>14,
       <1>15, <1>16, <1>17
    DEF Next, Core1, NtpStep, MqttStep, NetworkStep, BootStep, LoopStep

(* Counters: a last attempt is always followed by a pause or a new start.  *)
LEMMA CountsStay ==
  ASSUME CountsOK, SyncInv, WifiInv, [Next]_vars
  PROVE  CountsOK'
  <1> USE LoopAssumption DEF CountsOK, SyncInv, WifiInv
  <1>1. CASE UNCHANGED vars
    BY <1>1 DEF vars
  <1>2. CASE TxStart \/ TxEnd \/ Link
    BY <1>2 DEF TxStart, TxEnd, Link
  <1>3. CASE ChangeWritten
    BY <1>3 DEF ChangeWritten
  <1>4. CASE NtpSave \/ NtpAnnounce \/ NtpBegin
    BY <1>4 DEF NtpSave, NtpAnnounce, NtpBegin
  <1>5. CASE NtpPeriodic \/ NtpNotDue \/ NtpWaits
    BY <1>5 DEF NtpPeriodic, NtpNotDue, NtpWaits
  <1>6. CASE NtpAnswered \/ NtpMissed
    BY <1>6 DEF NtpAnswered, NtpMissed
  <1>7. CASE NtpRestore \/ NtpRestored
    BY <1>7 DEF NtpRestore, NtpRestored
  <1>8. CASE MqttIdle \/ MqttDue
    BY <1>8 DEF MqttIdle, MqttDue
  <1>9. CASE MqttSave \/ MqttAnnounce
    BY <1>9 DEF MqttSave, MqttAnnounce
  <1>10. CASE MqttRestore \/ MqttRestored
    BY <1>10 DEF MqttRestore, MqttRestored
  <1>11. CASE RetryPending \/ ReconnectRefused \/ ReconnectScans
    BY <1>11 DEF RetryPending, ReconnectRefused, ReconnectScans
  <1>12. CASE WifiNotFound \/ WifiConnect \/ ReconnectEnds
    BY <1>12 DEF WifiNotFound, WifiConnect, ReconnectEnds
  <1>13. CASE CheckWifiNothing \/ CheckWifiConnected \/ CheckWifiFailed
    BY <1>13 DEF CheckWifiNothing, CheckWifiConnected, CheckWifiFailed, CheckWifiFrom
  <1>14. CASE WifiUp \/ WifiIdle
    BY <1>14 DEF WifiUp, WifiIdle
  <1>15. CASE LinkCheck \/ LinkLeft \/ NetworkUpdated
    BY <1>15 DEF LinkCheck, LinkLeft, NetworkUpdated
  <1>16. CASE BootAdvances \/ BootDelayOver \/ BootSyncs \/ BootConnects \/ BootWaits
    BY <1>16 DEF BootAdvances, BootDelayOver, BootSyncs, BootConnects, BootWaits
  <1>17. CASE SampleGuard \/ SampleRfBusy \/ SerialIdle \/ SerialStages \/ SerialResets
    BY <1>17 DEF SampleGuard, SampleRfBusy, SerialIdle, SerialStages, SerialResets
  <1> QED
    BY <1>1, <1>2, <1>3, <1>4, <1>5, <1>6, <1>7, <1>8, <1>9, <1>10, <1>11, <1>12, <1>13, <1>14,
       <1>15, <1>16, <1>17
    DEF Next, Core1, NtpStep, MqttStep, NetworkStep, BootStep, LoopStep

(* Flags, process by process.                                              *)
LEMMA FlagsStay ==
  ASSUME FlagsOK, [Next]_vars
  PROVE  FlagsOK'
  <1> USE DEF FlagsOK
  <1>1. CASE UNCHANGED vars
    BY <1>1 DEF vars
  <1>2. CASE TxStart \/ TxEnd
    <2>1. /\ on_air' \in BOOLEAN
          /\ UNCHANGED <<guard_active, linkVars, ntpVars, mqttVars, wifiVars, netVars>>
      BY <1>2, Zenon DEF TxStart, TxEnd
    <2> QED
      BY <2>1
  <1>3. CASE Link
    <2>1. in_range' \in BOOLEAN /\ station' \in BOOLEAN
      BY <1>3, Zenon DEF Link
    <2> QED
      BY <1>3, <2>1 DEF Link
  <1>4. CASE ChangeWritten
    BY <1>4 DEF ChangeWritten
  <1>5. CASE NtpStep
    <2> USE DEF NtpStep, NtpSave, NtpAnnounce, NtpBegin, NtpPeriodic, NtpNotDue, NtpWaits,
                NtpAnswered, NtpMissed, NtpRestore, NtpRestored
    <2>1. /\ ntp_state_active' \in BOOLEAN /\ ntp_sync_in_progress' \in BOOLEAN
          /\ ntp_synced' \in BOOLEAN /\ system_time_initialized' \in BOOLEAN
      BY <1>5, Zenon
    <2>2. UNCHANGED <<on_air, guard_active, linkVars, mqttVars, wifiVars, netVars>>
      BY <1>5, Zenon
    <2> QED
      BY <2>1, <2>2
  <1>6. CASE MqttStep
    <2> USE DEF MqttStep, MqttIdle, MqttDue, MqttSave, MqttAnnounce, MqttRestore, MqttRestored
    <2>1. mqtt_state_active' \in BOOLEAN
      BY <1>6, Zenon
    <2>2. UNCHANGED <<on_air, guard_active, linkVars, ntpVars, wifiVars, netVars>>
      BY <1>6, Zenon
    <2> QED
      BY <2>1, <2>2
  <1>7. CASE NetworkStep
    <2> USE DEF NetworkStep, RetryPending, ReconnectRefused, ReconnectScans, WifiNotFound,
                WifiConnect, CheckWifiNothing, CheckWifiConnected, CheckWifiFailed, CheckWifiFrom,
                WifiUp, WifiIdle, ReconnectEnds, LinkCheck, LinkLeft, NetworkUpdated
    <2>1. ntp_sync_in_progress' \in BOOLEAN /\ active_network' \in {"NONE", "WIFI"}
      BY <1>7
    <2>2. /\ wifi_connected' \in BOOLEAN /\ station' \in BOOLEAN
          /\ network_available_cached' \in BOOLEAN /\ network_connect_pending' \in BOOLEAN
      BY <1>7, Zenon
    <2>3. UNCHANGED <<on_air, in_range, guard_active, mqttVars, ap_mode_active,
                      ntp_state_active, ntp_synced, system_time_initialized>>
      BY <1>7, Zenon
    <2> QED
      BY <2>1, <2>2, <2>3
  <1>8. CASE BootStep
    <2>1. UNCHANGED <<on_air, guard_active, linkVars, ntpVars, mqttVars, wifiVars, netVars>>
      BY <1>8, Zenon
      DEF BootStep, BootAdvances, BootDelayOver, BootSyncs, BootConnects, BootWaits
    <2> QED
      BY <2>1
  <1>9. CASE LoopStep
    <2> USE DEF LoopStep, SampleGuard, SampleRfBusy, SerialIdle, SerialStages, SerialResets
    <2>1. guard_active' \in BOOLEAN
      BY <1>9, Zenon
    <2>2. UNCHANGED <<on_air, linkVars, ntpVars, mqttVars, wifiVars, netVars>>
      BY <1>9, Zenon
    <2> QED
      BY <2>1, <2>2
  <1> QED
    BY <1>1, <1>2, <1>3, <1>4, <1>5, <1>6, <1>7, <1>8, <1>9 DEF Next, Core1


-----------------------------------------------------------------------------
(* Calls and returns.                                                      *)
LEMMA CallStays ==
  ASSUME CallInv, [Next]_vars
  PROVE  CallInv'
  <1> USE DEF CallInv
  <1>1. CASE UNCHANGED vars
    BY <1>1 DEF vars
  <1>2. CASE TxStart \/ TxEnd \/ Link
    BY <1>2 DEF TxStart, TxEnd, Link
  <1>3. CASE ChangeWritten
    BY <1>3 DEF ChangeWritten
  <1>4. CASE NtpSave \/ NtpAnnounce \/ NtpBegin
    BY <1>4 DEF NtpSave, NtpAnnounce, NtpBegin
  <1>5. CASE NtpPeriodic \/ NtpNotDue \/ NtpWaits
    BY <1>5 DEF NtpPeriodic, NtpNotDue, NtpWaits
  <1>6. CASE NtpAnswered \/ NtpMissed
    BY <1>6 DEF NtpAnswered, NtpMissed
  <1>7. CASE NtpRestore \/ NtpRestored
    BY <1>7 DEF NtpRestore, NtpRestored
  <1>8. CASE MqttIdle \/ MqttDue
    BY <1>8 DEF MqttIdle, MqttDue
  <1>9. CASE MqttSave \/ MqttAnnounce
    BY <1>9 DEF MqttSave, MqttAnnounce
  <1>10. CASE MqttRestore \/ MqttRestored
    BY <1>10 DEF MqttRestore, MqttRestored
  <1>11. CASE RetryPending \/ ReconnectRefused \/ ReconnectScans
    BY <1>11 DEF RetryPending, ReconnectRefused, ReconnectScans
  <1>12. CASE WifiNotFound \/ WifiConnect \/ ReconnectEnds
    BY <1>12 DEF WifiNotFound, WifiConnect, ReconnectEnds
  <1>13. CASE CheckWifiNothing \/ CheckWifiConnected \/ CheckWifiFailed
    BY <1>13 DEF CheckWifiNothing, CheckWifiConnected, CheckWifiFailed, CheckWifiFrom
  <1>14. CASE WifiUp \/ WifiIdle
    BY <1>14 DEF WifiUp, WifiIdle
  <1>15. CASE LinkCheck \/ LinkLeft \/ NetworkUpdated
    BY <1>15 DEF LinkCheck, LinkLeft, NetworkUpdated
  <1>16. CASE BootAdvances \/ BootDelayOver \/ BootSyncs \/ BootConnects \/ BootWaits
    BY <1>16 DEF BootAdvances, BootDelayOver, BootSyncs, BootConnects, BootWaits
  <1>17. CASE SampleGuard \/ SampleRfBusy \/ SerialIdle \/ SerialStages \/ SerialResets
    BY <1>17 DEF SampleGuard, SampleRfBusy, SerialIdle, SerialStages, SerialResets
  <1> QED
    BY <1>1, <1>2, <1>3, <1>4, <1>5, <1>6, <1>7, <1>8, <1>9, <1>10, <1>11, <1>12, <1>13, <1>14,
       <1>15, <1>16, <1>17
    DEF Next, Core1, NtpStep, MqttStep, NetworkStep, BootStep, LoopStep

(* Saving, announcing and restoring, against every other writer.           *)
LEMMA OwnStays ==
  ASSUME CallInv, SyncInv, OwnInv, [Next]_vars
  PROVE  OwnInv'
  <1> USE DEF CallInv, SyncInv, OwnInv
  <1>1. CASE UNCHANGED vars
    BY <1>1 DEF vars
  <1>2. CASE TxStart \/ TxEnd \/ Link
    BY <1>2 DEF TxStart, TxEnd, Link
  <1>3. CASE ChangeWritten
    BY <1>3 DEF ChangeWritten
  <1>4. CASE NtpSave \/ NtpAnnounce \/ NtpBegin
    BY <1>4 DEF NtpSave, NtpAnnounce, NtpBegin
  <1>5. CASE NtpPeriodic \/ NtpNotDue \/ NtpWaits
    BY <1>5 DEF NtpPeriodic, NtpNotDue, NtpWaits
  <1>6. CASE NtpAnswered \/ NtpMissed
    BY <1>6 DEF NtpAnswered, NtpMissed
  <1>7. CASE NtpRestore \/ NtpRestored
    BY <1>7 DEF NtpRestore, NtpRestored
  <1>8. CASE MqttIdle \/ MqttDue
    BY <1>8 DEF MqttIdle, MqttDue
  <1>9. CASE MqttSave \/ MqttAnnounce
    BY <1>9 DEF MqttSave, MqttAnnounce
  <1>10. CASE MqttRestore \/ MqttRestored
    BY <1>10 DEF MqttRestore, MqttRestored
  <1>11. CASE RetryPending \/ ReconnectRefused \/ ReconnectScans
    BY <1>11 DEF RetryPending, ReconnectRefused, ReconnectScans
  <1>12. CASE WifiNotFound \/ WifiConnect \/ ReconnectEnds
    BY <1>12 DEF WifiNotFound, WifiConnect, ReconnectEnds
  <1>13. CASE CheckWifiNothing \/ CheckWifiConnected \/ CheckWifiFailed
    BY <1>13 DEF CheckWifiNothing, CheckWifiConnected, CheckWifiFailed, CheckWifiFrom
  <1>14. CASE WifiUp \/ WifiIdle
    BY <1>14 DEF WifiUp, WifiIdle
  <1>15. CASE LinkCheck \/ LinkLeft \/ NetworkUpdated
    BY <1>15 DEF LinkCheck, LinkLeft, NetworkUpdated
  <1>16. CASE BootAdvances \/ BootDelayOver \/ BootSyncs \/ BootConnects \/ BootWaits
    BY <1>16 DEF BootAdvances, BootDelayOver, BootSyncs, BootConnects, BootWaits
  <1>17. CASE SampleGuard \/ SampleRfBusy \/ SerialIdle \/ SerialStages \/ SerialResets
    BY <1>17 DEF SampleGuard, SampleRfBusy, SerialIdle, SerialStages, SerialResets
  <1> QED
    BY <1>1, <1>2, <1>3, <1>4, <1>5, <1>6, <1>7, <1>8, <1>9, <1>10, <1>11, <1>12, <1>13, <1>14,
       <1>15, <1>16, <1>17
    DEF Next, Core1, NtpStep, MqttStep, NetworkStep, BootStep, LoopStep

(* The synchronisation: its attempts end, and its success sets the clock.  *)
LEMMA SyncStays ==
  ASSUME CallInv, CountsOK, FlagsOK, SyncInv, [Next]_vars
  PROVE  SyncInv'
  <1> USE LoopAssumption DEF CallInv, CountsOK, FlagsOK, SyncInv
  <1>1. CASE UNCHANGED vars
    BY <1>1 DEF vars
  <1>2. CASE TxStart \/ TxEnd \/ Link
    BY <1>2 DEF TxStart, TxEnd, Link
  <1>3. CASE ChangeWritten
    BY <1>3 DEF ChangeWritten
  <1>4. CASE NtpSave \/ NtpAnnounce \/ NtpBegin
    BY <1>4 DEF NtpSave, NtpAnnounce, NtpBegin
  <1>5. CASE NtpPeriodic \/ NtpNotDue \/ NtpWaits
    BY <1>5 DEF NtpPeriodic, NtpNotDue, NtpWaits
  <1>6. CASE NtpAnswered
    BY <1>6 DEF NtpAnswered
  <1>7. CASE NtpMissed
    <2>1. CASE ntp_sync_attempts + 1 >= NTP_MAX_ATTEMPTS
      BY <1>7, <2>1 DEF NtpMissed
    <2>2. CASE ~(ntp_sync_attempts + 1 >= NTP_MAX_ATTEMPTS)
      BY <1>7, <2>2 DEF NtpMissed
    <2> QED
      BY <2>1, <2>2
  <1>8. CASE NtpRestore \/ NtpRestored
    BY <1>8 DEF NtpRestore, NtpRestored
  <1>9. CASE MqttIdle \/ MqttDue
    BY <1>9 DEF MqttIdle, MqttDue
  <1>10. CASE MqttSave \/ MqttAnnounce
    BY <1>10 DEF MqttSave, MqttAnnounce
  <1>11. CASE MqttRestore \/ MqttRestored
    BY <1>11 DEF MqttRestore, MqttRestored
  <1>12. CASE RetryPending \/ ReconnectRefused \/ ReconnectScans
    BY <1>12 DEF RetryPending, ReconnectRefused, ReconnectScans
  <1>13. CASE WifiNotFound \/ WifiConnect \/ ReconnectEnds
    BY <1>13 DEF WifiNotFound, WifiConnect, ReconnectEnds
  <1>14. CASE CheckWifiNothing \/ CheckWifiConnected \/ CheckWifiFailed
    BY <1>14 DEF CheckWifiNothing, CheckWifiConnected, CheckWifiFailed, CheckWifiFrom
  <1>15. CASE WifiUp \/ WifiIdle
    BY <1>15 DEF WifiUp, WifiIdle
  <1>16. CASE LinkCheck \/ LinkLeft \/ NetworkUpdated
    BY <1>16 DEF LinkCheck, LinkLeft, NetworkUpdated
  <1>17. CASE BootAdvances \/ BootDelayOver \/ BootSyncs \/ BootConnects \/ BootWaits
    BY <1>17 DEF BootAdvances, BootDelayOver, BootSyncs, BootConnects, BootWaits
  <1>18. CASE SampleGuard \/ SampleRfBusy \/ SerialIdle \/ SerialStages \/ SerialResets
    BY <1>18 DEF SampleGuard, SampleRfBusy, SerialIdle, SerialStages, SerialResets
  <1> QED
    BY <1>1, <1>2, <1>3, <1>4, <1>5, <1>6, <1>7, <1>8, <1>9, <1>10, <1>11, <1>12, <1>13, <1>14,
       <1>15, <1>16, <1>17, <1>18
    DEF Next, Core1, NtpStep, MqttStep, NetworkStep, BootStep, LoopStep

(* The connection, whose own value others save and restore.                *)
LEMMA WifiStays ==
  ASSUME FlagsOK, CountsOK, CallInv, OwnInv, SyncInv, WifiInv, [Next]_vars
  PROVE  WifiInv'
  <1> USE LoopAssumption DEF FlagsOK, CountsOK, CallInv, OwnInv, SyncInv, WifiInv
  <1>1. CASE UNCHANGED vars
    BY <1>1 DEF vars
  <1>2. CASE TxStart \/ TxEnd \/ Link
    BY <1>2 DEF TxStart, TxEnd, Link
  <1>3. CASE ChangeWritten
    BY <1>3 DEF ChangeWritten
  <1>4. CASE NtpSave \/ NtpAnnounce \/ NtpBegin
    BY <1>4 DEF NtpSave, NtpAnnounce, NtpBegin
  <1>5. CASE NtpPeriodic \/ NtpNotDue \/ NtpWaits
    BY <1>5 DEF NtpPeriodic, NtpNotDue, NtpWaits
  <1>6. CASE NtpAnswered \/ NtpMissed
    BY <1>6 DEF NtpAnswered, NtpMissed
  <1>7. CASE NtpRestore \/ NtpRestored
    BY <1>7 DEF NtpRestore, NtpRestored
  <1>8. CASE MqttIdle \/ MqttDue
    BY <1>8 DEF MqttIdle, MqttDue
  <1>9. CASE MqttSave \/ MqttAnnounce
    BY <1>9 DEF MqttSave, MqttAnnounce
  <1>10. CASE MqttRestore \/ MqttRestored
    BY <1>10 DEF MqttRestore, MqttRestored
  <1>11. CASE RetryPending \/ ReconnectRefused \/ ReconnectScans
    BY <1>11 DEF RetryPending, ReconnectRefused, ReconnectScans
  <1>12. CASE WifiNotFound \/ WifiConnect \/ ReconnectEnds
    BY <1>12 DEF WifiNotFound, WifiConnect, ReconnectEnds
  <1>13. CASE CheckWifiNothing \/ CheckWifiConnected \/ CheckWifiFailed
    BY <1>13 DEF CheckWifiNothing, CheckWifiConnected, CheckWifiFailed, CheckWifiFrom
  <1>14. CASE WifiUp \/ WifiIdle
    BY <1>14 DEF WifiUp, WifiIdle
  <1>15. CASE LinkCheck \/ LinkLeft \/ NetworkUpdated
    BY <1>15 DEF LinkCheck, LinkLeft, NetworkUpdated
  <1>16. CASE BootAdvances \/ BootDelayOver \/ BootSyncs \/ BootConnects \/ BootWaits
    BY <1>16 DEF BootAdvances, BootDelayOver, BootSyncs, BootConnects, BootWaits
  <1>17. CASE SampleGuard \/ SampleRfBusy \/ SerialIdle \/ SerialStages \/ SerialResets
    BY <1>17 DEF SampleGuard, SampleRfBusy, SerialIdle, SerialStages, SerialResets
  <1> QED
    BY <1>1, <1>2, <1>3, <1>4, <1>5, <1>6, <1>7, <1>8, <1>9, <1>10, <1>11, <1>12, <1>13, <1>14,
       <1>15, <1>16, <1>17
    DEF Next, Core1, NtpStep, MqttStep, NetworkStep, BootStep, LoopStep
-----------------------------------------------------------------------------
(* The inductive invariant, and the properties it implies.                 *)
LEMMA TypesTogether == LoopTypeOK <=> TypesOK
  BY DEF LoopTypeOK, TypesOK, StatesOK, PlacesOK, CountsOK, FlagsOK

LEMMA LoopInitInv == Init => IInv
  <1> SUFFICES ASSUME Init PROVE IInv
    OBVIOUS
  <1>1. TypesOK
    <2>1. FlagsOK
      BY DEF Init, FlagsOK
    <2>2. StatesOK /\ PlacesOK
      BY DEF Init, StatesOK, PlacesOK
    <2>3. CountsOK
      BY LoopAssumption DEF Init, CountsOK
    <2> QED
      BY <2>1, <2>2, <2>3 DEF TypesOK
  <1>2. CallInv /\ OwnInv /\ SyncInv
    BY LoopAssumption DEF Init, CallInv, OwnInv, SyncInv
  <1>3. WifiInv
    BY LoopAssumption DEF Init, WifiInv
  <1> QED
    BY <1>1, <1>2, <1>3 DEF IInv

LEMMA LoopNextInv == IInv /\ [Next]_vars => IInv'
  BY StatesStay, PlacesStay, CountsStay, FlagsStay, CallStays, OwnStays, SyncStays, WifiStays
  DEF IInv, TypesOK

LEMMA LoopImplied == IInv => LoopInv /\ ServiceStateOwned
  <1> SUFFICES ASSUME IInv PROVE LoopInv /\ ServiceStateOwned
    OBVIOUS
  <1>1. LoopTypeOK
    BY TypesTogether DEF IInv
  <1>2. SyncHasSavedState /\ ServicesHaveTime
    BY DEF IInv, SyncInv
  <1>3. NeverRestoresItself /\ ServiceStateOwned
    BY DEF IInv, OwnInv, NeverRestoresItself
  <1> QED
    BY <1>1, <1>2, <1>3 DEF LoopInv

LEMMA LoopAlways == Spec => []IInv
  BY LoopInitInv, LoopNextInv, PTL DEF Spec

(* In every pass of loop, whatever Core 0, the console, the broker and the *)
(* network do: the types, a state to restore for every synchronisation,    *)
(* which never announces a service again, and no broker without the time   *)
(* (ntp_time.cpp:51, mqtt.cpp:289, flex-fsk-tx.ino:282).                   *)
THEOREM LoopSound == Spec => []LoopInv
  BY LoopAlways, LoopImplied, PTL

(* NTP_SYNC and MQTT_CONNECTING stand in device_state only while the       *)
(* service they name has it (restore_ntp_state, restore_mqtt_state).       *)
THEOREM StateGivenBack == Spec => []ServiceStateOwned
  BY LoopAlways, LoopImplied, PTL
=============================================================================
