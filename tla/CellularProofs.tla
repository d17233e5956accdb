--------------------------- MODULE CellularProofs ---------------------------
(***************************************************************************)
(* What module Cellular promises for every modem and cellular network, any *)
(* number of modes and tries, and any number of moves of the world and of  *)
(* the console.                                                            *)
(*                                                                         *)
(* Neither property is inductive.  A stage of the modem's connection rests *)
(* on what the step that Core 1 has reached has behind it, and on an       *)
(* attempt being over when its session is up (StagesInv).  The transports  *)
(* stay apart because WiFi is away wherever the modem is driven and while  *)
(* an attempt is under way, whoever writes device_state meanwhile          *)
(* (WithoutWifi, Apart); in the GSM mode nothing but the mode keeps WiFi   *)
(* out, which lock_broken remembers (LockHolds).                           *)
(***************************************************************************)
EXTENDS Cellular, TLAPS

LEMMA LimitsPositive ==
  /\ A76xxModes \in Nat /\ A76xxModes > 1
  /\ GSM_INTERNET_TEST_MAX_ATTEMPTS \in Nat /\ GSM_INTERNET_TEST_MAX_ATTEMPTS > 0
  /\ WIFI_RETRY_ATTEMPTS \in Nat /\ WIFI_RETRY_ATTEMPTS > 0
  BY CellularAssumption

(* The types by what they are about.                                       *)
PlacesOK ==
  /\ pc \in Steps
  /\ ret \in {"top", "boot_check", "link", "reconnect_end", "switched", "wifi", "active"}
  /\ after \in {"top", "wifi", "active"}
DeviceOK ==
  /\ device_state \in DeviceStates /\ wifi_retry_count \in 0..WIFI_RETRY_ATTEMPTS
  /\ device_state = "WIFI_CONNECTING" => wifi_retry_count < WIFI_RETRY_ATTEMPTS
CountsOK ==
  /\ gsm_internet_test_attempt \in 0..GSM_INTERNET_TEST_MAX_ATTEMPTS
  /\ gsm_retry_count \in 0..CountLimit
  /\ gsm_module_type \in {"A7670SA", "SIM800L"}
  /\ gsm_current_network_mode_index \in 0..NetworkModeCount(gsm_module_type) - 1
NetOK ==
  /\ on_air \in BOOLEAN /\ guard_active \in BOOLEAN
  /\ sampled_mode \in NetworkModes /\ network_mode \in NetworkModes
  /\ network_boot_complete \in BOOLEAN /\ network_connect_pending \in BOOLEAN
  /\ wifi_connected \in BOOLEAN /\ ap_mode_active \in BOOLEAN
  /\ active_network \in {"NONE", "WIFI", "GSM"} /\ network_available_cached \in BOOLEAN
  /\ modem \in Modems /\ cell \in Cells /\ in_range \in BOOLEAN /\ station \in BOOLEAN
GsmOK ==
  /\ gsm_power_state \in BOOLEAN /\ gsm_modem_ready \in BOOLEAN /\ gsm_initialized \in BOOLEAN
  /\ gsm_connected \in BOOLEAN /\ gsm_registration_complete \in BOOLEAN
  /\ gsm_internet_verified \in BOOLEAN /\ gsm_tcp_warmed_up \in BOOLEAN
  /\ gsm_boot_modes_exhausted \in BOOLEAN /\ connect_start_fresh \in BOOLEAN

(* What the steps of an attempt have behind them.                          *)
StagesInv ==
  /\ PowerFollows
  /\ pc = "init" => gsm_power_state
  /\ pc = "check_on" => gsm_initialized /\ ~gsm_connected
  /\ pc \in {"data", "probe"} => gsm_connected
  /\ Attempting /\ gsm_connected => pc = "data"

(* WiFi is not there while the modem is driven, nor while its attempt is   *)
(* under way; the GSM mode keeps WiFi out another way.                     *)
WithoutWifi ==
  {"boot", "boot_gsm", "connect", "init", "start", "check_on", "data", "probe", "unverified"}
Apart ==
  wifi_connected => /\ ~gsm_connected
                    /\ network_mode = "GSM" \/ (~Attempting /\ pc \notin WithoutWifi)
ApartInv == lock_broken \/ Apart

IInv == PlacesOK /\ DeviceOK /\ CountsOK /\ NetOK /\ GsmOK /\ StagesInv /\ ApartInv

(* The frames and small steps every action is made of.                     *)
USE DEF coreVars, pcVars, loopVars, netVars, wifiVars, activeVars, powerVars, dataVars,
        attemptVars, modeVars, gsmVars, worldVars, boundVars,
        KeepLoop, KeepModem, KeepModemRest, KeepShared, KeepCheck, KeepGsm, KeepWorldButStation,
        KeepBoot, KeepAp, KeepAll, KeepPassing, KeepSwitch, KeepLink,
        Moves, Goes, Returns, Leaves, Calls, Reconnects, Asked,
        PowerFlagsOff, SessionFlagsOff, Shutdown, ModemOff, WifiConnect, StartAp, UpdateActive,
        CheckDue, Detected, Requested

-----------------------------------------------------------------------------
(* What the steps come to that several handlers share.                     *)
LEMMA Joining ==
  ASSUME NEW s \in MayJoin
  PROVE  s \in BOOLEAN
  BY DEF MayJoin

LEMMA Changes ==
  /\ Changed("IDLE") = "IDLE"
  /\ \A to : Changed(to) \in {device_state, to}
  BY DEF Changed, IsValidTransition, RfActive, AtStaging

WifiTakes ==
  /\ wifi_connected' = TRUE /\ active_network' = "WIFI" /\ device_state' = "IDLE"
  /\ ModemOff
WifiWaits ==
  /\ UNCHANGED <<wifi_connected, active_network>> /\ KeepModem
  /\ device_state' \in {device_state, "IDLE"}

LEMMA WifiAnswers ==
  ASSUME CheckWifi, NetOK
  PROVE  station' \in BOOLEAN /\ UNCHANGED ap_mode_active /\ (WifiTakes \/ WifiWaits)
  <1> USE DEF WifiTakes, WifiWaits
  <1>1. CASE WifiUp
    BY <1>1 DEF NetOK, WifiUp
  <1>2. CASE WifiRetries
    BY <1>2, Joining DEF NetOK, WifiRetries
  <1>3. CASE UNCHANGED <<device_state, station, wifiVars, active_network>> /\ KeepModem
    BY <1>3 DEF NetOK
  <1> QED
    BY <1>1, <1>2, <1>3 DEF CheckWifi

LEMMA Registering ==
  ASSUME CheckRegistration
  PROVE  /\ pc = "check_on" /\ ~gsm_registration_complete /\ Returns /\ KeepCheck
         /\ UNCHANGED <<dataVars, gsm_internet_test_attempt, gsm_boot_modes_exhausted,
                        gsm_current_network_mode_index>>
         /\ \/ /\ connect_start_fresh' = FALSE
               /\ UNCHANGED <<device_state, gsm_registration_complete, gsm_retry_count>>
            \/ /\ connect_start_fresh' = TRUE
               /\ gsm_retry_count' \in Counted(gsm_retry_count)
               /\ UNCHANGED <<device_state, gsm_registration_complete>>
            \/ /\ gsm_registration_complete' = TRUE /\ connect_start_fresh' = FALSE
               /\ device_state' \in {device_state, Changed("GSM_REGISTERING")}
               /\ UNCHANGED gsm_retry_count
  <1> DEFINE r == Registration
  <1>1. /\ pc = "check_on" /\ ~gsm_registration_complete /\ Returns /\ KeepCheck
        /\ UNCHANGED <<dataVars, gsm_internet_test_attempt, gsm_boot_modes_exhausted,
                       gsm_current_network_mode_index>>
    BY DEF CheckRegistration
  <1>2. CASE r = "searching"
    BY <1>1, <1>2 DEF CheckRegistration
  <1>3. CASE r = "refused"
    BY <1>1, <1>3 DEF CheckRegistration
  <1>4. CASE r = "too weak"
    BY <1>1, <1>4 DEF CheckRegistration
  <1>5. CASE r \notin {"searching", "refused", "too weak"}
    BY <1>1, <1>5 DEF CheckRegistration
  <1> QED
    BY <1>2, <1>3, <1>4, <1>5

LEMMA Counting ==
  ASSUME NEW n \in 0..CountLimit, NEW m \in Counted(n)
  PROVE  m \in 0..CountLimit
  BY DEF Counted, CountLimit

LEMMA ModeIndices ==
  ASSUME CountsOK
  PROVE  /\ \A type : NetworkModeCount(type) \in Nat /\ 0 \in 0..NetworkModeCount(type) - 1
         /\ HasNextMode => NextMode \in 0..NetworkModeCount(gsm_module_type) - 1
  <1>1. \A type : NetworkModeCount(type) \in Nat /\ 0 \in 0..NetworkModeCount(type) - 1
    BY LimitsPositive DEF NetworkModeCount
  <1>2. gsm_current_network_mode_index \in 0..NetworkModeCount(gsm_module_type) - 1
    BY DEF CountsOK
  <1> QED
    BY <1>1, <1>2 DEF HasNextMode, NextMode

WifiAlone == wifi_connected => ~gsm_connected /\ ~Attempting /\ pc \notin WithoutWifi

LEMMA LockHolds ==
  ASSUME ApartInv, Core1, ~lock_broken'
  PROVE  WifiAlone
  <1>1. Core1 => Noted
    <2>1. BootStep => Noted
      BY DEF BootStep, BootScans, BootWaitsWifi, BootWifiTimesOut, BootTriesGsm, BootChecksGsm,
             BootAttemptOn, BootEndsWithGsm, BootGivesUp, BootAttemptDead
    <2>2. GsmStep => Noted
      BY Registering DEF GsmStep, GsmConnect, InitSilent, InitAnswers, ConnectStarts, CheckIdle,
             CheckTimesOut, CheckInTime, DataConnects, DataFails, DataUp, Probe, Unverified
    <2>3. ReconnectStep => Noted
      BY DEF ReconnectStep, ReconnectRefused, ReconnectEarly, ReconnectWithGsm, ReconnectWithWifi,
             ReconnectScans, ReconnectWaits, ReconnectTimesOut, ReconnectEnds
    <2>4. LoopStep => Noted
      BY DEF LoopStep, Sample, SerialDone, Switched, Pending, WifiChecked, GsmChecked, LinkLost,
             LinkKept, LinkRetries, Updated
    <2>5. Console => Noted
      BY DEF Console, Abort, SwitchRefused, SwitchToAuto, SwitchToWifi, SwitchToGsm, SwitchToAp
    <2> QED
      BY <2>1, <2>2, <2>3, <2>4, <2>5 DEF Core1
  <1>2. Noted => ~lock_broken /\ ~(network_mode = "GSM" /\ wifi_connected)
    BY Zenon DEF Noted
  <1> QED
    BY <1>1, <1>2, Zenon DEF ApartInv, Apart, WifiAlone

-----------------------------------------------------------------------------
(* Where Core 1 stands and where it returns to.                            *)
LEMMA PlacesStay ==
  ASSUME PlacesOK, [Next]_vars
  PROVE  PlacesOK'
  <1> USE DEF PlacesOK, Steps
  <1>1. CASE TxStart \/ TxEnd \/ World
    BY <1>1 DEF TxStart, TxEnd, World
  <1>2. CASE GsmConnect \/ InitSilent
    BY <1>2 DEF GsmConnect, InitSilent
  <1>3. CASE InitAnswers \/ ConnectStarts
    BY <1>3 DEF InitAnswers, ConnectStarts
  <1>4. CASE CheckIdle \/ CheckTimesOut \/ CheckInTime
    BY <1>4 DEF CheckIdle, CheckTimesOut, CheckInTime
  <1>5. CASE CheckRegistration
    BY <1>5, Registering
  <1>6. CASE DataConnects \/ DataFails \/ DataUp
    BY <1>6 DEF DataConnects, DataFails, DataUp
  <1>7. CASE Probe \/ Unverified
    BY <1>7 DEF Probe, Unverified
  <1>8. CASE BootScans \/ BootWaitsWifi \/ BootWifiTimesOut
    BY <1>8 DEF BootScans, BootWaitsWifi, BootWifiTimesOut
  <1>9. CASE BootTriesGsm \/ BootChecksGsm \/ BootAttemptOn
    BY <1>9 DEF BootTriesGsm, BootChecksGsm, BootAttemptOn
  <1>10. CASE BootEndsWithGsm \/ BootGivesUp \/ BootAttemptDead
    BY <1>10 DEF BootEndsWithGsm, BootGivesUp, BootAttemptDead
  <1>11. CASE ReconnectRefused \/ ReconnectEarly \/ ReconnectWithGsm \/ ReconnectWithWifi
    BY <1>11 DEF ReconnectRefused, ReconnectEarly, ReconnectWithGsm, ReconnectWithWifi
  <1>12. CASE ReconnectScans \/ ReconnectWaits
    BY <1>12 DEF ReconnectScans, ReconnectWaits
  <1>13. CASE ReconnectTimesOut \/ ReconnectEnds
    BY <1>13 DEF ReconnectTimesOut, ReconnectEnds
  <1>14. CASE Sample \/ SerialDone \/ Switched \/ Pending
    BY <1>14 DEF Sample, SerialDone, Switched, Pending
  <1>15. CASE WifiChecked \/ GsmChecked
    BY <1>15 DEF WifiChecked, GsmChecked
  <1>16. CASE LinkLost \/ LinkKept \/ LinkRetries \/ Updated
    BY <1>16 DEF LinkLost, LinkKept, LinkRetries, Updated
  <1>17. CASE Abort \/ SwitchRefused \/ SwitchToAuto
    BY <1>17 DEF Abort, SwitchRefused, SwitchToAuto
  <1>18. CASE SwitchToWifi \/ SwitchToGsm \/ SwitchToAp
    BY <1>18 DEF SwitchToWifi, SwitchToGsm, SwitchToAp
  <1>19. CASE UNCHANGED vars
    BY <1>19 DEF vars
  <1> QED
    BY <1>1, <1>2, <1>3, <1>4, <1>5, <1>6, <1>7, <1>8, <1>9, <1>10, <1>11, <1>12,
       <1>13, <1>14, <1>15, <1>16, <1>17, <1>18, <1>19 DEF Next, Core1, BootStep, GsmStep,
       ReconnectStep, LoopStep, Console

(* The states of the device; WIFI_CONNECTING stands only with tries left.  *)
LEMMA DevicesStay ==
  ASSUME DeviceOK, [Next]_vars
  PROVE  DeviceOK'
  <1> USE LimitsPositive DEF DeviceOK, DeviceStates, Changed, CheckWifi, WifiUp, WifiRetries
  <1>1. CASE TxStart \/ TxEnd \/ World
    BY <1>1 DEF TxStart, TxEnd, World
  <1>2. CASE GsmConnect \/ InitSilent
    BY <1>2 DEF GsmConnect, InitSilent
  <1>3. CASE InitAnswers \/ ConnectStarts
    BY <1>3 DEF InitAnswers, ConnectStarts
  <1>4. CASE CheckIdle \/ CheckTimesOut \/ CheckInTime
    BY <1>4 DEF CheckIdle, CheckTimesOut, CheckInTime
  <1>5. CASE CheckRegistration
    BY <1>5, Registering
  <1>6. CASE DataConnects \/ DataFails \/ DataUp
    BY <1>6 DEF DataConnects, DataFails, DataUp
  <1>7. CASE Probe \/ Unverified
    BY <1>7 DEF Probe, Unverified
  <1>8. CASE BootScans \/ BootWaitsWifi \/ BootWifiTimesOut
    BY <1>8 DEF BootScans, BootWaitsWifi, BootWifiTimesOut
  <1>9. CASE BootTriesGsm \/ BootChecksGsm \/ BootAttemptOn
    BY <1>9 DEF BootTriesGsm, BootChecksGsm, BootAttemptOn
  <1>10. CASE BootEndsWithGsm \/ BootGivesUp \/ BootAttemptDead
    BY <1>10 DEF BootEndsWithGsm, BootGivesUp, BootAttemptDead
  <1>11. CASE ReconnectRefused \/ ReconnectEarly \/ ReconnectWithGsm \/ ReconnectWithWifi
    BY <1>11 DEF ReconnectRefused, ReconnectEarly, ReconnectWithGsm, ReconnectWithWifi
  <1>12. CASE ReconnectScans \/ ReconnectWaits
    BY <1>12 DEF ReconnectScans, ReconnectWaits
  <1>13. CASE ReconnectTimesOut \/ ReconnectEnds
    BY <1>13 DEF ReconnectTimesOut, ReconnectEnds
  <1>14. CASE Sample \/ SerialDone \/ Switched \/ Pending
    BY <1>14 DEF Sample, SerialDone, Switched, Pending
  <1>15. CASE WifiChecked \/ GsmChecked
    BY <1>15 DEF WifiChecked, GsmChecked
  <1>16. CASE LinkLost \/ LinkKept \/ LinkRetries \/ Updated
    BY <1>16 DEF LinkLost, LinkKept, LinkRetries, Updated
  <1>17. CASE Abort \/ SwitchRefused \/ SwitchToAuto
    BY <1>17 DEF Abort, SwitchRefused, SwitchToAuto
  <1>18. CASE SwitchToWifi \/ SwitchToGsm \/ SwitchToAp
    <2>1. CASE SwitchToWifi
      BY <2>1 DEF SwitchToWifi
    <2>2. CASE SwitchToGsm
      BY <2>2 DEF SwitchToGsm
    <2>3. CASE SwitchToAp
      BY <2>3 DEF SwitchToAp
    <2> QED
      BY <1>18, <2>1, <2>2, <2>3
  <1>19. CASE UNCHANGED vars
    BY <1>19 DEF vars
  <1> QED
    BY <1>1, <1>2, <1>3, <1>4, <1>5, <1>6, <1>7, <1>8, <1>9, <1>10, <1>11, <1>12,
       <1>13, <1>14, <1>15, <1>16, <1>17, <1>18, <1>19 DEF Next, Core1, BootStep, GsmStep,
       ReconnectStep, LoopStep, Console

(* Counters and the index into the table of modes.                         *)
LEMMA CountsStay ==
  ASSUME CountsOK, NetOK, [Next]_vars
  PROVE  CountsOK'
  <1> USE DEF CountsOK
  <1>1. CASE TxStart \/ TxEnd \/ World
    BY <1>1 DEF TxStart, TxEnd, World
  <1>2. CASE GsmConnect \/ InitSilent
    <2>1. CASE GsmConnect
      BY <2>1 DEF GsmConnect
    <2>2. CASE InitSilent
      <3>1. 0 \in 0..CountLimit /\ 0 \in 0..GSM_INTERNET_TEST_MAX_ATTEMPTS
        BY <2>2, LimitsPositive DEF CountLimit
      <3> QED
        BY <2>2, <3>1, LimitsPositive DEF InitSilent
    <2> QED
      BY <1>2, <2>1, <2>2
  <1>3. CASE InitAnswers \/ ConnectStarts
    <2>1. CASE InitAnswers
      <3>1. modem \in {"A7670SA", "SIM800L"}
        BY <2>1, CellularAssumption DEF NetOK
      <3>2. gsm_current_network_mode_index' \in 0..NetworkModeCount(gsm_module_type') - 1
        BY <2>1, ModeIndices DEF InitAnswers
      <3> QED
        BY <2>1, <3>1, <3>2 DEF InitAnswers
    <2>2. CASE ConnectStarts
      <3>1. gsm_current_network_mode_index' \in 0..NetworkModeCount(gsm_module_type') - 1
        BY <2>2, ModeIndices DEF ConnectStarts
      <3>2. 0 \in 0..CountLimit
        BY <2>2 DEF CountLimit
      <3> QED
        BY <2>2, <3>1, <3>2, LimitsPositive DEF ConnectStarts
    <2> QED
      BY <1>3, <2>1, <2>2
  <1>4. CASE CheckIdle \/ CheckTimesOut \/ CheckInTime
    <2>1. CASE CheckIdle
      BY <2>1 DEF CheckIdle
    <2>2. CASE CheckTimesOut
      <3>1. gsm_retry_count' \in 0..CountLimit
        BY <2>2, Counting DEF CheckTimesOut, AfterTimeout
      <3> QED
        BY <2>2, <3>1 DEF CheckTimesOut
    <2>3. CASE CheckInTime
      BY <2>3 DEF CheckInTime
    <2> QED
      BY <1>4, <2>1, <2>2, <2>3
  <1>5. CASE CheckRegistration
    <2>1. gsm_retry_count' \in 0..CountLimit
      BY <1>5, Registering, Counting
    <2> QED
      BY <1>5, <2>1, Registering
  <1>6. CASE DataConnects \/ DataFails \/ DataUp
    <2>1. CASE DataConnects
      <3>1. 0 \in 0..CountLimit /\ 0 \in 0..GSM_INTERNET_TEST_MAX_ATTEMPTS
        BY <2>1, LimitsPositive DEF CountLimit
      <3> QED
        BY <2>1, <3>1, LimitsPositive DEF DataConnects
    <2>2. CASE DataFails
      <3>1. PICK n \in Counted(gsm_retry_count) : gsm_retry_count' \in {0, n}
        BY <2>2 DEF DataFails
      <3>2. n \in 0..CountLimit /\ 0 \in 0..CountLimit
        BY <2>2, <3>1, Counting DEF CountLimit
      <3>3. gsm_current_network_mode_index' \in 0..NetworkModeCount(gsm_module_type') - 1
        BY <2>2, ModeIndices DEF DataFails
      <3> QED
        BY <2>2, <3>1, <3>2, <3>3 DEF DataFails
    <2>3. CASE DataUp
      <3>1. 0 \in 0..CountLimit /\ 0 \in 0..GSM_INTERNET_TEST_MAX_ATTEMPTS
        BY <2>3, LimitsPositive DEF CountLimit
      <3> QED
        BY <2>3, <3>1, LimitsPositive DEF DataUp
    <2> QED
      BY <1>6, <2>1, <2>2, <2>3
  <1>7. CASE Probe \/ Unverified
    <2>1. CASE Probe
      <3>1. 0 \in 0..CountLimit /\ 0 \in 0..GSM_INTERNET_TEST_MAX_ATTEMPTS
        BY <2>1, LimitsPositive DEF CountLimit
      <3> QED
        BY <2>1, <3>1, LimitsPositive DEF Probe
    <2>2. CASE Unverified
      <3>1. gsm_current_network_mode_index' \in 0..NetworkModeCount(gsm_module_type') - 1
        BY <2>2, ModeIndices DEF Unverified
      <3> QED
        BY <2>2, <3>1 DEF Unverified
    <2> QED
      BY <1>7, <2>1, <2>2
  <1>8. CASE BootScans \/ BootWaitsWifi \/ BootWifiTimesOut
    <2>1. CASE BootScans
      BY <2>1 DEF BootScans
    <2>2. CASE BootWaitsWifi
      <3>1. 0 \in 0..GSM_INTERNET_TEST_MAX_ATTEMPTS
        BY <2>2, LimitsPositive
      <3>2. WifiTakes \/ WifiWaits
        BY <2>2, WifiAnswers DEF BootWaitsWifi
      <3>3. CASE WifiTakes
        BY <2>2, <3>1, <3>3 DEF BootWaitsWifi, WifiTakes
      <3>4. CASE WifiWaits
        BY <2>2, <3>4 DEF BootWaitsWifi, WifiWaits
      <3> QED
        BY <2>2, <3>1, <3>2, <3>3, <3>4 DEF BootWaitsWifi
    <2>3. CASE BootWifiTimesOut
      BY <2>3 DEF BootWifiTimesOut
    <2> QED
      BY <1>8, <2>1, <2>2, <2>3
  <1>9. CASE BootTriesGsm \/ BootChecksGsm \/ BootAttemptOn
    BY <1>9 DEF BootTriesGsm, BootChecksGsm, BootAttemptOn
  <1>10. CASE BootEndsWithGsm \/ BootGivesUp \/ BootAttemptDead
    BY <1>10 DEF BootEndsWithGsm, BootGivesUp, BootAttemptDead
  <1>11. CASE ReconnectRefused \/ ReconnectEarly \/ ReconnectWithGsm \/ ReconnectWithWifi
    BY <1>11 DEF ReconnectRefused, ReconnectEarly, ReconnectWithGsm, ReconnectWithWifi
  <1>12. CASE ReconnectScans \/ ReconnectWaits
    <2>1. CASE ReconnectScans
      BY <2>1 DEF ReconnectScans
    <2>2. CASE ReconnectWaits
      <3>1. 0 \in 0..GSM_INTERNET_TEST_MAX_ATTEMPTS
        BY <2>2, LimitsPositive
      <3>2. WifiTakes \/ WifiWaits
        BY <2>2, WifiAnswers DEF ReconnectWaits
      <3>3. CASE WifiTakes
        BY <2>2, <3>1, <3>3 DEF ReconnectWaits, WifiTakes
      <3>4. CASE WifiWaits
        BY <2>2, <3>4 DEF ReconnectWaits, WifiWaits
      <3> QED
        BY <2>2, <3>1, <3>2, <3>3, <3>4 DEF ReconnectWaits
    <2> QED
      BY <1>12, <2>1, <2>2
  <1>13. CASE ReconnectTimesOut \/ ReconnectEnds
    <2>1. CASE ReconnectTimesOut
      BY <2>1 DEF ReconnectTimesOut
    <2>2. CASE ReconnectEnds
      <3>1. 0 \in 0..GSM_INTERNET_TEST_MAX_ATTEMPTS
        BY <2>2, LimitsPositive
      <3> QED
        BY <2>2, <3>1 DEF ReconnectEnds
    <2> QED
      BY <1>13, <2>1, <2>2
  <1>14. CASE Sample \/ SerialDone \/ Switched \/ Pending
    BY <1>14 DEF Sample, SerialDone, Switched, Pending
  <1>15. CASE WifiChecked \/ GsmChecked
    <2>1. CASE WifiChecked
      <3>1. 0 \in 0..GSM_INTERNET_TEST_MAX_ATTEMPTS
        BY <2>1, LimitsPositive
      <3>2. CASE WifiTakes
        BY <2>1, <3>1, <3>2 DEF WifiChecked, WifiTakes
      <3>3. CASE WifiWaits
        BY <2>1, <3>3 DEF WifiChecked, WifiWaits
      <3>4. CASE KeepModem
        BY <2>1, <3>4 DEF WifiChecked
      <3> QED
        BY <2>1, <3>1, <3>2, <3>3, <3>4, WifiAnswers DEF WifiChecked
    <2>2. CASE GsmChecked
      BY <2>2 DEF GsmChecked
    <2> QED
      BY <1>15, <2>1, <2>2
  <1>16. CASE LinkLost \/ LinkKept \/ LinkRetries \/ Updated
    BY <1>16 DEF LinkLost, LinkKept, LinkRetries, Updated
  <1>17. CASE Abort \/ SwitchRefused \/ SwitchToAuto
    BY <1>17 DEF Abort, SwitchRefused, SwitchToAuto
  <1>18. CASE SwitchToWifi \/ SwitchToGsm \/ SwitchToAp
    <2>1. CASE SwitchToWifi
      <3>1. 0 \in 0..GSM_INTERNET_TEST_MAX_ATTEMPTS
        BY <2>1, LimitsPositive
      <3> QED
        BY <2>1, <3>1 DEF SwitchToWifi
    <2>2. CASE SwitchToGsm
      BY <2>2 DEF SwitchToGsm
    <2>3. CASE SwitchToAp
      <3>1. 0 \in 0..GSM_INTERNET_TEST_MAX_ATTEMPTS
        BY <2>3, LimitsPositive
      <3> QED
        BY <2>3, <3>1 DEF SwitchToAp
    <2> QED
      BY <1>18, <2>1, <2>2, <2>3
  <1>19. CASE UNCHANGED vars
    BY <1>19 DEF vars
  <1> QED
    BY <1>1, <1>2, <1>3, <1>4, <1>5, <1>6, <1>7, <1>8, <1>9, <1>10, <1>11, <1>12,
       <1>13, <1>14, <1>15, <1>16, <1>17, <1>18, <1>19 DEF Next, Core1, BootStep, GsmStep,
       ReconnectStep, LoopStep, Console

(* What loop, WiFi and the world are about.                                *)
LEMMA NetStays ==
  ASSUME NetOK, [Next]_vars
  PROVE  NetOK'
  <1> USE DEF NetOK
  <1>1. CASE TxStart \/ TxEnd \/ World
    <2>1. CASE TxStart
      BY <2>1 DEF TxStart
    <2>2. CASE TxEnd
      BY <2>2 DEF TxEnd
    <2>3. CASE World
      <3>1. in_range' \in BOOLEAN /\ station' \in BOOLEAN
        BY <2>3, Zenon DEF World
      <3>2. cell' \in Cells /\ modem' \in Modems
        BY <2>3 DEF World
      <3> QED
        BY <2>3, <3>1, <3>2 DEF World
    <2> QED
      BY <1>1, <2>1, <2>2, <2>3
  <1>2. CASE GsmConnect \/ InitSilent
    <2>1. CASE GsmConnect
      BY <2>1 DEF GsmConnect
    <2>2. CASE InitSilent
      BY <2>2 DEF InitSilent
    <2> QED
      BY <1>2, <2>1, <2>2
  <1>3. CASE InitAnswers \/ ConnectStarts
    BY <1>3 DEF InitAnswers, ConnectStarts
  <1>4. CASE CheckIdle \/ CheckTimesOut \/ CheckInTime
    BY <1>4 DEF CheckIdle, CheckTimesOut, CheckInTime
  <1>5. CASE CheckRegistration
    BY <1>5, Registering
  <1>6. CASE DataConnects \/ DataFails \/ DataUp
    <2>1. CASE DataConnects
      BY <2>1 DEF DataConnects
    <2>2. CASE DataFails
      BY <2>2 DEF DataFails
    <2>3. CASE DataUp
      BY <2>3 DEF DataUp, Active
    <2> QED
      BY <1>6, <2>1, <2>2, <2>3
  <1>7. CASE Probe \/ Unverified
    <2>1. CASE Probe
      BY <2>1 DEF Probe
    <2>2. CASE Unverified
      BY <2>2 DEF Unverified, Active
    <2> QED
      BY <1>7, <2>1, <2>2
  <1>8. CASE BootScans \/ BootWaitsWifi \/ BootWifiTimesOut
    <2>1. CASE BootScans
      <3>1. station' \in BOOLEAN
        BY <2>1, Joining DEF BootScans
      <3> QED
        BY <2>1, <3>1 DEF BootScans
    <2>2. CASE BootWaitsWifi
      <3>1. CheckWifi
        BY <2>2 DEF BootWaitsWifi
      <3> QED
        BY <2>2, <3>1, WifiAnswers DEF BootWaitsWifi, WifiTakes, WifiWaits
    <2>3. CASE BootWifiTimesOut
      BY <2>3 DEF BootWifiTimesOut
    <2> QED
      BY <1>8, <2>1, <2>2, <2>3
  <1>9. CASE BootTriesGsm \/ BootChecksGsm \/ BootAttemptOn
    BY <1>9 DEF BootTriesGsm, BootChecksGsm, BootAttemptOn
  <1>10. CASE BootEndsWithGsm \/ BootGivesUp \/ BootAttemptDead
    BY <1>10 DEF BootEndsWithGsm, BootGivesUp, BootAttemptDead
  <1>11. CASE ReconnectRefused \/ ReconnectEarly \/ ReconnectWithGsm \/ ReconnectWithWifi
    <2>1. CASE ReconnectRefused
      BY <2>1 DEF ReconnectRefused
    <2>2. CASE ReconnectEarly
      BY <2>2 DEF ReconnectEarly
    <2>3. CASE ReconnectWithGsm
      BY <2>3 DEF ReconnectWithGsm
    <2>4. CASE ReconnectWithWifi
      <3>1. station' \in BOOLEAN
        BY <2>4, Joining DEF ReconnectWithWifi
      <3> QED
        BY <2>4, <3>1 DEF ReconnectWithWifi
    <2> QED
      BY <1>11, <2>1, <2>2, <2>3, <2>4
  <1>12. CASE ReconnectScans \/ ReconnectWaits
    <2>1. CASE ReconnectScans
      <3>1. station' \in BOOLEAN
        BY <2>1, Joining DEF ReconnectScans
      <3> QED
        BY <2>1, <3>1 DEF ReconnectScans
    <2>2. CASE ReconnectWaits
      <3>1. CheckWifi
        BY <2>2 DEF ReconnectWaits
      <3> QED
        BY <2>2, <3>1, WifiAnswers DEF ReconnectWaits, WifiTakes, WifiWaits
    <2> QED
      BY <1>12, <2>1, <2>2
  <1>13. CASE ReconnectTimesOut \/ ReconnectEnds
    <2>1. CASE ReconnectTimesOut
      BY <2>1 DEF ReconnectTimesOut
    <2>2. CASE ReconnectEnds
      BY <2>2 DEF ReconnectEnds, Active
    <2> QED
      BY <1>13, <2>1, <2>2
  <1>14. CASE Sample \/ SerialDone \/ Switched \/ Pending
    <2>1. CASE Sample
      <3>1. guard_active' \in BOOLEAN
        BY <2>1, Zenon DEF Sample, GuardActive, RfActive, AtStaging
      <3> QED
        BY <2>1, <3>1 DEF Sample
    <2>2. CASE SerialDone
      BY <2>2 DEF SerialDone
    <2>3. CASE Switched
      BY <2>3 DEF Switched, Active
    <2>4. CASE Pending
      BY <2>4 DEF Pending
    <2> QED
      BY <1>14, <2>1, <2>2, <2>3, <2>4
  <1>15. CASE WifiChecked \/ GsmChecked
    <2>1. CASE WifiChecked
      <3>1. CASE CheckWifi
        BY <2>1, <3>1, WifiAnswers DEF WifiChecked, WifiTakes, WifiWaits
      <3>2. CASE UNCHANGED <<station, wifiVars, active_network>>
        BY <2>1, <3>2 DEF WifiChecked
      <3> QED
        BY <2>1, <3>1, <3>2 DEF WifiChecked
    <2>2. CASE GsmChecked
      BY <2>2 DEF GsmChecked
    <2> QED
      BY <1>15, <2>1, <2>2
  <1>16. CASE LinkLost \/ LinkKept \/ LinkRetries \/ Updated
    <2>1. CASE LinkLost
      BY <2>1 DEF LinkLost
    <2>2. CASE LinkKept
      BY <2>2 DEF LinkKept
    <2>3. CASE LinkRetries
      BY <2>3 DEF LinkRetries
    <2>4. CASE Updated
      <3>1. network_available_cached' \in BOOLEAN
        BY <2>4, Zenon DEF Updated, Available
      <3> QED
        BY <2>4, <3>1 DEF Updated, NetworkModes, Active
    <2> QED
      BY <1>16, <2>1, <2>2, <2>3, <2>4
  <1>17. CASE Abort \/ SwitchRefused \/ SwitchToAuto
    <2>1. CASE Abort
      BY <2>1 DEF Abort
    <2>2. CASE SwitchRefused
      BY <2>2 DEF SwitchRefused
    <2>3. CASE SwitchToAuto
      BY <2>3 DEF SwitchToAuto, NetworkModes
    <2> QED
      BY <1>17, <2>1, <2>2, <2>3
  <1>18. CASE SwitchToWifi \/ SwitchToGsm \/ SwitchToAp
    <2>1. CASE SwitchToWifi
      <3>1. station' \in BOOLEAN
        BY <2>1, Joining DEF SwitchToWifi
      <3> QED
        BY <2>1, <3>1 DEF SwitchToWifi, NetworkModes, Active
    <2>2. CASE SwitchToGsm
      BY <2>2 DEF SwitchToGsm, NetworkModes
    <2>3. CASE SwitchToAp
      BY <2>3 DEF SwitchToAp, NetworkModes, Active
    <2> QED
      BY <1>18, <2>1, <2>2, <2>3
  <1>19. CASE UNCHANGED vars
    BY <1>19 DEF vars
  <1> QED
    BY <1>1, <1>2, <1>3, <1>4, <1>5, <1>6, <1>7, <1>8, <1>9, <1>10, <1>11, <1>12,
       <1>13, <1>14, <1>15, <1>16, <1>17, <1>18, <1>19 DEF Next, Core1, BootStep, GsmStep,
       ReconnectStep, LoopStep, Console

(* The modem's flags.                                                      *)
LEMMA GsmStays ==
  ASSUME GsmOK, NetOK, [Next]_vars
  PROVE  GsmOK'
  <1> USE DEF GsmOK
  <1>1. CASE TxStart \/ TxEnd \/ World
    BY <1>1 DEF TxStart, TxEnd, World
  <1>2. CASE GsmConnect \/ InitSilent
    BY <1>2 DEF GsmConnect, InitSilent
  <1>3. CASE InitAnswers \/ ConnectStarts
    BY <1>3 DEF InitAnswers, ConnectStarts
  <1>4. CASE CheckIdle \/ CheckTimesOut \/ CheckInTime
    BY <1>4 DEF CheckIdle, CheckTimesOut, CheckInTime
  <1>5. CASE CheckRegistration
    BY <1>5, Registering
  <1>6. CASE DataConnects \/ DataFails \/ DataUp
    BY <1>6 DEF DataConnects, DataFails, DataUp
  <1>7. CASE Probe \/ Unverified
    BY <1>7 DEF Probe, Unverified
  <1>8. CASE BootScans \/ BootWaitsWifi \/ BootWifiTimesOut
    <2>1. CASE BootScans
      BY <2>1 DEF BootScans
    <2>2. CASE BootWaitsWifi
      <3>1. WifiTakes \/ WifiWaits
        BY <2>2, WifiAnswers DEF BootWaitsWifi
      <3>2. CASE WifiTakes
        BY <2>2, <3>2 DEF BootWaitsWifi, WifiTakes
      <3>3. CASE WifiWaits
        BY <2>2, <3>3 DEF BootWaitsWifi, WifiWaits
      <3> QED
        BY <2>2, <3>1, <3>2, <3>3 DEF BootWaitsWifi
    <2>3. CASE BootWifiTimesOut
      BY <2>3 DEF BootWifiTimesOut
    <2> QED
      BY <1>8, <2>1, <2>2, <2>3
  <1>9. CASE BootTriesGsm \/ BootChecksGsm \/ BootAttemptOn
    BY <1>9 DEF BootTriesGsm, BootChecksGsm, BootAttemptOn
  <1>10. CASE BootEndsWithGsm \/ BootGivesUp \/ BootAttemptDead
    BY <1>10 DEF BootEndsWithGsm, BootGivesUp, BootAttemptDead
  <1>11. CASE ReconnectRefused \/ ReconnectEarly \/ ReconnectWithGsm \/ ReconnectWithWifi
    BY <1>11 DEF ReconnectRefused, ReconnectEarly, ReconnectWithGsm, ReconnectWithWifi
  <1>12. CASE ReconnectScans \/ ReconnectWaits
    <2>1. CASE ReconnectScans
      BY <2>1 DEF ReconnectScans
    <2>2. CASE ReconnectWaits
      <3>1. WifiTakes \/ WifiWaits
        BY <2>2, WifiAnswers DEF ReconnectWaits
      <3>2. CASE WifiTakes
        BY <2>2, <3>2 DEF ReconnectWaits, WifiTakes
      <3>3. CASE WifiWaits
        BY <2>2, <3>3 DEF ReconnectWaits, WifiWaits
      <3> QED
        BY <2>2, <3>1, <3>2, <3>3 DEF ReconnectWaits
    <2> QED
      BY <1>12, <2>1, <2>2
  <1>13. CASE ReconnectTimesOut \/ ReconnectEnds
    BY <1>13 DEF ReconnectTimesOut, ReconnectEnds
  <1>14. CASE Sample \/ SerialDone \/ Switched \/ Pending
    BY <1>14 DEF Sample, SerialDone, Switched, Pending
  <1>15. CASE WifiChecked \/ GsmChecked
    <2>1. CASE WifiChecked
      <3>1. CASE WifiTakes
        BY <2>1, <3>1 DEF WifiChecked, WifiTakes
      <3>2. CASE WifiWaits
        BY <2>1, <3>2 DEF WifiChecked, WifiWaits
      <3>3. CASE KeepModem /\ UNCHANGED <<device_state, wifi_connected>>
        BY <2>1, <3>3 DEF WifiChecked
      <3> QED
        BY <2>1, <3>1, <3>2, <3>3, WifiAnswers DEF WifiChecked
    <2>2. CASE GsmChecked
      BY <2>2 DEF GsmChecked
    <2> QED
      BY <1>15, <2>1, <2>2
  <1>16. CASE LinkLost \/ LinkKept \/ LinkRetries \/ Updated
    BY <1>16 DEF LinkLost, LinkKept, LinkRetries, Updated
  <1>17. CASE Abort \/ SwitchRefused \/ SwitchToAuto
    BY <1>17 DEF Abort, SwitchRefused, SwitchToAuto
  <1>18. CASE SwitchToWifi \/ SwitchToGsm \/ SwitchToAp
    BY <1>18 DEF SwitchToWifi, SwitchToGsm, SwitchToAp
  <1>19. CASE UNCHANGED vars
    BY <1>19 DEF vars
  <1> QED
    BY <1>1, <1>2, <1>3, <1>4, <1>5, <1>6, <1>7, <1>8, <1>9, <1>10, <1>11, <1>12,
       <1>13, <1>14, <1>15, <1>16, <1>17, <1>18, <1>19 DEF Next, Core1, BootStep, GsmStep,
       ReconnectStep, LoopStep, Console

(* The stages of the modem's connection.                                   *)
LEMMA StagesStay ==
  ASSUME StagesInv, PlacesOK, NetOK, [Next]_vars
  PROVE  StagesInv'
  <1> USE DEF StagesInv, PowerFollows, PlacesOK, Attempting, Connecting
  <1>1. CASE TxStart \/ TxEnd \/ World
    BY <1>1 DEF TxStart, TxEnd, World
  <1>2. CASE GsmConnect \/ InitSilent
    <2>1. CASE GsmConnect
      BY <2>1, Changes DEF GsmConnect
    <2>2. CASE InitSilent
      BY <2>2 DEF InitSilent
    <2> QED
      BY <1>2, <2>1, <2>2
  <1>3. CASE InitAnswers \/ ConnectStarts
    <2>1. CASE InitAnswers
      BY <2>1, Changes DEF InitAnswers
    <2>2. CASE ConnectStarts
      BY <2>2, Changes DEF ConnectStarts
    <2> QED
      BY <1>3, <2>1, <2>2
  <1>4. CASE CheckIdle \/ CheckTimesOut \/ CheckInTime
    <2>1. CASE CheckIdle
      BY <2>1 DEF CheckIdle
    <2>2. CASE CheckTimesOut
      BY <2>2 DEF CheckTimesOut
    <2>3. CASE CheckInTime
      BY <2>3 DEF CheckInTime
    <2> QED
      BY <1>4, <2>1, <2>2, <2>3
  <1>5. CASE CheckRegistration
    BY <1>5, Registering
  <1>6. CASE DataConnects \/ DataFails \/ DataUp
    <2>1. CASE DataConnects
      BY <2>1 DEF DataConnects
    <2>2. CASE DataFails
      BY <2>2 DEF DataFails
    <2>3. CASE DataUp
      BY <2>3, Changes DEF DataUp
    <2> QED
      BY <1>6, <2>1, <2>2, <2>3
  <1>7. CASE Probe \/ Unverified
    <2>1. CASE Probe
      BY <2>1 DEF Probe
    <2>2. CASE Unverified
      BY <2>2, Changes DEF Unverified
    <2> QED
      BY <1>7, <2>1, <2>2
  <1>8. CASE BootScans \/ BootWaitsWifi \/ BootWifiTimesOut
    <2>1. CASE BootScans
      BY <2>1 DEF BootScans
    <2>2. CASE BootWaitsWifi
      <3>1. WifiTakes \/ WifiWaits
        BY <2>2, WifiAnswers DEF BootWaitsWifi
      <3>2. CASE WifiTakes
        BY <2>2, <3>2 DEF BootWaitsWifi, WifiTakes
      <3>3. CASE WifiWaits
        BY <2>2, <3>3 DEF BootWaitsWifi, WifiWaits
      <3> QED
        BY <2>2, <3>1, <3>2, <3>3 DEF BootWaitsWifi
    <2>3. CASE BootWifiTimesOut
      BY <2>3 DEF BootWifiTimesOut
    <2> QED
      BY <1>8, <2>1, <2>2, <2>3
  <1>9. CASE BootTriesGsm \/ BootChecksGsm \/ BootAttemptOn
    BY <1>9 DEF BootTriesGsm, BootChecksGsm, BootAttemptOn
  <1>10. CASE BootEndsWithGsm \/ BootGivesUp \/ BootAttemptDead
    BY <1>10 DEF BootEndsWithGsm, BootGivesUp, BootAttemptDead
  <1>11. CASE ReconnectRefused \/ ReconnectEarly \/ ReconnectWithGsm \/ ReconnectWithWifi
    <2>1. CASE ReconnectRefused
      BY <2>1 DEF ReconnectRefused
    <2>2. CASE ReconnectEarly
      BY <2>2 DEF ReconnectEarly
    <2>3. CASE ReconnectWithGsm
      BY <2>3 DEF ReconnectWithGsm
    <2>4. CASE ReconnectWithWifi
      BY <2>4 DEF ReconnectWithWifi
    <2> QED
      BY <1>11, <2>1, <2>2, <2>3, <2>4
  <1>12. CASE ReconnectScans \/ ReconnectWaits
    <2>1. CASE ReconnectScans
      BY <2>1 DEF ReconnectScans
    <2>2. CASE ReconnectWaits
      <3>1. WifiTakes \/ WifiWaits
        BY <2>2, WifiAnswers DEF ReconnectWaits
      <3>2. CASE WifiTakes
        BY <2>2, <3>2 DEF ReconnectWaits, WifiTakes
      <3>3. CASE WifiWaits
        BY <2>2, <3>3 DEF ReconnectWaits, WifiWaits
      <3> QED
        BY <2>2, <3>1, <3>2, <3>3 DEF ReconnectWaits
    <2> QED
      BY <1>12, <2>1, <2>2
  <1>13. CASE ReconnectTimesOut \/ ReconnectEnds
    <2>1. CASE ReconnectTimesOut
      BY <2>1 DEF ReconnectTimesOut
    <2>2. CASE ReconnectEnds
      BY <2>2 DEF ReconnectEnds
    <2> QED
      BY <1>13, <2>1, <2>2
  <1>14. CASE Sample \/ SerialDone \/ Switched \/ Pending
    BY <1>14 DEF Sample, SerialDone, Switched, Pending
  <1>15. CASE WifiChecked \/ GsmChecked
    <2>1. CASE WifiChecked
      <3>1. CASE WifiTakes
        BY <2>1, <3>1 DEF WifiChecked, WifiTakes
      <3>2. CASE WifiWaits
        BY <2>1, <3>2 DEF WifiChecked, WifiWaits
      <3>3. CASE KeepModem /\ UNCHANGED <<device_state, wifi_connected>>
        BY <2>1, <3>3 DEF WifiChecked
      <3> QED
        BY <2>1, <3>1, <3>2, <3>3, WifiAnswers DEF WifiChecked
    <2>2. CASE GsmChecked
      BY <2>2 DEF GsmChecked
    <2> QED
      BY <1>15, <2>1, <2>2
  <1>16. CASE LinkLost \/ LinkKept \/ LinkRetries \/ Updated
    BY <1>16 DEF LinkLost, LinkKept, LinkRetries, Updated
  <1>17. CASE Abort \/ SwitchRefused \/ SwitchToAuto
    BY <1>17 DEF Abort, SwitchRefused, SwitchToAuto
  <1>18. CASE SwitchToWifi \/ SwitchToGsm \/ SwitchToAp
    <2>1. CASE SwitchToWifi
      BY <2>1 DEF SwitchToWifi
    <2>2. CASE SwitchToGsm
      BY <2>2 DEF SwitchToGsm
    <2>3. CASE SwitchToAp
      BY <2>3 DEF SwitchToAp
    <2> QED
      BY <1>18, <2>1, <2>2, <2>3
  <1>19. CASE UNCHANGED vars
    BY <1>19 DEF vars
  <1> QED
    BY <1>1, <1>2, <1>3, <1>4, <1>5, <1>6, <1>7, <1>8, <1>9, <1>10, <1>11, <1>12,
       <1>13, <1>14, <1>15, <1>16, <1>17, <1>18, <1>19 DEF Next, Core1, BootStep, GsmStep,
       ReconnectStep, LoopStep, Console

(* Core 1 keeps the transports apart.                                      *)
LEMMA ApartStays ==
  ASSUME WifiAlone, PlacesOK, NetOK, Core1
  PROVE  Apart'
  <1> USE DEF WifiAlone, Apart, PlacesOK, WithoutWifi, Attempting, Connecting
  <1>1. CASE GsmConnect \/ InitSilent
    <2>1. CASE GsmConnect
      BY <2>1, Changes DEF GsmConnect
    <2>2. CASE InitSilent
      BY <2>2 DEF InitSilent
    <2> QED
      BY <1>1, <2>1, <2>2
  <1>2. CASE InitAnswers \/ ConnectStarts
    <2>1. CASE InitAnswers
      BY <2>1, Changes DEF InitAnswers
    <2>2. CASE ConnectStarts
      BY <2>2, Changes DEF ConnectStarts
    <2> QED
      BY <1>2, <2>1, <2>2
  <1>3. CASE CheckIdle \/ CheckTimesOut \/ CheckInTime
    BY <1>3 DEF CheckIdle, CheckTimesOut, CheckInTime
  <1>4. CASE CheckRegistration
    BY <1>4, Registering
  <1>5. CASE DataConnects \/ DataFails \/ DataUp
    <2>1. CASE DataConnects
      BY <2>1 DEF DataConnects
    <2>2. CASE DataFails
      BY <2>2 DEF DataFails
    <2>3. CASE DataUp
      BY <2>3, Changes DEF DataUp
    <2> QED
      BY <1>5, <2>1, <2>2, <2>3
  <1>6. CASE Probe \/ Unverified
    <2>1. CASE Probe
      BY <2>1 DEF Probe
    <2>2. CASE Unverified
      BY <2>2, Changes DEF Unverified
    <2> QED
      BY <1>6, <2>1, <2>2
  <1>7. CASE BootScans \/ BootWaitsWifi \/ BootWifiTimesOut
    <2>1. CASE BootScans
      BY <2>1 DEF BootScans
    <2>2. CASE BootWaitsWifi
      <3>1. WifiTakes \/ WifiWaits
        BY <2>2, WifiAnswers DEF BootWaitsWifi
      <3>2. CASE WifiTakes
        BY <2>2, <3>2 DEF BootWaitsWifi, WifiTakes
      <3>3. CASE WifiWaits
        BY <2>2, <3>3 DEF BootWaitsWifi, WifiWaits
      <3> QED
        BY <2>2, <3>1, <3>2, <3>3 DEF BootWaitsWifi
    <2>3. CASE BootWifiTimesOut
      BY <2>3 DEF BootWifiTimesOut
    <2> QED
      BY <1>7, <2>1, <2>2, <2>3
  <1>8. CASE BootTriesGsm \/ BootChecksGsm \/ BootAttemptOn
    BY <1>8 DEF BootTriesGsm, BootChecksGsm, BootAttemptOn
  <1>9. CASE BootEndsWithGsm \/ BootGivesUp \/ BootAttemptDead
    BY <1>9 DEF BootEndsWithGsm, BootGivesUp, BootAttemptDead
  <1>10. CASE ReconnectRefused \/ ReconnectEarly \/ ReconnectWithGsm \/ ReconnectWithWifi
    <2>1. CASE ReconnectRefused
      BY <2>1 DEF ReconnectRefused
    <2>2. CASE ReconnectEarly
      BY <2>2 DEF ReconnectEarly
    <2>3. CASE ReconnectWithGsm
      BY <2>3 DEF ReconnectWithGsm, GsmWanted
    <2>4. CASE ReconnectWithWifi
      BY <2>4 DEF ReconnectWithWifi
    <2> QED
      BY <1>10, <2>1, <2>2, <2>3, <2>4
  <1>11. CASE ReconnectScans \/ ReconnectWaits
    <2>1. CASE ReconnectScans
      BY <2>1 DEF ReconnectScans, WifiWanted
    <2>2. CASE ReconnectWaits
      <3>1. WifiTakes \/ WifiWaits
        BY <2>2, WifiAnswers DEF ReconnectWaits
      <3>2. CASE WifiTakes
        BY <2>2, <3>2 DEF ReconnectWaits, WifiTakes
      <3>3. CASE WifiWaits
        BY <2>2, <3>3 DEF ReconnectWaits, WifiWaits
      <3> QED
        BY <2>2, <3>1, <3>2, <3>3 DEF ReconnectWaits
    <2> QED
      BY <1>11, <2>1, <2>2
  <1>12. CASE ReconnectTimesOut \/ ReconnectEnds
    BY <1>12 DEF ReconnectTimesOut, ReconnectEnds
  <1>13. CASE Sample \/ SerialDone \/ Switched \/ Pending
    BY <1>13 DEF Sample, SerialDone, Switched, Pending
  <1>14. CASE WifiChecked \/ GsmChecked
    <2>1. CASE WifiChecked
      <3>1. CASE WifiTakes
        BY <2>1, <3>1 DEF WifiChecked, WifiTakes
      <3>2. CASE WifiWaits
        BY <2>1, <3>2 DEF WifiChecked, WifiWaits
      <3>3. CASE KeepModem /\ UNCHANGED <<device_state, wifi_connected>>
        BY <2>1, <3>3 DEF WifiChecked
      <3> QED
        BY <2>1, <3>1, <3>2, <3>3, WifiAnswers DEF WifiChecked
    <2>2. CASE GsmChecked
      BY <2>2 DEF GsmChecked
    <2> QED
      BY <1>14, <2>1, <2>2
  <1>15. CASE LinkLost \/ LinkKept \/ LinkRetries \/ Updated
    BY <1>15 DEF LinkLost, LinkKept, LinkRetries, Updated
  <1>16. CASE Abort \/ SwitchRefused \/ SwitchToAuto
    BY <1>16 DEF Abort, SwitchRefused, SwitchToAuto
  <1>17. CASE SwitchToWifi \/ SwitchToGsm \/ SwitchToAp
    BY <1>17 DEF SwitchToWifi, SwitchToGsm, SwitchToAp
  <1> QED
    BY <1>1, <1>2, <1>3, <1>4, <1>5, <1>6, <1>7, <1>8, <1>9, <1>10, <1>11, <1>12,
       <1>13, <1>14, <1>15, <1>16, <1>17 DEF Core1, BootStep, GsmStep,
       ReconnectStep, LoopStep, Console

-----------------------------------------------------------------------------
LEMMA TypesTogether ==
  CellularTypeOK <=>
    /\ NetOK /\ GsmOK /\ {pc, ret, after} \subseteq Steps
    /\ device_state \in DeviceStates /\ wifi_retry_count \in 0..WIFI_RETRY_ATTEMPTS
    /\ CountsOK
  <1>1. /\ {sampled_mode, network_mode} \subseteq NetworkModes
             <=> sampled_mode \in NetworkModes /\ network_mode \in NetworkModes
    OBVIOUS
  <1> QED
    BY <1>1, Zenon DEF CellularTypeOK, NetOK, GsmOK, CountsOK

LEMMA InitInv == Init => IInv
  <1> SUFFICES ASSUME Init PROVE IInv
    OBVIOUS
  <1>1. PlacesOK
    BY DEF Init, PlacesOK, Steps
  <1>2. DeviceOK
    BY LimitsPositive DEF Init, DeviceOK, DeviceStates
  <1>3. CountsOK
    BY LimitsPositive DEF Init, CountsOK, CountLimit, NetworkModeCount
  <1>4. NetOK
    BY Zenon DEF Init, NetOK, NetworkModes
  <1>5. GsmOK
    BY DEF Init, GsmOK
  <1>6. StagesInv
    BY DEF Init, StagesInv, PowerFollows
  <1>7. ApartInv
    BY Zenon DEF Init, ApartInv, Apart
  <1> QED
    BY <1>1, <1>2, <1>3, <1>4, <1>5, <1>6, <1>7 DEF IInv

LEMMA NextInv == IInv /\ [Next]_vars => IInv'
  <1> SUFFICES ASSUME IInv, [Next]_vars PROVE IInv'
    OBVIOUS
  <1>1. PlacesOK' /\ DeviceOK' /\ NetOK' /\ GsmOK'
    BY PlacesStay, DevicesStay, NetStays, GsmStays DEF IInv
  <1>2. CountsOK'
    BY CountsStay DEF IInv
  <1>3. StagesInv'
    BY StagesStay DEF IInv
  <1>4. ASSUME ~lock_broken' PROVE Apart'
    <2>1. CASE Core1
      BY <1>4, <2>1, LockHolds, ApartStays DEF IInv
    <2>2. CASE TxStart \/ TxEnd \/ World \/ UNCHANGED vars
      <3>1. /\ UNCHANGED <<pc, network_mode, wifi_connected, gsm_connected, lock_broken>>
            /\ device_state' \in {device_state, "TRANSMITTING", "IDLE"}
        BY <2>2 DEF TxStart, TxEnd, World, vars
      <3>2. Apart
        BY <1>4, <3>1, Zenon DEF IInv, ApartInv
      <3> QED
        BY <3>1, <3>2 DEF Apart, Attempting, Connecting
    <2> QED
      BY <2>1, <2>2 DEF Next
  <1>5. ApartInv'
    BY <1>4, Zenon DEF ApartInv
  <1> QED
    BY <1>1, <1>2, <1>3, <1>5 DEF IInv

LEMMA Inductive == Spec => []IInv
  BY InitInv, NextInv, PTL DEF Spec

(* Whatever is fitted, in reach or asked for, and whatever Core 0 writes:  *)
(* the modem's variables are typed, its mode is one of the modem's, and no *)
(* stage of its connection stands without the one below it.                *)
THEOREM CellularSound == Spec => []CellularInv
  <1>1. IInv => CellularInv
    <2> SUFFICES ASSUME IInv PROVE CellularInv
      OBVIOUS
    <2>1. {pc, ret, after} \subseteq Steps
      BY DEF IInv, PlacesOK, Steps
    <2>2. device_state \in DeviceStates /\ wifi_retry_count \in 0..WIFI_RETRY_ATTEMPTS
      BY DEF IInv, DeviceOK
    <2> QED
      BY <2>1, <2>2, TypesTogether DEF IInv, StagesInv, CellularInv
  <1> QED
    BY <1>1, Inductive, PTL

(* WiFi and the modem never carry data together while the GSM mode keeps   *)
(* WiFi out.                                                               *)
THEOREM TransportsApart == Spec => []OneTransport
  <1>1. IInv => OneTransport
    BY Zenon DEF IInv, ApartInv, Apart, OneTransport
  <1> QED
    BY <1>1, Inductive, PTL
=============================================================================
