----------------------------- MODULE DeviceState -----------------------------
(***************************************************************************)
(* The device_state variable both cores write, its values, the predicates  *)
(* the firmware derives from it and the transitions change_device_state    *)
(* lets through.  Most writers assign device_state directly and never ask  *)
(* IsValidTransition.                                                      *)
(***************************************************************************)

DeviceStates ==
  { "IDLE", "WAITING_FOR_DATA", "WAITING_FOR_MSG", "TRANSMITTING", "ERROR",
    "WIFI_CONNECTING", "WIFI_AP_MODE", "IMAP_PROCESSING", "NTP_SYNC",
    "MQTT_CONNECTING", "GSM_INITIALIZING", "GSM_CONNECTING", "GSM_REGISTERING" }

(* rf_transmission_active, at_staging_active, transmission_guard_active     *)
RfActive(state)    == state = "TRANSMITTING"
AtStaging(state)   == state \in {"WAITING_FOR_DATA", "WAITING_FOR_MSG"}
GuardActive(state) == RfActive(state) \/ AtStaging(state)

\* Mutant: from a service's state only IDLE can be reached.
IsValidTransitionStrict(from, to) ==
  CASE RfActive(from)  -> to \in {"IDLE", "ERROR"}
    [] AtStaging(from) -> to \in {"TRANSMITTING", "IDLE", "ERROR"}
    [] from = "IDLE"   -> TRUE
    [] OTHER           -> to = "IDLE"

(* is_valid_state_transition *)
IsValidTransition(from, to) ==
  CASE RfActive(from)  -> to \in {"IDLE", "ERROR"}
    [] AtStaging(from) -> to \in {"TRANSMITTING", "IDLE", "ERROR"}
    [] from = "ERROR"  -> to = "IDLE"
    [] OTHER           -> TRUE
=============================================================================
