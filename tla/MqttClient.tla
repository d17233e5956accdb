----------------------------- MODULE MqttClient -----------------------------
(***************************************************************************)
(* The MQTT client (mqtt.cpp) with what outlives a reset of the device:    *)
(* the count of its own restarts in NVS and the session the broker keeps.  *)
(*                                                                         *)
(* Five failed connections restart the device; five restarts suspend the   *)
(* client, which then retries at long intervals.  A message is handled in  *)
(* mqtt_callback and confirmed to the broker (QoS 1) after that; one that  *)
(* cannot be queued is answered with a "failed" acknowledgement, which     *)
(* waits in a single slot while it cannot be published.                    *)
(*                                                                         *)
(* pc walks through setup and through the parts of loop that matter here;  *)
(* the device may crash at every step.  Every interval may be over or not. *)
(* The guard loop samples once a pass is looked at where it is used.       *)
(* device_state under the client is module LoopServices.                   *)
(***************************************************************************)
EXTENDS Naturals, Sequences

CONSTANTS
  MAX_CONNECTION_FAILURES,  \* 5
  MQTT_MAX_REBOOTS,         \* 5
  MAX_QUEUE_SIZE,           \* 25
  UINT8,                    \* 256, the values of the count in NVS
  Messages, Malformed,      \* message ids; those without a text to page
  NoMessage, Notice,        \* an empty slot; the page about a suspension
  MaxUnsaved                \* bound: settings that could not be saved

ASSUME MqttAssumption ==
  /\ MAX_CONNECTION_FAILURES \in Nat \ {0} /\ MQTT_MAX_REBOOTS \in Nat \ {0}
  /\ MAX_QUEUE_SIZE \in Nat \ {0} /\ UINT8 \in Nat
  /\ MaxUnsaved \in Nat /\ MQTT_MAX_REBOOTS + MaxUnsaved < UINT8
  /\ Malformed \subseteq Messages
  /\ NoMessage \notin Messages /\ Notice \notin Messages /\ NoMessage # Notice

VARIABLES
  pc, boot_phase,
  mqtt_reboot_count, mqtt_failed_cycles, mqtt_suspended, mqtt_initialized,
  mqtt_next_retry_time,              \* whether it is set
  mqtt_failure_notification_sent,
  wasConnected, client,              \* client: mqttClient.connected()
  deferred_ack, deferred_status,     \* the single slots
  handling,                          \* handled, not yet confirmed to the broker
  message_queue, on_air,
  active_network,
  nvs_reboots,                       \* in flash
  reach, broker,                     \* the world; broker: ids of its session
  restarts, unanswered,              \* history
  reconfigured, unsaved

countVars  == <<mqtt_reboot_count, mqtt_failed_cycles, mqtt_suspended, mqtt_next_retry_time,
                mqtt_failure_notification_sent, nvs_reboots, restarts, reconfigured>>
clientVars == <<mqtt_initialized, wasConnected, client>>
slotVars   == <<deferred_ack, deferred_status, unanswered>>
queueVars  == <<message_queue, on_air>>
callVars   == <<handling, broker>>
vars == <<pc, boot_phase, countVars, clientVars, slotVars, queueVars,
          active_network, reach, callVars, unsaved>>

\* The phases up to BOOT_MQTT_READY; the later ones serve the client as that one does.
BootPhases == {"NETWORK_PENDING", "MQTT_PENDING", "MQTT_READY"}
Steps == {"setup", "phase", "flush", "network", "mqtt", "puback", "restart"}
Reaches == {"nothing", "network", "broker"}

Init ==
  /\ pc = "setup" /\ boot_phase = "NETWORK_PENDING"
  /\ mqtt_reboot_count = 0 /\ mqtt_failed_cycles = 0 /\ mqtt_suspended = FALSE
  /\ mqtt_next_retry_time = FALSE /\ mqtt_failure_notification_sent = FALSE
  /\ mqtt_initialized = FALSE /\ wasConnected = FALSE /\ client = FALSE
  /\ deferred_ack = NoMessage /\ deferred_status = FALSE /\ handling = NoMessage
  /\ message_queue = <<>> /\ on_air = FALSE /\ active_network = "NONE"
  /\ nvs_reboots = 0
  /\ reach \in Reaches /\ broker = Messages
  /\ restarts = 0 /\ unanswered = {}
  /\ reconfigured = FALSE /\ unsaved = 0

Goes(from, to) == pc = from /\ pc' = to
Reachable == reach = "broker" /\ active_network # "NONE"

-----------------------------------------------------------------------------
(*                     The world, Core 0 and crashes                       *)

(* The network and the broker come and go; a connection does not survive.  *)
World ==
  /\ reach' \in Reaches \ {reach}
  /\ client' = (client /\ reach' = "broker")
  /\ UNCHANGED <<pc, boot_phase, countVars, mqtt_initialized, wasConnected,
                 slotVars, queueVars, active_network, callVars, unsaved>>

KeepCore1 == UNCHANGED <<pc, boot_phase, countVars, clientVars, slotVars,
                         active_network, reach, callVars, unsaved>>
Core0Runs == pc # "setup"

TxStart == Core0Runs /\ ~on_air /\ message_queue # <<>> /\ on_air' = TRUE
           /\ UNCHANGED message_queue /\ KeepCore1
TxEnd == on_air /\ on_air' = FALSE /\ message_queue' = Tail(message_queue) /\ KeepCore1

(* What is in RAM is gone.                                                 *)
Reset ==
  /\ pc' = "setup" /\ boot_phase' = "NETWORK_PENDING"
  /\ mqtt_reboot_count' = 0 /\ mqtt_failed_cycles' = 0 /\ mqtt_suspended' = FALSE
  /\ mqtt_next_retry_time' = FALSE /\ mqtt_failure_notification_sent' = FALSE
  /\ mqtt_initialized' = FALSE /\ wasConnected' = FALSE /\ client' = FALSE
  /\ deferred_ack' = NoMessage /\ deferred_status' = FALSE /\ handling' = NoMessage
  /\ unanswered' = {} /\ message_queue' = <<>> /\ on_air' = FALSE /\ active_network' = "NONE"
  /\ UNCHANGED <<nvs_reboots, reconfigured, reach, broker>>

Crash == pc # "setup" /\ Reset /\ UNCHANGED <<restarts, unsaved>>

(* safe_restart: at the end of the transmission, or when the wait is over. *)
Restart == pc = "restart" /\ Reset /\ UNCHANGED <<restarts, unsaved>>

-----------------------------------------------------------------------------
(*                        setup and the boot phases                        *)

KeepClient == UNCHANGED <<countVars, clientVars, slotVars, callVars>>
KeepOthers == UNCHANGED <<queueVars, active_network, reach, unsaved>>

RetryFromBoot(suspended) == suspended

Setup ==
  /\ Goes("setup", "phase")
  /\ mqtt_reboot_count' = nvs_reboots
  /\ mqtt_suspended' = (nvs_reboots >= MQTT_MAX_REBOOTS)
  /\ mqtt_next_retry_time' = RetryFromBoot(nvs_reboots >= MQTT_MAX_REBOOTS)
  /\ UNCHANGED <<boot_phase, mqtt_failed_cycles, mqtt_failure_notification_sent, nvs_reboots,
                 restarts, reconfigured, clientVars, slotVars, callVars>>
  /\ KeepOthers

(* The phases of loop: the network, then the time and the boot delay.      *)
PhaseEnds ==
  /\ Goes("phase", "flush") /\ boot_phase = "NETWORK_PENDING" /\ reach # "nothing"
  /\ boot_phase' = "MQTT_PENDING"
  /\ KeepClient /\ KeepOthers

PhaseWaits ==
  /\ Goes("phase", "flush") /\ boot_phase # "MQTT_PENDING"
  /\ UNCHANGED boot_phase /\ KeepClient /\ KeepOthers

-----------------------------------------------------------------------------
(*                       One connection attempt                            *)

(* mqtt_connect: it also ends when the certificates or the network are not *)
(* there, and it clears the failures itself.                               *)
MqttConnect(failures) ==
  /\ client' = Reachable
  /\ mqtt_failed_cycles' = IF Reachable THEN 0 ELSE failures
  /\ reconfigured' = FALSE

CountCleared == mqtt_reboot_count' = 0 /\ nvs_reboots' = 0 /\ restarts' = 0
CountKept == UNCHANGED <<mqtt_reboot_count, nvs_reboots, restarts>>

KeepMqtt == UNCHANGED <<active_network, reach, unsaved, on_air>>
KeepMessages == UNCHANGED <<slotVars, callVars, message_queue>>

(* mqtt_initialize, from the boot phase or from loop.                      *)
MqttInitialize ==
  /\ \/ Goes("phase", "flush") /\ boot_phase = "MQTT_PENDING" /\ boot_phase' = "MQTT_READY"
     \/ pc = "mqtt" /\ ~mqtt_initialized /\ UNCHANGED <<pc, boot_phase>>
  /\ mqtt_initialized' = TRUE
  /\ IF mqtt_initialized
     THEN UNCHANGED <<client, mqtt_failed_cycles, reconfigured, mqtt_next_retry_time>>
     ELSE IF mqtt_suspended
     THEN mqtt_next_retry_time' = TRUE /\ UNCHANGED <<client, mqtt_failed_cycles, reconfigured>>
     ELSE MqttConnect(mqtt_failed_cycles) /\ UNCHANGED mqtt_next_retry_time
  /\ CountKept
  /\ UNCHANGED <<mqtt_suspended, mqtt_failure_notification_sent, wasConnected>>
  /\ KeepMqtt /\ KeepMessages

-----------------------------------------------------------------------------
(*                              mqtt_loop                                  *)

MqttServed == boot_phase = "MQTT_READY" /\ active_network # "NONE"
InLoop == pc = "mqtt" /\ MqttServed /\ mqtt_initialized /\ UNCHANGED boot_phase
LoopEnds == pc' = "phase"

MqttNotServed ==
  /\ Goes("mqtt", "phase") /\ ~MqttServed
  /\ UNCHANGED <<boot_phase, countVars, clientVars>> /\ KeepMqtt /\ KeepMessages

(* No interval is over, or the suspended client has no time to retry at.   *)
MqttWaits ==
  /\ InLoop /\ LoopEnds
  /\ mqtt_suspended \/ (~client /\ ~wasConnected)
  /\ UNCHANGED <<countVars, clientVars>> /\ KeepMqtt /\ KeepMessages

(* A connection makes the client as good as new.                           *)
Established == /\ CountCleared /\ mqtt_suspended' = FALSE
               /\ mqtt_failure_notification_sent' = FALSE /\ wasConnected' = TRUE

\* Mutant: a retry that fails is the last one.
RetryOnce(connected) == FALSE
RetryAgain(connected) == ~connected

MqttRetry ==
  /\ InLoop /\ LoopEnds /\ mqtt_suspended /\ mqtt_next_retry_time
  /\ MqttConnect(mqtt_failed_cycles)
  /\ mqtt_next_retry_time' = RetryAgain(Reachable)
  /\ IF Reachable
     THEN Established
     ELSE CountKept /\ UNCHANGED <<mqtt_suspended, mqtt_failure_notification_sent, wasConnected>>
  /\ UNCHANGED mqtt_initialized /\ KeepMqtt /\ KeepMessages

MqttLost ==
  /\ InLoop /\ LoopEnds /\ ~mqtt_suspended /\ ~client /\ wasConnected
  /\ wasConnected' = FALSE
  /\ UNCHANGED <<countVars, mqtt_initialized, client>> /\ KeepMqtt /\ KeepMessages

(* The connection was made by mqtt_initialize; this pass also reads.       *)
MqttEstablished ==
  /\ InLoop /\ UNCHANGED pc /\ ~mqtt_suspended /\ client /\ ~wasConnected
  /\ Established /\ mqtt_failed_cycles' = 0
  /\ UNCHANGED <<mqtt_next_retry_time, reconfigured, mqtt_initialized, client>>
  /\ KeepMqtt /\ KeepMessages

MqttReconnects ==
  /\ InLoop /\ LoopEnds /\ ~mqtt_suspended /\ ~client /\ ~wasConnected /\ Reachable
  /\ MqttConnect(0) /\ Established
  /\ UNCHANGED <<mqtt_next_retry_time, mqtt_initialized>> /\ KeepMqtt /\ KeepMessages

\* Mutant: the count is not stored before the restart.
StoredLater(count) == nvs_reboots
Stored(count) == count
HasRoom == Len(message_queue) < MAX_QUEUE_SIZE

(* mqtt_send_suspension_notification: one page, if there is room for it.   *)
Notify ==
  IF mqtt_failure_notification_sent \/ ~HasRoom
  THEN UNCHANGED <<mqtt_failure_notification_sent, message_queue>>
  ELSE mqtt_failure_notification_sent' = TRUE /\ message_queue' = Append(message_queue, Notice)

MqttFails ==
  /\ InLoop /\ ~mqtt_suspended /\ ~client /\ ~wasConnected /\ ~Reachable
  /\ client' = FALSE /\ reconfigured' = FALSE
  /\ IF mqtt_failed_cycles + 1 < MAX_CONNECTION_FAILURES
     THEN /\ mqtt_failed_cycles' = mqtt_failed_cycles + 1 /\ LoopEnds /\ CountKept
          /\ UNCHANGED <<mqtt_suspended, mqtt_next_retry_time,
                         mqtt_failure_notification_sent, message_queue>>
     ELSE LET count == (mqtt_reboot_count + 1) % UINT8 IN
          /\ mqtt_failed_cycles' = 0
          /\ mqtt_reboot_count' = count /\ nvs_reboots' = Stored(count)
          /\ IF count >= MQTT_MAX_REBOOTS
             THEN /\ mqtt_suspended' = TRUE /\ mqtt_next_retry_time' = TRUE
                  /\ Notify /\ LoopEnds /\ UNCHANGED restarts
             ELSE /\ pc' = "restart" /\ restarts' = restarts + 1
                  /\ UNCHANGED <<mqtt_suspended, mqtt_next_retry_time,
                                 mqtt_failure_notification_sent, message_queue>>
  /\ UNCHANGED <<mqtt_initialized, wasConnected, slotVars, callVars>> /\ KeepMqtt

-----------------------------------------------------------------------------
(*                       Messages and acknowledgements                     *)

(* A slot taken for a message drops the answer that waited in it.          *)
Deferred(m) == deferred_ack' = m /\ unanswered' = (unanswered \ {deferred_ack}) \cup {m}
Published(m) == UNCHANGED <<deferred_ack, unanswered>>

(* sendDeliveryAck and mqtt_publish_status: published unless Core 0 sends  *)
(* or the client cannot publish.                                           *)
SendDeliveryAck(m) == \/ ~on_air /\ client /\ Published(m)
                      \/ Deferred(m)
PublishStatus == \/ ~on_air /\ client /\ UNCHANGED deferred_status
                 \/ deferred_status' = TRUE

(* mqtt_callback, called by mqttClient.loop() with one message.            *)
MqttReads ==
  /\ InLoop /\ ~mqtt_suspended /\ client /\ wasConnected
  /\ \/ /\ LoopEnds /\ UNCHANGED <<slotVars, handling, message_queue>>
     \/ \E m \in broker :
          /\ pc' = "puback" /\ handling' = m
          /\ IF m \in Malformed THEN UNCHANGED deferred_status ELSE PublishStatus
          /\ IF m \notin Malformed /\ HasRoom
             THEN /\ message_queue' = Append(message_queue, m)
                  /\ UNCHANGED <<deferred_ack, unanswered>>
             ELSE /\ UNCHANGED message_queue
                  /\ SendDeliveryAck(m)
  /\ UNCHANGED <<countVars, clientVars, broker>> /\ KeepMqtt

(* PubSubClient confirms the message when the callback has returned; if    *)
(* the connection is gone, the broker delivers it again.                   *)
PubAck ==
  /\ Goes("puback", "phase")
  /\ broker' = IF client THEN broker \ {handling} ELSE broker
  /\ handling' = NoMessage
  /\ UNCHANGED <<boot_phase, countVars, clientVars, slotVars, message_queue>> /\ KeepMqtt

\* Mutant: the slot is emptied whether or not the broker took it.
AckGone(taken) == NoMessage
AckLeft(taken) == IF taken THEN NoMessage ELSE deferred_ack

\* Mutant: only a waiting status starts the flush.
FlushForStatus == deferred_status
FlushDue == deferred_ack # NoMessage \/ deferred_status

(* mqtt_flush_deferred: the acknowledgement first; its failure ends it.    *)
Flush ==
  /\ Goes("flush", "network")
  /\ IF on_air \/ ~client \/ ~FlushDue
     THEN UNCHANGED slotVars
     ELSE \E ack, status \in BOOLEAN :
            /\ deferred_ack' = AckLeft(ack)
            /\ unanswered' = IF ack THEN unanswered \ {deferred_ack} ELSE unanswered
            /\ deferred_status' = (deferred_status /\ ~(status /\ (ack \/ deferred_ack = NoMessage)))
  /\ UNCHANGED <<boot_phase, countVars, clientVars, callVars>> /\ KeepOthers

-----------------------------------------------------------------------------
(*                 Commands, settings, change of transport                 *)

KeepEdit == UNCHANGED <<boot_phase, clientVars, slotVars, callVars, queueVars,
                        active_network, reach>>

(* AT+RESET                                                                *)
AtReset ==
  /\ Goes("network", "restart")
  /\ CountCleared
  /\ UNCHANGED <<mqtt_failed_cycles, mqtt_suspended, mqtt_next_retry_time,
                 mqtt_failure_notification_sent, reconfigured, unsaved>>
  /\ KeepEdit

(* handle_save_mqtt: a restart follows if the settings could be saved.     *)
SaveMqtt ==
  /\ pc = "network"
  /\ mqtt_suspended' = FALSE /\ mqtt_failed_cycles' = 0
  /\ \/ pc' = "restart" /\ reconfigured' = TRUE /\ UNCHANGED unsaved
     \/ unsaved < MaxUnsaved /\ unsaved' = unsaved + 1 /\ UNCHANGED <<pc, reconfigured>>
  /\ CountKept /\ UNCHANGED <<mqtt_next_retry_time, mqtt_failure_notification_sent>>
  /\ KeepEdit

(* network_update_active_state and on_network_changed.                     *)
Network ==
  /\ Goes("network", "mqtt")
  /\ LET new_network == IF reach # "nothing" THEN "WIFI" ELSE "NONE" IN
     IF on_air \/ new_network = active_network
     THEN UNCHANGED <<active_network, countVars, clientVars>>
     ELSE /\ active_network' = new_network
          /\ IF mqtt_initialized
             THEN /\ mqtt_initialized' = FALSE /\ mqtt_suspended' = FALSE
                  /\ mqtt_failed_cycles' = 0 /\ CountCleared
                  /\ client' = (client /\ mqtt_suspended)
                  /\ UNCHANGED <<mqtt_next_retry_time, mqtt_failure_notification_sent,
                                 reconfigured, wasConnected>>
             ELSE UNCHANGED <<countVars, clientVars>>
  /\ UNCHANGED <<boot_phase, slotVars, callVars, queueVars,
                 reach, unsaved>>

-----------------------------------------------------------------------------
LoopStep == \/ Setup \/ PhaseWaits \/ PhaseEnds
            \/ Flush \/ Network
            \/ MqttInitialize \/ MqttNotServed \/ MqttWaits \/ MqttRetry \/ MqttLost
            \/ MqttEstablished \/ MqttReconnects \/ MqttFails \/ MqttReads \/ PubAck
            \/ Restart
Next == World \/ TxStart \/ TxEnd \/ Crash \/ AtReset \/ SaveMqtt \/ LoopStep

Spec == Init /\ [][Next]_vars

(* loop goes on and looks at every interval again and again; the broker    *)
(* delivers what it holds, and a publication that is tried again and again *)
(* succeeds.                                                               *)
FlushSucceeds == Flush /\ deferred_ack' = NoMessage
Delivers == MqttReads /\ handling' # NoMessage
FairSpec ==
  /\ Spec /\ WF_vars(LoopStep) /\ WF_vars(TxStart) /\ WF_vars(TxEnd)
  /\ SF_vars(PhaseEnds) /\ SF_vars(MqttReconnects) /\ SF_vars(MqttRetry)
  /\ SF_vars(FlushSucceeds) /\ SF_vars(Delivers)

-----------------------------------------------------------------------------
MqttTypeOK ==
  /\ pc \in Steps /\ boot_phase \in BootPhases
  /\ mqtt_reboot_count \in 0..UINT8-1 /\ nvs_reboots \in 0..UINT8-1
  /\ mqtt_failed_cycles \in 0..MAX_CONNECTION_FAILURES-1
  /\ mqtt_suspended \in BOOLEAN /\ mqtt_initialized \in BOOLEAN
  /\ mqtt_next_retry_time \in BOOLEAN /\ mqtt_failure_notification_sent \in BOOLEAN
  /\ wasConnected \in BOOLEAN /\ client \in BOOLEAN
  /\ deferred_ack \in Messages \cup {NoMessage} /\ deferred_status \in BOOLEAN
  /\ handling \in Messages \cup {NoMessage}
  /\ message_queue \in Seq(Messages \cup {Notice}) /\ Len(message_queue) <= MAX_QUEUE_SIZE
  /\ on_air \in BOOLEAN /\ active_network \in {"WIFI", "NONE"}
  /\ reach \in Reaches /\ broker \subseteq Messages
  /\ restarts \in Nat /\ unanswered \subseteq Messages /\ reconfigured \in BOOLEAN
  /\ unsaved \in 0..MaxUnsaved

(* The device restarts itself at most MQTT_MAX_REBOOTS - 1 times, whatever *)
(* crashes and edits come between, until a connection is made, the         *)
(* transport changes or AT+RESET is given.                                 *)
RestartsBounded == restarts < MQTT_MAX_REBOOTS /\ restarts <= nvs_reboots

(* A suspended client knows a time to try again: it is never suspended for *)
(* good.                                                                   *)
SuspendedRetries == mqtt_suspended => mqtt_next_retry_time

(* The state of the suspension: counters within their types and limits (a  *)
(* uint8_t in NVS among them), no restart but a counted one, and a client  *)
(* that was given up always has a time to try again (mqtt.cpp:470, 545).   *)
MqttInv == MqttTypeOK /\ RestartsBounded /\ SuspendedRetries

(* A message that was refused has been answered, or its answer waits, or a *)
(* newer one or a restart has taken its place.                             *)
RefusalsAnswered == unanswered \subseteq {deferred_ack}

(* With the network and the broker back, the client is connected in the    *)
(* end and stays it, suspended, restarted or crashed before.               *)
Interference == Crash \/ AtReset \/ SaveMqtt
BrokerFound == <>[](reach = "broker") /\ <>[][~Interference]_vars => <>[]client

(* Then every message is taken from the broker and no answer waits.        *)
AnswersDelivered ==
  <>[](reach = "broker") /\ <>[][~Interference]_vars
    => <>[](broker = {} /\ deferred_ack = NoMessage)

(* Saving the MQTT settings ends a suspension.                             *)
SettingsEndSuspension == reconfigured => ~mqtt_suspended
=============================================================================
