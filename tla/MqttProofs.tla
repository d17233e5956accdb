----------------------------- MODULE MqttProofs -----------------------------
(***************************************************************************)
(* What module MqttClient promises for every limit on failures, restarts   *)
(* and pages, every width of the count in NVS that holds them, and every   *)
(* set of messages.                                                        *)
(*                                                                         *)
(* MqttInv is not inductive: that a restart is always a counted one needs  *)
(* to know that RAM and NVS agree on the count once setup has run, and     *)
(* that the count does not wrap needs to know how far saves that failed    *)
(* can take it past its limit.  CountInv says both, AirInv that the page   *)
(* on the air is in the queue.  Each lemma takes the steps that can        *)
(* disturb its part one by one and the others together.                    *)
(***************************************************************************)
EXTENDS MqttClient, SequenceTheorems, TLAPS

USE DEF Goes, InLoop, LoopEnds, KeepMqtt, KeepMessages, KeepClient, KeepOthers, KeepCore1,
        KeepEdit, countVars, clientVars, slotVars, queueVars, callVars

CountInv ==
  /\ nvs_reboots <= MQTT_MAX_REBOOTS + unsaved
  /\ pc # "setup" => mqtt_reboot_count = nvs_reboots
  /\ pc \notin {"setup", "restart"} /\ ~mqtt_suspended
       => nvs_reboots < MQTT_MAX_REBOOTS + unsaved

AirInv == on_air => message_queue # <<>>

(* The types by what they are about.                                       *)
ControlOK ==
  /\ pc \in Steps /\ boot_phase \in BootPhases
  /\ mqtt_suspended \in BOOLEAN /\ mqtt_initialized \in BOOLEAN
  /\ mqtt_next_retry_time \in BOOLEAN /\ mqtt_failure_notification_sent \in BOOLEAN
  /\ wasConnected \in BOOLEAN /\ client \in BOOLEAN
  /\ on_air \in BOOLEAN /\ active_network \in {"WIFI", "NONE"}
  /\ reach \in Reaches /\ reconfigured \in BOOLEAN
CountsOK ==
  /\ mqtt_reboot_count \in 0..UINT8-1 /\ nvs_reboots \in 0..UINT8-1
  /\ mqtt_failed_cycles \in 0..MAX_CONNECTION_FAILURES-1
  /\ restarts \in Nat /\ unsaved \in 0..MaxUnsaved
SlotsOK ==
  /\ deferred_ack \in Messages \cup {NoMessage} /\ deferred_status \in BOOLEAN
  /\ handling \in Messages \cup {NoMessage}
  /\ broker \subseteq Messages /\ unanswered \subseteq Messages
QueueOK ==
  message_queue \in Seq(Messages \cup {Notice}) /\ Len(message_queue) <= MAX_QUEUE_SIZE

Counted == CountsOK /\ CountInv /\ RestartsBounded
Queued  == QueueOK /\ AirInv
IInv == ControlOK /\ Counted /\ SuspendedRetries /\ SlotsOK /\ RefusalsAnswered /\ Queued

LEMMA TypesTogether == MqttTypeOK <=> ControlOK /\ CountsOK /\ SlotsOK /\ QueueOK
  BY DEF MqttTypeOK, ControlOK, CountsOK, SlotsOK, QueueOK

LEMMA MqttInitInv == Init => IInv
  <1> SUFFICES ASSUME Init PROVE IInv
    OBVIOUS
  <1>1. ControlOK /\ SuspendedRetries /\ SlotsOK /\ RefusalsAnswered
    BY DEF Init, ControlOK, SuspendedRetries, SlotsOK, RefusalsAnswered, Steps, BootPhases
  <1>2. Counted
    BY MqttAssumption DEF Init, Counted, CountsOK, CountInv, RestartsBounded
  <1>3. Queued
    BY MqttAssumption DEF Init, Queued, QueueOK, AirInv
  <1> QED
    BY <1>1, <1>2, <1>3 DEF IInv

-----------------------------------------------------------------------------
(* Places, flags and phases.                                               *)
LEMMA ControlStays ==
  ASSUME ControlOK, [Next]_vars
  PROVE  ControlOK'
  <1> USE DEF ControlOK, Steps, BootPhases
  <1>1. CASE UNCHANGED vars
    BY <1>1 DEF vars
  <1>2. CASE TxStart \/ TxEnd
    BY <1>2 DEF TxStart, TxEnd, Core0Runs
  <1>3. CASE World
    <2>1. client' \in BOOLEAN
      BY <1>3, Zenon DEF World
    <2>2. reach' \in Reaches
      BY <1>3 DEF World
    <2> QED
      BY <1>3, <2>1, <2>2 DEF World
  <1>4. CASE Crash \/ Restart \/ AtReset \/ SaveMqtt
    BY <1>4 DEF Crash, Restart, Reset, AtReset, SaveMqtt
  <1>5. CASE PhaseEnds \/ PhaseWaits
    BY <1>5 DEF PhaseEnds, PhaseWaits
  <1>6. CASE Setup
    <2>1. (nvs_reboots >= MQTT_MAX_REBOOTS) \in BOOLEAN
      OBVIOUS
    <2>2. mqtt_suspended' \in BOOLEAN /\ mqtt_next_retry_time' \in BOOLEAN
      BY <1>6, <2>1, Zenon DEF Setup, RetryFromBoot
    <2>3. /\ pc' = "phase"
          /\ UNCHANGED <<boot_phase, mqtt_failure_notification_sent, reconfigured, clientVars>>
      BY <1>6, Zenon DEF Setup
    <2>4. UNCHANGED <<on_air, active_network, reach>>
      BY <1>6, Zenon DEF Setup
    <2> QED
      BY <2>2, <2>3, <2>4
  <1>7. CASE Flush \/ MqttReads \/ PubAck
    <2>1. CASE Flush
      BY <2>1 DEF Flush
    <2>2. CASE MqttReads
      BY <2>2 DEF MqttReads
    <2>3. CASE PubAck
      BY <2>3 DEF PubAck
    <2> QED
      BY <1>7, <2>1, <2>2, <2>3
  <1>8. CASE Network
    BY <1>8 DEF Network
  <1>9. CASE MqttInitialize
    BY <1>9 DEF MqttInitialize, MqttConnect, Reachable
  <1>10. CASE MqttNotServed \/ MqttWaits \/ MqttLost
    BY <1>10 DEF MqttNotServed, MqttWaits, MqttLost
  <1>11. CASE MqttRetry \/ MqttEstablished \/ MqttReconnects
    BY <1>11 DEF MqttRetry, MqttEstablished, MqttReconnects, MqttConnect, Established,
                RetryAgain, Reachable
  <1>12. CASE MqttFails
    BY <1>12 DEF MqttFails, Notify
  <1> QED
    BY <1>1, <1>2, <1>3, <1>4, <1>5, <1>6, <1>7, <1>8, <1>9, <1>10, <1>11, <1>12
    DEF Next, LoopStep

-----------------------------------------------------------------------------
(* The counts.  A failure that is one too many is where they can go wrong. *)
LEMMA FailureCounted ==
  ASSUME ControlOK, Counted, MqttFails
  PROVE  Counted'
  <1> USE DEF Counted, CountsOK, CountInv, RestartsBounded
  <1>1. nvs_reboots = mqtt_reboot_count /\ nvs_reboots < MQTT_MAX_REBOOTS + unsaved
    BY DEF MqttFails
  <1>2. mqtt_reboot_count + 1 < UINT8
    BY <1>1, MqttAssumption
  <1>3. (mqtt_reboot_count + 1) % UINT8 = nvs_reboots + 1
    BY <1>1, <1>2, MqttAssumption
  <1>4. CASE mqtt_failed_cycles + 1 < MAX_CONNECTION_FAILURES
    BY <1>4, MqttAssumption DEF MqttFails, CountKept
  <1>5. CASE ~(mqtt_failed_cycles + 1 < MAX_CONNECTION_FAILURES)
    <2>1. /\ mqtt_failed_cycles' = 0 /\ unsaved' = unsaved
          /\ mqtt_reboot_count' = nvs_reboots + 1 /\ nvs_reboots' = nvs_reboots + 1
          /\ \/ mqtt_suspended' = TRUE /\ restarts' = restarts
             \/ /\ pc' = "restart" /\ restarts' = restarts + 1
                /\ nvs_reboots + 1 < MQTT_MAX_REBOOTS
      BY <1>3, <1>5, MqttAssumption DEF MqttFails, Stored
    <2> QED
      BY <2>1, <1>1, <1>2, MqttAssumption
  <1> QED
    BY <1>4, <1>5

LEMMA CountsStay ==
  ASSUME ControlOK, Counted, [Next]_vars
  PROVE  Counted'
  <1> USE DEF Counted, CountsOK, CountInv, RestartsBounded
  <1>1. CASE UNCHANGED vars
    BY <1>1 DEF vars
  <1>2. CASE MqttFails
    BY <1>2, FailureCounted
  <1>3. CASE World \/ TxStart \/ TxEnd
    BY <1>3 DEF World, TxStart, TxEnd, Core0Runs
  <1>4. CASE Crash \/ Restart
    BY <1>4, MqttAssumption DEF Crash, Restart, Reset
  <1>5. CASE AtReset
    BY <1>5, MqttAssumption DEF AtReset, CountCleared
  <1>6. CASE SaveMqtt
    BY <1>6, MqttAssumption DEF SaveMqtt, CountKept
  <1>7. CASE Setup
    <2> DEFINE given_up == nvs_reboots >= MQTT_MAX_REBOOTS
    <2>1. /\ UNCHANGED <<nvs_reboots, mqtt_failed_cycles, restarts, unsaved>>
          /\ mqtt_reboot_count' = nvs_reboots
      BY <1>7 DEF Setup
    <2>2. mqtt_suspended' = given_up
      BY <1>7 DEF Setup
    <2>3. ~mqtt_suspended' => ~given_up
      BY <2>2, Zenon
    <2>4. ~given_up => nvs_reboots < MQTT_MAX_REBOOTS
      BY MqttAssumption
    <2> HIDE DEF given_up
    <2>5. ~mqtt_suspended' => nvs_reboots < MQTT_MAX_REBOOTS
      BY <2>3, <2>4
    <2> QED
      BY <2>1, <2>5, MqttAssumption
  <1>8. CASE PhaseEnds \/ PhaseWaits \/ Flush \/ PubAck
    BY <1>8 DEF PhaseEnds, PhaseWaits, Flush, PubAck
  <1>9. CASE Network
    BY <1>9, MqttAssumption DEF Network, CountCleared
  <1>10. CASE MqttInitialize
    BY <1>10, MqttAssumption DEF MqttInitialize, MqttConnect, CountKept
  <1>11. CASE MqttNotServed \/ MqttWaits \/ MqttLost \/ MqttReads
    BY <1>11 DEF MqttNotServed, MqttWaits, MqttLost, MqttReads
  <1>12. CASE MqttRetry \/ MqttEstablished \/ MqttReconnects
    BY <1>12, MqttAssumption
    DEF MqttRetry, MqttEstablished, MqttReconnects, MqttConnect, Established, CountCleared,
        CountKept
  <1> QED
    BY <1>1, <1>2, <1>3, <1>4, <1>5, <1>6, <1>7, <1>8, <1>9, <1>10, <1>11, <1>12
    DEF Next, LoopStep

-----------------------------------------------------------------------------
LEMMA RetryStays ==
  ASSUME ControlOK, SuspendedRetries, [Next]_vars
  PROVE  SuspendedRetries'
  <1> USE DEF SuspendedRetries
  <1>1. CASE UNCHANGED vars
    BY <1>1 DEF vars
  <1>2. CASE Crash \/ Restart \/ SaveMqtt \/ AtReset
    BY <1>2 DEF Crash, Restart, Reset, SaveMqtt, AtReset
  <1>3. CASE Setup
    BY <1>3 DEF Setup, RetryFromBoot
  <1>4. CASE Network
    BY <1>4 DEF Network
  <1>5. CASE MqttInitialize
    BY <1>5 DEF MqttInitialize
  <1>6. CASE MqttRetry
    BY <1>6 DEF MqttRetry, RetryAgain, Established
  <1>7. CASE MqttFails
    BY <1>7 DEF MqttFails
  <1>8. CASE World \/ TxStart \/ TxEnd \/ PhaseEnds \/ PhaseWaits \/ Flush
    BY <1>8 DEF World, TxStart, TxEnd, Core0Runs, PhaseEnds, PhaseWaits, Flush
  <1>9. CASE MqttNotServed \/ MqttWaits \/ MqttLost \/ MqttEstablished \/ MqttReconnects
             \/ MqttReads \/ PubAck
    BY <1>9 DEF MqttNotServed, MqttWaits, MqttLost, MqttEstablished, MqttReconnects,
                MqttReads, PubAck, Established
  <1> QED
    BY <1>1, <1>2, <1>3, <1>4, <1>5, <1>6, <1>7, <1>8, <1>9 DEF Next, LoopStep

-----------------------------------------------------------------------------
(* The slot of the acknowledgement, and what it stands for.                *)
LEMMA SlotsStay ==
  ASSUME ControlOK, SlotsOK, RefusalsAnswered, [Next]_vars
  PROVE  SlotsOK' /\ RefusalsAnswered'
  <1> USE DEF SlotsOK, RefusalsAnswered
  <1>1. CASE UNCHANGED vars
    BY <1>1 DEF vars
  <1>2. CASE MqttReads
    <2>1. CASE UNCHANGED <<slotVars, handling>>
      BY <1>2, <2>1 DEF MqttReads
    <2>2. ASSUME NEW m \in broker, handling' = m, broker' = broker,
                 UNCHANGED deferred_status \/ PublishStatus,
                 UNCHANGED <<deferred_ack, unanswered>> \/ SendDeliveryAck(m)
          PROVE  SlotsOK' /\ RefusalsAnswered'
      BY <2>2 DEF PublishStatus, SendDeliveryAck, Deferred, Published
    <2> QED
      BY <1>2, <2>1, <2>2 DEF MqttReads
  <1>3. CASE Flush
    <2>1. CASE UNCHANGED slotVars
      BY <1>3, <2>1 DEF Flush
    <2>2. ASSUME NEW ack \in BOOLEAN, NEW status \in BOOLEAN,
                 deferred_ack' = AckLeft(ack),
                 unanswered' = IF ack THEN unanswered \ {deferred_ack} ELSE unanswered,
                 deferred_status' = (deferred_status
                                      /\ ~(status /\ (ack \/ deferred_ack = NoMessage)))
          PROVE  SlotsOK' /\ RefusalsAnswered'
      BY <1>3, <2>2 DEF Flush, AckLeft
    <2> QED
      BY <1>3, <2>1, <2>2 DEF Flush
  <1>4. CASE PubAck
    BY <1>4 DEF PubAck
  <1>5. CASE Crash \/ Restart
    BY <1>5 DEF Crash, Restart, Reset
  <1>6. CASE World \/ TxStart \/ TxEnd \/ AtReset \/ SaveMqtt \/ Setup \/ PhaseEnds
             \/ PhaseWaits \/ Network
    BY <1>6 DEF World, TxStart, TxEnd, Core0Runs, AtReset, SaveMqtt, Setup, PhaseEnds,
                PhaseWaits, Network
  <1>7. CASE MqttInitialize \/ MqttNotServed \/ MqttWaits \/ MqttRetry \/ MqttLost
             \/ MqttEstablished \/ MqttReconnects \/ MqttFails
    BY <1>7 DEF MqttInitialize, MqttNotServed, MqttWaits, MqttRetry, MqttLost,
                MqttEstablished, MqttReconnects, MqttFails
  <1> QED
    BY <1>1, <1>2, <1>3, <1>4, <1>5, <1>6, <1>7 DEF Next, LoopStep

-----------------------------------------------------------------------------
(* One page more, where there is room for it.                              *)
LEMMA PageAppended ==
  ASSUME Queued, HasRoom, NEW page \in Messages \cup {Notice},
         message_queue' = Append(message_queue, page)
  PROVE  Queued'
  <1>1. /\ message_queue' \in Seq(Messages \cup {Notice})
        /\ Len(message_queue') = Len(message_queue) + 1
    BY AppendProperties DEF Queued, QueueOK
  <1>2. Len(message_queue) + 1 <= MAX_QUEUE_SIZE /\ message_queue' # <<>>
    BY <1>1, MqttAssumption DEF Queued, QueueOK, HasRoom
  <1> QED
    BY <1>1, <1>2 DEF Queued, QueueOK, AirInv

LEMMA QueueStays ==
  ASSUME ControlOK, SlotsOK, Queued, [Next]_vars
  PROVE  Queued'
  <1>1. CASE UNCHANGED <<message_queue, on_air>>
    BY <1>1 DEF Queued, QueueOK, AirInv
  <1>2. CASE TxStart
    BY <1>2 DEF TxStart, Queued, QueueOK, AirInv
  <1>3. CASE TxEnd
    <2>1. /\ Tail(message_queue) \in Seq(Messages \cup {Notice})
          /\ Len(Tail(message_queue)) = Len(message_queue) - 1
      BY <1>3, HeadTailProperties DEF TxEnd, Queued, QueueOK, AirInv
    <2>2. Len(message_queue) \in Nat
      BY LenProperties DEF Queued, QueueOK
    <2> QED
      BY <1>3, <2>1, <2>2, MqttAssumption DEF TxEnd, Queued, QueueOK, AirInv
  <1>4. CASE Crash \/ Restart
    <2>1. message_queue' = <<>> /\ on_air' = FALSE
      BY <1>4 DEF Crash, Restart, Reset
    <2>2. <<>> \in Seq(Messages \cup {Notice}) /\ Len(<<>>) = 0
      BY EmptySeq
    <2> QED
      BY <2>1, <2>2, MqttAssumption DEF Queued, QueueOK, AirInv
  <1>5. CASE MqttReads
    BY <1>1, <1>5, PageAppended DEF MqttReads, SlotsOK
  <1>6. CASE MqttFails
    BY <1>1, <1>6, PageAppended DEF MqttFails, Notify
  <1>7. CASE World \/ AtReset \/ SaveMqtt \/ Setup \/ PhaseEnds \/ PhaseWaits \/ Network
             \/ Flush \/ PubAck
    BY <1>1, <1>7
    DEF World, AtReset, SaveMqtt, Setup, PhaseEnds, PhaseWaits, Network, Flush, PubAck
  <1>8. CASE MqttInitialize \/ MqttNotServed \/ MqttWaits \/ MqttRetry \/ MqttLost
             \/ MqttEstablished \/ MqttReconnects
    BY <1>1, <1>8 DEF MqttInitialize, MqttNotServed, MqttWaits, MqttRetry, MqttLost,
                      MqttEstablished, MqttReconnects
  <1>9. CASE UNCHANGED vars
    BY <1>1, <1>9 DEF vars
  <1> QED
    BY <1>2, <1>3, <1>4, <1>5, <1>6, <1>7, <1>8, <1>9 DEF Next, LoopStep

-----------------------------------------------------------------------------
LEMMA MqttInductive == Spec => []IInv
  <1>1. IInv /\ [Next]_vars => IInv'
    BY ControlStays, CountsStay, RetryStays, SlotsStay, QueueStays DEF IInv
  <1> QED
    BY <1>1, MqttInitInv, PTL DEF Spec

(* Whatever crashes, resets and edits come between failed connections, the *)
(* restarts of the client stay below their limit, every one of them is in  *)
(* the count in NVS, which never wraps, and a suspended client has a time  *)
(* to try again (mqtt.cpp:545, :470).                                      *)
THEOREM SuspensionSound == Spec => []MqttInv
  <1>1. IInv => MqttInv
    BY TypesTogether DEF IInv, Counted, Queued, MqttInv
  <1> QED
    BY <1>1, MqttInductive, PTL

(* A refusal is never lost but to a later one or to a reset: the slot      *)
(* always holds the answer that is owed (mqtt.cpp:619).                    *)
THEOREM RefusalsKept == Spec => []RefusalsAnswered
  <1>1. IInv => RefusalsAnswered
    BY DEF IInv
  <1> QED
    BY <1>1, MqttInductive, PTL
=============================================================================
