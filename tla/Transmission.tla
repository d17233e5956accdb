---------------------------- MODULE Transmission ----------------------------
(***************************************************************************)
(* transmission_task on Core 0 against the Arduino loop on Core 1.         *)
(*                                                                         *)
(* Core 0 (transmission.cpp) serves one raw frame and then the page queue, *)
(* and holds flash_guard while the radio is on.  Core 1 (flex-fsk-tx.ino,  *)
(* at_commands.cpp) runs the serial console, which stages pages and raw    *)
(* frames, and the services, which queue pages and touch flash.  The cores *)
(* share device_state, the frame lengths, the raw slot and the queue; an   *)
(* operation that uses them at several points is cut into a step for each, *)
(* so that TLC interleaves the two programs wherever they can meet.        *)
(*                                                                         *)
(* Bytes are scaled: a frame has a few bytes, the FIFO takes MAX_PACKET of *)
(* them at once and FIFO_CHUNK at a time.  Time is not modelled: a timeout *)
(* may expire whenever the code looks at the clock.  Tuning the radio is   *)
(* an outcome, "done" or "failed".                                         *)
(***************************************************************************)
EXTENDS MessageQueue, DeviceState

CONSTANTS MAX_PACKET,     \* RADIOLIB_SX127X_MAX_PACKET_LENGTH_FSK
          FIFO_CHUNK,     \* bytes RadioLib hands to the FIFO at a time
          EMR_SIZE,       \* EMR_PATTERN_SIZE
          BUFFER_SIZE,    \* sizeof(tx_data_buffer), sizeof(raw_tx_buffer)
          FrameLengths,   \* lengths of encoded pages and of raw frames
          Commands        \* AT commands the host sends

ASSUME TransmissionAssumption ==
  /\ MAX_PACKET \in Nat \ {0} /\ FIFO_CHUNK \in 1 .. MAX_PACKET
  /\ EMR_SIZE \in Nat \ {0} /\ BUFFER_SIZE \in Nat
  /\ FrameLengths # {} /\ FrameLengths \subseteq 1 .. BUFFER_SIZE
  /\ Commands \subseteq {"AT", "SEND", "MSG", "ABORT", "RADIO"}

VARIABLES
  device_state,
  current_tx_total_length, current_tx_remaining_length, fifo_empty,
  raw_tx_pending, raw_tx_length,
  notified,          \* the task notification of transmission_task
  flash_guard,       \* who holds the mutex: "free", "core0" or "core1"
  \* Core 0
  tx_pc, long_packet, outcome,
  \* Core 1
  loop_pc, ret, boot_complete,
  \* history: what a listener on the air and the host on the serial line see
  frame,             \* length of the frame Core 0 set out to send
  aired,             \* how many bytes of it, in order, the radio has taken
  disturbed,         \* Core 1 reset the lengths, took the radio to standby or
                     \* wrote flash without flash_guard under this frame
  session            \* what the host was told to send, until it is answered

lengthVars == <<current_tx_total_length, current_tx_remaining_length>>
rawVars    == <<raw_tx_pending, raw_tx_length>>
core0Vars  == <<tx_pc, long_packet, outcome, fifo_empty>>
core1Vars  == <<loop_pc, ret, boot_complete, session>>
airVars    == <<frame, aired, disturbed>>
vars == <<queueVars, device_state, lengthVars, rawVars, notified, flash_guard,
          core0Vars, core1Vars, airVars>>

(* Where Core 0 may key the radio, and where a frame is underway.          *)
RfWindow   == {"mark", "emr", "arm", "start", "refill", "add", "drain", "idle", "unlock"}
FrameSteps == {"lock", "mark", "emr", "arm", "start", "refill", "add", "drain"}
OnAir      == {"refill", "add", "drain"}
TxSteps    == {"wait", "raw", "poll", "peek", "prepare", "remove"} \cup {"lock"} \cup RfWindow
LoopSteps  == {"top", "serial", "send", "arm_data", "arm_msg", "abort", "radio",
               "add_raw", "add_text", "give_at", "reset", "lengths",
               "services", "give_service", "flash", "nvs"}
Outcomes   == {"none", "sent", "start_failed", "refill_timeout", "drain_timeout"}

Init ==
  /\ QueueInit
  /\ device_state = "IDLE"
  /\ current_tx_total_length = 0 /\ current_tx_remaining_length = 0
  /\ fifo_empty = FALSE
  /\ raw_tx_pending = FALSE /\ raw_tx_length = 0
  /\ notified = FALSE
  /\ flash_guard = "free"
  /\ tx_pc = "wait" /\ long_packet = FALSE /\ outcome = "none"
  /\ loop_pc = "top" /\ ret = "services" /\ boot_complete = FALSE
  /\ frame = 0 /\ aired = 0 /\ disturbed = FALSE
  /\ session = "none"

-----------------------------------------------------------------------------
(*                        Core 0: transmission_task                        *)

Core0Goes(from, to) == tx_pc = from /\ tx_pc' = to
KeepCore1 == UNCHANGED <<core1Vars, rawVars, notified>>

(* ulTaskNotifyTake: returns on a notification, and after 5 s without one. *)
WaitNotified == notified     \* mutant: no 5 s limit
WaitEnds     == TRUE
TaskWait ==
  /\ Core0Goes("wait", "raw") /\ WaitEnds
  /\ notified' = FALSE
  /\ UNCHANGED <<queueVars, device_state, lengthVars, rawVars, flash_guard,
                 long_packet, outcome, fifo_empty, core1Vars, airVars>>

(* The raw slot is freed, copied and sent before any queued page.  Freeing *)
(* and copying are one step: to fill the slot again Core 1 would have to   *)
(* receive a whole AT+SEND exchange in between.                            *)
TakeRaw ==
  /\ IF raw_tx_pending
     THEN /\ Core0Goes("raw", "lock")
          /\ raw_tx_pending' = FALSE
          /\ current_tx_total_length' = raw_tx_length
          /\ frame' = raw_tx_length /\ aired' = 0 /\ disturbed' = FALSE
     ELSE /\ Core0Goes("raw", "poll")
          /\ UNCHANGED <<raw_tx_pending, current_tx_total_length, airVars>>
  /\ UNCHANGED <<queueVars, device_state, current_tx_remaining_length, raw_tx_length,
                 notified, flash_guard, long_packet, outcome, fifo_empty, core1Vars>>

(* The queue is left alone while the console stages a page or a frame. *)
PollStaging ==
  /\ tx_pc = "poll"
  /\ tx_pc' = IF AtStaging(device_state) THEN "wait" ELSE "peek"
  /\ UNCHANGED <<queueVars, device_state, lengthVars, flash_guard, long_packet,
                 outcome, fifo_empty, airVars>>
  /\ KeepCore1

(* queue_get_next_message: nullptr ends the inner loop.                    *)
AfterPeekAgain(page)  == IF page = Nullptr THEN "poll" ELSE "prepare"     \* mutant
AfterPeekRemove(page) == IF page = Nullptr THEN "remove" ELSE "prepare"   \* mutant
AfterPeek(page)       == IF page = Nullptr THEN "wait" ELSE "prepare"
PeekPage ==
  /\ tx_pc = "peek"
  /\ QueueGetNext
  /\ tx_pc' = AfterPeek(msg')
  /\ UNCHANGED <<device_state, lengthVars, flash_guard, long_packet, outcome,
                 fifo_empty, airVars>>
  /\ KeepCore1

(* Frequency, power and flex_encode_and_store: any of them failing drops   *)
(* the page.                                                               *)
PreparePage ==
  /\ \/ /\ Core0Goes("prepare", "remove")
        /\ UNCHANGED <<lengthVars, airVars>>
     \/ \E length \in FrameLengths :
          /\ length <= BUFFER_SIZE - EMR_SIZE
          /\ Core0Goes("prepare", "lock")
          /\ current_tx_total_length' = length
          /\ current_tx_remaining_length' = length
          /\ frame' = length /\ aired' = 0 /\ disturbed' = FALSE
  /\ UNCHANGED <<queueVars, device_state, flash_guard, long_packet, outcome, fifo_empty>>
  /\ KeepCore1

(* transmit_current_buffer: flash_guard_take(FLASH_GUARD_WAIT_FOREVER) ... *)
(* Core 1 waits 30 s at most, twice as long as any transmission lasts, so  *)
(* its wait is modelled as one without a limit too.                        *)
AvailableAtOnce(core) == TRUE         \* mutant: a failed take is ignored
Available(core) == flash_guard = "free"
LockFlash ==
  /\ Core0Goes("lock", "mark")
  /\ Available("core0")
  /\ flash_guard' = "core0"
  /\ UNCHANGED <<queueVars, device_state, lengthVars, long_packet, outcome,
                 fifo_empty, airVars>>
  /\ KeepCore1

(* ... device_state = STATE_TRANSMITTING, then rfamp_enable, which waits   *)
(* between 20 ms and 5 s when an amplifier is fitted ...                   *)
MarkTransmitting ==
  /\ Core0Goes("mark", "emr")
  /\ device_state' = "TRANSMITTING"
  /\ UNCHANGED <<queueVars, lengthVars, flash_guard, long_packet, outcome,
                 fifo_empty, airVars>>
  /\ KeepCore1

(* ... prepend_emr_if_needed, on the length as it is by now ... *)
EmrAlways(length) == length > 0      \* mutant: no bound on the buffer
EmrFits(length) == length > 0 /\ length + EMR_SIZE <= BUFFER_SIZE
PrependEmr ==
  /\ Core0Goes("emr", "arm")
  /\ \/ UNCHANGED <<current_tx_total_length, frame>>
     \/ /\ EmrFits(current_tx_total_length)
        /\ current_tx_total_length' = current_tx_total_length + EMR_SIZE
        /\ frame' = frame + EMR_SIZE
  /\ UNCHANGED <<queueVars, device_state, current_tx_remaining_length, flash_guard,
                 long_packet, outcome, fifo_empty, aired, disturbed>>
  /\ KeepCore1

(* ... the refill bookkeeping: remaining still counts the first chunk,     *)
(* which fifoAdd takes off ...                                             *)
IsLong(length)       == length > MAX_PACKET
LeftNext(length)     == IF IsLong(length) THEN length - FIFO_CHUNK ELSE 0   \* mutant
LeftToRefill(length) == IF IsLong(length) THEN length ELSE 0
ArmRefill ==
  /\ Core0Goes("arm", "start")
  /\ long_packet' = IsLong(current_tx_total_length)
  /\ fifo_empty' = IsLong(current_tx_total_length)
  /\ current_tx_remaining_length' = LeftToRefill(current_tx_total_length)
  /\ UNCHANGED <<queueVars, device_state, current_tx_total_length, flash_guard,
                 outcome, airVars>>
  /\ KeepCore1

(* ... and radio.startTransmit: the whole of a short frame, the first      *)
(* chunk of a long one.  Core 1 may be writing NVS at this moment.         *)
FirstBytes(length) == IF length > MAX_PACKET THEN FIFO_CHUNK ELSE length
StartTransmit ==
  /\ \/ /\ Core0Goes("start", "idle")
        /\ outcome' = "start_failed"
        /\ UNCHANGED <<aired, disturbed>>
     \/ /\ Core0Goes("start", IF long_packet THEN "refill" ELSE "drain")
        /\ aired' = FirstBytes(current_tx_total_length)
        /\ disturbed' = (disturbed \/ loop_pc = "nvs")
        /\ UNCHANGED outcome
  /\ UNCHANGED <<queueVars, device_state, lengthVars, flash_guard, long_packet,
                 fifo_empty, frame>>
  /\ KeepCore1

(* on_interrupt_fifo_has_space *)
FifoHasSpace ==
  /\ tx_pc \in {"refill", "add"} /\ ~fifo_empty
  /\ fifo_empty' = TRUE
  /\ UNCHANGED <<queueVars, device_state, lengthVars, rawVars, notified, flash_guard,
                 tx_pc, long_packet, outcome, core1Vars, airVars>>

(* One turn of the refill loop: the flag and remaining are looked at ...   *)
RefillFifo ==
  /\ Core0Goes("refill", "add")
  /\ fifo_empty /\ current_tx_remaining_length > 0
  /\ fifo_empty' = FALSE
  /\ UNCHANGED <<queueVars, device_state, lengthVars, flash_guard, long_packet,
                 outcome, airVars>>
  /\ KeepCore1

(* ... and radio.fifoAdd takes the chunk already in the FIFO off remaining;*)
(* when nothing is left it reports the end, else it copies the next bytes  *)
(* from position total - remaining of the buffer.                          *)
AddToFifo ==
  /\ tx_pc = "add"
  /\ current_tx_remaining_length' = current_tx_remaining_length - FIFO_CHUNK
  /\ LET left == current_tx_remaining_length - FIFO_CHUNK
         size == IF left > FIFO_CHUNK THEN FIFO_CHUNK ELSE left IN
       /\ tx_pc' = IF left <= 0 THEN "drain" ELSE "refill"
       /\ aired' = IF left > 0 /\ current_tx_total_length - left = aired
                   THEN aired + size ELSE aired
  /\ UNCHANGED <<queueVars, device_state, current_tx_total_length, flash_guard,
                 long_packet, outcome, fifo_empty, frame, disturbed>>
  /\ KeepCore1

(* The limit TX_DRAIN_TIMEOUT_MS puts on the refill loop.                  *)
LimitNever   == FALSE        \* mutant: the loop has no limit
LimitExpires == TRUE
RefillTimeout ==
  /\ Core0Goes("refill", "drain") /\ LimitExpires
  /\ outcome' = "refill_timeout"
  /\ UNCHANGED <<queueVars, device_state, lengthVars, flash_guard, long_packet,
                 fifo_empty, airVars>>
  /\ KeepCore1

(* The FIFO-empty flag is seen, or the drain limit expires.                *)
DrainFifo ==
  /\ Core0Goes("drain", "idle")
  /\ \E result \in {"sent", "drain_timeout"} :
       outcome' = IF outcome = "none" THEN result ELSE outcome
  /\ UNCHANGED <<queueVars, device_state, lengthVars, flash_guard, long_packet,
                 fifo_empty, airVars>>
  /\ KeepCore1

(* finishTransmit, rfamp_disable, device_state = STATE_IDLE.               *)
StateIfStarted == IF outcome = "start_failed" THEN device_state ELSE "IDLE"   \* mutant
StateAfterTx   == "IDLE"
MarkIdle ==
  /\ Core0Goes("idle", "unlock")
  /\ device_state' = StateAfterTx
  /\ UNCHANGED <<queueVars, lengthVars, flash_guard, long_packet, outcome,
                 fifo_empty, airVars>>
  /\ KeepCore1

(* flash_guard_give, then the outcome is logged and the frame forgotten.   *)
UnlockFlash ==
  /\ Core0Goes("unlock", IF msg = Nullptr THEN "poll" ELSE "remove")
  /\ flash_guard' = "free"
  /\ outcome' = "none" /\ long_packet' = FALSE /\ fifo_empty' = FALSE
  /\ frame' = 0 /\ aired' = 0 /\ disturbed' = FALSE
  /\ UNCHANGED <<queueVars, device_state, lengthVars>>
  /\ KeepCore1

RemovePage ==
  /\ Core0Goes("remove", "poll")
  /\ QueueRemove
  /\ UNCHANGED <<device_state, lengthVars, flash_guard, long_packet, outcome,
                 fifo_empty, airVars>>
  /\ KeepCore1

Core0 == \/ TaskWait \/ TakeRaw \/ PollStaging \/ PeekPage \/ PreparePage
         \/ LockFlash \/ MarkTransmitting \/ PrependEmr \/ ArmRefill \/ StartTransmit
         \/ RefillFifo \/ AddToFifo \/ RefillTimeout \/ DrainFifo \/ MarkIdle \/ UnlockFlash
         \/ RemovePage

-----------------------------------------------------------------------------
(*                     Core 1: loop and the AT console                     *)

LoopGoes(from, to) == loop_pc = from /\ loop_pc' = to
KeepCore0  == UNCHANGED <<core0Vars, frame, aired>>
KeepShared == UNCHANGED <<queueVars, device_state, lengthVars, rawVars, notified,
                          flash_guard, disturbed>>

(* rf_busy, sampled once per pass of loop: the console is not served while *)
(* device_state says TRANSMITTING.                                         *)
SampleRfBusy ==
  /\ LoopGoes("top", IF RfActive(device_state) THEN "services" ELSE "serial")
  /\ KeepShared /\ KeepCore0 /\ UNCHANGED <<ret, boot_complete, session>>

(* at_process_serial with nothing to act on: no input, part of a payload,  *)
(* or a command that is refused or changes nothing here.                   *)
SerialIdle ==
  /\ LoopGoes("serial", "services")
  /\ KeepShared /\ KeepCore0 /\ UNCHANGED <<ret, boot_complete, session>>

(* at_handle_binary_data and at_handle_flex_message: the payload is        *)
(* complete, or the host let the staging timeout expire.                   *)
StagingEnds ==
  /\ AtStaging(device_state)
  /\ \/ LoopGoes("serial", IF device_state = "WAITING_FOR_DATA"
                           THEN "add_raw" ELSE "add_text")
     \/ LoopGoes("serial", "reset")
  /\ ret' = "services"
  /\ KeepShared /\ KeepCore0 /\ UNCHANGED <<boot_complete, session>>

(* at_parse_command.  "AT" and ABORT pass the transmission guard; RADIO    *)
(* stands for FREQ, FREQPPM and POWER, which drive the radio from Core 1.  *)
ParseCommand ==
  /\ ~AtStaging(device_state)
  /\ \E command \in Commands :
       /\ GuardActive(device_state) => command \in {"AT", "ABORT"}
       /\ LoopGoes("serial", CASE command = "AT"    -> "reset"
                               [] command = "SEND"  -> "send"
                               [] command = "MSG"   -> "reset"
                               [] command = "ABORT" -> "abort"
                               [] command = "RADIO" -> "radio")
       /\ ret' = IF command = "MSG" THEN "arm_msg" ELSE "services"
  /\ KeepShared /\ KeepCore0 /\ UNCHANGED <<boot_complete, session>>

(* AT+SEND is refused while the raw slot is taken.                         *)
SlotIgnored == FALSE         \* mutant: AT+SEND does not ask
SlotTaken   == raw_tx_pending
CheckRawSlot ==
  /\ loop_pc = "send"
  /\ IF SlotTaken
     THEN loop_pc' = "services" /\ UNCHANGED ret
     ELSE loop_pc' = "reset" /\ ret' = "arm_data"
  /\ KeepShared /\ KeepCore0 /\ UNCHANGED <<boot_complete, session>>

(* The console tells the host to send the payload.                         *)
ArmStaging ==
  /\ \/ /\ LoopGoes("arm_data", "services")
        /\ device_state' = "WAITING_FOR_DATA"
        /\ session' = "data"
        /\ current_tx_total_length' = 0
     \/ /\ LoopGoes("arm_msg", "services")
        /\ device_state' = "WAITING_FOR_MSG"
        /\ session' = "text"
        /\ UNCHANGED current_tx_total_length
  /\ disturbed' = (disturbed \/ (loop_pc = "arm_data" /\ tx_pc \in FrameSteps))
  /\ UNCHANGED <<queueVars, current_tx_remaining_length, rawVars, notified,
                 flash_guard, ret, boot_complete>>
  /\ KeepCore0

(* The radio leaves whatever it is sending and stands by.                  *)
RadioStandby ==
  /\ disturbed' = (disturbed \/ tx_pc \in FrameSteps)
  /\ aired' = IF tx_pc \in FrameSteps THEN 0 ELSE aired
  /\ UNCHANGED <<queueVars, device_state, lengthVars, rawVars, notified, flash_guard,
                 ret, boot_complete, session, core0Vars, frame>>

(* AT+ABORT: radio.standby.                                                *)
AbortRadio == LoopGoes("abort", "reset") /\ RadioStandby

(* FREQ, FREQPPM, POWER: radio.setFrequency and radio.setOutputPower take  *)
(* the radio to standby before they write its registers.                   *)
DriveRadio == LoopGoes("radio", "services") /\ RadioStandby

(* queue_add_raw_buffer *)
AddRaw ==
  /\ loop_pc = "add_raw"
  /\ IF raw_tx_pending
     THEN /\ loop_pc' = "reset"
          /\ device_state' = "ERROR"
          /\ UNCHANGED rawVars
     ELSE /\ loop_pc' = "give_at"
          /\ \E length \in FrameLengths : raw_tx_length' = length
          /\ raw_tx_pending' = TRUE
          /\ UNCHANGED device_state
  /\ UNCHANGED <<queueVars, lengthVars, notified, flash_guard, ret, boot_complete,
                 session, disturbed>>
  /\ KeepCore0

(* queue_add_message, from AT+MSG *)
AddText ==
  /\ \E page \in Pages :
       \/ /\ QueueAdd(page)
          /\ LoopGoes("add_text", "give_at")
          /\ UNCHANGED device_state
       \/ /\ QueueReject(page)
          /\ LoopGoes("add_text", "reset")
          /\ device_state' = "ERROR"
  /\ UNCHANGED <<lengthVars, rawVars, notified, flash_guard, ret, boot_complete,
                 session, disturbed>>
  /\ KeepCore0

(* xTaskNotifyGive *)
NotifyGive ==
  /\ LoopGoes("give_at", "reset") \/ LoopGoes("give_service", "top")
  /\ notified' = TRUE
  /\ UNCHANGED <<queueVars, device_state, lengthVars, rawVars, flash_guard,
                 ret, boot_complete, session, disturbed>>
  /\ KeepCore0

(* at_reset_state, first device_state ...                                  *)
ResetState ==
  /\ LoopGoes("reset", "lengths")
  /\ device_state' = IF device_state \in {"WIFI_CONNECTING", "WIFI_AP_MODE"}
                     THEN device_state ELSE "IDLE"
  /\ session' = "none"
  /\ UNCHANGED <<queueVars, lengthVars, rawVars, notified, flash_guard,
                 ret, boot_complete, disturbed>>
  /\ KeepCore0

(* ... then the lengths, which Core 0 may be using.                        *)
ResetLengths ==
  /\ LoopGoes("lengths", ret)
  /\ current_tx_total_length' = 0
  /\ current_tx_remaining_length' = 0
  /\ disturbed' = (disturbed \/ tx_pc \in FrameSteps)
  /\ UNCHANGED <<queueVars, device_state, rawVars, notified, flash_guard,
                 ret, boot_complete, session>>
  /\ KeepCore0

(* The services of one pass of loop: nothing to do, ...                    *)
ServicesIdle ==
  /\ LoopGoes("services", "top")
  /\ KeepShared /\ KeepCore0 /\ UNCHANGED <<ret, boot_complete, session>>

(* ... a page from the web, REST, MQTT, Grafana, IMAP, ChatGPT or battery  *)
(* code, accepted or refused, ...                                          *)
ServiceQueuesPage ==
  /\ \E page \in Pages :
       \/ QueueAdd(page) /\ LoopGoes("services", "give_service")
       \/ QueueReject(page) /\ LoopGoes("services", "top")
  /\ UNCHANGED <<device_state, lengthVars, rawVars, notified, flash_guard,
                 ret, boot_complete, session, disturbed>>
  /\ KeepCore0

(* ... a flash access under FlashGuard ...                                 *)
FlashAccess ==
  /\ \/ LoopGoes("services", "flash") /\ Available("core1") /\ flash_guard' = "core1"
     \/ LoopGoes("flash", "top") /\ flash_guard' = "free"
  /\ UNCHANGED <<queueVars, device_state, lengthVars, rawVars, notified,
                 ret, boot_complete, session, disturbed>>
  /\ KeepCore0

(* ... and, once per boot, mark_boot_success, which writes NVS without it: *)
(* the write parks Core 0, and the FIFO of a frame on the air may run dry. *)
MarkBootSuccess ==
  /\ \/ LoopGoes("services", "nvs") /\ ~boot_complete /\ boot_complete' = TRUE
     \/ LoopGoes("nvs", "top") /\ UNCHANGED boot_complete
  /\ disturbed' = (disturbed \/ tx_pc \in OnAir)
  /\ aired' \in (IF tx_pc \in OnAir THEN {0, aired} ELSE {aired})
  /\ UNCHANGED <<queueVars, device_state, lengthVars, rawVars, notified, flash_guard,
                 ret, session, core0Vars, frame>>

Core1 == \/ SampleRfBusy \/ SerialIdle \/ StagingEnds \/ ParseCommand \/ CheckRawSlot
         \/ ArmStaging \/ AbortRadio \/ DriveRadio \/ AddRaw \/ AddText \/ NotifyGive
         \/ ResetState \/ ResetLengths \/ ServicesIdle \/ ServiceQueuesPage
         \/ FlashAccess \/ MarkBootSuccess

-----------------------------------------------------------------------------
Next == Core0 \/ Core1 \/ FifoHasSpace

(* Both cores keep running.  FreeRTOS hands a mutex to the waiting task of *)
(* the highest priority, and transmission_task has the highest there is:   *)
(* Core 1 cannot take flash_guard again and again in front of it.          *)
Fairness == WF_vars(Core0) /\ WF_vars(Core1) /\ SF_vars(LockFlash)

Spec == Init /\ [][Next]_vars
FairSpec == Spec /\ Fairness

-----------------------------------------------------------------------------
(*                               Properties                                *)

(* The values the declarations allow.  Only current_tx_remaining_length    *)
(* may be negative, in the last call of fifoAdd; a frame never outgrows    *)
(* tx_data_buffer.                                                         *)
LengthsOK ==
  /\ current_tx_total_length \in 0 .. BUFFER_SIZE
  /\ current_tx_remaining_length \in Int
  /\ raw_tx_length \in 0 .. BUFFER_SIZE
  /\ frame \in Nat /\ aired \in Nat
FlagsOK ==
  {fifo_empty, raw_tx_pending, notified, long_packet, boot_complete, disturbed}
    \subseteq BOOLEAN
ControlOK ==
  /\ tx_pc \in TxSteps /\ outcome \in Outcomes
  /\ loop_pc \in LoopSteps /\ ret \in {"services", "arm_data", "arm_msg"}
  /\ device_state \in DeviceStates
  /\ flash_guard \in {"free", "core0", "core1"}
  /\ session \in {"none", "data", "text"}
TxTypeOK == QueueTypeOK /\ LengthsOK /\ FlagsOK /\ ControlOK

(* flash_guard keeps Core 1's guarded flash accesses out of the time in    *)
(* which the radio may be on: a flash write stops both cores, and the FIFO *)
(* of a frame on the air would run dry.                                    *)
FlashKeptOutOfRf ==
  /\ tx_pc \in RfWindow => flash_guard = "core0"
  /\ loop_pc = "flash" => flash_guard = "core1"

(* device_state says TRANSMITTING only while Core 0 is sending: whatever   *)
(* the console does, it cannot leave the value behind, which would keep    *)
(* loop from serving the console and the watchdog for good.                *)
TransmittingOnlyInRf ==
  device_state = "TRANSMITTING" => tx_pc \in RfWindow \ {"mark", "unlock"}

(* While the console fills raw_tx_buffer, and when it hands the buffer     *)
(* over, the slot is free: bytes Core 0 has still to copy are never        *)
(* overwritten, and queue_add_raw_buffer never refuses what AT+SEND        *)
(* accepted.                                                               *)
RawBufferExclusive ==
  \/ loop_pc \in {"arm_data", "add_raw"}
  \/ device_state = "WAITING_FOR_DATA" /\ loop_pc \notin {"give_at", "reset"}
  => ~raw_tx_pending

(* A frame reported as "sent successfully" went out whole, in order and    *)
(* without gaps, unless Core 1 cut into it: reset its lengths, commanded   *)
(* the radio, or wrote NVS without flash_guard.                            *)
UndisturbedFrameComplete ==
  outcome = "sent" /\ ~disturbed => aired = frame

(* The same with no exception: what CHANGELOG.md promises for v3.8.79.     *)
FrameComplete == outcome = "sent" => aired = frame

(* From the end of mark_boot_success on, every frame that begins goes out  *)
(* whole.  Console commands break it, the services alone do not.           *)
BetweenFrames == tx_pc \notin FrameSteps \cup {"idle", "unlock"}
WholeAfterBoot ==
  [](boot_complete /\ loop_pc # "nvs" /\ BetweenFrames => []FrameComplete)

(* No flash access of any kind while the radio may be on.                  *)
NoFlashDuringRf == tx_pc \in RfWindow => loop_pc \notin {"flash", "nvs"}

(* Core 1 does not command the radio while Core 0 transmits.               *)
NoRadioSpiDuringRf == tx_pc \in RfWindow => loop_pc \notin {"radio", "abort"}

(* Whenever the console is served, the host that was told to send a        *)
(* payload is still being listened to.                                     *)
StagingKept ==
  session # "none" /\ loop_pc = "serial" => AtStaging(device_state)

(* A transmission ends, whatever the radio does: flash_guard comes back.   *)
RfWindowEnds == (flash_guard = "core0") ~> (flash_guard = "free")

(* Core 0 keeps working off the queue unless the console stages payloads   *)
(* over and over: a page whose notification was consumed while the console *)
(* was staging is still picked up.                                         *)
PagesLeave ==
  <>[]~AtStaging(device_state) => []<>(queue_count = 0 \/ tx_pc = "remove")

(* A raw frame is sent once the pages in front of it are.                  *)
RawServed == <>[](queue_count = 0) => (raw_tx_pending ~> ~raw_tx_pending)
=============================================================================
