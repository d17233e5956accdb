------------------------- MODULE TransmissionProofs -------------------------
(***************************************************************************)
(* What the ring buffer of MessageQueue and the two cores of Transmission  *)
(* promise for every ring size, frame length, FIFO size and set of pages   *)
(* and console commands.                                                   *)
(*                                                                         *)
(* First the ring by itself is a bounded FIFO line: QueueTypeOK and        *)
(* RingConsistent are together inductive, and under them each queue        *)
(* function is one step of PageFifo (or a stutter), because the slot       *)
(* queue_add_message writes is never one of the queue_count slots in use.  *)
(*                                                                         *)
(* Then TxInv, the invariant of both cores, is a conjunction of parts, and *)
(* every step keeps each part on the strength of the ones before it.  The  *)
(* two cores use the ring the way QueueNext says, so the ring's lemmas     *)
(* carry over; the types, the mutex, device_state, the raw slot and the    *)
(* refill arithmetic have a lemma each.  In each lemma the steps that can  *)
(* disturb the part come first, and the other steps of the two cores after *)
(* them.                                                                   *)
(***************************************************************************)
EXTENDS Transmission, SequenceTheorems, TLAPS

(* The remainder of an index that has run at most once around the ring.    *)
LEMMA WrapOnce ==
  ASSUME NEW a \in 0 .. 2 * MAX_QUEUE_SIZE - 1
  PROVE  Wrap(a) = IF a < MAX_QUEUE_SIZE THEN a ELSE a - MAX_QUEUE_SIZE
  BY QueueAssumption DEF Wrap

(* The slots of the queued pages are slots of the ring, and no two pages   *)
(* share one; the tail is a slot of its own while the ring is not full.    *)
LEMMA SlotFacts ==
  ASSUME QueueTypeOK,
         queue_tail = Wrap(queue_head + queue_count)
  PROVE  /\ \A i \in 1 .. queue_count : SlotOf(i) \in Slots
         /\ queue_count < MAX_QUEUE_SIZE =>
              \A i \in 1 .. queue_count : SlotOf(i) # queue_tail
         /\ queue_count > 0 => SlotOf(1) = queue_head
  <1> USE QueueAssumption
  <1>1. /\ queue_head \in 0 .. MAX_QUEUE_SIZE - 1
        /\ queue_count \in 0 .. MAX_QUEUE_SIZE
    BY DEF QueueTypeOK, Slots
  <1>2. ASSUME NEW i \in 1 .. queue_count
        PROVE  SlotOf(i) = IF queue_head + i - 1 < MAX_QUEUE_SIZE
                           THEN queue_head + i - 1
                           ELSE queue_head + i - 1 - MAX_QUEUE_SIZE
    BY <1>1, WrapOnce DEF SlotOf
  <1>3. queue_count < MAX_QUEUE_SIZE =>
          queue_tail = IF queue_head + queue_count < MAX_QUEUE_SIZE
                       THEN queue_head + queue_count
                       ELSE queue_head + queue_count - MAX_QUEUE_SIZE
    BY <1>1, WrapOnce
  <1>4. ASSUME NEW i \in 1 .. queue_count
        PROVE  SlotOf(i) \in Slots
    BY <1>1, <1>2 DEF Slots
  <1>5. ASSUME queue_count < MAX_QUEUE_SIZE, NEW i \in 1 .. queue_count
        PROVE  SlotOf(i) # queue_tail
    BY <1>1, <1>2, <1>3, <1>5
  <1>6. queue_count > 0 => SlotOf(1) = queue_head
    BY <1>1, <1>2
  <1> QED
    BY <1>4, <1>5, <1>6

(* A sequence of n + 1 elements that agrees with s on the first n.         *)
LEMMA ExtendedIsAppend ==
  ASSUME NEW S, NEW s \in Seq(S), NEW e \in S, NEW t \in Seq(S),
         Len(t) = Len(s) + 1,
         \A i \in 1 .. Len(s) : t[i] = s[i],
         t[Len(s) + 1] = e
  PROVE  t = Append(s, e)
  <1>1. /\ Append(s, e) \in Seq(S)
        /\ Len(Append(s, e)) = Len(t)
        /\ \A i \in 1 .. Len(s) : Append(s, e)[i] = s[i]
        /\ Append(s, e)[Len(s) + 1] = e
    BY AppendProperties
  <1>2. ASSUME NEW i \in 1 .. Len(t) PROVE t[i] = Append(s, e)[i]
    <2>1. Len(s) \in Nat
      BY LenProperties
    <2>2. i \in 1 .. Len(s) \/ i = Len(s) + 1
      BY <2>1
    <2> QED
      BY <1>1, <2>2
  <1> QED
    BY <1>1, <1>2, SeqEqual

(* A sequence shifted by one place is the tail of the original.            *)
LEMMA ShiftedIsTail ==
  ASSUME NEW S, NEW s \in Seq(S), s # <<>>, NEW t \in Seq(S),
         Len(t) = Len(s) - 1,
         \A i \in 1 .. Len(t) : t[i] = s[i + 1]
  PROVE  t = Tail(s)
  <1>1. /\ Tail(s) \in Seq(S)
        /\ Len(t) = Len(Tail(s))
        /\ \A i \in 1 .. Len(t) : t[i] = Tail(s)[i]
    BY HeadTailProperties
  <1> QED
    BY <1>1, SeqEqual

-----------------------------------------------------------------------------
QueueInv == QueueTypeOK /\ RingConsistent

LEMMA QueueInitInv == QueueInit => QueueInv
  BY QueueAssumption, WrapOnce
  DEF QueueInit, QueueInv, QueueTypeOK, RingConsistent, Slots, Nullptr, SlotOf

(* queue_add_message fills the slot behind the last page in use. *)
LEMMA AddPreserves ==
  ASSUME QueueInv, NEW page \in Pages, QueueAdd(page)
  PROVE  QueueInv'
  <1> USE QueueAssumption
  <1>1. QueueTypeOK'
    BY WrapOnce DEF QueueInv, QueueTypeOK, QueueAdd, NextSlot, Slots
  <1>2. (queue_tail = Wrap(queue_head + queue_count))'
    BY WrapOnce
    DEF QueueInv, QueueTypeOK, RingConsistent, QueueAdd, NextSlot, Slots
  <1>3. ASSUME NEW i \in 1 .. queue_count'
        PROVE  (message_queue[SlotOf(i)] \in Pages \ InvalidPages)'
    <2>1. CASE i = queue_count + 1
      BY <2>1 DEF QueueInv, QueueTypeOK, RingConsistent, QueueAdd, SlotOf, Slots
    <2>2. CASE i \in 1 .. queue_count
      <3>1. SlotOf(i) # queue_tail /\ SlotOf(i)' = SlotOf(i)
        BY <2>2, SlotFacts DEF QueueInv, RingConsistent, QueueAdd, SlotOf
      <3> QED
        BY <2>2, <3>1, SlotFacts DEF QueueInv, QueueTypeOK, RingConsistent, QueueAdd
    <2> QED
      BY <2>1, <2>2 DEF QueueInv, QueueTypeOK, QueueAdd
  <1>4. (msg # Nullptr => msg = queue_head /\ queue_count > 0)'
    BY DEF QueueInv, QueueTypeOK, RingConsistent, QueueAdd
  <1> QED
    BY <1>1, <1>2, <1>3, <1>4 DEF QueueInv, RingConsistent

(* queue_get_next_message only moves Core 0's pointer, onto the head. *)
LEMMA GetNextPreserves ==
  ASSUME QueueInv, QueueGetNext
  PROVE  QueueInv'
  BY QueueAssumption
  DEF QueueInv, QueueTypeOK, RingConsistent, QueueGetNext, SlotOf, Slots, Nullptr

(* queue_remove_message on a ring that is not empty: what was the page     *)
(* number i + 1 is now the page number i.                                  *)
LEMMA RemoveShifts ==
  ASSUME QueueTypeOK, QueueRemove, queue_count > 0,
         NEW i \in 1 .. queue_count'
  PROVE  i + 1 \in 1 .. queue_count /\ SlotOf(i)' = SlotOf(i + 1)
  <1> USE QueueAssumption
  <1>1. /\ queue_head \in 0 .. MAX_QUEUE_SIZE - 1
        /\ i \in 1 .. MAX_QUEUE_SIZE - 1
        /\ i + 1 \in 1 .. queue_count
        /\ queue_head' = Wrap(queue_head + 1)
    BY DEF QueueTypeOK, QueueRemove, Slots, NextSlot
  <1>2. queue_head' = IF queue_head + 1 < MAX_QUEUE_SIZE THEN queue_head + 1 ELSE 0
    BY <1>1, WrapOnce
  <1>3. SlotOf(i + 1) = IF queue_head + i < MAX_QUEUE_SIZE
                        THEN queue_head + i ELSE queue_head + i - MAX_QUEUE_SIZE
    <2>1. queue_head + (i + 1) - 1 = queue_head + i
      BY <1>1
    <2>2. queue_head + i \in 0 .. 2 * MAX_QUEUE_SIZE - 1
      BY <1>1
    <2> QED
      BY <1>1, <2>1, <2>2, WrapOnce DEF SlotOf
  <1>4. SlotOf(i)' = IF queue_head' + i - 1 < MAX_QUEUE_SIZE
                     THEN queue_head' + i - 1
                     ELSE queue_head' + i - 1 - MAX_QUEUE_SIZE
    <2>1. queue_head' + i - 1 \in 0 .. 2 * MAX_QUEUE_SIZE - 1
      BY <1>1, <1>2
    <2>2. SlotOf(i)' = Wrap(queue_head' + i - 1)
      BY DEF SlotOf
    <2> QED
      BY <1>1, <1>2, <2>1, <2>2, WrapOnce
  <1> QED
    BY <1>1, <1>2, <1>3, <1>4

(* queue_remove_message shifts the line by one slot. *)
LEMMA RemovePreserves ==
  ASSUME QueueInv, QueueRemove
  PROVE  QueueInv'
  <1> USE QueueAssumption
  <1>1. QueueTypeOK'
    BY WrapOnce DEF QueueInv, QueueTypeOK, QueueRemove, NextSlot, Slots, Nullptr
  <1>2. CASE queue_count > 0
    <2>1. (queue_tail = Wrap(queue_head + queue_count))'
      <3>1. /\ queue_head + queue_count \in 0 .. 2 * MAX_QUEUE_SIZE - 1
            /\ queue_head \in 0 .. MAX_QUEUE_SIZE - 1
            /\ queue_count \in 1 .. MAX_QUEUE_SIZE
            /\ queue_count' = queue_count - 1
            /\ queue_head' = Wrap(queue_head + 1)
            /\ queue_tail' = Wrap(queue_head + queue_count)
        BY <1>2
        DEF QueueInv, QueueTypeOK, QueueRemove, RingConsistent, Slots, NextSlot
      <3>2. queue_tail' = IF queue_head + queue_count < MAX_QUEUE_SIZE
                          THEN queue_head + queue_count
                          ELSE queue_head + queue_count - MAX_QUEUE_SIZE
        BY <3>1, WrapOnce
      <3>3. queue_head' = IF queue_head + 1 < MAX_QUEUE_SIZE THEN queue_head + 1 ELSE 0
        BY <3>1, WrapOnce
      <3>4. queue_head' + queue_count' \in 0 .. 2 * MAX_QUEUE_SIZE - 1
        BY <3>1, <3>3
      <3>5. Wrap(queue_head' + queue_count')
              = IF queue_head' + queue_count' < MAX_QUEUE_SIZE
                THEN queue_head' + queue_count'
                ELSE queue_head' + queue_count' - MAX_QUEUE_SIZE
        BY <3>1, <3>3, <3>4, WrapOnce
      <3> QED
        BY <3>1, <3>2, <3>3, <3>5
    <2>2. ASSUME NEW i \in 1 .. queue_count'
          PROVE  i + 1 \in 1 .. queue_count /\ SlotOf(i)' = SlotOf(i + 1)
      BY <1>2, RemoveShifts DEF QueueInv
    <2> QED
      BY <1>1, <2>1, <2>2 DEF QueueInv, RingConsistent, QueueRemove
  <1>3. CASE queue_count = 0
    BY <1>1, <1>3 DEF QueueInv, RingConsistent, QueueRemove, SlotOf, QueueTypeOK
  <1> QED
    BY <1>2, <1>3 DEF QueueInv, QueueTypeOK

LEMMA QueueNextInv == QueueInv /\ [QueueNext]_queueVars => QueueInv'
  <1> SUFFICES ASSUME QueueInv, [QueueNext]_queueVars PROVE QueueInv'
    OBVIOUS
  <1>1. CASE UNCHANGED queueVars
    BY <1>1 DEF QueueInv, QueueTypeOK, RingConsistent, queueVars, SlotOf, Slots
  <1>2. ASSUME NEW page \in Pages, QueueReject(page) PROVE QueueInv'
    BY <1>2
    DEF QueueInv, QueueTypeOK, RingConsistent, queueVars, SlotOf, Slots, QueueReject
  <1> QED
    BY <1>1, <1>2, AddPreserves, GetNextPreserves, RemovePreserves DEF QueueNext

(* For every ring size, the indices and the pointer of Core 0 stay inside  *)
(* the ring: no access of the queue functions is out of bounds.            *)
THEOREM QueueTypeCorrect == QueueSpec => []QueueTypeOK
  BY QueueInitInv, QueueNextInv, PTL DEF QueueSpec, QueueInv

(* For every ring size, head, tail and count agree and the page Core 0     *)
(* holds is the head of a ring that is not empty.                          *)
THEOREM QueueConsistent == QueueSpec => []RingConsistent
  BY QueueInitInv, QueueNextInv, PTL DEF QueueSpec, QueueInv
-----------------------------------------------------------------------------
(* Under QueueInv the ring's view of the line is a sequence of pages.      *)
LEMMA LineIsSequence ==
  ASSUME QueueInv
  PROVE  /\ QueuedPages \in Seq(Pages \ InvalidPages)
         /\ Len(QueuedPages) = queue_count
         /\ \A i \in 1 .. queue_count : QueuedPages[i] = message_queue[SlotOf(i)]
  BY DEF QueueInv, QueueTypeOK, RingConsistent, QueuedPages

LEMMA AddIsJoin ==
  ASSUME QueueInv, NEW page \in Pages, QueueAdd(page)
  PROVE  page \in Pages \ InvalidPages /\ Fifo!Join(page)
  <1> USE QueueAssumption
  <1>1. QueueInv'
    BY AddPreserves
  <1>2. Len(QueuedPages) < MAX_QUEUE_SIZE /\ Len(QueuedPages') = Len(QueuedPages) + 1
    BY <1>1, LineIsSequence DEF QueueInv, QueueTypeOK, QueueAdd, QueuedPages
  <1>3. ASSUME NEW i \in 1 .. queue_count
        PROVE  QueuedPages'[i] = QueuedPages[i]
    <2>1. SlotOf(i) # queue_tail /\ SlotOf(i)' = SlotOf(i) /\ SlotOf(i) \in Slots
      BY SlotFacts DEF QueueInv, RingConsistent, QueueAdd, SlotOf
    <2> QED
      BY <2>1 DEF QueueInv, QueueTypeOK, QueueAdd, QueuedPages
  <1>4. QueuedPages'[queue_count + 1] = page
    BY DEF QueueInv, QueueTypeOK, RingConsistent, QueueAdd, QueuedPages, SlotOf
  <1>5. QueuedPages' = Append(QueuedPages, page)
    <2>1. /\ QueuedPages \in Seq(Pages \ InvalidPages)
          /\ Len(QueuedPages) = queue_count
      BY LineIsSequence
    <2>2. /\ QueuedPages' \in Seq(Pages \ InvalidPages)
          /\ Len(QueuedPages)' = queue_count + 1
      BY <1>1
      DEF QueueInv, QueueTypeOK, RingConsistent, QueuedPages, QueueAdd
    <2> QED
      BY <1>3, <1>4, <2>1, <2>2, ExtendedIsAppend DEF QueueAdd
  <1>6. PageInHand' = PageInHand
    <2>1. CASE msg = Nullptr
      BY <2>1 DEF QueueAdd, PageInHand
    <2>2. CASE msg # Nullptr
      <3>1. msg # queue_tail
        BY <2>2, SlotFacts DEF QueueInv, QueueTypeOK, RingConsistent, QueueAdd
      <3> QED
        BY <2>2, <3>1 DEF QueueInv, QueueTypeOK, QueueAdd, PageInHand, Slots
    <2> QED
      BY <2>1, <2>2
  <1> QED
    BY <1>2, <1>5, <1>6 DEF Fifo!Join, QueueAdd

LEMMA GetNextIsTakeOldest ==
  ASSUME QueueInv, msg = Nullptr, QueueGetNext
  PROVE  Fifo!TakeOldest \/ UNCHANGED Fifo!fifoVars
  <1> USE QueueAssumption
  <1>1. QueuedPages' = QueuedPages
    BY DEF QueueGetNext, QueuedPages, SlotOf
  <1>2. CASE queue_count = 0
    BY <1>1, <1>2 DEF QueueGetNext, PageInHand, Fifo!fifoVars
  <1>3. CASE queue_count > 0
    <2>1. QueuedPages # <<>> /\ Head(QueuedPages) = message_queue[queue_head]
      BY <1>3, SlotFacts, LineIsSequence DEF QueueInv, QueueTypeOK, RingConsistent
    <2>2. PageInHand = NoPage /\ PageInHand' = message_queue[queue_head]
      BY <1>3 DEF QueueInv, QueueTypeOK, QueueGetNext, PageInHand, Nullptr, Slots
    <2> QED
      BY <1>1, <2>1, <2>2 DEF Fifo!TakeOldest
  <1> QED
    BY <1>2, <1>3 DEF QueueInv, QueueTypeOK

LEMMA RemoveIsLeave ==
  ASSUME QueueInv, msg # Nullptr, QueueRemove
  PROVE  Fifo!Leave
  <1> USE QueueAssumption
  <1>1. QueueInv'
    BY RemovePreserves
  <1>2. queue_count > 0 /\ msg = queue_head
    BY DEF QueueInv, RingConsistent
  <1>3. QueuedPages # <<>> /\ PageInHand = Head(QueuedPages)
    BY <1>2, SlotFacts, LineIsSequence
    DEF QueueInv, QueueTypeOK, RingConsistent, PageInHand
  <1>4. ASSUME NEW i \in 1 .. queue_count'
        PROVE  QueuedPages'[i] = QueuedPages[i + 1]
    <2>1. i + 1 \in 1 .. queue_count /\ SlotOf(i)' = SlotOf(i + 1)
      BY <1>2, RemoveShifts DEF QueueInv
    <2> QED
      BY <2>1 DEF QueueRemove, QueuedPages
  <1>5. QueuedPages' = Tail(QueuedPages)
    <2>1. /\ QueuedPages \in Seq(Pages \ InvalidPages)
          /\ Len(QueuedPages) = queue_count
      BY LineIsSequence
    <2>2. /\ QueuedPages' \in Seq(Pages \ InvalidPages)
          /\ Len(QueuedPages)' = queue_count'
          /\ queue_count' = queue_count - 1
      BY <1>1, <1>2
      DEF QueueInv, QueueTypeOK, RingConsistent, QueuedPages, QueueRemove
    <2> QED
      BY <1>3, <1>4, <2>1, <2>2, ShiftedIsTail
  <1>6. PageInHand' = NoPage
    BY DEF QueueRemove, PageInHand
  <1> QED
    BY <1>3, <1>5, <1>6 DEF Fifo!Leave

LEMMA InitIsFifoInit == QueueInit => Fifo!FifoInit
  BY DEF QueueInit, Fifo!FifoInit, QueuedPages, PageInHand

(* Every step on the ring is a step of the line, or leaves it as it is.    *)
LEMMA StepIsFifoStep ==
  QueueInv /\ [QueueNext]_queueVars => [Fifo!FifoNext]_(Fifo!fifoVars)
  <1> SUFFICES ASSUME QueueInv, [QueueNext]_queueVars
               PROVE  [Fifo!FifoNext]_(Fifo!fifoVars)
    OBVIOUS
  <1>1. CASE UNCHANGED queueVars
    BY <1>1 DEF queueVars, QueuedPages, PageInHand, SlotOf, Fifo!fifoVars
  <1>2. ASSUME NEW page \in Pages, QueueAdd(page)
        PROVE  Fifo!FifoNext
    BY <1>2, AddIsJoin DEF Fifo!FifoNext
  <1>3. ASSUME NEW page \in Pages, QueueReject(page)
        PROVE  UNCHANGED Fifo!fifoVars
    BY <1>3 DEF QueueReject, queueVars, QueuedPages, PageInHand, SlotOf, Fifo!fifoVars
  <1>4. CASE msg = Nullptr /\ QueueGetNext
    BY <1>4, GetNextIsTakeOldest DEF Fifo!FifoNext
  <1>5. CASE msg # Nullptr /\ QueueRemove
    BY <1>5, RemoveIsLeave DEF Fifo!FifoNext
  <1> QED
    BY <1>1, <1>2, <1>3, <1>4, <1>5 DEF QueueNext

(* For every ring size, the three queue functions implement the bounded    *)
(* FIFO line: every page accepted is taken in hand once, in order, is not  *)
(* changed while it is being sent, and leaves the line once.               *)
THEOREM QueueImplementsFifo == QueueSpec => RingIsFifo
  BY InitIsFifoInit, StepIsFifoStep, QueueInitInv, QueueNextInv, PTL
  DEF QueueSpec, RingIsFifo, Fifo!FifoSpec
-----------------------------------------------------------------------------
USE DEF Core0Goes, LoopGoes, KeepCore0, KeepCore1, KeepShared,
        core0Vars, core1Vars, airVars, lengthVars, rawVars,
        WaitEnds, AfterPeek, LimitExpires, StateAfterTx, SlotTaken

(* Core 0 holds its pointer exactly from the peek to the removal.          *)
PointerInv ==
  /\ tx_pc \in {"prepare", "remove"} => msg # Nullptr
  /\ tx_pc \in {"wait", "raw", "poll", "peek"} => msg = Nullptr

(* AT+SEND checks the slot some steps before it arms staging, and the      *)
(* ways that end with a full slot do not lead there.                       *)
RawInv ==
  /\ RawBufferExclusive
  /\ loop_pc \in {"reset", "lengths"} /\ ret = "arm_data" => ~raw_tx_pending
  /\ loop_pc \in {"add_raw", "add_text", "give_at", "abort"} => ret = "services"

(* How much of the frame is out at each step of Core 0, as long as Core 1  *)
(* keeps away from it: remaining runs one chunk behind the radio.          *)
Reached == IF current_tx_remaining_length > FIFO_CHUNK
           THEN frame - current_tx_remaining_length + FIFO_CHUNK ELSE frame
FrameInv ==
  /\ tx_pc \notin {"drain", "idle", "unlock"} => outcome = "none"
  /\ outcome = "sent" => tx_pc \in {"idle", "unlock"}
  /\ ~disturbed =>
       /\ tx_pc \in FrameSteps => current_tx_total_length = frame
       /\ tx_pc = "start" => /\ long_packet = IsLong(frame)
                            /\ current_tx_remaining_length = LeftToRefill(frame)
       /\ tx_pc \in {"refill", "add"} => aired = Reached
       /\ tx_pc = "drain" /\ outcome = "none" => aired = frame
       /\ outcome = "sent" => aired = frame

TxInv == /\ TxTypeOK /\ RingConsistent /\ PointerInv
         /\ FlashKeptOutOfRf /\ TransmittingOnlyInRf /\ RawInv /\ FrameInv

LEMMA TxInitInv == Init => TxInv
  <1> SUFFICES ASSUME Init PROVE TxInv
    OBVIOUS
  <1>1. /\ QueueTypeOK /\ RingConsistent
        /\ LengthsOK /\ FlagsOK /\ ControlOK
    <2>1. QueueTypeOK /\ RingConsistent
      BY QueueInitInv DEF Init, QueueInv
    <2>2. LengthsOK
      BY TransmissionAssumption DEF Init, LengthsOK
    <2>3. FlagsOK
      BY DEF Init, FlagsOK
    <2>4. ControlOK
      BY DEF Init, ControlOK, TxSteps, LoopSteps, Outcomes, DeviceStates
    <2> QED
      BY <2>1, <2>2, <2>3, <2>4
  <1>2. PointerInv /\ FlashKeptOutOfRf /\ TransmittingOnlyInRf /\ RawInv
    BY DEF Init, QueueInit, PointerInv, FlashKeptOutOfRf, TransmittingOnlyInRf,
        RawInv, RawBufferExclusive, RfWindow
  <1>3. FrameInv
    BY DEF Init, FrameInv, FrameSteps
  <1> QED
    BY <1>1, <1>2, <1>3 DEF TxInv, TxTypeOK

(* The cores touch the ring only through the queue functions, and Core 0   *)
(* takes and drops its pointer in turn.                                    *)
LEMMA StepsUseQueue ==
  ASSUME PointerInv, [Next]_vars
  PROVE  [QueueNext]_queueVars
  <1> USE DEF QueueNext, queueVars
  <1>1. CASE UNCHANGED vars
    BY <1>1 DEF vars
  <1>2. CASE PeekPage \/ RemovePage
    BY <1>2
    DEF PeekPage, RemovePage, PointerInv
  <1>3. CASE TaskWait \/ TakeRaw \/ PollStaging \/ PreparePage \/ LockFlash \/
             MarkTransmitting \/ PrependEmr \/ ArmRefill \/
             StartTransmit \/ RefillFifo \/ AddToFifo \/ RefillTimeout
             \/ DrainFifo \/ MarkIdle \/ UnlockFlash
    BY <1>3
    DEF TaskWait, TakeRaw, PollStaging, PreparePage, LockFlash, MarkTransmitting,
        PrependEmr, ArmRefill, StartTransmit, RefillFifo, AddToFifo,
        RefillTimeout, DrainFifo, MarkIdle, UnlockFlash
  <1>4. CASE AddText \/ ServiceQueuesPage
    BY <1>4
    DEF AddText, ServiceQueuesPage
  <1>5. CASE SampleRfBusy \/ SerialIdle \/ StagingEnds \/ ParseCommand \/
             CheckRawSlot \/ ArmStaging \/ AbortRadio \/ DriveRadio \/
             AddRaw \/ NotifyGive \/ ResetState \/ ResetLengths \/
             ServicesIdle \/ FlashAccess \/ MarkBootSuccess
    BY <1>5
    DEF SampleRfBusy, SerialIdle, StagingEnds, ParseCommand, CheckRawSlot,
        ArmStaging, AbortRadio, DriveRadio, RadioStandby, AddRaw, NotifyGive, ResetState,
        ResetLengths, ServicesIdle, FlashAccess, MarkBootSuccess
  <1>6. CASE FifoHasSpace
    BY <1>6 DEF FifoHasSpace
  <1> QED
    BY <1>1, <1>2, <1>3, <1>4, <1>5, <1>6 DEF Next, Core0, Core1

LEMMA PointerKept ==
  ASSUME PointerInv, queue_count \in Nat, queue_head \in Slots, [Next]_vars
  PROVE  PointerInv'
  <1> USE DEF PointerInv, queueVars
  <1>1. CASE UNCHANGED vars
    BY <1>1 DEF vars
  <1>2. CASE PeekPage \/ PreparePage \/ UnlockFlash \/ RemovePage
    BY <1>2, QueueAssumption
    DEF PeekPage, PreparePage, UnlockFlash, RemovePage, QueueGetNext, QueueRemove,
        Slots, Nullptr
  <1>3. CASE TaskWait \/ TakeRaw \/ PollStaging \/ LockFlash \/ MarkTransmitting \/
             PrependEmr \/ ArmRefill \/ StartTransmit \/ RefillFifo \/
             AddToFifo \/ RefillTimeout \/ DrainFifo \/ MarkIdle
    BY <1>3
    DEF TaskWait, TakeRaw, PollStaging, LockFlash, MarkTransmitting, PrependEmr,
        ArmRefill, StartTransmit, RefillFifo, AddToFifo, RefillTimeout,
        DrainFifo, MarkIdle
  <1>4. CASE AddText \/ ServiceQueuesPage
    BY <1>4
    DEF AddText, ServiceQueuesPage, QueueAdd, QueueReject
  <1>5. CASE SampleRfBusy \/ SerialIdle \/ StagingEnds \/ ParseCommand \/
             CheckRawSlot \/ ArmStaging \/ AbortRadio \/ DriveRadio \/
             AddRaw \/ NotifyGive \/ ResetState \/ ResetLengths \/
             ServicesIdle \/ FlashAccess \/ MarkBootSuccess
    BY <1>5
    DEF SampleRfBusy, SerialIdle, StagingEnds, ParseCommand, CheckRawSlot,
        ArmStaging, AbortRadio, DriveRadio, RadioStandby, AddRaw, NotifyGive, ResetState,
        ResetLengths, ServicesIdle, FlashAccess, MarkBootSuccess
  <1>6. CASE FifoHasSpace
    BY <1>6 DEF FifoHasSpace
  <1> QED
    BY <1>1, <1>2, <1>3, <1>4, <1>5, <1>6 DEF Next, Core0, Core1

LEMMA LengthsKept ==
  ASSUME LengthsOK, [Next]_vars
  PROVE  LengthsOK'
  <1> USE DEF LengthsOK
  <1>1. CASE UNCHANGED vars
    BY <1>1 DEF vars
  <1>2. CASE TakeRaw
    BY <1>2, TransmissionAssumption
    DEF TakeRaw
  <1>3. CASE PreparePage
    BY <1>3, TransmissionAssumption
    DEF PreparePage
  <1>4. CASE PrependEmr
    BY <1>4, TransmissionAssumption
    DEF PrependEmr, EmrFits
  <1>5. CASE ArmRefill
    BY <1>5, TransmissionAssumption
    DEF ArmRefill, IsLong, LeftToRefill
  <1>6. CASE StartTransmit
    BY <1>6, TransmissionAssumption
    DEF StartTransmit, FirstBytes
  <1>7. CASE AddToFifo
    BY <1>7, TransmissionAssumption
    DEF AddToFifo
  <1>8. CASE TaskWait \/ PollStaging \/ PeekPage \/ LockFlash \/ MarkTransmitting
             \/ RefillFifo \/ RefillTimeout \/ DrainFifo \/ MarkIdle
             \/ UnlockFlash \/ RemovePage
    BY <1>8
    DEF TaskWait, PollStaging, PeekPage, LockFlash, MarkTransmitting, RefillFifo,
        RefillTimeout, DrainFifo, MarkIdle, UnlockFlash, RemovePage
  <1>9. CASE ArmStaging \/ AbortRadio \/ DriveRadio \/ ResetLengths \/
             MarkBootSuccess
    BY <1>9, TransmissionAssumption
    DEF ArmStaging, AbortRadio, DriveRadio, RadioStandby, ResetLengths,
        MarkBootSuccess
  <1>10. CASE AddRaw
    BY <1>10, TransmissionAssumption
    DEF AddRaw
  <1>11. CASE SampleRfBusy \/ SerialIdle \/ StagingEnds \/ ParseCommand \/
             CheckRawSlot \/ AddText \/ NotifyGive \/ ResetState \/
             ServicesIdle \/ ServiceQueuesPage \/ FlashAccess
    BY <1>11
    DEF SampleRfBusy, SerialIdle, StagingEnds, ParseCommand, CheckRawSlot,
        AddText, NotifyGive, ResetState, ServicesIdle, ServiceQueuesPage,
        FlashAccess
  <1>12. CASE FifoHasSpace
    BY <1>12 DEF FifoHasSpace
  <1> QED
    BY <1>1, <1>2, <1>3, <1>4, <1>5, <1>6, <1>7, <1>8, <1>9, <1>10, <1>11, <1>12 DEF Next, Core0, Core1

LEMMA FlagsKept ==
  ASSUME FlagsOK, [Next]_vars
  PROVE  FlagsOK'
  <1> USE DEF FlagsOK
  <1>1. CASE UNCHANGED vars
    BY <1>1 DEF vars
  <1>2. CASE TaskWait
    BY <1>2
    DEF TaskWait
  <1>3. CASE TakeRaw
    BY <1>3
    DEF TakeRaw
  <1>4. CASE PreparePage
    BY <1>4
    DEF PreparePage
  <1>5. CASE ArmRefill
    BY <1>5
    DEF ArmRefill, IsLong
  <1>6. CASE RefillFifo \/ UnlockFlash
    BY <1>6
    DEF RefillFifo, UnlockFlash
  <1>7. CASE PollStaging \/ PeekPage \/ LockFlash \/ MarkTransmitting \/ PrependEmr
             \/ StartTransmit \/ AddToFifo \/ RefillTimeout \/
             DrainFifo \/ MarkIdle \/ RemovePage
    BY <1>7
    DEF PollStaging, PeekPage, LockFlash, MarkTransmitting, PrependEmr,
        StartTransmit, AddToFifo, RefillTimeout, DrainFifo, MarkIdle,
        RemovePage
  <1>8. CASE ArmStaging \/ AbortRadio \/ DriveRadio \/ ResetLengths
    BY <1>8
    DEF ArmStaging, AbortRadio, DriveRadio, RadioStandby, ResetLengths
  <1>9. CASE AddRaw \/ NotifyGive
    BY <1>9
    DEF AddRaw, NotifyGive
  <1>10. CASE MarkBootSuccess
    BY <1>10
    DEF MarkBootSuccess
  <1>11. CASE SampleRfBusy \/ SerialIdle \/ StagingEnds \/ ParseCommand \/
             CheckRawSlot \/ AddText \/ ResetState \/ ServicesIdle \/
             ServiceQueuesPage \/ FlashAccess
    BY <1>11
    DEF SampleRfBusy, SerialIdle, StagingEnds, ParseCommand, CheckRawSlot,
        AddText, ResetState, ServicesIdle, ServiceQueuesPage, FlashAccess
  <1>12. CASE FifoHasSpace
    BY <1>12 DEF FifoHasSpace
  <1> QED
    BY <1>1, <1>2, <1>3, <1>4, <1>5, <1>6, <1>7, <1>8, <1>9, <1>10, <1>11, <1>12 DEF Next, Core0, Core1

LEMMA ControlKept ==
  ASSUME ControlOK, [Next]_vars
  PROVE  ControlOK'
  <1> USE DEF ControlOK, TxSteps, RfWindow, LoopSteps, Outcomes, DeviceStates
  <1>1. CASE UNCHANGED vars
    BY <1>1 DEF vars
  <1>2. CASE TaskWait \/ TakeRaw \/ PollStaging \/ PeekPage \/ PreparePage \/
             LockFlash \/ MarkTransmitting \/ PrependEmr \/ ArmRefill
             \/ StartTransmit \/ RefillFifo \/ AddToFifo \/
             RefillTimeout \/ DrainFifo \/ MarkIdle \/ UnlockFlash \/
             RemovePage
    BY <1>2
    DEF TaskWait, TakeRaw, PollStaging, PeekPage, PreparePage, LockFlash,
        MarkTransmitting, PrependEmr, ArmRefill, StartTransmit, RefillFifo,
        AddToFifo, RefillTimeout, DrainFifo, MarkIdle, UnlockFlash,
        RemovePage
  <1>3. CASE ParseCommand
    BY <1>3, TransmissionAssumption
    DEF ParseCommand
  <1>4. CASE SampleRfBusy \/ SerialIdle \/ StagingEnds \/ CheckRawSlot \/
             ArmStaging \/ AbortRadio \/ DriveRadio \/ AddRaw \/
             AddText \/ NotifyGive \/ ResetState \/ ResetLengths \/
             ServicesIdle \/ ServiceQueuesPage \/ FlashAccess \/
             MarkBootSuccess
    BY <1>4
    DEF SampleRfBusy, SerialIdle, StagingEnds, CheckRawSlot, ArmStaging, AbortRadio,
        DriveRadio, RadioStandby, AddRaw, AddText, NotifyGive, ResetState, ResetLengths,
        ServicesIdle, ServiceQueuesPage, FlashAccess, MarkBootSuccess
  <1>5. CASE FifoHasSpace
    BY <1>5 DEF FifoHasSpace
  <1> QED
    BY <1>1, <1>2, <1>3, <1>4, <1>5 DEF Next, Core0, Core1

LEMMA FlashKept ==
  ASSUME ControlOK, FlashKeptOutOfRf, [Next]_vars
  PROVE  FlashKeptOutOfRf'
  <1> USE DEF ControlOK, FlashKeptOutOfRf, RfWindow, Available
  <1>1. CASE UNCHANGED vars
    BY <1>1 DEF vars
  <1>2. CASE LockFlash
    BY <1>2
    DEF LockFlash
  <1>3. CASE UnlockFlash
    BY <1>3
    DEF UnlockFlash
  <1>4. CASE TaskWait \/ TakeRaw \/ PollStaging \/ PeekPage \/ PreparePage \/
             MarkTransmitting \/ PrependEmr \/ ArmRefill \/
             StartTransmit \/ RefillFifo \/ AddToFifo \/ RefillTimeout
             \/ DrainFifo \/ MarkIdle \/ RemovePage
    BY <1>4
    DEF TaskWait, TakeRaw, PollStaging, PeekPage, PreparePage, MarkTransmitting,
        PrependEmr, ArmRefill, StartTransmit, RefillFifo, AddToFifo,
        RefillTimeout, DrainFifo, MarkIdle, RemovePage
  <1>5. CASE ParseCommand
    BY <1>5, TransmissionAssumption
    DEF ParseCommand
  <1>6. CASE FlashAccess
    BY <1>6
    DEF FlashAccess
  <1>7. CASE SampleRfBusy \/ SerialIdle \/ StagingEnds \/ CheckRawSlot \/
             ArmStaging \/ AbortRadio \/ DriveRadio \/ AddRaw \/
             AddText \/ NotifyGive \/ ResetState \/ ResetLengths \/
             ServicesIdle \/ ServiceQueuesPage \/ MarkBootSuccess
    BY <1>7
    DEF SampleRfBusy, SerialIdle, StagingEnds, CheckRawSlot, ArmStaging, AbortRadio,
        DriveRadio, RadioStandby, AddRaw, AddText, NotifyGive, ResetState, ResetLengths,
        ServicesIdle, ServiceQueuesPage, MarkBootSuccess
  <1>8. CASE FifoHasSpace
    BY <1>8 DEF FifoHasSpace
  <1> QED
    BY <1>1, <1>2, <1>3, <1>4, <1>5, <1>6, <1>7, <1>8 DEF Next, Core0, Core1

LEMMA TransmittingKept ==
  ASSUME TransmittingOnlyInRf, [Next]_vars
  PROVE  TransmittingOnlyInRf'
  <1> USE DEF TransmittingOnlyInRf, RfWindow
  <1>1. CASE UNCHANGED vars
    BY <1>1 DEF vars
  <1>2. CASE MarkTransmitting
    BY <1>2
    DEF MarkTransmitting
  <1>3. CASE MarkIdle
    BY <1>3
    DEF MarkIdle
  <1>4. CASE TaskWait \/ TakeRaw \/ PollStaging \/ PeekPage \/ PreparePage \/
             LockFlash \/ PrependEmr \/ ArmRefill \/ StartTransmit \/
             RefillFifo \/ AddToFifo \/ RefillTimeout \/ DrainFifo \/
             UnlockFlash \/ RemovePage
    BY <1>4
    DEF TaskWait, TakeRaw, PollStaging, PeekPage, PreparePage, LockFlash,
        PrependEmr, ArmRefill, StartTransmit, RefillFifo, AddToFifo,
        RefillTimeout, DrainFifo, UnlockFlash, RemovePage
  <1>5. CASE ArmStaging \/ AddRaw \/ AddText \/ ResetState
    BY <1>5
    DEF ArmStaging, AddRaw, AddText, ResetState
  <1>6. CASE SampleRfBusy \/ SerialIdle \/ StagingEnds \/ ParseCommand \/
             CheckRawSlot \/ AbortRadio \/ DriveRadio \/ NotifyGive \/
             ResetLengths \/ ServicesIdle \/ ServiceQueuesPage \/
             FlashAccess \/ MarkBootSuccess
    BY <1>6
    DEF SampleRfBusy, SerialIdle, StagingEnds, ParseCommand, CheckRawSlot,
        AbortRadio, DriveRadio, RadioStandby, NotifyGive, ResetLengths, ServicesIdle,
        ServiceQueuesPage, FlashAccess, MarkBootSuccess
  <1>7. CASE FifoHasSpace
    BY <1>7 DEF FifoHasSpace
  <1> QED
    BY <1>1, <1>2, <1>3, <1>4, <1>5, <1>6, <1>7 DEF Next, Core0, Core1

LEMMA RawKept ==
  ASSUME ControlOK, RawInv, [Next]_vars
  PROVE  RawInv'
  <1> USE DEF ControlOK, RawInv, RawBufferExclusive
  <1>1. CASE UNCHANGED vars
    BY <1>1 DEF vars
  <1>2. CASE TakeRaw
    BY <1>2
    DEF TakeRaw
  <1>3. CASE TaskWait \/ PollStaging \/ PeekPage \/ PreparePage \/ LockFlash \/
             MarkTransmitting \/ PrependEmr \/ ArmRefill \/
             StartTransmit \/ RefillFifo \/ AddToFifo \/ RefillTimeout
             \/ DrainFifo \/ MarkIdle \/ UnlockFlash \/ RemovePage
    BY <1>3
    DEF TaskWait, PollStaging, PeekPage, PreparePage, LockFlash, MarkTransmitting,
        PrependEmr, ArmRefill, StartTransmit, RefillFifo, AddToFifo,
        RefillTimeout, DrainFifo, MarkIdle, UnlockFlash, RemovePage
  <1>4. CASE CheckRawSlot \/ ArmStaging
    BY <1>4
    DEF CheckRawSlot, ArmStaging
  <1>5. CASE StagingEnds
    BY <1>5
    DEF StagingEnds, AtStaging
  <1>6. CASE ParseCommand
    BY <1>6, TransmissionAssumption
    DEF ParseCommand, AtStaging
  <1>7. CASE AddRaw
    BY <1>7
    DEF AddRaw
  <1>8. CASE NotifyGive
    BY <1>8
    DEF NotifyGive
  <1>9. CASE ResetState
    BY <1>9
    DEF ResetState
  <1>10. CASE ResetLengths
    BY <1>10
    DEF ResetLengths
  <1>11. CASE SampleRfBusy \/ SerialIdle \/ AbortRadio \/ DriveRadio \/ AddText \/
             ServicesIdle \/ ServiceQueuesPage \/ FlashAccess \/
             MarkBootSuccess
    BY <1>11
    DEF SampleRfBusy, SerialIdle, AbortRadio, DriveRadio, RadioStandby, AddText, ServicesIdle,
        ServiceQueuesPage, FlashAccess, MarkBootSuccess
  <1>12. CASE FifoHasSpace
    BY <1>12 DEF FifoHasSpace
  <1> QED
    BY <1>1, <1>2, <1>3, <1>4, <1>5, <1>6, <1>7, <1>8, <1>9, <1>10, <1>11, <1>12 DEF Next, Core0, Core1

(* A chunk of FIFO_CHUNK bytes is on its way for as long as remaining has  *)
(* not caught up, so that AddToFifo copies exactly the next bytes.         *)
LEMMA FrameKept ==
  ASSUME LengthsOK, FlagsOK, ControlOK, FrameInv, [Next]_vars
  PROVE  FrameInv'
  <1> USE DEF FrameInv, FrameSteps, Reached, LengthsOK, ControlOK
  <1>1. CASE UNCHANGED vars
    BY <1>1 DEF vars
  <1>2. CASE TakeRaw
    BY <1>2, TransmissionAssumption
    DEF TakeRaw
  <1>3. CASE PreparePage
    BY <1>3, TransmissionAssumption
    DEF PreparePage
  <1>4. CASE PrependEmr
    BY <1>4, TransmissionAssumption
    DEF PrependEmr
  <1>5. CASE ArmRefill
    BY <1>5, TransmissionAssumption
    DEF ArmRefill
  <1>6. CASE StartTransmit
    <2>1. CASE long_packet
      <3>1. ~disturbed => /\ frame > MAX_PACKET
                          /\ current_tx_remaining_length = frame
                          /\ current_tx_total_length = frame
        BY <1>6, <2>1 DEF StartTransmit, IsLong, LeftToRefill
      <3>2. CASE tx_pc' = "idle" /\ outcome' = "start_failed"
        BY <1>6, <3>2 DEF StartTransmit
      <3>3. CASE tx_pc' = "refill" /\ aired' = FirstBytes(current_tx_total_length)
        <4>1. /\ tx_pc = "start" /\ UNCHANGED <<lengthVars, frame>>
              /\ outcome' = outcome /\ (~disturbed' => ~disturbed)
          BY <1>6, <3>3 DEF StartTransmit
        <4> QED
          BY <1>6, <3>1, <3>3, <4>1, TransmissionAssumption DEF FirstBytes, lengthVars
      <3> QED
        BY <1>6, <2>1, <3>2, <3>3 DEF StartTransmit
    <2>2. CASE ~long_packet
      BY <1>6, <2>2, TransmissionAssumption
      DEF StartTransmit, FirstBytes, IsLong, LeftToRefill
    <2> QED
      BY <2>1, <2>2
  <1>7. CASE AddToFifo
    BY <1>7, TransmissionAssumption
    DEF AddToFifo
  <1>8. CASE RefillTimeout \/ DrainFifo
    BY <1>8
    DEF RefillTimeout, DrainFifo
  <1>9. CASE UnlockFlash
    BY <1>9
    DEF UnlockFlash
  <1>10. CASE TaskWait \/ PollStaging \/ PeekPage \/ LockFlash \/ MarkTransmitting
             \/ RefillFifo \/ MarkIdle \/ RemovePage
    BY <1>10
    DEF TaskWait, PollStaging, PeekPage, LockFlash, MarkTransmitting, RefillFifo,
        MarkIdle, RemovePage
  <1>11. CASE ArmStaging \/ ResetLengths \/ AbortRadio \/ DriveRadio
    BY <1>11
    DEF ArmStaging, ResetLengths, AbortRadio, DriveRadio, RadioStandby
  <1>12. CASE SampleRfBusy \/ SerialIdle \/ StagingEnds \/ ParseCommand \/
             CheckRawSlot \/ AddRaw \/ AddText \/ NotifyGive \/
             ResetState \/ ServicesIdle \/ ServiceQueuesPage \/
             FlashAccess
    BY <1>12
    DEF SampleRfBusy, SerialIdle, StagingEnds, ParseCommand, CheckRawSlot,
        AddRaw, AddText, NotifyGive, ResetState, ServicesIdle,
        ServiceQueuesPage, FlashAccess
  <1>13. CASE MarkBootSuccess
    BY <1>13
    DEF MarkBootSuccess, OnAir
  <1>14. CASE FifoHasSpace
    BY <1>14 DEF FifoHasSpace
  <1> QED
    BY <1>1, <1>2, <1>3, <1>4, <1>5, <1>6, <1>7, <1>8, <1>9, <1>10, <1>11, <1>12,
       <1>13, <1>14
    DEF Next, Core0, Core1

LEMMA TxNextInv == TxInv /\ [Next]_vars => TxInv'
  <1> SUFFICES ASSUME TxInv, [Next]_vars PROVE TxInv'
    OBVIOUS
  <1>1. QueueInv'
    BY StepsUseQueue, QueueNextInv DEF TxInv, TxTypeOK, QueueInv
  <1>2. PointerInv'
    BY PointerKept DEF TxInv, TxTypeOK, QueueTypeOK
  <1>3. TxTypeOK'
    BY <1>1, LengthsKept, FlagsKept, ControlKept DEF TxInv, TxTypeOK, QueueInv
  <1>4. /\ FlashKeptOutOfRf' /\ TransmittingOnlyInRf'
        /\ RawInv' /\ FrameInv'
    BY FlashKept, TransmittingKept, RawKept, FrameKept DEF TxInv, TxTypeOK
  <1> QED
    BY <1>1, <1>2, <1>3, <1>4 DEF TxInv, QueueInv

LEMMA TxInvariant == Spec => []TxInv
  BY TxInitInv, TxNextInv, PTL DEF Spec
-----------------------------------------------------------------------------
(* Whatever the console and the services do, every variable keeps the type *)
(* of its declaration; in particular no frame outgrows tx_data_buffer.     *)
THEOREM TxTypeCorrect == Spec => []TxTypeOK
  BY TxInvariant, PTL DEF TxInv

(* Core 1's guarded flash accesses never overlap the RF window of Core 0.  *)
THEOREM FlashExclusion == Spec => []FlashKeptOutOfRf
  BY TxInvariant, PTL DEF TxInv

(* TRANSMITTING is never left behind when Core 0 stops sending.            *)
THEOREM NeverStuckTransmitting == Spec => []TransmittingOnlyInRf
  BY TxInvariant, PTL DEF TxInv

(* AT+SEND never overwrites, and never has refused, a raw frame in the     *)
(* slot it shares with Core 0.                                             *)
THEOREM RawBufferSafe == Spec => []RawBufferExclusive
  BY TxInvariant, PTL DEF TxInv, RawInv

(* Refilling the FIFO in chunks sends every byte of a frame once and in    *)
(* order, for every frame length, chunk and FIFO size.                     *)
THEOREM UndisturbedFramesComplete == Spec => []UndisturbedFrameComplete
  BY TxInvariant, PTL DEF TxInv, FrameInv, UndisturbedFrameComplete

(* The ring stays consistent under the way the two cores use it ...        *)
THEOREM TxRingConsistent == Spec => []RingConsistent
  BY TxInvariant, PTL DEF TxInv

(* ... and the firmware's queue is a bounded FIFO line of pages.           *)
THEOREM TransmissionImplementsFifo == Spec => RingIsFifo
  <1>1. Init => Fifo!FifoInit
    BY InitIsFifoInit DEF Init
  <1>2. TxInv /\ [Next]_vars => [Fifo!FifoNext]_(Fifo!fifoVars)
    BY StepsUseQueue, StepIsFifoStep DEF TxInv, TxTypeOK, QueueInv
  <1> QED
    BY <1>1, <1>2, TxInvariant, PTL DEF Spec, RingIsFifo, Fifo!FifoSpec

-----------------------------------------------------------------------------
(* Core 1 as it runs when no host uses the console.                        *)
QuietInv ==
  /\ ~AtStaging(device_state)
  /\ loop_pc \in {"top", "serial", "services", "give_service", "flash", "nvs"}

LEMMA QuietKept ==
  ASSUME Commands = {}, QuietInv, [Next]_vars
  PROVE  QuietInv'
  <1> USE DEF QuietInv, AtStaging
  <1>1. CASE UNCHANGED vars
    BY <1>1 DEF vars
  <1>2. CASE TakeRaw \/ PreparePage
    BY <1>2
    DEF TakeRaw, PreparePage
  <1>3. CASE MarkTransmitting \/ MarkIdle
    BY <1>3
    DEF MarkTransmitting, MarkIdle
  <1>4. CASE TaskWait \/ PollStaging \/ PeekPage \/ LockFlash \/ PrependEmr \/
             ArmRefill \/ StartTransmit \/ RefillFifo \/ AddToFifo \/
             RefillTimeout \/ DrainFifo \/ UnlockFlash \/ RemovePage
    BY <1>4
    DEF TaskWait, PollStaging, PeekPage, LockFlash, PrependEmr, ArmRefill,
        StartTransmit, RefillFifo, AddToFifo, RefillTimeout, DrainFifo,
        UnlockFlash, RemovePage
  <1>5. CASE StagingEnds \/ ParseCommand
    BY <1>5
    DEF StagingEnds, ParseCommand
  <1>6. CASE SampleRfBusy \/ SerialIdle \/ CheckRawSlot \/ ArmStaging \/ AbortRadio
             \/ DriveRadio \/ AddRaw \/ AddText \/ NotifyGive \/
             ResetState \/ ResetLengths \/ ServicesIdle \/
             ServiceQueuesPage \/ FlashAccess \/ MarkBootSuccess
    BY <1>6
    DEF SampleRfBusy, SerialIdle, CheckRawSlot, ArmStaging, AbortRadio, DriveRadio, RadioStandby,
        AddRaw, AddText, NotifyGive, ResetState, ResetLengths, ServicesIdle,
        ServiceQueuesPage, FlashAccess, MarkBootSuccess
  <1>7. CASE FifoHasSpace
    BY <1>7 DEF FifoHasSpace
  <1> QED
    BY <1>1, <1>2, <1>3, <1>4, <1>5, <1>6, <1>7 DEF Next, Core0, Core1

(* mark_boot_success is over, and what it did to a frame is in the past.   *)
Settled ==
  /\ boot_complete = TRUE /\ loop_pc # "nvs"
  /\ disturbed = FALSE \/ BetweenFrames

LEMMA SettledKept ==
  ASSUME FlagsOK, QuietInv, Settled, [Next]_vars
  PROVE  Settled'
  <1> USE DEF FlagsOK, QuietInv, Settled, AtStaging, BetweenFrames, FrameSteps
  <1>1. CASE UNCHANGED vars
    BY <1>1 DEF vars
  <1>2. CASE TakeRaw \/ PreparePage
    BY <1>2
    DEF TakeRaw, PreparePage
  <1>3. CASE StartTransmit
    BY <1>3
    DEF StartTransmit
  <1>4. CASE PollStaging \/ PeekPage \/ RemovePage
    BY <1>4
    DEF PollStaging, PeekPage, AfterPeek, RemovePage
  <1>5. CASE TaskWait \/ LockFlash \/ MarkTransmitting \/ PrependEmr \/ ArmRefill
    BY <1>5
    DEF TaskWait, LockFlash, MarkTransmitting, PrependEmr, ArmRefill
  <1>6. CASE RefillFifo \/ AddToFifo \/ RefillTimeout \/ DrainFifo
    BY <1>6
    DEF RefillFifo, AddToFifo, RefillTimeout, DrainFifo
  <1>7. CASE MarkIdle \/ UnlockFlash
    BY <1>7
    DEF MarkIdle, UnlockFlash
  <1>8. CASE StagingEnds \/ CheckRawSlot \/ ArmStaging \/ AbortRadio \/
             DriveRadio \/ AddRaw \/ AddText \/ ResetState \/ ResetLengths
    BY <1>8
    DEF StagingEnds, CheckRawSlot, ArmStaging, AbortRadio, DriveRadio, AddRaw,
        AddText, ResetState, ResetLengths
  <1>9. CASE ParseCommand
    BY <1>9, TransmissionAssumption DEF ParseCommand
  <1>10. CASE SampleRfBusy \/ SerialIdle \/ NotifyGive
    BY <1>10 DEF SampleRfBusy, SerialIdle, NotifyGive
  <1>11. CASE ServicesIdle \/ ServiceQueuesPage \/ FlashAccess
    BY <1>11 DEF ServicesIdle, ServiceQueuesPage, FlashAccess
  <1>12. CASE MarkBootSuccess
    BY <1>12 DEF MarkBootSuccess
  <1>13. CASE FifoHasSpace
    BY <1>13 DEF FifoHasSpace
  <1> QED
    BY <1>1, <1>2, <1>3, <1>4, <1>5, <1>6, <1>7, <1>8, <1>9, <1>10, <1>11, <1>12,
       <1>13
    DEF Next, Core0, Core1

(* With an idle console the web, REST, MQTT, IMAP and ChatGPT services     *)
(* harm no transmission that begins after mark_boot_success.  Before that  *)
(* its NVS write may cut a page a service has queued already.              *)
THEOREM ServicesKeepFramesWhole ==
  ASSUME Commands = {} PROVE Spec => WholeAfterBoot
  <1>1. Init => QuietInv
    BY DEF Init, QuietInv, AtStaging
  <1>2. QuietInv /\ [Next]_vars => QuietInv'
    BY QuietKept
  <1>3. TxInv /\ boot_complete /\ loop_pc # "nvs" /\ BetweenFrames => Settled
    BY DEF TxInv, TxTypeOK, FlagsOK, Settled
  <1>4. TxInv /\ QuietInv /\ Settled /\ [Next]_vars => Settled'
    BY SettledKept DEF TxInv, TxTypeOK
  <1>5. TxInv /\ Settled => FrameComplete
    BY DEF TxInv, FrameInv, Settled, BetweenFrames, FrameComplete
  <1> QED
    BY <1>1, <1>2, <1>3, <1>4, <1>5, TxInvariant, PTL DEF Spec, WholeAfterBoot
=============================================================================
