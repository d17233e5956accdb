---------------------------- MODULE MessageQueue ----------------------------
(***************************************************************************)
(* The ring buffer between the two cores (transmission.cpp, MESSAGE QUEUE).*)
(* Every producer runs on Core 1 (AT parser, web, REST, MQTT, Grafana,     *)
(* IMAP, ChatGPT, battery alerts) and goes through queue_add_message; the  *)
(* only consumer is transmission_task on Core 0.                           *)
(*                                                                         *)
(* The three queue functions run inside the queue_mux critical section, so *)
(* each is one step.  What is NOT protected is the pointer that            *)
(* queue_get_next_message returns: Core 0 keeps it, outside the critical   *)
(* section, for the whole encoding and transmission of the page.  The      *)
(* variable msg is that pointer.                                           *)
(***************************************************************************)
EXTENDS Integers, Sequences

CONSTANTS MAX_QUEUE_SIZE,   \* slots of the ring (25 in config.h)
          Pages,            \* what a QueuedMessage may hold
          InvalidPages,     \* pages whose capcode validate_flex_capcode rejects
          NoPage            \* content of a slot never written

ASSUME QueueAssumption ==
  /\ MAX_QUEUE_SIZE \in Nat \ {0}
  /\ InvalidPages \subseteq Pages
  /\ NoPage \notin Pages

VARIABLES message_queue, queue_head, queue_tail, queue_count,
          msg               \* Core 0's pointer into message_queue, or Nullptr

queueVars == <<message_queue, queue_head, queue_tail, queue_count, msg>>

Slots      == 0 .. MAX_QUEUE_SIZE - 1
Nullptr    == -1
WrapLate(index) == index % (MAX_QUEUE_SIZE + 1)   \* mutant: one slot too many
Wrap(index) == index % MAX_QUEUE_SIZE
NextSlot(slot) == Wrap(slot + 1)

QueueInit ==
  /\ message_queue = [slot \in Slots |-> NoPage]
  /\ queue_head = 0
  /\ queue_tail = 0
  /\ queue_count = 0
  /\ msg = Nullptr

-----------------------------------------------------------------------------
(* Mutant: the capcode is not validated.                                   *)
QueueAddUnvalidated(page) ==
  /\ queue_count < MAX_QUEUE_SIZE
  /\ message_queue' = [message_queue EXCEPT ![queue_tail] = page]
  /\ queue_tail' = NextSlot(queue_tail)
  /\ queue_count' = queue_count + 1
  /\ UNCHANGED <<queue_head, msg>>

(* queue_add_message: returns true ...                                     *)
QueueAdd(page) ==
  /\ page \notin InvalidPages
  /\ queue_count < MAX_QUEUE_SIZE
  /\ message_queue' = [message_queue EXCEPT ![queue_tail] = page]
  /\ queue_tail' = NextSlot(queue_tail)
  /\ queue_count' = queue_count + 1
  /\ UNCHANGED <<queue_head, msg>>

(* ... or false, for an invalid capcode or a full ring, and changes nothing. *)
QueueReject(page) ==
  /\ page \in InvalidPages \/ queue_count >= MAX_QUEUE_SIZE
  /\ UNCHANGED queueVars


(* queue_get_next_message: the oldest slot, or nullptr when there is none. *)
QueueGetNext ==
  /\ msg' = IF queue_count = 0 THEN Nullptr ELSE queue_head
  /\ UNCHANGED <<message_queue, queue_head, queue_tail, queue_count>>

(* queue_remove_message; transmission_task drops its pointer with it.      *)
QueueRemove ==
  /\ IF queue_count > 0
     THEN /\ queue_head' = NextSlot(queue_head)
          /\ queue_count' = queue_count - 1
     ELSE UNCHANGED <<queue_head, queue_count>>
  /\ msg' = Nullptr
  /\ UNCHANGED <<message_queue, queue_tail>>

QueueNext ==
  \/ \E page \in Pages : QueueAdd(page) \/ QueueReject(page)
  \/ msg = Nullptr /\ QueueGetNext
  \/ msg # Nullptr /\ QueueRemove

QueueSpec == QueueInit /\ [][QueueNext]_queueVars

-----------------------------------------------------------------------------
(* The values the code's declarations allow, message_queue[] to msg.       *)
QueueTypeOK ==
  /\ message_queue \in [Slots -> Pages \cup {NoPage}]
  /\ queue_head \in Slots
  /\ queue_tail \in Slots
  /\ queue_count \in 0 .. MAX_QUEUE_SIZE
  /\ msg \in Slots \cup {Nullptr}

(* The slot of the i-th queued page, counting from the oldest.             *)
SlotOf(i) == Wrap(queue_head + i - 1)

(* The pages waiting, oldest first: what the ring stands for.              *)
QueuedPages == [i \in 1 .. queue_count |-> message_queue[SlotOf(i)]]

(* The three indices of the ring agree, every counted slot holds a page    *)
(* with a valid capcode, and while Core 0 holds a pointer it is the head   *)
(* of a ring that is not empty: queue_add_message and queue_remove_message *)
(* cannot make it dangle.                                                  *)
RingConsistent ==
  /\ queue_tail = Wrap(queue_head + queue_count)
  /\ \A i \in 1 .. queue_count : message_queue[SlotOf(i)] \in Pages \ InvalidPages
  /\ msg # Nullptr => msg = queue_head /\ queue_count > 0

(* The page Core 0 reads through its pointer, at whatever time it reads.   *)
PageInHand == IF msg = Nullptr THEN NoPage ELSE message_queue[msg]

Fifo == INSTANCE PageFifo
          WITH Capacity <- MAX_QUEUE_SIZE, Accepted <- Pages \ InvalidPages,
               Nothing <- NoPage, pages <- QueuedPages, inHand <- PageInHand

(* queue_add_message, queue_get_next_message and queue_remove_message, run *)
(* in any order by the two cores, are a bounded FIFO line: no page is      *)
(* lost, repeated, overtaken or accepted beyond the ring's size, and the   *)
(* page being sent does not change under Core 0's unprotected pointer.     *)
RingIsFifo == Fifo!FifoSpec
=============================================================================
