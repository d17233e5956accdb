------------------------------ MODULE PageFifo ------------------------------
(***************************************************************************)
(* What the message queue promises to the rest of the firmware, without    *)
(* saying how: a bounded first-in-first-out line of pages.  The producers  *)
(* on Core 1 may join the line while there is room; the transmission task  *)
(* on Core 0 takes the oldest page in hand, keeps it unchanged while the   *)
(* radio sends it, and only then takes it off the line.                    *)
(***************************************************************************)
EXTENDS Naturals, Sequences

CONSTANTS Capacity,    \* pages the line holds
          Accepted,    \* pages that may join the line
          Nothing      \* "no page in hand"

VARIABLES pages,       \* the line, oldest page first
          inHand       \* the page the transmission task works on

fifoVars == <<pages, inHand>>

FifoInit == pages = <<>> /\ inHand = Nothing

\* A page joins the end of the line; the page in hand is not touched.
Join(p) ==
  /\ Len(pages) < Capacity
  /\ pages' = Append(pages, p)
  /\ UNCHANGED inHand

\* The oldest page is taken in hand, and stays on the line.
TakeOldest ==
  /\ inHand = Nothing
  /\ pages # <<>>
  /\ inHand' = Head(pages)
  /\ UNCHANGED pages

\* The page in hand is the oldest one, and leaves the line.
Leave ==
  /\ pages # <<>>
  /\ inHand = Head(pages)
  /\ pages' = Tail(pages)
  /\ inHand' = Nothing

FifoNext == (\E p \in Accepted : Join(p)) \/ TakeOldest \/ Leave

FifoSpec == FifoInit /\ [][FifoNext]_fifoVars
=============================================================================
