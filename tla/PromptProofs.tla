---------------------------- MODULE PromptProofs ----------------------------
(***************************************************************************)
(* What module ScheduledPrompts promises for every length of the week and  *)
(* of a minute, every number of attempts and prompts, and any number of    *)
(* resets and requests.                                                    *)
(*                                                                         *)
(* OnePagePerRun needs to know what a run has done at each of its          *)
(* attempts (AttemptsInv).  That a prompt runs once a minute rests on how  *)
(* far loop is from its last check: later than this minute has lasted      *)
(* means that no prompt has run in it (TurnsInv).  That no minute goes by  *)
(* without its run needs one thing more: a prompt with a failed attempt is *)
(* tried again at one of the next two checks, so that its retries are over *)
(* before its minute of the next week (RetriesInv, ServedInv).             *)
(***************************************************************************)
EXTENDS ScheduledPrompts, SequenceTheorems, TLAPS

USE DEF timeVars, checkVars, configVars, histVars, KeepWorld, Happens

LEMMA LimitsPositive ==
  /\ MINUTES \in Nat /\ MINUTES > 1 /\ PARTS \in Nat /\ PARTS > 0
  /\ MAX_ATTEMPTS \in Nat /\ MAX_ATTEMPTS > 0 /\ 2 * (MAX_ATTEMPTS - 1) < MINUTES
  /\ MAX_CHATGPT_PROMPTS \in Nat
  BY PromptAssumption

-----------------------------------------------------------------------------
Part(t) == t % PARTS
Times == 0..(MINUTES * PARTS - 1)

LEMMA MinuteAndPart ==
  ASSUME NEW t \in Times
  PROVE  /\ Minute(t) \in 0..(MINUTES - 1) /\ Part(t) \in 0..(PARTS - 1)
         /\ t = PARTS * Minute(t) + Part(t)
  <1>1. t \in Nat /\ t < MINUTES * PARTS /\ MINUTES * PARTS \in Nat
    BY LimitsPositive DEF Times
  <1>2. Minute(t) \in Int /\ Part(t) \in 0..(PARTS - 1) /\ t = PARTS * Minute(t) + Part(t)
    BY <1>1, LimitsPositive DEF Minute, Part
  <1>3. Minute(t) >= 0
    BY <1>1, <1>2, LimitsPositive
  <1>4. Minute(t) < MINUTES
    BY <1>1, <1>2, LimitsPositive
  <1> QED
    BY <1>2, <1>3, <1>4, LimitsPositive

LEMMA UniqueMinute ==
  ASSUME NEW q \in Nat, NEW r \in 0..(PARTS - 1)
  PROVE  Minute(PARTS * q + r) = q /\ Part(PARTS * q + r) = r
  BY LimitsPositive DEF Minute, Part

LEMMA NextTick ==
  ASSUME NEW t \in Times, NEW u, u = (t + 1) % (MINUTES * PARTS)
  PROVE  /\ u \in Times
         /\ \/ /\ Part(t) < PARTS - 1
               /\ Minute(u) = Minute(t) /\ Part(u) = Part(t) + 1
            \/ /\ Part(t) = PARTS - 1 /\ Part(u) = 0
               /\ Minute(u) = IF Minute(t) = MINUTES - 1 THEN 0 ELSE Minute(t) + 1
  <1> DEFINE q == Minute(t)
             r == Part(t)
             W == MINUTES * PARTS
  <1>1. q \in 0..(MINUTES - 1) /\ r \in 0..(PARTS - 1) /\ t = PARTS * q + r
    BY MinuteAndPart
  <1>2. W \in Nat /\ W > 0 /\ t \in 0..(W-1)
    BY LimitsPositive DEF Times
  <1>3. u = IF t + 1 = W THEN 0 ELSE t + 1
    BY <1>2
  <1>4. CASE r < PARTS - 1
    <2>1. PARTS * q + PARTS <= W
      BY <1>1, LimitsPositive
    <2>2. t + 1 < W /\ t + 1 = PARTS * q + (r + 1) /\ r + 1 \in 0..(PARTS-1)
      BY <1>1, <1>4, <2>1, LimitsPositive
    <2>3. u = t + 1
      BY <1>2, <1>3, <2>2
    <2>4. Minute(u) = q /\ Part(u) = r + 1
      <3> HIDE DEF q, r
      <3>1. Minute(PARTS * q + (r + 1)) = q /\ Part(PARTS * q + (r + 1)) = r + 1
        BY <1>1, <2>2, UniqueMinute
      <3> QED
        BY <2>2, <2>3, <3>1
    <2> QED
      BY <1>2, <1>3, <1>4, <2>2, <2>4 DEF Times
  <1>5. CASE r = PARTS - 1 /\ q < MINUTES - 1
    <2> HIDE DEF q, r
    <2>1. q \in Nat /\ q + 1 \in Nat /\ 0 \in 0..(PARTS-1)
      BY <1>1, LimitsPositive
    <2>2. PARTS * (q + 1) = PARTS * q + PARTS /\ PARTS * q \in Nat
      BY <2>1, LimitsPositive
    <2>3. t + 1 = PARTS * (q + 1) + 0
      BY <1>1, <1>5, <2>2, LimitsPositive
    <2>4. u = t + 1 /\ t + 1 < W
      <3>1. PARTS * (q + 1) < W
        BY <1>5, <2>1, LimitsPositive
      <3> QED
        BY <1>2, <1>3, <2>2, <2>3, <3>1, LimitsPositive
    <2>5. Minute(PARTS * (q + 1) + 0) = q + 1 /\ Part(PARTS * (q + 1) + 0) = 0
      BY <2>1, UniqueMinute
    <2>6. Minute(u) = q + 1 /\ Part(u) = 0
      BY <2>3, <2>4, <2>5
    <2> QED
      BY <1>1, <1>2, <1>5, <2>4, <2>6, LimitsPositive DEF Times, q, r
  <1>6. CASE r = PARTS - 1 /\ q = MINUTES - 1
    <2>1. t + 1 = W
      BY <1>1, <1>6, LimitsPositive
    <2>2. u = PARTS * 0 + 0 /\ 0 \in 0..(PARTS-1)
      BY <1>3, <2>1, LimitsPositive
    <2>3. Minute(u) = 0 /\ Part(u) = 0
      BY <2>2, UniqueMinute
    <2> QED
      BY <1>2, <1>3, <1>6, <2>1, <2>3 DEF Times
  <1> QED
    BY <1>1, <1>4, <1>5, <1>6, LimitsPositive

-----------------------------------------------------------------------------
(* The types by what they are about.                                       *)
TimeOK == now \in Times /\ since_check \in 0..PARTS
ConfigOK ==
  /\ chatgpt_config \in Config
  /\ chatgpt_settings = <<>> \/ Head(chatgpt_settings) \in Config
PlaceOK ==
  /\ pc \in {"loop", "check", "query", "pause"} /\ at \in 0..Len(chatgpt_config.prompts)
  /\ at = 0 <=> pc = "loop"
RunsOK == runs \in Seq(Run) /\ Len(runs) = Len(chatgpt_config.prompts)
FlagsOK ==
  /\ ready \in BOOLEAN /\ fallen \in BOOLEAN
  /\ late \in BOOLEAN /\ shifted \in BOOLEAN /\ skipped \in BOOLEAN
Typed == TimeOK /\ ConfigOK /\ PlaceOK /\ RunsOK /\ FlagsOK

(* Between its attempts a run with a retry pending has put no page into    *)
(* the queue and has asked no more often than its retries tell.            *)
Quiet(run) ==
  /\ run.attempts <= MAX_ATTEMPTS /\ run.pages <= 1
  /\ run.retry_count > 0 => run.pages = 0 /\ run.attempts <= run.retry_count
Asking(run) == run.pages = 0 /\ run.attempts <= run.retry_count + 1
AttemptsInv ==
  \A i \in 1..Len(runs) : IF pc = "query" /\ i = at THEN Asking(runs[i]) ELSE Quiet(runs[i])

(* While nothing shifts time, no prompt has run since the minute began     *)
(* unless loop's last check came later, and a check is no older than the   *)
(* minute.                                                                 *)
TurnsInv == ~shifted =>
  /\ pc # "loop" => since_check <= Part(now)
  /\ \A i \in 1..Len(runs) :
       /\ runs[i].ran <= 1
       /\ pc = "loop" /\ since_check > Part(now) => runs[i].ran = 0
       /\ pc # "loop" /\ i > at => runs[i].ran = 0
       /\ pc = "check" /\ i = at => runs[i].ran = 0

(* Minutes since the minute of a prompt; whether this minute's check has   *)
(* been at it.                                                             *)
Since(i) ==
  LET slot == chatgpt_config.prompts[i].slot
  IN IF Minute(now) >= slot THEN Minute(now) - slot ELSE Minute(now) - slot + MINUTES
Passed(i) == IF pc = "loop" THEN since_check <= Part(now)
             ELSE i < at \/ (pc = "pause" /\ i = at)
InForce(i) == chatgpt_config.enabled /\ chatgpt_config.prompts[i].enabled

(* A pending retry is as old as it is high, two minutes for each attempt:  *)
(* tried this minute; or waiting, at the latest until the next minute; or  *)
(* to be tried in this one.                                                *)
TriedNow(i) ==
  /\ Passed(i) /\ Since(i) <= 2 * runs[i].retry_count - 2
  /\ runs[i].next_retry_time + Part(now) < 2 * PARTS
Waits(i) ==
  /\ Since(i) > 0 /\ Since(i) <= 2 * runs[i].retry_count - 1
  /\ runs[i].next_retry_time = 0 \/ runs[i].next_retry_time + Part(now) < PARTS
TriedNext(i) ==
  /\ ~Passed(i) /\ Since(i) > 0 /\ Since(i) <= 2 * runs[i].retry_count
  /\ runs[i].next_retry_time = 0
Pending(i) == InForce(i) /\ Askable(i) /\ (TriedNow(i) \/ Waits(i) \/ TriedNext(i))
RetriesInv == ~late /\ ~shifted =>
  \A i \in 1..Len(runs) : runs[i].retry_count > 0 => Pending(i)

(* A prompt whose minute it is has been served once the check was there.   *)
ServedInv == ~late /\ ~shifted =>
  \A i \in 1..Len(runs) :
    /\ InForce(i) /\ Since(i) = 0 /\ Passed(i) => runs[i].ran > 0 \/ runs[i].retry_count > 0
    /\ pc = "query" /\ i = at =>
         /\ InForce(i) /\ Askable(i)
         /\ runs[i].retry_count = 0 => runs[i].ran > 0 /\ Since(i) = 0

IInv == Typed /\ AttemptsInv /\ TurnsInv /\ RetriesInv /\ ServedInv /\ MinutesServed

-----------------------------------------------------------------------------
(* Sequences with a bound on their length.                                 *)
LEMMA BoundedSeqs ==
  ASSUME NEW S, NEW n \in Nat, NEW s
  PROVE  s \in BoundedSeq(S, n) <=> s \in Seq(S) /\ Len(s) <= n
  <1>1. ASSUME s \in BoundedSeq(S, n) PROVE s \in Seq(S) /\ Len(s) <= n
    <2>1. PICK m \in 0..n : s \in [1..m -> S]
      BY <1>1 DEF BoundedSeq, SeqOf
    <2>2. s \in Seq(S)
      BY <2>1, SeqDef
    <2>3. Len(s) = m
      BY <2>1, <2>2, LenProperties
    <2> QED
      BY <2>2, <2>3
  <1>2. ASSUME s \in Seq(S), Len(s) <= n PROVE s \in BoundedSeq(S, n)
    <2>1. s \in [1..Len(s) -> S] /\ Len(s) \in 0..n
      BY <1>2, LenProperties
    <2> QED
      BY <2>1 DEF BoundedSeq, SeqOf
  <1> QED
    BY <1>1, <1>2

LEMMA ElementRemoved ==
  ASSUME NEW S, NEW s \in Seq(S), NEW i \in 1..Len(s)
  PROVE  /\ RemoveAt(s, i) \in Seq(S) /\ Len(RemoveAt(s, i)) = Len(s) - 1
         /\ \A j \in 1..Len(s)-1 : \E k \in 1..Len(s) : RemoveAt(s, i)[j] = s[k]
  <1> DEFINE a == SubSeq(s, 1, i-1)
             b == SubSeq(s, i+1, Len(s))
  <1>1. Len(s) \in Nat
    BY LenProperties
  <1>2. a \in Seq(S) /\ Len(a) = i - 1 /\ \A j \in 1..i-1 : a[j] = s[j]
    BY <1>1, SubSeqProperties
  <1>3. /\ b \in Seq(S) /\ Len(b) = Len(s) - i
        /\ \A j \in 1..Len(s)-i : b[j] = s[i+j]
    BY <1>1, SubSeqProperties
  <1> HIDE DEF a, b
  <1>4. /\ a \o b \in Seq(S) /\ Len(a \o b) = Len(s) - 1
        /\ \A j \in 1..Len(s)-1 : (a \o b)[j] = IF j <= i-1 THEN a[j] ELSE b[j - (i-1)]
    <2>1. /\ a \o b \in Seq(S) /\ Len(a \o b) = Len(a) + Len(b)
          /\ \A j \in 1..Len(a)+Len(b) : (a \o b)[j] = IF j <= Len(a) THEN a[j] ELSE b[j - Len(a)]
      BY <1>2, <1>3, ConcatProperties
    <2>2. Len(a) + Len(b) = Len(s) - 1
      BY <1>1, <1>2, <1>3
    <2> QED
      BY <1>2, <2>1, <2>2
  <1>5. ASSUME NEW j \in 1..Len(s)-1
        PROVE  \E k \in 1..Len(s) : (a \o b)[j] = s[k]
    <2>1. CASE j <= i-1
      BY <1>1, <1>2, <1>4, <2>1
    <2>2. CASE ~(j <= i-1)
      <3>1. j - (i-1) \in 1..Len(s)-i /\ j + 1 \in 1..Len(s)
        BY <1>1, <2>2
      <3>2. b[j - (i-1)] = s[j+1]
        BY <1>1, <1>3, <3>1
      <3> QED
        BY <1>1, <1>4, <2>2, <3>1, <3>2
    <2> QED
      BY <2>1, <2>2
  <1> QED
    BY <1>4, <1>5 DEF RemoveAt, a, b

LEMMA Configurations ==
  ASSUME NEW c \in Config
  PROVE  /\ c.prompts \in Seq(Prompt) /\ Len(c.prompts) \in 0..MAX_CHATGPT_PROMPTS
         /\ DOMAIN c.prompts = 1..Len(c.prompts)
         /\ \A i \in 1..Len(c.prompts) : c.prompts[i] \in Prompt
         /\ \A s \in Seq(Prompt) : Len(s) <= MAX_CHATGPT_PROMPTS
              => [c EXCEPT !.prompts = s] \in Config /\ [c EXCEPT !.prompts = s].prompts = s
  <1>1. c.prompts \in Seq(Prompt) /\ Len(c.prompts) <= MAX_CHATGPT_PROMPTS
    BY BoundedSeqs, LimitsPositive DEF Config
  <1>2. \A s \in Seq(Prompt) : Len(s) <= MAX_CHATGPT_PROMPTS
           => s \in BoundedSeq(Prompt, MAX_CHATGPT_PROMPTS)
    BY BoundedSeqs, LimitsPositive
  <1>3. \A s \in BoundedSeq(Prompt, MAX_CHATGPT_PROMPTS) :
           [c EXCEPT !.prompts = s] \in Config /\ [c EXCEPT !.prompts = s].prompts = s
    BY DEF Config
  <1> QED
    BY <1>1, <1>2, <1>3, LenProperties, ElementOfSeq

LEMMA DefaultTyped == Default \in Config
  <1>1. <<>> \in Seq(Prompt) /\ Len(<<>>) <= MAX_CHATGPT_PROMPTS
    BY EmptySeq, LimitsPositive
  <1>2. <<>> \in BoundedSeq(Prompt, MAX_CHATGPT_PROMPTS)
    BY <1>1, BoundedSeqs, LimitsPositive
  <1> QED
    BY <1>2 DEF Default, Config

-----------------------------------------------------------------------------
(* What the operators on a run do to it.                                   *)
LEMMA FreshRun == NoRun \in Run /\ Quiet(NoRun)
  BY LimitsPositive DEF NoRun, Run, Quiet

LEMMA FreshRuns ==
  ASSUME NEW n \in Nat, NEW rs, rs = [i \in 1..n |-> NoRun]
  PROVE  rs \in Seq(Run) /\ Len(rs) = n /\ \A i \in 1..n : rs[i] = NoRun
  <1>1. rs \in [1..n -> Run]
    BY FreshRun
  <1>2. rs \in Seq(Run)
    BY <1>1, SeqDef
  <1> QED
    BY <1>1, <1>2, LenProperties

RunOf(k, t, r, a, p) ==
  [retry_count |-> k, next_retry_time |-> t, ran |-> r, attempts |-> a, pages |-> p]

LEMMA RunFields ==
  ASSUME NEW run \in Run
  PROVE  \E k \in 0..(MAX_ATTEMPTS - 1), t \in 0..PARTS, r \in 0..2, a \in Nat, p \in 0..2 :
           run = RunOf(k, t, r, a, p)
  <1>1. /\ run.retry_count \in 0..(MAX_ATTEMPTS - 1) /\ run.next_retry_time \in 0..PARTS
        /\ run.ran \in 0..2 /\ run.attempts \in Nat /\ run.pages \in 0..2
        /\ run = RunOf(run.retry_count, run.next_retry_time, run.ran, run.attempts, run.pages)
    BY Zenon DEF Run, RunOf
  <1> QED
    BY <1>1, Zenon

LEMMA RunTyped ==
  ASSUME NEW k \in 0..(MAX_ATTEMPTS - 1), NEW t \in 0..PARTS, NEW r \in 0..2,
         NEW a \in Nat, NEW p \in 0..2
  PROVE  RunOf(k, t, r, a, p) \in Run
  BY DEF Run, RunOf

LEMMA RunBegins ==
  ASSUME NEW run \in Run, Quiet(run)
  PROVE  /\ Begun(run) \in Run /\ Quiet(Begun(run))
         /\ Begun(run).retry_count = run.retry_count
         /\ Begun(run).next_retry_time = run.next_retry_time
         /\ run.retry_count = 0 => Begun(run).ran > 0 /\ Begun(run).ran <= run.ran + 1
         /\ run.retry_count > 0 => Begun(run).ran = run.ran
         /\ Begun(run).pages = 0 /\ Begun(run).attempts <= run.retry_count
  <1>1. PICK k \in 0..(MAX_ATTEMPTS - 1), t \in 0..PARTS, r \in 0..2, a \in Nat, p \in 0..2 :
          run = RunOf(k, t, r, a, p)
    BY RunFields
  <1>2. CASE k = 0
    <2> DEFINE q == IF r < 2 THEN r + 1 ELSE 2
    <2>1. q \in 0..2 /\ q > 0 /\ q <= r + 1 /\ 0 \in Nat /\ 0 \in 0..2
      OBVIOUS
    <2>2. Begun(run) = RunOf(k, t, q, 0, 0)
      BY <1>1, <1>2 DEF Begun, RunOf
    <2> HIDE DEF q
    <2>3. RunOf(k, t, q, 0, 0) \in Run
      BY <2>1, RunTyped
    <2> QED
      BY <1>1, <1>2, <2>1, <2>2, <2>3, LimitsPositive DEF Quiet, RunOf
  <1>3. CASE k > 0
    <2>1. Begun(run) = run /\ run.retry_count = k
      BY <1>1, <1>3 DEF Begun, RunOf
    <2> QED
      BY <1>3, <2>1 DEF Quiet
  <1> QED
    BY <1>2, <1>3

(* A query ends: the run is over, or one more attempt is to come.          *)
Over(run, new) ==
  /\ new \in Run /\ new.retry_count = 0 /\ new.next_retry_time = 0
  /\ new.ran = run.ran /\ new.attempts = run.attempts /\ new.pages <= 1
Again(run, new) ==
  /\ new \in Run /\ new.retry_count = run.retry_count + 1 /\ new.next_retry_time = PARTS
  /\ new.ran = run.ran /\ new.attempts = run.attempts /\ new.pages = run.pages

LEMMA EndedOf ==
  ASSUME NEW k, NEW t, NEW r, NEW a, NEW p
  PROVE  Ended(RunOf(k, t, r, a, p)) = RunOf(0, 0, r, a, p)
  <1>1. [RunOf(k, t, r, a, p) EXCEPT !.retry_count = 0] = RunOf(0, t, r, a, p)
    BY DEF RunOf
  <1>2. [RunOf(0, t, r, a, p) EXCEPT !.next_retry_time = 0] = RunOf(0, 0, r, a, p)
    BY DEF RunOf
  <1>3. Ended(RunOf(k, t, r, a, p))
          = [[RunOf(k, t, r, a, p) EXCEPT !.retry_count = 0] EXCEPT !.next_retry_time = 0]
    BY DEF Ended
  <1> QED
    BY <1>1, <1>2, <1>3

LEMMA RunOver ==
  ASSUME NEW run \in Run, Asking(run), NEW room \in BOOLEAN
  PROVE  Over(run, Answered(run)) /\ Over(run, Noticed(run, room))
  <1>1. PICK k \in 0..(MAX_ATTEMPTS - 1), t \in 0..PARTS, r \in 0..2, a \in Nat, p \in 0..2 :
          run = RunOf(k, t, r, a, p)
    BY RunFields
  <1>2. Ended(run) = RunOf(0, 0, r, a, 0) /\ Ended(Paged(run)) = RunOf(0, 0, r, a, 1)
    <2>1. p = 0
      BY <1>1 DEF Asking, RunOf
    <2>2. Paged(run) = RunOf(k, t, r, a, 1)
      BY <1>1, <2>1 DEF Paged, RunOf
    <2>3. Ended(run) = RunOf(0, 0, r, a, p)
      BY <1>1, EndedOf
    <2>4. Ended(Paged(run)) = RunOf(0, 0, r, a, 1)
      BY <2>2, EndedOf
    <2> QED
      BY <2>1, <2>3, <2>4
  <1>3. RunOf(0, 0, r, a, 0) \in Run /\ RunOf(0, 0, r, a, 1) \in Run
    <2>1. 0 \in 0..(MAX_ATTEMPTS - 1) /\ 0 \in 0..PARTS /\ 0 \in 0..2 /\ 1 \in 0..2
      BY LimitsPositive
    <2> QED
      BY <2>1, RunTyped
  <1>4. Over(run, Ended(run)) /\ Over(run, Ended(Paged(run)))
    BY <1>1, <1>2, <1>3 DEF Over, RunOf
  <1>5. Noticed(run, room) \in {Ended(run), Ended(Paged(run))}
    BY Zenon DEF Noticed
  <1> QED
    BY <1>4, <1>5 DEF Answered

LEMMA RunAgain ==
  ASSUME NEW run \in Run, Asking(run), NEW room \in BOOLEAN
  PROVE  Over(run, AttemptLost(run, room)) \/ Again(run, AttemptLost(run, room))
  <1>1. CASE run.retry_count + 1 >= MAX_ATTEMPTS
    BY <1>1, RunOver DEF AttemptLost
  <1>2. CASE ~(run.retry_count + 1 >= MAX_ATTEMPTS)
    <2>1. run.retry_count + 1 \in 0..MAX_ATTEMPTS-1 /\ PARTS \in 0..PARTS
      BY <1>2, LimitsPositive DEF Run
    <2> QED
      BY <1>2, <2>1 DEF AttemptLost, Again, Run
  <1> QED
    BY <1>1, <1>2

QueryEnds(new) ==
  /\ pc = "query" /\ Pause /\ runs' = [runs EXCEPT ![at] = new]
  /\ Over(runs[at], new) \/ Again(runs[at], new)
  /\ UNCHANGED <<timeVars, fallen>> /\ KeepWorld

LEMMA QueriesEnd ==
  ASSUME Typed, AttemptsInv, NEW room \in BOOLEAN, NEW later \in BOOLEAN,
         Unavailable(room) \/ QueryFails(room) \/ QueryAnswers(room, later)
  PROVE  \E new : QueryEnds(new)
  <1>1. pc = "query"
    BY DEF Unavailable, QueryFails, QueryAnswers
  <1>2. at \in 1..Len(runs)
    BY <1>1, LenProperties DEF Typed, PlaceOK, RunsOK
  <1>3. runs[at] \in Run /\ Asking(runs[at])
    BY <1>1, <1>2, ElementOfSeq DEF Typed, RunsOK, AttemptsInv
  <1>4. CASE Unavailable(room)
    BY <1>3, <1>4, RunOver DEF Unavailable, QueryEnds
  <1>5. CASE QueryFails(room)
    BY <1>3, <1>5, RunAgain DEF QueryFails, QueryEnds
  <1>6. CASE QueryAnswers(room, later)
    BY <1>3, <1>6, RunOver, RunAgain DEF QueryAnswers, QueryEnds
  <1> QED
    BY <1>4, <1>5, <1>6

-----------------------------------------------------------------------------
(* What a request makes of the prompts is a configuration like any other,  *)
(* with a run for each of its prompts.                                     *)
RunsFor(config, rs) ==
  /\ rs \in Seq(Run) /\ Len(rs) = Len(config.prompts)
  /\ \A i \in 1..Len(rs) : Quiet(rs[i])
Requested(config, refused, moved) ==
  /\ Request(config, refused, moved)
  /\ config \in Config /\ RunsFor(config, moved)
  /\ (refused \in Config /\ RunsFor(refused, runs)) \/ refused = config

LEMMA RunsInLoop ==
  ASSUME Typed, AttemptsInv, pc = "loop"
  PROVE  RunsFor(chatgpt_config, runs)
  <1>1. \A i \in 1..Len(runs) : i # at
    BY DEF Typed, PlaceOK
  <1> QED
    BY <1>1 DEF RunsFor, Typed, RunsOK, AttemptsInv

LEMMA WebRequests ==
  ASSUME Typed, AttemptsInv, Web
  PROVE  \E config, refused, moved : Requested(config, refused, moved)
  <1> DEFINE prompts == chatgpt_config.prompts
             n == Len(prompts)
  <1>0. pc = "loop"
    BY DEF Web, SetEnabled, SetNotifications, SetApiKey, SetDefaultModel, AddPrompt,
           TogglePrompt, DeletePrompt, EditPrompt, Request
  <1>1. chatgpt_config \in Config /\ RunsFor(chatgpt_config, runs)
    BY <1>0, RunsInLoop DEF Typed, ConfigOK
  <1>2. /\ prompts \in Seq(Prompt) /\ n \in 0..MAX_CHATGPT_PROMPTS /\ DOMAIN prompts = 1..n
        /\ \A i \in 1..n : prompts[i] \in Prompt
        /\ \A s \in Seq(Prompt) : Len(s) <= MAX_CHATGPT_PROMPTS
             => With(s) \in Config /\ With(s).prompts = s
    BY <1>1, Configurations DEF With
  <1>3. ASSUME NEW on \in BOOLEAN, SetEnabled(on) \/ SetNotifications(on)
        PROVE  \E config : Requested(config, config, runs)
    <2>1. /\ [chatgpt_config EXCEPT !.enabled = on] \in Config
          /\ [chatgpt_config EXCEPT !.enabled = on].prompts = prompts
          /\ [chatgpt_config EXCEPT !.notify_failures = on] \in Config
          /\ [chatgpt_config EXCEPT !.notify_failures = on].prompts = prompts
      BY <1>1 DEF Config
    <2> QED
      BY <1>1, <1>3, <2>1 DEF SetEnabled, SetNotifications, Requested, RunsFor
  <1>4. CASE SetApiKey \/ SetDefaultModel
    <2>1. /\ [chatgpt_config EXCEPT !.api_key = TRUE] \in Config
          /\ [chatgpt_config EXCEPT !.api_key = TRUE].prompts = prompts
          /\ [chatgpt_config EXCEPT !.default_model = TRUE] \in Config
          /\ [chatgpt_config EXCEPT !.default_model = TRUE].prompts = prompts
      BY <1>1 DEF Config
    <2> QED
      BY <1>1, <1>4, <2>1 DEF SetApiKey, SetDefaultModel, Requested, RunsFor
  <1>5. ASSUME NEW prompt \in Forms, AddPrompt(prompt)
        PROVE  \E config : Requested(config, chatgpt_config, Append(runs, NoRun))
    <2> DEFINE new == Append(prompts, [prompt EXCEPT !.enabled = TRUE])
    <2>1. [prompt EXCEPT !.enabled = TRUE] \in Prompt
      BY PromptAssumption DEF Prompt
    <2>2. n < MAX_CHATGPT_PROMPTS /\ new \in Seq(Prompt) /\ Len(new) = n + 1
      BY <1>2, <1>5, <2>1, AppendProperties DEF AddPrompt
    <2>3. With(new) \in Config /\ With(new).prompts = new
      <3>1. n + 1 <= MAX_CHATGPT_PROMPTS
        BY <1>2, <2>2, LimitsPositive
      <3> HIDE DEF n, new
      <3> QED
        BY <1>2, <2>2, <3>1
    <2>4. /\ Append(runs, NoRun) \in Seq(Run) /\ Len(Append(runs, NoRun)) = Len(runs) + 1
          /\ \A i \in 1..Len(runs) : Append(runs, NoRun)[i] = runs[i]
          /\ Append(runs, NoRun)[Len(runs)+1] = NoRun
      BY <1>1, FreshRun, AppendProperties DEF RunsFor
    <2>5. RunsFor(With(new), Append(runs, NoRun))
      <3>1. Len(runs) = n /\ n \in Nat
        BY <1>1, <1>2, LimitsPositive DEF RunsFor
      <3>2. \A i \in 1..n+1 : i \in 1..n \/ i = n+1
        BY <3>1
      <3> QED
        BY <1>1, <2>2, <2>3, <2>4, <3>1, <3>2, FreshRun DEF RunsFor
    <2> QED
      BY <1>1, <1>5, <2>3, <2>5 DEF AddPrompt, Requested
  <1>6. ASSUME NEW i \in 1..n, NEW prompt \in Prompt, EditPrompt(i, prompt)
        PROVE  \E config : Requested(config, config, runs)
    <2>1. [prompts EXCEPT ![i] = prompt] \in Seq(Prompt) /\ Len([prompts EXCEPT ![i] = prompt]) = n
      BY <1>2, ExceptSeq
    <2>2. /\ With([prompts EXCEPT ![i] = prompt]) \in Config
          /\ With([prompts EXCEPT ![i] = prompt]).prompts = [prompts EXCEPT ![i] = prompt]
      BY <1>2, <2>1, LimitsPositive
    <2> QED
      BY <1>1, <1>6, <2>1, <2>2 DEF EditPrompt, Requested, RunsFor
  <1>7. ASSUME NEW i \in 1..n, TogglePrompt(i)
        PROVE  \E config : Requested(config, config, runs)
    <2>1. [prompts[i] EXCEPT !.enabled = ~@] \in Prompt
      BY <1>2 DEF Prompt
    <2> QED
      BY <1>6, <1>7, <2>1 DEF TogglePrompt
  <1>8. ASSUME NEW i \in 1..n, DeletePrompt(i)
        PROVE  \E config, moved : Requested(config, config, moved)
    <2>1. RemoveAt(prompts, i) \in Seq(Prompt) /\ Len(RemoveAt(prompts, i)) = n - 1
      BY <1>2, ElementRemoved
    <2>2. With(RemoveAt(prompts, i)) \in Config /\ With(RemoveAt(prompts, i)).prompts = RemoveAt(prompts, i)
      BY <1>2, <2>1, LimitsPositive
    <2>3. runs \in Seq(Run) /\ Len(runs) = n /\ \A j \in 1..n : Quiet(runs[j])
      BY <1>1 DEF RunsFor
    <2>4. /\ RemoveAt(runs, i) \in Seq(Run) /\ Len(RemoveAt(runs, i)) = n - 1
          /\ \A j \in 1..n-1 : \E k \in 1..n : RemoveAt(runs, i)[j] = runs[k]
      BY <2>3, ElementRemoved
    <2>5. RunsFor(With(RemoveAt(prompts, i)), RemoveAt(runs, i))
      BY <2>1, <2>2, <2>3, <2>4 DEF RunsFor
    <2> QED
      BY <1>8, <2>2, <2>5 DEF DeletePrompt, Requested
  <1>9. Forms \subseteq Prompt
    BY PromptAssumption
  <1> QED
    BY <1>2, <1>3, <1>4, <1>5, <1>6, <1>7, <1>8, <1>9 DEF Web, Prompts, SetApiKey, SetDefaultModel

(* Every step is one of these.                                             *)
LEMMA StepKinds ==
  ASSUME Typed, AttemptsInv, [Next]_vars
  PROVE  \/ UNCHANGED vars \/ Tick \/ ReadyChanges
         \/ \E t \in Times : ClockSet(t)
         \/ CheckStarts \/ NotYet \/ Execute \/ PauseEnds \/ FallsBack
         \/ \E new : QueryEnds(new)
         \/ \E config, refused, moved : Requested(config, refused, moved)
         \/ \E file \in {chatgpt_settings, <<>>} : Reset(file)
  <1>1. CASE Web
    BY <1>1, WebRequests
  <1>2. CASE \/ \E room \in BOOLEAN : Unavailable(room) \/ QueryFails(room)
             \/ \E room, later \in BOOLEAN : QueryAnswers(room, later)
    BY <1>2, QueriesEnd
  <1> QED
    BY <1>1, <1>2 DEF Next, Times

-----------------------------------------------------------------------------
(* What the steps do to the runs.                                          *)
LEMMA RunReplaced ==
  ASSUME Typed, pc # "loop", NEW new \in Run, runs' = [runs EXCEPT ![at] = new]
  PROVE  /\ at \in 1..Len(runs) /\ runs[at] \in Run
         /\ runs' \in Seq(Run) /\ Len(runs') = Len(runs)
         /\ runs'[at] = new /\ \A i \in 1..Len(runs) : i # at => runs'[i] = runs[i]
  <1>1. at \in 1..Len(runs) /\ runs \in Seq(Run)
    BY LenProperties DEF Typed, PlaceOK, RunsOK
  <1> QED
    BY <1>1, ExceptSeq, ElementOfSeq

Ticked(run, new, ends) ==
  /\ new \in Run /\ new.retry_count = run.retry_count
  /\ new.next_retry_time = (IF run.next_retry_time > 0 THEN run.next_retry_time - 1 ELSE 0)
  /\ new.ran = (IF ends THEN 0 ELSE run.ran)
  /\ new.attempts = run.attempts /\ new.pages = run.pages

LEMMA RunTicks ==
  ASSUME NEW run \in Run, NEW ends \in BOOLEAN
  PROVE  Ticked(run, [run EXCEPT !.next_retry_time = IF @ > 0 THEN @ - 1 ELSE 0,
                                 !.ran = IF ends THEN 0 ELSE @], ends)
  <1>1. PICK k \in 0..(MAX_ATTEMPTS - 1), t \in 0..PARTS, r \in 0..2, a \in Nat, p \in 0..2 :
          run = RunOf(k, t, r, a, p)
    BY RunFields
  <1> DEFINE u == IF t > 0 THEN t - 1 ELSE 0
             q == IF ends THEN 0 ELSE r
  <1>2. u \in 0..PARTS /\ q \in 0..2
    BY LimitsPositive
  <1>3. [run EXCEPT !.next_retry_time = IF @ > 0 THEN @ - 1 ELSE 0, !.ran = IF ends THEN 0 ELSE @]
          = [[RunOf(k, t, r, a, p) EXCEPT !.next_retry_time = u] EXCEPT !.ran = q]
    BY <1>1 DEF RunOf
  <1> HIDE DEF u, q
  <1>4. [RunOf(k, t, r, a, p) EXCEPT !.next_retry_time = u] = RunOf(k, u, r, a, p)
    BY DEF RunOf
  <1>5. [RunOf(k, u, r, a, p) EXCEPT !.ran = q] = RunOf(k, u, q, a, p)
    BY DEF RunOf
  <1>6. RunOf(k, u, q, a, p) \in Run
    BY <1>2, RunTyped
  <1> QED
    BY <1>1, <1>3, <1>4, <1>5, <1>6 DEF Ticked, RunOf, u, q

Ends == Minute(now') # Minute(now)

LEMMA TickSteps ==
  ASSUME Typed, Tick
  PROVE  /\ pc # "check" /\ now' = (now + 1) % (MINUTES * PARTS)
         /\ since_check' = IF since_check < PARTS THEN since_check + 1 ELSE PARTS
         /\ runs' \in Seq(Run) /\ Len(runs') = Len(runs)
         /\ \A i \in 1..Len(runs) : runs[i] \in Run /\ Ticked(runs[i], runs'[i], Ends)
         /\ UNCHANGED <<ready, pc, at, fallen, chatgpt_config, chatgpt_settings>>
  <1>1. runs \in Seq(Run) /\ DOMAIN runs = 1..Len(runs) /\ Len(runs) \in Nat
        /\ \A i \in 1..Len(runs) : runs[i] \in Run
    BY LenProperties, ElementOfSeq DEF Typed, RunsOK
  <1> DEFINE new(i) == [runs[i] EXCEPT !.next_retry_time = IF @ > 0 THEN @ - 1 ELSE 0,
                                       !.ran = IF Ends THEN 0 ELSE @]
  <1>2. runs' = [i \in 1..Len(runs) |-> new(i)]
    BY <1>1 DEF Tick, Ends
  <1>3. \A i \in 1..Len(runs) : Ticked(runs[i], new(i), Ends)
    BY <1>1, RunTicks DEF Ends
  <1> HIDE DEF new
  <1>4. runs' \in [1..Len(runs) -> Run]
    BY <1>2, <1>3 DEF Ticked
  <1>5. runs' \in Seq(Run)
    BY <1>1, <1>4, SeqDef
  <1>6. Len(runs') = Len(runs)
    BY <1>1, <1>4, <1>5, LenProperties
  <1> QED
    BY <1>1, <1>2, <1>3, <1>5, <1>6 DEF Tick

LEMMA TickHistory ==
  ASSUME Typed, Tick, ~late', ~shifted'
  PROVE  /\ ~late /\ ~shifted /\ (pc # "loop" => ~Ends)
         /\ pc = "loop" => since_check < PARTS
  <1>1. late' = (late \/ ~ready \/ (pc = "loop" /\ CheckDue))
        /\ shifted' = (shifted \/ (pc # "loop" /\ Ends))
    BY Zenon DEF Tick, Ends
  <1>2. ~late /\ ~shifted /\ (pc # "loop" => ~Ends) /\ ready /\ (pc = "loop" => ~CheckDue)
    BY <1>1, Zenon
  <1>3. pc = "loop" => since_check # PARTS
    BY <1>2, Zenon DEF CheckDue
  <1>4. since_check \in 0..PARTS /\ PARTS \in Nat
    BY LimitsPositive DEF Typed, TimeOK
  <1> QED
    BY <1>2, <1>3, <1>4

Executed(run, new) ==
  /\ new \in Run /\ new.retry_count = run.retry_count
  /\ new.next_retry_time = run.next_retry_time
  /\ run.retry_count = 0 => new.ran > 0 /\ new.ran <= run.ran + 1
  /\ run.retry_count > 0 => new.ran = run.ran
ExecuteStep(new) ==
  /\ pc = "check" /\ IsTime(at) /\ runs' = [runs EXCEPT ![at] = new]
  /\ Executed(runs[at], new)
  /\ \/ Askable(at) /\ pc' = "query" /\ at' = at /\ Asking(new)
     \/ ~Askable(at) /\ Pause /\ Quiet(new)
  /\ fallen' \in BOOLEAN /\ UNCHANGED timeVars /\ KeepWorld

LEMMA ExecuteSteps ==
  ASSUME Typed, AttemptsInv, Execute
  PROVE  \E new : ExecuteStep(new)
  <1>1. pc = "check" /\ at \in 1..Len(runs)
    BY LenProperties DEF Execute, Typed, PlaceOK, RunsOK
  <1> DEFINE run == runs[at]
  <1>2. run \in Run /\ Quiet(run)
    BY <1>1, ElementOfSeq DEF Typed, RunsOK, AttemptsInv
  <1> HIDE DEF run
  <1>3. /\ Begun(run) \in Run /\ Executed(run, Begun(run)) /\ Quiet(Begun(run))
        /\ Begun(run).pages = 0 /\ Begun(run).attempts <= run.retry_count
        /\ Begun(run).retry_count = run.retry_count
    BY <1>2, RunBegins DEF Executed
  <1> DEFINE new == [Begun(run) EXCEPT !.attempts = @ + 1]
  <1>4. /\ new \in Run /\ new.retry_count = Begun(run).retry_count /\ new.ran = Begun(run).ran
        /\ new.next_retry_time = Begun(run).next_retry_time
        /\ new.attempts = Begun(run).attempts + 1 /\ new.pages = Begun(run).pages
    BY <1>3 DEF Run
  <1>5. Executed(run, new)
    BY <1>3, <1>4 DEF Executed
  <1>6. Asking(new)
    <2>1. run.retry_count \in Nat /\ Begun(run).attempts \in Nat
      BY <1>2, <1>3 DEF Run
    <2> QED
      BY <1>3, <1>4, <2>1 DEF Asking
  <1>7. CASE Askable(at)
    <2>1. runs' = [runs EXCEPT ![at] = Asked(runs[at])]
      BY <1>7 DEF Execute
    <2>2. runs' = [runs EXCEPT ![at] = new]
      BY <2>1 DEF run, Asked
    <2> HIDE DEF new
    <2> QED
      BY <1>5, <1>6, <1>7, <2>2 DEF Execute, ExecuteStep, run
  <1>8. CASE ~Askable(at)
    <2>1. runs' = [runs EXCEPT ![at] = Begun(run)] /\ fallen' = fallen
      BY <1>8 DEF Execute, run
    <2> QED
      BY <1>3, <1>8, <2>1 DEF Execute, ExecuteStep, Typed, FlagsOK, run
  <1> QED
    BY <1>7, <1>8

LEMMA RequestSteps ==
  ASSUME Typed, NEW config, NEW refused, NEW moved, Requested(config, refused, moved)
  PROVE  /\ chatgpt_config' \in Config /\ RunsFor(chatgpt_config', runs')
         /\ chatgpt_settings' = <<>> \/ Head(chatgpt_settings') \in Config
         /\ pc = "loop" /\ shifted'
         /\ UNCHANGED <<now, since_check, ready, pc, at, fallen, late, skipped>>
  <1>1. PICK save \in SaveOutcomes(config) :
          /\ chatgpt_settings' = save.file
          /\ chatgpt_config' = IF save.answer THEN config ELSE refused
          /\ runs' = IF save.answer \/ refused = config THEN moved ELSE runs
    BY DEF Requested, Request
  <1>2. chatgpt_settings' = <<>> \/ Head(chatgpt_settings') \in Config
    BY <1>1 DEF SaveOutcomes, Requested, Typed, ConfigOK
  <1>3. save.answer = TRUE \/ save.answer = FALSE
    BY DEF SaveOutcomes
  <1>4. CASE save.answer
    BY <1>1, <1>2, <1>4 DEF Requested, Request
  <1>5. CASE ~save.answer
    <2>1. chatgpt_config' = refused /\ (refused = config => runs' = moved)
          /\ (refused # config => runs' = runs)
      BY <1>1, <1>5
    <2> QED
      BY <1>2, <2>1 DEF Requested, Request, RunsFor
  <1> QED
    BY <1>4, <1>5

LEMMA ResetSteps ==
  ASSUME Typed, NEW file \in {chatgpt_settings, <<>>}, Reset(file)
  PROVE  /\ chatgpt_config' \in Config /\ RunsFor(chatgpt_config', runs')
         /\ \A i \in 1..Len(runs') : runs'[i] = NoRun
         /\ chatgpt_settings' = <<>> \/ Head(chatgpt_settings') \in Config
         /\ pc' = "loop" /\ at' = 0 /\ fallen' = FALSE /\ since_check' = PARTS /\ now' \in Times
         /\ UNCHANGED <<ready, late, shifted, skipped>>
  <1>1. Loaded(file) \in Config
    BY DefaultTyped DEF Loaded, Typed, ConfigOK
  <1>2. DOMAIN Loaded(file).prompts = 1..Len(Loaded(file).prompts) /\ Len(Loaded(file).prompts) \in Nat
    BY <1>1, Configurations
  <1>3. runs' = [i \in 1..Len(Loaded(file).prompts) |-> NoRun]
    BY <1>2 DEF Reset
  <1>4. RunsFor(Loaded(file), runs') /\ \A i \in 1..Len(runs') : runs'[i] = NoRun
    BY <1>2, <1>3, FreshRuns, FreshRun DEF RunsFor
  <1> QED
    BY <1>1, <1>4 DEF Reset, Times, Typed, ConfigOK

-----------------------------------------------------------------------------
(* The parts of the inductive invariant, step by step.                     *)
LEMMA GoesOn ==
  ASSUME Typed, pc # "loop", GoOn
  PROVE  /\ at \in 1..Len(runs) /\ Len(runs) = Len(chatgpt_config.prompts) /\ Len(runs) \in Nat
         /\ \/ at < Len(runs) /\ pc' = "check" /\ at' = at + 1
            \/ at = Len(runs) /\ pc' = "loop" /\ at' = 0
  <1>1. runs \in Seq(Run) /\ Len(runs) = Len(chatgpt_config.prompts)
    BY DEF Typed, RunsOK
  <1>2. Len(runs) \in Nat
    BY <1>1, LenProperties
  <1>3. at \in 1..Len(runs)
    BY <1>1, <1>2 DEF Typed, PlaceOK
  <1> QED
    BY <1>1, <1>2, <1>3 DEF GoOn

LEMMA RunAtWork ==
  ASSUME Typed, pc # "loop"
  PROVE  at \in 1..Len(runs) /\ runs[at] \in Run
  BY LenProperties, ElementOfSeq DEF Typed, PlaceOK, RunsOK

LEMMA TypedStays ==
  ASSUME Typed, AttemptsInv, [Next]_vars
  PROVE  Typed'
  <1>1. CASE UNCHANGED vars
    BY <1>1 DEF Typed, TimeOK, ConfigOK, PlaceOK, RunsOK, FlagsOK, vars
  <1>2. CASE Tick
    <2>1. TimeOK'
      BY <1>2, TickSteps, NextTick, LimitsPositive DEF Typed, TimeOK
    <2>2. ConfigOK' /\ PlaceOK' /\ RunsOK'
      BY <1>2, TickSteps DEF Typed, ConfigOK, PlaceOK, RunsOK
    <2>3. /\ late' = (late \/ ~ready \/ (pc = "loop" /\ CheckDue))
          /\ shifted' = (shifted \/ (pc # "loop" /\ Minute((now + 1) % (MINUTES * PARTS)) # Minute(now)))
          /\ skipped' \in BOOLEAN /\ ready' = ready /\ fallen' = fallen
      BY <1>2, Zenon DEF Tick
    <2>4. late' \in BOOLEAN /\ shifted' \in BOOLEAN
      BY <2>3, Zenon
    <2>5. FlagsOK'
      BY <2>3, <2>4, Zenon DEF Typed, FlagsOK
    <2> QED
      BY <2>1, <2>2, <2>5 DEF Typed
  <1>3. CASE ReadyChanges
    BY <1>3, Zenon DEF ReadyChanges, Typed, TimeOK, ConfigOK, PlaceOK, RunsOK, FlagsOK
  <1>4. CASE \E t \in Times : ClockSet(t)
    <2>1. now' \in Times /\ shifted' \in BOOLEAN
      BY <1>4 DEF ClockSet
    <2>2. UNCHANGED <<since_check, ready, checkVars, configVars, runs, late, skipped>>
      BY <1>4 DEF ClockSet
    <2> QED
      BY <2>1, <2>2, Zenon DEF Typed, TimeOK, ConfigOK, PlaceOK, RunsOK, FlagsOK
  <1>5. CASE CheckStarts
    <2>1. UNCHANGED <<now, fallen, runs, ready, configVars, late, shifted, skipped>> /\ since_check' = 0
      BY <1>5 DEF CheckStarts
    <2>2. 0 \in 0..PARTS
      BY LimitsPositive
    <2>3. PlaceOK'
      <3>1. Len(runs) \in Nat /\ Len(runs) = Len(chatgpt_config.prompts) /\ pc = "loop" /\ at = 0
        BY <1>5, LenProperties DEF CheckStarts, Typed, RunsOK, PlaceOK
      <3>2. CASE UNCHANGED <<pc, at>>
        BY <2>1, <3>2 DEF PlaceOK, Typed
      <3>3. CASE Prompts # {} /\ pc' = "check" /\ at' = 1
        <4>1. Prompts = 1..Len(runs)
          BY <3>1, Configurations DEF Typed, ConfigOK, Prompts
        <4>2. 1 \in 0..Len(runs)
          BY <3>1, <3>3, <4>1
        <4> QED
          BY <2>1, <3>1, <3>3, <4>2 DEF PlaceOK
      <3> QED
        BY <1>5, <3>2, <3>3 DEF CheckStarts
    <2> QED
      BY <2>1, <2>2, <2>3, Zenon DEF Typed, TimeOK, ConfigOK, RunsOK, FlagsOK
  <1>6. CASE NotYet \/ PauseEnds
    <2>1. PlaceOK'
      BY <1>6, GoesOn DEF NotYet, PauseEnds, PlaceOK
    <2> QED
      BY <1>6, <2>1, Zenon DEF NotYet, PauseEnds, Typed, TimeOK, ConfigOK, RunsOK, FlagsOK
  <1>7. CASE Execute
    <2>1. PICK new : ExecuteStep(new)
      BY <1>7, ExecuteSteps
    <2>2. RunsOK'
      BY <2>1, RunReplaced DEF ExecuteStep, Executed, Typed, RunsOK
    <2>3. PlaceOK'
      <3>1. pc' \in {"query", "pause"} /\ at' = at /\ pc = "check"
        BY <2>1 DEF ExecuteStep, Pause
      <3> QED
        BY <2>1, <3>1 DEF ExecuteStep, PlaceOK, Typed
    <2> QED
      BY <2>1, <2>2, <2>3, Zenon DEF ExecuteStep, Typed, TimeOK, ConfigOK, FlagsOK
  <1>8. CASE FallsBack
    BY <1>8, Zenon DEF FallsBack, Typed, TimeOK, ConfigOK, PlaceOK, RunsOK, FlagsOK
  <1>9. CASE \E new : QueryEnds(new)
    <2>1. PICK new : QueryEnds(new)
      BY <1>9
    <2>2. RunsOK'
      BY <2>1, RunReplaced DEF QueryEnds, Over, Again, Typed, RunsOK
    <2>3. PlaceOK'
      BY <2>1 DEF QueryEnds, Pause, PlaceOK, Typed
    <2> QED
      BY <2>1, <2>2, <2>3, Zenon DEF QueryEnds, Typed, TimeOK, ConfigOK, FlagsOK
  <1>10. CASE \E config, refused, moved : Requested(config, refused, moved)
    <2>1. /\ chatgpt_config' \in Config /\ RunsFor(chatgpt_config', runs')
          /\ chatgpt_settings' = <<>> \/ Head(chatgpt_settings') \in Config
          /\ pc = "loop" /\ shifted'
          /\ UNCHANGED <<now, since_check, ready, pc, at, fallen, late, skipped>>
      BY <1>10, RequestSteps
    <2>2. shifted' = TRUE
      BY <1>10 DEF Requested, Request
    <2>3. PlaceOK'
      <3>1. Len(chatgpt_config'.prompts) \in Nat
        BY <2>1, LenProperties DEF RunsFor
      <3> QED
        BY <2>1, <3>1 DEF PlaceOK, Typed
    <2>4. FlagsOK'
      BY <2>1, <2>2, Zenon DEF Typed, FlagsOK
    <2> QED
      BY <2>1, <2>3, <2>4 DEF Typed, TimeOK, ConfigOK, RunsOK, RunsFor
  <1>11. CASE \E file \in {chatgpt_settings, <<>>} : Reset(file)
    <2>1. /\ chatgpt_config' \in Config /\ RunsFor(chatgpt_config', runs')
          /\ chatgpt_settings' = <<>> \/ Head(chatgpt_settings') \in Config
          /\ pc' = "loop" /\ at' = 0 /\ fallen' = FALSE /\ since_check' = PARTS /\ now' \in Times
          /\ UNCHANGED <<ready, late, shifted, skipped>>
      BY <1>11, ResetSteps
    <2>2. PlaceOK'
      <3>1. Len(chatgpt_config'.prompts) \in Nat
        BY <2>1, LenProperties DEF RunsFor
      <3> QED
        BY <2>1, <3>1 DEF PlaceOK
    <2>3. FlagsOK'
      BY <2>1, Zenon DEF Typed, FlagsOK
    <2>4. TimeOK'
      BY <2>1, LimitsPositive DEF TimeOK
    <2> QED
      BY <2>1, <2>2, <2>3, <2>4 DEF Typed, ConfigOK, RunsOK, RunsFor
  <1> QED
    BY StepKinds, <1>1, <1>2, <1>3, <1>4, <1>5, <1>6, <1>7, <1>8, <1>9, <1>10, <1>11

LEMMA AttemptsStay ==
  ASSUME Typed, AttemptsInv, [Next]_vars
  PROVE  AttemptsInv'
  <1>0. \A i \in 1..Len(runs) : runs[i] \in Run
    BY ElementOfSeq DEF Typed, RunsOK
  <1>1. CASE \/ UNCHANGED vars \/ ReadyChanges \/ FallsBack
             \/ \E t \in Times : ClockSet(t)
    BY <1>1 DEF ReadyChanges, FallsBack, ClockSet, AttemptsInv, vars
  <1>2. CASE Tick
    <2>1. ASSUME NEW i \in 1..Len(runs), Quiet(runs[i]) PROVE Quiet(runs'[i])
      BY <1>2, <2>1, TickSteps DEF Ticked, Quiet
    <2>2. ASSUME NEW i \in 1..Len(runs), Asking(runs[i]) PROVE Asking(runs'[i])
      BY <1>2, <2>2, TickSteps DEF Ticked, Asking
    <2> QED
      BY <1>2, <2>1, <2>2, TickSteps DEF AttemptsInv
  <1>3. CASE CheckStarts
    <2>1. runs' = runs /\ pc = "loop" /\ pc' # "query"
      BY <1>3 DEF CheckStarts
    <2> QED
      BY <2>1 DEF AttemptsInv
  <1>4. CASE NotYet \/ PauseEnds
    <2>1. runs' = runs /\ pc # "query" /\ pc' # "query"
      BY <1>4 DEF NotYet, PauseEnds, GoOn
    <2> QED
      BY <2>1 DEF AttemptsInv
  <1>5. CASE Execute
    <2>1. PICK new : ExecuteStep(new)
      BY <1>5, ExecuteSteps
    <2>2. /\ runs'[at] = new /\ Len(runs') = Len(runs)
          /\ \A i \in 1..Len(runs) : i # at => runs'[i] = runs[i]
      BY <2>1, RunReplaced DEF ExecuteStep, Executed
    <2>3. CASE pc' = "query" /\ at' = at /\ Asking(new)
      BY <2>1, <2>2, <2>3 DEF ExecuteStep, AttemptsInv
    <2>4. CASE Pause /\ Quiet(new)
      <3>1. pc' # "query"
        BY <2>4 DEF Pause
      <3> QED
        BY <2>1, <2>2, <2>4, <3>1 DEF ExecuteStep, AttemptsInv
    <2> QED
      BY <2>1, <2>3, <2>4 DEF ExecuteStep
  <1>6. CASE \E new : QueryEnds(new)
    <2>1. PICK new : QueryEnds(new)
      BY <1>6
    <2>2. /\ runs'[at] = new /\ Len(runs') = Len(runs) /\ at \in 1..Len(runs)
          /\ \A i \in 1..Len(runs) : i # at => runs'[i] = runs[i]
      BY <2>1, RunReplaced DEF QueryEnds, Over, Again
    <2>3. Asking(runs[at]) /\ runs[at] \in Run /\ pc' # "query"
      BY <1>0, <2>1, <2>2 DEF QueryEnds, Pause, AttemptsInv
    <2>4. Quiet(new)
      <3>1. CASE Over(runs[at], new)
        <4>1. runs[at].retry_count + 1 <= MAX_ATTEMPTS /\ runs[at].retry_count \in Nat
          BY <2>3, LimitsPositive DEF Run
        <4> QED
          BY <2>3, <3>1, <4>1, LimitsPositive DEF Over, Asking, Quiet, Run
      <3>2. CASE Again(runs[at], new)
        <4>1. new.retry_count <= MAX_ATTEMPTS /\ runs[at].retry_count \in Nat /\ new.attempts \in Nat
          BY <2>3, <3>2, LimitsPositive DEF Again, Run
        <4> QED
          BY <2>3, <3>2, <4>1, LimitsPositive DEF Again, Asking, Quiet
      <3> QED
        BY <2>1, <3>1, <3>2 DEF QueryEnds
    <2> QED
      BY <2>1, <2>2, <2>3, <2>4 DEF QueryEnds, AttemptsInv
  <1>7. CASE \E config, refused, moved : Requested(config, refused, moved)
    <2>1. RunsFor(chatgpt_config', runs') /\ pc' = "loop"
      BY <1>7, RequestSteps
    <2> QED
      BY <2>1 DEF RunsFor, AttemptsInv
  <1>8. CASE \E file \in {chatgpt_settings, <<>>} : Reset(file)
    <2>1. RunsFor(chatgpt_config', runs') /\ pc' = "loop"
      BY <1>8, ResetSteps
    <2> QED
      BY <2>1 DEF RunsFor, AttemptsInv
  <1> QED
    BY StepKinds, <1>1, <1>2, <1>3, <1>4, <1>5, <1>6, <1>7, <1>8

LEMMA Clock == now \in Times /\ now' \in Times => 
   /\ Minute(now) \in 0..(MINUTES - 1) /\ Part(now) \in 0..(PARTS - 1)
   /\ Minute(now') \in 0..(MINUTES - 1) /\ Part(now') \in 0..(PARTS - 1)
  BY MinuteAndPart

LEMMA TurnsStay ==
  ASSUME Typed, AttemptsInv, TurnsInv, [Next]_vars, Typed'
  PROVE  TurnsInv'
  <1> SUFFICES ASSUME ~shifted'
               PROVE  /\ pc' # "loop" => since_check' <= Part(now')
                      /\ \A i \in 1..Len(runs') :
                           /\ runs'[i].ran <= 1
                           /\ pc' = "loop" /\ since_check' > Part(now') => runs'[i].ran = 0
                           /\ pc' # "loop" /\ i > at' => runs'[i].ran = 0
                           /\ pc' = "check" /\ i = at' => runs'[i].ran = 0
    BY Zenon DEF TurnsInv
  <1>a. /\ Minute(now) \in 0..(MINUTES - 1) /\ Part(now) \in 0..(PARTS - 1)
        /\ Minute(now') \in 0..(MINUTES - 1) /\ Part(now') \in 0..(PARTS - 1)
    BY Clock DEF Typed, TimeOK
  <1>b. \A i \in 1..Len(runs) : runs[i] \in Run /\ runs[i].ran \in 0..2 /\ runs[i].retry_count \in Nat
    <2>1. \A i \in 1..Len(runs) : runs[i] \in Run
      BY ElementOfSeq DEF Typed, RunsOK
    <2> QED
      BY <2>1, LimitsPositive DEF Run
  <1>1. CASE UNCHANGED vars \/ ReadyChanges \/ FallsBack
    BY <1>1 DEF ReadyChanges, FallsBack, TurnsInv, vars
  <1>2. CASE Tick
    <2>1. /\ ~shifted /\ pc' = pc /\ at' = at /\ (pc # "loop" => ~Ends)
          /\ Len(runs') = Len(runs)
      <3>1. shifted' = (shifted \/ (pc # "loop" /\ Ends))
        BY <1>2, Zenon DEF Tick, Ends
      <3> QED
        BY <1>2, <3>1, TickSteps
    <2>2. ~Ends => Part(now') = Part(now) + 1
      BY <1>2, <1>a, TickSteps, NextTick, LimitsPositive DEF Ends, Typed, TimeOK
    <2>3. /\ since_check \in 0..PARTS
          /\ since_check' = IF since_check < PARTS THEN since_check + 1 ELSE PARTS
      BY <1>2, TickSteps DEF Typed, TimeOK
    <2>4. pc # "loop" => since_check' <= Part(now')
      <3>1. pc # "loop" => since_check <= Part(now)
        BY <2>1 DEF TurnsInv
      <3> QED
        BY <1>a, <2>1, <2>2, <2>3, <3>1, LimitsPositive
    <2>5. ~Ends => (since_check' > Part(now') => since_check > Part(now))
      BY <1>a, <2>2, <2>3, LimitsPositive
    <2>6. ASSUME NEW i \in 1..Len(runs)
          PROVE  /\ runs'[i].ran <= 1
                 /\ pc = "loop" /\ since_check' > Part(now') => runs'[i].ran = 0
                 /\ pc # "loop" /\ i > at => runs'[i].ran = 0
                 /\ pc = "check" /\ i = at => runs'[i].ran = 0
      <3>1. runs'[i].ran = IF Ends THEN 0 ELSE runs[i].ran
        BY <1>2, TickSteps DEF Ticked
      <3>2. CASE Ends
        BY <3>1, <3>2
      <3>3. CASE ~Ends
        BY <2>1, <2>5, <3>1, <3>3 DEF TurnsInv
      <3> QED
        BY <3>2, <3>3
    <2> QED
      BY <2>1, <2>4, <2>6
  <1>3. CASE \E t \in Times : ClockSet(t)
    BY <1>3 DEF ClockSet
  <1>4. CASE CheckStarts
    <2>1. /\ pc = "loop" /\ since_check = PARTS /\ since_check' = 0 /\ runs' = runs
          /\ ~shifted
      BY <1>4 DEF CheckStarts, CheckDue
    <2>2. \A i \in 1..Len(runs) : runs[i].ran = 0
      BY <1>a, <2>1, LimitsPositive DEF TurnsInv
    <2> QED
      BY <1>a, <2>1, <2>2
  <1>5. CASE NotYet \/ PauseEnds
    <2>1. ~shifted /\ pc # "loop" /\ runs' = runs /\ UNCHANGED <<now, since_check>> /\ GoOn
      BY <1>5 DEF NotYet, PauseEnds
    <2>2. since_check' <= Part(now') /\ ~(since_check' > Part(now'))
      <3>1. since_check <= Part(now) /\ since_check \in 0..PARTS
        BY <2>1 DEF TurnsInv, Typed, TimeOK
      <3> QED
        BY <1>a, <2>1, <3>1, LimitsPositive
    <2> QED
      BY <2>1, <2>2, GoesOn DEF TurnsInv
  <1>6. CASE Execute
    <2>1. PICK new : ExecuteStep(new)
      BY <1>6, ExecuteSteps
    <2>2. ~shifted /\ pc = "check" /\ UNCHANGED <<now, since_check>>
      BY <2>1 DEF ExecuteStep
    <2>3. /\ runs'[at] = new /\ Len(runs') = Len(runs) /\ at \in 1..Len(runs)
          /\ \A i \in 1..Len(runs) : i # at => runs'[i] = runs[i]
      BY <2>1, RunReplaced DEF ExecuteStep, Executed
    <2>4. new.ran \in 0..1
      <3>1. runs[at].ran = 0 /\ new.ran \in 0..2 /\ runs[at].retry_count \in Nat
        BY <1>b, <2>1, <2>2, <2>3 DEF TurnsInv, ExecuteStep, Executed, Run
      <3> QED
        BY <2>1, <3>1 DEF ExecuteStep, Executed
    <2>5. since_check' <= Part(now') /\ \A i \in 1..Len(runs) : runs'[i].ran <= 1
      BY <2>2, <2>3, <2>4 DEF TurnsInv
    <2>6. \A i \in 1..Len(runs) : i > at => runs'[i].ran = 0
      BY <2>2, <2>3 DEF TurnsInv
    <2>7. pc' \in {"query", "pause"} /\ at' = at
      BY <2>1 DEF ExecuteStep, Pause
    <2> QED
      BY <2>3, <2>5, <2>6, <2>7
  <1>7. CASE \E new : QueryEnds(new)
    <2>1. PICK new : QueryEnds(new)
      BY <1>7
    <2>2. ~shifted /\ pc = "query" /\ UNCHANGED <<now, since_check>> /\ pc' = "pause" /\ at' = at
      BY <2>1 DEF QueryEnds, Pause
    <2>3. /\ runs'[at] = new /\ Len(runs') = Len(runs) /\ at \in 1..Len(runs)
          /\ \A i \in 1..Len(runs) : i # at => runs'[i] = runs[i]
      BY <2>1, RunReplaced DEF QueryEnds, Over, Again
    <2>4. new.ran = runs[at].ran
      BY <2>1 DEF QueryEnds, Over, Again
    <2>5. since_check' <= Part(now') /\ \A i \in 1..Len(runs) : runs'[i].ran <= 1
      BY <2>2, <2>3, <2>4 DEF TurnsInv
    <2>6. \A i \in 1..Len(runs) : i > at => runs'[i].ran = 0
      BY <2>2, <2>3 DEF TurnsInv
    <2> QED
      BY <2>2, <2>3, <2>5, <2>6
  <1>8. CASE \E config, refused, moved : Requested(config, refused, moved)
    BY <1>8, RequestSteps
  <1>9. CASE \E file \in {chatgpt_settings, <<>>} : Reset(file)
    <2>1. \A i \in 1..Len(runs') : runs'[i] = NoRun
      BY <1>9, ResetSteps
    <2>2. NoRun.ran = 0
      BY DEF NoRun
    <2>3. pc' = "loop"
      BY <1>9, ResetSteps
    <2> QED
      BY <2>1, <2>2, <2>3
  <1> QED
    BY StepKinds, <1>1, <1>2, <1>3, <1>4, <1>5, <1>6, <1>7, <1>8, <1>9

-----------------------------------------------------------------------------
(* Retries and served minutes, while checks are in time.                   *)
RetryKept(i) == runs[i].retry_count > 0 => Pending(i)
Served(i) ==
  /\ InForce(i) /\ Since(i) = 0 /\ Passed(i) => runs[i].ran > 0 \/ runs[i].retry_count > 0
  /\ pc = "query" /\ i = at =>
       /\ InForce(i) /\ Askable(i)
       /\ runs[i].retry_count = 0 => runs[i].ran > 0 /\ Since(i) = 0
Timely == Typed /\ AttemptsInv /\ TurnsInv /\ RetriesInv /\ ServedInv /\ ~late /\ ~shifted

LEMMA TimelyRuns ==
  ASSUME Timely
  PROVE  /\ \A i \in 1..Len(runs) : /\ RetryKept(i) /\ Served(i)
                                    /\ runs[i] \in Run /\ runs[i].retry_count \in 0..(MAX_ATTEMPTS-1)
                                    /\ runs[i].ran \in 0..2
                                    /\ chatgpt_config.prompts[i].slot \in 0..(MINUTES - 1)
                                    /\ Since(i) \in 0..(MINUTES - 1)
                                    /\ Since(i) = 0 <=> chatgpt_config.prompts[i].slot = Minute(now)
         /\ Prompts = 1..Len(runs) /\ Len(runs) \in Nat /\ Part(now) \in 0..(PARTS - 1)
         /\ since_check \in 0..PARTS
         /\ pc # "loop" => since_check <= Part(now)
  <1>1. Part(now) \in 0..(PARTS - 1) /\ Minute(now) \in 0..(MINUTES - 1) /\ since_check \in 0..PARTS
    BY MinuteAndPart DEF Timely, Typed, TimeOK
  <1>2. Prompts = 1..Len(runs) /\ Len(runs) \in Nat
        /\ \A i \in 1..Len(runs) : chatgpt_config.prompts[i] \in Prompt /\ runs[i] \in Run
    BY Configurations, LenProperties, ElementOfSeq DEF Timely, Typed, ConfigOK, RunsOK, Prompts
  <1>3. pc # "loop" => since_check <= Part(now)
    BY DEF Timely, TurnsInv
  <1>4. ASSUME NEW i \in 1..Len(runs)
        PROVE  /\ RetryKept(i) /\ Served(i)
               /\ runs[i].retry_count \in 0..(MAX_ATTEMPTS-1) /\ runs[i].ran \in 0..2
               /\ chatgpt_config.prompts[i].slot \in 0..(MINUTES - 1)
               /\ Since(i) \in 0..(MINUTES - 1)
               /\ Since(i) = 0 <=> chatgpt_config.prompts[i].slot = Minute(now)
    <2>1. RetryKept(i) /\ Served(i)
      BY DEF Timely, RetriesInv, ServedInv, RetryKept, Served
    <2>2. runs[i].retry_count \in 0..(MAX_ATTEMPTS-1) /\ runs[i].ran \in 0..2
      BY <1>2 DEF Run
    <2>3. chatgpt_config.prompts[i].slot \in 0..(MINUTES - 1)
      BY <1>2 DEF Prompt
    <2> DEFINE slot == chatgpt_config.prompts[i].slot
               m == Minute(now)
    <2>4. Since(i) = IF m >= slot THEN m - slot ELSE m - slot + MINUTES
      BY DEF Since
    <2>5. slot \in 0..(MINUTES - 1) /\ m \in 0..(MINUTES - 1)
      BY <1>1, <2>3
    <2> HIDE DEF slot, m
    <2>6. /\ Since(i) \in 0..(MINUTES - 1)
          /\ Since(i) = 0 <=> slot = m
      <3>1. CASE m >= slot
        BY <2>4, <2>5, <3>1, LimitsPositive
      <3>2. CASE ~(m >= slot)
        BY <2>4, <2>5, <3>2, LimitsPositive
      <3> QED
        BY <3>1, <3>2
    <2> QED
      BY <2>1, <2>2, <2>3, <2>6 DEF slot, m
  <1> QED
    BY <1>1, <1>2, <1>3, <1>4

LEMMA TickKeeps ==
  ASSUME Timely, Tick, MinutesServed, ~late', ~shifted', Typed'
  PROVE  (\A i \in 1..Len(runs) : RetryKept(i)' /\ Served(i)') /\ ~skipped'
  <1>1. /\ pc' = pc /\ at' = at /\ UNCHANGED chatgpt_config /\ (pc # "loop" => ~Ends)
        /\ now' = (now + 1) % (MINUTES * PARTS)
        /\ \A i \in 1..Len(runs) : runs[i] \in Run /\ Ticked(runs[i], runs'[i], Ends)
    BY TickHistory, TickSteps DEF Timely
  <1>2. now \in Times /\ Minute(now) \in 0..(MINUTES - 1)
    BY MinuteAndPart DEF Timely, Typed, TimeOK
  <1>3. \/ /\ Minute(now') = Minute(now) /\ Part(now') = Part(now) + 1
        \/ /\ Part(now) = PARTS - 1 /\ Part(now') = 0
           /\ Minute(now') = IF Minute(now) = MINUTES - 1 THEN 0 ELSE Minute(now) + 1
    BY <1>1, <1>2, NextTick
  <1>4. Part(now) \in 0..(PARTS - 1) /\ since_check \in 0..PARTS /\ Prompts = 1..Len(runs)
    BY TimelyRuns
  <1>a. pc = "loop" => since_check < PARTS /\ since_check' = since_check + 1
    <2>1. pc = "loop" => since_check < PARTS
      BY TickHistory DEF Timely
    <2>2. since_check' = IF since_check < PARTS THEN since_check + 1 ELSE PARTS
      BY TickSteps DEF Timely
    <2> QED
      BY <2>1, <2>2
  <1>b. Ends => pc = "loop"
    BY <1>1
  <1>5. ASSUME NEW i \in 1..Len(runs), Minute(now') = Minute(now), Part(now') = Part(now) + 1
        PROVE  RetryKept(i)' /\ Served(i)'
    <2>1. Passed(i)' = Passed(i) /\ Since(i)' = Since(i) /\ InForce(i)' = InForce(i)
          /\ Askable(i)' = Askable(i)
      <3>1. Passed(i)' = Passed(i)
        <4>1. CASE pc = "loop"
          <5>1. (since_check <= Part(now)) = (since_check' <= Part(now'))
            BY <1>a, <1>4, <1>5, <4>1, LimitsPositive
          <5> QED
            BY <1>1, <4>1, <5>1 DEF Passed
        <4>2. CASE pc # "loop"
          BY <1>1, <4>2 DEF Passed
        <4> QED
          BY <4>1, <4>2
      <3>2. Since(i)' = Since(i)
        BY <1>1, <1>5 DEF Since
      <3> QED
        BY <1>1, <3>1, <3>2 DEF InForce, Askable
    <2>2. runs'[i].retry_count = runs[i].retry_count /\ runs'[i].ran = runs[i].ran
      BY <1>1, <1>5 DEF Ticked, Ends
    <2>3. Served(i)'
      BY <1>1, <2>1, <2>2, TimelyRuns DEF Served
    <2>4. ASSUME runs'[i].retry_count > 0 PROVE Pending(i)'
      <3>1. Pending(i)
        BY <2>2, <2>4, TimelyRuns DEF RetryKept
      <3> DEFINE t == runs[i].next_retry_time
                 u == runs'[i].next_retry_time
                 n == Part(now)
      <3>2. t \in 0..PARTS /\ u = IF t > 0 THEN t - 1 ELSE 0
        BY <1>1 DEF Ticked, Run
      <3>3. n \in 0..(PARTS - 1) /\ Part(now') = n + 1 /\ n + 1 < PARTS
        <4>1. Part(now') \in 0..(PARTS - 1)
          BY MinuteAndPart DEF Typed, TimeOK
        <4> QED
          BY <1>4, <1>5, <4>1, LimitsPositive
      <3>4. /\ t + n < 2 * PARTS => u + Part(now') < 2 * PARTS
            /\ t = 0 => u = 0
            /\ t = 0 \/ t + n < PARTS => u = 0 \/ u + Part(now') < PARTS
        <4> HIDE DEF t, u, n
        <4> QED
          BY <3>2, <3>3, LimitsPositive
      <3>5. TriedNow(i) => TriedNow(i)'
        BY <2>1, <2>2, <3>4 DEF TriedNow
      <3>6. Waits(i) => Waits(i)'
        BY <2>1, <2>2, <3>4 DEF Waits
      <3>7. TriedNext(i) => TriedNext(i)'
        BY <2>1, <2>2, <3>4 DEF TriedNext
      <3> QED
        BY <2>1, <3>1, <3>5, <3>6, <3>7 DEF Pending
    <2> QED
      BY <2>3, <2>4 DEF RetryKept
  <1>6. ASSUME NEW i \in 1..Len(runs), Part(now) = PARTS - 1, Part(now') = 0,
               Minute(now') = IF Minute(now) = MINUTES - 1 THEN 0 ELSE Minute(now) + 1
        PROVE  RetryKept(i)' /\ Served(i)'
    <2>0. pc = "loop"
      <3>1. Minute(now') # Minute(now)
        BY <1>2, <1>6, LimitsPositive
      <3> QED
        BY <1>b, <3>1 DEF Ends
    <2>1. Passed(i) /\ ~Passed(i)' /\ pc' = "loop"
      BY <1>1, <1>a, <1>4, <1>6, <2>0, LimitsPositive DEF Passed
    <2>2. runs'[i].retry_count = runs[i].retry_count
      BY <1>1 DEF Ticked
    <2>3. Served(i)'
      BY <2>1 DEF Served
    <2>4. ASSUME runs'[i].retry_count > 0 PROVE Pending(i)'
      <3> DEFINE t == runs[i].next_retry_time
                 u == runs'[i].next_retry_time
                 k == runs[i].retry_count
      <3>1. Pending(i)
        BY <2>2, <2>4, TimelyRuns DEF RetryKept
      <3>2. t \in 0..PARTS /\ u = (IF t > 0 THEN t - 1 ELSE 0) /\ k \in 0..(MAX_ATTEMPTS - 1)
        BY <1>1, TimelyRuns DEF Ticked, Run
      <3>3. Since(i) \in 0..(MINUTES - 1)
        BY TimelyRuns
      <3>4. \/ Since(i) <= 2 * k - 2
            \/ Since(i) <= 2 * k - 1 /\ (t = 0 \/ t + (PARTS - 1) < PARTS)
        BY <1>6, <2>1, <3>1 DEF Pending, TriedNow, Waits, TriedNext
      <3>5. Since(i)' = Since(i) + 1
        <4> DEFINE slot == chatgpt_config.prompts[i].slot
                   m == Minute(now)
        <4>1. slot \in 0..(MINUTES - 1) /\ m \in 0..(MINUTES - 1)
          BY <1>2, TimelyRuns
        <4>2. Since(i) = IF m >= slot THEN m - slot ELSE m - slot + MINUTES
          BY DEF Since
        <4>3. Since(i)' = IF Minute(now') >= slot THEN Minute(now') - slot
                          ELSE Minute(now') - slot + MINUTES
          BY <1>1 DEF Since
        <4>4. Minute(now') = IF m = MINUTES - 1 THEN 0 ELSE m + 1
          BY <1>6
        <4> HIDE DEF slot, m
        <4>5. Since(i) < MINUTES - 1
          <5> HIDE DEF k, t
          <5>1. 2 * k <= 2 * (MAX_ATTEMPTS - 1)
            BY <3>2, LimitsPositive
          <5> QED
            BY <3>2, <3>3, <3>4, <5>1, LimitsPositive
        <4>6. CASE m = MINUTES - 1
          BY <4>1, <4>2, <4>3, <4>4, <4>5, <4>6, LimitsPositive
        <4>7. CASE m # MINUTES - 1
          BY <4>1, <4>2, <4>3, <4>4, <4>5, <4>7, LimitsPositive
        <4> QED
          BY <4>6, <4>7
      <3>6. /\ Since(i)' > 0
            /\ \/ Since(i)' <= 2 * k - 1 /\ u + Part(now') < PARTS
               \/ Since(i)' <= 2 * k /\ u = 0
        <4> HIDE DEF k, t, u
        <4> QED
          BY <1>6, <3>2, <3>3, <3>4, <3>5, LimitsPositive
      <3>7. Waits(i)' \/ TriedNext(i)'
        BY <2>1, <2>2, <3>6 DEF Waits, TriedNext
      <3> QED
        BY <1>1, <3>1, <3>7 DEF Pending, InForce, Askable
    <2> QED
      BY <2>3, <2>4 DEF RetryKept
  <1>7. ASSUME skipped' PROVE FALSE
    <2>1. ~skipped
      BY Zenon DEF MinutesServed, Timely
    <2>2. PICK i \in Prompts :
            /\ Minute((now + 1) % (MINUTES * PARTS)) # Minute(now)
            /\ chatgpt_config.enabled /\ chatgpt_config.prompts[i].enabled
            /\ chatgpt_config.prompts[i].slot = Minute(now)
            /\ runs[i].retry_count = 0 /\ runs[i].ran = 0
      BY <1>7, <2>1, Zenon DEF Tick
    <2>3. InForce(i) /\ Since(i) = 0 /\ Passed(i)
      <3>1. Ends /\ pc = "loop"
        BY <1>1, <1>b, <2>2 DEF Ends
      <3>2. Passed(i)
        BY <1>a, <1>3, <1>4, <3>1, LimitsPositive DEF Passed, Ends
      <3> QED
        BY <1>4, <2>2, <3>2, TimelyRuns DEF InForce
    <2> QED
      BY <1>4, <2>2, <2>3, TimelyRuns DEF Served
  <1> QED
    BY <1>3, <1>5, <1>6, <1>7

LEMMA CheckKeeps ==
  ASSUME Timely, CheckStarts
  PROVE  \A i \in 1..Len(runs) : RetryKept(i)' /\ Served(i)'
  <1>1. /\ pc = "loop" /\ since_check = PARTS /\ since_check' = 0
        /\ UNCHANGED <<now, runs, chatgpt_config>>
        /\ \/ chatgpt_config.enabled /\ pc' = "check" /\ at' = 1
           \/ pc' = pc /\ ~(chatgpt_config.enabled /\ Prompts # {})
    BY DEF CheckStarts, CheckDue
  <1>2. ASSUME NEW i \in 1..Len(runs)
        PROVE  RetryKept(i)' /\ Served(i)'
    <2>1. /\ ~Passed(i) /\ Since(i)' = Since(i) /\ InForce(i)' = InForce(i)
          /\ Askable(i)' = Askable(i)
      BY <1>1, TimelyRuns, LimitsPositive DEF Passed, Since, InForce, Askable
    <2>2. CASE pc' = "check" /\ at' = 1
      <3>1. ~Passed(i)' /\ ~(i < at')
        BY <2>2 DEF Passed
      <3>2. runs[i].retry_count > 0 => Pending(i)
        BY TimelyRuns DEF RetryKept
      <3> QED
        BY <1>1, <2>1, <2>2, <3>1, <3>2
        DEF RetryKept, Served, Pending, TriedNow, Waits, TriedNext
    <2>3. CASE pc' = pc /\ ~(chatgpt_config.enabled /\ Prompts # {})
      <3>1. ~InForce(i)
        BY <2>3, TimelyRuns DEF InForce
      <3>2. ~(runs[i].retry_count > 0)
        BY <3>1, TimelyRuns DEF RetryKept, Pending
      <3> QED
        BY <1>1, <2>1, <2>3, <3>1, <3>2 DEF RetryKept, Served
    <2> QED
      BY <1>1, <2>2, <2>3
  <1> QED
    BY <1>2

(* A check leaves the prompt at which it was.                              *)
Done(run, i) ==
  /\ run.retry_count > 0 =>
       /\ InForce(i) /\ Askable(i)
       /\ \/ /\ Since(i) <= 2 * run.retry_count - 2
             /\ run.next_retry_time + Part(now) < 2 * PARTS
          \/ /\ Since(i) > 0 /\ Since(i) <= 2 * run.retry_count - 1
             /\ run.next_retry_time = 0 \/ run.next_retry_time + Part(now) < PARTS
  /\ InForce(i) /\ Since(i) = 0 => run.ran > 0 \/ run.retry_count > 0

LEMMA CheckGoesOn ==
  ASSUME Timely, pc # "loop", GoOn \/ Pause, UNCHANGED <<now, since_check, chatgpt_config>>,
         Len(runs') = Len(runs), Done(runs'[at], at),
         \A i \in 1..Len(runs) : i # at => runs'[i] = runs[i]
  PROVE  \A i \in 1..Len(runs') : RetryKept(i)' /\ Served(i)'
  <1>1. /\ at \in 1..Len(runs) /\ Len(runs) \in Nat
        /\ \/ at < Len(runs) /\ pc' = "check" /\ at' = at + 1
           \/ at = Len(runs) /\ pc' = "loop" /\ at' = 0
           \/ pc' = "pause" /\ at' = at
    <2>1. at \in 1..Len(runs)
      BY RunAtWork DEF Timely
    <2>2. Len(runs) \in Nat
      BY TimelyRuns
    <2> QED
      BY <2>1, <2>2, GoesOn DEF Timely, Pause
  <1>2. since_check <= Part(now) /\ since_check' = since_check /\ now' = now
        /\ since_check \in 0..PARTS /\ Part(now) \in 0..(PARTS - 1)
    BY TimelyRuns
  <1>3. \A i \in 1..Len(runs) :
          /\ Since(i)' = Since(i) /\ InForce(i)' = InForce(i) /\ Askable(i)' = Askable(i)
    BY DEF Since, InForce, Askable
  <1>4. ASSUME NEW i \in 1..Len(runs), i = at
        PROVE  RetryKept(i)' /\ Served(i)'
    <2>1. Passed(i)' /\ pc' # "query"
      BY <1>1, <1>2, <1>4 DEF Passed
    <2>2. RetryKept(i)'
      BY <1>2, <1>3, <1>4, <2>1 DEF Done, RetryKept, Pending, TriedNow, Waits
    <2>3. Served(i)'
      BY <1>3, <1>4, <2>1 DEF Done, Served
    <2> QED
      BY <2>2, <2>3
  <1>5. ASSUME NEW i \in 1..Len(runs), i # at
        PROVE  RetryKept(i)' /\ Served(i)'
    <2>1. runs'[i] = runs[i] /\ RetryKept(i) /\ Served(i) /\ pc' # "query"
      BY <1>1, <1>5, TimelyRuns
    <2>2. Passed(i)' = Passed(i)
      <3>1. CASE i < at
        <4>1. Passed(i)
          BY <3>1 DEF Passed
        <4>2. Passed(i)'
          BY <1>1, <1>2, <3>1 DEF Passed
        <4> QED
          BY <4>1, <4>2 DEF Passed
      <3>2. CASE i > at
        <4>1. ~Passed(i)
          BY <1>1, <3>2 DEF Passed
        <4>2. ~Passed(i)'
          BY <1>1, <3>2 DEF Passed
        <4> QED
          BY <4>1, <4>2 DEF Passed
      <3> QED
        BY <1>1, <1>5, <3>1, <3>2
    <2> QED
      BY <1>2, <1>3, <2>1, <2>2 DEF RetryKept, Served, Pending, TriedNow, Waits, TriedNext
  <1> QED
    BY <1>4, <1>5

LEMMA ExecuteKeeps ==
  ASSUME Timely, Execute
  PROVE  \A i \in 1..Len(runs') : RetryKept(i)' /\ Served(i)'
  <1>1. PICK new : ExecuteStep(new)
    BY ExecuteSteps DEF Timely
  <1>2. /\ at \in 1..Len(runs) /\ runs'[at] = new /\ Len(runs') = Len(runs)
        /\ \A i \in 1..Len(runs) : i # at => runs'[i] = runs[i]
    BY <1>1, RunReplaced DEF ExecuteStep, Executed, Timely
  <1>3. /\ pc = "check" /\ UNCHANGED <<now, since_check, chatgpt_config>>
        /\ IsTime(at) /\ Executed(runs[at], new)
    BY <1>1 DEF ExecuteStep
  <1>4. /\ new.retry_count = runs[at].retry_count /\ runs[at].retry_count \in 0..(MAX_ATTEMPTS - 1)
        /\ new.next_retry_time = runs[at].next_retry_time
        /\ runs[at].retry_count = 0 => new.ran > 0
    BY <1>2, <1>3, TimelyRuns DEF Executed
  <1>5. InForce(at) /\ (runs[at].retry_count = 0 => Since(at) = 0)
    BY <1>2, <1>3, TimelyRuns DEF IsTime, InForce
  <1>6. CASE ~Askable(at) /\ Pause
    <2>1. ~(runs[at].retry_count > 0)
      BY <1>2, <1>6, TimelyRuns DEF RetryKept, Pending
    <2>2. runs[at].retry_count = 0
      BY <1>4, <2>1
    <2>3. Done(new, at)
      BY <1>4, <2>2 DEF Done
    <2> QED
      BY <1>2, <1>3, <1>6, <2>3, CheckGoesOn
  <1>7. CASE Askable(at) /\ pc' = "query" /\ at' = at
    <2>1. \A i \in 1..Len(runs) :
            /\ Since(i)' = Since(i) /\ InForce(i)' = InForce(i) /\ Askable(i)' = Askable(i)
            /\ Passed(i)' = Passed(i)
      BY <1>3, <1>7 DEF Since, InForce, Askable, Passed
    <2>2. ASSUME NEW i \in 1..Len(runs), i # at
          PROVE  RetryKept(i)' /\ Served(i)'
      <3>1. runs'[i] = runs[i] /\ RetryKept(i) /\ Served(i)
        BY <1>2, <2>2, TimelyRuns
      <3> QED
        BY <1>3, <1>7, <2>1, <2>2, <3>1 DEF RetryKept, Served, Pending, TriedNow, Waits, TriedNext
    <2>3. RetryKept(at)' /\ Served(at)'
      <3>1. ~Passed(at) /\ RetryKept(at)
        BY <1>2, <1>3, TimelyRuns DEF Passed
      <3>2. RetryKept(at)'
        BY <1>2, <1>3, <1>4, <1>7, <2>1, <3>1 DEF RetryKept, Pending, TriedNow, Waits, TriedNext
      <3>3. Served(at)'
        BY <1>2, <1>4, <1>5, <1>7, <2>1, <3>1 DEF Served
      <3> QED
        BY <3>2, <3>3
    <2> QED
      BY <1>2, <1>7, <2>2, <2>3
  <1> QED
    BY <1>1, <1>6, <1>7 DEF ExecuteStep

LEMMA QueryKeeps ==
  ASSUME Timely, NEW new, QueryEnds(new)
  PROVE  \A i \in 1..Len(runs') : RetryKept(i)' /\ Served(i)'
  <1>1. /\ pc = "query" /\ Pause /\ UNCHANGED <<now, since_check, chatgpt_config>>
    BY DEF QueryEnds
  <1>2. /\ at \in 1..Len(runs) /\ runs'[at] = new /\ Len(runs') = Len(runs)
        /\ \A i \in 1..Len(runs) : i # at => runs'[i] = runs[i]
    BY RunReplaced DEF QueryEnds, Over, Again, Timely
  <1>3. /\ InForce(at) /\ Askable(at)
        /\ runs[at].retry_count = 0 => runs[at].ran > 0 /\ Since(at) = 0
        /\ runs[at].retry_count \in 0..(MAX_ATTEMPTS - 1)
    BY <1>1, <1>2, TimelyRuns DEF Served
  <1>4. /\ Since(at) \in 0..(MINUTES - 1)
        /\ runs[at].retry_count > 0 => Since(at) > 0 /\ Since(at) <= 2 * runs[at].retry_count
    <2>1. ~Passed(at) /\ Since(at) \in 0..(MINUTES - 1)
      BY <1>1, <1>2, TimelyRuns DEF Passed
    <2> QED
      BY <1>2, <1>3, <2>1, TimelyRuns DEF RetryKept, Pending, TriedNow, Waits, TriedNext
  <1>5. Done(new, at)
    <2>1. CASE Over(runs[at], new)
      BY <1>3, <1>4, <2>1, LimitsPositive DEF Over, Done
    <2>2. CASE Again(runs[at], new)
      <3>1. Since(at) <= 2 * new.retry_count - 2
        BY <1>3, <1>4, <2>2, LimitsPositive DEF Again
      <3>2. new.next_retry_time + Part(now) < 2 * PARTS
        BY <2>2, TimelyRuns, LimitsPositive DEF Again
      <3> QED
        BY <1>3, <2>2, <3>1, <3>2 DEF Again, Done
    <2> QED
      BY <2>1, <2>2 DEF QueryEnds
  <1> QED
    BY <1>1, <1>2, <1>5, CheckGoesOn

LEMMA TimelyStays ==
  ASSUME Typed, AttemptsInv, TurnsInv, RetriesInv, ServedInv, MinutesServed, [Next]_vars, Typed'
  PROVE  RetriesInv' /\ ServedInv' /\ MinutesServed'
  <1> SUFFICES ASSUME ~late', ~shifted'
               PROVE  (\A i \in 1..Len(runs') : RetryKept(i)' /\ Served(i)') /\ ~skipped'
    BY Zenon DEF RetriesInv, ServedInv, MinutesServed, RetryKept, Served
  <1>1. CASE UNCHANGED vars \/ ReadyChanges \/ FallsBack
    <2>1. UNCHANGED <<now, since_check, pc, at, chatgpt_config, runs, late, shifted, skipped>>
      BY <1>1 DEF vars, ReadyChanges, FallsBack
    <2>2. Timely /\ ~skipped
      BY <2>1, Zenon DEF Timely, MinutesServed
    <2>3. \A i \in 1..Len(runs) : RetryKept(i) /\ Served(i)
      BY <2>2, TimelyRuns
    <2>4. \A i : RetryKept(i)' = RetryKept(i) /\ Served(i)' = Served(i)
      BY <2>1 DEF RetryKept, Served, Pending, TriedNow, Waits, TriedNext, InForce, Askable, Since, Passed
    <2> QED
      BY <2>1, <2>2, <2>3, <2>4
  <1>2. CASE Tick
    <2>1. Timely /\ Len(runs') = Len(runs)
      BY <1>2, TickHistory, TickSteps DEF Timely
    <2> QED
      BY <1>2, <2>1, TickKeeps
  <1>3. CASE (\E t \in Times : ClockSet(t))
             \/ \E config, refused, moved : Requested(config, refused, moved)
    BY <1>3, RequestSteps DEF ClockSet
  <1>4. CASE \/ CheckStarts \/ NotYet \/ Execute \/ PauseEnds \/ \E new : QueryEnds(new)
    <2>1. UNCHANGED <<late, shifted, skipped>>
      BY <1>4, ExecuteSteps DEF CheckStarts, NotYet, PauseEnds, ExecuteStep, QueryEnds
    <2>2. Timely /\ ~skipped'
      BY <2>1, Zenon DEF Timely, MinutesServed
    <2>3. CASE CheckStarts
      <3>1. runs' = runs
        BY <2>3 DEF CheckStarts
      <3> QED
        BY <2>2, <2>3, <3>1, CheckKeeps
    <2>4. CASE NotYet
      <3>1. pc = "check" /\ GoOn /\ UNCHANGED <<now, since_check, runs, chatgpt_config>> /\ ~IsTime(at)
        BY <2>4 DEF NotYet
      <3>2. at \in 1..Len(runs)
        BY <3>1, RunAtWork
      <3>3. ~Passed(at)
        BY <2>2, <3>1, <3>2, TimelyRuns DEF Passed
      <3>4. runs[at].retry_count > 0 => InForce(at) /\ Askable(at) /\ Waits(at)
        BY <2>2, <3>1, <3>2, <3>3, TimelyRuns
        DEF RetryKept, Pending, TriedNow, TriedNext, InForce, IsTime
      <3>5. ~(InForce(at) /\ Since(at) = 0) \/ runs[at].retry_count > 0
        BY <2>2, <3>1, <3>2, TimelyRuns DEF InForce, IsTime
      <3>6. Done(runs'[at], at)
        BY <3>1, <3>4, <3>5 DEF Done, Waits
      <3> QED
        BY <2>2, <3>1, <3>6, CheckGoesOn
    <2>7. CASE PauseEnds
      <3>1. pc = "pause" /\ GoOn /\ UNCHANGED <<now, since_check, runs, chatgpt_config>>
        BY <2>7 DEF PauseEnds
      <3>2. at \in 1..Len(runs)
        BY <3>1, RunAtWork
      <3>3. Passed(at) /\ RetryKept(at) /\ Served(at)
        BY <2>2, <3>1, <3>2, TimelyRuns DEF Passed
      <3>4. Done(runs'[at], at)
        BY <3>1, <3>3 DEF Done, RetryKept, Served, Pending, TriedNow, Waits, TriedNext
      <3> QED
        BY <2>2, <3>1, <3>4, CheckGoesOn
    <2>5. CASE Execute
      BY <2>2, <2>5, ExecuteKeeps
    <2>6. CASE \E new : QueryEnds(new)
      BY <2>2, <2>6, QueryKeeps
    <2> QED
      BY <1>4, <2>3, <2>4, <2>5, <2>6, <2>7
  <1>5. CASE \E file \in {chatgpt_settings, <<>>} : Reset(file)
    <2>1. /\ \A i \in 1..Len(runs') : runs'[i] = NoRun
          /\ pc' = "loop" /\ since_check' = PARTS /\ now' \in Times /\ UNCHANGED <<late, shifted, skipped>>
      BY <1>5, ResetSteps
    <2>2. ~skipped'
      BY <2>1, Zenon DEF MinutesServed
    <2>3. NoRun.retry_count = 0
      BY DEF NoRun
    <2>4. Part(now') < PARTS /\ Part(now') \in Nat
      BY <2>1, MinuteAndPart, LimitsPositive
    <2>5. \A i : ~Passed(i)'
      BY <2>1, <2>4, LimitsPositive DEF Passed
    <2> QED
      BY <2>1, <2>2, <2>3, <2>5 DEF RetryKept, Served
  <1> QED
    BY StepKinds, <1>1, <1>2, <1>3, <1>4, <1>5

-----------------------------------------------------------------------------
LEMMA InitInv == Init => IInv
  <1> SUFFICES ASSUME Init PROVE IInv
    OBVIOUS
  <1>1. /\ now \in Times /\ since_check = PARTS /\ pc = "loop" /\ at = 0
        /\ ready = TRUE /\ fallen = FALSE /\ late = FALSE /\ shifted = FALSE /\ skipped = FALSE
        /\ chatgpt_settings = << FirstConfig >> /\ chatgpt_config = FirstConfig
    BY DEF Init, Times
  <1>2. FirstConfig \in Config /\ FirstConfig.prompts \in Seq(Prompt)
        /\ DOMAIN FirstConfig.prompts = 1..Len(FirstConfig.prompts) /\ Len(FirstConfig.prompts) \in Nat
    BY PromptAssumption, Configurations
  <1>3. runs = [i \in 1..Len(FirstConfig.prompts) |-> NoRun]
    BY <1>2 DEF Init
  <1>4. runs \in Seq(Run) /\ Len(runs) = Len(FirstConfig.prompts)
        /\ \A i \in 1..Len(runs) : runs[i] = NoRun
    BY <1>2, <1>3, FreshRuns
  <1>5. Part(now) < PARTS /\ Part(now) \in Nat
    BY <1>1, MinuteAndPart, LimitsPositive
  <1>6. NoRun.retry_count = 0 /\ NoRun.ran = 0
    BY DEF NoRun
  <1>7. Typed
    <2>1. TimeOK /\ PlaceOK /\ ConfigOK /\ RunsOK
      BY <1>1, <1>2, <1>4, LimitsPositive DEF TimeOK, PlaceOK, ConfigOK, RunsOK
    <2>2. FlagsOK
      BY <1>1, Zenon DEF FlagsOK
    <2> QED
      BY <2>1, <2>2 DEF Typed
  <1>8. AttemptsInv
    BY <1>1, <1>4, FreshRun DEF AttemptsInv
  <1>9. TurnsInv
    BY <1>1, <1>4, <1>6 DEF TurnsInv
  <1>10. RetriesInv /\ ServedInv
    <2>1. \A i : ~Passed(i)
      BY <1>1, <1>5, LimitsPositive DEF Passed
    <2> QED
      BY <1>1, <1>4, <1>6, <2>1 DEF RetriesInv, ServedInv
  <1>11. MinutesServed
    BY <1>1 DEF MinutesServed
  <1> QED
    BY <1>7, <1>8, <1>9, <1>10, <1>11 DEF IInv

LEMMA NextInv == IInv /\ [Next]_vars => IInv'
  <1> SUFFICES ASSUME IInv, [Next]_vars PROVE IInv'
    OBVIOUS
  <1>1. Typed'
    BY TypedStays DEF IInv
  <1>2. AttemptsInv'
    BY AttemptsStay DEF IInv
  <1>3. TurnsInv'
    BY <1>1, TurnsStay DEF IInv
  <1>4. RetriesInv' /\ ServedInv' /\ MinutesServed'
    BY <1>1, TimelyStays DEF IInv
  <1> QED
    BY <1>1, <1>2, <1>3, <1>4 DEF IInv

LEMMA Inductive == Spec => []IInv
  BY InitInv, NextInv, PTL DEF Spec

LEMMA RunsInOrder ==
  ASSUME IInv
  PROVE  /\ Prompts = 1..Len(runs) /\ DOMAIN runs = Prompts
         /\ \A i \in Prompts : runs[i] \in Run
  <1>1. runs \in Seq(Run) /\ Len(runs) = Len(chatgpt_config.prompts)
        /\ DOMAIN runs = 1..Len(runs) /\ \A i \in 1..Len(runs) : runs[i] \in Run
    BY LenProperties, ElementOfSeq DEF IInv, Typed, RunsOK
  <1> QED
    BY <1>1, Configurations DEF IInv, Typed, ConfigOK, Prompts

LEMMA TypesTogether == IInv => PromptInv
  <1> SUFFICES ASSUME IInv PROVE PromptInv
    OBVIOUS
  <1>1. {ready, fallen, late, shifted, skipped} \subseteq BOOLEAN
    BY Zenon DEF IInv, Typed, FlagsOK
  <1>2. (at = 0) = (pc = "loop")
    BY DEF IInv, Typed, PlaceOK
  <1>3. PromptTypeOK
    BY <1>1, <1>2, RunsInOrder DEF PromptTypeOK, IInv, Typed, TimeOK, ConfigOK, PlaceOK, Times
  <1>4. ASSUME NEW i \in Prompts PROVE runs[i].attempts <= MAX_ATTEMPTS /\ runs[i].pages <= 1
    <2>1. i \in 1..Len(runs) /\ runs[i] \in Run
      BY RunsInOrder
    <2>2. CASE Quiet(runs[i])
      BY <2>2 DEF Quiet
    <2>3. CASE Asking(runs[i])
      BY <2>1, <2>3, LimitsPositive DEF Asking, Run
    <2> QED
      BY <2>1, <2>2, <2>3 DEF IInv, AttemptsInv
  <1> QED
    BY <1>3, <1>4 DEF PromptInv, OnePagePerRun

LEMMA TurnsTaken == IInv => OneRunPerMinute
  <1> SUFFICES ASSUME IInv, ~shifted, NEW i \in Prompts PROVE ~(runs[i].ran > 1)
    BY Zenon DEF OneRunPerMinute
  <1>1. i \in 1..Len(runs) /\ runs[i].ran \in 0..2
    BY RunsInOrder DEF Run
  <1> QED
    BY <1>1 DEF IInv, TurnsInv

(* Every prompt has its run and a check works on a prompt that exists; a   *)
(* run asks at most MAX_ATTEMPTS times and queues at most one page.        *)
THEOREM PromptsSound == Spec => []PromptInv
  BY Inductive, TypesTogether, PTL

(* A prompt runs at most once in a minute unless the clock was set, the    *)
(* prompts were changed or a check went on into its next minute.           *)
THEOREM PromptsRunOnce == Spec => []OneRunPerMinute
  BY Inductive, TurnsTaken, PTL

(* While checks start when they are due and end within their minute, with  *)
(* their queries and the pauses after the prompts they executed, no minute *)
(* of a prompt goes by without its run.                                    *)
THEOREM MinutesAreServed == Spec => []MinutesServed
  <1>1. IInv => MinutesServed
    BY DEF IInv
  <1> QED
    BY <1>1, Inductive, PTL
=============================================================================
