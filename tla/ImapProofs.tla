----------------------------- MODULE ImapProofs -----------------------------
(***************************************************************************)
(* What module ImapClient promises for every set of mailboxes and mails,   *)
(* every size of its tables and limits, and any number of resets and       *)
(* changes of the accounts.                                                *)
(*                                                                         *)
(* SeenMailPaged and OnePagePerMail rest on what is known of the check in  *)
(* progress: NumsInv, that its mails are unread and each listed once, and  *)
(* MarkInv, that a mail once paged is seen on the server, or its mark was  *)
(* lost, or it is the one about to be marked.  That a failed check counts  *)
(* up to the limit and no further, and that every account has its entry,   *)
(* rest on EntriesInv.  LatestFew says that the search never lists more    *)
(* mails than its limit, for any set of mails.                             *)
(***************************************************************************)
EXTENDS ImapClient, SequenceTheorems, FiniteSetTheorems, TLAPS

USE DEF configVars, scheduleVars, checkVars, mailVars

(* The types by what they are about.                                       *)
FileOK(file) == file = <<>> \/ (Len(file) = 1 /\ Head(file) \in Configs)
ConfigOK == imap_config \in Configs /\ FileOK(imap_settings)
ScheduleOK == imap_schedule \in Seq(Entries) /\ Len(imap_schedule) <= IMAP_MAX_ACCOUNTS
PlaceOK ==
  /\ pc \in {"setup", "boot", "loop", "mails", "mark"}
  /\ checking \in 0..IMAP_MAX_ACCOUNTS
  /\ checking # 0 <=> pc \in {"mails", "mark"}
QueueOK == message_queue \in Seq(Mails) /\ Len(message_queue) <= MAX_QUEUE_SIZE
NumsOK == message_nums \in Seq(Mails) /\ Len(message_nums) <= SEARCH_LIMIT
MailsOK == seen \subseteq Mails /\ unsure \subseteq Mails /\ paged \in [Mails -> 0..2]
FlagsOK ==
  /\ imap_system_enabled \in BOOLEAN /\ imap_suspended_on_gsm \in BOOLEAN /\ changed \in BOOLEAN
BoundsOK == requests \in 0..MaxRequests /\ resets \in 0..MaxResets

(* The entries are numbered like their places, suspended at the limit, and *)
(* there is one for every account while no handler has changed them.       *)
EntriesInv ==
  /\ \A j \in 1..Len(imap_schedule) :
       /\ imap_schedule[j].account_id = j
       /\ ~imap_schedule[j].suspended => imap_schedule[j].failed_attempts < MAX_ATTEMPTS
  /\ pc \in {"loop", "mails", "mark"} /\ ~changed =>
       Len(imap_schedule) = Len(imap_config.accounts)

(* The mails of the check in progress are unread, and each is listed once. *)
NumsInv ==
  /\ \A j, k \in 1..Len(message_nums) : j # k => message_nums[j] # message_nums[k]
  /\ \A j \in 1..Len(message_nums) : message_nums[j] \notin seen

(* A mail once paged is marked, or its mark was lost, or comes next.       *)
MarkInv ==
  /\ pc = "mark" => message_nums # <<>> /\ paged[Head(message_nums)] > 0
  /\ \A m \in Mails : paged[m] > 0 =>
       m \in seen \/ m \in unsure \/ (pc = "mark" /\ m = Head(message_nums))

Accounted == ConfigOK /\ ScheduleOK /\ EntriesInv
Listed == NumsOK /\ NumsInv
Marked == MailsOK /\ MarkInv /\ SeenMailPaged /\ OnePagePerMail
IInv == PlaceOK /\ FlagsOK /\ BoundsOK /\ Accounted /\ QueueOK /\ Listed /\ Marked

-----------------------------------------------------------------------------
LEMMA LimitsPositive ==
  /\ IMAP_MAX_ACCOUNTS \in Nat \ {0} /\ MAX_ATTEMPTS \in Nat \ {0}
  /\ SEARCH_LIMIT \in Nat \ {0} /\ MAX_QUEUE_SIZE \in Nat \ {0}
  /\ MaxRequests \in Nat /\ MaxResets \in Nat
  BY ImapAssumption

(* Sequences with a bound on their length.                                 *)
LEMMA BoundedSeqs ==
  ASSUME NEW S, NEW n \in Nat, NEW s
  PROVE  s \in BoundedSeq(S, n) <=> s \in Seq(S) /\ Len(s) <= n
  <1>1. ASSUME s \in BoundedSeq(S, n) PROVE s \in Seq(S) /\ Len(s) <= n
    <2>1. PICK m \in 0..n : s \in [1..m -> S]
      BY <1>1 DEF BoundedSeq, SeqOf
    <2>2. s \in Seq(S)
      BY <2>1, SeqDef
    <2>3. Len(s) = m
      BY <2>1, <2>2, LenProperties
    <2> QED
      BY <2>2, <2>3
  <1>2. ASSUME s \in Seq(S), Len(s) <= n PROVE s \in BoundedSeq(S, n)
    <2>1. s \in [1..Len(s) -> S] /\ Len(s) \in 0..n
      BY <1>2, LenProperties
    <2> QED
      BY <2>1 DEF BoundedSeq, SeqOf
  <1> QED
    BY <1>1, <1>2

LEMMA SetOfSeq ==
  ASSUME NEW S, NEW s \in Seq(S)
  PROVE  ToSet(s) \subseteq S
  BY LenProperties DEF ToSet

LEMMA ElementRemoved ==
  ASSUME NEW S, NEW s \in Seq(S), NEW i \in 1..Len(s)
  PROVE  RemoveAt(s, i) \in Seq(S) /\ Len(RemoveAt(s, i)) = Len(s) - 1
  <1>1. Len(s) \in Nat
    BY LenProperties
  <1>2. SubSeq(s, 1, i-1) \in Seq(S) /\ Len(SubSeq(s, 1, i-1)) = i - 1
    BY <1>1, SubSeqProperties
  <1>3. SubSeq(s, i+1, Len(s)) \in Seq(S) /\ Len(SubSeq(s, i+1, Len(s))) = Len(s) - i
    BY <1>1, SubSeqProperties
  <1> QED
    BY <1>1, <1>2, <1>3, ConcatProperties DEF RemoveAt

LEMMA AccountLists ==
  ASSUME NEW s
  PROVE  s \in Accounts <=> s \in Seq(Boxes) /\ Len(s) <= IMAP_MAX_ACCOUNTS
  BY BoundedSeqs, ImapAssumption DEF Accounts

LEMMA TypesTogether ==
  ASSUME PlaceOK, FlagsOK, BoundsOK, ConfigOK, ScheduleOK, QueueOK, NumsOK, MailsOK
  PROVE  ImapTypeOK
  <1>1. imap_schedule \in BoundedSeq(Entries, IMAP_MAX_ACCOUNTS)
    BY BoundedSeqs, ImapAssumption DEF ScheduleOK
  <1>2. ToSet(message_nums) \subseteq Mails /\ ToSet(message_queue) \subseteq Mails
    BY SetOfSeq DEF NumsOK, QueueOK
  <1>3. (checking # 0) = (pc \in {"mails", "mark"})
    BY DEF PlaceOK
  <1>4. {seen, unsure} \subseteq SUBSET Mails
    BY DEF MailsOK
  <1> QED
    BY <1>1, <1>2, <1>3, <1>4
    DEF ImapTypeOK, PlaceOK, FlagsOK, BoundsOK, ConfigOK, FileOK, QueueOK, NumsOK, MailsOK

-----------------------------------------------------------------------------
(* The search: of any finite set of mails only so many are the latest.     *)
(* The mails later than a mail are more than those later than a later one. *)
LEMMA FewerLater ==
  ASSUME NEW S \in SUBSET Mails, NEW x \in S, NEW y \in S, x < y
  PROVE  Cardinality({n \in S : n > y}) # Cardinality({n \in S : n > x})
  <1>1. S \subseteq Nat /\ IsFiniteSet({n \in S : n > x})
    BY FS_Subset, ImapAssumption
  <1>2. {n \in S : n > y} \subseteq {n \in S : n > x}
    <2> SUFFICES ASSUME NEW n \in S, n > y PROVE n > x
      OBVIOUS
    <2>1. n \in Nat /\ x \in Nat /\ y \in Nat
      BY <1>1
    <2> QED
      BY <2>1
  <1>3. y \in {n \in S : n > x} /\ y \notin {n \in S : n > y}
    BY <1>1
  <1>4. {n \in S : n > y} # {n \in S : n > x}
    BY <1>3
  <1> QED
    BY <1>1, <1>2, <1>4, FS_Subset

LEMMA LatestFew ==
  ASSUME NEW S \in SUBSET Mails
  PROVE  /\ IsFiniteSet(Latest(S)) /\ Latest(S) \subseteq S
         /\ Cardinality(Latest(S)) \in Nat /\ Cardinality(Latest(S)) <= SEARCH_LIMIT
  <1>0. IsFiniteSet(S) /\ S \subseteq Nat /\ SEARCH_LIMIT \in Nat \ {0}
    BY FS_Subset, ImapAssumption
  <1>1. Latest(S) \subseteq S
    BY DEF Latest
  <1>2. IsFiniteSet(Latest(S)) /\ Cardinality(Latest(S)) \in Nat
    BY <1>0, <1>1, FS_Subset, FS_CardinalityType
  <1> DEFINE later == [x \in Latest(S) |-> Cardinality({n \in S : n > x})]
  <1>3. later \in [Latest(S) -> 0..SEARCH_LIMIT-1]
    <2> SUFFICES ASSUME NEW x \in Latest(S)
                 PROVE  Cardinality({n \in S : n > x}) \in 0..SEARCH_LIMIT-1
      OBVIOUS
    <2>1. Cardinality({n \in S : n > x}) \in Nat
      BY <1>0, FS_Subset, FS_CardinalityType
    <2>2. Cardinality({n \in S : n > x}) < SEARCH_LIMIT
      BY DEF Latest
    <2> QED
      BY <1>0, <2>1, <2>2
  <1>4. ASSUME NEW x \in Latest(S), NEW y \in Latest(S), x # y
        PROVE  later[x] # later[y]
    <2>1. x \in S /\ y \in S
      BY <1>1
    <2>2. x \in Nat /\ y \in Nat
      BY <1>0, <2>1
    <2>3. x < y \/ y < x
      BY <1>4, <2>2
    <2> QED
      BY <2>1, <2>3, FewerLater
  <1>5. IsFiniteSet(0..SEARCH_LIMIT-1) /\ Cardinality(0..SEARCH_LIMIT-1) = SEARCH_LIMIT
    BY <1>0, FS_Interval
  <1> HIDE DEF later
  <1>6. ~(SEARCH_LIMIT < Cardinality(Latest(S)))
    BY <1>2, <1>3, <1>4, <1>5, FS_PigeonHole
  <1> QED
    BY <1>0, <1>1, <1>2, <1>6

LEMMA FoundListed ==
  ASSUME NEW box, NEW nums \in Sorted(Found(box))
  PROVE  /\ nums \in Seq(Mails) /\ Len(nums) <= SEARCH_LIMIT
         /\ \A j, k \in 1..Len(nums) : j # k => nums[j] # nums[k]
         /\ \A j \in 1..Len(nums) : nums[j] \notin seen
  <1> DEFINE n == Cardinality(Found(box))
  <1>1. Unread(box) \subseteq Mails
    BY DEF Unread, In
  <1>2. n \in Nat /\ n <= SEARCH_LIMIT /\ Found(box) \subseteq Unread(box)
    BY <1>1, LatestFew DEF Found
  <1>3. nums \in [1..n -> Found(box)] /\ \A j, k \in 1..n : j < k => nums[j] < nums[k]
    BY DEF Sorted
  <1> HIDE DEF n
  <1>4. nums \in Seq(Mails)
    <2>1. nums \in [1..n -> Mails]
      BY <1>1, <1>2, <1>3
    <2> QED
      BY <1>2, <2>1, SeqDef
  <1>5. Len(nums) = n
    BY <1>2, <1>3, <1>4, LenProperties
  <1>6. \A j, k \in 1..n : j # k => nums[j] # nums[k]
    <2>1. \A j \in 1..n : nums[j] \in Nat
      BY <1>1, <1>2, <1>3, ImapAssumption
    <2> QED
      BY <1>2, <1>3, <2>1
  <1>7. \A j \in 1..n : nums[j] \notin seen
    BY <1>2, <1>3 DEF Unread
  <1> QED
    BY <1>2, <1>4, <1>5, <1>6, <1>7

(* The mails behind the first are unread too, and other mails.             *)
LEMMA RestListed ==
  ASSUME Listed, message_nums # <<>>
  PROVE  /\ Head(message_nums) \in Mails /\ Head(message_nums) \notin seen
         /\ Tail(message_nums) \in Seq(Mails) /\ Len(Tail(message_nums)) <= SEARCH_LIMIT
         /\ \A j, k \in 1..Len(Tail(message_nums)) :
              j # k => Tail(message_nums)[j] # Tail(message_nums)[k]
         /\ \A j \in 1..Len(Tail(message_nums)) :
              Tail(message_nums)[j] \notin seen \cup {Head(message_nums)}
  <1> DEFINE n == Len(message_nums)
  <1>1. message_nums \in Seq(Mails) /\ n \in Nat \ {0} /\ n <= SEARCH_LIMIT
    BY EmptySeq DEF Listed, NumsOK
  <1>2. Head(message_nums) = message_nums[1] /\ Head(message_nums) \in Mails
    BY <1>1, HeadTailProperties
  <1>3. /\ Tail(message_nums) \in Seq(Mails) /\ Len(Tail(message_nums)) = n - 1
        /\ \A j \in 1..n-1 : Tail(message_nums)[j] = message_nums[j+1]
    BY <1>1, HeadTailProperties
  <1>4. /\ \A j, k \in 1..n : j # k => message_nums[j] # message_nums[k]
        /\ \A j \in 1..n : message_nums[j] \notin seen
    BY DEF Listed, NumsInv
  <1> HIDE DEF n
  <1>5. \A j, k \in 1..n-1 : j # k => Tail(message_nums)[j] # Tail(message_nums)[k]
    BY <1>1, <1>3, <1>4
  <1>6. \A j \in 1..n-1 : Tail(message_nums)[j] \notin seen \cup {Head(message_nums)}
    BY <1>1, <1>2, <1>3, <1>4
  <1>7. Len(Tail(message_nums)) <= SEARCH_LIMIT
    BY <1>1, <1>3, LimitsPositive
  <1> QED
    BY <1>1, <1>2, <1>3, <1>4, <1>5, <1>6, <1>7

-----------------------------------------------------------------------------
(* What a handler makes of the accounts is a configuration like any other. *)
LEMMA DefaultTyped == Default \in Configs
  <1>1. <<>> \in Seq(Boxes) /\ Len(<<>>) <= IMAP_MAX_ACCOUNTS
    BY EmptySeq, LimitsPositive
  <1>2. <<>> \in Accounts
    BY <1>1, AccountLists
  <1> QED
    BY <1>2 DEF Default, Configs

LEMMA SavedTyped ==
  ASSUME ConfigOK, NEW config \in Configs, NEW save \in SaveOutcomes(config)
  PROVE  FileOK(save.file)
  <1>1. FileOK(<<config>>) /\ FileOK(<<>>) /\ FileOK(imap_settings)
    BY DEF FileOK, ConfigOK
  <1> QED
    BY <1>1 DEF SaveOutcomes

LEMMA WebRequests ==
  ASSUME ConfigOK, Web
  PROVE  \E config \in Configs, refused \in Configs : Request(config, refused)
  <1> DEFINE accounts == imap_config.accounts
  <1>1. imap_config \in Configs /\ accounts \in Seq(Boxes) /\ Len(accounts) <= IMAP_MAX_ACCOUNTS
    BY AccountLists DEF ConfigOK, Configs
  <1>2. \A s \in Seq(Boxes) : Len(s) <= IMAP_MAX_ACCOUNTS => With(s) \in Configs
    BY <1>1, AccountLists DEF With, Configs
  <1>3. DOMAIN accounts = 1..Len(accounts) /\ Len(accounts) \in Nat
    BY <1>1, LenProperties
  <1>4. CASE Toggle
    <2>1. [imap_config EXCEPT !.enabled = ~@] \in Configs
      BY <1>1 DEF Configs
    <2> QED
      BY <1>4, <2>1 DEF Toggle
  <1>5. ASSUME NEW box \in Boxes, AddAccount(box)
        PROVE  \E config \in Configs : Request(config, imap_config)
    <2>1. Len(accounts) < IMAP_MAX_ACCOUNTS
      BY <1>5 DEF AddAccount
    <2>2. Append(accounts, box) \in Seq(Boxes) /\ Len(Append(accounts, box)) = Len(accounts) + 1
      BY <1>1, AppendProperties
    <2>3. Len(Append(accounts, box)) <= IMAP_MAX_ACCOUNTS
      BY <1>3, <2>1, <2>2, LimitsPositive
    <2>4. With(Append(accounts, box)) \in Configs
      BY <1>2, <2>2, <2>3
    <2> QED
      BY <1>5, <2>4 DEF AddAccount
  <1>6. ASSUME NEW i \in 1..Len(accounts), DeleteAccount(i)
        PROVE  \E config \in Configs : Request(config, config)
    <2>1. With(RemoveAt(accounts, i)) \in Configs
      BY <1>1, <1>2, <1>3, ElementRemoved, LimitsPositive
    <2> QED
      BY <1>6, <2>1 DEF DeleteAccount
  <1>7. ASSUME NEW i \in 1..Len(accounts), NEW box \in Boxes, UpdateAccount(i, box)
        PROVE  \E config \in Configs : Request(config, config)
    <2>1. With([accounts EXCEPT ![i] = box]) \in Configs
      BY <1>1, <1>2, ExceptSeq
    <2> QED
      BY <1>7, <2>1 DEF UpdateAccount
  <1> QED
    BY <1>1, <1>3, <1>4, <1>5, <1>6, <1>7 DEF Web

(* Every step is one of these.                                             *)
LEMMA StepKinds ==
  ASSUME ConfigOK, [Next]_vars
  PROVE  \/ UNCHANGED vars
         \/ Setup \/ InitScheduler \/ TransportChanges
         \/ Reset /\ (UNCHANGED imap_settings \/ imap_settings' = <<>>)
         \/ \E config \in Configs, refused \in Configs : Request(config, refused)
         \/ \E i \in 1..IMAP_MAX_ACCOUNTS : CheckFails(i)
         \/ \E i \in 1..IMAP_MAX_ACCOUNTS : CheckReads(i)
         \/ MailSkipped \/ CheckEnds \/ PageSent
         \/ \E m \in Mails : MailQueued(m)
         \/ \E arrives \in BOOLEAN : MailMarked(arrives)
  BY WebRequests DEF Next, Crash, CrashInSave

-----------------------------------------------------------------------------
LEMMA ImapInitInv == Init => IInv
  <1> SUFFICES ASSUME Init PROVE IInv
    OBVIOUS
  <1>1. PlaceOK /\ FlagsOK /\ BoundsOK
    <2>1. 0 \in 0..IMAP_MAX_ACCOUNTS /\ 0 \in 0..MaxRequests /\ 0 \in 0..MaxResets
      BY LimitsPositive
    <2> QED
      BY <2>1 DEF Init, PlaceOK, FlagsOK, BoundsOK
  <1>2. Accounted
    <2>1. [enabled |-> TRUE, accounts |-> FirstAccounts] \in Configs
      BY ImapAssumption DEF Configs, Accounts
    <2>2. FileOK(<< [enabled |-> TRUE, accounts |-> FirstAccounts] >>)
      BY <2>1 DEF FileOK
    <2>3. imap_schedule \in Seq(Entries) /\ Len(imap_schedule) = 0
      BY EmptySeq DEF Init
    <2>4. EntriesInv
      BY <2>3 DEF Init, EntriesInv
    <2> QED
      BY <2>2, <2>3, <2>4, DefaultTyped, LimitsPositive DEF Init, Accounted, ConfigOK, ScheduleOK
  <1>3. QueueOK /\ Listed
    BY EmptySeq, LimitsPositive DEF Init, QueueOK, Listed, NumsOK, NumsInv
  <1>4. Marked
    BY DEF Init, Marked, MailsOK, MarkInv, SeenMailPaged, OnePagePerMail
  <1> QED
    BY <1>1, <1>2, <1>3, <1>4 DEF IInv

-----------------------------------------------------------------------------
(* Places, flags and bounds.                                               *)
LEMMA PlaceStays ==
  ASSUME PlaceOK, FlagsOK, BoundsOK, ConfigOK, [Next]_vars
  PROVE  PlaceOK' /\ FlagsOK' /\ BoundsOK'
  <1>1. CASE UNCHANGED vars
    BY <1>1 DEF vars, PlaceOK, FlagsOK, BoundsOK
  <1>2. CASE Setup \/ TransportChanges \/ PageSent
    BY <1>2 DEF Setup, Load, TransportChanges, PageSent, PlaceOK, FlagsOK, BoundsOK
  <1>3. CASE InitScheduler
    <2>1. PlaceOK' /\ BoundsOK'
      BY <1>3 DEF InitScheduler, PlaceOK, BoundsOK
    <2>2. FlagsOK'
      BY <1>3, Zenon DEF InitScheduler, FlagsOK
    <2> QED
      BY <2>1, <2>2
  <1>4. CASE Reset
    <2>1. resets < MaxResets /\ resets' = resets + 1 /\ requests' = requests
      BY <1>4 DEF Reset
    <2>2. BoundsOK'
      BY <2>1, LimitsPositive DEF BoundsOK
    <2>3. 0 \in 0..IMAP_MAX_ACCOUNTS
      BY LimitsPositive
    <2> QED
      BY <1>4, <2>2, <2>3 DEF Reset, PlaceOK, FlagsOK
  <1>5. ASSUME NEW config, NEW refused, Request(config, refused)
        PROVE  PlaceOK' /\ FlagsOK' /\ BoundsOK'
    BY <1>5, LimitsPositive DEF Request, PlaceOK, FlagsOK, BoundsOK
  <1>6. ASSUME NEW i \in 1..IMAP_MAX_ACCOUNTS, CheckFails(i) \/ CheckReads(i)
        PROVE  PlaceOK' /\ FlagsOK' /\ BoundsOK'
    BY <1>6, LimitsPositive DEF CheckFails, CheckReads, Picked, PlaceOK, FlagsOK, BoundsOK
  <1>7. CASE MailSkipped \/ CheckEnds
    BY <1>7, LimitsPositive DEF MailSkipped, Skipped, CheckEnds, PlaceOK, FlagsOK, BoundsOK
  <1>8. ASSUME NEW m \in Mails, MailQueued(m)
        PROVE  PlaceOK' /\ FlagsOK' /\ BoundsOK'
    BY <1>8 DEF MailQueued, PlaceOK, FlagsOK, BoundsOK
  <1>9. ASSUME NEW arrives, MailMarked(arrives)
        PROVE  PlaceOK' /\ FlagsOK' /\ BoundsOK'
    BY <1>9 DEF MailMarked, PlaceOK, FlagsOK, BoundsOK
  <1> QED
    BY <1>1, <1>2, <1>3, <1>4, <1>5, <1>6, <1>7, <1>8, <1>9, StepKinds

-----------------------------------------------------------------------------
(* The accounts and the schedule built from them.                          *)
LEMMA ScheduleBuilt ==
  ASSUME ConfigOK, InitScheduler
  PROVE  ScheduleOK' /\ EntriesInv'
  <1> DEFINE n == Len(imap_config.accounts)
  <1>1. n \in Nat /\ n <= IMAP_MAX_ACCOUNTS /\ DOMAIN imap_config.accounts = 1..n
    BY AccountLists, LenProperties DEF ConfigOK, Configs
  <1>2. UNCHANGED imap_config /\ pc' = "loop"
    BY DEF InitScheduler
  <1> HIDE DEF n
  <1>3. CASE changed' /\ imap_schedule' = <<>>
    BY <1>3, EmptySeq, LimitsPositive DEF ScheduleOK, EntriesInv
  <1>4. CASE ~changed' /\ imap_schedule' = [i \in 1..n |-> Entry(i)]
    <2>1. \A i \in 1..n : Entry(i) \in Entries
      BY <1>1, LimitsPositive DEF Entry, Entries
    <2>2. imap_schedule' \in [1..n -> Entries]
      BY <1>4, <2>1
    <2>3. imap_schedule' \in Seq(Entries)
      BY <1>1, <2>2, SeqDef
    <2>4. Len(imap_schedule') = n
      BY <1>1, <2>2, <2>3, LenProperties
    <2> QED
      BY <1>1, <1>2, <1>4, <2>3, <2>4, LimitsPositive DEF ScheduleOK, EntriesInv, Entry, n
  <1> QED
    BY <1>1, <1>3, <1>4 DEF InitScheduler

LEMMA FailureCounted ==
  ASSUME Accounted, NEW i \in 1..IMAP_MAX_ACCOUNTS, CheckFails(i)
  PROVE  ScheduleOK' /\ EntriesInv'
  <1> DEFINE e == imap_schedule[i]
             failed == e.failed_attempts + 1
             new == [e EXCEPT !.failed_attempts = failed, !.suspended = Suspends(failed)]
  <1>1. imap_schedule \in Seq(Entries) /\ i \in 1..Len(imap_schedule) /\ ~e.suspended
    BY LenProperties DEF CheckFails, Picked, Accounted, ScheduleOK
  <1>2. e \in Entries /\ e.account_id = i /\ e.failed_attempts < MAX_ATTEMPTS
    BY <1>1, ElementOfSeq DEF Accounted, EntriesInv
  <1>3. imap_schedule' = [imap_schedule EXCEPT ![i] = new]
    BY <1>1, LenProperties DEF CheckFails
  <1>4. /\ new \in Entries /\ new.account_id = i
        /\ ~new.suspended => new.failed_attempts < MAX_ATTEMPTS
    <2>1. Suspends(failed) \in BOOLEAN
      BY DEF Suspends
    <2>2. failed \in 0..MAX_ATTEMPTS
      BY <1>2, LimitsPositive DEF Entries
    <2>3. /\ new.failed_attempts = failed /\ new.suspended = Suspends(failed)
          /\ new.account_id = i /\ new \in Entries
      BY <1>2, <2>1, <2>2 DEF Entries
    <2>4. CASE failed >= MAX_ATTEMPTS
      BY <2>3, <2>4 DEF Suspends
    <2>5. CASE ~(failed >= MAX_ATTEMPTS)
      BY <2>2, <2>3, <2>5, LimitsPositive
    <2> QED
      BY <2>4, <2>5
  <1> HIDE DEF new
  <1>5. /\ imap_schedule' \in Seq(Entries) /\ Len(imap_schedule') = Len(imap_schedule)
        /\ \A j \in 1..Len(imap_schedule) : imap_schedule'[j] = IF j = i THEN new ELSE imap_schedule[j]
    BY <1>1, <1>3, <1>4, ExceptSeq
  <1>6. UNCHANGED <<pc, changed, imap_config>>
    BY DEF CheckFails
  <1> QED
    BY <1>4, <1>5, <1>6 DEF Accounted, ScheduleOK, EntriesInv

LEMMA FailuresForgotten ==
  ASSUME PlaceOK, Accounted, CheckEnds
  PROVE  ScheduleOK' /\ EntriesInv'
  <1> DEFINE e == imap_schedule[checking]
             new == [e EXCEPT !.failed_attempts = 0]
  <1>1. imap_schedule \in Seq(Entries)
    BY DEF Accounted, ScheduleOK
  <1>2. imap_schedule' = [imap_schedule EXCEPT ![checking] = new]
    BY DEF CheckEnds
  <1>3. pc \in {"loop", "mails", "mark"} /\ pc' = "loop" /\ UNCHANGED <<changed, imap_config>>
    BY DEF CheckEnds
  <1>4. CASE checking \in 1..Len(imap_schedule)
    <2>1. e \in Entries /\ e.account_id = checking
      BY <1>1, <1>4, ElementOfSeq DEF Accounted, EntriesInv
    <2>2. new \in Entries /\ new.account_id = checking /\ new.failed_attempts < MAX_ATTEMPTS
      BY <2>1, LimitsPositive DEF Entries
    <2> HIDE DEF new
    <2>3. /\ imap_schedule' \in Seq(Entries) /\ Len(imap_schedule') = Len(imap_schedule)
          /\ \A j \in 1..Len(imap_schedule) :
               imap_schedule'[j] = IF j = checking THEN new ELSE imap_schedule[j]
      BY <1>1, <1>2, <1>4, <2>2, ExceptSeq
    <2> QED
      BY <1>3, <2>2, <2>3 DEF Accounted, ScheduleOK, EntriesInv
  <1>5. CASE checking \notin 1..Len(imap_schedule)
    <2>1. imap_schedule' = imap_schedule
      BY <1>1, <1>2, <1>5, LenProperties
    <2> QED
      BY <1>3, <2>1 DEF Accounted, ScheduleOK, EntriesInv
  <1> QED
    BY <1>4, <1>5

LEMMA AccountsStay ==
  ASSUME PlaceOK, Accounted, [Next]_vars
  PROVE  Accounted'
  <1> USE DEF Accounted
  <1>0. UNCHANGED <<imap_config, imap_settings, imap_schedule>> => ConfigOK' /\ ScheduleOK'
    BY DEF ConfigOK, ScheduleOK
  <1>1. CASE UNCHANGED vars \/ TransportChanges \/ PageSent
    BY <1>0, <1>1 DEF vars, TransportChanges, PageSent, EntriesInv
  <1>2. CASE Setup
    <2>1. ConfigOK'
      BY <1>2, DefaultTyped, SavedTyped DEF Setup, Load, ConfigOK, FileOK
    <2> QED
      BY <1>2, <2>1 DEF Setup, ScheduleOK, EntriesInv
  <1>3. CASE InitScheduler
    <2>1. ConfigOK'
      BY <1>3 DEF InitScheduler, ConfigOK
    <2> QED
      BY <1>3, <2>1, ScheduleBuilt
  <1>4. CASE Reset /\ (UNCHANGED imap_settings \/ imap_settings' = <<>>)
    <2>1. ConfigOK'
      BY <1>4, DefaultTyped DEF Reset, ConfigOK, FileOK
    <2>2. ScheduleOK' /\ EntriesInv'
      BY <1>4, EmptySeq, LimitsPositive DEF Reset, ScheduleOK, EntriesInv
    <2> QED
      BY <2>1, <2>2
  <1>5. ASSUME NEW config \in Configs, NEW refused \in Configs, Request(config, refused)
        PROVE  Accounted'
    <2>1. ConfigOK'
      BY <1>5, SavedTyped DEF Request, ConfigOK
    <2> QED
      BY <1>5, <2>1 DEF Request, ScheduleOK, EntriesInv
  <1>6. ASSUME NEW i \in 1..IMAP_MAX_ACCOUNTS, CheckFails(i)
        PROVE  Accounted'
    <2>1. ConfigOK'
      BY <1>6 DEF CheckFails, ConfigOK
    <2> QED
      BY <1>6, <2>1, FailureCounted
  <1>7. ASSUME NEW i \in 1..IMAP_MAX_ACCOUNTS, CheckReads(i)
        PROVE  Accounted'
    BY <1>0, <1>7 DEF CheckReads, Picked, EntriesInv
  <1>8. CASE CheckEnds
    <2>1. ConfigOK'
      BY <1>8 DEF CheckEnds, ConfigOK
    <2> QED
      BY <1>8, <2>1, FailuresForgotten
  <1>9. CASE MailSkipped
    BY <1>0, <1>9 DEF MailSkipped, Skipped, EntriesInv
  <1>10. ASSUME NEW m \in Mails, MailQueued(m)
         PROVE  Accounted'
    BY <1>0, <1>10 DEF MailQueued, EntriesInv
  <1>11. ASSUME NEW arrives, MailMarked(arrives)
         PROVE  Accounted'
    BY <1>0, <1>11 DEF MailMarked, EntriesInv
  <1> QED
    BY <1>1, <1>2, <1>3, <1>4, <1>5, <1>6, <1>7, <1>8, <1>9, <1>10, <1>11, StepKinds

-----------------------------------------------------------------------------
(* The queue and the mails of the check.                                   *)
LEMMA QueueStays ==
  ASSUME ConfigOK, NumsOK, QueueOK, [Next]_vars
  PROVE  QueueOK'
  <1> USE DEF QueueOK
  <1>1. CASE UNCHANGED message_queue
    BY <1>1
  <1>2. CASE Reset
    BY <1>2, EmptySeq, LimitsPositive DEF Reset
  <1>3. ASSUME NEW m \in Mails, MailQueued(m)
        PROVE  QueueOK'
    <2>1. Len(message_queue) < MAX_QUEUE_SIZE /\ message_queue' = Append(message_queue, m)
      BY <1>3 DEF MailQueued
    <2>2. message_queue' \in Seq(Mails) /\ Len(message_queue') = Len(message_queue) + 1
      BY <2>1, AppendProperties
    <2> QED
      BY <2>1, <2>2, LenProperties, LimitsPositive
  <1>4. CASE PageSent
    <2>1. message_queue # <<>> /\ message_queue' = Tail(message_queue)
      BY <1>4 DEF PageSent
    <2>2. message_queue' \in Seq(Mails) /\ Len(message_queue') = Len(message_queue) - 1
      BY <2>1, HeadTailProperties
    <2> QED
      BY <2>2, LenProperties, LimitsPositive
  <1> QED
    BY <1>1, <1>2, <1>3, <1>4, StepKinds
    DEF vars, Setup, InitScheduler, TransportChanges, Request, CheckFails, CheckReads,
        MailSkipped, CheckEnds, MailMarked

LEMMA ListStays ==
  ASSUME ConfigOK, Listed, MarkInv, [Next]_vars
  PROVE  Listed'
  <1> USE DEF Listed, NumsOK, NumsInv
  <1>1. CASE UNCHANGED <<message_nums, seen>>
    BY <1>1
  <1>2. CASE message_nums' = <<>>
    BY <1>2, EmptySeq, LimitsPositive
  <1>3. ASSUME NEW i \in 1..IMAP_MAX_ACCOUNTS, CheckReads(i)
        PROVE  Listed'
    BY <1>3, FoundListed DEF CheckReads
  <1>4. CASE MailSkipped
    BY <1>4, RestListed DEF MailSkipped, Skipped
  <1>5. ASSUME NEW arrives \in BOOLEAN, MailMarked(arrives)
        PROVE  Listed'
    <2>1. message_nums # <<>>
      BY <1>5 DEF MailMarked, MarkInv
    <2>2. seen' \subseteq seen \cup {Head(message_nums)} /\ message_nums' = Tail(message_nums)
      BY <1>5 DEF MailMarked
    <2> QED
      BY <2>1, <2>2, RestListed
  <1> QED
    BY <1>1, <1>2, <1>3, <1>4, <1>5, StepKinds
    DEF vars, Setup, InitScheduler, TransportChanges, Reset, Request, CheckFails,
        MailQueued, CheckEnds, PageSent

(* A page for a mail, its mark, and what a reset in between leaves.        *)
LEMMA MailQueuedOnce ==
  ASSUME Listed, Marked, NEW m \in Mails, MailQueued(m)
  PROVE  Marked'
  <1> USE DEF Marked, MailsOK
  <1>1. /\ pc = "mails" /\ message_nums # <<>> /\ m = Head(message_nums) /\ pc' = "mark"
        /\ UNCHANGED <<message_nums, seen, unsure>>
    BY DEF MailQueued
  <1>2. m \notin seen
    BY <1>1, RestListed
  <1>3. /\ paged' \in [Mails -> 0..2] /\ paged'[m] = (IF paged[m] = 0 THEN 1 ELSE 2)
        /\ \A n \in Mails \ {m} : paged'[n] = paged[n]
    BY DEF MailQueued
  <1>4. paged[m] > 0 => m \in unsure
    BY <1>1, <1>2 DEF MarkInv
  <1>5. MarkInv'
    BY <1>1, <1>3 DEF MarkInv
  <1>6. SeenMailPaged'
    BY <1>1, <1>2, <1>3 DEF SeenMailPaged
  <1>7. OnePagePerMail'
    <2> SUFFICES ASSUME NEW n \in Mails, paged'[n] > 1 PROVE n \in unsure'
      BY DEF OnePagePerMail
    <2>1. CASE n = m
      BY <1>1, <1>3, <1>4, <2>1
    <2>2. CASE n # m
      BY <1>1, <1>3, <2>2 DEF OnePagePerMail
    <2> QED
      BY <2>1, <2>2
  <1> QED
    BY <1>1, <1>3, <1>5, <1>6, <1>7

LEMMA MarksStay ==
  ASSUME ConfigOK, PlaceOK, Listed, Marked, [Next]_vars
  PROVE  Marked'
  <1> USE DEF Marked, MailsOK
  <1>1. CASE UNCHANGED mailVars /\ (UNCHANGED <<pc, message_nums>> \/ (pc # "mark" /\ pc' # "mark"))
    BY <1>1 DEF MarkInv, SeenMailPaged, OnePagePerMail
  <1>2. CASE Reset
    <2>1. pc' # "mark" /\ UNCHANGED <<seen, paged>>
      BY <1>2 DEF Reset
    <2>2. unsure' = unsure \cup (IF pc = "mark" THEN {Head(message_nums)} ELSE {})
      BY <1>2 DEF Reset
    <2>3. pc = "mark" => Head(message_nums) \in Mails
      BY RestListed DEF MarkInv
    <2> QED
      BY <2>1, <2>2, <2>3 DEF MarkInv, SeenMailPaged, OnePagePerMail
  <1>3. ASSUME NEW m \in Mails, MailQueued(m)
        PROVE  Marked'
    BY <1>3, MailQueuedOnce
  <1>4. ASSUME NEW arrives \in BOOLEAN, MailMarked(arrives)
        PROVE  Marked'
    <2> DEFINE h == Head(message_nums)
    <2>1. pc = "mark" /\ pc' = "mails" /\ h \in Mails /\ paged[h] > 0 /\ UNCHANGED paged
      BY <1>4, RestListed DEF MailMarked, MarkInv
    <2>2. \/ seen' = seen \cup {h} /\ UNCHANGED unsure
          \/ unsure' = unsure \cup {h} /\ UNCHANGED seen
      BY <1>4 DEF MailMarked
    <2> HIDE DEF h
    <2>3. MarkInv'
      BY <2>1, <2>2 DEF MarkInv, h
    <2> QED
      BY <2>1, <2>2, <2>3 DEF SeenMailPaged, OnePagePerMail
  <1>5. CASE \/ UNCHANGED vars \/ Setup \/ InitScheduler \/ TransportChanges
             \/ MailSkipped \/ CheckEnds \/ PageSent
    BY <1>1, <1>5 DEF vars, Setup, InitScheduler, TransportChanges, MailSkipped, Skipped,
                      CheckEnds, PageSent
  <1>6. ASSUME NEW config, NEW refused, Request(config, refused)
        PROVE  Marked'
    BY <1>1, <1>6 DEF Request
  <1>7. ASSUME NEW i \in 1..IMAP_MAX_ACCOUNTS, CheckFails(i) \/ CheckReads(i)
        PROVE  Marked'
    BY <1>1, <1>7 DEF CheckFails, CheckReads, Picked
  <1> QED
    BY <1>2, <1>3, <1>4, <1>5, <1>6, <1>7, StepKinds

-----------------------------------------------------------------------------
LEMMA ImapNextInv == IInv /\ [Next]_vars => IInv'
  <1> SUFFICES ASSUME IInv, [Next]_vars PROVE IInv'
    OBVIOUS
  <1>1. ConfigOK /\ NumsOK /\ MarkInv
    BY DEF IInv, Accounted, Listed, Marked
  <1>2. PlaceOK' /\ FlagsOK' /\ BoundsOK' /\ Accounted'
    BY <1>1, PlaceStays, AccountsStay DEF IInv
  <1>3. QueueOK' /\ Listed' /\ Marked'
    BY <1>1, QueueStays, ListStays, MarksStay DEF IInv
  <1> QED
    BY <1>2, <1>3 DEF IInv

LEMMA ImapAlways == Spec => []IInv
  BY ImapInitInv, ImapNextInv, PTL DEF Spec

(* The schedule is typed and within its table, a failing account is        *)
(* suspended at the limit and not counted further, no search lists more    *)
(* than its limit, the queue keeps within its room, and every account has  *)
(* its entry while no handler has changed them (init_imap_scheduler,       *)
(* imap_scheduler_loop, imap_check_account_clean).                         *)
THEOREM MailSound == Spec => []ImapInv
  <1>1. IInv => ImapTypeOK
    BY TypesTogether DEF IInv, Accounted, Listed, Marked
  <1>2. ASSUME IInv PROVE AccountsScheduled
    <2> SUFFICES ASSUME pc \in {"loop", "mails", "mark"}, ~changed,
                        NEW i \in DOMAIN imap_config.accounts
                 PROVE  \E j \in DOMAIN imap_schedule : imap_schedule[j].account_id = i
      BY DEF AccountsScheduled
    <2>1. imap_config.accounts \in Seq(Boxes) /\ imap_schedule \in Seq(Entries)
      BY <1>2, AccountLists DEF IInv, Accounted, ConfigOK, ScheduleOK, Configs
    <2>2. i \in 1..Len(imap_schedule)
      BY <1>2, <2>1, LenProperties DEF IInv, Accounted, EntriesInv
    <2>3. imap_schedule[i].account_id = i
      BY <1>2, <2>2 DEF IInv, Accounted, EntriesInv
    <2> QED
      BY <2>1, <2>2, <2>3, LenProperties
  <1>3. IInv => ImapInv
    BY <1>1, <1>2 DEF ImapInv
  <1> QED
    BY <1>3, ImapAlways, PTL

(* A mail is read on the server only after its page was queued             *)
(* (process_message_clean).                                                *)
THEOREM SeenMailsPaged == Spec => []SeenMailPaged
  <1>1. IInv => SeenMailPaged
    BY DEF IInv, Marked
  <1> QED
    BY <1>1, ImapAlways, PTL

(* A mail is paged once, but for a mark that was lost or a reset before    *)
(* the mark (process_message_clean, imap_check_account_clean).             *)
THEOREM MailsPagedOnce == Spec => []OnePagePerMail
  <1>1. IInv => OnePagePerMail
    BY DEF IInv, Marked
  <1> QED
    BY <1>1, ImapAlways, PTL
=============================================================================
