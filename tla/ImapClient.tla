----------------------------- MODULE ImapClient -----------------------------
(***************************************************************************)
(* The IMAP client (imap.cpp): mails become pages.                         *)
(*                                                                         *)
(* A check of an account lists its unread mails, queues a page for each    *)
(* and marks the mail as seen on the server, in this order and over a      *)
(* connection whose answer to the mark is not looked at.  Core 0 takes the *)
(* pages from the queue in RAM; a reset may come at every step.            *)
(*                                                                         *)
(* The schedule is built once, at the end of the boot, and names accounts  *)
(* by their number.  The web handlers change the accounts afterwards, and  *)
(* a check reads the account it names from the file.                       *)
(*                                                                         *)
(* An account is the mailbox it reads; its id is always its position + 1   *)
(* (load, add and delete keep it so).  Reading is by BODY.PEEK, which does *)
(* not mark.  The interval of an entry may be over or not.                 *)
(***************************************************************************)
EXTENDS Integers, Sequences, FiniteSets, SequencesExt

CONSTANTS
  Boxes,              \* mailboxes, each with the name of its account
  Mails, BoxOf,       \* Mails: the UIDs
  Unreadable,         \* mails that no attempt can fetch or page
  IMAP_MAX_ACCOUNTS,  \* 5
  MAX_ATTEMPTS,       \* 5, failed checks until an account is suspended
  SEARCH_LIMIT,       \* 10
  MAX_QUEUE_SIZE,     \* 25
  FirstAccounts,      \* the accounts in the file at first
  MaxRequests, MaxResets  \* bounds: changes of the accounts; resets

ASSUME ImapAssumption ==
  /\ Mails \subseteq Nat /\ IsFiniteSet(Mails) /\ BoxOf \in [Mails -> Boxes]
  /\ Unreadable \subseteq Mails
  /\ {IMAP_MAX_ACCOUNTS, MAX_ATTEMPTS, SEARCH_LIMIT, MAX_QUEUE_SIZE} \subseteq Nat \ {0}
  /\ FirstAccounts \in BoundedSeq(Boxes, IMAP_MAX_ACCOUNTS)
  /\ {MaxRequests, MaxResets} \subseteq Nat

VARIABLES
  pc,                   \* setup, the boot phases, loop, and inside a check
  imap_config,
  imap_settings,        \* the file: one configuration, or none that parses
  imap_schedule, imap_system_enabled,
  imap_suspended_on_gsm,
  checking, message_nums,  \* the check in progress: its entry and its mails
  message_queue,
  seen,                 \* on the server
  paged,                \* history: how often it was queued (0, 1, more)
  unsure,               \* history: mails whose mark did not arrive
  changed,              \* history: since the schedule was built, or none was
  requests, resets

configVars   == <<imap_config, imap_settings, requests>>
scheduleVars == <<imap_schedule, imap_system_enabled, changed>>
checkVars    == <<checking, message_nums>>
mailVars     == <<seen, paged, unsure>>
vars == <<pc, configVars, scheduleVars, imap_suspended_on_gsm, checkVars,
          mailVars, message_queue, resets>>

Accounts == BoundedSeq(Boxes, IMAP_MAX_ACCOUNTS)
Configs  == [enabled : BOOLEAN, accounts : Accounts]
Default  == [enabled |-> FALSE, accounts |-> <<>>]

Init ==
  /\ pc = "setup" /\ imap_config = Default
  /\ imap_settings = << [enabled |-> TRUE, accounts |-> FirstAccounts] >>
  /\ imap_schedule = <<>> /\ imap_system_enabled = FALSE
  /\ imap_suspended_on_gsm = FALSE
  /\ checking = 0 /\ message_nums = <<>> /\ message_queue = <<>>
  /\ seen = {} /\ paged = [m \in Mails |-> 0]
  /\ unsure = {} /\ changed = FALSE
  /\ requests = 0 /\ resets = 0

-----------------------------------------------------------------------------
(*                       The file and the boot                             *)

(* save_imap_config truncates, then writes: what it answers and leaves.    *)
SaveOutcomes(config) ==
  { [answer |-> TRUE,  file |-> << config >>],
    [answer |-> FALSE, file |-> imap_settings],  \* not locked, not opened
    [answer |-> FALSE, file |-> <<>>] }          \* not written

(* load_imap_config: what cannot be opened or parsed is replaced, also in  *)
(* the file.                                                               *)
Load(opened) ==
  IF opened /\ imap_settings # <<>>
  THEN imap_config' = Head(imap_settings) /\ UNCHANGED imap_settings
  ELSE /\ imap_config' = Default
       /\ \E save \in SaveOutcomes(Default) : imap_settings' = save.file

Setup ==
  /\ pc = "setup" /\ pc' = "boot"
  /\ \E opened \in BOOLEAN : Load(opened)
  /\ UNCHANGED <<requests, scheduleVars, imap_suspended_on_gsm, checkVars,
                 mailVars, message_queue, resets>>

\* Mutant: the entries are numbered from 0.
EntryOfIndex(i) == [account_id |-> i - 1, failed_attempts |-> 0, suspended |-> FALSE]
Entry(i) == [account_id |-> i, failed_attempts |-> 0, suspended |-> FALSE]

(* BOOT_SERVICES_PENDING with init_imap_scheduler, once, and only on WiFi. *)
InitScheduler ==
  /\ pc = "boot" /\ pc' = "loop"
  /\ LET starts == ~imap_suspended_on_gsm /\ imap_config.enabled /\ imap_config.accounts # <<>>
     IN /\ imap_system_enabled' = starts /\ changed' = ~starts
        /\ imap_schedule' = IF starts THEN [i \in DOMAIN imap_config.accounts |-> Entry(i)] ELSE <<>>
  /\ UNCHANGED <<configVars, imap_suspended_on_gsm, checkVars, mailVars, message_queue, resets>>

(* RAM is lost: the pages in the queue, the schedule, the check.           *)
Reset ==
  /\ pc # "setup" /\ resets < MaxResets
  /\ pc' = "setup" /\ imap_config' = Default
  /\ imap_schedule' = <<>> /\ imap_system_enabled' = FALSE /\ changed' = FALSE
  /\ imap_suspended_on_gsm' = FALSE
  /\ checking' = 0 /\ message_nums' = <<>> /\ message_queue' = <<>>
  /\ unsure' = unsure \union (IF pc = "mark" THEN {Head(message_nums)} ELSE {})
  /\ resets' = resets + 1
  /\ UNCHANGED <<requests, seen, paged>>

Crash == Reset /\ UNCHANGED imap_settings
(* Between the truncation and the write of a save.                         *)
CrashInSave == pc \in {"boot", "loop"} /\ Reset /\ imap_settings' = <<>>

(* on_network_changed                                                      *)
TransportChanges ==
  /\ pc \in {"boot", "loop"}
  /\ imap_suspended_on_gsm' = ~imap_suspended_on_gsm
  /\ UNCHANGED <<pc, configVars, scheduleVars, checkVars, mailVars, message_queue, resets>>

-----------------------------------------------------------------------------
(*                          The web handlers                               *)

(* A handler has made config of the accounts and saves it; refused is what *)
(* it leaves in RAM when the save fails.                                   *)
Request(config, refused) ==
  /\ pc \in {"boot", "loop"} /\ requests < MaxRequests
  /\ \E save \in SaveOutcomes(config) :
       /\ imap_settings' = save.file
       /\ imap_config' = IF save.answer THEN config ELSE refused
  /\ requests' = requests + 1
  /\ changed' = TRUE
  /\ UNCHANGED <<pc, imap_schedule, imap_system_enabled, imap_suspended_on_gsm, checkVars,
                 mailVars, message_queue, resets>>

With(accounts) == [imap_config EXCEPT !.accounts = accounts]

Toggle == LET config == [imap_config EXCEPT !.enabled = ~@] IN Request(config, config)

AddAccount(box) ==
  /\ Len(imap_config.accounts) < IMAP_MAX_ACCOUNTS
  /\ box \notin ToSet(imap_config.accounts)
  /\ Request(With(Append(imap_config.accounts, box)), imap_config)

(* The accounts behind the deleted one are renumbered; the schedule is not. *)
DeleteAccount(i) ==
  LET config == With(RemoveAt(imap_config.accounts, i)) IN Request(config, config)

(* Unlike the add, the update does not look for a second account.          *)
UpdateAccount(i, box) ==
  LET config == With([imap_config.accounts EXCEPT ![i] = box]) IN Request(config, config)

Web ==
  \/ Toggle
  \/ \E box \in Boxes : AddAccount(box)
  \/ \E i \in DOMAIN imap_config.accounts :
       DeleteAccount(i) \/ \E box \in Boxes : UpdateAccount(i, box)

-----------------------------------------------------------------------------
(*                               A check                                   *)

(* The loop's gate, and an entry whose interval is over.                   *)
Picked(i) ==
  /\ pc = "loop" /\ imap_config.enabled /\ imap_config.accounts # <<>>
  /\ ~imap_suspended_on_gsm /\ imap_system_enabled
  /\ i \in DOMAIN imap_schedule /\ ~imap_schedule[i].suspended

(* load_account_from_config: by number, from the file.                     *)
Readable(i) ==
  /\ imap_settings # <<>>
  /\ imap_schedule[i].account_id \in DOMAIN Head(imap_settings).accounts
Box(i) == Head(imap_settings).accounts[imap_schedule[i].account_id]

In(box) == {m \in Mails : BoxOf[m] = box}
\* Mutant: seen mails are found as well.
FoundAll(box) == In(box)
Unread(box) == In(box) \ seen
Latest(mails) == {m \in mails : Cardinality({n \in mails : n > m}) < SEARCH_LIMIT}
\* Mutant: the limit is applied before the mails that are seen are left out.
FoundAmongLatest(box) == Latest(In(box)) \ seen
(* UID SEARCH UNSEEN, at most so many, from the latest.                    *)
Found(box) == Latest(Unread(box))

(* The only order the sort leaves them in.                                 *)
Sorted(mails) == {nums \in [1..Cardinality(mails) -> mails] :
                    \A j, k \in DOMAIN nums : j < k => nums[j] < nums[k]}

Suspends(failed) == failed >= MAX_ATTEMPTS

(* No such account, or no connection, login, INBOX or search.              *)
CheckFails(i) ==
  /\ Picked(i)
  /\ LET failed == imap_schedule[i].failed_attempts + 1
     IN imap_schedule' = [imap_schedule EXCEPT ![i].failed_attempts = failed,
                                               ![i].suspended = Suspends(failed)]
  /\ UNCHANGED <<pc, configVars, imap_system_enabled, changed, imap_suspended_on_gsm,
                 checkVars, mailVars, message_queue, resets>>

(* The search answers with the latest unread mails; they are sorted.       *)
CheckReads(i) ==
  /\ Picked(i) /\ Readable(i)
  /\ message_nums' \in Sorted(Found(Box(i)))
  /\ checking' = i /\ pc' = "mails"
  /\ UNCHANGED <<configVars, scheduleVars, imap_suspended_on_gsm, mailVars, message_queue, resets>>

\* Mutant: a mail is left to be marked whether or not its page was queued.
SkippedToMark == [pc |-> "mark", nums |-> message_nums]
Skipped == [pc |-> "mails", nums |-> Tail(message_nums)]

(* Not fetched, or the page is refused for its capcode: next mail.         *)
MailSkipped ==
  /\ pc = "mails" /\ message_nums # <<>> /\ Len(message_queue) < MAX_QUEUE_SIZE
  /\ pc' = Skipped.pc /\ message_nums' = Skipped.nums
  /\ UNCHANGED <<configVars, scheduleVars, imap_suspended_on_gsm, checking,
                 mailVars, message_queue, resets>>

MailQueued(m) ==
  /\ pc = "mails" /\ message_nums # <<>> /\ m = Head(message_nums)
  /\ m \notin Unreadable
  /\ Len(message_queue) < MAX_QUEUE_SIZE
  /\ message_queue' = Append(message_queue, m)
  /\ paged' = [paged EXCEPT ![m] = IF @ = 0 THEN 1 ELSE 2]
  /\ pc' = "mark"
  /\ UNCHANGED <<configVars, scheduleVars, imap_suspended_on_gsm, checkVars,
                 seen, unsure, resets>>

(* UID STORE +FLAGS (\Seen), whose answer is ignored.                      *)
MailMarked(arrives) ==
  /\ pc = "mark" /\ pc' = "mails"
  /\ LET m == Head(message_nums)
     IN IF arrives THEN seen' = seen \union {m} /\ UNCHANGED unsure
                   ELSE unsure' = unsure \union {m} /\ UNCHANGED seen
  /\ message_nums' = Tail(message_nums)
  /\ UNCHANGED <<configVars, scheduleVars, imap_suspended_on_gsm, checking, paged,
                 message_queue, resets>>

(* All mails looked at, or the queue is full.                              *)
CheckEnds ==
  /\ pc = "mails" /\ pc' = "loop"
  /\ message_nums = <<>> \/ Len(message_queue) >= MAX_QUEUE_SIZE
  /\ imap_schedule' = [imap_schedule EXCEPT ![checking].failed_attempts = 0]
  /\ checking' = 0 /\ message_nums' = <<>>
  /\ UNCHANGED <<configVars, imap_system_enabled, changed, imap_suspended_on_gsm,
                 mailVars, message_queue, resets>>

(* Core 0: the page leaves the queue when it has been sent.                *)
PageSent ==
  /\ message_queue # <<>>
  /\ message_queue' = Tail(message_queue)
  /\ UNCHANGED <<pc, configVars, scheduleVars, imap_suspended_on_gsm, checkVars,
                 mailVars, resets>>

-----------------------------------------------------------------------------
Next ==
  \/ Setup \/ InitScheduler \/ Crash \/ CrashInSave \/ TransportChanges
  \/ Web
  \/ \E i \in 1..IMAP_MAX_ACCOUNTS : CheckFails(i) \/ CheckReads(i)
  \/ MailSkipped \/ CheckEnds \/ PageSent
  \/ \E m \in Mails : MailQueued(m)
  \/ \E arrives \in BOOLEAN : MailMarked(arrives)

Spec == Init /\ [][Next]_vars

(* loop and Core 0 go on, intervals end; a server, and a mail that can be  *)
(* fetched at all, that is asked for again and again is got at some time,  *)
(* and a mark that is sent again and again arrives.                        *)
FairSpec ==
  /\ Spec
  /\ WF_vars(Setup) /\ WF_vars(InitScheduler) /\ WF_vars(CheckEnds) /\ WF_vars(PageSent)
  /\ WF_vars(\E arrives \in BOOLEAN : MailMarked(arrives)) /\ SF_vars(MailMarked(TRUE))
  /\ WF_vars(MailSkipped \/ \E m \in Mails : MailQueued(m))
  /\ \A i \in 1..IMAP_MAX_ACCOUNTS : SF_vars(CheckReads(i))
  /\ \A m \in Mails \ Unreadable : SF_vars(MailQueued(m))

-----------------------------------------------------------------------------
(*                             Properties                                  *)

Entries == [account_id : 1..IMAP_MAX_ACCOUNTS,
            failed_attempts : 0..MAX_ATTEMPTS, suspended : BOOLEAN]

(* The type invariant: the accounts stay within their table, the failures  *)
(* of an entry stop at the limit that suspends it, and the queue holds     *)
(* what it has room for.                                                   *)
ImapTypeOK ==
  /\ pc \in {"setup", "boot", "loop", "mails", "mark"}
  /\ imap_config \in Configs
  /\ imap_settings = <<>> \/ (Len(imap_settings) = 1 /\ Head(imap_settings) \in Configs)
  /\ imap_schedule \in BoundedSeq(Entries, IMAP_MAX_ACCOUNTS)
  /\ imap_system_enabled \in BOOLEAN /\ imap_suspended_on_gsm \in BOOLEAN
  /\ checking \in 0..IMAP_MAX_ACCOUNTS
  /\ (checking # 0) = (pc \in {"mails", "mark"})
  /\ ToSet(message_nums) \subseteq Mails /\ Len(message_nums) <= SEARCH_LIMIT
  /\ ToSet(message_queue) \subseteq Mails /\ Len(message_queue) <= MAX_QUEUE_SIZE
  /\ {seen, unsure} \subseteq SUBSET Mails
  /\ paged \in [Mails -> 0..2] /\ changed \in BOOLEAN
  /\ requests \in 0..MaxRequests /\ resets \in 0..MaxResets

(* No mail is read on the server whose page was not queued: what could    *)
(* not be queued stays unread and is tried again.                          *)
SeenMailPaged == \A m \in seen : paged[m] > 0

(* A mail is paged once, unless its mark did not arrive or a reset came    *)
(* between page and mark; not by two accounts, nor by a check that was     *)
(* ended by a full queue.                                                  *)
OnePagePerMail == \A m \in Mails : paged[m] > 1 => m \in unsure

(* The accounts of the boot all have their entry while no handler has      *)
(* changed them since.                                                     *)
AccountsScheduled ==
  pc \in {"loop", "mails", "mark"} /\ ~changed =>
    \A i \in DOMAIN imap_config.accounts :
      \E j \in DOMAIN imap_schedule : imap_schedule[j].account_id = i

(* The schedule of the accounts: typed, failures counted up to the limit   *)
(* and reset with it (imap.cpp:329), and complete for the accounts it was  *)
(* built from.                                                             *)
ImapInv == ImapTypeOK /\ AccountsScheduled

(* The search takes the latest unread mails only: so many unreadable ones  *)
(* that are newer stay unread for ever and take all its places.            *)
Hidden(m) ==
  Cardinality({n \in Unreadable : BoxOf[n] = BoxOf[m] /\ n > m}) >= SEARCH_LIMIT

(* An unread mail that can be read and that some entry stands for is paged *)
(* in the end, unless that entry is suspended or the polling stops:        *)
(* neither other accounts, nor a full queue, nor other mails keep it from  *)
(* being read, but for as many newer unreadable ones as a search takes.    *)
Served(m) ==
  /\ pc \in {"loop", "mails", "mark"}
  /\ imap_config.enabled /\ imap_config.accounts # <<>>
  /\ ~imap_suspended_on_gsm /\ imap_system_enabled
  /\ \E i \in DOMAIN imap_schedule :
       ~imap_schedule[i].suspended /\ Readable(i) /\ Box(i) = BoxOf[m]
UnreadMailPaged ==
  \A m \in {n \in Mails \ Unreadable : ~Hidden(n)} :
    Served(m) ~> (paged[m] > 0 \/ ~Served(m))
=============================================================================
