-------------------------- MODULE ScheduledPrompts --------------------------
(***************************************************************************)
(* ChatGPT prompts at their minute of the week (chatgpt.cpp) and the web   *)
(* handlers that change them (web_handlers_chatgpt.cpp).                   *)
(*                                                                         *)
(* Once a minute loop goes through the prompts: one whose minute it is     *)
(* starts a run, one whose last attempt failed is tried again a minute     *)
(* later.  A query blocks loop, and so does the pause after each prompt    *)
(* that was executed, also without a query: time passes between two        *)
(* prompts of the same check and checks come late.  NTP sets the clock.    *)
(*                                                                         *)
(* Time comes in ticks, PARTS of a minute; days and times of a prompt are  *)
(* one minute out of MINUTES.  Whether the queue has room is left open     *)
(* (module Transmission).                                                  *)
(***************************************************************************)
EXTENDS Integers, Sequences, SequencesExt, FiniteSets

CONSTANTS
  MINUTES, PARTS,       \* the week; CHATGPT_CHECK_INTERVAL and the retry delay in ticks
  MAX_ATTEMPTS,         \* 3
  MAX_CHATGPT_PROMPTS,  \* 10
  FirstConfig,          \* the configuration in flash at the first boot
  Forms,                \* the prompts the web page may send
  MaxEvents             \* bound: web requests, resets and clock settings

VARIABLES
  now, since_check,     \* local time; ticks since last_chatgpt_check, up to PARTS
  ready,                \* network, NTP time, and not suspended on GSM
  pc, at, fallen,       \* loop, check, query or pause; the check's prompt; whether
                        \* the default model was asked
  chatgpt_config,
  chatgpt_settings,     \* the file: one configuration, or none that parses
  runs,                 \* of each prompt: retry_count, next_retry_time and history
  late, shifted, skipped,  \* history, see below
  events

Prompt  == [slot : 0..(MINUTES - 1), model : BOOLEAN, enabled : BOOLEAN]
Config  == [enabled : BOOLEAN, notify_failures : BOOLEAN, api_key : BOOLEAN,
            default_model : BOOLEAN, prompts : BoundedSeq(Prompt, MAX_CHATGPT_PROMPTS)]
Default == [enabled |-> FALSE, notify_failures |-> TRUE, api_key |-> FALSE,
            default_model |-> FALSE, prompts |-> <<>>]

ASSUME PromptAssumption ==
  /\ {MINUTES, PARTS, MAX_ATTEMPTS, MAX_CHATGPT_PROMPTS} \subseteq Nat \ {0}
  /\ MINUTES > 1 /\ 2 * (MAX_ATTEMPTS - 1) < MINUTES
  /\ FirstConfig \in Config
  /\ Forms \subseteq Prompt /\ MaxEvents \in Nat

timeVars   == <<now, since_check>>
checkVars  == <<pc, at, fallen>>
configVars == <<chatgpt_config, chatgpt_settings>>
histVars   == <<late, shifted, skipped>>
vars == <<timeVars, ready, checkVars, configVars, runs, histVars, events>>

Minute(t) == t \div PARTS
Prompts == DOMAIN chatgpt_config.prompts

(* ran: runs begun in this minute; attempts, pages: of the latest run.     *)
NoRun == [retry_count |-> 0, next_retry_time |-> 0, ran |-> 0, attempts |-> 0, pages |-> 0]
Loaded(file) == IF file = <<>> THEN Default ELSE Head(file)

Init ==
  /\ now \in 0..(MINUTES * PARTS - 1) /\ since_check = PARTS /\ ready = TRUE
  /\ pc = "loop" /\ at = 0 /\ fallen = FALSE
  /\ chatgpt_settings = << FirstConfig >> /\ chatgpt_config = FirstConfig
  /\ runs = [i \in DOMAIN FirstConfig.prompts |-> NoRun]
  /\ late = FALSE /\ shifted = FALSE /\ skipped = FALSE
  /\ events = 0

-----------------------------------------------------------------------------
(*                                Time                                     *)

Happens == events < MaxEvents /\ events' = events + 1

\* Mutant: the interval is a tick short.
CheckDueEarly == ready /\ since_check >= PARTS - 1
CheckDue == ready /\ since_check = PARTS

(* late: a check was due, or loop was not ready, when time went on.        *)
(* shifted: a minute ended within a check, or the clock or the prompts     *)
(* were changed.  skipped: a prompt's minute ended without its run.        *)
Tick ==
  LET next == (now + 1) % (MINUTES * PARTS)
      ends == Minute(next) # Minute(now)
      Unserved(i) == /\ ends /\ chatgpt_config.enabled /\ chatgpt_config.prompts[i].enabled
                     /\ chatgpt_config.prompts[i].slot = Minute(now)
                     /\ runs[i].retry_count = 0 /\ runs[i].ran = 0
  IN /\ pc # "check"
     /\ now' = next
     /\ since_check' = IF since_check < PARTS THEN since_check + 1 ELSE PARTS
     /\ runs' = [i \in DOMAIN runs |->
                   [runs[i] EXCEPT !.next_retry_time = IF @ > 0 THEN @ - 1 ELSE 0,
                                   !.ran = IF ends THEN 0 ELSE @]]
     /\ late' = (late \/ ~ready \/ (pc = "loop" /\ CheckDue))
     /\ shifted' = (shifted \/ (pc # "loop" /\ ends))
     /\ skipped' = (skipped \/ \E i \in Prompts : Unserved(i))
  /\ UNCHANGED <<ready, checkVars, configVars, events>>

(* The NTP synchronisation moves local time, not millis().                 *)
ClockSet(t) ==
  /\ pc = "loop" /\ t # now /\ Happens
  /\ now' = t /\ shifted' = TRUE
  /\ UNCHANGED <<since_check, ready, checkVars, configVars, runs, late, skipped>>

ReadyChanges ==
  /\ pc = "loop"
  /\ ready' = ~ready
  /\ UNCHANGED <<timeVars, checkVars, configVars, runs, histVars, events>>

-----------------------------------------------------------------------------
(*                              The check                                  *)

KeepWorld == UNCHANGED <<ready, configVars, late, shifted, skipped, events>>

CheckStarts ==
  /\ pc = "loop" /\ CheckDue
  /\ since_check' = 0
  /\ IF chatgpt_config.enabled /\ Prompts # {}
     THEN pc' = "check" /\ at' = 1 ELSE UNCHANGED <<pc, at>>
  /\ UNCHANGED <<now, fallen, runs>> /\ KeepWorld

(* chatgpt_is_time_to_execute                                              *)
IsTime(i) ==
  /\ chatgpt_config.enabled /\ chatgpt_config.prompts[i].enabled
  /\ IF runs[i].retry_count > 0 THEN runs[i].next_retry_time = 0
     ELSE chatgpt_config.prompts[i].slot = Minute(now)

(* The key, and a model: the prompt's own or the default one.              *)
Askable(i) ==
  chatgpt_config.api_key /\ (chatgpt_config.prompts[i].model \/ chatgpt_config.default_model)

\* Mutant: a check looks at the first prompt only.
GoOnOnce == pc' = "loop" /\ at' = 0
GoOn == IF at < Len(chatgpt_config.prompts)
        THEN pc' = "check" /\ at' = at + 1 ELSE pc' = "loop" /\ at' = 0

NotYet ==
  /\ pc = "check" /\ ~IsTime(at)
  /\ GoOn /\ UNCHANGED <<timeVars, fallen, runs>> /\ KeepWorld

(* delay(1000) after every executed prompt, also after one without a query. *)
Pause == pc' = "pause" /\ UNCHANGED at

PauseEnds ==
  /\ pc = "pause"
  /\ GoOn /\ UNCHANGED <<timeVars, fallen, runs>> /\ KeepWorld

Begun(run) ==
  IF run.retry_count = 0
  THEN [run EXCEPT !.ran = IF @ < 2 THEN @ + 1 ELSE 2, !.attempts = 0, !.pages = 0]
  ELSE run
Asked(run) == [Begun(run) EXCEPT !.attempts = @ + 1]

(* chatgpt_execute_prompt, up to its query.                                *)
Execute ==
  /\ pc = "check" /\ IsTime(at)
  /\ IF Askable(at)
     THEN /\ runs' = [runs EXCEPT ![at] = Asked(@)]
          /\ pc' = "query" /\ fallen' = FALSE /\ UNCHANGED at
     ELSE /\ runs' = [runs EXCEPT ![at] = Begun(@)]
          /\ Pause /\ UNCHANGED fallen
  /\ UNCHANGED timeVars /\ KeepWorld

Paged(run) == [run EXCEPT !.pages = IF @ < 2 THEN @ + 1 ELSE 2]
Ended(run) == [run EXCEPT !.retry_count = 0, !.next_retry_time = 0]

(* The notice to the pager, if there is to be one and room for it.         *)
Noticed(run, room) ==
  IF chatgpt_config.notify_failures /\ room THEN Ended(Paged(run)) ELSE Ended(run)

(* An attempt in vain: another one in a minute, or the end.                *)
AttemptLost(run, room) ==
  IF run.retry_count + 1 >= MAX_ATTEMPTS THEN Noticed(run, room)
  ELSE [run EXCEPT !.retry_count = @ + 1, !.next_retry_time = PARTS]

(* chatgpt_query_with_fallback asks the default model in the second place. *)
FallsBack ==
  /\ pc = "query" /\ ~fallen
  /\ chatgpt_config.prompts[at].model /\ chatgpt_config.default_model
  /\ fallen' = TRUE
  /\ UNCHANGED <<timeVars, pc, at, runs>> /\ KeepWorld

Unavailable(room) ==
  /\ pc = "query" /\ (fallen \/ ~chatgpt_config.prompts[at].model \/ ~chatgpt_config.default_model)
  /\ runs' = [runs EXCEPT ![at] = Noticed(@, room)]
  /\ Pause /\ UNCHANGED <<timeVars, fallen>> /\ KeepWorld

QueryFails(room) ==
  /\ pc = "query"
  /\ runs' = [runs EXCEPT ![at] = AttemptLost(@, room)]
  /\ Pause /\ UNCHANGED <<timeVars, fallen>> /\ KeepWorld

\* Mutant: the count of failed attempts outlives the answer.
AnsweredKept(run) == Paged(run)
Answered(run) == Ended(Paged(run))

(* The answer is queued; or there is no room, and there may be some later  *)
(* for the notice.                                                         *)
QueryAnswers(room, later) ==
  /\ pc = "query" /\ (room => later)
  /\ runs' = [runs EXCEPT ![at] = IF room THEN Answered(@) ELSE AttemptLost(@, later)]
  /\ Pause /\ UNCHANGED <<timeVars, fallen>> /\ KeepWorld

-----------------------------------------------------------------------------
(*                       The file and the web handlers                     *)

SaveOutcomes(config) ==
  { [answer |-> TRUE,  file |-> << config >>],
    [answer |-> FALSE, file |-> chatgpt_settings],  \* not locked, not opened
    [answer |-> FALSE, file |-> <<>>] }             \* opened, not written

(* A request wants config and leaves refused in RAM when it cannot save;   *)
(* moved are the runs of config's prompts.                                 *)
Request(config, refused, moved) ==
  /\ pc = "loop" /\ Happens
  /\ \E save \in SaveOutcomes(config) :
       /\ chatgpt_settings' = save.file
       /\ chatgpt_config' = IF save.answer THEN config ELSE refused
       /\ runs' = IF save.answer \/ refused = config THEN moved ELSE runs
  /\ shifted' = TRUE
  /\ UNCHANGED <<timeVars, ready, checkVars, late, skipped>>

With(prompts) == [chatgpt_config EXCEPT !.prompts = prompts]

SetEnabled(on) ==
  LET config == [chatgpt_config EXCEPT !.enabled = on]
  IN (on => chatgpt_config.api_key) /\ Request(config, config, runs)

SetNotifications(on) ==
  LET config == [chatgpt_config EXCEPT !.notify_failures = on] IN Request(config, config, runs)

SetApiKey ==
  LET config == [chatgpt_config EXCEPT !.api_key = TRUE] IN Request(config, config, runs)

SetDefaultModel ==
  /\ chatgpt_config.api_key
  /\ Request([chatgpt_config EXCEPT !.default_model = TRUE], chatgpt_config, runs)

(* A new prompt is enabled whatever the request says.                      *)
AddPrompt(prompt) ==
  /\ Len(chatgpt_config.prompts) < MAX_CHATGPT_PROMPTS
  /\ Request(With(Append(chatgpt_config.prompts, [prompt EXCEPT !.enabled = TRUE])),
             chatgpt_config, Append(runs, NoRun))

(* A pending retry goes on, now for the edited prompt.                     *)
EditPrompt(i, prompt) ==
  LET config == With([chatgpt_config.prompts EXCEPT ![i] = prompt]) IN Request(config, config, runs)

TogglePrompt(i) ==
  EditPrompt(i, [chatgpt_config.prompts[i] EXCEPT !.enabled = ~@])

DeletePrompt(i) ==
  LET config == With(RemoveAt(chatgpt_config.prompts, i))
  IN Request(config, config, RemoveAt(runs, i))

Web ==
  \/ \E on \in BOOLEAN : SetEnabled(on) \/ SetNotifications(on)
  \/ SetApiKey \/ SetDefaultModel
  \/ \E prompt \in Forms : AddPrompt(prompt)
  \/ \E i \in Prompts : TogglePrompt(i) \/ DeletePrompt(i)
                        \/ \E prompt \in Forms : EditPrompt(i, prompt)

(* A reset, also one between truncation and write of a save; the boot      *)
(* takes more than a minute.                                               *)
Reset(file) ==
  /\ Happens /\ (file = chatgpt_settings \/ pc = "loop")
  /\ chatgpt_settings' = file /\ chatgpt_config' = Loaded(file)
  /\ runs' = [i \in DOMAIN Loaded(file).prompts |-> NoRun]
  /\ pc' = "loop" /\ at' = 0 /\ fallen' = FALSE /\ since_check' = PARTS
  /\ \E t \in 0..(MINUTES * PARTS - 1) : Minute(t) # Minute(now) /\ now' = t
  /\ UNCHANGED <<ready, histVars>>

-----------------------------------------------------------------------------
Next ==
  \/ Tick \/ ReadyChanges \/ \E t \in {now - 1, now + 1} \cap 0..(MINUTES * PARTS - 1) : ClockSet(t)
  \/ CheckStarts \/ NotYet \/ Execute \/ PauseEnds \/ FallsBack
  \/ \E room \in BOOLEAN : Unavailable(room) \/ QueryFails(room)
  \/ \E room, later \in BOOLEAN : QueryAnswers(room, later)
  \/ Web
  \/ \E file \in {chatgpt_settings, <<>>} : Reset(file)

Spec == Init /\ [][Next]_vars

-----------------------------------------------------------------------------
(*                             Properties                                  *)

Run == [retry_count : 0..(MAX_ATTEMPTS - 1), next_retry_time : 0..PARTS,
        ran : 0..2, attempts : Nat, pages : 0..2]

(* The type invariant: every prompt has its run, also after prompts were   *)
(* added and deleted and saves were refused, and a check works on a prompt *)
(* that exists.                                                            *)
PromptTypeOK ==
  /\ now \in 0..(MINUTES * PARTS - 1) /\ since_check \in 0..PARTS
  /\ pc \in {"loop", "check", "query", "pause"} /\ at \in 0..Len(chatgpt_config.prompts)
  /\ (at = 0) = (pc = "loop")
  /\ chatgpt_config \in Config /\ DOMAIN runs = Prompts
  /\ chatgpt_settings = <<>> \/ Head(chatgpt_settings) \in Config
  /\ \A i \in Prompts : runs[i] \in Run
  /\ {ready, fallen, late, shifted, skipped} \subseteq BOOLEAN

(* A run asks at most MAX_ATTEMPTS times, however queries and the queue    *)
(* take turns at failing, and puts at most one page into the queue: the    *)
(* answer or the notice that there is none.                                *)
OnePagePerRun ==
  \A i \in Prompts : runs[i].attempts <= MAX_ATTEMPTS /\ runs[i].pages <= 1

(* The state of the prompts: typed, with a run and a retry for each prompt *)
(* that exists under its index of the moment (web_handlers_chatgpt.cpp:    *)
(* 1182), and what a run may put into the queue.                           *)
PromptInv == PromptTypeOK /\ OnePagePerRun

(* In its minute a prompt runs once, however late checks are and however   *)
(* long queries and pauses within one minute.  The exceptions: the queries *)
(* and pauses of a check went on into the next minute, so that the prompts *)
(* behind them had their turn there, and the next check falls into the     *)
(* same minute; the clock was set; the prompts were changed.               *)
OneRunPerMinute == (\E i \in Prompts : runs[i].ran > 1) => shifted

(* No minute of a prompt goes by without its run while every check starts  *)
(* as soon as it is due and is over, its queries and pauses included,      *)
(* before the minute is: checks a minute apart fall into every minute      *)
(* once, and retries, which may wait for two checks, end within the week.  *)
MinutesServed == skipped => late \/ shifted
=============================================================================
