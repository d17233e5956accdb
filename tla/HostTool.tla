------------------------------ MODULE HostTool ------------------------------
(***************************************************************************)
(* flex-fsk-tx.cpp, the tool on the PC, at the far end of the AT console.  *)
(*                                                                         *)
(* The tool writes a command, reads lines until OK, ERROR or a second      *)
(* without a byte (twenty empty polls; AT_TIMEOUT_MS is never reached),    *)
(* and repeats what was not answered.  The console answers what it reads   *)
(* in order, but not while a page is on the air nor while a service holds  *)
(* loop: the tool then repeats commands that are still in the UART, and    *)
(* reads answers to what it sent before.                                   *)
(*                                                                         *)
(* A line of text, a text without its line end and half a raw frame are    *)
(* units of the line, like a command.  The two cores of the device are in  *)
(* module Transmission: here a transmission starts at once or after the    *)
(* command being served.                                                   *)
(***************************************************************************)
EXTENDS Integers, Sequences, FiniteSets

CONSTANTS
  AT_MAX_RETRIES, SEND_RETRIES, INIT_ATTEMPTS,   \* 5, 3, 10
  MAX_QUEUE_SIZE,
  Lines,            \* messages on the command line or on stdin
  Invocations,      \* the command lines the tool is started with
  FlexSettings, NetworkSettings,   \* what the wizard may be told to set
  MaxFaults         \* bound: failed reads and writes, services that hold loop

VARIABLES
  opts,                                       \* options and values of this run of the tool
  step, exec, why, cmd, retries, got, greeted,   \* main and at_execute_command
  attempts, sends, message, plan, asked, exit,
  up, down,                                   \* the serial line
  console, flex_capcode, taken, junk, blocked,  \* the device: console and loop
  backlog, raw_tx_pending, confirmed, restarts,
  report, copies, strange, accepted, late,    \* history, see below
  faults

Messages == 1..Lines
Settings == FlexSettings \cup NetworkSettings
Others   == {"AT", "FREQ", "POWER", "STATUS?", "RESET", "FACTORYRESET", "MSG", "SEND",
             "TEXT", "PIECE", "HEAD", "TAIL"}
Ops      == Settings \cup Others
(* refused: the commands of this run whose value the device does not take. *)
Opts == [run : {"message", "wizard", "factory"}, remote : BOOLEAN, stdin : BOOLEAN,
         loop : BOOLEAN, refused : SUBSET (Settings \cup {"FREQ", "POWER"})]
ASSUME HostAssumption ==
  /\ {AT_MAX_RETRIES, SEND_RETRIES, INIT_ATTEMPTS, MAX_QUEUE_SIZE, Lines} \subseteq Nat \ {0}
  /\ Invocations \subseteq Opts
  /\ IsFiniteSet(Settings) /\ FlexSettings \cap NetworkSettings = {} /\ Settings \cap Others = {}
  /\ MaxFaults \in Nat

callVars    == <<exec, why, cmd, retries>>
hostVars    == <<callVars, step, got, greeted, attempts, sends, message, plan, asked, exit>>
stagingVars == <<console, flex_capcode, taken>>
deviceVars  == <<stagingVars, junk, blocked, backlog, raw_tx_pending, confirmed, restarts>>
airVars     == <<copies, strange, accepted>>
vars == <<opts, hostVars, up, down, deviceVars, report, airVars, late, faults>>

(* Units of the line: arg is the message they belong to, 0 for none.       *)
Unit(op, m)  == [op |-> op, arg |-> m]
AT           == Unit("AT", 0)
Ask(m)       == Unit(IF opts.remote THEN "MSG" ELSE "SEND", m)
Payload(m)   == IF opts.remote THEN << Unit("TEXT", m) >>
                ELSE << Unit("HEAD", m), Unit("TAIL", m) >>
(* What is on the line of a payload that could not be written whole.       *)
Parts(m)     == IF opts.remote THEN { <<>>, << Unit("PIECE", m) >> }
                ELSE { <<>>, << Unit("HEAD", m) >>, Payload(m) }

Init ==
  /\ opts \in Invocations
  /\ step = "init" /\ exec = "flush" /\ why = "command" /\ cmd = AT
  /\ retries = AT_MAX_RETRIES /\ got = "none" /\ greeted = FALSE
  /\ attempts = INIT_ATTEMPTS /\ sends = 0 /\ message = 0
  /\ plan = <<>> /\ asked = {} /\ exit = "running"
  /\ up = <<>> /\ down = <<>>
  /\ console = "IDLE" /\ flex_capcode = 0 /\ taken = <<>> /\ junk = FALSE
  /\ blocked \in {"no", "service"} /\ backlog = 0 /\ raw_tx_pending = FALSE
  /\ confirmed = {} /\ restarts = 0
  /\ report = [m \in Messages |-> "none"] /\ copies = [m \in Messages |-> 0]
  /\ strange = FALSE /\ accepted = FALSE /\ late = FALSE
  /\ faults = 0

-----------------------------------------------------------------------------
(*                          The tool: control flow                         *)

(* at_execute_command(c), from step s; "AT" itself needs no ready device.  *)
Call(s, c) ==
  /\ step' = s /\ cmd' = c /\ retries' = AT_MAX_RETRIES
  /\ IF c = AT THEN exec' = "flush" /\ why' = "command"
     ELSE exec' = "ensure" /\ why' = "ensure"

Pause(s) == step' = s /\ exec' = "none" /\ why' = "command" /\ cmd' = AT /\ retries' = 0
Ends(how) == Pause("end") /\ exit' = how

(* One message: frequency, power, then up to SEND_RETRIES attempts.        *)
SendMessage(m) == message' = m /\ Call("freq", Unit("FREQ", 0)) /\ UNCHANGED exit

(* Without -l a message that could not be sent ends the tool; with -l the  *)
(* next line is read.                                                      *)
Reported(how) ==
  /\ report' = [report EXCEPT ![message] = how]
  /\ IF opts.stdin /\ opts.loop THEN Pause("line") /\ UNCHANGED exit
     ELSE Ends(IF how = "sent" THEN "ok" ELSE "failed")
  /\ UNCHANGED message

(* An attempt starts by waking the console with AT.                        *)
\* Mutant: a failed attempt is not counted.
LeftSame(n) == n
Left(n) == n - 1
Attempt(n) ==
  IF n > 0 THEN /\ sends' = n /\ Call("wake", AT)
                /\ UNCHANGED <<exit, message, report>>
  ELSE /\ sends' = 0 /\ Reported("failed")

InitAgain ==
  /\ attempts' = attempts - 1
  /\ IF attempts > 1 THEN Call("init", AT) /\ UNCHANGED exit ELSE Ends("failed")

(* The settings of a kind, in the order the tool has for them.            *)
Sequence(S) == IF S = {} THEN <<>> ELSE
  CHOOSE q \in [1..Cardinality(S) -> [op : S, arg : {0}]] : {q[i].op : i \in DOMAIN q} = S

(* The first setting that fails skips the others of its kind and the       *)
(* restart at the end; the network comes after the FLEX settings.          *)
\* Mutant: the restart follows whatever failed.
AfterFailureRestart(op) ==
  (IF op \in FlexSettings THEN Sequence(asked \cap NetworkSettings) ELSE <<>>) \o << Unit("RESET", 0) >>
AfterFailure(op) ==
  IF op \in FlexSettings THEN Sequence(asked \cap NetworkSettings) ELSE <<>>
Failed(ok) == ~ok /\ cmd.op \notin {"RESET"}
Follow(rest, ok) ==
  /\ plan' = rest
  /\ IF rest # <<>> THEN Call("plan", Head(rest)) /\ UNCHANGED exit
     ELSE Ends(IF ok THEN "ok" ELSE "failed")

(* What the tool was started for: the wizard, a factory reset, messages    *)
(* from stdin or the one of the command line.                              *)
Begins ==
  \/ opts.run = "wizard" /\ Call("query", Unit("STATUS?", 0)) /\ UNCHANGED message
  \/ opts.run = "factory" /\ Pause("answers") /\ UNCHANGED message
  \/ opts.run = "message" /\ opts.stdin /\ Pause("line") /\ UNCHANGED message
  \/ opts.run = "message" /\ ~opts.stdin /\ message' = 1 /\ Call("freq", Unit("FREQ", 0))

(* What main does with the outcome of the command it executed.             *)
Returns(ok) ==
  /\ \/ /\ step = "init" /\ ok /\ Call("confirm", AT)
        /\ UNCHANGED <<attempts, sends, message, plan, exit, report>>
     \/ /\ step \in {"init", "confirm"} /\ ~ok /\ InitAgain
        /\ UNCHANGED <<sends, message, plan, report>>
     \/ /\ step = "confirm" /\ ok /\ Begins
        /\ UNCHANGED <<attempts, sends, plan, exit, report>>
     \/ /\ step = "query" /\ Pause("answers")
        /\ UNCHANGED <<attempts, sends, message, plan, exit, report>>
     \/ /\ step = "plan" /\ ~Failed(ok)
        /\ Follow(Tail(plan), cmd.op \in {"RESET", "FACTORYRESET"})
        /\ UNCHANGED <<attempts, sends, message, report>>
     \/ /\ step = "plan" /\ Failed(ok) /\ Follow(AfterFailure(cmd.op), FALSE)
        /\ UNCHANGED <<attempts, sends, message, report>>
     \/ /\ step = "freq" /\ ok /\ Call("power", Unit("POWER", 0))
        /\ UNCHANGED <<attempts, sends, message, plan, exit, report>>
     \/ /\ step = "power" /\ ok /\ Attempt(SEND_RETRIES)
        /\ UNCHANGED <<attempts, plan>>
     \/ /\ step \in {"freq", "power"} /\ ~ok /\ Reported("failed")
        /\ UNCHANGED <<attempts, sends, plan>>
     \/ /\ step = "wake" /\ step' = "ask" /\ exec' = "flush" /\ why' = "ask"
        /\ cmd' = Ask(message) /\ retries' = 0
        /\ UNCHANGED <<attempts, sends, message, plan, exit, report>>
  /\ UNCHANGED <<opts, asked>>

(* read_stdin_message: end of input, a line that is no message or cannot   *)
(* be encoded, or the next message.                                        *)
ReadStdin ==
  /\ step = "line"
  /\ \/ Ends("ok") /\ UNCHANGED message
     \/ /\ message < Lines
        /\ \/ SendMessage(message + 1)
           \/ /\ message' = message + 1
              /\ IF opts.loop THEN Pause("line") /\ UNCHANGED exit ELSE Ends("failed")
  /\ UNCHANGED <<opts, got, greeted, attempts, sends, plan, asked, up, down, deviceVars,
                 report, airVars, late, faults>>

(* The wizard's questions, and the two confirmations of a factory reset:   *)
(* FLEX settings are applied before the network, the restart comes last.   *)
(* asked is what will be sent: the wizard takes a power of 0 dBm for none. *)
UserAnswers ==
  /\ step = "answers"
  /\ \/ Ends("ok") /\ UNCHANGED <<plan, asked>>
     \/ /\ opts.run = "factory" /\ Follow(<< Unit("FACTORYRESET", 0) >>, TRUE) /\ UNCHANGED asked
     \/ /\ opts.run = "wizard"
        /\ \E flex \in SUBSET FlexSettings, network \in SUBSET NetworkSettings :
             /\ asked' = flex \cup network
             /\ Follow(Sequence(flex) \o Sequence(network) \o << Unit("RESET", 0) >>, TRUE)
  /\ UNCHANGED <<opts, got, greeted, attempts, sends, message, up, down, deviceVars,
                 report, airVars, late, faults>>

-----------------------------------------------------------------------------
(*                     The tool: the serial protocol                       *)

Free == <<opts, attempts, sends, message, plan, asked, exit>>

(* at_ensure_device_ready: AT, unless it was answered within 5 seconds.    *)
EnsureReady ==
  /\ exec = "ensure"
  /\ exec' = "flush"
  /\ \/ greeted /\ why' = "command"
     \/ UNCHANGED why
  /\ UNCHANGED <<Free, step, cmd, retries, got, greeted, up, down, deviceVars, report, airVars, late, faults>>

FlushBuffers ==
  /\ exec = "flush"
  /\ exec' = "write" /\ down' = <<>>
  /\ UNCHANGED <<Free, step, why, cmd, retries, got, greeted, up, deviceVars, report, airVars, late, faults>>

(* at_send_command; at_read_response starts with an empty buffer.          *)
SendCommand ==
  /\ exec = "write"
  /\ up' = Append(up, IF why \in {"ensure", "recover"} THEN AT ELSE cmd)
  /\ exec' = "read" /\ got' = "none"
  /\ accepted' = (accepted /\ why # "ask")
  /\ UNCHANGED <<Free, step, why, cmd, retries, greeted, down, deviceVars, report,
                 copies, strange, late, faults>>

(* A write that fails sends nothing.  at_execute_command gives up, the AT  *)
(* before it is not missed, the AT of a retry is waited for all the same;  *)
(* a failed AT+MSG or AT+SEND ends the attempt.                            *)
WriteFails ==
  /\ exec = "write" /\ faults < MaxFaults /\ faults' = faults + 1
  /\ \/ why = "command" /\ got' = "none" /\ Returns(FALSE)
     \/ why = "ensure" /\ exec' = "flush" /\ why' = "command"
        /\ UNCHANGED <<Free, step, cmd, retries, got, report>>
     \/ why = "recover" /\ exec' = "read" /\ got' = "none"
        /\ UNCHANGED <<Free, step, why, cmd, retries, report>>
     \/ why = "ask" /\ got' = "none" /\ Attempt(Left(sends))
        /\ UNCHANGED <<opts, attempts, plan, asked>>
  /\ UNCHANGED <<greeted, up, down, deviceVars, airVars, late>>

(* at_read_response: a line of data is kept, and the wait goes on.         *)
ReadData ==
  /\ exec = "read" /\ down # <<>> /\ Head(down) \in {"DATA", "READY"}
  /\ down' = Tail(down)
  /\ got' = IF Head(down) = "READY" \/ got = "ready" THEN "ready" ELSE "data"
  /\ UNCHANGED <<Free, step, callVars, greeted, up, deviceVars, report, airVars, late, faults>>

(* A second passes without a byte: the console has nothing to answer, or   *)
(* is not being served.  No transmission outlasts AT_MSG_SEND_TIMEOUT.     *)
Unserved == blocked = "service" \/ (blocked # "no" /\ ~(why = "final" /\ opts.remote))
\* Mutant: the first empty poll ends the wait.
SilentAtOnce == down = <<>>
Silent == down = <<>> /\ (up = <<>> \/ Unserved)
Results == {"OK", "ERROR", "DATA", "TIMEOUT", "INVALID"}
ReadResult(result) ==
  /\ exec = "read" /\ got' = "none"
  /\ late' = (late \/ up # <<>> \/ result = "INVALID")
  /\ \/ /\ result \in {"OK", "ERROR"}
        /\ down # <<>> /\ Head(down) = result /\ down' = Tail(down)
        /\ UNCHANGED faults
     \/ /\ result = (IF got = "none" THEN "TIMEOUT" ELSE "DATA")
        /\ Silent /\ UNCHANGED <<down, faults>>
     \/ /\ result = "INVALID"
        /\ faults < MaxFaults /\ faults' = faults + 1
        /\ UNCHANGED down
ReadEnds(result) == ReadResult(result) /\ UNCHANGED <<up, deviceVars, airVars>>

(* The AT of at_ensure_device_ready or of the retry: its outcome is only   *)
(* remembered.                                                             *)
ReadAside(result) ==
  /\ why \in {"ensure", "recover"} /\ ReadEnds(result)
  /\ greeted' = (greeted \/ (why = "ensure" /\ result = "OK"))
  /\ exec' = "flush" /\ why' = "command"
  /\ UNCHANGED <<Free, step, cmd, retries, report>>

(* at_execute_command: OK ends it, ERROR and no answer are retried; data   *)
(* without OK is a failure at once.                                        *)
ReadAnswer(result) ==
  /\ why = "command" /\ ReadEnds(result)
  /\ UNCHANGED greeted
  /\ IF result \in {"ERROR", "TIMEOUT", "INVALID"} /\ retries > 1
     THEN /\ retries' = retries - 1 /\ exec' = "flush"
          /\ why' = IF result = "TIMEOUT" THEN "recover" ELSE "command"
          /\ UNCHANGED <<Free, step, cmd, report>>
     ELSE Returns(result = "OK")

(* AT+MSG or AT+SEND: after READY and a second of silence the payload is   *)
(* written; anything else ends the attempt.                                *)
\* Mutant: READY is not looked for.
PromptedByAny(result) == result \in {"DATA", "OK"}
Prompted(result) == result = "DATA" /\ got = "ready"
ReadPrompt(result) ==
  /\ why = "ask"
  /\ IF Prompted(result)
     THEN /\ ReadResult(result)
          /\ step' = "final" /\ why' = "final" /\ up' = up \o Payload(message)
          /\ UNCHANGED <<Free, exec, cmd, retries, deviceVars, airVars, report>>
     ELSE /\ ReadEnds(result) /\ Attempt(Left(sends))
          /\ UNCHANGED <<opts, attempts, plan, asked>>
  /\ UNCHANGED greeted

(* The text, its line end or a chunk of the frame cannot be written, or    *)
(* the frame takes more than 20 s: the next attempt begins, with AT, while *)
(* the console still waits for the payload.                                *)
PayloadDue == why = "ask" /\ exec = "read" /\ Prompted("DATA") /\ Silent
PayloadFails ==
  /\ PayloadDue /\ faults < MaxFaults /\ faults' = faults + 1
  /\ \E part \in Parts(message) : up' = up \o part
  /\ late' = TRUE /\ got' = "none"
  /\ Attempt(Left(sends))
  /\ UNCHANGED <<opts, attempts, plan, asked, greeted, down, deviceVars, airVars>>

(* The last answer: OK is success.  Without -r one read decides; with -r   *)
(* reading goes on until OK, ERROR or AT_MSG_SEND_TIMEOUT.                 *)
ReadFinal(result) ==
  /\ why = "final" /\ ReadEnds(result)
  /\ UNCHANGED <<opts, greeted, attempts, plan, asked>>
  /\ IF result = "OK" THEN Reported("sent") /\ UNCHANGED sends
     ELSE IF opts.remote /\ result \in {"DATA", "INVALID"}
     THEN UNCHANGED <<callVars, step, sends, message, exit, report>>
     ELSE Attempt(Left(sends))

(* SIGINT or SIGTERM, at any point, that of writing the payload included.  *)
Interrupted ==
  /\ exit = "running" /\ Ends("killed")
  /\ \/ UNCHANGED <<up, late>>
     \/ PayloadDue /\ late' = TRUE /\ \E part \in Parts(message) : up' = up \o part
  /\ got' = "none" /\ message' = 0 /\ plan' = <<>> /\ down' = <<>>
  /\ UNCHANGED <<opts, greeted, attempts, sends, asked, deviceVars, report, airVars, faults>>

Host == \/ ReadStdin \/ UserAnswers \/ EnsureReady \/ FlushBuffers \/ SendCommand \/ WriteFails
        \/ ReadData \/ PayloadFails
        \/ \E result \in Results : \/ ReadAside(result) \/ ReadAnswer(result)
                                   \/ ReadPrompt(result) \/ ReadFinal(result)

-----------------------------------------------------------------------------
(*                               The device                                *)

Answers(lines) == down' = IF exit = "running" THEN down \o lines ELSE <<>>
KeepHost == UNCHANGED <<opts, hostVars, report, late, faults>>
\* Mutant: the state is left as it is.
ResetStateKept == flex_capcode' = 0 /\ taken' = <<>> /\ UNCHANGED console
ResetState == console' = "IDLE" /\ flex_capcode' = 0 /\ taken' = <<>>

Serving(state) == blocked = "no" /\ up # <<>> /\ console = state
Next1 == Head(up)

(* Part of a payload no one waits for, without an end of line, spoils the  *)
(* line that follows; the bytes of a frame may also hold ends of line, or  *)
(* fill the buffer, and have an ERROR of their own.                        *)
Bits == {"PIECE", "HEAD", "TAIL"}
ServeJunk ==
  /\ Serving("IDLE") /\ Next1.op \in Bits
  /\ up' = Tail(up)
  /\ \/ junk' = TRUE /\ UNCHANGED down
     \/ Next1.op # "PIECE" /\ junk' \in BOOLEAN /\ Answers(<<"ERROR">>)
  /\ UNCHANGED <<stagingVars, blocked, backlog, raw_tx_pending, confirmed, restarts, airVars>>
  /\ KeepHost

Refuses(c) == junk \/ c.op \in opts.refused \cup {"TEXT"} \/ (c.op = "SEND" /\ raw_tx_pending)
ServeRefused ==
  /\ Serving("IDLE") /\ Next1.op \notin Bits /\ Refuses(Next1)
  /\ up' = Tail(up) /\ junk' = FALSE /\ Answers(<<"ERROR">>)
  /\ UNCHANGED <<stagingVars, blocked, backlog, raw_tx_pending, confirmed, restarts, airVars>>
  /\ KeepHost

(* AT, the radio, a query, a setting.  OK does not say that a setting is   *)
(* kept: AT+FLEX is answered so whether or not it could be saved, and the  *)
(* mode of AT+NETWORK, taken or not, is never saved.                       *)
ServeCommand ==
  /\ Serving("IDLE") /\ ~Refuses(Next1)
  /\ Next1.op \in Settings \cup {"AT", "FREQ", "POWER", "STATUS?"}
  /\ up' = Tail(up)
  /\ Answers(IF Next1.op = "STATUS?" THEN <<"DATA", "OK">> ELSE <<"OK">>)
  /\ confirmed' = confirmed \cup ({Next1.op} \cap Settings)
  /\ UNCHANGED <<stagingVars, junk, blocked, backlog, raw_tx_pending, restarts, airVars>>
  /\ KeepHost

(* AT+MSG and AT+SEND throw away what came behind them, then say READY.    *)
ServeAsk ==
  /\ Serving("IDLE") /\ ~Refuses(Next1) /\ Next1.op \in {"MSG", "SEND"}
  /\ console' = IF Next1.op = "MSG" THEN "WAITING_FOR_MSG" ELSE "WAITING_FOR_DATA"
  /\ flex_capcode' = Next1.arg /\ taken' = <<>>
  /\ up' = <<>> /\ Answers(<<"READY">>)
  /\ UNCHANGED <<junk, blocked, backlog, raw_tx_pending, confirmed, restarts, airVars>>
  /\ KeepHost

(* AT+RESET and AT+FACTORYRESET answer before the restart.                 *)
ServeRestart ==
  /\ Serving("IDLE") /\ ~Refuses(Next1) /\ Next1.op \in {"RESET", "FACTORYRESET"}
  /\ Answers(<<"OK">>) /\ up' = <<>> /\ blocked' = "service"
  /\ backlog' = 0 /\ raw_tx_pending' = FALSE /\ restarts' = restarts + 1
  /\ confirmed' = IF Next1.op = "RESET" THEN confirmed ELSE {}
  /\ UNCHANGED <<stagingVars, junk, airVars>>
  /\ KeepHost

Accept(genuine, m) ==
  /\ accepted' = TRUE
  /\ strange' = (strange \/ ~genuine)
  /\ copies' = IF genuine THEN [copies EXCEPT ![m] = @ + 1] ELSE copies

(* The line behind READY, whatever it is, is the text of the page; a text  *)
(* without its end goes on with the next line.                             *)
ServePiece ==
  /\ Serving("WAITING_FOR_MSG") /\ Next1.op = "PIECE"
  /\ up' = Tail(up) /\ taken' = << Next1 >>
  /\ UNCHANGED <<down, console, flex_capcode, junk, blocked, backlog, raw_tx_pending,
                 confirmed, restarts, airVars>>
  /\ KeepHost

Room == backlog < MAX_QUEUE_SIZE
ServeText ==
  /\ Serving("WAITING_FOR_MSG") /\ Next1.op # "PIECE"
  /\ up' = Tail(up) /\ ResetState
  /\ IF Room THEN /\ backlog' = backlog + 1 /\ Answers(<<"OK">>)
                  /\ Accept(taken = <<>> /\ Next1 = Unit("TEXT", flex_capcode), flex_capcode)
     ELSE Answers(<<"ERROR">>) /\ UNCHANGED <<backlog, airVars>>
  /\ UNCHANGED <<junk, blocked, raw_tx_pending, confirmed, restarts>>
  /\ KeepHost

(* As many bytes as AT+SEND announced are the frame, whatever they are.    *)
(* What is no second half may not be enough; what is more than enough is a *)
(* line of its own.                                                        *)
Genuine == Head(taken) = Unit("HEAD", Next1.arg) /\ Next1.op = "TAIL"
ServeData ==
  /\ Serving("WAITING_FOR_DATA")
  /\ up' = Tail(up)
  /\ \/ /\ taken = <<>> \/ Next1.op # "TAIL"
        /\ taken' = << IF taken = <<>> THEN Next1 ELSE Unit(Next1.op, 0) >>
        /\ UNCHANGED <<console, flex_capcode, down, raw_tx_pending, airVars>>
     \/ /\ taken # <<>> /\ ResetState
        /\ \E rest \in IF Genuine THEN {<<>>} ELSE {<<>>, <<"ERROR">>} :
             IF raw_tx_pending THEN Answers(<<"ERROR">> \o rest) /\ UNCHANGED <<raw_tx_pending, airVars>>
             ELSE /\ raw_tx_pending' = TRUE /\ Answers(<<"OK">> \o rest)
                  /\ Accept(Genuine, Next1.arg)
  /\ UNCHANGED <<junk, blocked, backlog, confirmed, restarts>>
  /\ KeepHost

Serve == \/ ServeJunk \/ ServeRefused \/ ServeCommand \/ ServeAsk
         \/ ServeRestart \/ ServePiece \/ ServeText \/ ServeData

(* No byte came for 5, 15 or 30 s: the host is gone or waits for us.       *)
\* Mutant: the limit is looked at only while a payload comes in.
HostQuietWaiting == exec = "read" /\ why = "final"
HostQuiet == exit # "running" \/ (exec = "read" /\ why = "final")
StagingExpires ==
  /\ blocked = "no" /\ console # "IDLE" /\ up = <<>> /\ HostQuiet
  /\ ResetState /\ Answers(<<"ERROR">>)
  /\ UNCHANGED <<up, junk, blocked, backlog, raw_tx_pending, confirmed, restarts, airVars>>
  /\ KeepHost

(* A service holds loop for longer than the tool waits ...                 *)
ServiceBlocks ==
  /\ blocked = "no" /\ faults < MaxFaults /\ exit = "running"
  /\ blocked' = "service" /\ faults' = faults + 1
  /\ UNCHANGED <<opts, hostVars, up, down, stagingVars, junk, backlog, raw_tx_pending,
                 confirmed, restarts, report, airVars, late>>

(* ... and after it the limit on the payload may have passed.              *)
ServiceEnds ==
  /\ blocked = "service" /\ blocked' = "no"
  /\ \/ UNCHANGED <<stagingVars, down>>
     \/ console # "IDLE" /\ ResetState /\ Answers(<<"ERROR">>)
  /\ UNCHANGED <<up, junk, backlog, raw_tx_pending, confirmed, restarts, airVars>>
  /\ KeepHost

(* Core 0 sends a frame before any page, and no page while one is staged.  *)
TxStarts ==
  /\ blocked = "no" /\ (raw_tx_pending \/ (backlog > 0 /\ console = "IDLE"))
  /\ blocked' = IF raw_tx_pending THEN "frame" ELSE "page"
  /\ raw_tx_pending' = FALSE /\ console' = "IDLE"
  /\ UNCHANGED <<up, down, flex_capcode, taken, junk, backlog, confirmed, restarts, airVars>>
  /\ KeepHost

TxEnds ==
  /\ blocked \in {"frame", "page"} /\ blocked' = "no"
  /\ backlog' = IF blocked = "page" THEN backlog - 1 ELSE backlog
  /\ UNCHANGED <<up, down, stagingVars, junk, raw_tx_pending, confirmed, restarts, airVars>>
  /\ KeepHost

Next == \/ Host \/ Interrupted \/ Serve \/ StagingExpires
        \/ ServiceBlocks \/ ServiceEnds \/ TxStarts \/ TxEnds
Spec == Init /\ [][Next]_vars

(* The tool is a loop of its own and its user answers; loop and Core 0 of  *)
(* the device run; a service and a transmission end.                       *)
FairSpec == /\ Spec /\ WF_vars(Host) /\ WF_vars(Serve) /\ WF_vars(StagingExpires)
            /\ WF_vars(ServiceEnds) /\ WF_vars(TxStarts) /\ WF_vars(TxEnds)

-----------------------------------------------------------------------------
(*                               Properties                                *)

HostTypeOK ==
  /\ opts \in Opts
  /\ step \in {"init", "confirm", "query", "answers", "plan", "line", "freq", "power",
               "wake", "ask", "final", "end"}
  /\ exec \in {"none", "ensure", "flush", "write", "read"}
  /\ why \in {"command", "ensure", "recover", "ask", "final"}
  /\ cmd \in [op : Ops, arg : 0..Lines] /\ retries \in 0..AT_MAX_RETRIES
  /\ got \in {"none", "data", "ready"} /\ greeted \in BOOLEAN
  /\ attempts \in 0..INIT_ATTEMPTS /\ sends \in 0..SEND_RETRIES /\ message \in 0..Lines
  /\ plan \in Seq([op : Ops, arg : {0}]) /\ asked \subseteq Settings
  /\ exit \in {"running", "ok", "failed", "killed"} /\ (exit = "running" <=> step # "end")
  /\ up \in Seq([op : Ops, arg : 0..Lines]) /\ down \in Seq({"OK", "ERROR", "DATA", "READY"})
  /\ console \in {"IDLE", "WAITING_FOR_MSG", "WAITING_FOR_DATA"}
  /\ flex_capcode \in 0..Lines /\ taken \in Seq([op : Ops, arg : 0..Lines]) /\ Len(taken) <= 1
  /\ junk \in BOOLEAN /\ blocked \in {"no", "service", "frame", "page"}
  /\ backlog \in 0..MAX_QUEUE_SIZE /\ raw_tx_pending \in BOOLEAN
  /\ confirmed \subseteq Settings /\ restarts \in Nat
  /\ report \in [Messages -> {"none", "sent", "failed"}]
  /\ copies \in [Messages -> Nat] /\ {strange, accepted, late} \subseteq BOOLEAN
  /\ faults \in 0..MaxFaults

(* History: confirmed holds the settings the device answered with OK;      *)
(* copies[m] is how often it accepted message m for its capcode; strange,  *)
(* that it accepted anything else; accepted, that it accepted something    *)
(* since the tool last asked; late, that the tool went on while the        *)
(* console had not answered all it was sent, or waited for the rest of a   *)
(* payload.                                                                *)

(* However late the answers come, "sent successfully" is never said of an  *)
(* attempt from which the device took nothing: the OK at_send_flex_message *)
(* trusts is not one that was left over from the commands before it.       *)
SentMeansAccepted == [][\A m \in Messages : report'[m] = "sent" => report[m] = "sent" \/ accepted]_vars

(* The retries do not multiply pages: the device accepts a message again   *)
(* only if a read or write failed or a service held loop.  Transmissions,  *)
(* which keep the console unserved for seconds after every page, never     *)
(* make the tool send one twice.                                           *)
CopiesHaveCause == \A m \in Messages : copies[m] <= 1 + faults

(* The line's two ends: typed, never more pages than the queue holds, and  *)
(* repetitions only where an answer came late or not at all.               *)
HostInv == HostTypeOK /\ CopiesHaveCause

(* While every answer is in time and every payload begun is written whole, *)
(* the device accepts what it was asked to, however many commands could    *)
(* not be written or were refused: a message reported as sent once, one    *)
(* reported as failed not at all, and never a command in place of a text   *)
(* or a frame.                                                             *)
AcceptedAsReported ==
  late \/ /\ ~strange
          /\ \A m \in Messages : /\ copies[m] <= 1
                                 /\ report[m] = "sent" => copies[m] = 1
                                 /\ report[m] = "failed" => copies[m] = 0

(* While every answer is in time, the wizard restarts the device only      *)
(* after an OK of the device to each setting it was to send: no OK is      *)
(* taken for that of another command, and no failed one is passed over.    *)
RestartsComplete == late \/ opts.run # "wizard" \/ restarts = 0 \/ asked \subseteq confirmed

(* The tool ends: its retries, repeats and waits are limited.              *)
ToolEnds == <>(exit # "running")

(* A console that waits for a payload serves commands again, wherever the  *)
(* tool was interrupted.                                                   *)
ConsoleReturns == console # "IDLE" ~> console = "IDLE"
=============================================================================
