----------------------------- MODULE HostProofs -----------------------------
(***************************************************************************)
(* What module HostTool promises for every set of settings, every number   *)
(* of messages, retries and faults, and every size of the device's queue.  *)
(*                                                                         *)
(* Whole, the invariant, is a conjunction of parts that rest on the ones   *)
(* before them.  Control says where in main the tool is and what the       *)
(* command it executes is about; Device, which units a tool with these     *)
(* options can have put on the line and what the console makes of them;    *)
(* Success, what must have happened before READY or the OK of a text is on *)
(* its way back; HeldInv, that every copy of a message beyond the first    *)
(* has a fault of its own.                                                 *)
(*                                                                         *)
(* The other two are about answers that come in time.  TimeInv says that   *)
(* until one is late, the line is never ahead of the tool: what is on it   *)
(* answers the command in progress.  Restart says that what the user asked *)
(* for is confirmed or still planned when RESET is sent.                   *)
(*                                                                         *)
(* Each part has lemmas for the three kinds of step StepKinds tells apart: *)
(* those of the tool, with one case for each way a call can end; those in  *)
(* which the device serves what is on the line (Serves); and those in      *)
(* which only time passes or the air changes (Moves).  The part's last     *)
(* lemma, DeviceStays to RestartStays, puts them together.                 *)
(***************************************************************************)
EXTENDS HostTool, SequenceTheorems, FiniteSetTheorems, TLAPS

(* The types by what they are about.                                       *)
Steps == {"init", "confirm", "query", "answers", "plan", "line", "freq", "power",
          "wake", "ask", "final", "end"}
Units == [op : Ops, arg : 0..Lines]
CallOK ==
  /\ opts \in Opts /\ step \in Steps /\ exec \in {"none", "ensure", "flush", "write", "read"}
  /\ why \in {"command", "ensure", "recover", "ask", "final"}
  /\ cmd \in Units /\ retries \in 0..AT_MAX_RETRIES
  /\ got \in {"none", "data", "ready"} /\ greeted \in BOOLEAN
ToolOK ==
  /\ attempts \in 0..INIT_ATTEMPTS /\ sends \in 0..SEND_RETRIES /\ message \in 0..Lines
  /\ plan \in Seq([op : Ops, arg : {0}]) /\ asked \subseteq Settings
  /\ exit \in {"running", "ok", "failed", "killed"} /\ (exit = "running" <=> step # "end")
  /\ report \in [Messages -> {"none", "sent", "failed"}]
LineOK == up \in Seq(Units) /\ down \in Seq({"OK", "ERROR", "DATA", "READY"})
ConsoleOK ==
  /\ console \in {"IDLE", "WAITING_FOR_MSG", "WAITING_FOR_DATA"}
  /\ flex_capcode \in 0..Lines /\ taken \in Seq(Units) /\ Len(taken) <= 1
  /\ junk \in BOOLEAN /\ confirmed \subseteq Settings /\ restarts \in Nat
AirOK ==
  /\ blocked \in {"no", "service", "frame", "page"}
  /\ backlog \in 0..MAX_QUEUE_SIZE /\ raw_tx_pending \in BOOLEAN
  /\ copies \in [Messages -> Nat] /\ strange \in BOOLEAN /\ accepted \in BOOLEAN
LateOK == late \in BOOLEAN /\ faults \in 0..MaxFaults

(* What the tool is about at each place of main.                           *)
Sending == {"freq", "power", "wake", "ask", "final"}
Setups == {"RESET"} \cup Settings
PlaceInv ==
  /\ exec = "none" <=> step \in {"answers", "line", "end"}
  /\ got # "none" => exec = "read"
  /\ why = "ask" <=> step = "ask"
  /\ why = "final" <=> step = "final"
  /\ exec = "ensure" => why = "ensure"
  /\ step = "ask" => exec \in {"flush", "write", "read"} /\ cmd = Ask(message)
  /\ step = "final" => exec = "read"
  /\ step \in {"init", "confirm"} => attempts > 0 /\ message = 0
  /\ step \in {"wake", "ask", "final"} => sends > 0
  /\ step \in Sending \cup {"line"} => opts.run = "message"
  /\ step \in Sending => message \in Messages /\ report[message] = "none"
  /\ exit = "running" => \A m \in Messages : m > message => report[m] = "none"
  /\ step = "query" => opts.run = "wizard"
  /\ step \in {"answers", "plan"} => opts.run \in {"wizard", "factory"}
  /\ step = "plan" => plan # <<>> /\ cmd = Head(plan)
  /\ step \notin {"plan", "ask", "final"} => cmd.op \in {"AT", "FREQ", "POWER", "STATUS?"}

(* The restart is the last of the commands in the plan.                    *)
PlanInv ==
  /\ opts.run = "wizard" => \A j \in 1..Len(plan) :
       plan[j].op \in Setups /\ (plan[j].op = "RESET" => j = Len(plan))
  /\ opts.run = "factory" /\ step = "plan" => plan = << Unit("FACTORYRESET", 0) >>

(* What may be on its way to the device, and what the device makes of it.  *)
Sent == {u \in Units :
  /\ u.op \in {"MSG", "TEXT", "PIECE"} => opts.remote /\ opts.run = "message"
  /\ u.op \in {"SEND", "HEAD", "TAIL"} => ~opts.remote /\ opts.run = "message"
  /\ u.op = "RESET" => opts.run = "wizard"
  /\ u.op = "FACTORYRESET" => opts.run = "factory"}
LineInv == up \in Seq(Sent)
DeviceInv ==
  /\ console = "WAITING_FOR_MSG" => opts.remote
  /\ console = "WAITING_FOR_DATA" => ~opts.remote
  /\ raw_tx_pending => ~opts.remote
  /\ console # "IDLE" => ~raw_tx_pending /\ blocked \in {"no", "service"}
  /\ console = "IDLE" => taken = <<>>
  /\ console = "IDLE" => flex_capcode = 0
  /\ blocked = "page" => backlog > 0

-----------------------------------------------------------------------------
(* READY is on its way only while the console waits for the text, or its   *)
(* answer to it is behind READY; the OK that ends a text is on its way     *)
(* only when the device took something from the attempt.                   *)
Has(answer) == \E j \in 1..Len(down) : down[j] = answer
ReadyInv ==
  why = "ask" /\ exec \in {"write", "read"} /\ (got = "ready" \/ Has("READY")) =>
    \/ Has("OK") \/ Has("ERROR")
    \/ console # "IDLE" /\ (up = <<>> \/ (exec = "read" /\ up = << cmd >>))
FinalInv ==
  why = "final" =>
    /\ \A j \in 1..Len(up) : up[j].op \in {"MSG", "SEND", "TEXT", "HEAD", "TAIL"}
    /\ Has("OK") => accepted

(* A payload is live when the device will take it as it stands: Held       *)
(* counts it with the copies the device has, and every copy beyond the     *)
(* first has a fault of its own.  Before an attempt's payload is on the    *)
(* line its message is held only for faults already counted; after it,     *)
(* also once for an answer still to come (Good).  A service that eats the  *)
(* console's time-out has cost a fault before its copy.                    *)
Live(m) ==
  \/ console = "WAITING_FOR_MSG" /\ taken = <<>> /\ up # <<>>
       /\ Head(up) = Unit("TEXT", m) /\ flex_capcode = m
  \/ console = "WAITING_FOR_DATA" /\ taken = <<>>
       /\ Len(up) > 1 /\ up[1] = Unit("HEAD", m) /\ up[2] = Unit("TAIL", m)
  \/ console = "WAITING_FOR_DATA" /\ taken = << Unit("HEAD", m) >>
       /\ up # <<>> /\ Head(up) = Unit("TAIL", m)
Held(m) == copies[m] + (IF Live(m) THEN 1 ELSE 0)
Decided == (down # <<>> /\ Head(down) = "OK")
Good == (Live(message) /\ blocked # "service" /\ down = <<>>) \/ Decided
HeldInv ==
  /\ \A m \in Messages : Held(m) <= 1 + faults
  /\ exit = "running" => \A m \in Messages : m > message => Held(m) = 0
  /\ step \in Sending \ {"final"} => Held(message) <= faults
  /\ step = "final" /\ ~Good => Held(message) <= faults
  /\ why = "ask" /\ exec = "read" /\ blocked = "service" /\ up = <<>> => Held(message) < faults

(* Until an answer is late: the console waits for nothing but the payload  *)
(* of the attempt in progress, the line holds at most the one command      *)
(* being executed, and what is on its way back is the answer to that.  An  *)
(* attempt that is over has left nothing behind.                           *)
InTime ==
  /\ ~strange
  /\ console = "WAITING_FOR_MSG" => taken = <<>> /\ (up = <<>> \/ up = << Unit("TEXT", flex_capcode) >>)
  /\ console = "WAITING_FOR_DATA" =>
       \/ taken = <<>> /\ (up = <<>> \/ up = << Unit("HEAD", flex_capcode), Unit("TAIL", flex_capcode) >>)
       \/ taken = << Unit("HEAD", flex_capcode) >> /\ up = << Unit("TAIL", flex_capcode) >>
  /\ console = "IDLE" => Len(up) <= 1 \/ \A j \in 1..Len(up) : up[j].op \in {"HEAD", "TAIL"}
  /\ \A m \in Messages : /\ Held(m) <= 1
                         /\ report[m] = "sent" => copies[m] = 1
                         /\ report[m] = "failed" => Held(m) = 0
Answered == (down # <<>> /\ Head(down) \in {"OK", "ERROR"})
ToolInTime ==
  /\ exec # "read" => up = <<>> /\ console = "IDLE"
  /\ exec = "write" => down = <<>>
  /\ exec = "read" /\ why \notin {"ask", "final"} =>
       /\ console = "IDLE"
       /\ up = <<>> \/ (up = << IF why = "command" THEN cmd ELSE AT >> /\ down = <<>>)
  /\ step \in Sending \ {"final"} => Held(message) = 0
  /\ exec = "read" /\ why = "ask" =>
       \/ up = << cmd >> /\ down = <<>> /\ console = "IDLE" /\ got = "none"
       \/ /\ up = <<>> /\ console # "IDLE" /\ taken = <<>> /\ flex_capcode = message
          /\ \/ down = <<"READY">> /\ got = "none"
             \/ down = <<>> /\ got = "ready"
       \/ up = <<>> /\ console = "IDLE" /\ (Has("OK") \/ Has("ERROR"))
  /\ why = "final" => \A j \in 1..Len(up) : up[j].op \in {"TEXT", "HEAD", "TAIL"}
  /\ why = "final" =>
       \/ down = <<>> /\ Live(message)
       \/ /\ Answered /\ console = "IDLE"
          /\ copies[message] = (IF Head(down) = "OK" THEN 1 ELSE 0)
TimeInv == ~late => InTime /\ (exit = "running" => ToolInTime)

(* The wizard's plan ends with RESET, and what was asked for is confirmed  *)
(* or still planned; an OK the tool reads for a setting is that setting's. *)
(* So when RESET is on the line nothing is left to confirm.                *)
Planned(op) == \E j \in 1..Len(plan) : plan[j].op = op
OnLine(op) == \E j \in 1..Len(up) : up[j].op = op
RestartInv ==
  /\ opts.run = "wizard" /\ step \in {"init", "confirm", "query", "answers"} => restarts = 0 /\ ~OnLine("RESET")
  /\ opts.run = "wizard" /\ ~late =>
       /\ OnLine("RESET") => asked \subseteq confirmed
       /\ step = "plan" /\ Planned("RESET") => \A s \in asked : s \in confirmed \/ Planned(s)
       /\ step = "plan" /\ exec = "read" /\ why = "command" /\ Has("OK") /\ cmd.op \in Settings => cmd.op \in confirmed

USE DEF callVars, hostVars, stagingVars, deviceVars, airVars, Free, KeepHost

Control == CallOK /\ ToolOK /\ PlaceInv /\ PlanInv

(* The limits of the tool and the device, one by one.                      *)
LEMMA LimitsPositive ==
  /\ AT_MAX_RETRIES \in Nat \ {0} /\ SEND_RETRIES \in Nat \ {0} /\ INIT_ATTEMPTS \in Nat \ {0}
  /\ MAX_QUEUE_SIZE \in Nat \ {0} /\ Lines \in Nat \ {0} /\ MaxFaults \in Nat
  BY HostAssumption

(* The commands are told apart.                                            *)
LEMMA CommandNames ==
  /\ \A s \in Settings : s \notin Others
  /\ Others \subseteq Ops /\ Settings \subseteq Ops
  /\ FlexSettings \subseteq Settings /\ NetworkSettings \subseteq Settings
  /\ \A op \in Ops : Unit(op, 0) \in Units /\ Unit(op, 0) \in [op : Ops, arg : {0}]
  /\ \A op \in Ops, m \in Messages : Unit(op, m) \in Units
  BY HostAssumption DEF Ops, Settings, Others, Unit, Units, Messages

(* Short sequences, and the first of any.                                  *)
LEMMA Firsts ==
  ASSUME NEW S, NEW s \in Seq(S), s # <<>>
  PROVE  Len(s) \in Nat \ {0} /\ Head(s) = s[1] /\ s[1] \in S /\ 1 \in 1..Len(s)
  <1>1. Len(s) \in Nat \ {0}
    BY EmptySeq
  <1>2. s[1] \in S
    BY <1>1, ElementOfSeq
  <1> QED
    BY <1>1, <1>2

LEMMA Singles ==
  ASSUME NEW x
  PROVE  Tail(<<x>>) = <<>> /\ Head(<<x>>) = x /\ Len(<<x>>) = 1 /\ <<x>> # <<>> /\ <<x>>[1] = x
  OBVIOUS

(* A kind of settings as a sequence of commands.                           *)
LEMMA SequenceFacts ==
  ASSUME NEW S \in SUBSET Settings
  PROVE  /\ Sequence(S) \in Seq([op : S, arg : {0}])
         /\ \A s \in S : \E j \in 1..Len(Sequence(S)) : Sequence(S)[j].op = s
  <1>1. CASE S = {}
    <2>1. Sequence(S) = <<>>
      BY <1>1 DEF Sequence
    <2> QED
      BY <1>1, <2>1, EmptySeq
  <1>2. CASE S # {}
    <2> DEFINE n == Cardinality(S)
               U == [op : S, arg : {0}]
               Lists(q) == {q[i].op : i \in DOMAIN q} = S
    <2>1. IsFiniteSet(S)
      BY HostAssumption, FS_Subset
    <2>2. n \in Nat /\ \E f : ExistsBijection(1..n, S)
      BY <2>1, FS_CardinalityType
    <2>3. PICK f \in Bijection(1..n, S) : TRUE
      BY <2>1, FS_CardinalityType DEF ExistsBijection
    <2>4. /\ f \in [1..n -> S]
          /\ \A s \in S : \E i \in 1..n : f[i] = s
      BY <2>3 DEF Bijection, Surjection
    <2> DEFINE q0 == [i \in 1..n |-> [op |-> f[i], arg |-> 0]]
    <2>5. q0 \in [1..n -> U]
      BY <2>4
    <2>6. Lists(q0)
      BY <2>4
    <2>7. /\ Sequence(S) \in [1..n -> U]
          /\ Lists(Sequence(S))
      <3>1. Sequence(S) = CHOOSE q \in [1..n -> U] : Lists(q)
        BY <1>2 DEF Sequence
      <3>2. \E q \in [1..n -> U] : Lists(q)
        BY <2>5, <2>6
      <3> HIDE DEF Lists, U, n
      <3> QED
        BY <3>1, <3>2
    <2>8. Sequence(S) \in Seq(U)
      <3> HIDE DEF Lists, U, n
      <3> QED
        BY <2>2, <2>7, SeqDef
    <2>9. DOMAIN Sequence(S) = 1..Len(Sequence(S))
      BY <2>8, LenProperties
    <2> QED
      BY <2>7, <2>8, <2>9
  <1> QED
    BY <1>1, <1>2

(* What the wizard asks for is planned, kind by kind, and RESET is the     *)
(* last.                                                                   *)
LEMMA WizardPlan ==
  ASSUME NEW flex \in SUBSET FlexSettings, NEW network \in SUBSET NetworkSettings
  PROVE  LET rest == Sequence(flex) \o Sequence(network) \o << Unit("RESET", 0) >> IN
         /\ rest \in Seq([op : Ops, arg : {0}])
         /\ \A j \in 1..Len(rest) :
              rest[j].op \in Setups /\ (rest[j].op = "RESET" => j = Len(rest))
         /\ \A s \in flex \cup network : \E j \in 1..Len(rest) : rest[j].op = s
  <1> DEFINE U == [op : Ops, arg : {0}]
             V == [op : Settings, arg : {0}]
             q == Sequence(flex)
             r == Sequence(network)
             z == << Unit("RESET", 0) >>
             rest == q \o r \o z
  <1>1. /\ q \in Seq([op : flex, arg : {0}]) /\ r \in Seq([op : network, arg : {0}])
        /\ \A s \in flex : \E j \in 1..Len(q) : q[j].op = s
        /\ \A s \in network : \E j \in 1..Len(r) : r[j].op = s
    BY SequenceFacts, CommandNames
  <1>2. [op : flex, arg : {0}] \subseteq V /\ [op : network, arg : {0}] \subseteq V /\ V \subseteq U
    BY CommandNames
  <1>3. q \in Seq(V) /\ r \in Seq(V) /\ q \in Seq(U) /\ r \in Seq(U)
    <2> HIDE DEF q, r, U, V
    <2>1. q \in Seq(V) /\ r \in Seq(V)
      BY <1>1, <1>2, SeqMonotonic
    <2> QED
      BY <1>2, <2>1, SeqMonotonic
  <1>4. z \in Seq(U) /\ Len(z) = 1 /\ z[1].op = "RESET"
    BY CommandNames DEF Others, Unit
  <1> HIDE DEF q, r, z
  <1>5. /\ \A j \in 1..Len(q) : q[j].op \in Settings
        /\ \A j \in 1..Len(r) : r[j].op \in Settings
    <2>1. /\ \A j \in 1..Len(q) : q[j] \in V
          /\ \A j \in 1..Len(r) : r[j] \in V
      BY <1>3, ElementOfSeq
    <2> QED
      BY <2>1
  <1> HIDE DEF U, V
  <1>6. /\ q \o r \in Seq(U) /\ Len(q) \in Nat /\ Len(r) \in Nat /\ Len(q \o r) = Len(q) + Len(r)
        /\ \A j \in 1..Len(q) + Len(r) : (q \o r)[j] = IF j <= Len(q) THEN q[j] ELSE r[j - Len(q)]
    BY <1>3, ConcatProperties, LenProperties
  <1>7. /\ rest \in Seq(U) /\ Len(rest) = Len(q) + Len(r) + 1
        /\ \A j \in 1..Len(q) + Len(r) + 1 :
             rest[j] = IF j <= Len(q) + Len(r) THEN (q \o r)[j] ELSE z[j - (Len(q) + Len(r))]
    <2>1. /\ rest \in Seq(U) /\ Len(rest) = Len(q \o r) + Len(z)
          /\ \A j \in 1..Len(q \o r) + Len(z) :
             rest[j] = IF j <= Len(q \o r) THEN (q \o r)[j] ELSE z[j - Len(q \o r)]
      <3> DEFINE p == q \o r
      <3>1. p \in Seq(U) /\ rest = p \o z
        BY <1>6
      <3> HIDE DEF p, rest
      <3>2. /\ rest \in Seq(U) /\ Len(rest) = Len(p) + Len(z)
            /\ \A j \in 1..Len(p) + Len(z) : rest[j] = IF j <= Len(p) THEN p[j] ELSE z[j - Len(p)]
        BY <1>4, <3>1, ConcatProperties
      <3> QED
        BY <3>2 DEF p
    <2> HIDE DEF rest
    <2> QED
      BY <1>4, <1>6, <2>1
  <1> HIDE DEF rest
  <1>8. /\ \A j \in 1..Len(q) : j \in 1..Len(rest) /\ rest[j] = q[j]
        /\ \A j \in 1..Len(r) : j + Len(q) \in 1..Len(rest) /\ rest[j + Len(q)] = r[j]
        /\ rest[Len(rest)] = z[1]
        /\ \A j \in 1..Len(rest) : j \in 1..Len(q) \/ j - Len(q) \in 1..Len(r) \/ j = Len(rest)
    BY <1>6, <1>7
  <1>9. \A j \in 1..Len(rest) : rest[j].op \in Setups /\ (rest[j].op = "RESET" => j = Len(rest))
    <2> TAKE j \in 1..Len(rest)
    <2>1. CASE j \in 1..Len(q)
      BY <1>5, <1>8, <2>1, CommandNames DEF Setups, Others
    <2>2. CASE j - Len(q) \in 1..Len(r)
      <3>1. rest[j] = r[j - Len(q)]
        BY <1>6, <1>7, <1>8, <2>2
      <3> QED
        BY <1>5, <2>2, <3>1, CommandNames DEF Setups, Others
    <2>3. CASE j = Len(rest)
      BY <1>4, <1>8, <2>3 DEF Setups
    <2> QED
      BY <1>8, <2>1, <2>2, <2>3
  <1>10. \A s \in flex \cup network : \E j \in 1..Len(rest) : rest[j].op = s
    <2> TAKE s \in flex \cup network
    <2>1. CASE s \in flex
      BY <1>1, <1>8, <2>1
    <2>2. CASE s \in network
      <3>1. PICK j \in 1..Len(r) : r[j].op = s
        BY <1>1, <2>2
      <3>2. j + Len(q) \in 1..Len(rest) /\ rest[j + Len(q)].op = s
        BY <1>8, <3>1
      <3> QED
        BY <3>2
    <2> QED
      BY <2>1, <2>2
  <1> QED
    BY <1>7, <1>9, <1>10 DEF rest, q, r, z, U

(* What the tool makes of an answer: it goes on with its message or ends   *)
(* it without a word, or reports it, or takes up the next one.             *)
Decides(how) ==
  /\ step' # "final" /\ exec' \notin {"write", "read"}
  /\ \/ /\ message' = message /\ report' = report
        /\ step' \in Sending => step \in Sending
     \/ /\ message' = message /\ step \in Sending /\ step' \notin Sending
        /\ report' = [report EXCEPT ![message] = how]
     \/ /\ message' = message + 1 /\ report' = report /\ step \notin Sending /\ exit = "running"

(* The plan of the tool as it follows it.                                  *)
Follows(rest) ==
  /\ plan' = rest
  /\ IF rest # <<>> THEN Call("plan", Head(rest)) /\ UNCHANGED exit
     ELSE Pause("end") /\ exit' \in {"ok", "failed"}

LEMMA FollowKeepsControl ==
  ASSUME Control, NEW rest \in Seq([op : Ops, arg : {0}]), Follows(rest),
         step \in {"answers", "plan"}, got' = "none", exit = "running",
         \/ opts.run = "wizard" /\ \A j \in 1..Len(rest) :
              rest[j].op \in Setups /\ (rest[j].op = "RESET" => j = Len(rest))
         \/ opts.run = "factory" /\ (rest = <<>> \/ rest = << Unit("FACTORYRESET", 0) >>),
         UNCHANGED <<opts, greeted, attempts, sends, message, report>>, asked' \subseteq Settings
  PROVE  Control' /\ Decides("failed")
  <1> USE DEF Control, Call, Pause, Ends
  <1>1. CASE rest = <<>>
    <2>1. /\ UNCHANGED <<opts, greeted, attempts, sends, message, report>> /\ got' = "none"
          /\ step' = "end" /\ exec' = "none" /\ why' = "command" /\ plan' = <<>>
          /\ cmd' = AT /\ retries' = 0 /\ exit' \in {"ok", "failed"}
      BY <1>1 DEF Follows
    <2>2. AT \in Units /\ <<>> \in Seq([op : Ops, arg : {0}]) /\ Len(<<>>) = 0
      BY CommandNames, EmptySeq DEF AT, Others
    <2>3. CallOK' /\ ToolOK'
      BY <2>1, <2>2, LimitsPositive DEF CallOK, ToolOK, Steps
    <2>4. PlaceInv' /\ Decides("failed")
      BY <2>1 DEF PlaceInv, Decides, Sending, Messages, AT, Unit
    <2>5. PlanInv'
      BY <2>1, <2>2 DEF PlanInv
    <2> QED
      BY <2>3, <2>4, <2>5
  <1>2. CASE rest # <<>>
    <2>1. Head(rest) \in Units /\ Head(rest) # AT
      <3>1. Head(rest) = rest[1] /\ 1 \in 1..Len(rest) /\ rest[1] \in [op : Ops, arg : {0}]
        BY <1>2, Firsts
      <3>2. rest[1].op # "AT"
        BY <1>2, <3>1, CommandNames DEF Setups, Others, Unit
      <3> QED
        BY <3>1, <3>2, LimitsPositive DEF Units, AT, Unit
    <2>2. /\ UNCHANGED <<opts, greeted, attempts, sends, message, report, exit>> /\ got' = "none"
          /\ step' = "plan" /\ exec' = "ensure" /\ why' = "ensure" /\ plan' = rest
          /\ cmd' = Head(rest) /\ retries' = AT_MAX_RETRIES
      BY <1>2, <2>1 DEF Follows
    <2>3. CallOK' /\ ToolOK'
      BY <2>1, <2>2, LimitsPositive DEF CallOK, ToolOK, Steps
    <2>4. PlaceInv' /\ Decides("failed")
      BY <1>2, <2>2 DEF PlaceInv, Decides, Sending, Messages
    <2>5. PlanInv'
      BY <1>2, <2>2 DEF PlanInv
    <2> QED
      BY <2>3, <2>4, <2>5
  <1> QED
    BY <1>1, <1>2

(* A message reported.                                                     *)
LEMMA ReportKeepsControl ==
  ASSUME Control, step \in Sending, NEW how \in {"sent", "failed"}, Reported(how),
         got' = "none", UNCHANGED <<opts, asked, plan, greeted, attempts>>, sends' \in 0..SEND_RETRIES
  PROVE  Control' /\ Decides(how) /\ step' \notin Sending
  <1> USE DEF Control, Pause, Ends
  <1>1. /\ UNCHANGED <<opts, asked, plan, greeted, attempts, message>> /\ got' = "none"
        /\ step' \in {"line", "end"} /\ exec' = "none" /\ why' = "command" /\ cmd' = AT /\ retries' = 0
        /\ exit' \in {"running", "ok", "failed"} /\ (exit' = "running" <=> step' # "end")
        /\ report' = [report EXCEPT ![message] = how]
    <2>1. CASE opts.stdin /\ opts.loop
      BY <2>1 DEF Reported, ToolOK, Sending
    <2>2. CASE ~(opts.stdin /\ opts.loop)
      BY <2>2 DEF Reported, ToolOK, Sending
    <2> QED
      BY <2>1, <2>2
  <1>2. CallOK' /\ ToolOK'
    <2>1. AT \in Units
      BY CommandNames DEF AT, Others
    <2> QED
      <3>1. CallOK'
        BY <1>1, <2>1, LimitsPositive DEF CallOK, Steps
      <3>2. report' \in [Messages -> {"none", "sent", "failed"}]
        BY <1>1 DEF ToolOK
      <3>3. ToolOK'
        BY <1>1, <3>2 DEF ToolOK
      <3> QED
        BY <3>1, <3>3
  <1>3. PlaceInv'
    BY <1>1 DEF PlaceInv, Sending, Messages, AT, Unit, ToolOK
  <1>4. PlanInv'
    BY <1>1 DEF PlanInv
  <1>5. Decides(how) /\ step' \notin Sending
    BY <1>1 DEF Decides, Sending
  <1> QED
    BY <1>2, <1>3, <1>4, <1>5

(* A new attempt, or no more.                                              *)
LEMMA AttemptKeepsControl ==
  ASSUME Control, step \in Sending, NEW n \in 0..SEND_RETRIES, Attempt(n),
         got' = "none", UNCHANGED <<opts, asked, plan, greeted, attempts>>
  PROVE  Control' /\ Decides("failed")
  <1> USE DEF Control
  <1>1. CASE n > 0
    <2>1. /\ UNCHANGED <<opts, asked, plan, greeted, attempts, message, exit, report>> /\ got' = "none"
          /\ step' = "wake" /\ exec' = "flush" /\ why' = "command" /\ cmd' = AT
          /\ retries' = AT_MAX_RETRIES /\ sends' = n
      BY <1>1 DEF Attempt, Call
    <2>2. CallOK' /\ ToolOK'
      BY <2>1, CommandNames, LimitsPositive DEF CallOK, ToolOK, AT, Others, Steps, Sending
    <2>3. PlaceInv'
      BY <1>1, <2>1 DEF PlaceInv, Sending, Messages, AT, Unit, ToolOK
    <2>4. PlanInv'
      BY <2>1 DEF PlanInv
    <2>5. Decides("failed")
      BY <2>1 DEF Decides, Sending
    <2> QED
      BY <2>2, <2>3, <2>4, <2>5
  <1>2. CASE n = 0
    <2>1. sends' = 0 /\ Reported("failed")
      BY <1>2 DEF Attempt
    <2> QED
      BY <2>1, LimitsPositive, ReportKeepsControl
  <1> QED
    BY <1>1, <1>2

(* main goes on with the outcome of a command: one case for each place the *)
(* command can have been executed at.                                      *)
LEMMA ReturnsKeepControl ==
  ASSUME Control, NEW ok \in BOOLEAN, Returns(ok), exec \in {"read", "write"}, why = "command",
         got' = "none", UNCHANGED greeted
  PROVE  Control' /\ Decides("failed")
  <1> USE DEF Control, Call, Pause, Ends
  <1>0. UNCHANGED <<opts, asked, greeted>> /\ got' = "none"
    BY DEF Returns
  <1>1. CASE step = "init" /\ ok
    BY <1>0, <1>1, CommandNames, LimitsPositive
      DEF Returns, CallOK, ToolOK, PlaceInv, PlanInv, Decides, AT, Steps, Sending, Others, Unit, Messages
  <1>2. CASE step \in {"init", "confirm"} /\ ~ok
    <2>0. InitAgain /\ UNCHANGED <<sends, message, plan, report>>
      BY <1>2 DEF Returns
    <2>1. /\ UNCHANGED <<opts, asked, greeted, sends, message, plan, report>> /\ got' = "none"
          /\ attempts' = attempts - 1 /\ attempts' \in 0..INIT_ATTEMPTS /\ why' = "command" /\ cmd' = AT /\ retries' \in 0..AT_MAX_RETRIES
          /\ \/ attempts' > 0 /\ step' = "init" /\ exec' = "flush" /\ exit' = exit
             \/ step' = "end" /\ exec' = "none" /\ exit' = "failed"
      <3>1. attempts \in 1..INIT_ATTEMPTS
        BY <1>2 DEF ToolOK, PlaceInv
      <3> QED
        BY <1>0, <2>0, <3>1, LimitsPositive DEF InitAgain
    <2>2. AT \in Units
      BY CommandNames DEF AT, Others
    <2>3. CallOK' /\ ToolOK'
      BY <1>2, <2>1, <2>2 DEF CallOK, ToolOK, PlaceInv, Steps
    <2>4. PlaceInv' /\ Decides("failed")
      BY <1>2, <2>1 DEF PlaceInv, Decides, Sending, Messages, AT, Unit, ToolOK
    <2>5. PlanInv'
      BY <1>2, <2>1 DEF PlanInv
    <2> QED
      BY <2>3, <2>4, <2>5
  <1>3. CASE step = "confirm" /\ ok
    BY <1>0, <1>3, CommandNames, LimitsPositive
      DEF Returns, Begins, Opts, CallOK, ToolOK, PlaceInv, PlanInv, Decides, AT, Steps, Sending, Others, Unit, Messages
  <1>4. CASE step = "query"
    BY <1>0, <1>4, CommandNames, LimitsPositive
      DEF Returns, CallOK, ToolOK, PlaceInv, PlanInv, Decides, AT, Steps, Sending, Others, Unit, Messages
  <1>5. CASE step = "plan" /\ ~Failed(ok)
    <2>1. Follows(Tail(plan))
      BY <1>5 DEF Returns, Follow, Follows, Failed
    <2>2. plan # <<>> /\ Tail(plan) \in Seq([op : Ops, arg : {0}])
      BY <1>5 DEF ToolOK, PlaceInv
    <2>3. opts.run = "wizard" => \A j \in 1..Len(Tail(plan)) :
              Tail(plan)[j].op \in Setups /\ (Tail(plan)[j].op = "RESET" => j = Len(Tail(plan)))
      BY <2>2, HeadTailProperties, LenProperties DEF ToolOK, PlanInv
    <2>4. opts.run = "factory" => Tail(plan) = <<>>
      BY <1>5, Singles DEF PlanInv
    <2>5. opts.run \in {"wizard", "factory"} /\ exit = "running"
      BY <1>5 DEF PlaceInv, ToolOK
    <2> QED
      BY <1>0, <1>5, <2>1, <2>2, <2>3, <2>4, <2>5, FollowKeepsControl DEF Returns, ToolOK
  <1>6. CASE step = "plan" /\ Failed(ok)
    <2> DEFINE rest == AfterFailure(cmd.op)
    <2>1. Follows(rest)
      BY <1>6 DEF Returns, Follow, Follows
    <2>2. /\ rest \in Seq([op : Ops, arg : {0}])
          /\ \A j \in 1..Len(rest) : rest[j].op \in Settings
      <3>1. CASE cmd.op \in FlexSettings
        <4> DEFINE S == asked \cap NetworkSettings
        <4>1. S \in SUBSET Settings /\ rest = Sequence(S)
          BY <3>1, CommandNames DEF AfterFailure
        <4>2. rest \in Seq([op : S, arg : {0}])
          BY <4>1, SequenceFacts
        <4>3. [op : S, arg : {0}] \subseteq [op : Ops, arg : {0}]
          BY <4>1, CommandNames
        <4>4. \A j \in 1..Len(rest) : rest[j] \in [op : S, arg : {0}]
          BY <4>2, ElementOfSeq
        <4> QED
          <5> HIDE DEF rest, S
          <5>1. rest \in Seq([op : Ops, arg : {0}])
            BY <4>2, <4>3, SeqMonotonic
          <5> QED
            BY <4>1, <4>4, <5>1
      <3>2. CASE cmd.op \notin FlexSettings
        BY <3>2, EmptySeq DEF AfterFailure
      <3> QED
        BY <3>1, <3>2
    <2>3. opts.run = "factory" => rest = <<>>
      <3>1. opts.run = "factory" => cmd.op = "FACTORYRESET"
        BY <1>6 DEF PlanInv, PlaceInv, Unit
      <3> QED
        BY <3>1, CommandNames DEF AfterFailure, Others
    <2>4. opts.run \in {"wizard", "factory"} /\ exit = "running"
      BY <1>6 DEF PlaceInv, ToolOK
    <2>5. \A j \in 1..Len(rest) : rest[j].op \in Setups /\ rest[j].op # "RESET"
      BY <2>2, CommandNames DEF Setups, Others
    <2> QED
      BY <1>0, <1>6, <2>1, <2>2, <2>3, <2>4, <2>5, FollowKeepsControl DEF Returns, ToolOK
  <1>7. CASE step = "freq" /\ ok
    BY <1>0, <1>7, CommandNames, LimitsPositive
      DEF Returns, CallOK, ToolOK, PlaceInv, PlanInv, Decides, AT, Steps, Sending, Others, Unit, Messages
  <1>8. CASE step = "power" /\ ok
    BY <1>0, <1>8, LimitsPositive, AttemptKeepsControl DEF Returns, Sending
  <1>9. CASE step \in {"freq", "power"} /\ ~ok
    <2>1. Reported("failed") /\ UNCHANGED <<attempts, sends, plan>>
      BY <1>9 DEF Returns
    <2> QED
      BY <1>0, <1>9, <2>1, ReportKeepsControl DEF Sending, ToolOK
  <1>10. CASE step = "wake"
    <2>1. Ask(message) \in Units /\ Ask(message)' = Ask(message)
      BY <1>0, <1>10, CommandNames DEF Returns, Ask, PlaceInv, Sending, Others
    <2> QED
      BY <1>0, <1>10, <2>1, LimitsPositive
      DEF Returns, CallOK, ToolOK, PlaceInv, PlanInv, Decides, Steps, Sending, Messages
  <1> QED
    BY <1>1, <1>2, <1>3, <1>4, <1>5, <1>6, <1>7, <1>8, <1>9, <1>10 DEF Returns
-----------------------------------------------------------------------------
(* What every step keeps of the tool's control, and what it comes to.      *)
Unwritten == exec = "write" /\ faults < MaxFaults /\ faults' = faults + 1
Silently == exec = "none" /\ exit = "running" /\ UNCHANGED <<down, late, faults>>
Decision ==
  /\ UNCHANGED <<opts, up, deviceVars, airVars>> /\ got' = "none"
  /\ \/ Silently /\ Decides("failed")
     \/ why \in {"command", "ask"} /\ Unwritten /\ UNCHANGED <<asked, down, late>> /\ Decides("failed")
     \/ /\ why = "command" /\ UNCHANGED asked /\ Decides("failed")
        /\ \E result \in Results : ReadResult(result)
     \/ /\ why = "ask" /\ UNCHANGED asked /\ Decides("failed")
        /\ \E result \in Results : ReadResult(result) /\ ~Prompted(result)
     \/ /\ why = "final" /\ UNCHANGED asked /\ ReadResult("OK") /\ Decides("sent") /\ step' \notin Sending
     \/ /\ why = "final" /\ UNCHANGED asked /\ Decides("failed")
        /\ \E result \in Results \ {"OK"} :
             ReadResult(result) /\ (opts.remote => result \notin {"DATA", "INVALID"})
Repetition ==
  /\ UNCHANGED <<opts, up, deviceVars, airVars, attempts, sends, message, plan, asked, exit,
                 step, cmd, report>>
  /\ exec' = "flush" /\ got' = "none" /\ step \notin {"ask", "final"}
  /\ \/ exec = "ensure" /\ UNCHANGED <<down, late, faults>>
     \/ Unwritten /\ UNCHANGED <<down, late>>
     \/ \E result \in Results : ReadResult(result)
Skipping ==
  /\ why = "recover" /\ Unwritten /\ exec' = "read" /\ got' = "none"
  /\ UNCHANGED <<opts, step, why, cmd, retries, greeted, attempts, sends, message, plan, asked, exit,
                 report, up, down, deviceVars, airVars, late>>
Prompting ==
  /\ \E result \in Results : Prompted(result) /\ ReadResult(result)
  /\ why = "ask" /\ step' = "final" /\ why' = "final" /\ up' = up \o Payload(message)
  /\ UNCHANGED <<opts, attempts, sends, message, plan, asked, exit, exec, deviceVars, airVars, report>>
Waiting ==
  /\ why = "final" /\ opts.remote
  /\ \E result \in {"DATA", "INVALID"} : ReadResult(result)
  /\ UNCHANGED <<opts, up, deviceVars, airVars, callVars, step, attempts, sends, message, plan, asked, exit, report>>

(* The payload is left unfinished: a write failed, or the user had enough. *)
Cutting ==
  /\ PayloadDue /\ late' = TRUE /\ got' = "none"
  /\ \E part \in Parts(message) : up' = up \o part
  /\ UNCHANGED <<opts, asked, deviceVars, airVars>>
  /\ \/ faults < MaxFaults /\ faults' = faults + 1 /\ UNCHANGED down /\ Decides("failed")
     \/ /\ Ends("killed") /\ UNCHANGED <<faults, report>> /\ down' = <<>>
        /\ message' = 0 /\ plan' = <<>>
Stopped == Interrupted /\ UNCHANGED <<up, late>>

(* The steps that wait for no answer of the device: the next line of       *)
(* stdin, and what the user answers the wizard.                            *)
LEMMA ReadStdinKeepsControl ==
  ASSUME Control, ReadStdin
  PROVE  Control' /\ Decision
  <1> USE DEF Control, Call, Pause, Ends
  <1>1. /\ UNCHANGED <<opts, got, greeted, attempts, sends, plan, asked, report>>
        /\ UNCHANGED <<up, down, deviceVars, airVars, late, faults>> /\ exec = "none" /\ step = "line" /\ exit = "running"
        /\ got = "none"
    BY DEF ReadStdin, PlaceInv, ToolOK
  <1>2. (message + 1 \in Messages /\ report[message + 1] = "none") \/ message >= Lines
    BY <1>1, LimitsPositive DEF PlaceInv, ToolOK, Messages
  <1>3. AT \in Units /\ Unit("FREQ", 0) \in Units /\ AT # Unit("FREQ", 0)
    BY CommandNames DEF AT, Others, Unit
  <1>4. \/ /\ step' = "freq" /\ message' = message + 1 /\ message < Lines /\ exit' = "running"
           /\ exec' = "ensure" /\ why' = "ensure" /\ cmd' = Unit("FREQ", 0) /\ retries' = AT_MAX_RETRIES
        \/ /\ step' \in {"line", "end"} /\ exec' = "none" /\ why' = "command" /\ cmd' = AT /\ retries' = 0
           /\ exit' \in {"running", "ok", "failed"} /\ (exit' = "running" <=> step' # "end")
           /\ message' = message \/ (message' = message + 1 /\ message < Lines)
    BY <1>1, <1>3 DEF ReadStdin, SendMessage
  <1>5. CallOK'
    BY <1>1, <1>3, <1>4, LimitsPositive DEF CallOK, Steps
  <1>6. ToolOK'
    BY <1>1, <1>4, LimitsPositive DEF ToolOK
  <1>7. PlaceInv'
    <2>1. step' \in Sending => message' \in Messages /\ report'[message'] = "none"
      BY <1>1, <1>2, <1>4, LimitsPositive DEF Sending, ToolOK
    <2>2. \A m \in Messages : m > message' => report'[m] = "none"
      BY <1>1, <1>4, LimitsPositive DEF PlaceInv, ToolOK, Messages
    <2>3. opts.run = "message"
      BY <1>1 DEF PlaceInv
    <2> QED
      BY <1>1, <1>3, <1>4, <2>1, <2>2, <2>3 DEF PlaceInv, Sending, AT, Unit
  <1>8. PlanInv'
    BY <1>1, <1>4 DEF PlanInv
  <1>9. Decision
    BY <1>1, <1>4 DEF Decision, Silently, Decides, Sending
  <1> QED
    BY <1>5, <1>6, <1>7, <1>8, <1>9

LEMMA UserAnswersKeepControl ==
  ASSUME Control, UserAnswers
  PROVE  Control' /\ Decision
  <1> USE DEF Control, Call, Pause, Ends
  <1>1. /\ UNCHANGED <<opts, got, greeted, attempts, sends, message, report>>
        /\ UNCHANGED <<up, down, deviceVars, airVars, late, faults>> /\ exec = "none" /\ step = "answers" /\ exit = "running"
        /\ got' = "none"
    BY DEF UserAnswers, PlaceInv, ToolOK
  <1>2. CASE Ends("ok") /\ UNCHANGED <<plan, asked>>
    <2>1. AT \in Units
      BY CommandNames DEF AT, Others
    <2>2. CallOK' /\ ToolOK'
      BY <1>1, <1>2, <2>1, LimitsPositive DEF CallOK, ToolOK, Steps
    <2>3. PlaceInv' /\ PlanInv'
      BY <1>1, <1>2 DEF PlaceInv, PlanInv, Sending, AT, Unit
    <2> QED
      BY <1>1, <1>2, <2>2, <2>3 DEF Decision, Silently, Decides, Sending
  <1>3. CASE opts.run = "factory" /\ Follow(<< Unit("FACTORYRESET", 0) >>, TRUE) /\ UNCHANGED asked
    <2>1. << Unit("FACTORYRESET", 0) >> \in Seq([op : Ops, arg : {0}])
      BY CommandNames DEF Others
    <2>2. Follows(<< Unit("FACTORYRESET", 0) >>)
      BY <1>3 DEF Follow, Follows
    <2>3. asked' \subseteq Settings
      BY <1>3 DEF ToolOK
    <2> QED
      BY <1>1, <1>3, <2>1, <2>2, <2>3, FollowKeepsControl DEF Decision, Silently
  <1>4. ASSUME NEW flex \in SUBSET FlexSettings, NEW network \in SUBSET NetworkSettings,
               opts.run = "wizard", asked' = flex \cup network,
               Follow(Sequence(flex) \o Sequence(network) \o << Unit("RESET", 0) >>, TRUE)
        PROVE  Control' /\ Decision
    <2> DEFINE rest == Sequence(flex) \o Sequence(network) \o << Unit("RESET", 0) >>
    <2>1. rest \in Seq([op : Ops, arg : {0}]) /\ \A j \in 1..Len(rest) :
              rest[j].op \in Setups /\ (rest[j].op = "RESET" => j = Len(rest))
      BY WizardPlan
    <2>2. Follows(rest)
      BY <1>4 DEF Follow, Follows
    <2>3. asked' \subseteq Settings
      BY <1>4, CommandNames
    <2> HIDE DEF rest
    <2> QED
      BY <1>1, <1>4, <2>1, <2>2, <2>3, FollowKeepsControl DEF Decision, Silently
  <1> QED
    BY <1>2, <1>3, <1>4 DEF UserAnswers

(* A command repeated, or written once the device is ready.                *)
LEMMA RepetitionKeepsControl ==
  ASSUME Control, Repetition, exec \in {"ensure", "read", "write"}, step \notin {"ask", "final"},
         why' \in {"command", "ensure", "recover"}, greeted' \in BOOLEAN, retries' \in 0..AT_MAX_RETRIES
  PROVE  Control'
  <1> USE DEF Control, Repetition
  <1>1. CallOK' /\ ToolOK' /\ PlanInv'
    BY DEF CallOK, ToolOK, PlanInv
  <1>2. PlaceInv'
    <2>1. Ask(message)' = Ask(message)
      BY DEF Ask
    <2> QED
      BY <2>1 DEF PlaceInv
  <1> QED
    BY <1>1, <1>2

(* The loops of at_ensure_device_ready and at_execute_command repeat, or   *)
(* return to main.                                                         *)
LEMMA EnsureReadyKeepsControl ==
  ASSUME Control, EnsureReady
  PROVE  Control' /\ Repetition
  <1>1. Repetition
    BY DEF EnsureReady, Repetition, Control, PlaceInv
  <1> QED
    BY <1>1, RepetitionKeepsControl DEF EnsureReady, Control, CallOK, PlaceInv

LEMMA ReadAsideKeepsControl ==
  ASSUME Control, NEW result \in Results, ReadAside(result)
  PROVE  Control' /\ Repetition
  <1>1. Repetition /\ exec = "read"
    BY DEF ReadAside, ReadEnds, ReadResult, Repetition, Control, PlaceInv
  <1> QED
    BY <1>1, RepetitionKeepsControl DEF ReadAside, ReadEnds, Control, CallOK, PlaceInv

LEMMA ReadAnswerKeepsControl ==
  ASSUME Control, NEW result \in Results, ReadAnswer(result)
  PROVE  Control' /\ (Decision \/ Repetition)
  <1>1. exec = "read" /\ got' = "none" /\ why = "command" /\ UNCHANGED <<greeted, up, deviceVars, airVars>> /\ ReadResult(result)
    BY DEF ReadAnswer, ReadEnds, ReadResult
  <1>2. CASE result \in {"ERROR", "TIMEOUT", "INVALID"} /\ retries > 1
    <2>1. Repetition
      BY <1>1, <1>2 DEF ReadAnswer, Repetition, Control, PlaceInv
    <2>2. why' \in {"command", "ensure", "recover"} /\ retries' \in 0..AT_MAX_RETRIES
      BY <1>2, LimitsPositive DEF ReadAnswer, Control, CallOK
    <2> QED
      BY <1>1, <2>1, <2>2, RepetitionKeepsControl DEF Control, CallOK, PlaceInv
  <1>3. CASE ~(result \in {"ERROR", "TIMEOUT", "INVALID"} /\ retries > 1)
    <2> DEFINE ok == result = "OK"
    <2>1. Returns(ok) /\ ok \in BOOLEAN
      BY <1>3 DEF ReadAnswer
    <2>2. UNCHANGED <<opts, asked>>
      BY <2>1 DEF Returns
    <2> HIDE DEF ok
    <2>3. Control' /\ Decides("failed")
      BY <1>1, <2>1, ReturnsKeepControl
    <2> QED
      BY <1>1, <2>2, <2>3 DEF Decision
  <1> QED
    BY <1>2, <1>3

(* A command that could not be written.                                    *)
LEMMA WriteFailsKeepControl ==
  ASSUME Control, WriteFails
  PROVE  Control' /\ (Decision \/ Repetition \/ Skipping)
  <1>1. Unwritten /\ UNCHANGED <<greeted, up, down, deviceVars, airVars, late>> /\ got = "none"
    BY DEF WriteFails, Unwritten, Control, PlaceInv
  <1>2. CASE why = "command" /\ got' = "none" /\ Returns(FALSE)
    <2>1. Control' /\ Decides("failed")
      BY <1>1, <1>2, ReturnsKeepControl DEF Unwritten
    <2>2. UNCHANGED <<opts, asked>>
      BY <1>2 DEF Returns
    <2> QED
      BY <1>1, <1>2, <2>1, <2>2 DEF Decision
  <1>3. CASE /\ why = "ensure" /\ exec' = "flush" /\ why' = "command"
             /\ UNCHANGED <<Free, step, cmd, retries, got, report>>
    <2>1. Repetition /\ step \notin {"ask", "final"}
      BY <1>1, <1>3 DEF Repetition, Control, PlaceInv
    <2> QED
      BY <1>1, <1>3, <2>1, RepetitionKeepsControl DEF Unwritten, Control, CallOK
  <1>4. CASE /\ why = "recover" /\ exec' = "read" /\ got' = "none"
             /\ UNCHANGED <<Free, step, why, cmd, retries, report>>
    <2>1. Skipping
      BY <1>1, <1>4 DEF Skipping
    <2>2. CallOK' /\ ToolOK' /\ PlanInv'
      BY <1>1, <1>4 DEF Control, CallOK, ToolOK, PlanInv
    <2>3. PlaceInv'
      BY <1>1, <1>4 DEF Control, PlaceInv, Unwritten, Ask
    <2> QED
      BY <2>1, <2>2, <2>3 DEF Control
  <1>5. CASE /\ why = "ask" /\ got' = "none" /\ Attempt(Left(sends))
             /\ UNCHANGED <<opts, attempts, plan, asked>>
    <2>1. step = "ask" /\ Left(sends) \in 0..SEND_RETRIES
      BY <1>5, LimitsPositive DEF Left, Control, ToolOK, PlaceInv
    <2>2. Control' /\ Decides("failed")
      BY <1>1, <1>5, <2>1, AttemptKeepsControl DEF Sending
    <2> QED
      BY <1>1, <1>5, <2>2 DEF Decision
  <1> QED
    BY <1>2, <1>3, <1>4, <1>5 DEF WriteFails

(* The payload is given up half-way.                                       *)
LEMMA PayloadFailsKeepControl ==
  ASSUME Control, PayloadFails
  PROVE  Control' /\ Cutting
  <1>1. step = "ask" /\ Left(sends) \in 0..SEND_RETRIES
    BY LimitsPositive DEF PayloadFails, PayloadDue, Left, Control, ToolOK, PlaceInv
  <1>2. Control' /\ Decides("failed")
    BY <1>1, AttemptKeepsControl DEF PayloadFails, Sending
  <1> QED
    BY <1>2 DEF PayloadFails, Cutting

(* at_send_flex_message: the wait for READY and the wait for the last OK.  *)
LEMMA ReadPromptKeepsControl ==
  ASSUME Control, NEW result \in Results, ReadPrompt(result)
  PROVE  Control' /\ (Decision \/ Prompting)
  <1>1. exec = "read" /\ got' = "none" /\ why = "ask" /\ step = "ask" /\ UNCHANGED greeted
    BY DEF ReadPrompt, ReadEnds, ReadResult, Control, PlaceInv
  <1>2. CASE Prompted(result)
    <2>1. Prompting
      BY <1>1, <1>2 DEF ReadPrompt, Prompting
    <2>2. CallOK' /\ ToolOK' /\ PlanInv'
      BY <1>1, <1>2, <2>1 DEF ReadPrompt, Prompting, Control, CallOK, ToolOK, PlanInv, Steps
    <2>3. PlaceInv'
      BY <1>1, <1>2, <2>1 DEF ReadPrompt, Prompting, Control, PlaceInv, Sending
    <2> QED
      BY <2>1, <2>2, <2>3 DEF Control
  <1>3. CASE ~Prompted(result)
    <2>1. Attempt(Left(sends)) /\ UNCHANGED <<opts, attempts, plan, asked, up, deviceVars, airVars>> /\ ReadResult(result)
      BY <1>3 DEF ReadPrompt, ReadEnds
    <2>2. Left(sends) \in 0..SEND_RETRIES
      BY <1>1, LimitsPositive DEF Left, Control, ToolOK, PlaceInv
    <2> QED
      BY <1>1, <1>3, <2>1, <2>2, AttemptKeepsControl DEF Decision, Sending
  <1> QED
    BY <1>2, <1>3

LEMMA ReadFinalKeepsControl ==
  ASSUME Control, NEW result \in Results, ReadFinal(result)
  PROVE  Control' /\ (Decision \/ Waiting)
  <1>1. /\ exec = "read" /\ got' = "none" /\ why = "final" /\ step = "final"
        /\ UNCHANGED <<opts, greeted, attempts, plan, asked, up, deviceVars, airVars>> /\ ReadResult(result)
    BY DEF ReadFinal, ReadEnds, ReadResult, Control, PlaceInv
  <1>2. CASE result = "OK"
    <2>1. Reported("sent") /\ UNCHANGED sends
      BY <1>2 DEF ReadFinal
    <2>2. sends' \in 0..SEND_RETRIES
      BY <2>1 DEF Control, ToolOK
    <2>3. Control' /\ Decides("sent") /\ step' \notin Sending
      BY <1>1, <2>1, <2>2, ReportKeepsControl DEF Sending
    <2> QED
      BY <1>1, <1>2, <2>3 DEF Decision
  <1>3. CASE opts.remote /\ result \in {"DATA", "INVALID"}
    <2>1. UNCHANGED <<callVars, step, sends, message, exit, report>>
      BY <1>3 DEF ReadFinal
    <2>2. Waiting
      BY <1>1, <1>3, <2>1 DEF Waiting
    <2>3. CallOK' /\ ToolOK' /\ PlanInv'
      BY <1>1, <2>1 DEF Control, CallOK, ToolOK, PlanInv
    <2>4. PlaceInv'
      BY <1>1, <2>1 DEF Control, PlaceInv
    <2> QED
      BY <2>2, <2>3, <2>4 DEF Control
  <1>4. CASE result # "OK" /\ ~(opts.remote /\ result \in {"DATA", "INVALID"})
    <2>1. Attempt(Left(sends))
      BY <1>4 DEF ReadFinal
    <2>2. Left(sends) \in 0..SEND_RETRIES
      BY <1>1, LimitsPositive DEF Left, Control, ToolOK, PlaceInv
    <2>3. Control' /\ Decides("failed")
      BY <1>1, <2>1, <2>2, AttemptKeepsControl DEF Sending
    <2> QED
      BY <1>1, <1>4, <2>3 DEF Decision
  <1> QED
    BY <1>2, <1>3, <1>4

(* The device's steps, and the tool's that only read and write.            *)
LEMMA OthersKeepControl ==
  ASSUME Control, UNCHANGED <<opts, step, exec, why, cmd, retries, greeted, attempts, sends, message, plan, asked, exit, report>>,
         got' \in {"none", "data", "ready"}, got' # "none" => exec = "read"
  PROVE  Control'
  <1>1. CallOK' /\ ToolOK' /\ PlanInv'
    BY DEF Control, CallOK, ToolOK, PlanInv
  <1>2. PlaceInv'
    <2>1. Ask(message)' = Ask(message)
      BY DEF Ask
    <2> QED
      BY <2>1 DEF Control, PlaceInv
  <1> QED
    BY <1>1, <1>2 DEF Control

(* Ctrl-C ends the tool at any place.                                      *)
LEMMA InterruptedKeepsControl ==
  ASSUME Control, Interrupted
  PROVE  Control' /\ (Stopped \/ Cutting)
  <1> USE DEF Control, Pause, Ends
  <1>1. /\ UNCHANGED <<opts, greeted, attempts, sends, asked, report>> /\ got' = "none" /\ message' = 0 /\ plan' = <<>>
        /\ step' = "end" /\ exec' = "none" /\ why' = "command" /\ cmd' = AT /\ retries' = 0 /\ exit' = "killed"
    BY DEF Interrupted
  <1>2. AT \in Units /\ <<>> \in Seq([op : Ops, arg : {0}]) /\ Len(<<>>) = 0
    BY CommandNames, EmptySeq DEF AT, Others
  <1>3. CallOK' /\ ToolOK'
    BY <1>1, <1>2, LimitsPositive DEF CallOK, ToolOK, Steps
  <1>4. PlaceInv' /\ PlanInv'
    BY <1>1, <1>2 DEF PlaceInv, PlanInv, Sending, AT, Unit
  <1>5. Stopped \/ Cutting
    BY DEF Interrupted, Stopped, Cutting
  <1> QED
    BY <1>3, <1>4, <1>5

Serves == ServeJunk \/ ServeRefused \/ ServeCommand \/ ServeAsk \/ ServeRestart
          \/ ServePiece \/ ServeText \/ ServeData
Moves == StagingExpires \/ ServiceBlocks \/ ServiceEnds \/ TxStarts \/ TxEnds

(* Every step keeps Control, and is one of the kinds the other parts are   *)
(* proved for.                                                             *)
LEMMA StepKinds ==
  ASSUME Control, [Next]_vars
  PROVE  /\ Control'
         /\ \/ UNCHANGED vars
            \/ Decision \/ Repetition \/ Skipping \/ Prompting \/ Cutting \/ Waiting
            \/ FlushBuffers \/ SendCommand \/ ReadData \/ Stopped
            \/ Serves /\ KeepHost
            \/ Moves /\ UNCHANGED <<opts, hostVars, report, late>>
  <1>1. CASE UNCHANGED vars
    BY <1>1, OthersKeepControl DEF vars, Control, CallOK, PlaceInv
  <1>2. CASE FlushBuffers
    <2>1. CallOK' /\ ToolOK' /\ PlanInv'
      BY <1>2 DEF FlushBuffers, Control, CallOK, ToolOK, PlanInv
    <2>2. PlaceInv'
      BY <1>2 DEF FlushBuffers, Control, PlaceInv, Ask
    <2> QED
      BY <1>2, <2>1, <2>2 DEF Control
  <1>3. CASE SendCommand
    <2>1. CallOK' /\ ToolOK' /\ PlanInv'
      BY <1>3 DEF SendCommand, Control, CallOK, ToolOK, PlanInv
    <2>2. PlaceInv'
      BY <1>3 DEF SendCommand, Control, PlaceInv, Ask
    <2> QED
      BY <1>3, <2>1, <2>2 DEF Control
  <1>4. CASE ReadData
    BY <1>4, OthersKeepControl DEF ReadData, Control, CallOK, PlaceInv
  <1>5. CASE Serves
    <2>1. KeepHost
      BY <1>5 DEF Serves, ServeJunk, ServeRefused, ServeCommand, ServeAsk, ServeRestart, ServePiece, ServeText, ServeData
    <2> QED
      BY <1>5, <2>1, OthersKeepControl DEF Control, CallOK, PlaceInv
  <1>6. CASE Moves
    <2>1. UNCHANGED <<opts, hostVars, report, late>>
      BY <1>6 DEF Moves, StagingExpires, ServiceBlocks, ServiceEnds, TxStarts, TxEnds
    <2> QED
      BY <1>6, <2>1, OthersKeepControl DEF Control, CallOK, PlaceInv
  <1>7. CASE ReadStdin \/ UserAnswers \/ EnsureReady
    BY <1>7, ReadStdinKeepsControl, UserAnswersKeepControl, EnsureReadyKeepsControl
  <1>8. ASSUME NEW result \in Results,
               ReadAside(result) \/ ReadAnswer(result) \/ ReadPrompt(result) \/ ReadFinal(result)
        PROVE  Control' /\ (Decision \/ Repetition \/ Prompting \/ Waiting)
    BY <1>8, ReadAsideKeepsControl, ReadAnswerKeepsControl, ReadPromptKeepsControl, ReadFinalKeepsControl
  <1>9. CASE Interrupted
    BY <1>9, InterruptedKeepsControl
  <1>10. CASE WriteFails \/ PayloadFails
    BY <1>10, WriteFailsKeepControl, PayloadFailsKeepControl
  <1> QED
    BY <1>1, <1>2, <1>3, <1>4, <1>5, <1>6, <1>7, <1>8, <1>9, <1>10 DEF Next, Host, Serve, Serves, Moves

LEMMA InitControl == Init => Control
  <1> SUFFICES ASSUME Init PROVE Control
    OBVIOUS
  <1>1. AT \in Units /\ <<>> \in Seq([op : Ops, arg : {0}]) /\ Len(<<>>) = 0
    BY CommandNames, EmptySeq DEF AT, Others
  <1>2. CallOK /\ ToolOK
    <2>1. CallOK
      <3>1. opts \in Opts
        BY HostAssumption DEF Init
      <3>2. retries \in 0..AT_MAX_RETRIES
        BY LimitsPositive DEF Init
      <3> QED
        BY <1>1, <3>1, <3>2 DEF Init, CallOK, Steps
    <2>2. report \in [Messages -> {"none", "sent", "failed"}]
      BY DEF Init
    <2>3. attempts \in 0..INIT_ATTEMPTS /\ sends \in 0..SEND_RETRIES /\ message \in 0..Lines
      BY LimitsPositive DEF Init
    <2> QED
      BY <1>1, <2>1, <2>2, <2>3 DEF Init, ToolOK
  <1>3. PlaceInv /\ PlanInv
    BY <1>1, LimitsPositive DEF Init, PlaceInv, PlanInv, Sending, AT, Unit, Messages
  <1> QED
    BY <1>2, <1>3 DEF Control

-----------------------------------------------------------------------------
(* The line and the device.                                                *)
Replies == {"OK", "ERROR", "DATA", "READY"}
Device == LineOK /\ ConsoleOK /\ AirOK /\ LateOK /\ LineInv /\ DeviceInv

(* The commands and payloads of a tool with these options.                 *)
LEMMA SentUnits ==
  /\ \A u \in Sent : u \in Units
  /\ AT \in Sent
  /\ Control /\ step # "final" => cmd \in Sent
  /\ ~opts.remote /\ opts.run = "message" => \A m \in Messages : Unit("HEAD", m) \in Sent /\ Unit("TAIL", m) \in Sent
  /\ opts.remote /\ opts.run = "message" => \A m \in Messages : Unit("TEXT", m) \in Sent /\ Unit("PIECE", m) \in Sent
  <1>1. /\ \A u \in Sent : u \in Units
        /\ AT \in Sent
    BY CommandNames DEF Sent, AT, Others, Unit
  <1>2. ASSUME Control, step # "final"
        PROVE  cmd \in Sent
    <2>1. cmd \in Units /\ step \in Steps
      BY <1>2 DEF Control, CallOK
    <2>2. CASE step \notin {"plan", "ask", "final"}
      BY <1>2, <2>1, <2>2 DEF Control, PlaceInv, Sent
    <2>3. CASE step = "ask"
      <3>1. opts.run = "message" /\ cmd = Ask(message)
        BY <1>2, <2>3 DEF Control, PlaceInv, Sending
      <3> QED
        BY <2>1, <3>1 DEF Sent, Ask, Unit
    <2>4. CASE step = "plan"
      <3>1. /\ plan # <<>> /\ cmd = Head(plan) /\ opts.run \in {"wizard", "factory"}
            /\ plan \in Seq([op : Ops, arg : {0}])
        BY <1>2, <2>4 DEF Control, PlaceInv, ToolOK
      <3>2. cmd = plan[1] /\ 1 \in 1..Len(plan)
        BY <3>1, Firsts
      <3>3. \/ opts.run = "wizard" /\ cmd.op \in Setups
            \/ opts.run = "factory" /\ cmd.op = "FACTORYRESET"
        BY <1>2, <2>4, <3>1, <3>2 DEF Control, PlanInv, Unit
      <3> QED
        BY <2>1, <3>3, CommandNames DEF Sent, Setups, Others
    <2> QED
      BY <1>2, <2>1, <2>2, <2>3, <2>4
  <1>3. \A op \in Others, m \in Messages : Unit(op, m) \in Units
    BY CommandNames
  <1>4. /\ ~opts.remote /\ opts.run = "message" => \A m \in Messages : Unit("HEAD", m) \in Sent /\ Unit("TAIL", m) \in Sent
        /\ opts.remote /\ opts.run = "message" => \A m \in Messages : Unit("TEXT", m) \in Sent /\ Unit("PIECE", m) \in Sent
    BY <1>3 DEF Sent, Others, Unit
  <1> QED
    BY <1>1, <1>2, <1>4

(* The ends of the line.                                                   *)
LEMMA LineEnds ==
  ASSUME NEW S, NEW s \in Seq(S)
  PROVE  /\ <<>> \in Seq(S) /\ (s = <<>> <=> Len(s) = 0)
         /\ s # <<>> => /\ Tail(s) \in Seq(S) /\ Head(s) \in S /\ Head(s) = s[1]
                        /\ Len(s) \in Nat \ {0} /\ Len(Tail(s)) = Len(s) - 1
                        /\ \A j \in 1..Len(Tail(s)) : Tail(s)[j] = s[j + 1]
         /\ \A j \in 1..Len(s) : s[j] \in S
  BY EmptySeq, HeadTailProperties, Firsts, LenProperties, ElementOfSeq

LEMMA Queued ==
  ASSUME NEW S, NEW s \in Seq(S), NEW t \in Seq(S)
  PROVE  /\ s \o t \in Seq(S) /\ Len(s) \in Nat /\ Len(t) \in Nat /\ Len(s \o t) = Len(s) + Len(t)
         /\ \A j \in 1..Len(s) : (s \o t)[j] = s[j]
         /\ \A j \in 1..Len(t) : (s \o t)[Len(s) + j] = t[j]
         /\ \A j \in 1..Len(s \o t) : j \in 1..Len(s) \/ j - Len(s) \in 1..Len(t)
  <1>1. /\ s \o t \in Seq(S) /\ Len(s \o t) = Len(s) + Len(t)
        /\ \A i \in 1..Len(s) + Len(t) : (s \o t)[i] = IF i <= Len(s) THEN s[i] ELSE t[i - Len(s)]
    BY ConcatProperties
  <1>2. Len(s) \in Nat /\ Len(t) \in Nat
    BY LenProperties
  <1> QED
    BY <1>1, <1>2

(* What is answered reaches the tool while there is one.                   *)
LEMMA AnswerArrives ==
  ASSUME down \in Seq(Replies), NEW lines \in Seq(Replies), Answers(lines)
  PROVE  down' \in Seq(Replies)
  BY Queued, EmptySeq DEF Answers

LEMMA InitDevice == Init => Device
  <1> SUFFICES ASSUME Init PROVE Device
    OBVIOUS
  <1>1. LineOK /\ LineInv
    BY EmptySeq DEF Init, LineOK, LineInv
  <1>0. 0 \in 0..Lines /\ 0 \in 0..MAX_QUEUE_SIZE /\ 0 \in 0..MaxFaults /\ 0 \in Nat
    BY LimitsPositive
  <1>2. ConsoleOK
    <2>1. taken \in Seq(Units) /\ Len(taken) <= 1
      BY EmptySeq DEF Init
    <2>2. /\ console \in {"IDLE", "WAITING_FOR_MSG", "WAITING_FOR_DATA"} /\ junk \in BOOLEAN
          /\ confirmed \subseteq Settings
      BY DEF Init
    <2>3. flex_capcode \in 0..Lines /\ restarts \in Nat
      BY <1>0 DEF Init
    <2> QED
      BY <2>1, <2>2, <2>3 DEF ConsoleOK
  <1>3. AirOK
    BY <1>0 DEF Init, AirOK
  <1>4. LateOK
    BY <1>0 DEF Init, LateOK
  <1>5. DeviceInv
    BY DEF Init, DeviceInv
  <1> QED
    BY <1>1, <1>2, <1>3, <1>4, <1>5 DEF Device

(* A result is read from the answers in their order.                       *)
LEMMA ReadTypes ==
  ASSUME LineOK, LateOK, NEW result, ReadResult(result)
  PROVE  /\ down' \in Seq(Replies) /\ late' \in BOOLEAN /\ faults' \in 0..MaxFaults
         /\ exec = "read" /\ got' = "none" /\ faults <= faults'
         /\ (late' <=> late \/ up # <<>> \/ result = "INVALID")
  <1>1. down' \in Seq(Replies)
    BY LineEnds DEF LineOK, ReadResult, Replies
  <1>2. late' \in BOOLEAN /\ faults' \in 0..MaxFaults /\ faults <= faults'
    BY LimitsPositive DEF LateOK, ReadResult
  <1> QED
    BY <1>1, <1>2 DEF ReadResult

(* A payload or a part of it, as the tool writes it.                       *)
Written == Parts(message) \cup { Payload(message) }
LEMMA PayloadSent ==
  ASSUME Control, Device, step = "ask"
  PROVE  Written \subseteq Seq(Sent) /\ Payload(message) \in Seq(Sent)
  <1>1. message \in Messages /\ opts.run = "message"
    BY DEF Control, PlaceInv, Sending
  <1>2. CASE opts.remote
    <2>1. Unit("TEXT", message) \in Sent /\ Unit("PIECE", message) \in Sent
      BY <1>1, <1>2, SentUnits
    <2>2. Written = { <<>>, << Unit("PIECE", message) >>, << Unit("TEXT", message) >> }
      BY <1>2 DEF Written, Parts, Payload
    <2>3. Payload(message) \in Written
      BY DEF Written
    <2>4. /\ <<>> \in Seq(Sent) /\ << Unit("PIECE", message) >> \in Seq(Sent)
          /\ << Unit("TEXT", message) >> \in Seq(Sent)
      BY <2>1, EmptySeq
    <2>5. Written \subseteq Seq(Sent)
      BY <2>2, <2>4
    <2> QED
      BY <2>3, <2>5
  <1>3. CASE ~opts.remote
    <2>1. Unit("HEAD", message) \in Sent /\ Unit("TAIL", message) \in Sent
      BY <1>1, <1>3, SentUnits
    <2>2. Written = { <<>>, << Unit("HEAD", message) >>, << Unit("HEAD", message), Unit("TAIL", message) >> }
      BY <1>3 DEF Written, Parts, Payload
    <2>3. Payload(message) \in Written
      BY DEF Written
    <2>4. /\ <<>> \in Seq(Sent) /\ << Unit("HEAD", message) >> \in Seq(Sent)
          /\ << Unit("HEAD", message), Unit("TAIL", message) >> \in Seq(Sent)
      BY <2>1, EmptySeq
    <2>5. Written \subseteq Seq(Sent)
      BY <2>2, <2>4
    <2> QED
      BY <2>3, <2>5
  <1> QED
    BY <1>2, <1>3

LEMMA ToolKeepsDevice ==
  ASSUME Control, Device, UNCHANGED <<opts, deviceVars, airVars>>,
         up' \in Seq(Sent), down' \in Seq(Replies), LateOK'
  PROVE  Device'
  <1>1. Sent' = Sent
    BY DEF Sent
  <1>2. LineOK' /\ LineInv'
    <2>1. Sent \subseteq Units
      BY SentUnits
    <2>2. up' \in Seq(Units)
      BY <2>1, SeqMonotonic
    <2> QED
      BY <1>1, <2>2 DEF LineOK, LineInv, Replies
  <1>3. ConsoleOK' /\ AirOK' /\ DeviceInv'
    BY DEF Device, ConsoleOK, AirOK, DeviceInv
  <1> QED
    BY <1>2, <1>3 DEF Device

(* The tool's steps only write to the line and read from it.               *)
LEMMA DeviceOnTool ==
  ASSUME Control, Device,
         \/ Decision \/ Repetition \/ Skipping \/ Prompting \/ Cutting \/ Waiting
         \/ FlushBuffers \/ SendCommand \/ ReadData \/ Stopped
  PROVE  Device'
  <1>1. up \in Seq(Sent) /\ down \in Seq(Replies) /\ LateOK
    BY DEF Device, LineInv, LineOK, Replies
  <1>2. CASE Decision \/ Repetition \/ Skipping \/ Waiting
    <2>1. UNCHANGED <<opts, up, deviceVars, airVars>>
      BY <1>2 DEF Decision, Repetition, Skipping, Waiting
    <2>2. \/ UNCHANGED <<down, late, faults>>
          \/ Unwritten /\ UNCHANGED <<down, late>>
          \/ \E result : ReadResult(result)
      BY <1>2 DEF Decision, Repetition, Skipping, Waiting, Silently
    <2>3. down' \in Seq(Replies) /\ LateOK'
      BY <1>1, <2>2, ReadTypes, LimitsPositive DEF Device, LateOK, Unwritten
    <2> QED
      BY <1>1, <2>1, <2>3, ToolKeepsDevice
  <1>3. CASE Prompting
    <2>1. down' \in Seq(Replies) /\ LateOK'
      BY <1>3, ReadTypes DEF Device, LateOK, Prompting
    <2>2. step = "ask" /\ up' = up \o Payload(message) /\ UNCHANGED <<opts, deviceVars, airVars>>
      BY <1>3 DEF Prompting, Control, PlaceInv
    <2> QED
      BY <1>1, <2>1, <2>2, PayloadSent, Queued, ToolKeepsDevice
  <1>4. CASE FlushBuffers \/ ReadData \/ Stopped
    <2>1. UNCHANGED <<opts, up, deviceVars, airVars, late, faults>> /\ down' \in Seq(Replies)
      BY <1>1, <1>4, LineEnds DEF FlushBuffers, ReadData, Stopped, Interrupted
    <2>2. LateOK'
      BY <1>1, <2>1 DEF LateOK
    <2> QED
      BY <1>1, <2>1, <2>2, ToolKeepsDevice
  <1>6. CASE Cutting
    <2>1. /\ step = "ask" /\ UNCHANGED <<opts, deviceVars, airVars>>
          /\ \E part \in Written : up' = up \o part
      BY <1>6 DEF Cutting, PayloadDue, Control, PlaceInv, Written
    <2>2. up' \in Seq(Sent)
      BY <1>1, <2>1, PayloadSent, Queued
    <2>3. down' \in Seq(Replies)
      BY <1>1, <1>6, EmptySeq DEF Cutting
    <2>4. LateOK'
      <3>1. late' = TRUE /\ (faults' = faults \/ (faults < MaxFaults /\ faults' = faults + 1))
        BY <1>6 DEF Cutting
      <3> QED
        BY <1>1, <3>1, LimitsPositive DEF LateOK
    <2> QED
      BY <1>1, <2>1, <2>2, <2>3, <2>4, ToolKeepsDevice
  <1>5. CASE SendCommand
    <2>1. step # "final"
      BY <1>5 DEF SendCommand, Control, PlaceInv
    <2>2. up' \in Seq(Sent)
      BY <1>1, <1>5, <2>1, SentUnits, AppendProperties DEF SendCommand
    <2>3. Sent' = Sent
      BY <1>5 DEF SendCommand, Sent
    <2>4. LineOK' /\ LineInv'
      <3>1. Sent \subseteq Units
        BY SentUnits
      <3>2. up' \in Seq(Units)
        BY <2>2, <3>1, SeqMonotonic
      <3> QED
        BY <1>1, <1>5, <2>2, <2>3, <3>2 DEF LineOK, LineInv, Replies, SendCommand
    <2>5. ConsoleOK' /\ AirOK' /\ DeviceInv' /\ LateOK'
      BY <1>5 DEF Device, ConsoleOK, AirOK, DeviceInv, LateOK, SendCommand
    <2> QED
      BY <2>4, <2>5 DEF Device
  <1> QED
    BY <1>2, <1>3, <1>4, <1>5, <1>6

(* What the device accepts is counted.                                     *)
LEMMA AcceptTypes ==
  ASSUME copies \in [Messages -> Nat], strange \in BOOLEAN,
         NEW genuine \in BOOLEAN, NEW m, Accept(genuine, m)
  PROVE  copies' \in [Messages -> Nat] /\ strange' \in BOOLEAN /\ accepted' \in BOOLEAN
  <1>1. strange' \in BOOLEAN /\ accepted' \in BOOLEAN
    BY Zenon DEF Accept
  <1>2. copies' \in [Messages -> Nat]
    <2>1. CASE genuine
      <3>1. copies' = [copies EXCEPT ![m] = @ + 1]
        BY <2>1 DEF Accept
      <3>2. CASE m \in Messages
        BY <3>1, <3>2
      <3>3. CASE m \notin Messages
        BY <3>1, <3>3
      <3> QED
        BY <3>2, <3>3
    <2>2. CASE ~genuine
      BY <2>2 DEF Accept
    <2> QED
      BY <2>1, <2>2
  <1> QED
    BY <1>1, <1>2

(* Bytes of a frame: the first half of it, what is not yet enough of it,   *)
(* or its end, with an ERROR behind the OK for what was more than enough.  *)
Swallows(unit) ==
  /\ taken' = << unit >>
  /\ UNCHANGED <<console, flex_capcode, down, raw_tx_pending, airVars>>
Oks == { <<"OK">>, <<"OK">> \o <<"ERROR">> }
Completes ==
  /\ taken # <<>> /\ ResetState /\ raw_tx_pending' = TRUE
  /\ Accept(Genuine, Head(up).arg)
  /\ \E lines \in Oks : Answers(lines)
LEMMA DataServed ==
  ASSUME Device, ServeData
  PROVE  /\ console = "WAITING_FOR_DATA" /\ up # <<>> /\ blocked = "no" /\ up' = Tail(up)
         /\ UNCHANGED <<junk, blocked, backlog, confirmed, restarts>>
         /\ \/ taken = <<>> /\ Swallows(Head(up))
            \/ taken # <<>> /\ Head(up).op # "TAIL" /\ Swallows(Unit(Head(up).op, 0))
            \/ Completes
  <1>1. /\ console = "WAITING_FOR_DATA" /\ up # <<>> /\ blocked = "no" /\ up' = Tail(up)
        /\ UNCHANGED <<junk, blocked, backlog, confirmed, restarts>> /\ ~raw_tx_pending
    BY DEF ServeData, Serving, Device, DeviceInv
  <1>2. CASE /\ taken = <<>> \/ Next1.op # "TAIL"
             /\ taken' = << IF taken = <<>> THEN Next1 ELSE Unit(Next1.op, 0) >>
             /\ UNCHANGED <<console, flex_capcode, down, raw_tx_pending, airVars>>
    BY <1>1, <1>2 DEF Swallows, Next1
  <1>3. CASE /\ taken # <<>> /\ ResetState
             /\ \E rest \in {<<>>, <<"ERROR">>} :
                  /\ raw_tx_pending' = TRUE /\ Answers(<<"OK">> \o rest)
                  /\ Accept(Genuine, Next1.arg)
    <2>1. PICK rest \in {<<>>, <<"ERROR">>} : Answers(<<"OK">> \o rest)
      BY <1>3
    <2>2. <<"OK">> \o rest \in Oks
      <3>1. CASE rest = <<>>
        BY <3>1 DEF Oks
      <3>2. CASE rest = <<"ERROR">>
        BY <3>2 DEF Oks
      <3> QED
        BY <3>1, <3>2
    <2> QED
      BY <1>1, <1>3, <2>1, <2>2 DEF Completes, Next1
  <1>4. \/ /\ taken = <<>> \/ Next1.op # "TAIL"
           /\ taken' = << IF taken = <<>> THEN Next1 ELSE Unit(Next1.op, 0) >>
           /\ UNCHANGED <<console, flex_capcode, down, raw_tx_pending, airVars>>
        \/ /\ taken # <<>> /\ ResetState
           /\ \E rest \in {<<>>, <<"ERROR">>} :
                /\ raw_tx_pending' = TRUE /\ Answers(<<"OK">> \o rest)
                /\ Accept(Genuine, Next1.arg)
    BY <1>1 DEF ServeData
  <1> QED
    BY <1>2, <1>3, <1>4

(* A line served or thrown away, a page taken, a transmission.             *)
LEMMA ServedKeepsDevice ==
  ASSUME Control, Device, Serves, KeepHost
  PROVE  Device'
  <1>1. /\ up # <<>> /\ Head(up) \in Sent /\ Tail(up) \in Seq(Sent) /\ <<>> \in Seq(Sent)
        /\ blocked = "no"
    BY LineEnds DEF Device, LineInv, Serves, Serving, ServeJunk, ServeRefused, ServeCommand, ServeAsk,
                    ServeRestart, ServePiece, ServeText, ServeData
  <1>2. up' \in Seq(Sent)
    BY <1>1, DataServed DEF Serves, ServeJunk, ServeRefused, ServeCommand, ServeAsk, ServeRestart, ServePiece, ServeText, ServeData
  <1>3. down' \in Seq(Replies)
    <2>0. /\ <<"OK">> \in Seq(Replies) /\ <<"ERROR">> \in Seq(Replies) /\ <<"READY">> \in Seq(Replies)
          /\ <<"DATA", "OK">> \in Seq(Replies) /\ <<"OK">> \o <<"ERROR">> \in Seq(Replies)
          /\ down \in Seq(Replies)
      BY DEF Replies, Device, LineOK
    <2>1. down' = down \/ \E lines \in Seq(Replies) : Answers(lines)
      <3>1. CASE ServeData
        BY <2>0, <3>1, DataServed DEF Swallows, Completes, Oks
      <3> QED
        BY <2>0, <3>1 DEF Serves, ServeJunk, ServeRefused, ServeCommand, ServeAsk, ServeRestart, ServePiece, ServeText
    <2> QED
      BY <2>0, <2>1, AnswerArrives
  <1>4. Sent' = Sent /\ LateOK'
    BY DEF KeepHost, Sent, Device, LateOK
  <1>5. LineOK' /\ LineInv'
    <2>1. Sent \subseteq Units
      BY SentUnits
    <2>2. up' \in Seq(Units)
      BY <1>2, <2>1, SeqMonotonic
    <2> QED
      BY <1>2, <1>3, <1>4, <2>2 DEF LineOK, LineInv, Replies
  <1>6. Head(up) \in Units /\ Head(up).arg \in 0..Lines /\ Head(up).op \in Ops /\ << Head(up) >> \in Seq(Units)
        /\ Len(<< Head(up) >>) = 1 /\ Len(<<>>) = 0 /\ <<>> \in Seq(Units)
        /\ << Unit(Head(up).op, 0) >> \in Seq(Units) /\ Len(<< Unit(Head(up).op, 0) >>) = 1
    <2>1. Head(up) \in Units
      BY <1>1, SentUnits
    <2>2. Unit(Head(up).op, 0) \in Units
      BY <2>1, LimitsPositive DEF Units, Unit
    <2> QED
      BY <2>1, <2>2, EmptySeq DEF Units
  <1>7. ConsoleOK'
    <2> USE DEF Device, ConsoleOK, Next1
    <2>1. CASE ServeJunk \/ ServeRefused \/ ServeCommand
      BY <2>1 DEF ServeJunk, ServeRefused, ServeCommand
    <2>2. CASE ServeAsk
      BY <1>6, <2>2 DEF ServeAsk
    <2>3. CASE ServeRestart
      BY <2>3 DEF ServeRestart
    <2>4. CASE ServeText
      BY <1>6, <2>4, LimitsPositive DEF ServeText, ResetState
    <2>5. CASE ServeData
      <3>1. taken' \in Seq(Units) /\ Len(taken') <= 1
        <4>1. taken' \in { << Head(up) >>, << Unit(Head(up).op, 0) >>, <<>> }
          BY <2>5, DataServed DEF Swallows, Completes, ResetState
        <4>2. CASE taken' = << Head(up) >>
          BY <1>6, <4>2
        <4>3. CASE taken' = << Unit(Head(up).op, 0) >>
          BY <1>6, <4>3
        <4>4. CASE taken' = <<>>
          BY <1>6, <4>4
        <4> QED
          BY <4>1, <4>2, <4>3, <4>4
      <3>2. console' \in {"IDLE", "WAITING_FOR_MSG", "WAITING_FOR_DATA"} /\ UNCHANGED <<junk, confirmed, restarts>>
        BY <2>5, DataServed DEF Swallows, Completes, ResetState
      <3>3. flex_capcode' \in 0..Lines
        <4>1. flex_capcode' = flex_capcode \/ flex_capcode' = 0
          BY <2>5, DataServed DEF Swallows, Completes, ResetState
        <4> QED
          BY <4>1, LimitsPositive
      <3> QED
        BY <3>1, <3>2, <3>3
    <2>6. CASE ServePiece
      BY <1>6, <2>6 DEF ServePiece
    <2> QED
      BY <2>1, <2>2, <2>3, <2>4, <2>5, <2>6 DEF Serves
  <1>8. AirOK'
    <2> USE DEF Device, AirOK, Next1
    <2>0. 0 \in 0..MAX_QUEUE_SIZE
      BY LimitsPositive
    <2>1. CASE ServeJunk \/ ServeRefused \/ ServeCommand \/ ServeAsk \/ ServePiece
      BY <2>1 DEF ServeJunk, ServeRefused, ServeCommand, ServeAsk, ServePiece
    <2>4. CASE ServeRestart
      BY <2>0, <2>4 DEF ServeRestart
    <2>2. CASE ServeText
      <3>1. backlog' \in 0..MAX_QUEUE_SIZE
        BY <2>2, LimitsPositive DEF ServeText, Room
      <3>2. UNCHANGED airVars \/ \E m : Accept(taken = <<>> /\ Next1 = Unit("TEXT", flex_capcode), m)
        BY <2>2 DEF ServeText
      <3>3. copies' \in [Messages -> Nat] /\ strange' \in BOOLEAN /\ accepted' \in BOOLEAN
        BY <3>2, AcceptTypes
      <3>4. blocked' = blocked /\ raw_tx_pending' = raw_tx_pending
        BY <2>2 DEF ServeText
      <3> QED
        BY <3>1, <3>3, <3>4
    <2>3. CASE ServeData
      <3>4. UNCHANGED airVars \/ \E m : Accept(Genuine, m)
        BY <2>3, DataServed DEF Swallows, Completes
      <3>5. Genuine \in BOOLEAN
        BY DEF Genuine
      <3>1. copies' \in [Messages -> Nat] /\ strange' \in BOOLEAN /\ accepted' \in BOOLEAN
        BY <3>4, <3>5, AcceptTypes
      <3>2. raw_tx_pending' \in BOOLEAN /\ UNCHANGED <<blocked, backlog>>
        BY <2>3, DataServed DEF Swallows, Completes
      <3> QED
        BY <3>1, <3>2
    <2> QED
      BY <2>1, <2>2, <2>3, <2>4 DEF Serves
  <1>9. DeviceInv'
    <2>1. opts' = opts /\ blocked = "no"
      BY <1>1 DEF KeepHost
    <2>2. CASE ServeJunk \/ ServeRefused \/ ServeCommand \/ ServeRestart
      BY <2>1, <2>2 DEF Serving, ServeJunk, ServeRefused, ServeCommand, ServeRestart, Device, DeviceInv
    <2>3. CASE ServeAsk
      <3>1. Head(up).op = "MSG" => opts.remote
        BY <1>1 DEF Sent
      <3>2. Head(up).op = "SEND" => ~opts.remote /\ ~raw_tx_pending
        BY <1>1, <2>3 DEF Sent, ServeAsk, Refuses, Next1
      <3> QED
        BY <2>1, <2>3, <3>1, <3>2 DEF ServeAsk, Next1, Device, DeviceInv
    <2>4. CASE ServeText
      BY <2>1, <2>4 DEF Serving, ServeText, ResetState, Device, DeviceInv
    <2>5. CASE ServeData
      <3>1. /\ console = "WAITING_FOR_DATA" /\ UNCHANGED <<blocked, backlog>>
            /\ \/ UNCHANGED <<console, flex_capcode, raw_tx_pending>>
               \/ console' = "IDLE" /\ flex_capcode' = 0 /\ taken' = <<>>
        BY <2>5, DataServed DEF Swallows, Completes, ResetState
      <3> QED
        BY <2>1, <3>1 DEF Device, DeviceInv
    <2>6. CASE ServePiece
      BY <2>1, <2>6 DEF Serving, ServePiece, Device, DeviceInv
    <2> QED
      BY <2>2, <2>3, <2>4, <2>5, <2>6 DEF Serves
  <1> QED
    BY <1>4, <1>5, <1>7, <1>8, <1>9 DEF Device

(* Time-outs, services and transmissions.                                  *)
LEMMA MovedKeepsDevice ==
  ASSUME Control, Device, Moves, UNCHANGED <<opts, hostVars, report, late>>
  PROVE  Device'
  <1>1. UNCHANGED up
    BY DEF Moves, StagingExpires, ServiceBlocks, ServiceEnds, TxStarts, TxEnds
  <1>2. down' \in Seq(Replies)
    <2>0. <<"ERROR">> \in Seq(Replies) /\ down \in Seq(Replies)
      BY DEF Replies, Device, LineOK
    <2>1. down' = down \/ Answers(<<"ERROR">>)
      BY DEF Moves, StagingExpires, ServiceBlocks, ServiceEnds, TxStarts, TxEnds
    <2> QED
      BY <2>0, <2>1, AnswerArrives
  <1>3. Sent' = Sent
    BY DEF Sent
  <1>4. LineOK' /\ LineInv'
    BY <1>1, <1>2, <1>3 DEF Device, LineOK, LineInv, Replies
  <1>5. LateOK'
    BY LimitsPositive DEF Moves, StagingExpires, ServiceBlocks, ServiceEnds, TxStarts, TxEnds, KeepHost, Device, LateOK
  <1>6. ConsoleOK'
    <2>1. /\ 0 \in 0..Lines /\ <<>> \in Seq(Units) /\ Len(<<>>) <= 1
          /\ ConsoleOK
      BY LimitsPositive, EmptySeq DEF Device
    <2>2. UNCHANGED <<junk, confirmed, restarts>>
      BY DEF Moves, StagingExpires, ServiceBlocks, ServiceEnds, TxStarts, TxEnds
    <2>3. UNCHANGED stagingVars \/ ResetState \/ (console' = "IDLE" /\ UNCHANGED <<flex_capcode, taken>>)
      BY DEF Moves, StagingExpires, ServiceBlocks, ServiceEnds, TxStarts, TxEnds
    <2> QED
      BY <2>1, <2>2, <2>3 DEF ConsoleOK, ResetState
  <1>7. AirOK'
    <2>1. /\ UNCHANGED airVars
          /\ raw_tx_pending' = raw_tx_pending \/ raw_tx_pending' = FALSE
          /\ blocked' = blocked \/ blocked' \in {"no", "service", "frame", "page"}
      <3>1. CASE StagingExpires \/ ServiceBlocks \/ ServiceEnds
        BY <3>1 DEF StagingExpires, ServiceBlocks, ServiceEnds
      <3>2. CASE TxStarts
        BY <3>2 DEF TxStarts
      <3>3. CASE TxEnds
        BY <3>3 DEF TxEnds
      <3> QED
        BY <3>1, <3>2, <3>3 DEF Moves
    <2>2. backlog' = backlog \/ (backlog > 0 /\ backlog' = backlog - 1)
      <3>1. CASE StagingExpires \/ ServiceBlocks \/ ServiceEnds \/ TxStarts
        BY <3>1 DEF StagingExpires, ServiceBlocks, ServiceEnds, TxStarts
      <3>2. CASE TxEnds
        BY <3>2 DEF TxEnds, Device, DeviceInv
      <3> QED
        BY <3>1, <3>2 DEF Moves
    <2>3. backlog' \in 0..MAX_QUEUE_SIZE
      BY <2>2, LimitsPositive DEF Device, AirOK
    <2> QED
      BY <2>1, <2>3 DEF Device, AirOK
  <1>8. DeviceInv'
    <2>1. CASE StagingExpires \/ ServiceBlocks \/ ServiceEnds
      BY <2>1 DEF StagingExpires, ServiceBlocks, ServiceEnds, ResetState, Device, DeviceInv
    <2>2. CASE TxStarts \/ TxEnds
      BY <2>2 DEF TxStarts, TxEnds, Device, DeviceInv, ConsoleOK
    <2> QED
      BY <2>1, <2>2 DEF Moves
  <1> QED
    BY <1>4, <1>5, <1>6, <1>7, <1>8 DEF Device

(* Every step keeps the types and what the device's state goes with.       *)
LEMMA DeviceStays ==
  ASSUME Control, Device, [Next]_vars
  PROVE  Control' /\ Device'
  <1>1. CASE UNCHANGED vars
    <2>1. Sent' = Sent
      BY <1>1 DEF vars, Sent
    <2> QED
      BY <1>1, <2>1, StepKinds DEF vars, Device, LineOK, LineInv, ConsoleOK, AirOK, LateOK, DeviceInv
  <1> QED
    BY <1>1, StepKinds, DeviceOnTool, ServedKeepsDevice, MovedKeepsDevice

-----------------------------------------------------------------------------
(* Success is not said without cause.                                      *)
Success == ReadyInv /\ FinalInv
Says(lines, answer) == \E j \in 1..Len(lines) : lines[j] = answer

(* What is answered is heard, and what is heard stays until it is read.    *)
LEMMA Hears ==
  ASSUME down \in Seq(Replies), exit = "running",
         NEW lines \in Seq(Replies), Answers(lines), NEW a
  PROVE  Has(a)' <=> Has(a) \/ Says(lines, a)
  <1>1. down' = down \o lines
    BY DEF Answers
  <1>2. /\ down' \in Seq(Replies) /\ Len(down) \in Nat /\ Len(lines) \in Nat
        /\ Len(down') = Len(down) + Len(lines)
        /\ \A j \in 1..Len(down) : down'[j] = down[j]
        /\ \A j \in 1..Len(lines) : down'[Len(down) + j] = lines[j]
        /\ \A j \in 1..Len(down') : j \in 1..Len(down) \/ j - Len(down) \in 1..Len(lines)
    BY <1>1, Queued
  <1>3. ASSUME NEW j \in 1..Len(down'), down'[j] = a
        PROVE  Has(a) \/ \E i \in 1..Len(lines) : lines[i] = a
    <2>1. CASE j \in 1..Len(down)
      BY <1>2, <1>3, <2>1 DEF Has
    <2>2. CASE j - Len(down) \in 1..Len(lines)
      <3>1. down'[Len(down) + (j - Len(down))] = lines[j - Len(down)]
        BY <1>2, <2>2
      <3>2. Len(down) + (j - Len(down)) = j
        BY <1>2, <1>3
      <3> QED
        BY <1>3, <2>2, <3>1, <3>2
    <2> QED
      BY <1>2, <2>1, <2>2
  <1>4. ASSUME NEW j \in 1..Len(down), down[j] = a
        PROVE  Has(a)'
    BY <1>2, <1>4 DEF Has
  <1>5. ASSUME NEW j \in 1..Len(lines), lines[j] = a
        PROVE  Has(a)'
    <2>1. Len(down) + j \in 1..Len(down')
      BY <1>2, <1>5
    <2> QED
      BY <1>2, <1>5, <2>1 DEF Has
  <1> QED
    BY <1>3, <1>4, <1>5 DEF Has, Says

LEMMA Heard ==
  ASSUME down \in Seq(Replies), down # <<>>, down' = Tail(down), NEW a
  PROVE  /\ Has(a)' => Has(a)
         /\ Has(a) => Head(down) = a \/ Has(a)'
  <1>1. /\ Head(down) = down[1] /\ Len(down) \in Nat \ {0} /\ Len(down') = Len(down) - 1
        /\ \A j \in 1..Len(down') : down'[j] = down[j + 1]
    BY LineEnds
  <1>2. ASSUME NEW j \in 1..Len(down), down[j] = a, j # 1
        PROVE  Has(a)'
    <2>1. j - 1 \in 1..Len(down') /\ (j - 1) + 1 = j
      BY <1>1, <1>2
    <2>2. down'[j - 1] = a
      BY <1>1, <1>2, <2>1
    <2> QED
      BY <2>1, <2>2 DEF Has
  <1>3. ASSUME NEW j \in 1..Len(down'), down'[j] = a
        PROVE  Has(a)
    <2>1. j + 1 \in 1..Len(down)
      BY <1>1
    <2> QED
      BY <1>1, <1>3, <2>1 DEF Has
  <1> QED
    BY <1>1, <1>2, <1>3 DEF Has

LEMMA Silence == ASSUME NEW a PROVE down = <<>> => ~Has(a)
  BY EmptySeq DEF Has

(* The answers by the lines they are made of.                              *)
LEMMA ReplyLines ==
  /\ \A x \in Replies : <<x>> \in Seq(Replies) /\ (\A a : Says(<<x>>, a) <=> a = x)
  /\ <<"DATA", "OK">> \in Seq(Replies)
  /\ \A a : Says(<<"DATA", "OK">>, a) <=> a \in {"DATA", "OK"}
  <1>1. ASSUME NEW x \in Replies
        PROVE  <<x>> \in Seq(Replies) /\ (\A a : Says(<<x>>, a) <=> a = x)
    BY DEF Says
  <1>2. <<"DATA", "OK">> \in Seq(Replies)
    BY DEF Replies
  <1>3. \A a : Says(<<"DATA", "OK">>, a) <=> a \in {"DATA", "OK"}
    <2>1. /\ Len(<<"DATA", "OK">>) = 2 /\ <<"DATA", "OK">>[1] = "DATA" /\ <<"DATA", "OK">>[2] = "OK"
          /\ \A j \in 1..2 : j = 1 \/ j = 2
      OBVIOUS
    <2> DEFINE s == <<"DATA", "OK">>
    <2> HIDE DEF s
    <2>2. /\ Len(s) = 2 /\ s[1] = "DATA" /\ s[2] = "OK" /\ 1 \in 1..2 /\ 2 \in 1..2
      BY <2>1 DEF s
    <2>3. \A a : Says(s, a) <=> a \in {"DATA", "OK"}
      BY <2>1, <2>2 DEF Says
    <2> QED
      BY <2>3 DEF s
  <1> QED
    BY <1>1, <1>2, <1>3

LEMMA OkLines ==
  ASSUME NEW lines \in Oks
  PROVE  /\ lines \in Seq(Replies) /\ lines # <<>> /\ Head(lines) = "OK"
         /\ \A a : Says(lines, a) => a \in {"OK", "ERROR"}
         /\ Says(lines, "OK")
  <1>1. CASE lines = <<"OK">>
    BY <1>1, ReplyLines, Singles DEF Replies
  <1>2. CASE lines = <<"OK">> \o <<"ERROR">>
    <2> DEFINE s == <<"OK">>
               t == <<"ERROR">>
    <2>1. /\ s \in Seq(Replies) /\ t \in Seq(Replies) /\ Len(s) = 1 /\ Len(t) = 1
          /\ s[1] = "OK" /\ t[1] = "ERROR" /\ lines = s \o t
      BY <1>2 DEF Replies
    <2> HIDE DEF s, t
    <2>2. /\ lines \in Seq(Replies) /\ Len(lines) = 2
          /\ \A j \in 1..Len(s) : lines[j] = s[j]
          /\ \A j \in 1..Len(t) : lines[Len(s) + j] = t[j]
      BY <2>1, Queued
    <2>3. lines[1] = "OK" /\ lines[2] = "ERROR" /\ \A j \in 1..Len(lines) : j = 1 \/ j = 2
      BY <2>1, <2>2
    <2>4. lines # <<>>
      BY <2>2, EmptySeq
    <2>5. Head(lines) = "OK"
      BY <2>2, <2>3, <2>4, Firsts
    <2>6. 1 \in 1..Len(lines)
      BY <2>2
    <2> QED
      BY <2>2, <2>3, <2>4, <2>5, <2>6 DEF Says
  <1> QED
    BY <1>1, <1>2 DEF Oks

LEMMA HearsOne ==
  ASSUME Device, exit = "running"
  PROVE  /\ \A x \in Replies : Answers(<<x>>) => \A a : Has(a)' <=> Has(a) \/ a = x
         /\ Answers(<<"DATA", "OK">>) => \A a : Has(a)' <=> Has(a) \/ a \in {"DATA", "OK"}
         /\ \A lines \in Oks : Answers(lines) =>
              Has("OK")' /\ \A a : Has(a)' => Has(a) \/ a \in {"OK", "ERROR"}
  <1>1. down \in Seq(Replies)
    BY DEF Device, LineOK, Replies
  <1>2. ASSUME NEW x \in Replies, Answers(<<x>>), NEW a
        PROVE  Has(a)' <=> Has(a) \/ a = x
    <2>1. <<x>> \in Seq(Replies) /\ (Says(<<x>>, a) <=> a = x)
      BY ReplyLines
    <2> QED
      BY <1>1, <1>2, <2>1, Hears
  <1>3. ASSUME Answers(<<"DATA", "OK">>), NEW a
        PROVE  Has(a)' <=> Has(a) \/ a \in {"DATA", "OK"}
    <2>1. <<"DATA", "OK">> \in Seq(Replies) /\ (Says(<<"DATA", "OK">>, a) <=> a \in {"DATA", "OK"})
      BY ReplyLines
    <2> QED
      BY <1>1, <1>3, <2>1, Hears
  <1>4. ASSUME NEW lines \in Oks, Answers(lines)
        PROVE  Has("OK")' /\ \A a : Has(a)' => Has(a) \/ a \in {"OK", "ERROR"}
    <2>1. \A a : Has(a)' <=> Has(a) \/ Says(lines, a)
      BY <1>1, <1>4, OkLines, Hears
    <2> QED
      BY <2>1, OkLines
  <1> QED
    BY <1>2, <1>3, <1>4

(* Before READY is read and after, there is somebody waiting for a payload *)
(* or an answer that says no.                                              *)
Payloads == {"MSG", "SEND", "TEXT", "HEAD", "TAIL"}

(* The tool's steps: READY is waited for from the writing of the command   *)
(* to its reading, and OK from the writing of the payload.                 *)
LEMMA SuccessOnTool ==
  ASSUME Control, Device, Success, Control',
         \/ Decision \/ Repetition \/ Skipping \/ Prompting \/ Cutting \/ Waiting
         \/ FlushBuffers \/ SendCommand \/ ReadData \/ Stopped
  PROVE  Success'
  <1>0. down \in Seq(Replies) /\ up \in Seq(Sent)
    BY DEF Device, LineOK, LineInv, Replies
  <1>1. CASE Decision \/ Cutting \/ Stopped
    <2>1. why' # "final" /\ exec' \notin {"write", "read"}
      <3>1. step' # "final" /\ exec' \notin {"write", "read"}
        BY <1>1 DEF Decision, Decides, Cutting, Stopped, Interrupted, Ends, Pause
      <3> QED
        BY <3>1 DEF Control, PlaceInv
    <2> QED
      BY <2>1 DEF Success, ReadyInv, FinalInv
  <1>2. CASE Repetition
    <2>1. exec' = "flush" /\ why' # "final"
      BY <1>2 DEF Repetition, Control, PlaceInv
    <2> QED
      BY <2>1 DEF Success, ReadyInv, FinalInv
  <1>8. CASE Skipping
    <2>1. why' = "recover"
      BY <1>8 DEF Skipping
    <2> QED
      BY <2>1 DEF Success, ReadyInv, FinalInv
  <1>3. CASE Prompting
    <2>1. /\ why = "ask" /\ why' = "final" /\ exec = "read" /\ got = "ready" /\ down = <<>> /\ down' = <<>>
          /\ up' = up \o Payload(message) /\ step = "ask" /\ opts' = opts
      BY <1>3 DEF Prompting, Prompted, ReadResult, Silent, Control, PlaceInv
    <2>2. up = <<>> \/ up = << cmd >>
      BY <2>1, Silence DEF Success, ReadyInv
    <2>3. \A j \in 1..Len(up) : up[j].op \in Payloads
      <3>1. cmd = Ask(message)
        BY <2>1 DEF Control, PlaceInv
      <3>2. cmd.op \in Payloads
        BY <3>1 DEF Ask, Unit, Payloads
      <3>3. CASE up = <<>>
        BY <3>3, EmptySeq
      <3>4. CASE up = << cmd >>
        BY <3>2, <3>4
      <3> QED
        BY <2>2, <3>3, <3>4
    <2>4. Payload(message) \in Seq(Sent)
      BY <2>1, PayloadSent
    <2>5. \A j \in 1..Len(Payload(message)) : Payload(message)[j].op \in Payloads
      BY DEF Payload, Unit, Payloads
    <2>6. \A j \in 1..Len(up') : up'[j].op \in Payloads
      <3> DEFINE p == Payload(message)
      <3>1. p \in Seq(Sent) /\ up' = up \o p /\ \A j \in 1..Len(p) : p[j].op \in Payloads
        BY <2>1, <2>4, <2>5
      <3> HIDE DEF p
      <3>2. /\ Len(up) \in Nat /\ Len(p) \in Nat
            /\ \A j \in 1..Len(up) : up'[j] = up[j]
            /\ \A j \in 1..Len(p) : up'[Len(up) + j] = p[j]
            /\ \A j \in 1..Len(up') : j \in 1..Len(up) \/ j - Len(up) \in 1..Len(p)
            /\ up' \in Seq(Sent)
        BY <1>0, <3>1, Queued
      <3> TAKE j \in 1..Len(up')
      <3>3. CASE j \in 1..Len(up)
        BY <2>3, <3>2, <3>3
      <3>4. CASE j - Len(up) \in 1..Len(p)
        <4>1. j \in Int /\ Len(up) + (j - Len(up)) = j
          BY <3>2
        <4>2. up'[Len(up) + (j - Len(up))] = p[j - Len(up)]
          BY <3>2, <3>4
        <4> QED
          BY <3>1, <3>4, <4>1, <4>2
      <3> QED
        BY <3>2, <3>3, <3>4
    <2>7. ~Has("OK")'
      BY <2>1, EmptySeq DEF Has
    <2> QED
      BY <2>1, <2>6, <2>7 DEF Success, ReadyInv, FinalInv, Payloads
  <1>4. CASE Waiting
    <2>1. /\ why = "final" /\ why' = "final" /\ UNCHANGED <<up, airVars>>
          /\ down' = down
      BY <1>4 DEF Waiting, ReadResult
    <2> QED
      BY <2>1 DEF Success, ReadyInv, FinalInv, Has
  <1>5. CASE FlushBuffers
    <2>1. exec = "flush" /\ down' = <<>> /\ got' = got /\ why' = why /\ got = "none" /\ why # "final"
      BY <1>5 DEF FlushBuffers, Control, PlaceInv
    <2>2. \A a : ~Has(a)'
      BY <2>1, EmptySeq DEF Has
    <2> QED
      BY <2>1, <2>2 DEF Success, ReadyInv, FinalInv
  <1>6. CASE SendCommand
    <2>1. /\ exec = "write" /\ exec' = "read" /\ got' = "none" /\ why' = why /\ UNCHANGED <<down, console, cmd>>
          /\ why # "final" /\ (why = "ask" => up' = Append(up, cmd))
      BY <1>6 DEF SendCommand, Control, PlaceInv
    <2>2. up = <<>> => Append(up, cmd) = << cmd >>
      OBVIOUS
    <2> QED
      BY <2>1, <2>2 DEF Success, ReadyInv, FinalInv, Has
  <1>7. CASE ReadData
    <2>1. /\ exec = "read" /\ down # <<>> /\ Head(down) \in {"DATA", "READY"} /\ down' = Tail(down)
          /\ UNCHANGED <<exec, why, up, cmd, console, airVars>>
          /\ got' = "ready" => got = "ready" \/ Head(down) = "READY"
      BY <1>7 DEF ReadData
    <2>2. Head(down) = "READY" => Has("READY")
      BY <1>0, <2>1, LineEnds DEF Has
    <2>3. \A a : (Has(a)' => Has(a)) /\ (Has(a) => Head(down) = a \/ Has(a)')
      BY <1>0, <2>1, Heard
    <2>4. ReadyInv'
      BY <2>1, <2>2, <2>3 DEF Success, ReadyInv
    <2>5. FinalInv'
      BY <2>1, <2>3 DEF Success, FinalInv
    <2> QED
      BY <2>4, <2>5 DEF Success
  <1> QED
    BY <1>1, <1>2, <1>3, <1>4, <1>5, <1>6, <1>7, <1>8

(* Where the device takes up a line, the lines behind it remain or none.   *)
LEMMA ServedLine ==
  ASSUME Control, Device, Serves
  PROVE  /\ up # <<>> /\ blocked = "no" /\ Head(up) = up[1] /\ 1 \in 1..Len(up) /\ Head(up) \in Sent
         /\ up' = Tail(up) \/ up' = <<>>
         /\ UNCHANGED hostVars /\ opts' = opts /\ report' = report /\ late' = late /\ faults' = faults
  <1>1. up \in Seq(Sent) /\ up # <<>>
    BY DEF Device, LineInv, Serves, ServeJunk, ServeRefused, ServeCommand, ServeAsk, ServeRestart, ServePiece, ServeText, ServeData, Serving
  <1>2. up' = Tail(up) \/ up' = <<>>
    BY DEF Serves, ServeJunk, ServeRefused, ServeCommand, ServeAsk, ServeRestart, ServePiece, ServeText, ServeData
  <1>3. blocked = "no" /\ KeepHost
    BY DEF Serves, ServeJunk, ServeRefused, ServeCommand, ServeAsk, ServeRestart, ServePiece, ServeText, ServeData, Serving
  <1> QED
    BY <1>1, <1>2, <1>3, Firsts

(* A line shorter by its first unit.                                       *)
LEMMA Shortened ==
  ASSUME Device, UNCHANGED why, up # <<>>, up' = Tail(up) \/ up' = <<>>, FinalInv,
         why = "final" /\ Has("OK")' => accepted'
  PROVE  FinalInv'
  <1>0. up \in Seq(Units)
    BY DEF Device, LineOK
  <1>1. /\ up' # <<>> => Len(up) \in Nat \ {0} /\ Len(up') = Len(up) - 1
                         /\ \A j \in 1..Len(up') : up'[j] = up[j + 1]
        /\ up' = <<>> => Len(up') = 0
    <2>1. /\ Len(up) \in Nat \ {0} /\ Len(Tail(up)) = Len(up) - 1
          /\ \A j \in 1..Len(Tail(up)) : Tail(up)[j] = up[j + 1]
      BY <1>0, LineEnds
    <2>2. Len(<<>>) = 0
      OBVIOUS
    <2> QED
      BY <2>1, <2>2
  <1>2. why = "final" => \A j \in 1..Len(up') : \E i \in 1..Len(up) : up'[j] = up[i]
    <2>1. CASE up' = <<>>
      BY <1>1, <2>1
    <2>2. CASE up' # <<>>
      <3>1. \A j \in 1..Len(up') : j + 1 \in 1..Len(up)
        BY <1>1, <2>2
      <3> QED
        BY <1>1, <2>2, <3>1
    <2> QED
      BY <2>1, <2>2
  <1> QED
    BY <1>2 DEF FinalInv

(* The device's steps: it says READY when it begins to wait, and OK to a   *)
(* text when it takes something.                                           *)
LEMMA SuccessServed ==
  ASSUME Control, Device, Success, Serves
  PROVE  Success'
  <1>0. /\ UNCHANGED <<exec, why, got, cmd, step, exit>> /\ up # <<>>
        /\ up' = Tail(up) \/ up' = <<>>
        /\ Head(up) = up[1] /\ 1 \in 1..Len(up)
    BY ServedLine
  <1>1. CASE exit # "running"
    <2>1. step = "end"
      BY <1>1 DEF Control, ToolOK
    <2>2. why' \notin {"ask", "final"}
      BY <1>0, <2>1 DEF Control, PlaceInv
    <2> QED
      BY <2>2 DEF Success, ReadyInv, FinalInv
  <1>2. CASE exit = "running"
    <2>1. CASE ServeJunk
      <3>1. console = "IDLE" /\ UNCHANGED <<console, airVars>>
        BY <2>1 DEF ServeJunk, Serving
      <3>2. CASE UNCHANGED down
        <4>1. ReadyInv'
          BY <1>0, <3>1, <3>2 DEF Success, ReadyInv, Has
        <4>2. why = "final" /\ Has("OK")' => accepted'
          BY <3>1, <3>2 DEF Success, FinalInv, Has
        <4> QED
          BY <1>0, <4>1, <4>2, Shortened DEF Success
      <3>3. CASE Answers(<<"ERROR">>)
        <4>1. \A a : Has(a)' <=> Has(a) \/ a = "ERROR"
          BY <1>2, <3>3, HearsOne DEF Replies
        <4>2. why = "final" /\ Has("OK")' => accepted'
          BY <3>1, <4>1 DEF Success, FinalInv
        <4>3. ReadyInv'
          BY <4>1 DEF ReadyInv
        <4> QED
          BY <1>0, <4>2, <4>3, Shortened DEF Success
      <3> QED
        BY <2>1, <3>2, <3>3 DEF ServeJunk
    <2>2. CASE ServeRefused
      <3>1. console = "IDLE" /\ UNCHANGED <<console, airVars>> /\ Answers(<<"ERROR">>)
        BY <2>2 DEF ServeRefused, Serving
      <3>2. \A a : Has(a)' <=> Has(a) \/ a = "ERROR"
        BY <1>2, <3>1, HearsOne DEF Replies
      <3>3. ReadyInv'
        BY <3>2 DEF ReadyInv
      <3>4. why = "final" /\ Has("OK")' => accepted'
        BY <3>1, <3>2 DEF Success, FinalInv
      <3> QED
        BY <1>0, <3>3, <3>4, Shortened DEF Success
    <2>3. CASE ServeCommand
      <3>1. Answers(<<"DATA", "OK">>) \/ Answers(<<"OK">>)
        BY <2>3 DEF ServeCommand
      <3>2. Has("OK")'
        BY <1>2, <3>1, HearsOne DEF Replies
      <3>3. ReadyInv'
        BY <3>2 DEF ReadyInv
      <3>4. why # "final"
        <4>1. Head(up).op \in Settings \cup {"AT", "FREQ", "POWER", "STATUS?"}
          BY <2>3 DEF ServeCommand, Next1
        <4>2. Head(up).op \notin Payloads
          BY <4>1, CommandNames DEF Others, Payloads
        <4> QED
          BY <1>0, <4>2 DEF Success, FinalInv, Payloads
      <3> QED
        BY <1>0, <3>3, <3>4 DEF Success, FinalInv
    <2>4. CASE ServeAsk
      <3>1. console' # "IDLE" /\ up' = <<>> /\ UNCHANGED airVars /\ Answers(<<"READY">>)
        BY <2>4 DEF ServeAsk
      <3>2. \A a : Has(a)' <=> Has(a) \/ a = "READY"
        BY <1>2, <3>1, HearsOne DEF Replies
      <3>3. ReadyInv'
        BY <3>1 DEF ReadyInv
      <3>4. why = "final" /\ Has("OK")' => accepted'
        BY <3>1, <3>2 DEF Success, FinalInv
      <3> QED
        BY <1>0, <3>3, <3>4, Shortened DEF Success
    <2>5. CASE ServeRestart
      <3>1. Answers(<<"OK">>)
        BY <2>5 DEF ServeRestart
      <3>2. Has("OK")'
        BY <1>2, <3>1, HearsOne DEF Replies
      <3>3. ReadyInv'
        BY <3>2 DEF ReadyInv
      <3>4. why # "final"
        BY <1>0, <2>5 DEF Success, FinalInv, ServeRestart, Next1
      <3> QED
        BY <1>0, <3>3, <3>4 DEF Success, FinalInv
    <2>6. CASE ServeText \/ (ServeData /\ Completes)
      <3>1. \/ (\E lines \in Oks : Answers(lines)) /\ accepted' = TRUE
            \/ Answers(<<"ERROR">>) /\ UNCHANGED airVars
        BY <2>6 DEF ServeText, Completes, Accept, Oks
      <3>2. /\ Has("OK")' \/ Has("ERROR")'
            /\ Has("OK")' => accepted' = TRUE \/ (Has("OK") /\ accepted' = accepted)
        BY <1>2, <3>1, HearsOne DEF Replies
      <3>3. ReadyInv'
        BY <3>2 DEF ReadyInv
      <3>4. why = "final" /\ Has("OK")' => accepted'
        BY <3>2 DEF Success, FinalInv
      <3> QED
        BY <1>0, <3>3, <3>4, Shortened DEF Success
    <2>7. CASE ServePiece \/ (ServeData /\ ~Completes)
      <3>1. UNCHANGED <<console, down, airVars>> /\ up' = Tail(up)
        BY <2>7, DataServed DEF ServePiece, Swallows
      <3>2. up = << cmd >> => up' = <<>>
        BY <3>1, Singles
      <3>3. ReadyInv'
        BY <1>0, <3>1, <3>2 DEF Success, ReadyInv, Has
      <3>4. why = "final" /\ Has("OK")' => accepted'
        BY <3>1 DEF Success, FinalInv, Has
      <3> QED
        BY <1>0, <3>3, <3>4, Shortened DEF Success
    <2> QED
      BY <2>1, <2>2, <2>3, <2>4, <2>5, <2>6, <2>7 DEF Serves
  <1> QED
    BY <1>1, <1>2

(* A console that stops waiting says ERROR, behind READY.                  *)
LEMMA SuccessMoved ==
  ASSUME Control, Device, Success, Moves, UNCHANGED <<opts, hostVars, report, late>>
  PROVE  Success'
  <1>1. CASE exit # "running"
    <2>1. step = "end"
      BY <1>1 DEF Control, ToolOK
    <2>2. why' \notin {"ask", "final"}
      BY <2>1 DEF Control, PlaceInv
    <2> QED
      BY <2>2 DEF Success, ReadyInv, FinalInv
  <1>2. CASE exit = "running"
    <2>1. UNCHANGED <<up, airVars>>
      BY DEF Moves, StagingExpires, ServiceBlocks, ServiceEnds, TxStarts, TxEnds
    <2>2. \/ Answers(<<"ERROR">>)
          \/ UNCHANGED down /\ (console # "IDLE" => console' = console)
      <3>1. CASE StagingExpires \/ ServiceBlocks \/ ServiceEnds
        BY <3>1 DEF StagingExpires, ServiceBlocks, ServiceEnds
      <3>2. CASE TxStarts \/ TxEnds
        BY <3>2 DEF TxStarts, TxEnds, Device, DeviceInv
      <3> QED
        BY <3>1, <3>2 DEF Moves
    <2>3. CASE Answers(<<"ERROR">>)
      <3>1. \A a : Has(a)' <=> Has(a) \/ a = "ERROR"
        BY <1>2, <2>3, HearsOne DEF Replies
      <3> QED
        BY <2>1, <3>1 DEF Success, ReadyInv, FinalInv
    <2>4. CASE UNCHANGED down /\ (console # "IDLE" => console' = console)
      BY <2>1, <2>4 DEF Success, ReadyInv, FinalInv, Has
    <2> QED
      BY <2>2, <2>3, <2>4
  <1> QED
    BY <1>1, <1>2

(* Every step keeps what READY and OK have behind them.                    *)
LEMMA SuccessStays ==
  ASSUME Control, Device, Success, [Next]_vars
  PROVE  Success'
  <1>1. CASE UNCHANGED vars
    BY <1>1 DEF vars, Success, ReadyInv, FinalInv, Has
  <1> QED
    BY <1>1, StepKinds, SuccessOnTool, SuccessServed, SuccessMoved

(* "Sent" is what the tool says when it reads OK in the end.               *)
LEMMA SentStep ==
  ASSUME Control, Device, Success, [Next]_vars, NEW m \in Messages, report'[m] = "sent"
  PROVE  report[m] = "sent" \/ accepted
  <1>1. CASE report' = report
    BY <1>1
  <1>2. CASE Decision
    <2>1. CASE Decides("failed")
      <3>1. report' = report \/ report' = [report EXCEPT ![message] = "failed"]
        BY <2>1 DEF Decides
      <3>2. report \in [Messages -> {"none", "sent", "failed"}]
        BY DEF Control, ToolOK
      <3> QED
        BY <3>1, <3>2
    <2>2. CASE why = "final" /\ ReadResult("OK")
      <3>1. down # <<>> /\ Head(down) = "OK" /\ down \in Seq(Replies)
        BY <2>2 DEF ReadResult, Device, LineOK, Replies
      <3>2. Has("OK")
        BY <3>1, Firsts DEF Has
      <3> QED
        BY <2>2, <3>2 DEF Success, FinalInv
    <2> QED
      BY <1>2, <2>1, <2>2 DEF Decision
  <1>4. CASE Cutting
    <2>1. report' = report \/ report' = [report EXCEPT ![message] = "failed"]
      BY <1>4 DEF Cutting, Decides
    <2>2. report \in [Messages -> {"none", "sent", "failed"}]
      BY DEF Control, ToolOK
    <2> QED
      BY <2>1, <2>2
  <1>3. CASE \/ Repetition \/ Skipping \/ Prompting \/ Waiting
             \/ FlushBuffers \/ SendCommand \/ ReadData \/ Stopped
    <2>1. report' = report
      BY <1>3 DEF Repetition, Skipping, Prompting, Waiting, FlushBuffers, SendCommand, ReadData, Stopped, Interrupted
    <2> QED
      BY <2>1
  <1> QED
    BY <1>1, <1>2, <1>3, <1>4, StepKinds DEF vars

-----------------------------------------------------------------------------
(* Copies: a message is accepted once, and once more for every fault.      *)
LEMMA HeldFacts ==
  ASSUME Device, NEW m \in Messages
  PROVE  /\ copies[m] \in Nat /\ Held(m) \in Nat /\ copies[m] <= Held(m)
         /\ Live(m) => Held(m) = copies[m] + 1
         /\ ~Live(m) => Held(m) = copies[m]
  <1>1. copies[m] \in Nat
    BY DEF Device, AirOK
  <1> QED
    BY <1>1 DEF Held

(* The same facts after a step, and what leaves no payload live adds       *)
(* nothing.                                                                *)
LEMMA HeldNext ==
  ASSUME Device', NEW m \in Messages
  PROVE  /\ copies'[m] \in Nat /\ Held(m)' \in Nat
         /\ Live(m)' => Held(m)' = copies'[m] + 1
         /\ ~Live(m)' => Held(m)' = copies'[m]
  <1>1. copies'[m] \in Nat
    BY DEF Device, AirOK
  <1> QED
    BY <1>1 DEF Held

LEMMA HeldKept ==
  ASSUME Device, Device', UNCHANGED copies, \A m \in Messages : Live(m)' => Live(m)
  PROVE  \A m \in Messages : Held(m)' <= Held(m)
  <1> TAKE m \in Messages
  <1> QED
    BY HeldFacts, HeldNext

(* What is lived for stays at the head of the line.                        *)
LEMMA Appended ==
  ASSUME Device, NEW u \in Units, u.op \notin {"TEXT", "HEAD", "TAIL"},
         up' = Append(up, u), UNCHANGED stagingVars, NEW m
  PROVE  Live(m)' => Live(m)
  <1>1. up \in Seq(Units) /\ Len(up) \in Nat
    BY DEF Device, LineOK
  <1>2. /\ Len(up') = Len(up) + 1 /\ up' # <<>> /\ Head(up') = up'[1]
        /\ \A j \in 1..Len(up) : up'[j] = up[j]
        /\ up'[Len(up) + 1] = u
    BY <1>1, AppendProperties
  <1>3. up # <<>> => Len(up) > 0 /\ Head(up) = up[1] /\ Head(up') = Head(up)
    BY <1>1, <1>2, Firsts
  <1>4. up = <<>> => Head(up') = u /\ Len(up') = 1
    <2>1. up = <<>> => Len(up) = 0 /\ Len(up') = 1 /\ up'[1] = u
      BY <1>2, EmptySeq
    <2> QED
      BY <1>2, <2>1
  <1>5. Len(up) > 1 => up'[1] = up[1] /\ up'[2] = up[2]
    BY <1>1, <1>2
  <1>6. Len(up) = 1 => up'[2] = u
    BY <1>2
  <1>7. Len(up') > 1 => Len(up) > 1 \/ Len(up) = 1
    <2>1. Len(up) \in Nat /\ Len(up') = Len(up) + 1
      BY <1>1, <1>2
    <2> DEFINE n == Len(up)
               n2 == Len(up')
    <2>2. n \in Nat /\ n2 = n + 1
      BY <2>1
    <2> HIDE DEF n, n2
    <2>3. n2 > 1 => n > 1 \/ n = 1
      BY <2>2
    <2> QED
      BY <2>3 DEF n, n2
  <1>8. up'[2] = Unit("TAIL", m) => up'[2] # u
    BY DEF Unit
  <1>9. Head(up') \in {Unit("TEXT", m), Unit("TAIL", m)} => Head(up') # u
    BY DEF Unit
  <1> QED
    BY <1>2, <1>3, <1>4, <1>5, <1>6, <1>7, <1>8, <1>9 DEF Live

(* Nothing is live on an empty line or at a console that waits for         *)
(* nothing.                                                                *)
LEMMA Unlived ==
  ASSUME NEW m
  PROVE  /\ up = <<>> => ~Live(m)
         /\ console = "IDLE" => ~Live(m)
  BY EmptySeq DEF Live

LEMMA UnlivedNext ==
  ASSUME NEW m
  PROVE  /\ up' = <<>> => ~Live(m)'
         /\ console' = "IDLE" => ~Live(m)'
  BY EmptySeq DEF Live

LEMMA SameLive ==
  ASSUME UNCHANGED <<up, stagingVars>>
  PROVE  \A m : Live(m)' <=> Live(m)
  BY DEF Live

LEMMA HeldSame ==
  ASSUME UNCHANGED <<up, stagingVars, copies>>
  PROVE  \A m \in Messages : Held(m)' = Held(m)
  BY SameLive DEF Held

(* The payload is written, whole or in part, where it can be taken up for  *)
(* one message only.                                                       *)
LEMMA PartLives ==
  ASSUME Control, Device, Success, why = "ask", exec = "read", got = "ready", down = <<>>,
         NEW part \in Written, up' = up \o part, UNCHANGED stagingVars
  PROVE  /\ \A m : ~Live(m)
         /\ \A m : Live(m)' => m = message /\ up = <<>>
  <1>1. step = "ask"
    BY DEF Control, PlaceInv
  <1>2. console # "IDLE" /\ (up = <<>> \/ up = << cmd >>)
    BY <1>1, Silence DEF Success, ReadyInv
  <1>3. cmd.op \in {"MSG", "SEND"}
    <2>1. cmd = Ask(message)
      BY <1>1 DEF Control, PlaceInv
    <2> QED
      BY <2>1 DEF Ask, Unit
  <1>4. CASE up = <<>>
    <2>1. up' = part
      <3>1. part \in Seq(Sent)
        BY <1>1, PayloadSent
      <3> QED
        BY <1>4, <3>1, ConcatEmptySeq
    <2>2. \/ up' \in { <<>>, << Unit("TEXT", message) >>, << Unit("PIECE", message) >>, << Unit("HEAD", message) >> }
          \/ up' = << Unit("HEAD", message), Unit("TAIL", message) >>
      BY <2>1 DEF Written, Parts, Payload
    <2>3. \A m : Live(m)' => m = message
      <3>1. CASE up' = <<>>
        BY <3>1, UnlivedNext
      <3>2. CASE up' \in { << Unit("TEXT", message) >>, << Unit("PIECE", message) >>, << Unit("HEAD", message) >> }
        <4>1. /\ Head(up') \in { Unit("TEXT", message), Unit("PIECE", message), Unit("HEAD", message) }
              /\ Len(up') = 1
          BY <3>2, Singles
        <4> QED
          BY <4>1 DEF Live, Unit
      <3>3. CASE up' = << Unit("HEAD", message), Unit("TAIL", message) >>
        <4>1. Head(up') = Unit("HEAD", message) /\ up'[1] = Unit("HEAD", message)
          BY <3>3
        <4> QED
          BY <4>1 DEF Live, Unit
      <3> QED
        BY <2>2, <3>1, <3>2, <3>3
    <2> QED
      BY <1>4, <2>3, Unlived
  <1>5. CASE up = << cmd >>
    <2>1. Head(up) = cmd /\ Len(up) = 1
      BY <1>5, Singles
    <2>2. \A m : ~Live(m)
      BY <1>3, <2>1 DEF Live, Unit
    <2>3. Head(up') = cmd /\ up'[1] = cmd
      <3>1. up \in Seq(Sent) /\ part \in Seq(Sent)
        BY <1>1, PayloadSent DEF Device, LineInv
      <3>2. up'[1] = up[1] /\ up' # <<>> /\ up' \in Seq(Sent)
        BY <2>1, <3>1, Queued, EmptySeq
      <3> QED
        BY <1>5, <3>2, Firsts, Singles
    <2>4. \A m : ~Live(m)'
      BY <1>3, <2>3 DEF Live, Unit
    <2> QED
      BY <2>2, <2>4
  <1> QED
    BY <1>2, <1>4, <1>5

LEMMA PayloadLives ==
  ASSUME Control, Device, Success, Prompting
  PROVE  /\ down = <<>> /\ down' = <<>> /\ step = "ask" /\ why = "ask" /\ exec = "read"
         /\ \A m : ~Live(m)
         /\ \A m : Live(m)' => m = message /\ up = <<>>
  <1>1. /\ why = "ask" /\ exec = "read" /\ got = "ready" /\ down = <<>> /\ down' = <<>>
        /\ up' = up \o Payload(message) /\ step = "ask" /\ UNCHANGED stagingVars
    BY DEF Prompting, Prompted, ReadResult, Silent, Control, PlaceInv
  <1> QED
    BY <1>1, PartLives DEF Written

LEMMA CutLives ==
  ASSUME Control, Device, Success, Cutting
  PROVE  /\ step = "ask" /\ exit = "running"
         /\ \A m : ~Live(m)
         /\ \A m : Live(m)' => m = message
  <1>1. /\ why = "ask" /\ exec = "read" /\ got = "ready" /\ down = <<>> /\ UNCHANGED stagingVars
        /\ \E part \in Parts(message) : up' = up \o part
    BY DEF Cutting, PayloadDue, Prompted, Silent
  <1>2. step = "ask" /\ exit = "running"
    BY <1>1 DEF Control, PlaceInv, ToolOK
  <1> QED
    BY <1>1, <1>2, PartLives DEF Written

(* While the tool waits for the last answer, no more copies than faults if *)
(* it will not read OK.                                                    *)
LEMMA GoodAnswer ==
  ASSUME Control, Device, HeldInv, step = "final", ~Decided,
         down # <<>> \/ up = <<>> \/ Unserved
  PROVE  Held(message) <= faults
  <1>1. opts.remote \in BOOLEAN /\ why = "final"
    BY DEF Control, CallOK, Opts, PlaceInv
  <1>2. CASE down # <<>>
    BY <1>2 DEF HeldInv, Good
  <1>3. CASE up = <<>>
    BY <1>3, Unlived DEF HeldInv, Good
  <1>4. CASE Unserved
    <2>1. CASE blocked = "service"
      BY <2>1 DEF HeldInv, Good
    <2>2. CASE blocked # "service"
      <3>1. console = "IDLE"
        BY <1>4, <2>2 DEF Unserved, Device, DeviceInv
      <3> QED
        BY <3>1, Unlived DEF HeldInv, Good
    <2> QED
      BY <2>1, <2>2
  <1> QED
    BY <1>2, <1>3, <1>4

(* Any result but OK ends the last wait without a copy to come.            *)
LEMMA Disappointed ==
  ASSUME Control, Device, HeldInv, step = "final", NEW result \in Results \ {"OK"}, ReadResult(result)
  PROVE  Held(message) <= faults'
  <1>1. message \in Messages /\ faults \in Nat /\ faults' \in Nat /\ faults <= faults'
    BY LimitsPositive, ReadTypes DEF Control, PlaceInv, Sending, Device, LateOK
  <1>2. Held(message) \in Nat
    BY <1>1, HeldFacts
  <1>3. CASE result = "INVALID"
    <2>1. faults' = faults + 1 /\ Held(message) <= 1 + faults
      BY <1>1, <1>3 DEF ReadResult, HeldInv
    <2> QED
      BY <1>1, <1>2, <2>1
  <1>4. CASE result = "ERROR"
    <2>1. ~Decided /\ down # <<>>
      BY <1>4 DEF ReadResult, Decided
    <2> QED
      BY <1>1, <1>2, <2>1, GoodAnswer
  <1>5. CASE result \in {"DATA", "TIMEOUT"}
    <2>1. Silent /\ ~Decided
      BY <1>5 DEF ReadResult, Silent, Decided
    <2> QED
      BY <1>1, <1>2, <2>1, GoodAnswer DEF Silent
  <1> QED
    BY <1>3, <1>4, <1>5 DEF Results

(* A decision of main moves on to another message or attempt, and a new    *)
(* attempt begins with nothing live for it but what faults explain.        *)
LEMMA HeldOnDecision ==
  ASSUME Control, Device, HeldInv, Control', Device', Decision
  PROVE  HeldInv'
  <1>1. \A m \in Messages : Held(m)' = Held(m) /\ Held(m) \in Nat
    BY HeldSame, HeldFacts DEF Decision
  <1>2. faults \in Nat /\ faults' \in Nat /\ faults <= faults'
    <2>1. \/ faults' = faults \/ faults' = faults + 1
          \/ \E result : ReadResult(result)
      BY DEF Decision, Silently, Unwritten
    <2> QED
      BY <2>1, LimitsPositive, ReadTypes DEF Device, LateOK
  <1>3. exit = "running" /\ step' # "final" /\ exec' \notin {"write", "read"}
    <2>1. exit = "running"
      BY DEF Decision, Silently, Unwritten, ReadResult, Control, PlaceInv, ToolOK
    <2> QED
      BY <2>1 DEF Decision, Decides
  <1>4. \A m \in Messages : Held(m)' <= 1 + faults'
    BY <1>1, <1>2 DEF HeldInv
  <1>5. message' = message \/ message' = message + 1
    BY DEF Decision, Decides
  <1>6. \A m \in Messages : m > message' => Held(m)' = 0
    <2>1. message \in Nat /\ \A m \in Messages : m \in Nat
      BY LimitsPositive DEF Control, ToolOK, Messages
    <2> QED
      BY <1>1, <1>3, <1>5, <2>1 DEF HeldInv
  <1>7. ASSUME step' \in Sending
        PROVE  Held(message)' <= faults'
    <2>1. message' \in Messages
      BY <1>7 DEF Control, PlaceInv
    <2>2. \/ message' = message /\ step \in Sending
          \/ message' = message + 1
      BY <1>7 DEF Decision, Decides
    <2>3. CASE message' = message + 1
      <3>1. message' > message
        BY <2>3, LimitsPositive DEF Control, ToolOK
      <3>2. \A m \in Messages : m = message' => Held(m) = 0
        BY <1>3, <2>1, <3>1 DEF HeldInv
      <3>3. Held(message)' = 0
        BY <1>6, <1>1, <2>1, <3>2
      <3> QED
        BY <1>2, <3>3
    <2>4. CASE message' = message /\ step \in Sending
      <3>1. Held(message) <= faults'
        <4>1. CASE step # "final"
          <5>1. Held(message) <= faults /\ Held(message) \in Nat
            BY <1>1, <2>1, <2>4, <4>1 DEF HeldInv
          <5> QED
            BY <1>2, <5>1
        <4>2. CASE step = "final"
          <5>1. why = "final" /\ exec # "none"
            BY <4>2 DEF Control, PlaceInv
          <5>2. CASE step' \notin Sending
            BY <1>7, <5>2
          <5>3. CASE \E result \in Results \ {"OK"} : ReadResult(result)
            BY <4>2, <5>3, Disappointed
          <5> QED
            BY <5>1, <5>2, <5>3 DEF Decision, Silently, Unwritten
        <4> QED
          BY <4>1, <4>2
      <3>2. Held(message)' = Held(message)
        BY <1>1, <2>1, <2>4
      <3> QED
        BY <3>1, <3>2
    <2> QED
      BY <2>2, <2>3, <2>4
  <1> QED
    BY <1>3, <1>4, <1>6, <1>7 DEF HeldInv

(* Only the payload's writing makes a message live; an error in reading or *)
(* writing that leads to another attempt is a fault.                       *)
LEMMA HeldOnTool ==
  ASSUME Control, Device, Success, HeldInv, Control', Device',
         \/ Repetition \/ Skipping \/ Prompting \/ Cutting \/ Waiting
         \/ FlushBuffers \/ SendCommand \/ ReadData \/ Stopped
  PROVE  HeldInv'
  <1>0. \A m \in Messages : Held(m) \in Nat /\ Held(m)' \in Nat
    BY HeldFacts, HeldNext
  <1>1. faults \in Nat /\ faults' \in Nat /\ faults <= faults'
    <2>1. \/ faults' = faults \/ faults' = faults + 1
          \/ \E result : ReadResult(result)
      BY DEF Repetition, Skipping, Unwritten, Prompting, Cutting, Waiting,
             FlushBuffers, SendCommand, ReadData, Stopped, Interrupted
    <2> QED
      BY <2>1, LimitsPositive, ReadTypes DEF Device, LateOK
  <1>2. step \in Sending => message \in Messages
    BY DEF Control, PlaceInv
  <1>3. CASE Stopped
    <2>1. /\ UNCHANGED <<up, stagingVars, copies, faults>> /\ exit' # "running"
          /\ step' = "end" /\ why' = "command"
      BY <1>3 DEF Stopped, Interrupted, Ends, Pause
    <2>2. \A m \in Messages : Held(m)' = Held(m)
      BY <2>1, HeldSame
    <2> QED
      BY <2>1, <2>2 DEF HeldInv, Sending
  <1>4. CASE Repetition \/ FlushBuffers \/ Skipping
    <2>1. /\ UNCHANGED <<up, stagingVars, copies, exit, step, message>>
          /\ exec' # "read" \/ why' = "recover"
          /\ step # "final"
      BY <1>4 DEF Repetition, FlushBuffers, Skipping, Control, PlaceInv
    <2>2. \A m \in Messages : Held(m)' = Held(m)
      BY <2>1, HeldSame
    <2> QED
      BY <1>0, <1>1, <1>2, <2>1, <2>2 DEF HeldInv
  <1>5. CASE Waiting
    <2>1. /\ UNCHANGED <<up, stagingVars, copies, exit, step, message, down, blocked>>
          /\ why' = "final" /\ step = "final"
      BY <1>5 DEF Waiting, ReadResult, Control, PlaceInv
    <2>2. \A m \in Messages : Held(m)' = Held(m)
      BY <2>1, HeldSame
    <2>3. Good' <=> Good
      BY <2>1 DEF Good, Decided, Live
    <2>4. message \in Messages /\ Held(message)' = Held(message)
      BY <1>2, <2>1, <2>2 DEF Sending
    <2>5. \A m \in Messages : Held(m)' <= 1 + faults'
      BY <1>0, <1>1, <2>2 DEF HeldInv
    <2>6. ~Good' => Held(message)' <= faults'
      BY <1>0, <1>1, <2>1, <2>3, <2>4 DEF HeldInv
    <2>7. exit' = "running" => \A m \in Messages : m > message' => Held(m)' = 0
      BY <2>1, <2>2 DEF HeldInv
    <2> QED
      BY <2>1, <2>5, <2>6, <2>7 DEF HeldInv
  <1>6. CASE ReadData
    <2>1. /\ UNCHANGED <<up, stagingVars, copies, exit, step, message, blocked, faults, why, exec>>
          /\ down # <<>> /\ Head(down) # "OK"
      BY <1>6 DEF ReadData
    <2>2. \A m \in Messages : Held(m)' = Held(m)
      BY <2>1, HeldSame
    <2>3. ~Good
      BY <2>1 DEF Good, Decided
    <2>4. step \in Sending => message \in Messages /\ Held(message)' = Held(message)
      BY <1>2, <2>1, <2>2
    <2>5. step \in Sending => Held(message)' <= faults'
      BY <1>0, <2>1, <2>3, <2>4 DEF HeldInv
    <2>6. /\ \A m \in Messages : Held(m)' <= 1 + faults'
          /\ exit' = "running" => \A m \in Messages : m > message' => Held(m)' = 0
      BY <2>1, <2>2 DEF HeldInv
    <2>7. why = "ask" => step \in Sending
      BY DEF Control, PlaceInv, Sending
    <2>8. why' = "ask" /\ exec' = "read" /\ blocked' = "service" /\ up' = <<>> => Held(message)' < faults'
      BY <2>1, <2>4, <2>7 DEF HeldInv
    <2>9. step' = "final" => step \in Sending
      BY <2>1 DEF Sending
    <2> QED
      BY <2>1, <2>5, <2>6, <2>8, <2>9 DEF HeldInv
  <1>7. CASE SendCommand
    <2>1. /\ UNCHANGED <<stagingVars, copies, exit, step, message, faults>>
          /\ exec = "write" /\ up' = Append(up, IF why \in {"ensure", "recover"} THEN AT ELSE cmd)
      BY <1>7 DEF SendCommand
    <2>2. step # "final"
      BY <2>1 DEF Control, PlaceInv
    <2>3. /\ AT \in Units /\ AT.op \notin {"TEXT", "HEAD", "TAIL"}
          /\ cmd \in Units /\ cmd.op \notin {"TEXT", "HEAD", "TAIL"}
      <3>1. AT \in Units /\ cmd \in Units /\ AT.op = "AT"
        BY CommandNames DEF AT, Others, Control, CallOK, Unit
      <3>2. CASE step \notin {"plan", "ask"}
        BY <2>2, <3>1, <3>2 DEF Control, PlaceInv
      <3>3. CASE step = "ask"
        BY <3>1, <3>3 DEF Control, PlaceInv, Ask, Unit
      <3>4. CASE step = "plan"
        <4>1. plan # <<>> /\ cmd = Head(plan) /\ plan \in Seq([op : Ops, arg : {0}])
          BY <3>4 DEF Control, PlaceInv, ToolOK
        <4>2. cmd = plan[1] /\ 1 \in 1..Len(plan) /\ opts.run \in {"wizard", "factory"}
          BY <3>4, <4>1, Firsts DEF Control, PlaceInv
        <4>3. cmd.op \in Setups \/ cmd.op = "FACTORYRESET"
          BY <3>4, <4>1, <4>2 DEF Control, PlanInv, Unit
        <4> QED
          BY <3>1, <4>3, CommandNames DEF Setups, Others
      <3> QED
        BY <3>2, <3>3, <3>4, <3>1
    <2>4. \A m : Live(m)' => Live(m)
      BY <2>1, <2>3, Appended
    <2>5. \A m \in Messages : Held(m)' <= Held(m)
      BY <2>1, <2>4, HeldKept
    <2>6. up' # <<>>
      BY <2>1, AppendProperties DEF Device, LineOK
    <2> QED
      BY <1>0, <1>1, <1>2, <2>1, <2>2, <2>5, <2>6 DEF HeldInv
  <1>8. CASE Prompting
    <2>1. /\ UNCHANGED <<copies, exit, message, blocked>> /\ step' = "final" /\ why' = "final"
          /\ step = "ask"
      BY <1>8, PayloadLives DEF Prompting
    <2>2. /\ down' = <<>> /\ why = "ask" /\ exec = "read"
          /\ \A m : ~Live(m)
          /\ \A m : Live(m)' => m = message /\ up = <<>>
      BY <1>8, PayloadLives
    <2>3. \A m \in Messages : m # message => Held(m)' = Held(m)
      BY <2>1, <2>2, HeldFacts, HeldNext
    <2>4. /\ message \in Messages /\ Held(message) <= faults
          /\ Held(message)' = Held(message) + (IF Live(message)' THEN 1 ELSE 0)
      <3>1. message \in Messages /\ Held(message) <= faults
        BY <1>2, <2>1 DEF HeldInv, Sending
      <3>2. Held(message)' = copies'[message] + (IF Live(message)' THEN 1 ELSE 0)
        BY <2>1 DEF Held
      <3>3. Held(message) = copies[message]
        BY <2>2, <3>1, HeldFacts
      <3> QED
        BY <2>1, <3>1, <3>2, <3>3
    <2>5. \A m \in Messages : Held(m)' <= 1 + faults'
      <3> TAKE m \in Messages
      <3>1. CASE m = message
        BY <1>0, <1>1, <2>1, <2>4, <3>1
      <3>2. CASE m # message
        BY <1>0, <1>1, <2>3, <3>2 DEF HeldInv
      <3> QED
        BY <3>1, <3>2
    <2>6. exit' = "running" => \A m \in Messages : m > message' => Held(m)' = 0
      BY <2>1, <2>3, LimitsPositive DEF HeldInv, Messages, Control, ToolOK
    <2>7. ~Good' => Held(message)' <= faults'
      <3>1. CASE ~Live(message)'
        BY <1>0, <1>1, <2>4, <3>1
      <3>2. CASE Live(message)'
        <4>1. up = <<>>
          BY <2>2, <3>2
        <4>2. ~Good' => blocked = "service"
          BY <2>1, <2>2, <3>2 DEF Good
        <4>3. blocked = "service" => Held(message) < faults
          BY <2>2, <4>1 DEF HeldInv
        <4> QED
          BY <1>0, <1>1, <2>4, <3>2, <4>2, <4>3
      <3> QED
        BY <3>1, <3>2
    <2> QED
      BY <2>1, <2>5, <2>6, <2>7 DEF HeldInv
  <1>9. CASE Cutting
    <2>1. /\ copies' = copies /\ step = "ask" /\ exit = "running"
          /\ \A m : ~Live(m)
          /\ \A m : Live(m)' => m = message
      BY <1>9, CutLives DEF Cutting
    <2>2. message \in Messages /\ Held(message) <= faults
      BY <1>2, <2>1 DEF HeldInv, Sending
    <2>3. \A m \in Messages :
            Held(m)' = Held(m) \/ (m = message /\ Held(m)' = Held(m) + 1)
      <3> TAKE m \in Messages
      <3>1. copies[m] \in Nat /\ Held(m) = copies[m] /\ copies'[m] = copies[m]
        BY <2>1, HeldFacts
      <3>2. CASE Live(m)'
        BY <2>1, <3>1, <3>2, HeldNext
      <3>3. CASE ~Live(m)'
        <4>1. Held(m)' = copies'[m]
          BY <3>3, HeldNext
        <4> QED
          BY <3>1, <4>1
      <3> QED
        BY <3>2, <3>3
    <2>4. \A m \in Messages : Held(m)' <= 1 + faults'
      <3> TAKE m \in Messages
      <3>1. CASE m = message
        BY <1>0, <1>1, <2>2, <2>3, <3>1
      <3>2. CASE m # message
        BY <1>0, <1>1, <2>3, <3>2 DEF HeldInv
      <3> QED
        BY <3>1, <3>2
    <2>5. CASE exit' # "running" /\ step' = "end" /\ why' = "command"
      BY <2>4, <2>5 DEF HeldInv, Sending
    <2>6. CASE faults' = faults + 1 /\ Decides("failed")
      <3>1. message' = message /\ step' # "final" /\ exec' # "read"
        BY <2>1, <2>6 DEF Decides, Sending
      <3>2. \A m \in Messages : m > message' => Held(m)' = 0
        BY <2>1, <2>2, <2>3, <3>1, LimitsPositive DEF HeldInv, Messages
      <3>3. \A m \in Messages : m = message' => Held(m)' <= faults'
        BY <1>0, <1>1, <2>2, <2>3, <2>6, <3>1
      <3>4. Held(message)' <= faults'
        BY <2>2, <3>1, <3>3
      <3> QED
        BY <2>4, <3>1, <3>2, <3>4 DEF HeldInv
    <2> QED
      BY <1>9, <2>5, <2>6 DEF Cutting, Ends, Pause
  <1> QED
    BY <1>3, <1>4, <1>5, <1>6, <1>7, <1>8, <1>9

(* What was answered first stays the first answer.                         *)
LEMMA HeadStays ==
  ASSUME Device, exit = "running", down # <<>>, NEW lines \in Seq(Replies), Answers(lines)
  PROVE  down' # <<>> /\ Head(down') = Head(down)
  <1>1. down' = down \o lines /\ down \in Seq(Replies)
    BY DEF Answers, Device, LineOK, Replies
  <1>2. Len(down) \in Nat \ {0} /\ Head(down) = down[1] /\ 1 \in 1..Len(down)
    BY <1>1, Firsts
  <1>3. down' \in Seq(Replies) /\ Len(down') = Len(down) + Len(lines) /\ Len(lines) \in Nat /\ down'[1] = down[1]
    BY <1>1, <1>2, Queued
  <1>4. down' # <<>>
    BY <1>2, <1>3, LineEnds
  <1> QED
    BY <1>1, <1>2, <1>3, <1>4, Firsts

LEMMA DecidedStays ==
  ASSUME Device, exit = "running", Decided, NEW lines \in Seq(Replies), Answers(lines)
  PROVE  Decided'
  BY HeadStays DEF Decided

LEMMA FirstAnswer ==
  ASSUME exit = "running", down = <<>>, NEW x \in Replies, Answers(<<x>>)
  PROVE  down' = <<x>> /\ down' # <<>> /\ Head(down') = x
  BY DEF Answers

LEMMA FirstOk ==
  ASSUME exit = "running", down = <<>>, NEW lines \in Oks, Answers(lines)
  PROVE  down' # <<>> /\ Head(down') = "OK"
  <1>1. lines \in Seq(Replies) /\ lines # <<>> /\ Head(lines) = "OK"
    BY OkLines
  <1>2. down' = lines
    BY <1>1, ConcatEmptySeq DEF Answers
  <1> QED
    BY <1>1, <1>2

(* A payload that is accepted for its message was the one of the line.     *)
LEMMA Counted ==
  ASSUME Control, Device, Device', NEW genuine \in BOOLEAN, NEW n, Accept(genuine, n),
         genuine => Live(n), \A m \in Messages : ~Live(m)'
  PROVE  \A m \in Messages : Held(m)' <= Held(m)
  <1> TAKE m \in Messages
  <1>1. copies'[m] = IF genuine /\ m = n THEN copies[m] + 1 ELSE copies[m]
    BY DEF Accept, Device, AirOK
  <1> QED
    BY <1>1, HeldFacts, HeldNext

(* Serving a line turns a live payload into a copy, or throws it away: the *)
(* sum does not grow.                                                      *)
LEMMA HeldServed ==
  ASSUME Control, Device, HeldInv, Control', Device', Serves
  PROVE  /\ \A m \in Messages : Held(m)' <= Held(m)
         /\ step = "final" /\ Good => Good' \/ Held(message)' < Held(message)
         /\ why = "ask" => blocked' = "no"
  <1>0. /\ up # <<>> /\ blocked = "no" /\ Head(up) = up[1] /\ 1 \in 1..Len(up) /\ Head(up) \in Sent
        /\ UNCHANGED hostVars /\ faults' = faults
    BY ServedLine
  <1>1. step = "final" => message \in Messages /\ exit = "running"
    BY DEF Control, PlaceInv, Sending, ToolOK
  <1>2. why = "ask" => blocked' = "no"
    <2>1. why = "ask" => opts.run = "message"
      BY DEF Control, PlaceInv, Sending
    <2>2. ServeRestart => opts.run # "message"
      BY <1>0 DEF ServeRestart, Next1, Sent
    <2>3. ServeRestart \/ blocked' = blocked
      BY DEF Serves, ServeJunk, ServeRefused, ServeCommand, ServeAsk, ServePiece, ServeText, ServeData
    <2> QED
      BY <1>0, <2>1, <2>2, <2>3
  <1>3. CASE console = "IDLE"
    <2>1. console' = "IDLE" \/ up' = <<>>
      BY <1>3 DEF Serves, Serving, ServeJunk, ServeRefused, ServeCommand, ServeAsk, ServeRestart, ServePiece, ServeText, ServeData
    <2>2. \A m : ~Live(m) /\ ~Live(m)'
      BY <1>3, <2>1, Unlived, UnlivedNext
    <2>3. UNCHANGED copies
      BY <1>3 DEF Serves, Serving, ServeJunk, ServeRefused, ServeCommand, ServeAsk, ServeRestart, ServePiece, ServeText, ServeData
    <2>4. \A m \in Messages : Held(m)' <= Held(m)
      BY <2>2, <2>3, HeldKept
    <2>5. \/ UNCHANGED down
          \/ \E lines \in Seq(Replies) : Answers(lines)
      BY <1>3, ReplyLines
      DEF Serves, Serving, ServeJunk, ServeRefused, ServeCommand, ServeAsk, ServeRestart, ServePiece, ServeText, ServeData, Replies
    <2>6. step = "final" /\ Good => Good'
      <3> SUFFICES ASSUME step = "final", Good PROVE Good'
        OBVIOUS
      <3>1. Decided
        BY <2>2 DEF Good
      <3>2. Decided'
        BY <1>1, <2>5, <3>1, DecidedStays DEF Decided
      <3> QED
        BY <3>2 DEF Good
    <2> QED
      BY <1>2, <2>4, <2>6
  <1>4. CASE ServeText \/ (ServeData /\ Completes)
    <2>1. console' = "IDLE" /\ blocked' = "no"
      BY <1>0, <1>4 DEF ServeText, ServeData, Completes, ResetState
    <2>2. \A m : ~Live(m)'
      BY <2>1, UnlivedNext
    <2>3. \/ Answers(<<"ERROR">>) /\ UNCHANGED airVars
          \/ /\ \E lines \in Oks : Answers(lines)
             /\ \E genuine \in BOOLEAN : \E n : Accept(genuine, n) /\ (genuine => Live(n))
      <3>1. CASE ServeText
        <4>1. console = "WAITING_FOR_MSG" /\ up # <<>>
          BY <3>1 DEF ServeText, Serving
        <4> DEFINE genuine == taken = <<>> /\ Head(up) = Unit("TEXT", flex_capcode)
        <4>2. genuine => Live(flex_capcode)
          BY <4>1 DEF Live
        <4>3. CASE Room
          <5>1. Answers(<<"OK">>) /\ Accept(genuine, flex_capcode) /\ genuine \in BOOLEAN
            BY <3>1, <4>3 DEF ServeText, Next1
          <5> HIDE DEF genuine
          <5> QED
            BY <4>2, <5>1 DEF Oks
        <4>4. CASE ~Room
          BY <3>1, <4>4 DEF ServeText
        <4> QED
          BY <4>3, <4>4
      <3>2. CASE ServeData /\ Completes
        <4>1. console = "WAITING_FOR_DATA" /\ up # <<>> /\ taken # <<>>
          BY <3>2, DataServed DEF Completes
        <4>2. /\ \E lines \in Oks : Answers(lines)
              /\ Accept(Head(taken) = Unit("HEAD", Head(up).arg) /\ Head(up).op = "TAIL", Head(up).arg)
          BY <3>2, <4>1 DEF Completes, Genuine, Next1
        <4>3. ASSUME Head(taken) = Unit("HEAD", Head(up).arg), Head(up).op = "TAIL"
              PROVE  Live(Head(up).arg)
          <5>1. taken = << Head(taken) >>
            <6>1. taken \in Seq(Units) /\ Len(taken) <= 1
              BY DEF Device, ConsoleOK
            <6>2. Len(taken) \in Nat \ {0} /\ Head(taken) = taken[1]
              BY <4>1, <6>1, Firsts
            <6> DEFINE n == Len(taken)
            <6>3. n \in Nat \ {0} /\ n <= 1
              BY <6>1, <6>2
            <6> HIDE DEF n
            <6>4. n = 1
              BY <6>3
            <6> QED
              BY <6>1, <6>2, <6>4 DEF n
          <5>2. Head(up) = Unit("TAIL", Head(up).arg)
            BY <1>0, <4>3, SentUnits DEF Units, Unit
          <5> QED
            BY <4>1, <4>3, <5>1, <5>2 DEF Live
        <4> DEFINE genuine == Head(taken) = Unit("HEAD", Head(up).arg) /\ Head(up).op = "TAIL"
        <4>4. genuine \in BOOLEAN /\ Accept(genuine, Head(up).arg) /\ (genuine => Live(Head(up).arg))
          BY <4>2, <4>3
        <4> HIDE DEF genuine
        <4> QED
          BY <4>2, <4>4
      <3> QED
        BY <1>4, <3>1, <3>2
    <2>4. CASE Answers(<<"ERROR">>) /\ UNCHANGED airVars
      <3>1. \A m \in Messages : Held(m)' <= Held(m)
        BY <2>2, <2>4, HeldKept
      <3>2. ASSUME step = "final", Good
            PROVE  Good' \/ Held(message)' < Held(message)
        <4>1. CASE Decided
          <5>1. Decided'
            BY <1>1, <2>4, <3>2, <4>1, ReplyLines, DecidedStays DEF Replies
          <5> QED
            BY <5>1 DEF Good
        <4>2. CASE Live(message)
          <5>1. message \in Messages /\ copies' = copies
            BY <1>1, <2>4, <3>2
          <5>2. Held(message) = copies[message] + 1 /\ copies[message] \in Nat
            BY <4>2, <5>1, HeldFacts
          <5>3. Held(message)' = copies[message]
            <6>1. Held(message)' = copies'[message] + (IF Live(message)' THEN 1 ELSE 0)
              BY <1>0 DEF Held
            <6>2. ~Live(message)'
              BY <2>2
            <6> QED
              BY <5>1, <5>2, <6>1, <6>2
          <5> QED
            BY <5>2, <5>3
        <4> QED
          BY <3>2, <4>1, <4>2 DEF Good
      <3> QED
        BY <1>2, <3>1, <3>2
    <2>5. CASE /\ \E lines \in Oks : Answers(lines)
               /\ \E genuine \in BOOLEAN : \E n : Accept(genuine, n) /\ (genuine => Live(n))
      <3>1. \A m \in Messages : Held(m)' <= Held(m)
        BY <2>2, <2>5, Counted
      <3>2. ASSUME step = "final", Good
            PROVE  Good'
        <4>1. CASE Decided
          <5>1. Decided'
            BY <1>1, <2>5, <3>2, <4>1, OkLines, DecidedStays
          <5> QED
            BY <5>1 DEF Good
        <4>2. CASE down = <<>>
          BY <1>1, <2>5, <3>2, <4>2, FirstOk DEF Good, Decided
        <4> QED
          BY <3>2, <4>1, <4>2 DEF Good
      <3> QED
        BY <1>2, <3>1, <3>2
    <2> QED
      BY <2>3, <2>4, <2>5
  <1>5. CASE ServeData /\ taken = <<>> /\ Swallows(Head(up))
    <2>1. /\ console = "WAITING_FOR_DATA" /\ console' = console /\ taken = <<>> /\ taken' = << Head(up) >>
          /\ up' = Tail(up) /\ UNCHANGED <<copies, down, blocked>> /\ flex_capcode' = flex_capcode
      BY <1>5, DataServed DEF Swallows
    <2>2. \A m : Live(m)' <=> Live(m)
      <3>1. /\ Len(up) \in Nat \ {0} /\ Tail(up) \in Seq(Units) /\ Len(Tail(up)) = Len(up) - 1
            /\ \A j \in 1..Len(Tail(up)) : Tail(up)[j] = up[j + 1]
        BY <1>0, LineEnds DEF Device, LineOK
      <3>2. up' # <<>> <=> Len(up) > 1
        BY <2>1, <3>1, LineEnds
      <3>3. Len(up) > 1 => up'[1] = up[2] /\ Head(up') = up'[1]
        BY <2>1, <3>1, <3>2, Firsts
      <3>4. taken' # <<>> /\ \A m : taken' = << Unit("HEAD", m) >> <=> up[1] = Unit("HEAD", m)
        BY <1>0, <2>1, Singles
      <3>5. \A m : Live(m) <=> Len(up) > 1 /\ up[1] = Unit("HEAD", m) /\ up[2] = Unit("TAIL", m)
        BY <2>1 DEF Live
      <3>6. \A m : Live(m)' <=> taken' = << Unit("HEAD", m) >> /\ up' # <<>> /\ Head(up') = Unit("TAIL", m)
        BY <2>1, <3>4 DEF Live
      <3> QED
        BY <3>2, <3>3, <3>4, <3>5, <3>6
    <2>3. \A m \in Messages : Held(m)' <= Held(m)
      BY <2>1, <2>2, HeldKept
    <2>4. Good' <=> Good
      BY <1>0, <2>1, <2>2 DEF Good, Decided
    <2> QED
      BY <1>2, <2>3, <2>4
  <1>7. CASE \/ ServePiece
             \/ ServeData /\ taken # <<>> /\ Head(up).op # "TAIL" /\ Swallows(Unit(Head(up).op, 0))
    <2>1. UNCHANGED <<copies, down, blocked>>
      BY <1>7, DataServed DEF ServePiece, Swallows
    <2>2. \A m \in Messages : ~Live(m) /\ ~Live(m)'
      <3> TAKE m \in Messages
      <3>1. CASE ServePiece
        <4>1. /\ console = "WAITING_FOR_MSG" /\ console' = console /\ Head(up).op = "PIECE"
              /\ taken' = << Head(up) >> /\ taken' # <<>>
          BY <3>1 DEF ServePiece, Serving, Next1
        <4> QED
          BY <4>1 DEF Live, Unit
      <3>2. CASE ServeData /\ taken # <<>> /\ Head(up).op # "TAIL" /\ Swallows(Unit(Head(up).op, 0))
        <4>1. /\ console = "WAITING_FOR_DATA" /\ console' = console /\ taken # <<>> /\ Head(up).op # "TAIL"
              /\ taken' = << Unit(Head(up).op, 0) >> /\ taken' # <<>>
          BY <3>2, DataServed DEF Swallows
        <4>2. << Unit(Head(up).op, 0) >> # << Unit("HEAD", m) >>
          BY LimitsPositive DEF Unit, Messages
        <4> QED
          BY <4>1, <4>2 DEF Live, Unit
      <3> QED
        BY <1>7, <3>1, <3>2
    <2>3. \A m \in Messages : Held(m)' <= Held(m)
      BY <2>1, <2>2, HeldKept
    <2>4. step = "final" /\ Good => Good'
      BY <1>1, <2>1, <2>2 DEF Good, Decided
    <2> QED
      BY <1>2, <2>3, <2>4
  <1>6. console = "IDLE" \/ ServePiece \/ ServeText \/ ServeData
    BY DEF Serves, Serving, ServeJunk, ServeRefused, ServeCommand, ServeAsk, ServeRestart
  <1> QED
    BY <1>3, <1>4, <1>5, <1>6, <1>7, DataServed

(* Time makes nothing live; the service that starts is a fault.            *)
LEMMA HeldMoved ==
  ASSUME Control, Device, HeldInv, Control', Device', Moves, UNCHANGED <<opts, hostVars, report, late>>
  PROVE  /\ \A m \in Messages : Held(m)' <= Held(m)
         /\ \/ faults' = faults + 1
            \/ /\ step = "final" /\ Good => Good'
               /\ faults' = faults /\ blocked' # "service"
  <1>1. step = "final" => message \in Messages /\ exit = "running"
    BY DEF Control, PlaceInv, Sending, ToolOK
  <1>2. CASE ServiceBlocks
    <2>1. faults' = faults + 1 /\ UNCHANGED <<up, stagingVars, copies>>
      BY <1>2 DEF ServiceBlocks
    <2> QED
      BY <2>1, HeldSame, HeldFacts
  <1>3. CASE StagingExpires \/ ServiceEnds
    <2>1. /\ faults' = faults /\ blocked' = "no" /\ UNCHANGED <<up, copies>>
          /\ \/ UNCHANGED <<down, stagingVars>>
             \/ console' = "IDLE" /\ Answers(<<"ERROR">>)
          /\ blocked = "service" \/ up = <<>>
      BY <1>3 DEF StagingExpires, ServiceEnds, ResetState
    <2>2. \A m : Live(m)' => Live(m)
      BY <2>1, SameLive, UnlivedNext
    <2>3. \A m \in Messages : Held(m)' <= Held(m)
      BY <2>1, <2>2, HeldKept
    <2>4. ASSUME step = "final", Good
          PROVE  Good'
      <3>1. Decided
        BY <2>1, <2>4, Unlived DEF Good
      <3>2. Decided'
        BY <1>1, <2>1, <2>4, <3>1, ReplyLines, DecidedStays DEF Decided, Replies
      <3> QED
        BY <3>2 DEF Good
    <2> QED
      BY <2>1, <2>3, <2>4
  <1>4. CASE TxStarts \/ TxEnds
    <2>1. /\ faults' = faults /\ UNCHANGED <<up, copies, down>> /\ blocked' # "service"
          /\ console = "IDLE" /\ console' = "IDLE"
      BY <1>4 DEF TxStarts, TxEnds, Device, DeviceInv
    <2>2. \A m : ~Live(m) /\ ~Live(m)'
      BY <2>1, Unlived, UnlivedNext
    <2>3. \A m \in Messages : Held(m)' <= Held(m)
      BY <2>1, <2>2, HeldKept
    <2>4. step = "final" /\ Good => Good'
      BY <2>1, <2>2 DEF Good, Decided
    <2> QED
      BY <2>1, <2>3, <2>4
  <1> QED
    BY <1>2, <1>3, <1>4 DEF Moves

(* Whatever happens at the device, a copy has its cause.                   *)
LEMMA HeldOnDevice ==
  ASSUME Control, Device, HeldInv, Control', Device',
         \/ Serves /\ KeepHost
         \/ Moves /\ UNCHANGED <<opts, hostVars, report, late>>
  PROVE  HeldInv'
  <1>0. /\ UNCHANGED hostVars
        /\ \A m \in Messages : Held(m) \in Nat /\ Held(m)' \in Nat /\ Held(m)' <= Held(m)
    BY HeldFacts, HeldNext, HeldServed, HeldMoved
  <1>1. /\ faults \in Nat /\ faults' \in Nat
        /\ faults' = faults \/ faults' = faults + 1
        /\ step \in Sending => message \in Messages
        /\ why = "ask" => step \in Sending \ {"final"}
    BY LimitsPositive, HeldMoved DEF Control, PlaceInv, Sending, Device, LateOK
  <1>2. \A m \in Messages : Held(m)' <= 1 + faults'
    BY <1>0, <1>1 DEF HeldInv
  <1>3. exit' = "running" => \A m \in Messages : m > message' => Held(m)' = 0
    BY <1>0 DEF HeldInv
  <1>4. step \in Sending => Held(message)' <= Held(message) /\ Held(message)' \in Nat /\ Held(message) \in Nat
    BY <1>0, <1>1
  <1>5. step \in Sending \ {"final"} => Held(message)' <= faults'
    BY <1>1, <1>4 DEF HeldInv
  <1>6. step = "final" /\ ~Good' => Held(message)' <= faults'
    <2> SUFFICES ASSUME step = "final", ~Good'
                 PROVE  Held(message)' <= faults'
      OBVIOUS
    <2>1. message \in Messages /\ Held(message) <= 1 + faults
      BY <1>1 DEF HeldInv, Sending
    <2>2. \/ faults' = faults + 1
          \/ ~Good /\ faults' = faults
          \/ Held(message)' < Held(message) /\ faults' = faults
      BY <1>1, HeldServed, HeldMoved
    <2>3. CASE faults' = faults + 1
      BY <1>0, <1>1, <2>1, <2>3
    <2>4. CASE ~Good /\ faults' = faults
      BY <1>0, <1>1, <2>1, <2>4 DEF HeldInv
    <2>5. CASE Held(message)' < Held(message) /\ faults' = faults
      BY <1>0, <1>1, <2>1, <2>5
    <2> QED
      BY <2>2, <2>3, <2>4, <2>5
  <1>7. why = "ask" /\ exec' = "read" /\ blocked' = "service" /\ up' = <<>> => Held(message)' < faults'
    <2> SUFFICES ASSUME why = "ask", blocked' = "service"
                 PROVE  Held(message)' < faults'
      OBVIOUS
    <2>1. faults' = faults + 1
      BY HeldServed, HeldMoved
    <2>2. Held(message) <= faults
      BY <1>1 DEF HeldInv
    <2> QED
      BY <1>1, <1>4, <2>1, <2>2
  <1> QED
    BY <1>0, <1>2, <1>3, <1>5, <1>6, <1>7 DEF HeldInv

(* Every step keeps the bound on the copies.                               *)
LEMMA HeldStays ==
  ASSUME Control, Device, Success, HeldInv, Control', Device', [Next]_vars
  PROVE  HeldInv'
  <1>1. CASE UNCHANGED vars
    <2>1. \A m \in Messages : Held(m)' = Held(m)
      BY <1>1, HeldSame DEF vars
    <2>2. Good' <=> Good
      BY <1>1 DEF vars, Good, Decided, Live
    <2>3. Held(message)' = Held(message)
      BY <1>1 DEF vars, Held, Live
    <2> QED
      BY <1>1, <2>1, <2>2, <2>3 DEF vars, HeldInv
  <1> QED
    BY <1>1, StepKinds, HeldOnDecision, HeldOnTool, HeldOnDevice

-----------------------------------------------------------------------------
(* In time.                                                                *)
LEMMA Punctual ==
  ASSUME NEW result, ReadResult(result), ~late'
  PROVE  ~late /\ up = <<>> /\ result # "INVALID" /\ exec = "read"
  BY DEF ReadResult

(* Where OK can be read, nothing else is read in time.                     *)
LEMMA OneResult ==
  ASSUME ReadResult("OK"), NEW result \in Results, ReadResult(result), ~late'
  PROVE  result = "OK"
  <1>1. down # <<>> /\ Head(down) = "OK"
    BY DEF ReadResult
  <1>2. result # "INVALID" /\ result # "ERROR"
    BY <1>1, Punctual DEF ReadResult
  <1> QED
    BY <1>1, <1>2 DEF ReadResult, Silent, Results

(* With nothing live, the messages held are the copies.                    *)
LEMMA HeldUnlived ==
  ASSUME Device, up = <<>> \/ console = "IDLE"
  PROVE  \A m \in Messages : Held(m) = copies[m]
  BY HeldFacts, Unlived

(* Commands of main are not what a message is sent with.                   *)
LEMMA PlainCommands ==
  ASSUME Control, step \notin {"ask", "final"}
  PROVE  cmd.op \notin Payloads
  <1>1. CASE step # "plan"
    BY <1>1 DEF Control, PlaceInv, Payloads
  <1>2. CASE step = "plan"
    <2>1. plan # <<>> /\ cmd = Head(plan) /\ plan \in Seq([op : Ops, arg : {0}])
      BY <1>2 DEF Control, PlaceInv, ToolOK
    <2>2. cmd = plan[1] /\ 1 \in 1..Len(plan) /\ opts.run \in {"wizard", "factory"}
      BY <1>2, <2>1, Firsts DEF Control, PlaceInv
    <2>3. cmd.op \in Setups \/ cmd.op = "FACTORYRESET"
      BY <1>2, <2>1, <2>2 DEF Control, PlanInv, Unit
    <2> QED
      BY <2>3, CommandNames DEF Setups, Others, Payloads
  <1> QED
    BY <1>1, <1>2

(* What touches neither line nor staging nor reports keeps the device's    *)
(* part.                                                                   *)
LEMMA InTimeSame ==
  ASSUME InTime, UNCHANGED <<up, stagingVars, airVars, report>>
  PROVE  InTime'
  BY DEF InTime, Held, Live

(* What a decision finds when it is taken in time.                         *)
LEMMA DecidedInTime ==
  ASSUME Control, Device, HeldInv, TimeInv, Decision, ~late'
  PROVE  /\ ~late /\ exit = "running" /\ up = <<>> /\ console = "IDLE" /\ InTime
         /\ step \in Sending \ {"final"} => Held(message) = 0
         /\ why = "final" /\ ReadResult("OK") => copies[message] = 1
         /\ why = "final" /\ ~ReadResult("OK") => Held(message) = 0
  <1>1. \/ Silently
        \/ Unwritten /\ late' = late
        \/ \E result \in Results : ReadResult(result)
    BY DEF Decision, Results
  <1>2. ~late /\ exit = "running" /\ (exec \in {"none", "write"} \/ (exec = "read" /\ up = <<>>))
    <2>1. CASE Silently \/ (Unwritten /\ late' = late)
      BY <2>1 DEF Silently, Unwritten, Control, PlaceInv, ToolOK
    <2>2. CASE \E result \in Results : ReadResult(result)
      <3>1. ~late /\ up = <<>> /\ exec = "read"
        BY <2>2, Punctual
      <3> QED
        BY <3>1 DEF Control, PlaceInv, ToolOK
    <2> QED
      BY <1>1, <2>1, <2>2
  <1>3. InTime /\ ToolInTime
    BY <1>2 DEF TimeInv
  <1>4. up = <<>>
    BY <1>2, <1>3 DEF ToolInTime
  <1>5. step \in Sending \ {"final"} => Held(message) = 0
    BY <1>3 DEF ToolInTime
  <1>6. CASE exec \in {"none", "write"}
    <2>1. why # "final" /\ console = "IDLE"
      BY <1>3, <1>6 DEF ToolInTime, Control, PlaceInv
    <2> QED
      BY <1>2, <1>3, <1>4, <1>5, <2>1
  <1>7. CASE exec = "read" /\ why \notin {"ask", "final"}
    <2>1. console = "IDLE"
      BY <1>3, <1>7 DEF ToolInTime
    <2> QED
      BY <1>2, <1>3, <1>4, <1>5, <1>7, <2>1
  <1>8. CASE exec = "read" /\ why = "ask"
    <2>1. PICK result \in Results : ReadResult(result) /\ ~Prompted(result)
      BY <1>8 DEF Decision, Silently, Unwritten
    <2>2. result # "INVALID"
      BY <2>1, Punctual
    <2>3. \/ result \in {"OK", "ERROR"} /\ down # <<>> /\ Head(down) = result
          \/ down = <<>> /\ got # "ready"
      BY <2>1, <2>2 DEF ReadResult, Prompted, Silent
    <2>4. down # <<"READY">>
      <3>1. Head(<<"READY">>) = "READY"
        BY Singles
      <3> QED
        BY <2>3, <3>1, Singles
    <2>5. console = "IDLE"
      BY <1>3, <1>4, <1>8, <2>3, <2>4 DEF ToolInTime
    <2> QED
      BY <1>2, <1>3, <1>4, <1>5, <1>8, <2>5
  <1>9. CASE exec = "read" /\ why = "final"
    <2>1. Answered /\ console = "IDLE" /\ copies[message] = (IF Head(down) = "OK" THEN 1 ELSE 0)
      BY <1>3, <1>4, <1>9, Unlived DEF ToolInTime
    <2>2. PICK result \in Results : ReadResult(result)
      BY <1>1, <1>9 DEF Silently, Unwritten
    <2>3. result \in {"OK", "ERROR"} /\ Head(down) = result
      BY <2>1, <2>2, Punctual DEF ReadResult, Answered, Silent, Results
    <2>4. message \in Messages /\ Held(message) = copies[message]
      BY <1>4, <1>9, HeldUnlived DEF Control, PlaceInv, Sending
    <2>5. ReadResult("OK") => Head(down) = "OK"
      BY DEF ReadResult
    <2>6. result = "OK" => ReadResult("OK")
      BY <2>2
    <2> QED
      BY <1>2, <1>3, <1>4, <1>5, <1>9, <2>1, <2>3, <2>4, <2>5, <2>6
  <1> QED
    BY <1>2, <1>6, <1>7, <1>8, <1>9 DEF Control, CallOK, PlaceInv

(* A decision taken in time finds the line empty, and reports what the     *)
(* device has.                                                             *)
LEMMA TimeOnDecision ==
  ASSUME Control, Device, HeldInv, TimeInv, Control', Device', HeldInv', Decision
  PROVE  TimeInv'
  <1> SUFFICES ASSUME ~late' PROVE InTime' /\ (exit' = "running" => ToolInTime')
    BY DEF TimeInv
  <1>1. /\ exit = "running" /\ up = <<>> /\ console = "IDLE" /\ InTime
        /\ step \in Sending \ {"final"} => Held(message) = 0
        /\ why = "final" /\ ReadResult("OK") => copies[message] = 1
        /\ why = "final" /\ ~ReadResult("OK") => Held(message) = 0
    BY DecidedInTime
  <1>2. /\ UNCHANGED <<up, stagingVars, airVars>> /\ step' # "final" /\ exec' \notin {"write", "read"}
        /\ \A m \in Messages : Held(m) = copies[m] /\ Held(m)' = Held(m)
    BY <1>1, HeldUnlived, HeldSame DEF Decision, Decides
  <1>3. why' # "final"
    BY <1>2 DEF Control, PlaceInv
  <1>4. step = "final" <=> why = "final"
    BY DEF Control, PlaceInv
  <1>5. step' \in Sending => Held(message)' = 0
    <2> SUFFICES ASSUME step' \in Sending PROVE Held(message)' = 0
      OBVIOUS
    <2>1. message' \in Messages
      BY DEF Control, PlaceInv
    <2>2. CASE message' = message + 1
      <3>1. message' > message
        BY <2>2, LimitsPositive DEF Control, ToolOK
      <3> QED
        BY <1>1, <1>2, <2>1, <3>1 DEF HeldInv
    <2>3. CASE message' = message /\ step \in Sending /\ step # "final"
      BY <1>1, <1>2, <2>1, <2>3
    <2>4. CASE message' = message /\ step = "final"
      <3>1. ~ReadResult("OK") \/ step' \notin Sending
        BY <1>4, <2>4, OneResult DEF Decision, Silently, Unwritten, Control, PlaceInv
      <3> QED
        BY <1>1, <1>2, <1>4, <2>1, <2>4, <3>1
    <2> QED
      BY <2>2, <2>3, <2>4 DEF Decision, Decides
  <1>6. ToolInTime'
    BY <1>1, <1>2, <1>3, <1>5 DEF ToolInTime
  <1>7. InTime'
    <2>1. /\ report \in [Messages -> {"none", "sent", "failed"}]
          /\ \A m \in Messages : /\ Held(m) <= 1
                                 /\ report[m] = "sent" => copies[m] = 1
                                 /\ report[m] = "failed" => Held(m) = 0
      BY <1>1 DEF InTime, Control, ToolOK
    <2>2. \A m \in Messages : /\ report'[m] = "sent" => copies[m] = 1
                              /\ report'[m] = "failed" => Held(m) = 0
      <3>1. CASE report' = report
        BY <2>1, <3>1
      <3>2. CASE /\ report' = [report EXCEPT ![message] = "failed"]
                 /\ step \in Sending /\ ~(why = "final" /\ ReadResult("OK"))
        <4>1. Held(message) = 0
          BY <1>1, <1>4, <3>2
        <4> QED
          BY <2>1, <3>2, <4>1
      <3>3. CASE /\ report' = [report EXCEPT ![message] = "sent"]
                 /\ why = "final" /\ ReadResult("OK")
        BY <1>1, <2>1, <3>3
      <3>4. \/ report' = report
            \/ /\ report' = [report EXCEPT ![message] = "failed"]
               /\ step \in Sending /\ ~(why = "final" /\ ReadResult("OK"))
            \/ /\ report' = [report EXCEPT ![message] = "sent"]
               /\ why = "final" /\ ReadResult("OK")
        BY <1>4, OneResult DEF Decision, Decides, Silently, Unwritten, ReadResult, Control, PlaceInv
      <3> QED
        BY <3>1, <3>2, <3>3, <3>4
    <2>3. \A m \in Messages : copies'[m] = copies[m] /\ Held(m)' = Held(m)
      BY <1>2
    <2> QED
      BY <1>1, <1>2, <2>1, <2>2, <2>3, EmptySeq DEF InTime
  <1> QED
    BY <1>6, <1>7

(* The tool's other steps in time, one case for each kind of step and      *)
(* wait.                                                                   *)
LEMMA TimeOnTool ==
  ASSUME Control, Device, Success, HeldInv, TimeInv, Control', Device', HeldInv',
         \/ Repetition \/ Skipping \/ Prompting \/ Cutting \/ Waiting
         \/ FlushBuffers \/ SendCommand \/ ReadData \/ Stopped
  PROVE  TimeInv'
  <1> SUFFICES ASSUME ~late' PROVE InTime' /\ (exit' = "running" => ToolInTime')
    BY DEF TimeInv
  <1>0. ~late
    <2>1. late' = late \/ late' = TRUE \/ \E result : ReadResult(result)
      BY DEF Repetition, Skipping, Prompting, Cutting, Waiting, FlushBuffers, SendCommand, ReadData, Stopped
    <2> QED
      BY <2>1, Punctual
  <1>1. InTime /\ (exit = "running" => ToolInTime)
    BY <1>0 DEF TimeInv
  <1>9. ~Cutting
    BY DEF Cutting
  <1>2. CASE Stopped
    <2>1. UNCHANGED <<up, stagingVars, airVars, report>> /\ exit' # "running"
      BY <1>2 DEF Stopped, Interrupted, Ends, Pause
    <2> QED
      BY <1>1, <2>1, InTimeSame
  <1>3. CASE Repetition
    <2>1. /\ UNCHANGED <<up, stagingVars, airVars, report, exit, step, message>> /\ exec' = "flush"
          /\ exec \in {"ensure", "write", "read"} /\ step \notin {"ask", "final"} /\ why' # "final"
      BY <1>3 DEF Repetition, Unwritten, ReadResult, Control, PlaceInv
    <2>2. exit = "running" => ToolInTime /\ up = <<>> /\ why \notin {"ask", "final"}
      <3>1. CASE exec \in {"ensure", "write"}
        BY <1>1, <2>1, <3>1 DEF ToolInTime, Control, PlaceInv
      <3>2. CASE exec = "read"
        <4>1. \E result : ReadResult(result)
          BY <1>3, <3>2 DEF Repetition, Unwritten
        <4> QED
          BY <1>1, <2>1, <4>1, Punctual DEF Control, PlaceInv
      <3> QED
        BY <2>1, <3>1, <3>2
    <2>3. exit = "running" => console = "IDLE"
      BY <2>1, <2>2 DEF ToolInTime
    <2>4. message \in Messages => Held(message)' = Held(message)
      BY <2>1, HeldSame
    <2>5. step \in Sending => message \in Messages
      BY DEF Control, PlaceInv
    <2>6. exit' = "running" => ToolInTime'
      BY <2>1, <2>2, <2>3, <2>4, <2>5 DEF ToolInTime
    <2> QED
      BY <1>1, <2>1, <2>6, InTimeSame
  <1>4. CASE FlushBuffers
    <2>1. /\ UNCHANGED <<up, stagingVars, airVars, report, exit, step, message, why>> /\ exec' = "write"
          /\ exec = "flush" /\ why # "final" /\ down' = <<>>
      BY <1>4 DEF FlushBuffers, Control, PlaceInv
    <2>2. message \in Messages => Held(message)' = Held(message)
      BY <2>1, HeldSame
    <2>3. step \in Sending => message \in Messages
      BY DEF Control, PlaceInv
    <2>4. exit' = "running" => ToolInTime'
      BY <1>1, <2>1, <2>2, <2>3 DEF ToolInTime
    <2> QED
      BY <1>1, <2>1, <2>4, InTimeSame
  <1>10. CASE Skipping
    <2>1. /\ UNCHANGED <<up, down, stagingVars, airVars, report, exit, step, message, why, cmd>>
          /\ exec' = "read" /\ exec = "write" /\ why = "recover"
      BY <1>10 DEF Skipping, Unwritten
    <2>2. message \in Messages => Held(message)' = Held(message)
      BY <2>1, HeldSame
    <2>3. step \in Sending => message \in Messages
      BY DEF Control, PlaceInv
    <2>4. exit' = "running" => ToolInTime'
      BY <1>1, <2>1, <2>2, <2>3 DEF ToolInTime
    <2> QED
      BY <1>1, <2>1, <2>4, InTimeSame
  <1>5. CASE SendCommand
    <2>1. /\ UNCHANGED <<down, stagingVars, copies, strange, report, exit, step, message, why, cmd>>
          /\ exec' = "read" /\ exec = "write" /\ why # "final" /\ got' = "none"
          /\ up' = Append(up, IF why \in {"ensure", "recover"} THEN AT ELSE cmd)
          /\ exit = "running" /\ why \in {"command", "ensure", "recover", "ask"}
      BY <1>5 DEF SendCommand, Control, PlaceInv, ToolOK, CallOK
    <2>2. up = <<>> /\ down = <<>> /\ console = "IDLE"
      BY <1>1, <2>1 DEF ToolInTime
    <2>3. up' = << IF why \in {"ensure", "recover"} THEN AT ELSE cmd >>
      BY <2>1, <2>2
    <2>4. Len(up') = 1
      BY <2>3
    <2>5. \A m \in Messages : Held(m) = copies[m] /\ Held(m)' = copies'[m]
      BY <2>1, <2>2, HeldUnlived, UnlivedNext, HeldNext
    <2>6. InTime'
      <3>1. ~strange' /\ console' = "IDLE"
        BY <1>1, <2>1, <2>2 DEF InTime
      <3>2. \A m \in Messages : /\ Held(m)' <= 1
                                /\ report'[m] = "sent" => copies'[m] = 1
                                /\ report'[m] = "failed" => Held(m)' = 0
        BY <1>1, <2>1, <2>5 DEF InTime
      <3> QED
        BY <2>4, <3>1, <3>2 DEF InTime
    <2>7. step \in Sending => message \in Messages /\ Held(message)' = Held(message)
      BY <2>1, <2>5 DEF Control, PlaceInv
    <2>8. ToolInTime'
      <3>1. CASE why = "ask"
        <4>1. step = "ask" /\ up' = << cmd >>
          BY <2>3, <3>1 DEF Control, PlaceInv
        <4> QED
          BY <1>1, <2>1, <2>2, <2>7, <3>1, <4>1 DEF ToolInTime, Sending
      <3>2. CASE why # "ask"
        <4>1. up' = << IF why = "command" THEN cmd ELSE AT >>
          BY <2>1, <2>3, <3>2
        <4> QED
          BY <1>1, <2>1, <2>2, <2>7, <3>2, <4>1 DEF ToolInTime
      <3> QED
        BY <3>1, <3>2
    <2> QED
      BY <2>6, <2>8
  <1>6. CASE ReadData
    <2>1. /\ UNCHANGED <<up, stagingVars, airVars, report, exit, step, message, why, cmd, exec>>
          /\ exec = "read" /\ down # <<>> /\ Head(down) \in {"DATA", "READY"} /\ down' = Tail(down)
          /\ got' = (IF Head(down) = "READY" \/ got = "ready" THEN "ready" ELSE "data")
          /\ exit = "running"
      BY <1>6 DEF ReadData, Control, PlaceInv, ToolOK
    <2>2. \A a : (Has(a) => Head(down) = a \/ Has(a)')
      BY <2>1, Heard DEF Device, LineOK, Replies
    <2>3. step \in Sending => message \in Messages /\ Held(message)' = Held(message)
      BY <2>1, HeldSame DEF Control, PlaceInv
    <2>4. why # "final"
      <3>1. ~Answered /\ ToolInTime
        BY <1>1, <2>1 DEF Answered
      <3> QED
        BY <2>1, <3>1 DEF ToolInTime
    <2>5. why = "ask" =>
            \/ /\ up = <<>> /\ console # "IDLE" /\ taken = <<>> /\ flex_capcode = message
               /\ down' = <<>> /\ got' = "ready"
            \/ up = <<>> /\ console = "IDLE" /\ (Has("OK")' \/ Has("ERROR")')
      <3> SUFFICES ASSUME why = "ask"
                   PROVE \/ /\ up = <<>> /\ console # "IDLE" /\ taken = <<>> /\ flex_capcode = message
                            /\ down' = <<>> /\ got' = "ready"
                         \/ up = <<>> /\ console = "IDLE" /\ (Has("OK")' \/ Has("ERROR")')
        OBVIOUS
      <3>1. \/ /\ up = <<>> /\ console # "IDLE" /\ taken = <<>> /\ flex_capcode = message
               /\ down = <<"READY">>
            \/ up = <<>> /\ console = "IDLE" /\ (Has("OK") \/ Has("ERROR"))
        BY <1>1, <2>1 DEF ToolInTime
      <3>2. down = <<"READY">> => down' = <<>> /\ got' = "ready"
        BY <2>1, Singles
      <3> QED
        BY <2>1, <2>2, <3>1, <3>2
    <2>6. why # "ask" => console = "IDLE" /\ up = <<>>
      BY <1>1, <2>1, <2>4 DEF ToolInTime
    <2>7. step \in Sending \ {"final"} => Held(message)' = 0
      BY <1>1, <2>1, <2>3 DEF ToolInTime
    <2>8. ToolInTime'
      <3>1. CASE why = "ask"
        BY <2>1, <2>5, <2>7, <3>1 DEF ToolInTime
      <3>2. CASE why # "ask"
        BY <2>1, <2>4, <2>6, <2>7, <3>2 DEF ToolInTime
      <3> QED
        BY <3>1, <3>2
    <2> QED
      BY <1>1, <2>1, <2>8, InTimeSame
  <1>7. CASE Waiting
    <2>1. why = "final" /\ exec = "read" /\ up = <<>> /\ down = <<>> /\ exit = "running"
      <3>1. PICK result \in {"DATA", "INVALID"} : ReadResult(result)
        BY <1>7 DEF Waiting
      <3>2. why = "final" /\ up = <<>> /\ exec = "read" /\ result = "DATA"
        BY <1>7, <3>1, Punctual DEF Waiting
      <3> QED
        BY <3>1, <3>2 DEF ReadResult, Silent, Control, PlaceInv, ToolOK
    <2>2. FALSE
      BY <1>1, <2>1, Unlived DEF ToolInTime, Answered
    <2> QED
      BY <2>2
  <1>8. CASE Prompting
    <2>1. /\ down = <<>> /\ down' = <<>> /\ step = "ask" /\ why = "ask" /\ exec = "read"
          /\ \A m : ~Live(m)
          /\ \A m : Live(m)' => m = message /\ up = <<>>
      BY <1>8, PayloadLives
    <2>2. /\ UNCHANGED <<stagingVars, copies, strange, report, exit, message, opts, exec>>
          /\ step' = "final" /\ why' = "final" /\ got = "ready" /\ up' = up \o Payload(message)
      BY <1>8 DEF Prompting, Prompted
    <2>3. up = <<>>
      BY <1>8, Punctual DEF Prompting
    <2>4. /\ message \in Messages /\ exit = "running" /\ report[message] = "none" /\ Held(message) = 0
      BY <1>1, <2>1 DEF Control, PlaceInv, ToolOK, Sending, ToolInTime
    <2>5. console # "IDLE" /\ taken = <<>> /\ flex_capcode = message
      <3>1. ~Has("OK") /\ ~Has("ERROR") /\ down # <<"READY">> /\ up # << cmd >>
        BY <2>1, <2>3, Silence, Singles
      <3> QED
        BY <1>1, <2>1, <2>4, <3>1 DEF ToolInTime
    <2>6. up' = Payload(message)
      BY <2>2, <2>3 DEF Payload
    <2>7. /\ console \in {"WAITING_FOR_MSG", "WAITING_FOR_DATA"}
          /\ console = "WAITING_FOR_MSG" => up' = << Unit("TEXT", message) >>
          /\ console = "WAITING_FOR_DATA" => up' = << Unit("HEAD", message), Unit("TAIL", message) >>
      BY <2>5, <2>6 DEF Payload, Device, ConsoleOK, DeviceInv
    <2>8. Live(message)' /\ \A j \in 1..Len(up') : up'[j].op \in {"TEXT", "HEAD", "TAIL"}
      <3>1. CASE console = "WAITING_FOR_MSG"
        <4>1. up' = << Unit("TEXT", message) >>
          BY <2>7, <3>1
        <4>2. \A j \in 1..Len(up') : up'[j].op = "TEXT"
          BY <4>1 DEF Unit
        <4> QED
          BY <2>2, <2>5, <3>1, <4>1, <4>2, Singles DEF Live
      <3>2. CASE console = "WAITING_FOR_DATA"
        <4>1. up' = << Unit("HEAD", message), Unit("TAIL", message) >>
          BY <2>7, <3>2
        <4>2. \A j \in 1..Len(up') : up'[j].op \in {"HEAD", "TAIL"}
          BY <4>1 DEF Unit
        <4>3. Len(up') = 2 /\ up'[1] = Unit("HEAD", message) /\ up'[2] = Unit("TAIL", message)
          BY <4>1
        <4> QED
          BY <2>2, <2>5, <3>2, <4>2, <4>3 DEF Live
      <3> QED
        BY <2>7, <3>1, <3>2
    <2>9. \A m \in Messages : /\ m # message => Held(m)' = Held(m)
                              /\ m = message => Held(m)' = 1
      BY <2>1, <2>2, <2>4, <2>8, HeldFacts, HeldNext
    <2>10. InTime'
      <3>1. \A m \in Messages : /\ Held(m)' <= 1
                                /\ report'[m] = "sent" => copies'[m] = 1
                                /\ report'[m] = "failed" => Held(m)' = 0
        BY <1>1, <2>2, <2>4, <2>9 DEF InTime
      <3>2. ~strange'
        BY <1>1, <2>2 DEF InTime
      <3> QED
        BY <2>2, <2>5, <2>7, <3>1, <3>2 DEF InTime
    <2>11. ToolInTime'
      BY <2>1, <2>2, <2>8 DEF ToolInTime, Sending
    <2> QED
      BY <2>10, <2>11
  <1> QED
    BY <1>2, <1>3, <1>4, <1>5, <1>6, <1>7, <1>8, <1>9, <1>10

(* The line by what is left of it.                                         *)
LEMMA Rests ==
  /\ \A x : Head(<<x>>) = x /\ Tail(<<x>>) = <<>>
  /\ \A x, y : Head(<<x, y>>) = x /\ Tail(<<x, y>>) = <<y>> /\ <<x, y>>[2] = y /\ Len(<<x, y>>) = 2
  OBVIOUS

(* What is served in time is what was written for it.                      *)
LEMMA InTimeServed ==
  ASSUME Control, Device, HeldInv, Control', Device', Serves, InTime
  PROVE  InTime'
  <1>0. /\ up # <<>> /\ blocked = "no" /\ Head(up) = up[1] /\ 1 \in 1..Len(up) /\ Head(up) \in Sent
        /\ up' = Tail(up) \/ up' = <<>>
        /\ UNCHANGED <<hostVars, report>>
    BY ServedLine
  <1>1. \A m \in Messages : Held(m)' <= Held(m)
    BY HeldServed
  <1>2. \A m \in Messages : copies[m] <= copies'[m]
    <2>1. UNCHANGED copies \/ \E genuine \in BOOLEAN : \E n : Accept(genuine, n)
      <3>1. CASE ServeText
        BY <3>1 DEF ServeText
      <3>2. CASE ServeData
        BY <3>2, DataServed DEF Swallows, Completes, Genuine
      <3> QED
        BY <3>1, <3>2 DEF Serves, ServeJunk, ServeRefused, ServeCommand, ServeAsk, ServeRestart, ServePiece
    <2>2. ASSUME NEW genuine \in BOOLEAN, NEW n, Accept(genuine, n), NEW m \in Messages
          PROVE  copies[m] <= copies'[m]
      <3>1. copies'[m] = IF genuine /\ m = n THEN copies[m] + 1 ELSE copies[m]
        BY <2>2 DEF Accept, Device, AirOK
      <3> QED
        BY <3>1, HeldFacts
    <2>3. ASSUME UNCHANGED copies, NEW m \in Messages
          PROVE  copies[m] <= copies'[m]
      BY <2>3, HeldFacts
    <2> QED
      BY <2>1, <2>2, <2>3
  <1>3. \A m \in Messages : /\ Held(m)' <= 1
                            /\ report'[m] = "sent" => copies'[m] = 1
                            /\ report'[m] = "failed" => Held(m)' = 0
    <2> TAKE m \in Messages
    <2>1. /\ Held(m) \in Nat /\ Held(m)' \in Nat /\ copies'[m] \in Nat /\ copies'[m] <= Held(m)'
          /\ copies[m] \in Nat
      BY HeldFacts, HeldNext
    <2>2. /\ Held(m) <= 1 /\ (report[m] = "sent" => copies[m] = 1)
          /\ report[m] = "failed" => Held(m) = 0
      BY DEF InTime
    <2> QED
      BY <1>0, <1>1, <1>2, <2>1, <2>2
  <1>4. CASE console = "IDLE"
    <2>1. \/ up' = <<>>
          \/ console' = "IDLE" /\ up' = Tail(up)
      BY <1>4 DEF Serves, Serving, ServeJunk, ServeRefused, ServeCommand, ServeAsk, ServeRestart, ServePiece, ServeText, ServeData
    <2>2. ~strange' /\ (console' # "IDLE" => taken' = <<>>)
      BY <1>4 DEF InTime, Serves, Serving, ServeJunk, ServeRefused, ServeCommand, ServeAsk, ServeRestart, ServePiece, ServeText, ServeData
    <2>3. up' # <<>> => Len(up') <= 1 \/ \A j \in 1..Len(up') : up'[j].op \in {"HEAD", "TAIL"}
      <3> SUFFICES ASSUME up' # <<>>
                   PROVE  Len(up') <= 1 \/ \A j \in 1..Len(up') : up'[j].op \in {"HEAD", "TAIL"}
        OBVIOUS
      <3>1. /\ Len(up) \in Nat /\ Len(up') = Len(up) - 1
            /\ \A j \in 1..Len(up') : up'[j] = up[j + 1]
        BY <1>0, LineEnds DEF Device, LineOK
      <3>2. CASE Len(up) <= 1
        BY <3>1, <3>2
      <3>3. CASE \A j \in 1..Len(up) : up[j].op \in {"HEAD", "TAIL"}
        <4>1. \A j \in 1..Len(up') : j + 1 \in 1..Len(up)
          BY <3>1
        <4> QED
          BY <3>1, <3>3, <4>1
      <3> QED
        BY <1>4, <3>2, <3>3 DEF InTime
    <2>4. Len(<<>>) <= 1
      OBVIOUS
    <2> QED
      BY <1>3, <2>1, <2>2, <2>3, <2>4 DEF InTime
  <1>5. CASE ServeText
    <2>1. console = "WAITING_FOR_MSG" /\ console' = "IDLE" /\ up' = Tail(up)
      BY <1>5 DEF ServeText, Serving, ResetState
    <2>2. up = << Unit("TEXT", flex_capcode) >>
      BY <1>0, <2>1 DEF InTime
    <2>3. Head(up) = Unit("TEXT", flex_capcode) /\ up' = <<>>
      BY <2>1, <2>2, Rests
    <2>4. strange' = strange
      <3>1. Accept(TRUE, flex_capcode) \/ UNCHANGED airVars
        <4>1. (taken = <<>> /\ Next1 = Unit("TEXT", flex_capcode)) = TRUE
          BY <2>1, <2>3 DEF Next1, InTime
        <4> QED
          BY <1>5, <4>1 DEF ServeText
      <3>2. strange \in BOOLEAN
        BY DEF Device, AirOK
      <3>3. Accept(TRUE, flex_capcode) => strange' = strange
        BY <3>2, Zenon DEF Accept
      <3> QED
        BY <3>1, <3>3
    <2>5. Len(<<>>) <= 1
      OBVIOUS
    <2>6. ~strange'
      BY <2>4 DEF InTime
    <2> QED
      BY <1>3, <2>1, <2>3, <2>5, <2>6 DEF InTime
  <1>6. CASE ServeData
    <2>1. console = "WAITING_FOR_DATA" /\ up' = Tail(up)
      BY <1>6, DataServed
    <2>2. \/ taken = <<>> /\ up = << Unit("HEAD", flex_capcode), Unit("TAIL", flex_capcode) >>
          \/ taken = << Unit("HEAD", flex_capcode) >> /\ up = << Unit("TAIL", flex_capcode) >>
      BY <1>0, <2>1 DEF InTime
    <2>3. CASE taken = <<>>
      <3>1. Head(up) = Unit("HEAD", flex_capcode) /\ up' = << Unit("TAIL", flex_capcode) >>
        <4>1. up = << Unit("HEAD", flex_capcode), Unit("TAIL", flex_capcode) >>
          BY <2>2, <2>3, Singles
        <4> QED
          BY <2>1, <4>1, Rests
      <3>2. /\ taken' = << Unit("HEAD", flex_capcode) >>
            /\ UNCHANGED <<console, flex_capcode, strange>>
        BY <1>6, <2>3, <3>1, DataServed DEF Swallows, Completes
      <3>3. ~strange' /\ flex_capcode' = flex_capcode /\ console' = "WAITING_FOR_DATA"
        BY <2>1, <3>2 DEF InTime
      <3> QED
        BY <1>3, <3>1, <3>2, <3>3 DEF InTime
    <2>4. CASE taken # <<>>
      <3>1. taken = << Unit("HEAD", flex_capcode) >> /\ up = << Unit("TAIL", flex_capcode) >>
        BY <2>2, <2>4
      <3>2. Head(taken) = Unit("HEAD", flex_capcode) /\ Head(up) = Unit("TAIL", flex_capcode) /\ up' = <<>>
        BY <2>1, <3>1, Rests
      <3>3. Head(up).op = "TAIL" /\ Head(up).arg = flex_capcode
        BY <3>2 DEF Unit
      <3>4. console' = "IDLE" /\ Accept(TRUE, flex_capcode)
        <4>1. Genuine = TRUE
          BY <3>2, <3>3 DEF Genuine, Next1
        <4> QED
          BY <1>6, <2>4, <3>3, <4>1, DataServed DEF Completes, ResetState
      <3>5. strange \in BOOLEAN
        BY DEF Device, AirOK
      <3>6. strange' = strange
        BY <3>4, <3>5, Zenon DEF Accept
      <3>7. ~strange'
        BY <3>6 DEF InTime
      <3>8. Len(<<>>) <= 1
        OBVIOUS
      <3> QED
        BY <1>3, <3>2, <3>4, <3>7, <3>8 DEF InTime
    <2> QED
      BY <2>3, <2>4
  <1>7. CASE ServePiece
    <2>1. console = "WAITING_FOR_MSG" /\ Head(up).op = "PIECE"
      BY <1>7 DEF ServePiece, Serving, Next1
    <2>2. Head(up) = Unit("TEXT", flex_capcode)
      BY <1>0, <2>1, Rests DEF InTime
    <2> QED
      BY <2>1, <2>2 DEF Unit
  <1>8. console = "IDLE" \/ ServePiece \/ ServeText \/ ServeData
    BY DEF Serves, Serving, ServeJunk, ServeRefused, ServeCommand, ServeAsk, ServeRestart
  <1> QED
    BY <1>4, <1>5, <1>6, <1>7, <1>8

LEMMA Taken ==
  ASSUME Device, NEW m \in Messages, copies[m] = 0, Accept(TRUE, m)
  PROVE  copies'[m] = 1
  BY DEF Accept, Device, AirOK

(* The device answers, in time, the command the tool is executing.         *)
LEMMA TimeServed ==
  ASSUME Control, Device, Success, HeldInv, TimeInv, Control', Device', HeldInv', Serves
  PROVE  TimeInv'
  <1> SUFFICES ASSUME ~late' PROVE InTime' /\ (exit' = "running" => ToolInTime')
    BY DEF TimeInv
  <1>0. /\ up # <<>> /\ blocked = "no" /\ Head(up) = up[1] /\ 1 \in 1..Len(up) /\ Head(up) \in Sent
        /\ up' = Tail(up) \/ up' = <<>>
        /\ UNCHANGED <<hostVars, report, opts, late, exec, why, step, cmd, message, got, exit>>
    BY ServedLine
  <1>1. InTime /\ InTime' /\ (exit = "running" => ToolInTime)
    BY <1>0, InTimeServed DEF TimeInv
  <1> SUFFICES ASSUME exit = "running" PROVE ToolInTime'
    BY <1>0, <1>1
  <1>2. ToolInTime /\ exec = "read"
    BY <1>0, <1>1 DEF ToolInTime
  <1>3. step \in Sending \ {"final"} => Held(message)' = 0
    <2> SUFFICES ASSUME step \in Sending \ {"final"} PROVE Held(message)' = 0
      OBVIOUS
    <2>1. message \in Messages /\ Held(message) = 0
      BY <1>2 DEF ToolInTime, Control, PlaceInv
    <2>2. Held(message)' \in Nat
      BY <1>0, <2>1, HeldNext
    <2>3. Held(message)' <= Held(message)
      BY <1>0, <2>1, HeldServed
    <2> QED
      BY <2>1, <2>2, <2>3
  <1>4. CASE why \notin {"ask", "final"}
    <2>1. /\ console = "IDLE" /\ up = << IF why = "command" THEN cmd ELSE AT >>
      BY <1>0, <1>2, <1>4 DEF ToolInTime
    <2>2. Head(up) = (IF why = "command" THEN cmd ELSE AT) /\ Tail(up) = <<>>
      BY <2>1, Singles
    <2>3. cmd.op \notin Payloads /\ AT.op \notin Payloads
      BY <1>4, PlainCommands DEF AT, Unit, Payloads, Control, PlaceInv
    <2>4. Head(up).op \notin Payloads
      BY <2>2, <2>3
    <2>5. up' = <<>> /\ console' = "IDLE"
      BY <1>0, <2>1, <2>2, <2>4
      DEF Serves, Serving, ServeJunk, ServeRefused, ServeCommand, ServeAsk, ServeRestart, ServePiece, ServeText, ServeData,
          Next1, Payloads
    <2> QED
      BY <1>0, <1>2, <1>3, <1>4, <2>5 DEF ToolInTime
  <1>5. CASE why = "ask"
    <2>1. up = << cmd >> /\ down = <<>> /\ console = "IDLE" /\ got = "none"
      BY <1>0, <1>2, <1>5 DEF ToolInTime
    <2>2. Head(up) = cmd /\ Tail(up) = <<>> /\ cmd = Ask(message) /\ step = "ask"
      BY <1>5, <2>1, Singles DEF Control, PlaceInv
    <2>3. Head(up).op \in {"MSG", "SEND"} /\ Head(up).arg = message
      BY <2>2 DEF Ask, Unit
    <2>4. ServeRefused \/ ServeAsk
      <3>1. Head(up).op \notin Settings
        BY <2>3, CommandNames DEF Others
      <3> QED
        BY <2>1, <2>3, <3>1
        DEF Serves, Serving, ServeJunk, Bits, ServeCommand, ServeRestart, ServePiece, ServeText, ServeData, Next1
    <2>5. CASE ServeRefused
      <3>1. up' = <<>> /\ console' = "IDLE" /\ Answers(<<"ERROR">>)
        BY <2>1, <2>2, <2>5 DEF ServeRefused
      <3>2. Has("ERROR")'
        BY <3>1, HearsOne DEF Replies
      <3> QED
        BY <1>0, <1>2, <1>3, <1>5, <2>2, <3>1, <3>2 DEF ToolInTime
    <2>6. CASE ServeAsk
      <3>1. /\ up' = <<>> /\ console' # "IDLE" /\ Answers(<<"READY">>) /\ taken' = <<>> /\ flex_capcode' = message
        BY <2>3, <2>6 DEF ServeAsk, Next1
      <3>2. down' = <<"READY">>
        BY <2>1, <3>1, FirstAnswer DEF Replies
      <3> QED
        BY <1>0, <1>2, <1>3, <1>5, <2>1, <2>2, <3>1, <3>2 DEF ToolInTime
    <2> QED
      BY <2>4, <2>5, <2>6
  <1>6. CASE why = "final"
    <2>1. /\ \A j \in 1..Len(up) : up[j].op \in {"TEXT", "HEAD", "TAIL"}
          /\ \/ down = <<>> /\ Live(message)
             \/ /\ Answered /\ console = "IDLE"
                /\ copies[message] = (IF Head(down) = "OK" THEN 1 ELSE 0)
      BY <1>2, <1>6 DEF ToolInTime
    <2>2. \A j \in 1..Len(up') : up'[j].op \in {"TEXT", "HEAD", "TAIL"}
      <3>1. CASE up' = <<>>
        BY <3>1, EmptySeq
      <3>2. CASE up' = Tail(up)
        <4>1. /\ Len(up) \in Nat /\ Len(up') = Len(up) - 1
              /\ \A j \in 1..Len(up') : up'[j] = up[j + 1]
          BY <1>0, <3>2, LineEnds DEF Device, LineOK
        <4>2. \A j \in 1..Len(up') : j + 1 \in 1..Len(up)
          BY <4>1
        <4> QED
          BY <2>1, <4>1, <4>2
      <3> QED
        BY <1>0, <3>1, <3>2
    <2>3. message \in Messages /\ step = "final"
      BY <1>6 DEF Control, PlaceInv, Sending
    <2>4. \/ down' = <<>> /\ Live(message)'
          \/ /\ Answered' /\ console' = "IDLE"
             /\ copies'[message] = (IF Head(down') = "OK" THEN 1 ELSE 0)
      <3>1. CASE Answered /\ console = "IDLE" /\ copies[message] = (IF Head(down) = "OK" THEN 1 ELSE 0)
        <4>1. Head(up).op \in {"TEXT", "HEAD", "TAIL"}
          BY <1>0, <2>1
        <4>2. Head(up).op \notin Settings
          BY <4>1, CommandNames DEF Others
        <4>3. ServeJunk \/ ServeRefused
          BY <3>1, <4>1, <4>2 DEF Serves, Serving, ServeCommand, ServeAsk, ServeRestart, ServePiece, ServeText, ServeData, Next1
        <4>4. console' = "IDLE" /\ UNCHANGED copies /\ (UNCHANGED down \/ Answers(<<"ERROR">>))
          BY <3>1, <4>3 DEF ServeJunk, ServeRefused
        <4>5. down' # <<>> /\ Head(down') = Head(down)
          <5>1. CASE UNCHANGED down
            BY <3>1, <5>1 DEF Answered
          <5>2. CASE Answers(<<"ERROR">>)
            BY <3>1, <5>2, ReplyLines, HeadStays DEF Answered, Replies
          <5> QED
            BY <4>4, <5>1, <5>2
        <4> QED
          BY <1>0, <3>1, <4>4, <4>5 DEF Answered
      <3>2. CASE down = <<>> /\ Live(message)
        <4>1. copies[message] = 0
          <5>1. Held(message) <= 1
            BY <1>1, <2>3 DEF InTime
          <5> QED
            BY <2>3, <3>2, <5>1, HeldFacts
        <4>2. console # "IDLE"
          BY <3>2, Unlived
        <4>3. CASE ServeText
          <5>1. console = "WAITING_FOR_MSG" /\ console' = "IDLE" /\ Head(up) = Unit("TEXT", flex_capcode)
                /\ flex_capcode = message
            BY <3>2, <4>3 DEF ServeText, Serving, ResetState, Live
          <5>2. (taken = <<>> /\ Next1 = Unit("TEXT", flex_capcode)) = TRUE
            BY <1>1, <5>1 DEF Next1, InTime
          <5>3. CASE Room
            <6>1. Answers(<<"OK">>) /\ Accept(TRUE, message)
              BY <4>3, <5>1, <5>2, <5>3 DEF ServeText
            <6> QED
              BY <1>0, <2>3, <3>2, <4>1, <5>1, <6>1, Taken, FirstAnswer DEF Answered, Replies
          <5>4. CASE ~Room
            <6>1. Answers(<<"ERROR">>) /\ copies' = copies
              BY <4>3, <5>4 DEF ServeText
            <6> QED
              BY <1>0, <3>2, <4>1, <5>1, <6>1, FirstAnswer DEF Answered, Replies
          <5> QED
            BY <5>3, <5>4
        <4>4. CASE ServeData /\ taken # <<>>
          <5>1. /\ console = "WAITING_FOR_DATA"
                /\ taken = << Unit("HEAD", message) >> /\ Head(up) = Unit("TAIL", message)
            BY <3>2, <4>4, DataServed DEF Live
          <5>2. Head(taken) = Unit("HEAD", message) /\ Head(up).op = "TAIL" /\ Head(up).arg = message
            BY <5>1, Singles DEF Unit
          <5>3. Genuine = TRUE
            BY <5>2 DEF Genuine, Next1
          <5>4. Completes
            BY <4>4, <5>2, DataServed
          <5>5. console' = "IDLE" /\ Accept(TRUE, message)
            BY <5>2, <5>3, <5>4 DEF Completes, ResetState
          <5>6. down' # <<>> /\ Head(down') = "OK"
            BY <1>0, <3>2, <5>4, FirstOk DEF Completes
          <5> QED
            BY <1>0, <2>3, <4>1, <5>5, <5>6, Taken DEF Answered
        <4>5. CASE ServeData /\ taken = <<>>
          <5>1. down' = <<>> /\ UNCHANGED <<console, flex_capcode>> /\ taken' = << Head(up) >> /\ up' = Tail(up)
                /\ console = "WAITING_FOR_DATA"
            BY <3>2, <4>5, DataServed DEF Swallows, Completes
          <5>2. up = << Unit("HEAD", flex_capcode), Unit("TAIL", flex_capcode) >>
            BY <1>0, <1>1, <4>5, <5>1, Singles DEF InTime
          <5>3. up[1] = Unit("HEAD", message)
            BY <3>2, <4>5, <5>1, Singles DEF Live
          <5>4. Unit("HEAD", flex_capcode) = Unit("HEAD", message)
            BY <5>2, <5>3
          <5>5. flex_capcode = message
            BY <5>4 DEF Unit
          <5>6. taken' = << Unit("HEAD", message) >> /\ up' = << Unit("TAIL", message) >>
            BY <5>1, <5>2, <5>5, Rests
          <5>7. up' # <<>> /\ Head(up') = Unit("TAIL", message)
            BY <5>6, Singles
          <5> QED
            BY <1>0, <5>1, <5>6, <5>7 DEF Live
        <4>6. ServeText \/ ServeData
          <5>1. Head(up).op # "PIECE"
            BY <1>0, <2>1
          <5> QED
            BY <4>2, <5>1 DEF Serves, Serving, ServeJunk, ServeRefused, ServeCommand, ServeAsk, ServeRestart, ServePiece, Next1
        <4> QED
          BY <4>3, <4>4, <4>5, <4>6
      <3> QED
        BY <2>1, <3>1, <3>2
    <2> QED
      BY <1>0, <1>2, <1>3, <1>6, <2>2, <2>3, <2>4 DEF ToolInTime
  <1> QED
    BY <1>4, <1>5, <1>6

(* In time, a console that stops waiting answers the attempt in progress   *)
(* with ERROR.                                                             *)
LEMMA TimeMoved ==
  ASSUME Control, Device, HeldInv, TimeInv, Control', Device', HeldInv', Moves,
         UNCHANGED <<opts, hostVars, report, late>>
  PROVE  TimeInv'
  <1> SUFFICES ASSUME ~late' PROVE InTime' /\ (exit' = "running" => ToolInTime')
    BY DEF TimeInv
  <1>0. /\ InTime /\ (exit = "running" => ToolInTime)
        /\ UNCHANGED <<up, airVars, exec, why, step, cmd, message, got, exit>>
    BY DEF TimeInv, Moves, StagingExpires, ServiceBlocks, ServiceEnds, TxStarts, TxEnds
  <1>1. CASE UNCHANGED <<down, stagingVars>>
    <2>1. InTime'
      BY <1>0, <1>1, InTimeSame
    <2>2. step \in Sending => message \in Messages /\ Held(message)' = Held(message)
      BY <1>0, <1>1, HeldSame DEF Control, PlaceInv
    <2>3. Live(message)' <=> Live(message)
      BY <1>0, <1>1 DEF Live
    <2>4. Has("OK")' <=> Has("OK")
      BY <1>1 DEF Has
    <2>5. Has("ERROR")' <=> Has("ERROR")
      BY <1>1 DEF Has
    <2>6. Answered' <=> Answered
      BY <1>1 DEF Answered
    <2>7. AT' = AT
      BY DEF AT, Unit
    <2>8. ToolInTime => ToolInTime'
      BY <1>0, <1>1, <2>2, <2>3, <2>4, <2>5, <2>6, <2>7 DEF ToolInTime
    <2> QED
      BY <1>0, <2>1, <2>8
  <1>2. CASE console # "IDLE" /\ ResetState /\ Answers(<<"ERROR">>)
    <2>1. console' = "IDLE" /\ \A m \in Messages : Held(m)' = copies[m] /\ copies[m] \in Nat /\ Held(m)' <= Held(m)
      BY <1>0, <1>2, UnlivedNext, HeldNext, HeldFacts DEF ResetState
    <2>2. InTime'
      <3>1. Len(up) <= 1 \/ \A j \in 1..Len(up) : up[j].op \in {"HEAD", "TAIL"}
        <4>1. \/ up = <<>>
              \/ up = << Unit("TEXT", flex_capcode) >>
              \/ up = << Unit("TAIL", flex_capcode) >>
              \/ up = << Unit("HEAD", flex_capcode), Unit("TAIL", flex_capcode) >>
          BY <1>0, <1>2 DEF InTime, Device, ConsoleOK
        <4>2. CASE up = << Unit("HEAD", flex_capcode), Unit("TAIL", flex_capcode) >>
          BY <4>2 DEF Unit
        <4>3. CASE up = << Unit("TEXT", flex_capcode) >> \/ up = << Unit("TAIL", flex_capcode) >>
          <5>1. Len(up) = 1
            BY <4>3, Singles
          <5> QED
            BY <5>1
        <4>4. CASE up = <<>>
          BY <4>4
        <4> QED
          BY <4>1, <4>2, <4>3, <4>4
      <3>2. \A m \in Messages : /\ Held(m)' <= 1
                                /\ report'[m] = "sent" => copies'[m] = 1
                                /\ report'[m] = "failed" => Held(m)' = 0
        <4> TAKE m \in Messages
        <4>1. /\ Held(m) <= 1 /\ (report[m] = "sent" => copies[m] = 1)
              /\ (report[m] = "failed" => Held(m) = 0) /\ Held(m) \in Nat
          BY <1>0, HeldFacts DEF InTime
        <4> QED
          BY <1>0, <2>1, <4>1
      <3> QED
        BY <1>0, <2>1, <3>1, <3>2 DEF InTime
    <2>3. ASSUME exit = "running"
          PROVE  ToolInTime'
      <3>1. ToolInTime /\ exec = "read" /\ why \in {"ask", "final"}
        BY <1>0, <1>2, <2>3 DEF ToolInTime
      <3>2. step = why
        BY <3>1 DEF Control, PlaceInv
      <3>3. CASE why = "ask"
        <4>1. up = <<>>
          BY <1>2, <3>1, <3>3 DEF ToolInTime
        <4>2. Has("ERROR")'
          BY <1>2, <2>3, HearsOne DEF Replies
        <4>3. message \in Messages /\ Held(message) = 0
          BY <3>1, <3>2, <3>3 DEF ToolInTime, Control, PlaceInv, Sending
        <4>4. Held(message)' = 0
          <5>1. Held(message)' <= Held(message) /\ Held(message)' \in Nat
            BY <1>0, <2>1, <4>3
          <5> QED
            BY <4>3, <5>1
        <4> QED
          BY <1>0, <2>1, <3>1, <3>2, <3>3, <4>1, <4>2, <4>4 DEF ToolInTime
      <3>4. CASE why = "final"
        <4>1. down = <<>> /\ Live(message) /\ \A j \in 1..Len(up) : up[j].op \in {"TEXT", "HEAD", "TAIL"}
          BY <1>2, <3>1, <3>4 DEF ToolInTime
        <4>2. message \in Messages /\ Held(message) <= 1
          BY <1>0, <3>2, <3>4 DEF InTime, Control, PlaceInv, Sending
        <4>3. copies[message] = 0
          BY <4>1, <4>2, HeldFacts
        <4>4. down' = <<"ERROR">> /\ down' # <<>> /\ Head(down') = "ERROR"
          BY <1>2, <2>3, <4>1, FirstAnswer DEF Replies
        <4> QED
          BY <1>0, <2>1, <3>1, <3>2, <3>4, <4>1, <4>3, <4>4 DEF ToolInTime, Answered
      <3> QED
        BY <3>1, <3>3, <3>4
    <2> QED
      BY <1>0, <2>2, <2>3
  <1>3. CASE ServiceBlocks \/ TxStarts \/ TxEnds
    <2>1. UNCHANGED <<down, stagingVars>>
      BY <1>3 DEF ServiceBlocks, TxStarts, TxEnds, Device, DeviceInv
    <2> QED
      BY <1>1, <2>1
  <1>4. CASE StagingExpires
    <2>1. console # "IDLE" /\ ResetState /\ Answers(<<"ERROR">>)
      BY <1>4 DEF StagingExpires
    <2> QED
      BY <1>2, <2>1
  <1>5. CASE ServiceEnds
    <2>1. \/ UNCHANGED <<down, stagingVars>>
          \/ console # "IDLE" /\ ResetState /\ Answers(<<"ERROR">>)
      BY <1>5 DEF ServiceEnds
    <2> QED
      BY <1>1, <1>2, <2>1
  <1> QED
    BY <1>3, <1>4, <1>5 DEF Moves

(* Every step keeps tool and console in step, or is late.                  *)
LEMMA TimeStays ==
  ASSUME Control, Device, Success, HeldInv, TimeInv, Control', Device', HeldInv', [Next]_vars
  PROVE  TimeInv'
  <1>1. CASE UNCHANGED vars
    <2> SUFFICES ASSUME TimeInv, UNCHANGED vars PROVE TimeInv'
      BY <1>1
    <2>1. InTime => InTime'
      BY InTimeSame DEF vars
    <2>2. step \in Sending => message \in Messages /\ Held(message)' = Held(message)
      BY HeldSame DEF vars, Control, PlaceInv
    <2>3. (Live(message)' <=> Live(message)) /\ (Answered' <=> Answered)
      BY DEF vars, Live, Answered
    <2>4. (Has("OK")' <=> Has("OK")) /\ (Has("ERROR")' <=> Has("ERROR"))
      BY DEF vars, Has
    <2>5. AT' = AT
      BY DEF AT, Unit
    <2>6. ToolInTime => ToolInTime'
      BY <2>2, <2>3, <2>4, <2>5 DEF vars, ToolInTime
    <2> QED
      BY <2>1, <2>6 DEF vars, TimeInv
  <1> QED
    BY <1>1, StepKinds, TimeOnDecision, TimeOnTool, TimeServed, TimeMoved

-----------------------------------------------------------------------------
(* The wizard's restart.                                                   *)
Restart == RestartInv /\ RestartsComplete
Asking == {"init", "confirm", "query", "answers"}
NoRestart == \A j \in 1..Len(plan) : plan[j].op # "RESET"

(* What a step makes of the plan.                                          *)
PlanStep ==
  \/ UNCHANGED <<step, plan, asked>>
  \/ step' \notin Asking \cup {"plan"} /\ UNCHANGED asked
  \/ step \in Asking /\ step' \in Asking /\ UNCHANGED asked
  \/ step = "answers" /\ step' = "plan" /\ (opts.run = "wizard" => \A s \in asked' : Planned(s)')
  \/ /\ step = "plan" /\ step' = "plan" /\ plan' = Tail(plan) /\ UNCHANGED asked
     /\ cmd.op = "RESET" \/ (exec = "read" /\ why = "command" /\ ReadResult("OK"))
  \/ step = "plan" /\ step' = "plan" /\ NoRestart' /\ UNCHANGED asked

(* The plan after a command, by its outcome.                               *)
LEMMA PlanOnReturn ==
  ASSUME Control, NEW ok \in BOOLEAN, Returns(ok),
         ok => exec = "read" /\ why = "command" /\ ReadResult("OK")
  PROVE  PlanStep
  <1>1. Returns(ok) /\ UNCHANGED asked /\ step \in Steps
    BY DEF Returns, Control, CallOK
  <1>3. CASE step = "plan" /\ ~Failed(ok)
    <2>1. plan' = Tail(plan) /\ step' \in {"plan", "end"} /\ (ok \/ cmd.op = "RESET")
      BY <1>1, <1>3 DEF Returns, Follow, Failed, Call, Ends, Pause
    <2> QED
      BY <1>1, <1>3, <2>1 DEF PlanStep, Asking
  <1>4. CASE step = "plan" /\ Failed(ok)
    <2>1. plan' = AfterFailure(cmd.op) /\ step' \in {"plan", "end"}
      BY <1>1, <1>4 DEF Returns, Follow, Failed, Call, Ends, Pause
    <2>2. NoRestart'
      <3>1. CASE cmd.op \in FlexSettings
        <4> DEFINE S == asked \cap NetworkSettings
        <4>1. S \in SUBSET Settings /\ plan' = Sequence(S)
          BY <2>1, <3>1, CommandNames DEF AfterFailure
        <4>2. plan' \in Seq([op : S, arg : {0}])
          BY <4>1, SequenceFacts
        <4>3. \A j \in 1..Len(plan') : plan'[j] \in [op : S, arg : {0}]
          BY <4>2, ElementOfSeq
        <4>4. "RESET" \notin S
          BY <4>1, CommandNames DEF Others
        <4> QED
          BY <4>3, <4>4 DEF NoRestart
      <3>2. CASE cmd.op \notin FlexSettings
        <4>1. plan' = <<>>
          BY <2>1, <3>2 DEF AfterFailure
        <4> QED
          BY <4>1, EmptySeq DEF NoRestart
      <3> QED
        BY <3>1, <3>2
    <2> QED
      BY <1>1, <1>4, <2>1, <2>2 DEF PlanStep, Asking
  <1>5. CASE step \in {"init", "confirm", "query"}
    <2>1. step' \in {"init", "confirm", "query", "answers", "end", "line", "freq"}
      BY <1>1, <1>5 DEF Returns, InitAgain, Begins, Call, Ends, Pause
    <2> QED
      BY <1>1, <1>5, <2>1 DEF PlanStep, Asking
  <1>6. CASE step \notin {"init", "confirm", "query", "plan"}
    <2>1. step' \in {"power", "wake", "line", "end", "ask"}
      BY <1>1, <1>6 DEF Returns, Attempt, Reported, Call, Ends, Pause
    <2> QED
      BY <1>1, <2>1 DEF PlanStep, Asking
  <1> QED
    BY <1>3, <1>4, <1>5, <1>6

(* Every step does one of these to the plan.                               *)
LEMMA PlanSteps ==
  ASSUME Control, [Next]_vars
  PROVE  PlanStep
  <1>1. CASE UNCHANGED vars
    BY <1>1 DEF vars, PlanStep
  <1>2. CASE ReadStdin
    <2>1. step' \in {"freq", "line", "end"} /\ UNCHANGED asked
      BY <1>2 DEF ReadStdin, SendMessage, Call, Ends, Pause
    <2> QED
      BY <2>1 DEF PlanStep, Asking
  <1>3. CASE UserAnswers
    <2>1. step = "answers"
      BY <1>3 DEF UserAnswers
    <2>2. CASE Ends("ok") /\ UNCHANGED <<plan, asked>>
      BY <2>2 DEF PlanStep, Asking, Ends, Pause
    <2>3. CASE opts.run = "factory" /\ Follow(<< Unit("FACTORYRESET", 0) >>, TRUE) /\ UNCHANGED asked
      <3>1. step' = "plan"
        BY <2>3, Singles DEF Follow, Call
      <3> QED
        BY <2>1, <2>3, <3>1 DEF PlanStep
    <2>4. ASSUME NEW flex \in SUBSET FlexSettings, NEW network \in SUBSET NetworkSettings,
                 asked' = flex \cup network,
                 Follow(Sequence(flex) \o Sequence(network) \o << Unit("RESET", 0) >>, TRUE)
          PROVE  PlanStep
      <3> DEFINE rest == Sequence(flex) \o Sequence(network) \o << Unit("RESET", 0) >>
      <3>1. \A s \in asked' : \E j \in 1..Len(rest) : rest[j].op = s
        BY <2>4, WizardPlan
      <3>2. plan' = rest /\ step' \in {"plan", "end"} /\ (step' = "end" => rest = <<>>)
        BY <2>4 DEF Follow, Call, Ends, Pause
      <3>4. rest # <<>>
        <4>1. Sequence(flex) \in Seq([op : flex, arg : {0}]) /\ Sequence(network) \in Seq([op : network, arg : {0}])
          BY SequenceFacts, CommandNames
        <4> QED
          BY <4>1
      <3> HIDE DEF rest
      <3> QED
        BY <2>1, <3>1, <3>2, <3>4 DEF PlanStep, Planned
    <2> QED
      BY <1>3, <2>2, <2>3, <2>4 DEF UserAnswers
  <1>4. CASE EnsureReady \/ FlushBuffers \/ SendCommand \/ ReadData
    BY <1>4 DEF EnsureReady, FlushBuffers, SendCommand, ReadData, PlanStep
  <1>5. ASSUME NEW result \in Results, ReadAside(result)
        PROVE  PlanStep
    BY <1>5 DEF ReadAside, PlanStep
  <1>6. ASSUME NEW result \in Results, ReadAnswer(result)
        PROVE  PlanStep
    <2>1. CASE result \in {"ERROR", "TIMEOUT", "INVALID"} /\ retries > 1
      BY <1>6, <2>1 DEF ReadAnswer, PlanStep
    <2>2. CASE ~(result \in {"ERROR", "TIMEOUT", "INVALID"} /\ retries > 1)
      <3> DEFINE ok == result = "OK"
      <3>1. Returns(ok) /\ ok \in BOOLEAN
        BY <1>6, <2>2 DEF ReadAnswer
      <3>2. ok => exec = "read" /\ why = "command" /\ ReadResult("OK")
        BY <1>6 DEF ReadAnswer, ReadEnds, ReadResult
      <3> HIDE DEF ok
      <3> QED
        BY <3>1, <3>2, PlanOnReturn
    <2> QED
      BY <2>1, <2>2
  <1>7. ASSUME NEW result \in Results, ReadPrompt(result)
        PROVE  PlanStep
    <2>1. step' \in {"final", "wake", "line", "end"} /\ UNCHANGED asked
      BY <1>7 DEF ReadPrompt, Attempt, Reported, Call, Ends, Pause
    <2> QED
      BY <2>1 DEF PlanStep, Asking
  <1>8. ASSUME NEW result \in Results, ReadFinal(result)
        PROVE  PlanStep
    <2>1. UNCHANGED <<asked, plan>> /\ (step' = step \/ step' \in {"wake", "line", "end"})
      BY <1>8 DEF ReadFinal, Attempt, Reported, Call, Ends, Pause
    <2> QED
      BY <2>1 DEF PlanStep, Asking
  <1>9. CASE Interrupted
    BY <1>9 DEF Interrupted, Ends, Pause, PlanStep, Asking
  <1>12. CASE WriteFails
    <2>1. CASE why = "command" /\ Returns(FALSE)
      BY <2>1, PlanOnReturn
    <2>2. CASE why \in {"ensure", "recover"}
      BY <1>12, <2>2 DEF WriteFails, PlanStep
    <2>3. CASE why = "ask"
      <3>1. step' \in {"wake", "line", "end"} /\ UNCHANGED asked
        BY <1>12, <2>3 DEF WriteFails, Attempt, Reported, Call, Ends, Pause
      <3> QED
        BY <3>1 DEF PlanStep, Asking
    <2> QED
      BY <1>12, <2>1, <2>2, <2>3 DEF WriteFails
  <1>13. CASE PayloadFails
    <2>1. step' \in {"wake", "line", "end"} /\ UNCHANGED asked
      BY <1>13 DEF PayloadFails, Attempt, Reported, Call, Ends, Pause
    <2> QED
      BY <2>1 DEF PlanStep, Asking
  <1>10. CASE Serves
    BY <1>10 DEF Serves, ServeJunk, ServeRefused, ServeCommand, ServeAsk, ServeRestart, ServePiece, ServeText, ServeData, PlanStep
  <1>11. CASE Moves
    BY <1>11 DEF Moves, StagingExpires, ServiceBlocks, ServiceEnds, TxStarts, TxEnds, PlanStep
  <1> QED
    BY <1>1, <1>2, <1>3, <1>4, <1>5, <1>6, <1>7, <1>8, <1>9, <1>10, <1>11, <1>12, <1>13
    DEF Next, Host, Serve, Serves, Moves

LEMMA StepsInPlan ==
  ASSUME Control, opts.run = "wizard", step = "plan"
  PROVE  /\ plan \in Seq([op : Ops, arg : {0}]) /\ plan # <<>> /\ cmd = plan[1]
         /\ Len(plan) \in Nat \ {0} /\ 1 \in 1..Len(plan)
         /\ cmd.op \in Setups /\ (cmd.op = "RESET" => Len(plan) = 1)
         /\ Len(Tail(plan)) = Len(plan) - 1
         /\ \A j \in 1..Len(Tail(plan)) : Tail(plan)[j] = plan[j + 1]
  <1>1. plan \in Seq([op : Ops, arg : {0}]) /\ plan # <<>> /\ cmd = Head(plan)
    BY DEF Control, ToolOK, PlaceInv
  <1>2. Head(plan) = plan[1] /\ Len(plan) \in Nat \ {0} /\ 1 \in 1..Len(plan)
        /\ Len(Tail(plan)) = Len(plan) - 1 /\ \A j \in 1..Len(Tail(plan)) : Tail(plan)[j] = plan[j + 1]
    BY <1>1, LineEnds, Firsts
  <1>3. plan[1].op \in Setups /\ (plan[1].op = "RESET" => 1 = Len(plan))
    BY <1>2 DEF Control, PlanInv
  <1> QED
    BY <1>1, <1>2, <1>3

(* The plan carries what is asked for and not yet confirmed.               *)
LEMMA PlanCarries ==
  ASSUME Control, Control', Device, PlanStep, RestartInv, opts.run = "wizard", ~late,
         step = "plan", step' = "plan", Planned("RESET")',
         UNCHANGED confirmed
  PROVE  \A s \in asked' : s \in confirmed' \/ Planned(s)'
  <1>1. CASE UNCHANGED <<step, plan, asked>>
    BY <1>1 DEF RestartInv, Planned
  <1>2. CASE NoRestart'
    BY <1>2 DEF NoRestart, Planned
  <1>3. CASE /\ plan' = Tail(plan) /\ UNCHANGED asked
             /\ cmd.op = "RESET" \/ (exec = "read" /\ why = "command" /\ ReadResult("OK"))
    <2>1. /\ Len(plan) \in Nat \ {0} /\ 1 \in 1..Len(plan) /\ cmd = plan[1]
          /\ Len(plan') = Len(plan) - 1 /\ (cmd.op = "RESET" => Len(plan) = 1)
          /\ \A j \in 1..Len(plan') : plan'[j] = plan[j + 1]
      BY <1>3, StepsInPlan
    <2>2. PICK k \in 1..Len(plan') : plan'[k].op = "RESET"
      BY DEF Planned
    <2>3. k + 1 \in 1..Len(plan) /\ plan[k + 1].op = "RESET" /\ cmd.op # "RESET"
      BY <2>1, <2>2
    <2>4. Planned("RESET")
      BY <2>3 DEF Planned
    <2>5. Has("OK")
      <3>1. down # <<>> /\ Head(down) = "OK" /\ down \in Seq(Replies)
        BY <1>3, <2>3 DEF ReadResult, Device, LineOK, Replies
      <3> QED
        BY <3>1, Firsts DEF Has
    <2>6. cmd.op \in Settings => cmd.op \in confirmed
      BY <1>3, <2>3, <2>5 DEF RestartInv
    <2>7. ASSUME NEW s \in asked
          PROVE  s \in confirmed \/ Planned(s)'
      <3>1. s \in Settings
        BY DEF Control, ToolOK
      <3>2. CASE Planned(s)
        <4>1. PICK j \in 1..Len(plan) : plan[j].op = s
          BY <3>2 DEF Planned
        <4>2. CASE j = 1
          BY <2>1, <2>6, <3>1, <4>1, <4>2
        <4>3. CASE j # 1
          <5>1. j - 1 \in 1..Len(plan') /\ (j - 1) + 1 = j
            BY <2>1, <4>3
          <5>2. plan'[j - 1].op = s
            BY <2>1, <4>1, <5>1
          <5> QED
            BY <5>1, <5>2 DEF Planned
        <4> QED
          BY <4>2, <4>3
      <3>3. s \in confirmed \/ Planned(s)
        BY <2>4 DEF RestartInv
      <3> QED
        BY <3>2, <3>3
    <2> QED
      BY <1>3, <2>7
  <1> QED
    BY <1>1, <1>2, <1>3 DEF PlanStep, Asking

(* Steps of the tool that leave the line as it is.                         *)
LEMMA RestartOnTool ==
  ASSUME Control, Device, Control', Restart, PlanStep,
         Decision \/ Repetition \/ Skipping \/ Waiting \/ FlushBuffers \/ ReadData \/ Stopped
  PROVE  Restart'
  <1>1. /\ UNCHANGED <<opts, up, deviceVars>>
        /\ ~late' => ~late
    <2>1. late' = late \/ \E result : ReadResult(result)
      BY DEF Decision, Silently, Repetition, Skipping, Waiting, FlushBuffers, ReadData, Stopped
    <2>2. ~late' => ~late
      BY <2>1, Punctual
    <2> QED
      BY <2>2 DEF Decision, Repetition, Skipping, Waiting, FlushBuffers, ReadData, Stopped, Interrupted
  <1>2. OnLine("RESET")' <=> OnLine("RESET")
    BY <1>1 DEF OnLine
  <1>3. UNCHANGED asked \/ step = "answers"
    BY DEF PlanStep
  <1>4. opts'.run = "wizard" /\ step' \in Asking => restarts' = 0 /\ ~OnLine("RESET")'
    <2>1. step' \in Asking => step \in Asking
      BY DEF PlanStep, Asking
    <2> QED
      BY <1>1, <1>2, <2>1 DEF Restart, RestartInv, Asking
  <1>5. RestartsComplete'
    BY <1>1, <1>3 DEF Restart, RestartInv, RestartsComplete
  <1>6. ASSUME opts'.run = "wizard", ~late'
        PROVE  /\ OnLine("RESET")' => asked' \subseteq confirmed'
               /\ step' = "plan" /\ Planned("RESET")' => \A s \in asked' : s \in confirmed' \/ Planned(s)'
               /\ step' = "plan" /\ exec' = "read" /\ why' = "command" /\ Has("OK")' /\ cmd'.op \in Settings
                    => cmd'.op \in confirmed'
    <2>1. opts.run = "wizard" /\ ~late
      BY <1>1, <1>6
    <2>2. OnLine("RESET")' => asked' \subseteq confirmed'
      BY <1>1, <1>2, <1>3, <2>1 DEF Restart, RestartInv
    <2>3. step' = "plan" /\ Planned("RESET")' => \A s \in asked' : s \in confirmed' \/ Planned(s)'
      <3>1. CASE step = "plan"
        BY <1>1, <2>1, <3>1, PlanCarries DEF Restart
      <3>2. CASE step # "plan"
        BY <2>1, <3>2 DEF PlanStep, Asking
      <3> QED
        BY <3>1, <3>2
    <2>4. step' = "plan" /\ exec' = "read" /\ why' = "command" /\ Has("OK")' /\ cmd'.op \in Settings
                    => cmd'.op \in confirmed'
      <3>1. exec' = "read" /\ why' = "command" => ReadData
        BY DEF Decision, Decides, Repetition, Skipping, Waiting, FlushBuffers, Stopped, Interrupted,
               Ends, Pause, Control, PlaceInv
      <3>2. ReadData => /\ UNCHANGED <<step, exec, why, cmd>> /\ exec = "read"
                        /\ Has("OK")' => Has("OK")
        BY Heard DEF ReadData, Device, LineOK, Replies
      <3> QED
        BY <1>1, <2>1, <3>1, <3>2 DEF Restart, RestartInv
    <2> QED
      BY <2>2, <2>3, <2>4
  <1> QED
    BY <1>4, <1>5, <1>6 DEF Restart, RestartInv, Asking

(* RESET is written when nothing else is planned.                          *)
LEMMA RestartOnWrite ==
  ASSUME Control, Device, TimeInv, Control', Restart, SendCommand \/ Prompting \/ Cutting
  PROVE  Restart'
  <1>1. CASE Prompting \/ Cutting
    <2>1. opts.run = "message" /\ opts' = opts
      BY <1>1 DEF Prompting, Cutting, PayloadDue, Control, PlaceInv, Sending
    <2> QED
      BY <2>1 DEF Restart, RestartInv, RestartsComplete
  <1>2. CASE SendCommand
    <2>1. /\ exec = "write" /\ exec' = "read" /\ UNCHANGED <<opts, step, why, cmd, plan, asked, down, deviceVars, late>>
          /\ up' = Append(up, IF why \in {"ensure", "recover"} THEN AT ELSE cmd)
          /\ exit = "running"
      BY <1>2 DEF SendCommand, Control, PlaceInv, ToolOK
    <2> SUFFICES ASSUME opts.run = "wizard" PROVE Restart'
      BY <2>1 DEF Restart, RestartInv, RestartsComplete
    <2>2. OnLine("RESET")' => OnLine("RESET") \/ cmd.op = "RESET"
      <3>1. /\ Len(up) \in Nat /\ Len(up') = Len(up) + 1
            /\ \A j \in 1..Len(up) : up'[j] = up[j]
            /\ up'[Len(up) + 1] = (IF why \in {"ensure", "recover"} THEN AT ELSE cmd)
        BY <2>1, AppendProperties DEF Device, LineOK
      <3>2. \A j \in 1..Len(up') : j \in 1..Len(up) \/ j = Len(up) + 1
        BY <3>1
      <3>3. AT.op # "RESET"
        BY DEF AT, Unit
      <3>4. ASSUME NEW j \in 1..Len(up'), up'[j].op = "RESET"
            PROVE  OnLine("RESET") \/ cmd.op = "RESET"
        <4>1. CASE j \in 1..Len(up)
          BY <3>1, <3>4, <4>1 DEF OnLine
        <4>2. CASE j = Len(up) + 1
          BY <3>1, <3>3, <3>4, <4>2
        <4> QED
          BY <3>2, <4>1, <4>2
      <3> QED
        BY <3>4 DEF OnLine
    <2>3. cmd.op = "RESET" => step = "plan"
      BY DEF Control, PlaceInv, Ask, Unit, Sending
    <2>4. step' \in Asking => restarts' = 0 /\ ~OnLine("RESET")'
      BY <2>1, <2>2, <2>3 DEF Restart, RestartInv, Asking
    <2>5. RestartsComplete'
      BY <2>1 DEF Restart, RestartsComplete
    <2>6. ASSUME ~late
          PROVE  /\ OnLine("RESET")' => asked' \subseteq confirmed'
                 /\ step' = "plan" /\ Planned("RESET")' => \A s \in asked' : s \in confirmed' \/ Planned(s)'
                 /\ step' = "plan" /\ exec' = "read" /\ why' = "command" /\ Has("OK")' /\ cmd'.op \in Settings
                      => cmd'.op \in confirmed'
      <3>1. down = <<>>
        BY <2>1, <2>6 DEF TimeInv, ToolInTime
      <3>2. ~Has("OK")'
        BY <2>1, <3>1, EmptySeq DEF Has
      <3>3. step' = "plan" /\ Planned("RESET")' => \A s \in asked' : s \in confirmed' \/ Planned(s)'
        BY <2>1, <2>6 DEF Restart, RestartInv, Planned
      <3>4. ASSUME cmd.op = "RESET", NEW s \in asked
            PROVE  s \in confirmed
        <4>1. step = "plan"
          BY <2>3, <3>4
        <4>2. cmd = plan[1] /\ Len(plan) = 1
          BY <3>4, <4>1, StepsInPlan
        <4>3. Planned("RESET") /\ (Planned(s) => s = "RESET")
          BY <3>4, <4>2 DEF Planned
        <4>4. s # "RESET"
          BY CommandNames DEF Control, ToolOK, Others
        <4> QED
          BY <2>6, <3>4, <4>1, <4>3, <4>4 DEF Restart, RestartInv
      <3>5. OnLine("RESET") => asked \subseteq confirmed
        BY <2>6 DEF Restart, RestartInv
      <3>6. OnLine("RESET")' => asked' \subseteq confirmed'
        BY <2>1, <2>2, <3>4, <3>5
      <3> QED
        BY <3>2, <3>3, <3>6
    <2> QED
      BY <2>1, <2>4, <2>5, <2>6 DEF Restart, RestartInv, Asking
  <1> QED
    BY <1>1, <1>2

(* A setting the device answers with OK is confirmed, and it restarts only *)
(* on RESET.                                                               *)
LEMMA RestartServed ==
  ASSUME Control, Device, TimeInv, Control', Restart, Serves
  PROVE  Restart'
  <1>0. /\ up # <<>> /\ Head(up) = up[1] /\ 1 \in 1..Len(up) /\ Head(up) \in Sent
        /\ up' = Tail(up) \/ up' = <<>>
        /\ UNCHANGED <<hostVars, opts, late, exec, why, step, cmd, exit, plan, asked>>
    BY ServedLine
  <1> SUFFICES ASSUME opts.run = "wizard" PROVE Restart'
    BY <1>0 DEF Restart, RestartInv, RestartsComplete
  <1>1. OnLine("RESET")' => OnLine("RESET")
    <2>1. CASE up' = <<>>
      BY <2>1, EmptySeq DEF OnLine
    <2>2. CASE up' = Tail(up)
      <3>1. /\ Len(up) \in Nat /\ Len(up') = Len(up) - 1
            /\ \A j \in 1..Len(up') : up'[j] = up[j + 1]
        BY <1>0, <2>2, LineEnds DEF Device, LineOK
      <3>2. \A j \in 1..Len(up') : j + 1 \in 1..Len(up)
        BY <3>1
      <3> QED
        BY <3>1, <3>2 DEF OnLine
    <2> QED
      BY <1>0, <2>1, <2>2
  <1>2. Head(up).op = "RESET" => OnLine("RESET")
    BY <1>0 DEF OnLine
  <1>3. /\ confirmed \subseteq confirmed'
        /\ restarts' = restarts \/ Head(up).op = "RESET"
    <2>1. Head(up).op # "FACTORYRESET"
      BY <1>0 DEF Sent
    <2> QED
      BY <2>1 DEF Serves, ServeJunk, ServeRefused, ServeCommand, ServeAsk, ServeRestart, ServePiece, ServeText, ServeData, Next1
  <1>4. step' \in Asking => restarts' = 0 /\ ~OnLine("RESET")'
    BY <1>0, <1>1, <1>2, <1>3 DEF Restart, RestartInv, Asking
  <1>5. RestartsComplete'
    BY <1>0, <1>2, <1>3 DEF Restart, RestartInv, RestartsComplete
  <1>6. ASSUME ~late
        PROVE  /\ OnLine("RESET")' => asked' \subseteq confirmed'
               /\ step' = "plan" /\ Planned("RESET")' => \A s \in asked' : s \in confirmed' \/ Planned(s)'
               /\ step' = "plan" /\ exec' = "read" /\ why' = "command" /\ Has("OK")' /\ cmd'.op \in Settings
                    => cmd'.op \in confirmed'
    <2>1. OnLine("RESET")' => asked' \subseteq confirmed'
      BY <1>0, <1>1, <1>3, <1>6 DEF Restart, RestartInv
    <2>2. step' = "plan" /\ Planned("RESET")' => \A s \in asked' : s \in confirmed' \/ Planned(s)'
      BY <1>0, <1>3, <1>6 DEF Restart, RestartInv, Planned
    <2>3. ASSUME step = "plan", exec = "read", why = "command", Has("OK")', cmd.op \in Settings
          PROVE  cmd.op \in confirmed'
      <3>1. exit = "running"
        BY <2>3 DEF Control, ToolOK
      <3>2. console = "IDLE" /\ up = << cmd >> /\ down = <<>>
        BY <1>0, <1>6, <2>3, <3>1 DEF TimeInv, ToolInTime
      <3>3. Head(up) = cmd
        BY <3>2, Singles
      <3>4. Head(up).op \in Settings /\ Head(up).op \notin Others
        BY <2>3, <3>3, CommandNames
      <3>5. ~Has("OK")
        BY <3>2, Silence
      <3>6. CASE ServeCommand
        BY <3>3, <3>4, <3>6 DEF ServeCommand, Next1
      <3>7. CASE ServeRefused
        <4>1. Answers(<<"ERROR">>)
          BY <3>7 DEF ServeRefused
        <4> QED
          BY <2>3, <3>1, <3>5, <4>1, HearsOne DEF Replies
      <3> QED
        BY <3>2, <3>4, <3>6, <3>7
        DEF Serves, Serving, ServeJunk, Bits, ServeAsk, ServeRestart, ServePiece, ServeText, ServeData, Next1, Others
    <2> QED
      BY <1>0, <2>1, <2>2, <2>3
  <1> QED
    BY <1>0, <1>4, <1>5, <1>6 DEF Restart, RestartInv, Asking

(* Time stores nothing and restarts nothing.                               *)
LEMMA RestartMoved ==
  ASSUME Control, Device, Control', Restart, Moves, UNCHANGED <<opts, hostVars, report, late>>
  PROVE  Restart'
  <1>1. /\ UNCHANGED <<up, confirmed, restarts>>
        /\ UNCHANGED down \/ Answers(<<"ERROR">>)
    BY DEF Moves, StagingExpires, ServiceBlocks, ServiceEnds, TxStarts, TxEnds
  <1>2. OnLine("RESET")' <=> OnLine("RESET")
    BY <1>1 DEF OnLine
  <1>3. \A s : Planned(s)' <=> Planned(s)
    BY DEF Planned
  <1>4. step = "plan" => (Has("OK")' <=> Has("OK"))
    <2>1. step = "plan" => exit = "running"
      BY DEF Control, ToolOK
    <2>2. CASE UNCHANGED down
      BY <2>2 DEF Has
    <2>3. CASE Answers(<<"ERROR">>)
      BY <2>1, <2>3, HearsOne DEF Replies
    <2> QED
      BY <1>1, <2>2, <2>3
  <1> QED
    BY <1>1, <1>2, <1>3, <1>4 DEF Restart, RestartInv, RestartsComplete

(* Every step keeps the order of settings and restart.                     *)
LEMMA RestartStays ==
  ASSUME Control, Device, TimeInv, Control', Restart, [Next]_vars
  PROVE  Restart'
  <1>1. CASE UNCHANGED vars
    BY <1>1 DEF vars, Restart, RestartInv, RestartsComplete, OnLine, Planned, Has
  <1> QED
    BY <1>1, StepKinds, PlanSteps, RestartOnTool, RestartOnWrite, RestartServed, RestartMoved

-----------------------------------------------------------------------------
(* The inductive invariant, part by part.                                  *)
Whole == Control /\ Device /\ Success /\ HeldInv /\ TimeInv /\ Restart

(* The tool begins with an empty line and a device that waits for nothing. *)
LEMMA InitWhole == Init => Whole
  <1> SUFFICES ASSUME Init PROVE Whole
    OBVIOUS
  <1>1. Control /\ Device
    BY InitControl, InitDevice
  <1>2. /\ up = <<>> /\ down = <<>> /\ step = "init" /\ exec = "flush" /\ why = "command" /\ message = 0
        /\ console = "IDLE" /\ restarts = 0 /\ faults = 0 /\ plan = <<>> /\ ~strange
        /\ copies = [m \in Messages |-> 0] /\ report = [m \in Messages |-> "none"]
    BY DEF Init
  <1>3. (\A a : ~Has(a)) /\ ~OnLine("RESET")
    BY <1>2, EmptySeq DEF Has, OnLine
  <1>4. Success
    BY <1>2 DEF Success, ReadyInv, FinalInv
  <1>5. \A m \in Messages : Held(m) = 0
    BY <1>1, <1>2, HeldUnlived
  <1>6. HeldInv
    BY <1>2, <1>5 DEF HeldInv, Sending
  <1>7. TimeInv
    <2>1. Len(<<>>) <= 1
      OBVIOUS
    <2>2. InTime
      BY <1>2, <1>5, <2>1 DEF InTime
    <2>3. ToolInTime
      BY <1>2 DEF ToolInTime, Sending
    <2> QED
      BY <2>2, <2>3 DEF TimeInv
  <1>8. Restart
    BY <1>2, <1>3 DEF Restart, RestartInv, RestartsComplete
  <1> QED
    BY <1>1, <1>4, <1>6, <1>7, <1>8 DEF Whole

(* Each part is kept on the strength of the ones before it.                *)
LEMMA WholeStays == Whole /\ [Next]_vars => Whole'
  <1> SUFFICES ASSUME Whole, [Next]_vars PROVE Whole'
    OBVIOUS
  <1>1. Control' /\ Device'
    BY DeviceStays DEF Whole
  <1>2. Success'
    BY SuccessStays DEF Whole
  <1>3. HeldInv'
    BY <1>1, HeldStays DEF Whole
  <1>4. TimeInv'
    BY <1>1, <1>3, TimeStays DEF Whole
  <1>5. Restart'
    BY <1>1, RestartStays DEF Whole
  <1> QED
    BY <1>1, <1>2, <1>3, <1>4, <1>5 DEF Whole

(* The inductive invariant holds: what the tool is about, what the line    *)
(* and the device hold, and what each says of the other.                   *)
THEOREM HostWhole == Spec => []Whole
  BY InitWhole, WholeStays, PTL DEF Spec

(* The types of the model are among the parts.                             *)
LEMMA WholeTyped == Whole => HostTypeOK
  <1> SUFFICES ASSUME Whole PROVE HostTypeOK
    OBVIOUS
  <1>1. CallOK /\ ToolOK /\ LineOK /\ ConsoleOK /\ AirOK /\ LateOK
    BY DEF Whole, Control, Device
  <1>2. {strange, accepted, late} \subseteq BOOLEAN
    BY <1>1, Zenon DEF AirOK, LateOK
  <1> QED
    BY <1>1, <1>2 DEF HostTypeOK, CallOK, ToolOK, LineOK, ConsoleOK, AirOK, LateOK, Steps, Units

(* The line's two ends are typed, whatever the command line and however    *)
(* late the answers; and the retries of at_send_flex_message never make    *)
(* more copies of a message than faults explain, however long the device   *)
(* is on the air between them.                                             *)
THEOREM HostSound == Spec => []HostInv
  <1>1. Whole => HostInv
    <2> SUFFICES ASSUME Whole PROVE HostInv
      OBVIOUS
    <2>1. ASSUME NEW m \in Messages
          PROVE  copies[m] <= 1 + faults
      <3>1. /\ copies[m] \in Nat /\ Held(m) \in Nat /\ copies[m] <= Held(m)
            /\ Held(m) <= 1 + faults /\ faults \in Nat
        BY HeldFacts, LimitsPositive DEF Whole, HeldInv, Device, LateOK
      <3> QED
        BY <3>1
    <2> QED
      BY <2>1, WholeTyped DEF HostInv, CopiesHaveCause
  <1> QED
    BY <1>1, HostWhole, PTL

(* "Sent successfully" is said only of an attempt from which the device    *)
(* took something, even when the console was late: the OK that ends        *)
(* at_send_flex_message is not one left over from before the attempt       *)
(* asked.                                                                  *)
THEOREM SuccessHasCause == Spec => SentMeansAccepted
  <1>1. Whole /\ [Next]_vars => [\A m \in Messages : report'[m] = "sent" => report[m] = "sent" \/ accepted]_vars
    BY SentStep DEF Whole
  <1> QED
    BY <1>1, HostWhole, PTL DEF Spec, SentMeansAccepted

(* As long as every answer came in time and no payload was left            *)
(* unfinished, the tool's report of a message is true: sent, and the       *)
(* device has it once; failed, and it has none; and no command or half a   *)
(* frame was ever taken for a text.                                        *)
THEOREM ReportsAreTrue == Spec => []AcceptedAsReported
  <1>1. Whole => AcceptedAsReported
    <2> SUFFICES ASSUME Whole, ~late PROVE AcceptedAsReported
      BY DEF AcceptedAsReported
    <2>1. InTime
      BY DEF Whole, TimeInv
    <2>2. ASSUME NEW m \in Messages
          PROVE  /\ copies[m] <= 1
                 /\ report[m] = "sent" => copies[m] = 1
                 /\ report[m] = "failed" => copies[m] = 0
      <3>1. /\ copies[m] \in Nat /\ Held(m) \in Nat /\ copies[m] <= Held(m) /\ Held(m) <= 1
            /\ report[m] = "sent" => copies[m] = 1
            /\ report[m] = "failed" => Held(m) = 0
        BY <2>1, HeldFacts DEF Whole, InTime
      <3> QED
        BY <3>1
    <2> QED
      BY <2>1, <2>2 DEF AcceptedAsReported, InTime
  <1> QED
    BY <1>1, HostWhole, PTL

(* As long as every answer came in time, the wizard restarts the device    *)
(* only when the device has answered OK to each setting it was to send,    *)
(* whichever commands could not be written or were refused: the OK it went *)
(* on with was never that of another command.                              *)
THEOREM WizardRestartsComplete == Spec => []RestartsComplete
  <1>1. Whole => RestartsComplete
    BY DEF Whole, Restart
  <1> QED
    BY <1>1, HostWhole, PTL
=============================================================================
