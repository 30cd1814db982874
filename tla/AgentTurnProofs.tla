-------------------------- MODULE AgentTurnProofs ---------------------------
(***************************************************************************)
(* Theorems about AgentTurn, for any goals, proposals, answers and numbers *)
(* of commands and checks: a run uses the sandbox as DockerSandbox has it, *)
(* and a checkpoint holds the work of its own turn.                        *)
(***************************************************************************)
EXTENDS AgentTurn, DockerSandboxProofs

-----------------------------------------------------------------------------
(* A run is one user of the sandbox. *)

LEMMA RunUsesSandbox == RunStep => [Next]_vars
<1> SUFFICES ASSUME RunStep PROVE [Next]_vars
  OBVIOUS
<1>1. CASE RunCommand \/ RunCheck
  BY <1>1 DEF RunCommand, RunCheck, RunsNext, Next
<1>2. CASE Finally
  BY <1>2 DEF Finally, Next
<1>3. CASE ~(RunCommand \/ RunCheck \/ Finally)
  BY <1>3 DEF RunStep, NewController, ValidateGoal, BeginTurn, Request, CheckPolicy, ApplyEdits,
    NoMoreCommands, CommandEnds, RollBack, Checkpoint, CheckEnds, Judge, EndVerification, Goto
<1> QED
  BY <1>1, <1>2, <1>3

LEMMA TurnUsesSandbox == [TurnNext]_allVars => [Next]_vars
<1> SUFFICES ASSUME [TurnNext]_allVars PROVE [Next]_vars
  OBVIOUS
<1>1. CASE RunStep
  BY <1>1, RunUsesSandbox
<1>2. CASE ProposeScripted \/ Answer \/ AgentRaises
  BY <1>2 DEF ProposeScripted, Answer, AgentRaises, Receive, Goto
<1>3. CASE SandboxStep
  BY <1>3 DEF SandboxStep, Next
<1>4. CASE UNCHANGED vars
  BY <1>4
<1>5. ASSUME NEW c \in Calls, Write(c) PROVE UNCHANGED vars
  BY <1>5 DEF Write
<1> QED
  BY <1>1, <1>2, <1>3, <1>4, <1>5 DEF TurnNext, allVars

\* The composition implements DockerSandbox: whatever the agent proposes, execute
\* and close are called one at a time, close at the end (controller.py:694-695,
\* 777-784), so that what is proved of the sandbox holds of a run.
THEOREM RunsUseTheSandbox == TurnSpec => Spec
<1>1. TurnInit => Init
  BY DEF TurnInit
<1> QED
  BY <1>1, TurnUsesSandbox, PTL DEF TurnSpec, Spec

-----------------------------------------------------------------------------
(* The calls of execute that returned. *)

\* execute returned: its command is over, and nothing that is left of the call
\* can start it.
AtRest(c) ==
  /\ life[c] \in {"exited", "killed", "removed"}
  /\ \A job \in threads : job.of = c => job.op = "wait"

Returned(c) == outcome[c] \in {"exited", "timed_out"}

RestInv ==
  \A c \in Calls :
    /\ c > call \/ (c = call /\ pc \in Awaited) => outcome[c] = "none"
    /\ Returned(c) => AtRest(c)

LEMMA RestStep == Typed /\ CourseInv /\ RestInv /\ [Next]_vars => RestInv'
<1> SUFFICES ASSUME Typed, CourseInv, RestInv, [Next]_vars PROVE RestInv'
  OBVIOUS
<1> USE SandboxAssumption DEF Awaited, Calls, Jobs, Job, RestInv, Returned, AtRest
<1>1. CASE Execute \/ TimeOut \/ ReadLogs \/ Close \/ Closed
  BY <1>1 DEF Typed, Execute, TimeOut, ReadLogs, Close, Closed
<1>2. CASE Create \/ Start \/ Wait \/ Kill
  BY <1>2 DEF Typed, Create, Start, Wait, Kill, CarriedOut, Become
<1>3. CASE Remove
  <2>1. /\ pc' = "idle" /\ call' = call /\ threads' = threads /\ call \in Calls
        /\ outcome' \in {[outcome EXCEPT ![call] = HowItEnded], [outcome EXCEPT ![call] = "OSError"]}
        /\ life' = life \/ life' = [life EXCEPT ![call] = "removed"]
    BY <1>3 DEF Typed, Remove, End, CarriedOut, Become
  <2>2. Returned(call)' => AtRest(call)
    BY <1>3, <2>1 DEF Typed, CourseInv, HowItEnded, Remove
  <2> QED
    BY <1>3, <2>1, <2>2 DEF Typed, Remove
<1>4. CASE Fail
  <2>1. pc \in Awaited /\ call \in Calls /\ call' = call /\ threads' = threads
    BY <1>4 DEF Typed, Fail
  <2>2. \A c \in Calls : c # call => life'[c] = life[c]
    BY <1>4, <2>1, DaemonStep DEF Fail
  <2>3. \/ /\ pc' = "idle"
           /\ outcome' \in {[outcome EXCEPT ![call] = "SandboxError"], [outcome EXCEPT ![call] = "OSError"]}
        \/ pc' = "remove" /\ outcome' = outcome
    BY <1>4 DEF Fail, Leave, End
  <2> QED
    BY <2>1, <2>2, <2>3 DEF Typed
<1>5. CASE Cancel
  <2>1. \/ pc' = "idle" /\ outcome' = [outcome EXCEPT ![call] = "CancelledError"]
        \/ pc' = "remove" /\ outcome' = outcome
    BY <1>5 DEF Cancel, Leave, End
  <2>2. /\ pc \in Awaited /\ call \in Calls /\ call' = call /\ life' = life
        /\ threads' = threads \union {Job(pc)}
    BY <1>5 DEF Typed, Cancel
  <2> QED
    BY <2>1, <2>2 DEF Typed
<1>6. CASE CloseContainer
  BY <1>6 DEF Typed, CloseContainer, CarriedOut, Become, locals
<1>7. ASSUME NEW c \in Calls, Exit(c) PROVE RestInv'
  BY <1>7 DEF Typed, Exit, Become, locals
<1>8. ASSUME NEW job \in threads, Finish(job) PROVE RestInv'
  <2>1. job.op \in Awaited /\ job.of \in Calls
    BY DEF Typed
  <2>2. UNCHANGED <<pc, call, outcome>> /\ threads' = threads \ {job}
    BY <1>8 DEF Finish, locals
  <2>3. \A c \in Calls : c # job.of => life'[c] = life[c]
    BY <1>8, <2>1, DaemonStep DEF Finish
  <2>4. job.op = "wait" => life' = life
    BY <1>8 DEF Finish, CarriedOut
  <2> QED
    BY <2>1, <2>2, <2>3, <2>4
<1>9. CASE UNCHANGED vars
  BY <1>9 DEF vars, locals
<1> QED
  BY <1>1, <1>2, <1>3, <1>4, <1>5, <1>6, <1>7, <1>8, <1>9 DEF Next

SandboxInv == Typed /\ LeakInv /\ CourseInv /\ RestInv

LEMMA SandboxInvariant == Spec => []SandboxInv
<1>1. Init => CourseInv /\ RestInv
  BY SandboxAssumption DEF Init, CourseInv, RestInv, Returned, Awaited, Calls
<1> QED
  BY <1>1, LeakInvariant, CourseStep, RestStep, PTL DEF Spec, SandboxInv

-----------------------------------------------------------------------------
(* What a checkpoint holds. *)

Before(w) == w.turn < turn /\ w.kind = "check"

Here(w) == w.turn = turn /\ w.kind \in {"edits", "command"}

Checked(w) == w.turn <= turn /\ w.kind = "check"

\* Who may have written what is not committed, by the stage of the run.
WriterFits(w) ==
  /\ w.turn \in Nat
  /\ \/ stage \in {"new", "validate", "loop", "evaluate", "evaluating"} /\ Checked(w)
     \/ stage \in {"request", "awaiting", "policy"} /\ Before(w)
     \/ stage \in {"edits", "commands", "running", "failed", "checkpoint"} /\ (Before(w) \/ Here(w))
     \/ stage \in {"verify", "verifying", "finally", "closing", "refused"}

Accounted(w) == LeftBehind(w.call) \/ WriterFits(w)

Executing == {"running", "evaluating", "verifying"}

\* A call of execute after which the run may go on to anything but its end.
WentOn(c) == Returned(c) \/ outcome[c] = "OSError"

\* The last call of execute is that of the stage and the turn.
ExecuteFits ==
  /\ pc \in Awaited => stage \in Executing
  /\ stage \in Executing =>
       /\ call \in Calls /\ runs[call].turn = turn
       /\ runs[call].kind = IF stage = "running" THEN "command" ELSE "check"
  /\ \A c \in Calls :
       /\ c < call => WentOn(c)
       /\ c = call => WentOn(c) \/ stage \in Executing \union {"finally", "closing"}

RunsTyped ==
  /\ turn \in Nat
  /\ runs = [c \in Calls |-> runs[c]]
  /\ \A c \in Calls : runs[c].turn \in Nat /\ runs[c].call = c

CommitInv ==
  /\ RunsTyped /\ ExecuteFits
  /\ \A w \in writers : Accounted(w)
  /\ CommitsAreOfTheirTurn

-----------------------------------------------------------------------------

\* The sandbox goes on with a call only if one is going on; a new one begins
\* with execute.  How earlier calls ended stands.
LEMMA SandboxGoesOn ==
  ASSUME Typed, [Next]_vars, ~Execute
  PROVE  /\ pc' \in Awaited => pc \in Awaited
         /\ call' = call
         /\ \A c \in Calls : outcome'[c] # outcome[c] => c = call /\ pc \in Awaited
         /\ unanswered \subseteq unanswered'
BY DEF Typed, Next, vars, locals, Create, Start, Wait, TimeOut, Kill, ReadLogs, Remove, Fail,
  Cancel, Close, CloseContainer, Closed, Exit, Finish, Awaited, Leave, End, NotAnswered

\* What is left behind stays so.
LEMMA LeftBehindStays ==
  ASSUME SandboxInv, [Next]_vars, NEW c, LeftBehind(c)
  PROVE  LeftBehind(c)'
<1>1. c \in Calls /\ outcome[c] = "OSError" /\ Unanswered("remove", c) /\ Typed /\ RestInv
  BY DEF LeftBehind, SandboxInv
<1>2. outcome'[c] = outcome[c] /\ unanswered \subseteq unanswered'
  <2>1. CASE Execute
    BY <2>1 DEF Execute
  <2>2. CASE ~Execute
    BY <1>1, <2>2, SandboxGoesOn DEF RestInv
  <2> QED
    BY <2>1, <2>2
<1> QED
  BY <1>1, <1>2 DEF LeftBehind, Unanswered

\* A command that runs is left behind, or that of the last call.
LEMMA RunningFits ==
  ASSUME SandboxInv, ExecuteFits, NEW c \in Calls, life[c] = "running"
  PROVE  LeftBehind(c) \/ (c = call /\ stage \in Executing \union {"finally", "closing"})
<1>1. ~Returned(c)
  BY DEF SandboxInv, RestInv, AtRest
<1>2. c \in Nat /\ call \in Nat
  BY SandboxAssumption DEF SandboxInv, Typed, Calls
<1>3. ~(c > call)
  BY DEF SandboxInv, LeakInv, Untouched
<1>4. outcome[c] = "OSError" => LeftBehind(c)
  <2> SUFFICES ASSUME outcome[c] = "OSError" PROVE Unanswered("remove", c)
    BY DEF LeftBehind
  <2>1. Ended(c)
    BY <1>2, <1>3 DEF SandboxInv, RestInv, Ended
  <2> QED
    BY <2>1 DEF SandboxInv, LeakInv, Settled
<1> QED
  BY <1>1, <1>2, <1>3, <1>4 DEF ExecuteFits, WentOn

LEMMA CommitInit == TurnInit => CommitInv
<1> SUFFICES ASSUME TurnInit PROVE CommitInv
  OBVIOUS
<1>1. \A c \in Calls : c \in Nat /\ c > 0
  BY SandboxAssumption DEF Calls
<1>2. RunsTyped
  BY <1>1 DEF TurnInit, RunsTyped
<1>3. ExecuteFits
  BY <1>1 DEF TurnInit, Init, ExecuteFits, Executing, Awaited
<1> QED
  BY <1>2, <1>3 DEF TurnInit, CommitInv, CommitsAreOfTheirTurn

\* A step of the run itself is taken when execute is not under way.
LEMMA IdleStep ==
  ASSUME ExecuteFits, RunStep \/ ProposeScripted \/ Answer \/ AgentRaises
  PROVE  pc \notin Awaited
BY DEF ExecuteFits, Executing, Awaited, RunStep, NewController, ValidateGoal, BeginTurn, Request,
  CheckPolicy, ApplyEdits, RunCommand, NoMoreCommands, CommandEnds, RollBack, Checkpoint, RunCheck,
  CheckEnds, Judge, EndVerification, Finally, ProposeScripted, Answer, AgentRaises

\* A step of the run between two calls of execute that lets the commit be:
\* whoever wrote fits the next stage.
LEMMA RunKeepsCommit ==
  ASSUME CommitInv, UNCHANGED <<vars, runs, committed>>, pc \notin Awaited, turn' \in Nat,
         stage' \notin Executing,
         stage \notin Executing \union {"finally", "closing"}
           \/ stage' = "finally" \/ \A c \in Calls : c = call => WentOn(c),
         \A w \in writers' : LeftBehind(w.call) \/ WriterFits(w)'
  PROVE  CommitInv'
<1>1. RunsTyped' /\ CommitsAreOfTheirTurn'
  BY DEF CommitInv, RunsTyped, CommitsAreOfTheirTurn, LeftBehind, Unanswered, vars
<1>2. ExecuteFits'
  BY DEF CommitInv, ExecuteFits, WentOn, Returned, vars, locals
<1>3. \A w \in writers' : Accounted(w)'
  BY DEF Accounted, LeftBehind, Unanswered, vars
<1> QED
  BY <1>1, <1>2, <1>3 DEF CommitInv

LEMMA ExecuteKeepsCommit ==
  ASSUME Typed, CommitInv, Execute, NEW kind \in {"command", "check"}, NEW command,
         RunsNext(kind, command),
         stage' = IF kind = "command" THEN "running"
                  ELSE IF stage = "evaluate" THEN "evaluating" ELSE "verifying",
         stage \in IF kind = "command" THEN {"commands"} ELSE {"evaluate", "verify"},
         UNCHANGED <<turn, writers, committed>>
  PROVE  CommitInv'
<1>1. call' \in Calls /\ call' = call + 1 /\ outcome' = outcome
  BY SandboxAssumption DEF Typed, Execute, Calls
<1>2. RunsTyped'
  BY <1>1 DEF CommitInv, RunsTyped, RunsNext, Writer
<1>3. ExecuteFits'
  <2>1. /\ stage' \in Executing /\ runs'[call'].turn = turn'
        /\ runs'[call'].kind = IF stage' = "running" THEN "command" ELSE "check"
    BY <1>1 DEF CommitInv, RunsTyped, Executing, RunsNext, Writer
  <2>2. \A c \in Calls : c < call' => c < call \/ c = call
    BY <1>1, SandboxAssumption DEF Typed, Calls
  <2>3. stage \notin Executing \union {"finally", "closing"}
    BY DEF Executing
  <2> QED
    BY <1>1, <2>1, <2>2, <2>3 DEF CommitInv, ExecuteFits, WentOn, Returned
<1>4. \A c : LeftBehind(c) => LeftBehind(c)'
  BY DEF Execute, LeftBehind, Unanswered
<1>5. CommitsAreOfTheirTurn'
  BY <1>4 DEF CommitInv, CommitsAreOfTheirTurn
<1>6. \A w \in writers' : Accounted(w)'
  BY <1>4 DEF CommitInv, Accounted, WriterFits, Before, Here, Checked
<1> QED
  BY <1>2, <1>3, <1>5, <1>6 DEF CommitInv

LEMMA CommitStep == SandboxInv /\ CommitInv /\ [TurnNext]_allVars => CommitInv'
<1> SUFFICES ASSUME SandboxInv, CommitInv, [TurnNext]_allVars PROVE CommitInv'
  OBVIOUS
<1>0. turn \in Nat /\ Typed /\ ExecuteFits /\ \A w \in writers : LeftBehind(w.call) \/ WriterFits(w)
  BY DEF CommitInv, RunsTyped, SandboxInv, Accounted
<1>00. \A c : LeftBehind(c) => LeftBehind(c)'
  BY TurnUsesSandbox, LeftBehindStays
<1>1. CASE NewController \/ Request \/ NoMoreCommands \/ EndVerification
  <2>1. pc \notin Awaited /\ UNCHANGED <<vars, runs, committed, turn, writers>>
    BY <1>0, <1>1, IdleStep DEF RunStep, NewController, Request, NoMoreCommands, EndVerification, Goto
  <2>2. \/ stage = "new" /\ stage' \in {"validate", "refused"}
        \/ stage = "request" /\ stage' = "awaiting"
        \/ stage = "commands" /\ stage' = "checkpoint"
        \/ stage = "verify" /\ stage' = "finally"
    BY <1>1 DEF NewController, Request, NoMoreCommands, EndVerification, Goto
  <2>3. ASSUME NEW w \in writers, WriterFits(w) PROVE WriterFits(w)'
    <3>1. /\ Before(w)' <=> Before(w)
          /\ Here(w)' <=> Here(w)
          /\ Checked(w)' <=> Checked(w)
      BY <2>1 DEF Before, Here, Checked
    <3> QED
      BY <2>2, <2>3, <3>1 DEF WriterFits
  <2> QED
    BY <1>0, <2>1, <2>2, <2>3, RunKeepsCommit DEF Executing
<1>2. CASE ProposeScripted \/ Answer \/ AgentRaises \/ CheckPolicy
  <2>1. pc \notin Awaited /\ UNCHANGED <<vars, runs, committed, turn, writers>>
    BY <1>0, <1>2, IdleStep DEF RunStep, ProposeScripted, Answer, AgentRaises, CheckPolicy, Receive, Goto
  <2>2. /\ stage \in {"awaiting", "policy"}
        /\ stage' \in {"policy", "request", "finally", "edits", "loop"}
    BY <1>2 DEF ProposeScripted, Answer, AgentRaises, CheckPolicy, Receive, Goto
  <2>3. ASSUME NEW w \in writers, WriterFits(w) PROVE WriterFits(w)'
    <3>1. /\ Before(w)' <=> Before(w)
          /\ Here(w)' <=> Here(w)
          /\ Checked(w)' <=> Checked(w)
      BY <2>1 DEF Before, Here, Checked
    <3>2. w.turn < turn => w.turn <= turn
      BY <1>0, <2>3 DEF WriterFits
    <3> QED
      BY <2>2, <2>3, <3>1, <3>2 DEF WriterFits, Before, Checked
  <2> QED
    BY <1>0, <2>1, <2>2, <2>3, RunKeepsCommit DEF Executing
<1>3. CASE CommandEnds \/ CheckEnds
  <2>1. pc \notin Awaited /\ UNCHANGED <<vars, runs, committed, turn, writers>>
    BY <1>0, <1>3, IdleStep DEF RunStep, CommandEnds, CheckEnds, Goto
  <2>2. \/ stage = "running" /\ stage' \in {"commands", "failed", "finally"}
        \/ stage = "evaluating" /\ stage' \in {"evaluate", "finally"}
        \/ stage = "verifying" /\ stage' \in {"verify", "finally"}
    BY <1>3 DEF CommandEnds, CheckEnds, Goto
  <2>3. stage' = "finally" \/ \A c \in Calls : c = call => WentOn(c)
    BY <1>3 DEF CommandEnds, CheckEnds, Goto, WentOn, Returned
  <2>4. \A w \in writers' : LeftBehind(w.call) \/ WriterFits(w)'
    BY <1>0, <2>1, <2>2 DEF WriterFits, Before, Here, Checked
  <2>5. stage' \notin Executing
    BY <2>2 DEF Executing
  <2> QED
    BY <1>0, <2>1, <2>3, <2>4, <2>5, RunKeepsCommit
<1>4. CASE ValidateGoal
  <2>1. /\ pc \notin Awaited /\ UNCHANGED <<vars, runs, committed, turn>>
        /\ writers' \in {writers, {Writer("check", 0, NoCommand)}}
        /\ stage = "validate" /\ stage' \in {"loop", "finally"}
    BY <1>0, <1>4, IdleStep DEF RunStep, ValidateGoal, Goto
  <2>2. ASSUME NEW w, w = Writer("check", 0, NoCommand) PROVE WriterFits(w)'
    BY <1>0, <2>1, <2>2 DEF Writer, WriterFits, Checked
  <2>3. \A w \in writers : LeftBehind(w.call) \/ WriterFits(w)'
    BY <1>0, <2>1 DEF WriterFits, Checked
  <2> QED
    BY <1>0, <2>1, <2>2, <2>3, RunKeepsCommit DEF Executing
<1>5. CASE BeginTurn
  <2>1. /\ pc \notin Awaited /\ UNCHANGED <<vars, runs, committed, writers>>
        /\ turn' = turn + 1
        /\ stage = "loop" /\ stage' \in {"request", "finally"}
    BY <1>0, <1>5, IdleStep DEF RunStep, BeginTurn, Goto
  <2>2. ASSUME NEW w \in writers, WriterFits(w) PROVE WriterFits(w)'
    <3>1. w.turn \in Nat /\ Checked(w)
      BY <2>1, <2>2 DEF WriterFits
    <3>2. Checked(w) => Before(w)'
      BY <1>0, <2>1, <3>1 DEF Checked, Before
    <3> QED
      BY <2>1, <3>1, <3>2 DEF WriterFits
  <2>3. turn' \in Nat
    BY <1>0, <2>1
  <2> QED
    BY <1>0, <2>1, <2>2, <2>3, RunKeepsCommit DEF Executing
<1>6. CASE ApplyEdits
  <2>1. /\ pc \notin Awaited /\ UNCHANGED <<vars, runs, committed, turn>>
        /\ writers' \subseteq writers \union {Writer("edits", 0, NoCommand)}
        /\ stage = "edits" /\ stage' \in {"failed", "commands"}
    BY <1>0, <1>6, IdleStep DEF RunStep, ApplyEdits, Goto
  <2>2. ASSUME NEW w, w = Writer("edits", 0, NoCommand) PROVE WriterFits(w)'
    BY <1>0, <2>1, <2>2 DEF Writer, WriterFits, Here
  <2>3. \A w \in writers : LeftBehind(w.call) \/ WriterFits(w)'
    BY <1>0, <2>1 DEF WriterFits, Before, Here
  <2> QED
    BY <1>0, <2>1, <2>2, <2>3, RunKeepsCommit DEF Executing
<1>7. CASE RollBack \/ Judge
  <2>1. /\ pc \notin Awaited /\ UNCHANGED <<vars, runs, committed, turn>>
        /\ stage \in {"failed", "evaluate"}
        /\ \/ stage' = "loop" /\ writers' = {}
           \/ stage' = "loop" /\ writers' = writers /\ stage = "evaluate"
           \/ stage' \in {"finally", "verify"} /\ writers' = writers
    BY <1>0, <1>7, IdleStep DEF RunStep, RollBack, Judge, Goto
  <2>2. \A w \in writers' : LeftBehind(w.call) \/ WriterFits(w)'
    BY <1>0, <2>1 DEF WriterFits, Before, Here, Checked
  <2> QED
    BY <1>0, <2>1, <2>2, RunKeepsCommit DEF Executing
<1>8. CASE Checkpoint
  <2>1. /\ pc \notin Awaited /\ UNCHANGED <<vars, runs, turn>> /\ stage = "checkpoint"
        /\ \/ stage' = "evaluate" /\ writers' = {} /\ committed' = committed
           \/ stage' = "evaluate" /\ writers' = {} /\ committed' = [turn |-> turn, by |-> writers]
           \/ stage' = "finally" /\ UNCHANGED <<writers, committed>>
    BY <1>0, <1>8, IdleStep DEF RunStep, Checkpoint, Goto
  <2>2. \A w \in writers' : LeftBehind(w.call) \/ WriterFits(w)'
    BY <1>0, <2>1 DEF WriterFits, Before, Here, Checked
  <2>3. CASE committed' = committed
    BY <1>0, <2>1, <2>2, <2>3, RunKeepsCommit DEF Executing
  <2>4. CASE committed' = [turn |-> turn, by |-> writers]
    <3>1. \A w \in writers : LeftBehind(w.call) \/ Before(w) \/ Here(w)
      BY <1>0, <2>1 DEF WriterFits
    <3>2. CommitsAreOfTheirTurn'
      BY <1>00, <2>4, <3>1 DEF CommitsAreOfTheirTurn, Before, Here
    <3>3. RunsTyped'
      BY <2>1 DEF CommitInv, RunsTyped
    <3>4. ExecuteFits'
      BY <1>0, <2>1 DEF ExecuteFits, Executing, WentOn, Returned, vars, locals
    <3> QED
      BY <1>00, <2>2, <3>2, <3>3, <3>4 DEF CommitInv, Accounted
  <2> QED
    BY <2>1, <2>3, <2>4
<1>9. CASE RunCommand \/ RunCheck
  <2>1. CASE RunCommand
    BY <1>0, <2>1, ExecuteKeepsCommit DEF RunCommand, RunsNext
  <2>2. CASE RunCheck
    BY <1>0, <2>2, ExecuteKeepsCommit DEF RunCheck, RunsNext
  <2> QED
    BY <1>9, <2>1, <2>2
<1>10. CASE Finally
  <2>1. /\ UNCHANGED <<runs, turn, committed, call, outcome>> /\ writers' = {}
        /\ stage = "finally" /\ stage' = "closing" /\ pc' = "closing"
    BY <1>10 DEF Finally, Close
  <2>2. RunsTyped' /\ CommitsAreOfTheirTurn'
    BY <1>00, <2>1 DEF CommitInv, RunsTyped, CommitsAreOfTheirTurn
  <2>3. ExecuteFits'
    BY <1>0, <2>1 DEF ExecuteFits, Executing, WentOn, Returned, Awaited
  <2> QED
    BY <2>1, <2>2, <2>3 DEF CommitInv
<1>11. CASE SandboxStep /\ UNCHANGED turnVars
  <2>1. ~Execute
    <3>1. call' = call
      BY <1>11 DEF SandboxStep, locals, Create, Start, Wait, TimeOut, Kill, ReadLogs, Remove, Fail,
        Cancel, CloseContainer, Closed, Exit, Finish
    <3> QED
      BY <1>0, <3>1 DEF Execute, Typed
  <2>2. /\ pc' \in Awaited => pc \in Awaited
        /\ call' = call
        /\ \A c \in Calls : outcome'[c] # outcome[c] => c = call /\ pc \in Awaited
    BY <1>0, <2>1, TurnUsesSandbox, SandboxGoesOn
  <2>3. UNCHANGED <<stage, turn, runs, committed, writers>>
    BY <1>11 DEF turnVars
  <2>4. ExecuteFits'
    <3>1. call \in Nat
      BY <1>0, SandboxAssumption DEF Typed
    <3>2. \A c \in Calls : outcome'[c] = outcome[c] \/ (c = call /\ stage \in Executing)
      BY <1>0, <2>2 DEF ExecuteFits
    <3> QED
      BY <1>0, <2>2, <2>3, <3>1, <3>2 DEF ExecuteFits, WentOn, Returned
  <2>5. RunsTyped' /\ CommitsAreOfTheirTurn'
    BY <1>00, <2>3 DEF CommitInv, RunsTyped, CommitsAreOfTheirTurn
  <2>6. \A w \in writers' : Accounted(w)'
    BY <1>0, <1>00, <2>3 DEF Accounted, WriterFits, Before, Here, Checked
  <2> QED
    BY <2>4, <2>5, <2>6 DEF CommitInv
<1>12. ASSUME NEW c \in Calls, Write(c) PROVE CommitInv'
  <2>1. LeftBehind(runs[c].call) \/ WriterFits(runs[c])
    <3>1. LeftBehind(c) \/ (c = call /\ stage \in Executing \union {"finally", "closing"})
      BY <1>0, <1>12, RunningFits DEF Write
    <3>2. runs[c].turn \in Nat /\ runs[c].call = c
      BY DEF CommitInv, RunsTyped
    <3> QED
      BY <1>0, <3>1, <3>2 DEF ExecuteFits, Executing, WriterFits, Here, Checked
  <2>2. writers' = writers \union {runs[c]} /\ UNCHANGED <<vars, stage, turn, runs, committed>>
    BY <1>12 DEF Write
  <2>3. \A w \in writers' : Accounted(w)'
    BY <1>0, <1>00, <2>1, <2>2 DEF Accounted, WriterFits, Before, Here, Checked
  <2>4. RunsTyped' /\ ExecuteFits' /\ CommitsAreOfTheirTurn'
    BY <1>00, <2>2
    DEF CommitInv, RunsTyped, ExecuteFits, WentOn, Returned, CommitsAreOfTheirTurn, vars, locals
  <2> QED
    BY <2>3, <2>4 DEF CommitInv
<1>13. CASE UNCHANGED allVars
  <2>1. UNCHANGED <<vars, stage, turn, runs, committed, writers>>
    BY <1>13 DEF allVars, turnVars
  <2>2. RunsTyped' /\ ExecuteFits' /\ CommitsAreOfTheirTurn'
    BY <1>00, <2>1
    DEF CommitInv, RunsTyped, ExecuteFits, WentOn, Returned, CommitsAreOfTheirTurn, vars, locals
  <2>3. \A w \in writers' : Accounted(w)'
    BY <1>0, <1>00, <2>1 DEF Accounted, WriterFits, Before, Here, Checked
  <2> QED
    BY <2>2, <2>3 DEF CommitInv
<1> QED
  BY <1>1, <1>2, <1>3, <1>4, <1>5, <1>6, <1>7, <1>8, <1>9, <1>10, <1>11, <1>12, <1>13
  DEF TurnNext, RunStep

\* The promise of the sandbox and the invariant of the run hold together.
LEMMA CommitInvariant == TurnSpec => [](SandboxInv /\ CommitInv)
BY CommitInit, CommitStep, RunsUseTheSandbox, SandboxInvariant, PTL DEF TurnSpec

\* In files that no ignore file hides, a checkpoint holds the work of its own
\* turn and what checks of earlier turns wrote: a command of a turn that failed
\* adds nothing to it, however late it ends, unless it was left behind when the
\* docker client broke off with an OSError (controller.py:475-497, 809).
THEOREM CommitsHoldTheirTurn == TurnSpec => []CommitsAreOfTheirTurn
<1>1. CommitInv => CommitsAreOfTheirTurn
  BY DEF CommitInv
<1> QED
  BY <1>1, CommitInvariant, PTL

\* Two commands of a run are in the workspace at once only if the earlier one was
\* left behind: any other that runs is the last that was started
\* (controller.py:777, 809).
THEOREM CommandsAreAlone == TurnSpec => []CommandsRunAlone
<1>1. SandboxInv /\ CommitInv => CommandsRunAlone
  <2> SUFFICES ASSUME SandboxInv, ExecuteFits, NEW c \in Calls, NEW d \in Calls,
                      c < d, life[c] = "running", life[d] = "running"
               PROVE  LeftBehind(c)
    BY DEF CommitInv, CommandsRunAlone
  <2>1. ~(d > call)
    BY DEF SandboxInv, LeakInv, Untouched
  <2>2. c # call
    BY <2>1, SandboxAssumption DEF SandboxInv, Typed, Calls
  <2> QED
    BY <2>2, RunningFits
<1> QED
  BY <1>1, CommitInvariant, PTL

-----------------------------------------------------------------------------
(* Which commands run. *)

\* What the policy engine lets pass is permitted, command by command.
LEMMA AllowedIsPermitted ==
  ASSUME NEW p, CheckProposal(goal, p).allowed, NEW i \in DOMAIN p.commands
  PROVE  Permitted(p.commands[i])
<1>1. CommandViolations(goal, p.commands[i]) = {}
  BY DEF CheckProposal
<1>2. p.commands[i].timeout_seconds <= goal.max_runtime_seconds
  BY DEF CheckProposal, TimeoutsWithinLimit
<1>3. /\ ~IsShellString(p.commands[i]) /\ IsAllowed(goal, p.commands[i])
      /\ ~HasForbiddenPattern(goal, p.commands[i])
  BY <1>1 DEF CommandViolations
<1> QED
  BY <1>2, <1>3 DEF Permitted, IsShellString, IsAllowed, HasForbiddenPattern

\* The proposal under way keeps its shape, and what is left of it was checked.
PlanFits ==
  /\ stage \in {"policy", "edits", "commands", "running"} =>
       DOMAIN plan = ProposalFields /\ \E S : plan.commands \in Seq(S)
  /\ stage \in {"edits", "commands", "running"} =>
       \A i \in DOMAIN plan.commands : Permitted(plan.commands[i])

GoalFits == stage \notin {"new", "validate", "refused", "finally", "closing"} => Validate(goal) = {}

\* The commands of earlier turns are behind it; those of this one before the
\* command that is to run next have succeeded.
CallFits(c) ==
  /\ c > call => runs[c].kind = "none"
  /\ runs[c].kind = "command" =>
       /\ Permitted(runs[c].command) /\ Validate(goal) = {} /\ runs[c].turn <= turn
       /\ stage \in {"request", "awaiting", "policy", "edits"} => runs[c].turn < turn
       /\ stage = "commands" /\ runs[c].turn = turn => c \in succeeded
       /\ stage = "running" /\ runs[c].turn = turn => c = call \/ c \in succeeded
       /\ \A d \in 1 .. c - 1 :
            runs[d].kind = "command" /\ runs[d].turn = runs[c].turn => d \in succeeded

PermitInv == PlanFits /\ GoalFits /\ \A c \in Calls : CallFits(c)

LEMMA PermitInit == TurnInit => PermitInv
BY DEF TurnInit, PermitInv, PlanFits, GoalFits, CallFits

\* A step of the stage without a new command: the calls stand as they stood.
LEMMA CallsStand ==
  ASSUME CommitInv, PermitInv, UNCHANGED <<goal, call, runs>>, succeeded \subseteq succeeded',
         \/ UNCHANGED <<stage, turn>>
         \/ turn' = turn /\ stage' \notin {"commands", "running"}
              /\ (stage' \in {"request", "awaiting", "policy", "edits"}
                    => stage \in {"request", "awaiting", "policy", "edits"})
         \/ turn' = turn + 1 /\ stage' \in {"request", "finally"}
         \/ turn' = turn /\ stage = "edits" /\ stage' \in {"commands", "failed"}
         \/ turn' = turn /\ stage = "running" /\ stage' = "commands" /\ call \in succeeded'
  PROVE  \A c \in Calls : CallFits(c)'
<1> SUFFICES ASSUME NEW c \in Calls PROVE CallFits(c)'
  OBVIOUS
<1>1. CallFits(c) /\ runs[c].turn \in Nat /\ turn \in Nat
  BY DEF PermitInv, CommitInv, RunsTyped
<1>2. Permitted(runs[c].command) <=> Permitted(runs[c].command)'
  BY DEF Permitted
<1>3. CASE runs[c].kind # "command"
  BY <1>1, <1>3 DEF CallFits
<1>4. CASE runs[c].kind = "command"
  <2>1. /\ ~(c > call)
        /\ Permitted(runs[c].command) /\ Validate(goal) = {} /\ runs[c].turn <= turn
        /\ \A d \in 1 .. c - 1 :
             runs[d].kind = "command" /\ runs[d].turn = runs[c].turn => d \in succeeded
    BY <1>1, <1>4 DEF CallFits
  <2>2. /\ runs[c].turn <= turn'
        /\ stage' \in {"request", "awaiting", "policy", "edits"} => runs[c].turn < turn'
        /\ stage' = "commands" /\ runs[c].turn = turn' => c \in succeeded'
        /\ stage' = "running" /\ runs[c].turn = turn' => c = call \/ c \in succeeded'
    BY <1>1, <1>4, <2>1 DEF CallFits
  <2> QED
    BY <1>2, <1>4, <2>1, <2>2 DEF CallFits
<1> QED
  BY <1>3, <1>4

\* execute is called: the call after the last one gets its owner.
LEMMA CallsExtended ==
  ASSUME Typed, CommitInv, PermitInv, Execute, UNCHANGED <<goal, turn, succeeded>>,
         NEW kind \in {"command", "check"}, NEW command, RunsNext(kind, command),
         \/ kind = "check" /\ stage' \in {"evaluating", "verifying"}
         \/ kind = "command" /\ stage = "commands" /\ stage' = "running" /\ Permitted(command)
  PROVE  \A c \in Calls : CallFits(c)'
<1> SUFFICES ASSUME NEW c \in Calls PROVE CallFits(c)'
  OBVIOUS
<1>1. /\ call' = call + 1 /\ call' \in Calls /\ call \in Nat /\ c \in Nat
      /\ runs' = [runs EXCEPT ![call'] = Writer(kind, call', command)]
  BY SandboxAssumption DEF Execute, RunsNext, Typed, Calls
<1>2. /\ \A d \in Calls : runs'[d] = IF d = call' THEN Writer(kind, call', command) ELSE runs[d]
      /\ turn \in Nat /\ \A d \in Calls : runs[d].turn \in Nat
      /\ \A d \in Calls : CallFits(d)
  BY <1>1 DEF CommitInv, RunsTyped, PermitInv
<1>3. \A d \in 1 .. c - 1 : d \in Calls /\ d < c
  BY <1>1, SandboxAssumption DEF Calls
<1>4. \A x : Permitted(x)' <=> Permitted(x)
  BY DEF Permitted
<1>5. CASE c > call'
  BY <1>1, <1>2, <1>5 DEF CallFits
<1>6. CASE c = call'
  <2>1. CASE kind = "check"
    BY <1>1, <1>2, <1>6, <2>1 DEF CallFits, Writer
  <2>2. CASE kind = "command"
    <3>1. /\ runs'[c].kind = "command" /\ runs'[c].turn = turn /\ runs'[c].command = command
          /\ stage' = "running" /\ stage = "commands" /\ Permitted(command)
      BY <1>2, <1>6, <2>2 DEF Writer
    <3>2. Validate(goal) = {}
      BY <3>1 DEF PermitInv, GoalFits
    <3>3. \A d \in 1 .. c - 1 :
            runs'[d].kind = "command" /\ runs'[d].turn = runs'[c].turn => d \in succeeded
      BY <1>1, <1>2, <1>3, <1>6, <3>1 DEF CallFits
    <3> QED
      BY <1>1, <1>2, <1>4, <1>6, <3>1, <3>2, <3>3 DEF CallFits
  <2> QED
    BY <2>1, <2>2
<1>7. CASE c < call'
  <2>1. runs'[c] = runs[c] /\ CallFits(c) /\ ~(c > call')
    BY <1>1, <1>2, <1>7
  <2>2. \A d \in 1 .. c - 1 : runs'[d] = runs[d]
    BY <1>1, <1>2, <1>3, <1>7
  <2>3. CASE runs[c].kind # "command"
    BY <2>1, <2>3 DEF CallFits
  <2>4. CASE runs[c].kind = "command"
    <3>1. /\ Permitted(runs[c].command)' /\ Validate(goal) = {} /\ runs[c].turn <= turn
          /\ stage = "commands" /\ runs[c].turn = turn => c \in succeeded
          /\ \A d \in 1 .. c - 1 :
               runs'[d].kind = "command" /\ runs'[d].turn = runs'[c].turn => d \in succeeded
      BY <1>4, <2>1, <2>2, <2>4 DEF CallFits
    <3> QED
      BY <2>1, <2>4, <3>1 DEF CallFits
  <2> QED
    BY <2>3, <2>4
<1> QED
  BY <1>1, <1>5, <1>6, <1>7

LEMMA RestOfCommands ==
  ASSUME NEW S, NEW s \in Seq(S), s # <<>>
  PROVE  /\ Tail(s) \in Seq(S) /\ Head(s) = s[1] /\ 1 \in DOMAIN s
         /\ \A i \in DOMAIN Tail(s) : i + 1 \in DOMAIN s /\ Tail(s)[i] = s[i + 1]
<1>1. Len(s) \in Nat /\ Len(s) # 0 /\ DOMAIN s = 1 .. Len(s)
  OBVIOUS
<1> QED
  BY <1>1

\* A proposal that is received has the shape of one.
LEMMA ReceivedFits ==
  ASSUME NEW p, Receive(p), IsProposal(p)
  PROVE  stage' = "policy" /\ DOMAIN plan' = ProposalFields /\ \E S : plan'.commands \in Seq(S)
<1>1. DOMAIN p = ProposalFields /\ \E S : p.commands \in Seq(S)
  BY DEF IsProposal
<1>2. plan' = p \/ plan' = [p EXCEPT !.write_files = [i \in DOMAIN p.edits |-> p.edits[i].path]]
  BY DEF Receive, NormalizedProposal
<1>3. DOMAIN plan' = DOMAIN p /\ plan'.commands = p.commands
  BY <1>1, <1>2 DEF ProposalFields
<1> QED
  BY <1>1, <1>3 DEF Receive, Goto

LEMMA AnswerFits ==
  ASSUME NEW a, Coerces(a)
  PROVE  IsProposal(WithoutClaim(a.proposal))
<1> DEFINE p == a.proposal
           q == WithoutClaim(p)
<1>1. IsProposal(p)
  BY DEF Coerces
<1>2. DOMAIN p = ProposalFields
  BY <1>1 DEF IsProposal
<1>3. /\ DOMAIN q = ProposalFields
      /\ q.edits = p.edits /\ q.commands = p.commands /\ q.write_files = p.write_files
  BY <1>2 DEF WithoutClaim, ProposalFields
<1> QED
  BY <1>1, <1>3 DEF IsProposal

LEMMA PermitStep == Typed /\ CommitInv /\ PermitInv /\ [TurnNext]_allVars => PermitInv'
<1> SUFFICES ASSUME Typed, CommitInv, PermitInv, [TurnNext]_allVars PROVE PermitInv'
  OBVIOUS
<1>0. PlanFits /\ GoalFits
  BY DEF PermitInv
<1>1. CASE NewController \/ ValidateGoal \/ Request \/ NoMoreCommands \/ EndVerification
  <2>1. /\ UNCHANGED <<vars, goal, runs, turn, plan, succeeded>>
        /\ \/ stage' \in {"validate", "refused", "awaiting", "checkpoint", "finally"}
           \/ stage = "validate" /\ stage' = "loop" /\ Validate(goal) = {}
        /\ stage' = "awaiting" => stage = "request"
        /\ stage' = "checkpoint" => stage = "commands"
    <3>1. CASE NewController
      BY <3>1 DEF NewController, Goto
    <3>2. CASE ValidateGoal
      BY <3>2 DEF ValidateGoal, Goto
    <3>3. CASE Request \/ NoMoreCommands \/ EndVerification
      BY <3>3 DEF Request, NoMoreCommands, EndVerification, Goto
    <3> QED
      BY <1>1, <3>1, <3>2, <3>3
  <2>2. PlanFits' /\ GoalFits'
    BY <1>0, <2>1 DEF PlanFits, GoalFits
  <2>3. \A c \in Calls : CallFits(c)'
    BY <2>1, CallsStand DEF vars, locals
  <2> QED
    BY <2>2, <2>3 DEF PermitInv
<1>2. CASE BeginTurn
  <2>1. /\ UNCHANGED <<vars, goal, runs, plan, succeeded>> /\ turn' = turn + 1
        /\ stage = "loop" /\ stage' \in {"request", "finally"}
    BY <1>2 DEF BeginTurn, Goto
  <2>2. PlanFits' /\ GoalFits'
    BY <1>0, <2>1 DEF PlanFits, GoalFits
  <2>3. \A c \in Calls : CallFits(c)'
    BY <2>1, CallsStand DEF vars, locals
  <2> QED
    BY <2>2, <2>3 DEF PermitInv
<1>3. CASE ProposeScripted \/ Answer \/ AgentRaises
  <2>1. /\ UNCHANGED <<vars, goal, runs, turn, succeeded>>
        /\ stage = "awaiting"
        /\ \/ stage' = "policy" /\ DOMAIN plan' = ProposalFields
              /\ \E S : plan'.commands \in Seq(S)
           \/ stage' \in {"request", "finally"}
    <3>1. CASE ProposeScripted
      <4>1. PICK p \in Proposals : Receive(p)
        BY <3>1 DEF ProposeScripted
      <4>2. IsProposal(p)
        BY TurnAssumption
      <4> QED
        BY <3>1, <4>1, <4>2, ReceivedFits DEF ProposeScripted, Receive, Goto
    <3>2. CASE Answer
      <4>1. PICK a \in Answers :
              IF Coerces(a) THEN Receive(WithoutClaim(a.proposal))
              ELSE Goto(IF attempt >= MaxRetries + 1 THEN "finally" ELSE "request")
                   /\ UNCHANGED plan
        BY <3>2 DEF Answer
      <4>2. CASE Coerces(a)
        BY <3>2, <4>1, <4>2, AnswerFits, ReceivedFits DEF Answer, Receive, Goto
      <4>3. CASE ~Coerces(a)
        BY <3>2, <4>1, <4>3 DEF Answer, Goto
      <4> QED
        BY <4>2, <4>3
    <3>3. CASE AgentRaises
      BY <3>3 DEF AgentRaises, Goto
    <3> QED
      BY <1>3, <3>1, <3>2, <3>3
  <2>2. PlanFits' /\ GoalFits'
    BY <1>0, <2>1 DEF PlanFits, GoalFits
  <2>3. \A c \in Calls : CallFits(c)'
    BY <2>1, CallsStand DEF vars, locals
  <2> QED
    BY <2>2, <2>3 DEF PermitInv
<1>4. CASE CheckPolicy
  <2>1. /\ UNCHANGED <<vars, goal, runs, turn, succeeded>> /\ stage = "policy"
        /\ \/ stage' = "edits" /\ plan' = plan /\ CheckProposal(goal, plan).allowed
           \/ stage' = "loop"
    BY <1>4 DEF CheckPolicy, Goto
  <2>2. stage' = "edits" => \A i \in DOMAIN plan.commands : Permitted(plan.commands[i])
    BY <2>1, AllowedIsPermitted
  <2>3. PlanFits' /\ GoalFits'
    <3>1. \A x : Permitted(x)' <=> Permitted(x)
      BY <2>1 DEF Permitted
    <3>2. GoalFits'
      BY <1>0, <2>1 DEF GoalFits
    <3> QED
      BY <1>0, <2>1, <2>2, <3>1, <3>2 DEF PlanFits
  <2>4. \A c \in Calls : CallFits(c)'
    BY <2>1, CallsStand DEF vars, locals
  <2> QED
    BY <2>3, <2>4 DEF PermitInv
<1>5. CASE ApplyEdits
  <2>1. /\ UNCHANGED <<vars, goal, runs, turn, plan, succeeded>>
        /\ stage = "edits" /\ stage' \in {"commands", "failed"}
    BY <1>5 DEF ApplyEdits, Goto
  <2>2. PlanFits' /\ GoalFits'
    BY <1>0, <2>1 DEF PlanFits, GoalFits, Permitted
  <2>3. \A c \in Calls : CallFits(c)'
    BY <2>1, CallsStand DEF vars, locals
  <2> QED
    BY <2>2, <2>3 DEF PermitInv
<1>6. CASE RunCommand
  <2>1. /\ Execute /\ RunsNext("command", Head(plan.commands))
        /\ plan.commands # <<>> /\ plan' = [plan EXCEPT !.commands = Tail(@)]
        /\ stage = "commands" /\ stage' = "running" /\ UNCHANGED <<goal, turn, succeeded>>
    BY <1>6 DEF RunCommand, RunsNext
  <2>2. PICK S : plan.commands \in Seq(S)
    BY <1>0, <2>1 DEF PlanFits
  <2>3. DOMAIN plan = ProposalFields /\ \A i \in DOMAIN plan.commands : Permitted(plan.commands[i])
    BY <1>0, <2>1 DEF PlanFits
  <2>4. DOMAIN plan' = ProposalFields /\ plan'.commands = Tail(plan.commands)
    BY <2>1, <2>3 DEF ProposalFields
  <2>5. /\ Tail(plan.commands) \in Seq(S)
        /\ Permitted(Head(plan.commands))
        /\ \A i \in DOMAIN Tail(plan.commands) : Permitted(Tail(plan.commands)[i])
    BY <2>1, <2>2, <2>3, RestOfCommands
  <2>6. \A x : Permitted(x)' <=> Permitted(x)
    BY <2>1 DEF Permitted
  <2>7. PlanFits' /\ GoalFits'
    BY <1>0, <2>1, <2>4, <2>5, <2>6 DEF PlanFits, GoalFits
  <2>8. \A c \in Calls : CallFits(c)'
    BY <2>1, <2>5, CallsExtended
  <2> QED
    BY <2>7, <2>8 DEF PermitInv
<1>7. CASE CommandEnds
  <2>1. /\ UNCHANGED <<vars, goal, runs, turn, plan>> /\ stage = "running"
        /\ \/ stage' = "commands" /\ succeeded' = succeeded \union {call}
           \/ stage' \in {"failed", "finally"} /\ succeeded' = succeeded
    BY <1>7 DEF CommandEnds, Goto
  <2>2. PlanFits' /\ GoalFits'
    BY <1>0, <2>1 DEF PlanFits, GoalFits, Permitted
  <2>3. \A c \in Calls : CallFits(c)'
    BY <2>1, CallsStand DEF vars, locals
  <2> QED
    BY <2>2, <2>3 DEF PermitInv
<1>8. CASE RollBack \/ Checkpoint \/ CheckEnds \/ Judge
  <2>1. /\ UNCHANGED <<vars, goal, runs, turn, succeeded>>
        /\ stage \in {"failed", "checkpoint", "evaluating", "verifying", "evaluate"}
        /\ stage' \in {"loop", "finally", "evaluate", "verify"}
    BY <1>8 DEF RollBack, Checkpoint, CheckEnds, Judge, Goto
  <2>2. PlanFits' /\ GoalFits'
    BY <1>0, <2>1 DEF PlanFits, GoalFits
  <2>3. \A c \in Calls : CallFits(c)'
    BY <2>1, CallsStand DEF vars, locals
  <2> QED
    BY <2>2, <2>3 DEF PermitInv
<1>9. CASE RunCheck
  <2>1. /\ Execute /\ RunsNext("check", NoCommand)
        /\ stage \in {"evaluate", "verify"} /\ stage' \in {"evaluating", "verifying"}
        /\ UNCHANGED <<goal, turn, succeeded, plan>>
    BY <1>9 DEF RunCheck, RunsNext
  <2>2. PlanFits' /\ GoalFits'
    BY <1>0, <2>1 DEF PlanFits, GoalFits
  <2>3. \A c \in Calls : CallFits(c)'
    BY <2>1, CallsExtended
  <2> QED
    BY <2>2, <2>3 DEF PermitInv
<1>10. CASE Finally
  <2>1. /\ UNCHANGED <<call, goal, runs, turn, succeeded>>
        /\ stage' = "closing"
    BY <1>10 DEF Finally, Close
  <2>2. PlanFits' /\ GoalFits'
    BY <1>0, <2>1 DEF PlanFits, GoalFits
  <2>3. \A c \in Calls : CallFits(c)'
    BY <2>1, CallsStand
  <2> QED
    BY <2>2, <2>3 DEF PermitInv
<1>11. CASE UNCHANGED <<call, turnVars>>
  <2>1. UNCHANGED <<call, goal, stage, runs, turn, plan, succeeded>>
    BY <1>11 DEF turnVars
  <2>2. PlanFits' /\ GoalFits'
    BY <1>0, <2>1 DEF PlanFits, GoalFits, Permitted
  <2>3. \A c \in Calls : CallFits(c)'
    BY <2>1, CallsStand
  <2> QED
    BY <2>2, <2>3 DEF PermitInv
<1>12. CASE SandboxStep /\ UNCHANGED turnVars
  <2>1. call' = call
    BY <1>12 DEF SandboxStep, locals, Create, Start, Wait, TimeOut, Kill, ReadLogs, Remove, Fail,
      Cancel, CloseContainer, Closed, Exit, Finish
  <2> QED
    BY <1>11, <1>12, <2>1
<1>13. ASSUME NEW d \in Calls, Write(d) PROVE PermitInv'
  <2>1. UNCHANGED <<call, goal, stage, runs, turn, plan, succeeded>>
    BY <1>13 DEF Write, vars, locals
  <2>2. PlanFits' /\ GoalFits'
    BY <1>0, <2>1 DEF PlanFits, GoalFits, Permitted
  <2>3. \A c \in Calls : CallFits(c)'
    BY <2>1, CallsStand
  <2> QED
    BY <2>2, <2>3 DEF PermitInv
<1>14. CASE UNCHANGED allVars
  BY <1>11, <1>14 DEF allVars, vars, locals
<1> QED
  BY <1>1, <1>2, <1>3, <1>4, <1>5, <1>6, <1>7, <1>8, <1>9, <1>10, <1>12, <1>13, <1>14
  DEF TurnNext, RunStep

\* A command of a proposal runs only under a valid goal that permits it, and only
\* if those before it in its proposal have succeeded: for any goals, any answers
\* of a model and any failures and timeouts on the way (engine.py:84-107,
\* controller.py:774-807).
THEOREM CommandsArePermitted == TurnSpec => []OnlyPermittedCommandsRun
<1>1. PermitInv => OnlyPermittedCommandsRun
  BY DEF PermitInv, CallFits, OnlyPermittedCommandsRun
<1>2. SandboxInv => Typed
  BY DEF SandboxInv
<1> QED
  BY <1>1, <1>2, CommitInvariant, PermitInit, PermitStep, PTL DEF TurnSpec

=============================================================================
