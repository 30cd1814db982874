----------------------------- MODULE AgentTurn ------------------------------
(***************************************************************************)
(* The turns of a run between the agent, the policy engine, the sandbox    *)
(* and the workspace: a request with its retries, the check of what is     *)
(* proposed, its edits and commands, the checkpoint, the checks and what   *)
(* is kept.  The commands run in the containers of DockerSandbox, in one   *)
(* workspace, which they may write to as long as they run.  The steps that *)
(* only write the log and the database are Controller's, and as there only *)
(* files that no ignore file ever hides are followed: git leaves the       *)
(* others where they are, and may commit one of them later (GitWorkspace). *)
(***************************************************************************)
EXTENDS DockerSandbox, PolicyEngine, AgentProposal

CONSTANTS
  Goals,     \* the goals a run may be started with
  Proposals, \* what a scripted or replayed agent proposes
  Answers,   \* what a model answers
  Checks     \* the commands of the registered evaluators, per evaluation

ASSUME TurnAssumption ==
  /\ \A g \in Goals : IsGoalContract(g)
  /\ \A p \in Proposals : IsProposal(p)
  /\ Checks \in Nat

MaxRetries == 3  \* GoogleAdkCodingAgent._MAX_RETRIES

VARIABLES
  goal,      \* _goal_contract
  stage,     \* where the run is
  attempt,   \* of propose_action
  turn,      \* iterations begun
  plan,      \* the proposal, with the commands still to be run
  checks,    \* checks still to be run in this evaluation
  runs,      \* whose command each container runs
  succeeded, \* history: the calls of execute that returned exit code 0
  writers,   \* who changed a file that no ignore file hides since it was HEAD
  committed  \* the last checkpoint: its turn, and who wrote those files of it

turnVars == <<goal, stage, attempt, turn, plan, checks, runs, succeeded, writers, committed>>
allVars  == <<vars, turnVars>>

Nothing == [edits |-> <<>>, commands |-> <<>>, completion_claimed |-> FALSE,
            write_files |-> <<>>, diff |-> {}]

\* Who writes: the edits of a turn, a command of its proposal or a check.
Writer(kind, c, command) == [turn |-> turn, kind |-> kind, call |-> c, command |-> command]

NoCommand == [program |-> "", matches |-> {}, shell |-> FALSE, timeout_seconds |-> 0]

TurnInit ==
  /\ Init
  /\ goal \in Goals
  /\ stage = "new" /\ attempt = 0 /\ turn = 0
  /\ plan = Nothing /\ checks = 0
  /\ runs = [c \in Calls |-> [turn |-> 0, kind |-> "none", call |-> c, command |-> NoCommand]]
  /\ succeeded = {}
  /\ writers = {} /\ committed = [turn |-> 0, by |-> {}]

\* A step of the run that does not touch the sandbox.
Goto(s) == stage' = s /\ UNCHANGED vars

-----------------------------------------------------------------------------
(* Before the loop. *)

\* Controller.__init__: an unknown gate is a ValueError, an unknown agent a
\* ConfigurationError, and any agent may lack what it needs; there is no run
\* then.  _resolve_agent takes an agent_type over the provider of the goal: the
\* field stands for both.
NewController ==
  /\ stage = "new"
  /\ \/ /\ goal.approval_gates \subseteq ApprovalGate
        /\ goal.provider \in {"google-adk", "scripted", "replay"}
        /\ Goto("validate")
     \/ Goto("refused")
  /\ UNCHANGED <<goal, attempt, turn, plan, checks, runs, succeeded, writers, committed>>

\* The goal, then the baseline: its checks are those of any turn and are not
\* followed here, but they may leave files behind, or raise.
ValidateGoal ==
  /\ stage = "validate"
  /\ \/ Validate(goal) = {} /\ Goto("loop")
     \/ Goto("finally")
  /\ writers' \in {writers, {Writer("check", 0, NoCommand)}}
  /\ UNCHANGED <<goal, attempt, turn, plan, checks, runs, succeeded, committed>>

-----------------------------------------------------------------------------
(* The agent. *)

\* The runtime limit may have passed at any turn.
BeginTurn ==
  /\ stage = "loop"
  /\ turn' = turn + 1 /\ attempt' = 0
  /\ \E late \in BOOLEAN :
       /\ Goto(IF turn + 1 > goal.max_iterations \/ late THEN "finally" ELSE "request")
  /\ UNCHANGED <<goal, plan, checks, runs, succeeded, writers, committed>>

\* A fresh session for each attempt, with feedback from the second on.  That no
\* structured output comes back is one more invalid answer.
Request ==
  /\ stage = "request"
  /\ attempt' = attempt + 1
  /\ Goto("awaiting")
  /\ UNCHANGED <<goal, turn, plan, checks, runs, succeeded, writers, committed>>

\* Bound: the agent proposes no more commands than there are calls left for.
Receive(p) ==
  /\ call + Len(p.commands) <= MaxCalls
  /\ plan' = NormalizedProposal(p)
  /\ Goto("policy")

\* ScriptedAgent and ReplayAgent
ProposeScripted ==
  /\ stage = "awaiting" /\ goal.provider # "google-adk"
  /\ \E p \in Proposals : Receive(p)
  /\ UNCHANGED <<goal, attempt, turn, checks, runs, succeeded, writers, committed>>

\* Mutant of Answer: an invalid answer is asked again however often it comes.
AnswerForever ==
  /\ stage = "awaiting" /\ goal.provider = "google-adk"
  /\ \E a \in Answers :
       IF Coerces(a) THEN Receive(WithoutClaim(a.proposal))
       ELSE Goto("request") /\ UNCHANGED plan
  /\ attempt' = 0
  /\ UNCHANGED <<goal, turn, checks, runs, succeeded, writers, committed>>

\* propose_action of the ADK agent: an answer that is no proposal is asked again.
Answer ==
  /\ stage = "awaiting" /\ goal.provider = "google-adk"
  /\ \E a \in Answers :
       IF Coerces(a) THEN Receive(WithoutClaim(a.proposal))
       ELSE /\ Goto(IF attempt >= MaxRetries + 1 THEN "finally" ELSE "request")
            /\ UNCHANGED plan
  /\ attempt' = IF stage' = "request" THEN attempt ELSE 0
  /\ UNCHANGED <<goal, turn, checks, runs, succeeded, writers, committed>>

\* No proposal is left, the model cannot be reached, or the run is interrupted.
AgentRaises ==
  /\ stage = "awaiting"
  /\ Goto("finally")
  /\ UNCHANGED <<goal, attempt, turn, plan, checks, runs, succeeded, writers, committed>>

CheckPolicy ==
  /\ stage = "policy"
  /\ IF CheckProposal(goal, plan).allowed
       THEN Goto("edits") /\ UNCHANGED plan
       ELSE Goto("loop") /\ plan' = Nothing
  /\ UNCHANGED <<goal, attempt, turn, checks, runs, succeeded, writers, committed>>

-----------------------------------------------------------------------------
(* Execution. *)

\* _apply_edits, which stops at the first edit that fails; that one, too, may
\* have changed something.
ApplyEdits ==
  /\ stage = "edits"
  /\ \E failed \in IF plan.edits = <<>> THEN {FALSE} ELSE BOOLEAN :
       Goto(IF failed THEN "failed" ELSE "commands")
  /\ writers' \in IF plan.edits = <<>> THEN {writers}
                  ELSE {writers, writers \union {Writer("edits", 0, NoCommand)}}
  /\ UNCHANGED <<goal, attempt, turn, plan, checks, runs, succeeded, committed>>

RunsNext(kind, command) ==
  /\ Execute
  /\ runs' = [runs EXCEPT ![call'] = Writer(kind, call', command)]

\* A command that is one string is not run.
RunCommand ==
  /\ stage = "commands"
  /\ plan.commands # <<>> /\ ~Head(plan.commands).shell
  /\ RunsNext("command", Head(plan.commands))
  /\ plan' = [plan EXCEPT !.commands = Tail(@)]
  /\ stage' = "running"
  /\ UNCHANGED <<goal, attempt, turn, checks, succeeded, writers, committed>>

NoMoreCommands ==
  /\ stage = "commands"
  /\ plan.commands = <<>>
  /\ Goto("checkpoint")
  /\ UNCHANGED <<goal, attempt, turn, plan, checks, runs, succeeded, writers, committed>>

\* execute has returned a result, or raised.  An OSError is a failed execution
\* like an exit code, any other exception ends the run.
CommandEnds ==
  /\ stage = "running" /\ pc = "idle"
  /\ \/ /\ outcome[call] = "exited"
        /\ Goto("commands") /\ succeeded' = succeeded \union {call}
     \/ /\ outcome[call] \in {"exited", "timed_out", "OSError"}
        /\ Goto("failed") /\ UNCHANGED succeeded
     \/ /\ outcome[call] \in {"SandboxError", "CancelledError"}
        /\ Goto("finally") /\ UNCHANGED succeeded
  /\ UNCHANGED <<goal, attempt, turn, plan, checks, runs, writers, committed>>

\* Mutant of RollBack: the workspace is left as the execution made it.
RollBackWithoutRestore ==
  /\ stage = "failed"
  /\ plan' = Nothing
  /\ Goto("loop")
  /\ UNCHANGED <<goal, attempt, turn, checks, runs, succeeded, writers, committed>>

\* The execution failed: restore(active_state), which may raise and spares what
\* an ignore file hides.
RollBack ==
  /\ stage = "failed"
  /\ plan' = Nothing
  /\ \/ Goto("loop") /\ writers' = {}
     \/ Goto("finally") /\ UNCHANGED writers
  /\ UNCHANGED <<goal, attempt, turn, checks, runs, succeeded, committed>>

\* All changes are committed that no ignore file hides; without any, HEAD is the
\* candidate, unless a file is there that was hidden before.  Bound: git fails
\* when no calls of execute are left for the checks.
Checkpoint ==
  /\ stage = "checkpoint"
  /\ \/ /\ Goto("evaluate") /\ call + Checks <= MaxCalls
        /\ \/ committed' = [turn |-> turn, by |-> writers]
           \/ writers = {} /\ UNCHANGED committed
        /\ writers' = {} /\ checks' = Checks
     \/ Goto("finally") /\ UNCHANGED <<writers, committed, checks>>
  /\ UNCHANGED <<goal, attempt, turn, plan, runs, succeeded>>

-----------------------------------------------------------------------------
(* Evaluation. *)

\* CommandEvaluator.evaluate, for a candidate or to verify a completion.
RunCheck ==
  /\ stage \in {"evaluate", "verify"} /\ checks > 0
  /\ RunsNext("check", NoCommand)
  /\ checks' = checks - 1
  /\ stage' = IF stage = "evaluate" THEN "evaluating" ELSE "verifying"
  /\ UNCHANGED <<goal, attempt, turn, plan, succeeded, writers, committed>>

\* A result, whatever it is, or an exception; a gate may end the evaluation.
CheckEnds ==
  /\ stage \in {"evaluating", "verifying"} /\ pc = "idle"
  /\ \/ /\ outcome[call] \in {"exited", "timed_out"}
        /\ Goto(IF stage = "evaluating" THEN "evaluate" ELSE "verify")
        /\ checks' \in {0, checks}
     \/ outcome[call] \notin {"exited", "timed_out"} /\ Goto("finally") /\ UNCHANGED checks
  /\ UNCHANGED <<goal, attempt, turn, plan, runs, succeeded, writers, committed>>

\* The vector decides: the work is kept as it lies there, the best state is
\* restored, which may raise and spares what an ignore file hides, or what is
\* claimed to be complete is verified.
Judge ==
  /\ stage = "evaluate" /\ checks = 0
  /\ plan' = Nothing
  /\ \/ Goto("loop") /\ writers' \in {writers, {}} /\ UNCHANGED checks
     \/ Goto("finally") /\ UNCHANGED <<writers, checks>>
     \/ /\ plan.completion_claimed /\ call + Checks <= MaxCalls
        /\ Goto("verify") /\ checks' = Checks /\ UNCHANGED writers
  /\ UNCHANGED <<goal, attempt, turn, runs, succeeded, committed>>

\* A verified run returns; one that is not raises at the head of the loop.
EndVerification ==
  /\ stage = "verify" /\ checks = 0
  /\ Goto("finally")
  /\ UNCHANGED <<goal, attempt, turn, plan, checks, runs, succeeded, writers, committed>>

-----------------------------------------------------------------------------

\* The finally clause of Controller.run.  Nothing is committed from here on, so
\* that who writes is not followed any further.
Finally ==
  /\ stage = "finally" /\ Close
  /\ stage' = "closing"
  /\ plan' = Nothing /\ attempt' = 0 /\ writers' = {}
  /\ UNCHANGED <<goal, turn, checks, runs, succeeded, committed>>

\* The run of a command is a matter between the sandbox and its daemon.
SandboxStep ==
  \/ Create \/ Start \/ Wait \/ TimeOut \/ Kill \/ ReadLogs \/ Remove
  \/ Fail \/ Cancel
  \/ CloseContainer \/ Closed
  \/ \E c \in Calls : Exit(c)
  \/ \E job \in threads : Finish(job)

\* A command writes to the workspace, which is mounted in its container, while
\* there may be a checkpoint.
Write(c) ==
  /\ life[c] = "running" /\ stage \notin {"finally", "closing"}
  /\ writers' = writers \union {runs[c]}
  /\ UNCHANGED <<vars, goal, stage, attempt, turn, plan, checks, runs, succeeded, committed>>

RunStep ==
  \/ NewController \/ ValidateGoal
  \/ BeginTurn \/ Request \/ CheckPolicy
  \/ ApplyEdits \/ RunCommand \/ NoMoreCommands \/ CommandEnds \/ RollBack \/ Checkpoint
  \/ RunCheck \/ CheckEnds \/ Judge \/ EndVerification
  \/ Finally

TurnNext ==
  \/ RunStep
  \/ ProposeScripted \/ Answer \/ AgentRaises
  \/ SandboxStep /\ UNCHANGED turnVars
  \/ \E c \in Calls : Write(c)

TurnSpec == TurnInit /\ [][TurnNext]_allVars

\* The run takes its own steps and the sandbox those of DockerSandbox; nobody
\* makes a model answer.
TurnFairness ==
  /\ WF_allVars(RunStep)
  /\ WF_allVars(/\ pc # "wait" /\ (Create \/ Start \/ Kill \/ ReadLogs \/ Remove \/ Fail)
                /\ UNCHANGED turnVars)
  /\ WF_allVars((TimeOut \/ CloseContainer \/ Closed) /\ UNCHANGED turnVars)
  /\ \A op \in Awaited, c \in Calls :
       WF_allVars(Finish([op |-> op, of |-> c]) /\ UNCHANGED turnVars)

FairTurnSpec == TurnSpec /\ TurnFairness

-----------------------------------------------------------------------------

\* A command may outlive its call of execute, and the run go on, only if the call
\* raised an OSError, which counts as a failed execution, and the container was
\* not removed either (controller.py:809, docker.py:95-99, 199-208).
LeftBehind(c) == c \in Calls /\ outcome[c] = "OSError" /\ Unanswered("remove", c)

\* In files that no ignore file hides, a checkpoint holds what its own turn wrote
\* and what a check of an earlier turn wrote: nothing of the commands of a turn
\* that failed, not even what they write late, except for those left behind
\* (controller.py:475-497).
CommitsAreOfTheirTurn ==
  \A w \in committed.by :
    \/ w.turn = committed.turn /\ w.kind \in {"edits", "command"}
    \/ w.turn < committed.turn /\ w.kind = "check"
    \/ LeftBehind(w.call)

\* The commands of a run, checks included, are in the workspace one at a time,
\* whatever the daemon answers and whichever threads were abandoned, except for
\* those left behind (controller.py:777, 809).
CommandsRunAlone ==
  \A c, d \in Calls : c < d /\ life[c] = "running" /\ life[d] = "running" => LeftBehind(c)

\* What the fields of a goal permit as the code reads them: the program and no
\* argument, where docs/domain.md:80 has "Permitted command prefixes" and
\* docs/architecture.md:80 "validates command arguments".
Permitted(command) ==
  /\ \E allowed \in goal.allowed_commands : allowed[1] = command.program
  /\ ~command.shell /\ command.matches \intersect goal.forbidden_patterns = {}
  /\ command.timeout_seconds <= goal.max_runtime_seconds

\* A proposal's command runs under a goal that is valid and permits it, and only
\* after all commands before it in its proposal have exited with 0: whichever of
\* its attempts the proposal came from, and whatever the calls before it did
\* (engine.py:84-107, controller.py:774-807).
OnlyPermittedCommandsRun ==
  \A c \in Calls :
    life[c] # "absent" /\ runs[c].kind = "command" =>
      /\ Validate(goal) = {} /\ Permitted(runs[c].command)
      /\ \A d \in 1 .. c - 1 :
           runs[d].kind = "command" /\ runs[d].turn = runs[c].turn => d \in succeeded

\* A run ends and its sandbox is closed, although answers are asked for again,
\* commands never end and the daemon fails: unless one answer of the model is
\* waited for for ever, which nothing limits (controller.py:412).
RunEnds ==
  \/ <>(pc = "closed" \/ stage = "refused")
  \/ <>[](stage = "awaiting")

=============================================================================
