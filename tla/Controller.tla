----------------------------- MODULE Controller -----------------------------
(***************************************************************************)
(* One run of the controller: Controller.run and the helpers it calls      *)
(* (controller/controller.py), over the state machine, the transition      *)
(* policy, the budget tracker (domain/budgets.py) and the git workspace    *)
(* (repository/git_store.py).                                              *)
(*                                                                         *)
(* The run is one asyncio task.  An action is the code from one commit of  *)
(* the database, or answer of an outside party (agent, policy engine,      *)
(* sandbox, evaluators, artifact store), to the next: none writes the      *)
(* database twice.  Between any two actions the process may die and        *)
(* whatever is awaited may raise.  A git command is one step with the      *)
(* commit beside it.                                                       *)
(*                                                                         *)
(* Git leaves alone what an ignore file hides, and evaluators and tools    *)
(* leave files behind.  The model keeps only work in files that no ignore  *)
(* file ever hides (edits); what else lies in the workspace is left open,  *)
(* so git may find a workspace without such work dirty as well as clean.   *)
(***************************************************************************)
EXTENDS StateMachine, TransitionPolicy

CONSTANTS
  MaxIterations,   \* contract.constraints.max_iterations
  MaxModelCalls,   \* contract.constraints.max_model_calls
  MaxCommands,     \* bound: the commands of one proposal
  Vectors          \* the vectors the pipeline may return in this model

ASSUME ControllerAssumption ==
  /\ MaxIterations \in Nat \ {0}
  /\ MaxModelCalls \in Nat \ {0}
  /\ MaxCommands \in Nat
  /\ Vectors \subseteq EvaluationVector

VARIABLES
  pc,          \* where Controller.run is
  exc,         \* the exception that is leaving run, or "none"
  sandbox,     \* "open" until the finally clause closes it; "failed" if that raised
  cs,          \* StateMachine._state
  log,         \* the events of the run, as the event store holds them
  status,      \* runs.status in the database; "none" before the row exists
  rows,        \* the candidates table, with the evaluation recorded for each
  manifest,    \* "none", "stored" in the artifact store, "recorded" in the database
  history,     \* run's local history of candidates
  iteration,   \* run's local iteration
  stagnation,  \* run's local stagnation_count
  active,      \* active_state, as a commit
  best,        \* best_state, as a commit
  proposal,    \* the proposal being handled; its commands are those still to run
  candidate,   \* candidate_state, as a commit
  vector,      \* the vector of the candidate
  used,        \* BudgetTracker._usage.iterations_consumed
  calls,       \* BudgetTracker._usage.model_calls
  commits,     \* the git history of the workspace
  head,        \* HEAD of the workspace
  edits        \* iterations with uncommitted changes in files no ignore file hides

runVars   == <<history, iteration, stagnation, active, best>>
turnVars  == <<proposal, candidate, vector>>
budget    == <<used, calls>>
git       == <<commits, head, edits>>
db        == <<status, rows, manifest>>
machine   == <<cs, log>>
ending    == <<exc, sandbox>>
vars      == <<pc, ending, machine, db, runVars, turnVars, budget, git>>

Proposal == [completion_claimed: BOOLEAN, edits: BOOLEAN, commands: 0 .. MaxCommands]

-----------------------------------------------------------------------------
(* The state machine and the event log. *)

\* The transition run asks for at each of its _transition calls.
Request(p) ==
  CASE p = "initializing"      -> [target |-> "INITIALIZING",         decision |-> "ACCEPT"]
    [] p = "begin_baseline"    -> [target |-> "BASELINE_EVALUATION",  decision |-> "ACCEPT"]
    [] p = "enter"             -> [target |-> "BUILDING_CONTEXT",     decision |-> "ACCEPT"]
    [] p = "context_ready"     -> [target |-> "AWAITING_PROPOSAL",    decision |-> "ACCEPT"]
    [] p = "policy_check"      -> [target |-> "POLICY_CHECK",         decision |-> "ACCEPT"]
    [] p = "reject_proposal"   -> [target |-> "SELECTING_TRANSITION", decision |-> "REJECT"]
    [] p = "begin_execution"   -> [target |-> "EXECUTING",            decision |-> "ACCEPT"]
    [] p = "execution_failed"  -> [target |-> "SELECTING_TRANSITION", decision |-> "ROLLBACK"]
    [] p = "begin_checkpoint"  -> [target |-> "CHECKPOINTING",        decision |-> "ACCEPT"]
    [] p = "begin_evaluation"  -> [target |-> "EVALUATING",           decision |-> "ACCEPT"]
    [] p = "selecting"         -> [target |-> "SELECTING_TRANSITION", decision |-> "ACCEPT"]
    [] p = "begin_verify"      -> [target |-> "VERIFYING_COMPLETION", decision |-> "COMPLETE"]
    [] p = "declare"           -> [target |-> "COMPLETED",            decision |-> "COMPLETE"]
    [] p = "cancelling"        -> [target |-> "CANCELLED",            decision |-> "FAIL"]

Requesting ==
  {"initializing", "begin_baseline", "enter", "context_ready", "policy_check",
   "reject_proposal", "begin_execution", "execution_failed", "begin_checkpoint",
   "begin_evaluation", "selecting", "begin_verify", "declare", "cancelling"}

Permitted == Validate(cs, Request(pc).target, Request(pc).decision)

Moved(n) == [type |-> "STATE_TRANSITION", iteration |-> n, from |-> cs,
             to |-> Request(pc).target, decision |-> Request(pc).decision]

\* An event of _record_event, written while the machine is in state s.
Note(type, s, d) == [type |-> type, iteration |-> iteration, from |-> s, to |-> s, decision |-> d]

\* Mutant of Transition: the request is not validated.
TransitionUnchecked(n) ==
  /\ cs' = Request(pc).target
  /\ log' = Append(log, Moved(n))

\* _transition: validate, move, append to the log.
Transition(n) ==
  /\ Permitted
  /\ cs' = Request(pc).target
  /\ log' = Append(log, Moved(n))

\* _record_event
Record(type, d) == log' = Append(log, Note(type, cs, d)) /\ UNCHANGED cs

Goto(p) == pc' = p /\ UNCHANGED ending

\* An exception leaves the try block: the finally clause comes next.
Raise(e) ==
  /\ pc' = "closing"
  /\ exc' = e
  /\ UNCHANGED <<sandbox, machine, db, runVars, turnVars, budget, git>>

-----------------------------------------------------------------------------
(* The git workspace. *)

\* The answers of _is_clean, which may be FALSE for the sake of other files too.
IsClean == IF edits = {} THEN BOOLEAN ELSE {FALSE}

\* Mutant of Restore: the parent of the commit is restored.
RestoreParent(c) ==
  head' = commits[c].parent /\ edits' = {} /\ UNCHANGED commits

\* Mutant of Restore: no git clean, so edits stay in the workspace.
RestoreWithoutClean(c) == head' = c /\ UNCHANGED <<commits, edits>>

\* GitRepositoryStore.restore: git reset --hard, then git clean -fd, which
\* spares what an ignore file hides.
Restore(c) == head' = c /\ edits' = {} /\ UNCHANGED commits

\* A git command of restore failed, before or after the reset.
RestoreFails(c) ==
  /\ head' \in {head, c}
  /\ edits' \in {edits, {}}
  /\ UNCHANGED commits
  /\ pc' = "closing" /\ exc' = "RepositoryStateError" /\ UNCHANGED sandbox

\* GitRepositoryStore.checkpoint of a dirty workspace: git add --all and git
\* commit take everything but what an ignore file hides.
CommitAll ==
  /\ commits' = Append(commits, [parent |-> head, edits |-> edits, iteration |-> iteration])
  /\ head' = Len(commits) + 1
  /\ edits' = {}

SetCandidateStatus(s) == rows' = [rows EXCEPT ![Len(rows)].status = s]

\* run's local candidate; its parent is the last of the history, accepted or not.
Local(s) ==
  [commit |-> candidate, parent |-> Len(history), iteration |-> iteration,
   depth |-> history[Len(history)].depth + 1, status |-> s, vec |-> vector]

Judge(s) == history' = Append(history, Local(s))

-----------------------------------------------------------------------------
(* Before the loop. *)

Init ==
  /\ pc = "start" /\ exc = "none" /\ sandbox = "open"
  /\ cs = "CREATED" /\ log = <<>>
  /\ status = "none" /\ rows = <<>> /\ manifest = "none"
  /\ history = <<>> /\ iteration = 0 /\ stagnation = 0
  /\ commits = <<[parent |-> 0, edits |-> {}, iteration |-> 0]>>
  /\ head = 1 /\ active = 1 /\ best = 1 /\ candidate = 1
  /\ edits = {}
  /\ proposal = [completion_claimed |-> FALSE, edits |-> FALSE, commands |-> 0]
  /\ vector = NoVector
  /\ used = 0 /\ calls = 0

CreateRun ==
  /\ pc = "start"
  /\ status' = "CREATED"
  /\ Goto("create_baseline")
  /\ UNCHANGED <<rows, manifest, machine, runVars, turnVars, budget, git>>

\* The untouched repository is an accepted candidate before it is scored.
CreateBaseline ==
  /\ pc = "create_baseline"
  /\ LET baseline == [commit |-> head, parent |-> 0, depth |-> 0, iteration |-> 0,
                      status |-> "ACCEPTED", vec |-> NoVector]
     IN rows' = <<baseline>> /\ history' = <<baseline>>
  /\ active' = head /\ best' = head
  /\ Goto("initializing")
  /\ UNCHANGED <<status, manifest, iteration, stagnation, machine, turnVars, budget, git>>

Initialize ==
  /\ pc = "initializing"
  /\ Transition(0)
  /\ Goto("validate_goal")
  /\ UNCHANGED <<db, runVars, turnVars, budget, git>>

\* ContractValidator wants a model call for every iteration.  Its other
\* rules do not concern the run: any of them may refuse the goal.
ValidateGoal ==
  /\ pc = "validate_goal"
  /\ \/ /\ MaxModelCalls >= MaxIterations
        /\ status' = "ACTIVE"
        /\ Goto("begin_baseline")
        /\ UNCHANGED <<rows, manifest, machine, runVars, turnVars, budget, git>>
     \/ Raise("GoalValidationError")

BeginBaseline ==
  /\ pc = "begin_baseline"
  /\ Transition(0)
  /\ Goto("evaluate_baseline")
  /\ UNCHANGED <<db, runVars, turnVars, budget, git>>

EvaluateBaseline ==
  /\ pc = "evaluate_baseline"
  /\ \E v \in Vectors : history' = [history EXCEPT ![1].vec = v]
  /\ Goto("record_baseline")
  /\ UNCHANGED <<iteration, stagnation, active, best, machine, db, turnVars, budget, git>>

RecordBaseline ==
  /\ pc = "record_baseline"
  /\ rows' = [rows EXCEPT ![1].vec = history[1].vec]
  /\ iteration' = 1 /\ stagnation' = 0
  /\ Goto("loop")
  /\ UNCHANGED <<history, active, best, status, manifest, machine, turnVars, budget, git>>

-----------------------------------------------------------------------------
(* The loop: budget, context, proposal, policy. *)

\* Mutant of CheckBudget: the limit is compared before the turn is counted.
CheckBudgetBeforeCounting ==
  /\ pc = "loop"
  /\ used' = used + 1
  /\ \E late \in BOOLEAN :
       LET exceeded == used > MaxIterations \/ calls > MaxModelCalls \/ late
       IN Goto(IF exceeded THEN "cancel" ELSE "enter")
  /\ UNCHANGED <<calls, machine, db, runVars, turnVars, git>>

\* The runtime limit is read off a clock: it may have passed at any turn.
CheckBudget ==
  /\ pc = "loop"
  /\ used' = used + 1
  /\ \E late \in BOOLEAN :
       LET exceeded == used + 1 > MaxIterations \/ calls > MaxModelCalls \/ late
       IN Goto(IF exceeded THEN "cancel" ELSE "enter")
  /\ UNCHANGED <<calls, machine, db, runVars, turnVars, git>>

EnterContext ==
  /\ pc = "enter"
  /\ Transition(iteration)
  /\ Goto("context_ready")
  /\ UNCHANGED <<db, runVars, turnVars, budget, git>>

ContextReady ==
  /\ pc = "context_ready"
  /\ Transition(iteration)
  /\ Goto("propose")
  /\ UNCHANGED <<db, runVars, turnVars, budget, git>>

\* A proposal counts as one model call.
Propose ==
  /\ pc = "propose"
  /\ proposal' \in Proposal
  /\ calls' = calls + 1
  /\ Record("MODEL_CALL", "none")
  /\ Goto("record_proposal")
  /\ UNCHANGED <<db, runVars, candidate, vector, used, git>>

RecordProposal ==
  /\ pc = "record_proposal"
  /\ Record("PROPOSAL_RECEIVED", "none")
  /\ Goto("policy_check")
  /\ UNCHANGED <<db, runVars, turnVars, budget, git>>

CheckPolicy ==
  /\ pc = "policy_check"
  /\ Transition(iteration)
  /\ Goto("record_policy")
  /\ UNCHANGED <<db, runVars, turnVars, budget, git>>

\* The decision of the event stands for `allowed` in the report it carries.
RecordPolicy ==
  /\ pc = "record_policy"
  /\ \E allowed \in BOOLEAN :
       /\ Record("POLICY_CHECK", IF allowed THEN "ACCEPT" ELSE "REJECT")
       /\ Goto(IF allowed THEN "begin_execution" ELSE "reject_proposal")
  /\ UNCHANGED <<db, runVars, turnVars, budget, git>>

RejectProposal ==
  /\ pc = "reject_proposal"
  /\ Transition(iteration)
  /\ Goto("record_refusal")
  /\ UNCHANGED <<db, runVars, turnVars, budget, git>>

RecordRefusal ==
  /\ pc = "record_refusal"
  /\ Record("TRANSITION_DECIDED", DecideRefused)
  /\ iteration' = iteration + 1
  /\ Goto("loop")
  /\ UNCHANGED <<history, stagnation, active, best, db, turnVars, budget, git>>

-----------------------------------------------------------------------------
(* The loop: execution and checkpoint. *)

BeginExecution ==
  /\ pc = "begin_execution"
  /\ Transition(iteration)
  /\ Goto("record_start")
  /\ UNCHANGED <<db, runVars, turnVars, budget, git>>

RecordStart ==
  /\ pc = "record_start"
  /\ Record("EXECUTION_STARTED", "none")
  /\ Goto("apply_edits")
  /\ UNCHANGED <<db, runVars, turnVars, budget, git>>

\* What edits or commands of this turn did to the workspace.
Write ==
  /\ edits' \in SUBSET (edits \union {iteration})
  /\ UNCHANGED <<commits, head>>

\* Edits are applied one after the other: a failure leaves the earlier ones.
ApplyEdits ==
  /\ pc = "apply_edits"
  /\ \E failed \in IF proposal.edits THEN BOOLEAN ELSE {FALSE} :
       Goto(IF failed THEN "execution_failed"
            ELSE IF proposal.commands > 0 THEN "run_command" ELSE "begin_checkpoint")
  /\ IF proposal.edits THEN Write ELSE UNCHANGED git
  /\ UNCHANGED <<machine, db, runVars, turnVars, budget>>

\* A command may change files.  An argv that is not a list, and an OSError of
\* the sandbox or of the artifact store, are caught: no event tells of them.
RunCommand ==
  /\ pc = "run_command"
  /\ \E caught \in BOOLEAN : Goto(IF caught THEN "execution_failed" ELSE "record_command")
  /\ Write
  /\ UNCHANGED <<machine, db, runVars, turnVars, budget>>

\* A nonzero exit or a timeout ends the execution.
RecordCommand ==
  /\ pc = "record_command"
  /\ Record("EXECUTION_COMPLETED", "none")
  /\ \E failed \in BOOLEAN :
       Goto(IF failed THEN "execution_failed"
            ELSE IF proposal.commands > 1 THEN "run_command" ELSE "begin_checkpoint")
  /\ proposal' = [proposal EXCEPT !.commands = @ - 1]
  /\ UNCHANGED <<db, runVars, candidate, vector, budget, git>>

\* Mutant of RollBack: the workspace is left as the failed execution made it.
RollBackWithoutRestore ==
  /\ pc = "execution_failed"
  /\ stagnation' = stagnation + 1
  /\ Transition(iteration)
  /\ iteration' = iteration + 1
  /\ Goto("loop")
  /\ UNCHANGED <<history, active, best, db, turnVars, budget, git>>

\* _execute_proposal returned True: back to the active checkpoint, before the
\* machine is told.
RollBack ==
  /\ pc = "execution_failed"
  /\ stagnation' = stagnation + 1
  /\ \/ /\ Restore(active)
        /\ Transition(iteration)
        /\ iteration' = iteration + 1
        /\ Goto("loop")
     \/ RestoreFails(active) /\ UNCHANGED <<machine, iteration>>
  /\ UNCHANGED <<history, active, best, db, turnVars, budget>>

BeginCheckpoint ==
  /\ pc = "begin_checkpoint"
  /\ Transition(iteration)
  /\ Goto("checkpoint")
  /\ UNCHANGED <<db, runVars, turnVars, budget, git>>

\* A clean workspace cannot be committed: HEAD is the candidate then.
Checkpoint ==
  /\ pc = "checkpoint"
  /\ \E clean \in IsClean : IF clean THEN UNCHANGED git ELSE CommitAll
  /\ candidate' = head' /\ active' = head'
  /\ Goto("record_checkpoint")
  /\ UNCHANGED <<machine, db, history, iteration, stagnation, best, proposal, vector, budget>>

RecordCheckpoint ==
  /\ pc = "record_checkpoint"
  /\ Record("CHECKPOINT_CREATED", "none")
  /\ Goto("begin_evaluation")
  /\ UNCHANGED <<db, runVars, turnVars, budget, git>>

-----------------------------------------------------------------------------
(* The loop: evaluation and decision. *)

BeginEvaluation ==
  /\ pc = "begin_evaluation"
  /\ Transition(iteration)
  /\ Goto("evaluate")
  /\ UNCHANGED <<db, runVars, turnVars, budget, git>>

Evaluate ==
  /\ pc = "evaluate"
  /\ vector' \in Vectors
  /\ Goto("create_candidate")
  /\ UNCHANGED <<machine, db, runVars, proposal, candidate, budget, git>>

\* The candidates table holds no vector: it is recorded on its own.
NewCandidate == [Local("ACTIVE") EXCEPT !.vec = NoVector]

CreateCandidate ==
  /\ pc = "create_candidate"
  /\ rows' = Append(rows, NewCandidate)
  /\ Goto("record_evaluation")
  /\ UNCHANGED <<status, manifest, machine, runVars, turnVars, budget, git>>

\* Mutant of RecordEvaluation: the vector is not stored.
RecordEvaluationNowhere ==
  /\ pc = "record_evaluation"
  /\ Goto("evaluation_completed")
  /\ UNCHANGED <<db, machine, runVars, turnVars, budget, git>>

RecordEvaluation ==
  /\ pc = "record_evaluation"
  /\ rows' = [rows EXCEPT ![Len(rows)].vec = vector]
  /\ Goto("evaluation_completed")
  /\ UNCHANGED <<status, manifest, machine, runVars, turnVars, budget, git>>

CompleteEvaluation ==
  /\ pc = "evaluation_completed"
  /\ Record("EVALUATION_COMPLETED", "none")
  /\ Goto("selecting")
  /\ UNCHANGED <<db, runVars, turnVars, budget, git>>

SelectTransition ==
  /\ pc = "selecting"
  /\ Transition(iteration)
  /\ Goto("record_decision")
  /\ UNCHANGED <<db, runVars, turnVars, budget, git>>

\* Mutant of RecordDecision: only RETRY is taken for a rejection.
RecordDecisionRollbackAccepts ==
  /\ pc = "record_decision"
  /\ LET decision == Decide(vector, history, proposal.completion_claimed)
     IN /\ Record("TRANSITION_DECIDED", decision)
        /\ Goto(IF decision = "COMPLETE" THEN "begin_verify"
                ELSE IF decision # "RETRY" THEN "accept" ELSE "reject")
  /\ UNCHANGED <<db, runVars, turnVars, budget, git>>

RecordDecision ==
  /\ pc = "record_decision"
  /\ LET decision == Decide(vector, history, proposal.completion_claimed)
     IN /\ Record("TRANSITION_DECIDED", decision)
        /\ Goto(IF decision = "COMPLETE" THEN "begin_verify"
                ELSE IF IsAcceptable(vector) THEN "accept" ELSE "reject")
  /\ UNCHANGED <<db, runVars, turnVars, budget, git>>

Accept ==
  /\ pc = "accept"
  /\ SetCandidateStatus("ACCEPTED")
  /\ Judge("ACCEPTED")
  /\ best' = candidate /\ active' = candidate
  /\ stagnation' = 0
  /\ iteration' = iteration + 1
  /\ Goto("loop")
  /\ UNCHANGED <<status, manifest, machine, turnVars, budget, git>>

\* Mutant of Reject: the workspace is not put back.
RejectWithoutRestore ==
  /\ pc = "reject"
  /\ SetCandidateStatus("REJECTED")
  /\ Judge("REJECTED")
  /\ active' = best
  /\ stagnation' = IF stagnation + 1 >= 2 THEN 0 ELSE stagnation + 1
  /\ iteration' = iteration + 1
  /\ Goto("loop")
  /\ UNCHANGED <<best, status, manifest, machine, turnVars, budget, git>>

\* At two stagnating turns best_state is restored once more, which changes
\* nothing.
Reject ==
  /\ pc = "reject"
  /\ SetCandidateStatus("REJECTED")
  /\ Judge("REJECTED")
  /\ active' = best
  /\ \/ /\ Restore(best)
        /\ stagnation' = IF stagnation + 1 >= 2 THEN 0 ELSE stagnation + 1
        /\ iteration' = iteration + 1
        /\ Goto("loop")
     \/ RestoreFails(best) /\ UNCHANGED <<stagnation, iteration>>
  /\ UNCHANGED <<best, status, manifest, machine, turnVars, budget>>

-----------------------------------------------------------------------------
(* A claimed completion is evaluated a second time. *)

BeginVerify ==
  /\ pc = "begin_verify"
  /\ Transition(iteration)
  /\ Goto("verify")
  /\ UNCHANGED <<db, runVars, turnVars, budget, git>>

Verify ==
  /\ pc = "verify"
  /\ \E v \in Vectors : Goto(IF IsAcceptable(v) THEN "accept_completion" ELSE "refuse")
  /\ UNCHANGED <<machine, db, runVars, turnVars, budget, git>>

\* Mutant of RefuseCompletion: the candidates table is not told.
RefuseCompletionInMemory ==
  /\ pc = "refuse"
  /\ Restore(best)
  /\ active' = best
  /\ Judge("REJECTED")
  /\ stagnation' = stagnation + 1
  /\ iteration' = iteration + 1
  /\ Goto("loop")
  /\ UNCHANGED <<best, db, machine, turnVars, budget>>

RefuseCompletion ==
  /\ pc = "refuse"
  /\ SetCandidateStatus("REJECTED")
  /\ \/ /\ Restore(best)
        /\ active' = best
        /\ Judge("REJECTED")
        /\ stagnation' = stagnation + 1
        /\ iteration' = iteration + 1
        /\ Goto("loop")
     \/ RestoreFails(best) /\ UNCHANGED <<history, iteration, stagnation, active>>
  /\ UNCHANGED <<best, status, manifest, machine, turnVars, budget>>

\* Mutant of AcceptCompletion: the run's status is never set.
AcceptCompletionWithoutStatus ==
  /\ pc = "accept_completion"
  /\ SetCandidateStatus("ACCEPTED")
  /\ Judge("ACCEPTED")
  /\ Goto("declare")
  /\ UNCHANGED <<status, manifest, iteration, stagnation, active, best, machine, turnVars, budget, git>>

AcceptCompletion ==
  /\ pc = "accept_completion"
  /\ SetCandidateStatus("ACCEPTED")
  /\ Judge("ACCEPTED")
  /\ Goto("set_completed")
  /\ UNCHANGED <<status, manifest, iteration, stagnation, active, best, machine, turnVars, budget, git>>

SetCompleted ==
  /\ pc = "set_completed"
  /\ status' = "COMPLETED"
  /\ Goto("declare")
  /\ UNCHANGED <<rows, manifest, machine, runVars, turnVars, budget, git>>

DeclareCompletion ==
  /\ pc = "declare"
  /\ Transition(iteration)
  /\ Goto("record_completion")
  /\ UNCHANGED <<db, runVars, turnVars, budget, git>>

RecordCompletion ==
  /\ pc = "record_completion"
  /\ Record("COMPLETION_DECLARED", "none")
  /\ Goto("store_manifest")
  /\ UNCHANGED <<db, runVars, turnVars, budget, git>>

StoreManifest ==
  /\ pc = "store_manifest"
  /\ manifest' = "stored"
  /\ Goto("record_manifest")
  /\ UNCHANGED <<status, rows, machine, runVars, turnVars, budget, git>>

RecordManifest ==
  /\ pc = "record_manifest"
  /\ manifest' = "recorded"
  /\ Goto("record_stored")
  /\ UNCHANGED <<status, rows, machine, runVars, turnVars, budget, git>>

\* Mutant of RecordStored: the loop goes on instead of returning.
RecordStoredWithoutReturn ==
  /\ pc = "record_stored"
  /\ Record("ARTIFACT_STORED", "none")
  /\ Goto("loop")
  /\ UNCHANGED <<db, runVars, turnVars, budget, git>>

RecordStored ==
  /\ pc = "record_stored"
  /\ Record("ARTIFACT_STORED", "none")
  /\ Goto("closing")
  /\ UNCHANGED <<db, runVars, turnVars, budget, git>>

-----------------------------------------------------------------------------
(* The ways out. *)

\* except BudgetExceededError: the status first, then the transition, whose
\* iteration is the limit and not the iteration reached.
Cancel ==
  /\ pc = "cancel"
  /\ status' = "CANCELLED"
  /\ Goto("cancelling")
  /\ UNCHANGED <<rows, manifest, machine, runVars, turnVars, budget, git>>

\* Mutant of DeclareCancelled: the event carries the default iteration.
DeclareCancelledAtZero ==
  /\ pc = "cancelling"
  /\ Transition(0)
  /\ Goto("closing")
  /\ UNCHANGED <<db, runVars, turnVars, budget, git>>

DeclareCancelled ==
  /\ pc = "cancelling"
  /\ Transition(MaxIterations)
  /\ Goto("closing")
  /\ UNCHANGED <<db, runVars, turnVars, budget, git>>

\* StateMachine.transition raises on a request its tables do not allow.
InvalidTransition ==
  /\ pc \in Requesting
  /\ ~Permitted
  /\ Raise("InvalidTransitionError")

\* Mutant of Close: no finally, an exception skips the cleanup.
CloseOnReturnOnly ==
  /\ pc = "closing"
  /\ sandbox' = IF exc = "none" THEN "closed" ELSE sandbox
  /\ pc' = IF exc = "none" THEN "returned" ELSE "raised"
  /\ UNCHANGED <<exc, machine, db, runVars, turnVars, budget, git>>

\* finally: the sandbox is closed, and an exception goes on to the caller.
\* close may itself raise, or be cancelled.
Close ==
  /\ pc = "closing"
  /\ \/ sandbox' = "closed" /\ pc' = (IF exc = "none" THEN "returned" ELSE "raised")
     \/ sandbox' = "failed" /\ pc' = "raised"
  /\ UNCHANGED <<exc, machine, db, runVars, turnVars, budget, git>>

\* The lines of run before its try.
BeforeTry == {"start", "create_baseline"}

Ended == {"returned", "raised", "crashed"}

\* What is awaited raises (agent, evaluator, sandbox, git, database), or the task
\* is cancelled: only in the try is the sandbox closed on the way out.
Fail ==
  /\ pc \notin Ended \union {"closing"}
  /\ pc' = IF pc \in BeforeTry THEN "raised" ELSE "closing"
  /\ exc' = "Error"
  /\ UNCHANGED <<sandbox, machine, db, runVars, turnVars, budget, git>>

\* The process dies: the stores and the workspace stay as they are.
Crash ==
  /\ pc \notin Ended
  /\ pc' = "crashed"
  /\ UNCHANGED <<ending, machine, db, runVars, turnVars, budget, git>>

\* No command of the harness resumes a run.
Over == pc \in Ended /\ UNCHANGED vars

Step ==
  \/ CreateRun \/ CreateBaseline \/ Initialize \/ ValidateGoal
  \/ BeginBaseline \/ EvaluateBaseline \/ RecordBaseline
  \/ CheckBudget \/ EnterContext \/ ContextReady \/ Propose \/ RecordProposal
  \/ CheckPolicy \/ RecordPolicy \/ RejectProposal \/ RecordRefusal
  \/ BeginExecution \/ RecordStart \/ ApplyEdits \/ RunCommand \/ RecordCommand
  \/ RollBack \/ BeginCheckpoint \/ Checkpoint \/ RecordCheckpoint
  \/ BeginEvaluation \/ Evaluate \/ CreateCandidate \/ RecordEvaluation
  \/ CompleteEvaluation \/ SelectTransition \/ RecordDecision \/ Accept \/ Reject
  \/ BeginVerify \/ Verify \/ RefuseCompletion \/ AcceptCompletion
  \/ SetCompleted \/ DeclareCompletion \/ RecordCompletion
  \/ StoreManifest \/ RecordManifest \/ RecordStored
  \/ Cancel \/ DeclareCancelled \/ InvalidTransition \/ Close

Next == Step \/ Fail \/ Crash \/ Over

Spec == Init /\ [][Next]_vars

\* The database and git answer on the local disk, commands and evaluators run
\* under the sandbox's timeout; the agent's answer is awaited without a limit.
FairSpec == Spec /\ WF_vars(Step /\ pc # "propose")

=============================================================================
