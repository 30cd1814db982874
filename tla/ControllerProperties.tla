------------------------ MODULE ControllerProperties ------------------------
(***************************************************************************)
(* What a run of the Controller module must and must not do.               *)
(***************************************************************************)
EXTENDS Controller, FiniteSets

ControlPoints ==
  Requesting \union Ended \union
  {"start", "create_baseline", "validate_goal", "evaluate_baseline",
   "record_baseline", "loop", "propose", "record_proposal", "record_policy",
   "record_refusal", "record_start", "apply_edits", "run_command",
   "record_command", "checkpoint", "record_checkpoint", "evaluate",
   "create_candidate", "record_evaluation", "evaluation_completed",
   "record_decision", "accept", "reject", "verify", "refuse",
   "accept_completion", "set_completed", "record_completion", "store_manifest",
   "record_manifest", "record_stored", "cancel", "closing"}

RunStatus == {"none", "CREATED", "ACTIVE", "COMPLETED", "CANCELLED"}

CandidateStatus == {"ACTIVE", "ACCEPTED", "REJECTED"}

Candidate == [commit: Nat, parent: Nat, depth: Nat, iteration: Nat,
              status: CandidateStatus, vec: Vectors \union {NoVector}]

Commit == [parent: Nat, edits: SUBSET Nat, iteration: Nat]

EventType == {"STATE_TRANSITION", "MODEL_CALL", "PROPOSAL_RECEIVED", "POLICY_CHECK",
              "EXECUTION_STARTED", "EXECUTION_COMPLETED", "CHECKPOINT_CREATED",
              "EVALUATION_COMPLETED", "TRANSITION_DECIDED", "COMPLETION_DECLARED",
              "ARTIFACT_STORED"}

Event == [type: EventType, iteration: Nat, from: ControllerState, to: ControllerState,
          decision: TransitionDecision \union {"none"}]

Exceptions == {"none", "Error", "GoalValidationError", "RepositoryStateError",
               "InvalidTransitionError"}

ControlTypes ==
  pc \in ControlPoints /\ exc \in Exceptions /\ sandbox \in {"open", "closed", "failed"}

MachineTypes == cs \in ControllerState /\ log \in Seq(Event)

StoreTypes ==
  /\ status \in RunStatus
  /\ manifest \in {"none", "stored", "recorded"}
  /\ rows \in Seq(Candidate)
  /\ history \in Seq(Candidate)

GitTypes ==
  /\ commits \in Seq(Commit)
  /\ {active, best, candidate, head} \subseteq 1 .. Len(commits)
  /\ edits \in SUBSET Nat

TurnTypes ==
  /\ iteration \in Nat /\ stagnation \in Nat
  /\ proposal \in Proposal
  /\ vector \in Vectors \union {NoVector}
  /\ used \in Nat /\ calls \in Nat

\* The type of every variable of the run: in particular the pointers into the
\* git history never dangle.
TypeOK == ControlTypes /\ MachineTypes /\ StoreTypes /\ GitTypes /\ TurnTypes

\* At a turn's start and until its edits are applied, HEAD, active_state and
\* best_state are one commit and, in files that no ignore file hides, no work of
\* an earlier turn is in the workspace: whatever ended that turn put it back.
TurnStartsFromBest ==
  pc \in {"loop", "enter", "context_ready", "propose", "record_proposal",
          "policy_check", "record_policy", "reject_proposal", "record_refusal",
          "begin_execution", "record_start", "apply_edits"} =>
    head = best /\ active = best /\ edits = {}

\* Every checkpoint is made on top of a commit that an accepted candidate
\* stands for: work that was rejected, or whose completion was refused, is
\* never under later work.
RejectedWorkIsNotBuiltOn ==
  \A c \in 2 .. Len(commits) : \E i \in DOMAIN history :
    /\ history[i].status = "ACCEPTED"
    /\ history[i].commit = commits[c].parent
    /\ i > 1 => IsAcceptable(history[i].vec)

\* In files that no ignore file hides, a checkpoint holds edits of its own turn
\* only: neither a failed execution nor a rejected candidate leaks such edits
\* into a later commit.  (An ignored file may leak: GitWorkspace shows how.)
CommitHoldsOneTurn ==
  \A c \in DOMAIN commits : commits[c].edits \subseteq {commits[c].iteration}

\* A run that the database calls COMPLETED ends on its last candidate, whose
\* recorded vector is acceptable, and HEAD is that candidate's commit, which
\* leaves out no edit but those in files that an ignore file hides.
CompletedIsVerified ==
  status = "COMPLETED" =>
    LET last == rows[Len(rows)]
    IN  /\ last.status = "ACCEPTED"
        /\ IsAcceptable(last.vec)
        /\ last.commit = head
        /\ last.iteration = iteration
        /\ edits = {}

Reached(s) == \E i \in DOMAIN log : log[i].type = "STATE_TRANSITION" /\ log[i].to = s

\* A crash may leave a terminal status without its event, never an event or a
\* manifest without what must have been written before it.
DeclarationsAreBacked ==
  /\ Reached("COMPLETED") => status = "COMPLETED"
  /\ Reached("CANCELLED") => status = "CANCELLED"
  /\ manifest # "none" => Reached("COMPLETED")

\* The events, as they were appended, are sorted by iteration, the column the
\* event repository sorts by when the chain is read back.
LogIsSorted ==
  \A i, j \in DOMAIN log : i < j => log[i].iteration <= log[j].iteration

\* Read back, the log is a path of the state machine: every event starts in the
\* state the previous one ended in, every move is one that both tables allow,
\* and the path ends in the machine's present state.
LogReplays ==
  /\ \A i \in DOMAIN log :
       /\ log[i].from = IF i = 1 THEN "CREATED" ELSE log[i - 1].to
       /\ IF log[i].type = "STATE_TRANSITION"
          THEN Validate(log[i].from, log[i].to, log[i].decision)
          ELSE log[i].to = log[i].from
  /\ cs = IF log = <<>> THEN "CREATED" ELSE log[Len(log)].to

\* The history the decisions are made from is what the candidates table says,
\* but for one candidate that is still being judged and, before the loop, for
\* the vector of the baseline, which the history gets first.
HistoryMatchesStore ==
  /\ Len(rows) - Len(history) \in {0, 1}
  /\ \A i \in DOMAIN history :
       \/ history[i] = rows[i]
       \/ iteration = 0 /\ rows[i] = [history[i] EXCEPT !.vec = NoVector]
  /\ \A i \in DOMAIN rows : rows[i].status = "ACTIVE" => i > Len(history)

\* The agent answers at most once a turn and at most max_iterations times, and
\* so never exceeds max_model_calls either.
BudgetIsRespected ==
  /\ Cardinality({i \in DOMAIN log : log[i].type = "MODEL_CALL"}) = calls
  /\ calls <= MaxIterations
  /\ calls <= MaxModelCalls
  /\ iteration <= MaxIterations + 1

\* best_state moves only to a commit made directly on top of it, and only for
\* an acceptable vector: accepted work is never dropped.
BestMovesForward ==
  [][best' # best =>
       commits[best'].parent = best /\ IsAcceptable(history'[Len(history')].vec)]_vars

outcome == <<status, rows, commits, head, best, active, edits>>

\* A terminal status is final: the run makes no commit, judges no candidate and
\* moves no pointer after it.
TerminalIsFinal ==
  [][(status \in {"COMPLETED", "CANCELLED"}) => outcome' = outcome]_vars

\* However a run ends, close was called on its sandbox, unless the process dies,
\* the agent never answers, or the run failed before its try, when nothing had
\* used the sandbox yet.
SandboxIsReleased ==
  <>[](\/ sandbox # "open"
       \/ pc \in {"crashed", "propose"}
       \/ pc = "raised" /\ history = <<>>)

\* The promise of a run, read off its stores: Controller implements RunLedger.
Ledger == INSTANCE RunLedger WITH
  verdicts  <- {rows[i].commit : i \in {n \in DOMAIN rows :
                                          rows[n].vec # NoVector /\ IsAcceptable(rows[n].vec)}},
  trusted   <- best,
  delivered <- IF status = "COMPLETED" THEN head ELSE 0

LedgerSpec == Ledger!Spec

-----------------------------------------------------------------------------
(* What the documentation says of a run and the code does not do. *)

\* docs/architecture.md: the loop repeats until COMPLETE, FAIL or an exhausted
\* budget, so a run never ends by asking its state machine for a forbidden move.
RepeatsUntilDecided == exc # "InvalidTransitionError"

\* docs/architecture.md: FAIL is the decision of a run terminated with failure;
\* a run that ends in an exception has reached FAILED, if it got as far as to
\* have a baseline.
FailureIsRecorded == pc = "raised" /\ history # <<>> => Reached("FAILED")

=============================================================================
