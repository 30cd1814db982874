# A verification of the constrained agent harness

This directory holds TLA+ models of the harness in `src/constrained_agent`, the
TLC configurations that check them on small instances, and TLAPS proofs of what
matters most for instances of any size. The definitions are read off the code;
`PROJECT.json` gives the file and the lines each one stands for.

## 1. The system

The harness lets a language model work on a repository under a contract. One
*run* is one call of `Controller.run`: it evaluates the untouched repository,
then, turn after turn, shows the agent a context, takes a proposal, lets the
policy engine look at it, applies it in a sandboxed workspace, commits it,
evaluates the commit and decides: keep it, put the last good commit back, or
believe the agent that the task is done - after a second evaluation. Everything
is written to an event log, a database and an artifact store.

| part | code | state it keeps | operations |
|---|---|---|---|
| controller | `controller/controller.py` | locals of `run`: history, iteration, stagnation count, `active_state`, `best_state`, the proposal, candidate and vector of the turn | `run` and its helpers `_transition`, `_record_event`, `_execute_proposal`, `_apply_edits`, `_evaluate`, `_set_run_status` |
| event store facade | `controller/controller.py` (`SqliteEventStore`) | a cache of events, candidates and artifacts per run over the database | `append_event`, `create_candidate`, `update_candidate_status`, `record_evaluation`, `record_artifact`, `load_snapshots` |
| state machine | `controller/state_machine.py` | current state, hash of the last event | `validate`, `transition`, `record_event` |
| transition policy | `controller/transition_policy.py` | none | `decide` |
| evaluation vector | `domain/evaluations.py` | none | `is_better_than`, `is_acceptable` |
| budget tracker | `domain/budgets.py` | iterations, model calls, start time | `record_iteration`, `record_model_call`, `exceeded`, `remaining`, `reserved` |
| goal contract | `domain/contracts.py` | none | schema and `ContractValidator.validate` |
| events | `domain/events.py` | none | the hash chain: `compute_hash` |
| records | `domain/candidates.py`, `runs.py`, `evidence.py`, `approvals.py` | none | data classes |
| git workspace | `repository/git_store.py`, `worktree.py` | the clone: commits, HEAD, work tree | `initialize`, `checkpoint`, `restore`, `diff`, `create_branch` |
| evaluators | `evaluators/pipeline.py`, `command.py`, `diff_size.py` | the registered evaluators | `evaluate`, `merge_into` |
| policy engine | `policy/*.py` | none | `check_proposal` over paths, commands, dependencies; approvals |
| sandbox | `sandbox/docker.py`, `fake.py` | tracked containers | `execute`, `close` |
| agents | `agents/*.py` | scripted or replayed proposals; the ADK agent keeps none | `propose_action` |
| context builder | `context/*.py` | the last context manifest | `build`, repository map, token budget, failure summary |
| artifacts | `artifacts/*.py` | files named by their hash | `store`, `retrieve`, `verify`, `find_by_hash`, `generate_manifest`, `verify_manifest` |
| persistence | `persistence/*.py` | SQLite tables runs, events, candidates, evaluations, artifacts | create, update, list |
| telemetry, reporting | `telemetry/*.py`, `reporting/*.py` | OpenTelemetry gauges, log records | run summary, metrics, reports read off the events |
| command line | `cli/*.py` | none | `experiment run`, `inspect`, `report`, `artifacts verify`; `run`, `resume` and `cancel` print "not yet implemented" |
| benchmarks, scripts, tests | `benchmarks/`, `scripts/`, `tests/` | - | inputs and checks of the above |

### How the parts interact

`Controller.run` is a single asyncio task and calls everything else; nothing
calls back. It shares state with the outside in four places: the workspace (the
agent's edits, the commands in the sandbox, evaluators and git all write it),
the database, the artifact directory, and the sandbox's containers. The
collaborators never change the controller's locals.

### What is hard

* **Crashes.** Each database call commits by itself and no command resumes a
  run: whatever was written when the process dies is what a reader finds.
* **Partial failure.** Agent, policy, sandbox, evaluators and git may raise at
  every call; only an exhausted budget is handled, and an `OSError` while a proposal is
  executed, which counts as a command that failed. Edits are applied one by one.
* **Copies.** HEAD, `active_state`, `best_state`, the history and the
  candidates table all say where the run stands and are updated one by one, on
  five different ways out of a turn.
* **Protocol.** Every move is requested from a state machine with two tables of
  its own, from fourteen places.
* **Time.** Timeouts of commands, retries inside the agent, a runtime limit read
  between turns, and an agent that is awaited without any limit.

`PROJECT.json` lists each hazard at its line with the properties that would
catch it.

## 2. The modules

| module | models | role |
|---|---|---|
| `StateMachine` | `state_machine.py` | both tables and `validate`, as operators |
| `Evaluation` | `domain/evaluations.py` | the vector, `is_better_than`, `is_acceptable` |
| `TransitionPolicy` | `transition_policy.py` | `decide` and the stagnation test |
| `Controller` | `controller.py`, `budgets.py`, `git_store.py` | one run, as a state machine of 21 variables |
| `RunLedger` | nothing: it is a specification | what a run promises, in four variables |
| `ControllerProperties` | - | types, invariants, action and liveness properties, the refinement mapping |
| `MCController` | - | the instance TLC checks |
| `ControllerProofs`, `ControllerOutcome` | - | theorems |
| `EvaluatorPipeline` | `evaluators/*.py` | one pipeline and its evaluations, with its properties |
| `MCEvaluatorPipeline` | - | the evaluators TLC may register |
| `EvaluatorPipelineProofs` | - | theorems |
| `EvidenceStore` | `SqliteEventStore`, `persistence/repositories.py`, `artifacts/*.py` | events, files, rows and the manifest as one run writes them, and what a reader finds |
| `MCEvidenceStore` | - | its instance |
| `EvidenceStoreProofs` | - | theorems |
| `Workspace` | nothing: it is a specification | what the repository store promises a run |
| `GitWorkspace` | `repository/git_store.py` | the clone, file by file, under the git commands of the store |
| `MCGitWorkspace` | - | its instance |
| `GitWorkspaceProofs` | - | theorems |
| `DockerSandbox` | `sandbox/docker.py` | the containers of a run, the daemon and the worker threads |
| `DockerSandboxProofs` | - | theorems |
| `GoalContract` | `domain/contracts.py` | which goals parse, `ContractValidator.validate`, as operators |
| `PolicyEngine` | `policy/*.py` | `check_proposal`, as an operator |
| `AgentProposal` | `agents/protocol.py`, parts of `google_adk.py` | what a proposal is and what becomes of an answer, as operators |
| `AgentTurn` | `controller.py`, `agents/*.py`, `evaluators/command.py` over the four above | the turns of a run between agent, policy, sandbox and workspace |
| `MCAgentTurn` | - | its instance: goals, proposals and answers |
| `AgentTurnProofs` | - | theorems, the use of `DockerSandbox` among them |
| `ContextBuilder` | `context/builder.py`, `failure_summary.py` | what the agent is told, as a function of `Controller`'s state |
| `Reports` | `run_summary.py`, `run_report.py`, `metrics.py`, `cli/_common.py` | what is reported of a run, as functions of `Controller`'s state |
| `AccountProofs` | - | theorems about both, over those of `ControllerOutcome` |

### Controller

`pc` is the place in `run` between two commits of the database or answers of an
outside party; an action is the code from one such place to the next. None writes
the database twice, so that a transition and the event recorded after it, a model
call and its proposal, an evaluation's row and its event, the history of the
baseline and its row are two actions each, with a crash, an exception or a reader
between them. `exc` and `sandbox` are the exception on its way out and the finally
clause; what is raised before the `try` of `run` (`BeforeTry`) leaves without it, and
`Close` may raise as well. `cs` is `StateMachine._state`, `log` the events.
`status`, `rows` and `manifest` are the database (a row holds the evaluation
recorded for its candidate as well, once that is written); what is appended to
`history` is the local candidate (`Local`), not the row; `history`, `iteration`, `stagnation`,
`active`, `best`, `proposal`, `candidate` and `vector` are the locals of the
same names; `used` and `calls` are the budget tracker; `commits`, `head` and
`edits` are the git workspace.

A commit is its number in `commits` and says what it was made on, which
iteration made it and *which iterations' edits it contains*: `edits` is the set
of iterations that left uncommitted changes in files that no ignore file ever
hides. That is the abstraction of file contents the properties about leaking work
need. Git leaves ignored files where they are on a restore and out of a checkpoint,
so nothing is said of them here - one may indeed reach the commit of a later turn
(`doc_restore`) - and as they, or what an evaluator left behind, may make a workspace
dirty, one without edits may be found clean or not (`IsClean`).

What the outside answers is a choice: any proposal, any verdict of the policy
engine, success or failure of each command, any vector of `Vectors` from each
evaluation, a passed or not yet passed runtime limit at each turn, and at each
call, the writes of the database included, an exception or the cancellation of the
task (`Fail`); a restore that fails stops before or after its reset
(`RestoreFails`). `Crash` may come at any point.
`Over` is the stuttering of a run that has ended.

### RunLedger

A run trusts one commit at a time, starting from the one it was given; it
trusts and delivers only commits that an evaluation accepted; a terminal status
changes nothing any more. `LedgerSpec` in `ControllerProperties` is that
specification with the verdicts read off the rows, the trusted commit as
`best`, the delivered one as `head` of a COMPLETED run.

### EvaluatorPipeline

`Controller` takes the vector of an evaluation as a choice; this module says
which vectors there are. Evaluators are registered (`Register`), then
evaluations follow one another over the same workspace: `Begin` clears the
locals of `evaluate`, `RunEvaluator` is one turn of its loop - the evaluator
runs, its results are collected and merged into the vector, and the two early
returns are looked at - and `EvaluatorRaises` is the exception nobody catches.
An evaluator is described by its tier and by what decides how its result is
merged (which check it is, whether it has an exit code, whether it measures the
diff); its outcomes are choices. `change` is the size of the candidate's diff
and `unstaged` what of it `git diff` still shows, which is nothing once the
controller has checkpointed the candidate.

### EvidenceStore

`Controller` has an event or a row written in one step, and says nothing of files and
hashes; this module takes the writing apart. An action is one write that lasts - a file opened (and so
emptied), a file closed, a row of the artifacts table, the commit of an event -
or the caching of an event that was committed, from which the next hash is
chained. `pc` names the next of them; `Continue` is whatever the run does next:
record another event, store a diff or a log, or declare a verified completion,
which the chain file, the manifest, its row and the last event follow. `Stop`
ends the run between any two writes, and a reader may look at any moment. One failed
write does not end it: `_execute_proposal` catches the `OSError` of storing a
command's log (`SurviveFailure`), and `spoiled` remembers the logs whose file that
left empty or half written; it may be the file of a log that was recorded before.

SHA-256 is modelled by what it is relied on for: a digest *is* the content, an
event's hash is the sequence of the ids it was chained over. The timestamp is
any reading of a wall clock that may stand still or go back. `ReadBacks` are
the orders in which the database may return the events (`ORDER BY iteration,
timestamp`), `VerifyManifest` is what `verify_manifest` looks at.

### GitWorkspace and Workspace

`Controller` takes for granted that, of the files no ignore file ever hides, a
checkpoint commits everything and a restore discards everything. `GitWorkspace`
looks at the files. `work` is the work tree,
a commit has its parent and its files, and every file remembers the turn that
wrote it. A file is tracked if HEAD has it (between two calls the index is
HEAD's), and which untracked files `git status`, `git add` and `git clean` look
at is decided by `Patterns` of the ignore file *as it lies in the work tree* -
a file that turns write, commit and roll back like any other. One action is one
call; restore is two, `Reset` and `Clean`, as the second reads what the first
left. The meaning of each git command was read off git itself (2.39), since the
store only calls it. A git command that fails ends the run, so the model has no
step after it. Commands are assumed to keep their hands off `.git`, and nested
repositories (which `clean -fd` spares) are left out.

`Workspace` is what is promised: turns write, commits hold the edits since their
parent was checked out, a restore ends with nothing uncommitted. It holds of
the `Plain` files, those no ignore file can hide, which are the only ones
`Controller` and `AgentTurn` follow. `ImplementsWorkspace` is the refinement.

### DockerSandbox

In `Controller` a command succeeds, fails or raises; this module looks at what that
leaves of its container. `pc` is the daemon call `execute` awaits; each has an
action for the answer (`Create` to `Remove`), and `Fail` is the exception of any of
them, raised whether or not the daemon had carried the call out - both happen when a
connection breaks: a `DockerException`, or an `OSError` of the HTTP client below,
which `execute` does not catch, which may take the place of the exception on its way
in the finally clause, and which ends `close`. `TimeOut` is `wait_for` giving up, `Cancel` the
cancellation of the run's task; both leave the call they abandoned in `threads`,
as `asyncio.to_thread` cannot stop a thread, and `Finish` lets it end at any later
time. `life` is what the daemon knows of a container, which may be more than
`tracked` (`_containers`) says. `CarriedOut` is the daemon: it starts only what was
created, kills only what runs and is waited for only until the container no longer
runs. `unanswered` and `outcome` are history the properties speak of.

### GoalContract, PolicyEngine, AgentProposal and AgentTurn

The first three are data and decisions. A path is the sequence of its components, a
glob its own text and the set of paths that `fnmatch` finds it to match, and a
command its program, the forbidden patterns its text matches and its timeout, so
that a rule is the comparison the code makes: `Matches` looks a path up in that set,
`PathsOverlap` compares two globs by their texts, `IsAllowed` compares programs and
no arguments.

`AgentTurn` composes them with `DockerSandbox`, which it extends: its step is one
of the run's (`RunStep`), an answer of the agent, one of the sandbox and the daemon
(`SandboxStep`), or a `Write` of a command that runs, at whatever moment and whoever
still waits for it. `stage` is the place in `run`; `attempt` counts the requests of
`propose_action`; `plan` is the proposal, whose commands are taken off as they are
run; `writers` says who changed, since it was HEAD, a file of the workspace that no
ignore file ever hides, and `committed` the same of the last checkpoint; neither is
followed once nothing can be committed any more. `Controller` has the log, the database and the
lineage; here a verdict is only what it does to the workspace. The state of the two
is not shared: what ties them is that both are read off the same lines of `run`.

### ContextBuilder and Reports

Both extend `Controller` and have no state: an agent's context, a summary, a report
and the metrics are functions of what the run holds or has written at the time.
`ContextBuilder` keeps which commit's diff, whose vector, which rejections and which
numbers are told; `Reports` keeps where each number is read from - an event's own
fields, the payload of its row, a table or the manifest - since that is where they
can disagree. Evaluations are read back in the order of a timestamp the database
gives them, to the second and off a wall clock; `Clocks` are the ranks it may give.

## 3. The runs

| run | what is asked | bounds |
|---|---|---|
| `controller_turn` | two turns with up to two commands each and everything that may fail: types, leaking edits, declarations after a crash, the log as a path of the state machine, release of the sandbox (liveness) | 2 iterations, 2 commands |
| `controller_turns` | three turns in a row: lineage of commits, verified completion, order of the log, history against the table, budget, finality, the refinement of `RunLedger`; what the agent is told at each turn, what is counted and reported at each moment | 3 iterations, no commands; the 2 newest rejections told, so that one is cut off |
| `doc_repeat`, `doc_failure`, `doc_summary` | a sentence of the documentation each, which the code does not keep (section 5) | 2 iterations, 1 command |
| `evaluator_pipeline` | any evaluation by any registered evaluators: what an acceptable vector is worth, what runs after a failed gate, what the counts of a vector count | at most 3 evaluators of 9 kinds, at tiers 0, 1, 2 and 4; diffs of size 0 or 2 under a limit of 1; a runtime of 2 with each evaluator taking 1, so that the runtime gate trips |
| `doc_diff_size` | a sentence of the documentation, which the code does not keep (section 5) | 1 evaluator |
| `evidence` | what a reader finds of chain, files and manifest, whenever it looks and wherever the run stopped | 4 events in 2 iterations, clock readings 1 to 3, one content, so that the same file is written again |
| `doc_artifacts_verify` | a sentence of the documentation, which the code does not keep (section 5) | 3 events |
| `git_workspace` | tracked, untracked and ignored files under checkpoint, restore and branching; the refinement of `Workspace` | an ignore file and a file it may hide, each absent or with one of two texts, any source; 3 commits, so that a restore may go to a commit that is neither HEAD nor its parent; 2 turns |
| `doc_restore` | a sentence of the documentation, which the code does not keep (section 5) | 2 commits |
| `agent_turn` | the turns of a run over the sandbox: containers, results and threads under failing calls, timeouts and a cancellation; that commands run one at a time; whose writes a commit holds; which commands run; that calls, threads and runs end (liveness) | 2 calls of `execute`, of one proposal or of two turns, for commands or checks, the first of which may leave its container, its command or a thread behind; 1 check for each evaluation; 2 turns; 4 requests for each answer; 6 goals and 11 proposals, each refused for another reason or not at all |

`Vectors` holds one acceptable and one unacceptable vector: the controller only
distinguishes acceptable from not, and *better* from *not better* when it looks
for stagnation, which chooses between two decisions it treats alike. Three
iterations are enough for every pair of ways out of a turn to follow one
another and be followed by a turn that starts on the result; two commands for
a failure after a success. A turn without a commit (clean workspace) and a turn
whose commit holds no edit are both included. `controller_turn` has 344,856
distinct states, `controller_turns` 299,352.

**Fairness.** `FairSpec` is weak fairness of the run's own steps except the wait
for the agent: the database and git are local, commands and evaluators run under
the sandbox's timeout, but `propose_action` is awaited without a limit.
`SandboxIsReleased` accordingly exempts a run that waits for its agent forever,
one whose process died, and one that failed before its `try`, whose sandbox nothing
has used yet; it says that `close` was called, which may itself have failed.

`FairSpec` of `DockerSandbox`: the daemon answers or its client gives up, except in
the wait for a command, for a command need not end (`Exit` has no fairness); there
the timer of `wait_for` fires. An abandoned call ends under the same condition. The
controller closes a sandbox that is idle.

`TurnFairness` gives `AgentTurn` the same for its sandbox and weak fairness of the
run's own steps. Nothing makes a model answer, so `RunEnds` exempts a run that
waits for one answer forever - and no other: not one whose answers are never
proposals, nor one whose commands never end. In `DockerSandbox` alone a call of
`execute` may follow one that raised, and run beside a command whose container was
not removed (`CommandsDoNotOverlap` says when). In `AgentTurn`, as in the program,
the exceptions of `execute` end the run, except for an `OSError`, which counts as a
failed execution: `CommandsRunAlone` leaves only the command of a call that ended so
and whose container was not removed (`LeftBehind`).

Every property of a passing run has a mutant: a definition of the model changed
the way a plausible bug would change the code (the operator just above the
original in the module), under which TLC finds the property violated.

## 4. The proofs

The proofs assume what the constants assume, for the controller `EvaluationAssumption`,
`NoVectorAssumption`, `ControllerAssumption` and `ContextAssumption` - positive
limits, any set of vectors. There is no bound on turns, commands, edits or vectors.

* `ControllerProofs`: `TypeCorrect`, that every variable keeps its type. Types
  alone are not inductive: a candidate's row is changed in place, so the
  invariant adds that the tables are not empty once the baseline exists, and
  that a command is run only if one is left (`ControlInv`).
  Then what work rests on. The strengthening is `PointerInv`, which divides the
  places of `run` into three - before the edits,
  while they are applied, after the checkpoint - and says for each where HEAD,
  `active_state` and `best_state` are and whose edits may be uncommitted;
  `JudgingInv`, that the last row, the vector and the place agree; and
  `TrustInv`, that `best_state` is the commit of a candidate accepted on
  evidence. Then `TurnStartsFromBest`, `CommitHoldsOneTurn`,
  `RejectedWorkIsNotBuiltOn` and the action property `BestMovesForward` follow.
  `HistoryGrows` is the lemma behind them: nothing in the history is revised.
* `ControllerOutcome`: what a terminal status means. `OutcomeInv` ties status and
  place; `CompletedIsVerified` and `TerminalIsFinal` follow. Then what the log and
  the tables say: `LogReplays` from `LogSteps` (what a step may append),
  `DeclarationsAreBacked` from `DeclaredInv`, `LogIsSorted` and
  `BudgetIsRespected` from `PaceInv`, which bounds iteration, both counters of the
  budget and the log against one another at each place. `HistoryMatchesStore` needs
  to know where the table is one candidate ahead, where the two copies of the last
  candidate differ, and what the copy still to be appended will be (`MatchInv`). `RunsKeepTheLedger`
  is the refinement of `RunLedger`: `LedgerInv` gives the status at each place, and
  `OneRowChanges` says that a verdict changes the row of one commit, so that each
  step of the run is one of the ledger's or none. `RunsAreFinite` is what liveness
  has of safety: `StepsLeft`, a bound on the steps to come made of the turns the
  budget leaves and the place in the turn (`StepsOfATurn`: 26, and those of the
  commands), falls with every step.

* `EvaluatorPipelineProofs`: `TypeCorrect`, `AcceptableVectorsAreBacked` and
  `GatesStopEvaluations`, for any set of evaluators and any limits. The
  strengthening `PipelineInv` says of a running evaluation that every failed
  result so far is in the vector unless it was silent or superseded
  (`FailuresAreReported`), of one that returned early that it had a reason
  (`ReturnHasReason`), and that no result precedes another past a gate.
  `BetterIsAStrictOrder`: the ranking the test for stagnation uses is irreflexive,
  asymmetric and transitive on all vectors (the first difference of two keys decides).
  `VectorsCountResults`, for evaluations of any length: it is inductive as it
  stands, once a sum over a set is known to grow by what is added to the set. The
  library defines that sum by a recursive function of which no library fact is usable
  here, so the lemmas start from the definition: a counterexample of least size has
  none smaller (`Induction`, from the library's `WFMin`), which gives that the
  function exists (`TotalsExist`), does not depend on the order it takes the
  elements in (`TotalOfAny`) and adds up (`TotalAdds`).

* `EvidenceStoreProofs`: `TypeCorrect`, `ChainNeverForks`, `FoundManifestsVerify`,
  `RecordedFilesStay`, `ManifestsSealRuns` and `ChainsReadBack`, for runs of any
  length. `EvidenceInv` adds that each cached event is linked to the one
  before (`ChainInv`), that what is spoiled is torn and a command's log
  (`FilesOK`), what the place in the writing says of the artifact under way
  (`StoringInv`), that each file with a row is whole, spoiled or being written, and
  that a manifest verifies just if it names nothing spoiled (`RowsInv`). `SealInv` adds which event a manifest that is being written, or has
  its row, covers. `ChainsReadBack` rests on `OrderInv` - iterations never go back -
  and on `SortedIsInPlace`, that a reordering which is sorted by iteration and
  timestamp moves nothing if those are strictly increasing.

* `AccountProofs`: what is told of a run, which is all read from the log. `AccountStep`
  says for each step what events it appends, `CountAppend` and its like what that
  does to what a reader counts and finds.
  `CountInv` has the events of evaluations and checkpoints in step with the rows, a
  row of an evaluation before its event and the event of a checkpoint before its
  candidate's row, by one and for good if the run is cut short there (`CutShort`):
  `ReportsCountTables`. `LastTurnInv` has the log of a completed run end with
  the turn of its last row, and a manifest rest on COMPLETED at the iterations spent:
  `CompletionsAreVerified`, for every clock that puts the last evaluation last, where `RowsOfEvents` and `LastIterationOfCompleted` lead
  from what the reports look up to the row it is of.
  `ContextsAreCurrent` needs two more of the turns before: that of the candidates in
  the history each is scored, and of another turn than any refusal (`EarlierInv`);
  and how far the last of them lies back (`LagInv`): the turns since its evaluation,
  and at most the present one, are those whose answer gave no candidate. Neither is
  inductive without the place in the turn, as the answer, the candidate and the score
  come one after another. The newest refusal is among those told, however few are
  told (`NewestIsTold`).

* `GitWorkspaceProofs`: `TypeCorrect`, `StoreImplementsWorkspace`, `RestoreBringsTheCommitBack`
  and `CheckpointsCommitAll`, for any files, patterns and number of commits.
  The only strengthening is `RestoreInv`: what reset put back is still there when
  clean runs. The refinement shows for each call which step of `Workspace` it is;
  `AbstractCheckpoint` is the one that takes work, as the commits are mapped too.

* `DockerSandboxProofs`: `TypeCorrect`, `LeaksAreUnanswered`, `OneCommandAtATime` and
  `ResultsAreThoseOfTheCommand`, for any number of commands. `LeakInv` says of a
  call that has ended what its container and its abandoned start may still be
  (`Settled`), and that no container exists before its call; `CourseInv` ties the
  place in `execute` to the life of the container while no exception is on its way.

* `AgentTurnProofs`: `RunsUseTheSandbox`, that a run's turns are a behaviour of
  `DockerSandbox`, so that its theorems hold here; `CommitsHoldTheirTurn` and
  `CommandsAreAlone`, which rest on `RestInv` - a call of `execute` that returned
  leaves nothing that runs or could start - and on `ExecuteFits`, that the run goes
  on to anything but its end only after a call that returned, or ended in an
  `OSError`, so that a command that runs is that of the last call or was left behind
  (`RunningFits`), which it stays (`LeftBehindStays`); `WriterFits` says at each stage who
  may have written what is not committed; and `CommandsArePermitted`, for which `PermitInv` says
  what of the proposal was checked (`PlanFits`, from `AllowedIsPermitted` about
  `CheckProposal`) and which calls have succeeded (`CallFits`). They hold for any
  goals, answers, checks and number of calls.

Every invariant and action property of a passing run is so proved, and each
refinement. Only model-checked is liveness (`SandboxIsReleased`, `ExecuteEnds`,
`ThreadsEnd`, `RunEnds`): the prover has no ENABLED and so no fairness. Of the first,
`RunsAreFinite` proves that a run cannot go on forever, and TLC adds that fairness
keeps it from stopping. The library's
induction theorems have an operator as parameter and cannot be used either; where
an induction is needed, it is one over the least counterexample in a set.

## 5. Where code and documentation disagree

* `doc_repeat`: `docs/architecture.md` has the loop repeat until a decision or an
  exhausted budget. After a *refused completion* the next turn's first request,
  BUILDING_CONTEXT under ACCEPT, is forbidden from VERIFYING_COMPLETION (the
  table wants RETRY or REJECT), and the run dies of `InvalidTransitionError`.
* `doc_failure`: FAIL is documented as a run terminated with failure; no code
  requests it, and a run that ends in any exception but the budget's keeps its
  status and its last state.
* `doc_diff_size`: the evaluator that is to limit a candidate's diff reads
  `git diff --numstat` of a workspace whose change was committed just before,
  so a candidate of any size passes.
* `doc_artifacts_verify`: `artifacts verify` opens the artifact store under the
  run's id; the files are under the name the caller chose before the controller
  drew that id. It finds no file and refuses every manifest.
* `doc_restore`: `restore` runs `git clean` under the ignore file of the work tree,
  which is itself removed if it is untracked: a file it hid survives the rollback
  and is visible afterwards, so that the next checkpoint commits a file of a
  rejected turn. `RestoreBringsBack` is what does hold.
* `doc_summary`: `docs/cli.md` shows a summary with `approval=approved` and counted
  decisions. The summary looks for a decision in the payload of a row, which holds
  the dump of the whole event and has it one level deeper: every decision counts as
  UNKNOWN and a completed run as still running.

Seen while reading, without a run of their own: a failed execution passes
through SELECTING_TRANSITION without the documented TRANSITION_DECIDED event;
RETRY, documented to re-run the same iteration, starts a new one and pays for
it; `docs/architecture.md` has any failing tier short-circuit the pipeline,
where only tier 0 and the hard-gate counts do; the chain is read back in the
order of a wall clock, so that one set back within an iteration yields a list
that is not the chain; the "append-only" artifact store
(`docs/architecture.md`) empties and rewrites a file that is stored again; a kill
that comes just after its command ended is refused, and the finished command is
reported as a `SandboxError` (`docker.py:78`), which ends the run; an `OSError` of the
docker client is rolled back like a failed command (`controller.py:809`) although
its command may still run, and then writes into the next turn and its checkpoint; if
it is raised in the finally clause of `execute` (`docker.py:99`) it takes the place of
a cancellation, and the run goes on.

A checkpoint and a restore leave alone what an ignore file hides: the checks see an
ignored file that an edit wrote, the commit that completes the run does not hold it,
and it survives a rollback (`git_store.py:52,63`). The log of a command that cannot
be stored counts as a failed command (`controller.py:809`): the file may be left torn,
and if its content had been recorded before, the manifest of a run that completes
afterwards names it and does not verify. COMPLETION_DECLARED, "Agent claimed
completion" in `docs/domain.md:99`, is recorded only for a claim that was verified, so
that the rate of false completions (`metrics.py`) is zero whatever agents claim.
Evaluations are sorted by a timestamp of one-second granularity (`models.py:117`,
`_common.py:105`): a report may show as final an evaluation that shares its second
with the last, or any if the clock was set back. The lines of `run` before its `try`
(`controller.py:324-351`) leave the sandbox open if they raise, with no command run
in it yet.

Of the agents and the policy: `GoogleAdkCodingAgent` withdraws every claim of
completion (`google_adk.py:131`), without which `decide` never completes a run, so
that a run with this agent can end only cancelled or in an error; it may make four
requests where the budget, for which `docs/domain.md:72` has "maximum model
invocations", counts one (`google_adk.py:118`, `controller.py:413`); the allowlist of
commands compares programs and not the arguments its entries carry
(`engine.py:37`), where `docs/domain.md:80` has "command prefixes" and
`docs/architecture.md:80` "validates command arguments"; an approval gate is never opened: a proposal that needs one is
refused.

Of what is told and reported: the agent is told of the whole budget at every turn,
as `run.metadata["budget_usage"]` is written only when the run is over
(`builder.py:179`, `controller.py:607,684`); a refused proposal is listed to it
twice, as the check and as the decision (`builder.py:270-287`), and a candidate
the evaluation rejected not at all; the failures it is told are counts of the
vector without the checks that failed (`failure_summary.py:16`); the summary counts
every evaluation as a failure, as no payload says `passed`
(`run_summary.py:61`); the metric of rollbacks misses those after a failed
execution, which record no decision.

## 6. Plan

Done, in this order: the controller with its ledger, evaluators, evidence, git and
the sandbox, each with its proofs; then the agents, the contract and the policy,
composed with the sandbox in `AgentTurn`; the context and the reports over
`Controller`. What is left, most useful first:

1. `AgentTurn` and `Controller` as two views of one run: a mapping of the stages to
   `pc` under which each implements a common, coarser turn.
2. The checks of the baseline in `AgentTurn`, followed call by call.

## 7. Not modelled

* What is left in memory by a database error: it ends the run, and nothing reads its
  caches and counters after that.
* Wording, formatting, logging, telemetry export, report layout.
* Approvals: no code of `Controller.run` requests one.
* The repository map and the token budget (`context/repository_map.py`,
  `token_budget.py`), prompts and sessions of the ADK agent: text.
* In `Controller` and `AgentTurn`, ignored files: nothing is claimed of what a rollback
  keeps of them or a checkpoint leaves out (`GitWorkspace`'s subject). In `AgentTurn`,
  the lines of the log and the database
  (`Controller`'s), and the calls the baseline's checks make, which may leave files
  behind but are not followed.
* Text comparisons of the policy: a command *matches* a forbidden pattern or not, a
  path is given by its resolved components, and a glob by the paths it matches.
* The three workflow nodes a `GoogleAdkCodingAgent` is called through
  (`agents/adk_nodes.py`): they build the context a second time, ask the agent
  and check its proposal, which for the controller's state is the same turn.
* `cli run`, `resume`, `cancel`, `validate-goal`: they only print that they are
  not implemented.
