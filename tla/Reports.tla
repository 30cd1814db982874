------------------------------ MODULE Reports -------------------------------
(***************************************************************************)
(* What is reported of a run, computed from its stores: the summary        *)
(* (telemetry/run_summary.py), the run report (reporting/run_report.py),   *)
(* the metrics of a run and of an experiment (reporting/metrics.py), and   *)
(* the loading of the tables (cli/_common.py, SqliteEventStore).           *)
(***************************************************************************)
EXTENDS ControllerProperties, FiniteSetsExt

-----------------------------------------------------------------------------
(* What a reader of the stores finds. *)

\* append_event stores the dump of the whole event as the payload of its row:
\* what _record_event called the payload is one level down, where readers of
\* rows do not look.  Only a transition event has a decision of its own.
EventRow(e) == IF e.type = "STATE_TRANSITION" THEN e ELSE [e EXCEPT !.decision = "none"]

\* The evaluations table: the vectors, by the candidate they are of.
Evaluations == [i \in {n \in DOMAIN rows : rows[n].vec # NoVector} |-> rows[i].vec]

\* _current_budget_usage, which the manifest of a completed run carries.
BudgetUsage == [iterations_consumed |-> used, model_calls |-> calls]

\* _load_manifest: the manifest that the artifacts table names.
LoadManifest == IF manifest = "recorded" THEN {BudgetUsage} ELSE {}

\* load_run_data, for the commands that inspect and report.
LoadRunData ==
  [status      |-> status,
   events      |-> [i \in DOMAIN log |-> EventRow(log[i])],
   evaluations |-> Evaluations,
   manifest    |-> LoadManifest]

\* load_snapshots rebuilds the events as they were recorded.
LoadSnapshots == [status |-> status, events |-> log, candidates |-> rows]

Number(events, type) == Cardinality({i \in DOMAIN events : events[i].type = type})

LastIteration(events) == Max({0} \union {events[i].iteration : i \in DOMAIN events})

-----------------------------------------------------------------------------
(* The summary and the report. *)

\* payload.get("decision", "UNKNOWN")
DecisionShown(e) == IF e.decision = "none" THEN "UNKNOWN" ELSE e.decision

Decided(events) == SelectSeq(events, LAMBDA e : e.type = "TRANSITION_DECIDED")

\* RunSummary.from_events.  No payload says "passed", so an evaluation always
\* counts as a failure.
Summary(events) ==
  LET shown == [i \in DOMAIN Decided(events) |-> DecisionShown(Decided(events)[i])]
  IN  [total_iterations   |-> LastIteration(events),
       decisions          |-> [d \in TransitionDecision \union {"UNKNOWN"} |->
                                 Cardinality({i \in DOMAIN shown : shown[i] = d})],
       evaluator_passes   |-> 0,
       evaluator_failures |-> Number(events, "EVALUATION_COMPLETED"),
       final_approval     |-> IF \E i \in DOMAIN shown : shown[i] = "COMPLETE"
                              THEN "approved" ELSE "running",
       artifact_count     |-> Number(events, "ARTIFACT_STORED"),
       model_calls        |-> Number(events, "MODEL_CALL")]

\* Mutant of BudgetFromEvents: the turns counted are those that were evaluated.
BudgetFromEvaluations(events) ==
  [iterations_consumed |-> Number(events, "EVALUATION_COMPLETED"),
   model_calls         |-> Number(events, "MODEL_CALL")]

\* _budget_from_events
BudgetFromEvents(events) ==
  [iterations_consumed |-> LastIteration(events),
   model_calls         |-> Number(events, "MODEL_CALL")]

\* _load_evaluations sorts by nothing but a timestamp that the database gives a
\* row, to the second: time holds the rank of each, and equal ones come in any
\* order.
Clocks == [1 .. Len(rows) -> 1 .. Len(rows)]

\* Mutant of FinalEvaluations: the first evaluation is taken.
FirstEvaluations(evaluations, time) ==
  {evaluations[i] : i \in {n \in DOMAIN evaluations :
                             \A m \in DOMAIN evaluations : time[n] <= time[m]}}

\* What evaluations[-1] may be.  A manifest is consulted only when there is no
\* evaluation; a run that has a manifest has one.
FinalEvaluations(evaluations, time) ==
  {evaluations[i] : i \in {n \in DOMAIN evaluations :
                             \A m \in DOMAIN evaluations : time[m] <= time[n]}}

\* RunReport.from_parts, its final evaluation apart.
Report(run) ==
  [status      |-> run.status,
   iterations  |-> LastIteration(run.events),
   checkpoints |-> Number(run.events, "CHECKPOINT_CREATED"),
   budget      |-> IF run.manifest # {} THEN CHOOSE b \in run.manifest : TRUE
                   ELSE BudgetFromEvents(run.events)]

-----------------------------------------------------------------------------
(* The metrics of a run and of an experiment. *)

\* compute_run_metrics.  A refused proposal counts once, whatever the number of
\* its violations; a rollback for a failed execution records no decision.
Metrics(run) ==
  LET events   == run.events
      declared == Number(events, "COMPLETION_DECLARED") > 0
      verified == run.status = "COMPLETED"
      final    == IF run.candidates = <<>> THEN NoVector
                  ELSE run.candidates[Len(run.candidates)].vec
      hidden   == final # NoVector /\ OrZero(final.hidden_tests_failed) > 0
      decided(type, d) ==
        Cardinality({i \in DOMAIN events : events[i].type = type /\ events[i].decision = d})
  IN  [declared_complete   |-> declared,
       verified_complete   |-> verified,
       hidden_tests_passed |-> verified /\ ~hidden,
       false_completion    |-> declared /\ ~verified,
       refusals            |-> decided("POLICY_CHECK", "REJECT"),
       rollbacks           |-> decided("TRANSITION_DECIDED", "ROLLBACK"),
       model_calls         |-> Number(events, "MODEL_CALL"),
       final_evaluation    |-> final]

\* _safe_rate, as a fraction.
SafeRate(n, d) == IF d = 0 THEN <<0, 1>> ELSE <<n, d>>

\* compute_experiment_metrics, over the metrics of several runs.
ExperimentMetrics(runs) ==
  LET having(P(_)) == Cardinality({i \in DOMAIN runs : P(runs[i])})
      declared     == having(LAMBDA m : m.declared_complete)
  IN  [verified_completion_rate      |-> SafeRate(having(LAMBDA m : m.verified_complete), Len(runs)),
       verified_completion_precision |->
         SafeRate(having(LAMBDA m : m.declared_complete /\ m.verified_complete), declared),
       hidden_test_success_rate      |-> SafeRate(having(LAMBDA m : m.hidden_tests_passed), Len(runs)),
       false_completion_count        |-> having(LAMBDA m : m.false_completion)]

-----------------------------------------------------------------------------

\* At any moment, also after a crash, what is counted in events matches the
\* tables: each model call is counted once, and each evaluation and checkpoint,
\* but for one of a turn that is not over or was cut short, for these are told
\* of in one commit and kept in another.  The budget spent comes out the same
\* from the events as from the manifest (run_report.py:53-57).
CountsMatchTables ==
  LET run         == LoadRunData
      summary     == Summary(run.events)
      scored      == Cardinality({i \in 2 .. Len(rows) : rows[i].vec # NoVector})
      checkpoints == Report(run).checkpoints
  IN  /\ summary.model_calls = calls
      /\ scored \in {summary.evaluator_failures, summary.evaluator_failures + 1}
      /\ checkpoints \in {Cardinality(2 .. Len(rows)), Cardinality(2 .. Len(rows)) + 1}
      /\ pc \in {"loop", "returned"} =>
           scored = summary.evaluator_failures /\ checkpoints = Cardinality(2 .. Len(rows))
      /\ run.manifest # {} => Report(run).budget = BudgetFromEvents(run.events)

\* A completion that is reported is one.  COMPLETION_DECLARED is recorded only
\* once a completion is verified, so no false completion is ever counted and an
\* experiment's precision is 1 wherever one of its runs declared completion
\* (metrics.py:28-41, 75-80).  The metrics end on the acceptable vector of the
\* last turn; the report ends on the same one if the clock of the database gave
\* the last evaluation a later second than every other.
ReportedCompletionIsVerified ==
  LET metrics    == Metrics(LoadSnapshots)
      run        == LoadRunData
      experiment == ExperimentMetrics(<<metrics>>)
  IN  /\ experiment.false_completion_count = 0
      /\ metrics.declared_complete => experiment.verified_completion_precision = <<1, 1>>
      /\ metrics.verified_complete =>
           /\ IsAcceptable(metrics.final_evaluation) /\ metrics.hidden_tests_passed
           /\ Report(run).iterations = rows[Len(rows)].iteration
           /\ \A time \in Clocks :
                (\A i \in 1 .. Len(rows) - 1 : time[i] < time[Len(rows)]) =>
                  FinalEvaluations(run.evaluations, time) = {metrics.final_evaluation}

\* docs/cli.md: the status of a run that completed says approval=approved.
ApprovalIsShown ==
  pc = "returned" /\ status = "COMPLETED" =>
    Summary(LoadRunData.events).final_approval = "approved"

=============================================================================
