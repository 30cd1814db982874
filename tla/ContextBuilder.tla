--------------------------- MODULE ContextBuilder ---------------------------
(***************************************************************************)
(* What the agent is told at the start of a turn: context/builder.py, over *)
(* the evidence the controller reads off its events and the last candidate *)
(* of its history.  A diff is named by the commit it shows, the failures   *)
(* by the vector they are summarised from, a rejection by its iteration.   *)
(***************************************************************************)
EXTENDS ControllerProperties

CONSTANT MaxFailureRecords  \* max_failure_records

ASSUME ContextAssumption == MaxFailureRecords \in Nat \ {0}

Uncommitted == 0  \* names the diff of the workspace against HEAD

\* _evidence_from_events: one piece of evidence for each event of the run.
Evidence == log

\* A report the policy engine did not allow, or the decision that follows it;
\* a candidate that the evaluation rejected has neither.
IsRejection(e) == e.type \in {"POLICY_CHECK", "TRANSITION_DECIDED"} /\ e.decision = "REJECT"

Rejections(evidence) == {n \in DOMAIN evidence : IsRejection(evidence[n])}

\* Mutant of PriorRejected: the cut keeps the oldest lines.
PriorRejectedOldest(evidence) ==
  {evidence[n].iteration :
     n \in {r \in Rejections(evidence) :
             Cardinality({m \in Rejections(evidence) : m < r}) < MaxFailureRecords}}

\* _prior_rejected: one line for each rejection, the newest ones kept.
PriorRejected(evidence) ==
  {evidence[n].iteration :
     n \in {r \in Rejections(evidence) :
             Cardinality({m \in Rejections(evidence) : m > r}) < MaxFailureRecords}}

\* _current_diff: what is uncommitted in tracked files or, when that is
\* nothing, the commit of the candidate: the diffs it may show.
CurrentDiffs(c) == {IF clean THEN c.commit ELSE Uncommitted : clean \in IsClean}

\* _stagnation_report: the vector of the last candidate, if it has one.
StagnationReport(c) == c.vec

\* _extract_vector: no event's payload holds an evaluation_vector.
ExtractVector(report) == report

\* FailureSummary.summarize shows six counts of a vector and not its checks; no
\* result of a single evaluator reaches it.
FailureSummary(v) ==
  [f \in {"policy_violations", "protected_file_changes", "visible_tests_failed",
          "hidden_tests_failed", "security_critical", "security_high"} |-> v[f]]

\* _evaluation_failures
EvaluationFailures(c) ==
  LET scored == IF c.vec # NoVector THEN c.vec ELSE ExtractVector(StagnationReport(c))
  IN  IF scored = NoVector THEN NoVector ELSE FailureSummary(scored)

\* run.metadata has no budget_usage before the run completes or is cancelled.
RecordedUsage == [iterations_consumed |-> 0, model_calls |-> 0]

\* _remaining_budget; the runtime left is read off a clock.
RemainingBudget ==
  [iterations  |-> MaxIterations - RecordedUsage.iterations_consumed,
   model_calls |-> MaxModelCalls - RecordedUsage.model_calls]

\* ContextBuilder.build
Context(c) ==
  [iteration           |-> c.iteration + 1,
   candidate_diff      |-> CurrentDiffs(c),
   evaluation_failures |-> EvaluationFailures(c),
   prior_rejected      |-> PriorRejected(Evidence),
   remaining_budget    |-> RemainingBudget]

\* _build_context, for the last candidate of the history.
BuildContext == Context(history[Len(history)])

-----------------------------------------------------------------------------

Refused == {log[i].iteration : i \in Rejections(log)}

\* The turns whose proposal was received after the last evaluation.
TurnsWithoutCandidate ==
  {i \in DOMAIN log : log[i].type = "MODEL_CALL" /\
                      \A j \in i .. Len(log) : log[j].type # "EVALUATION_COMPLETED"}

\* The agent is told of one candidate, the last one the database has: its
\* recorded vector, its commit, and no uncommitted edit of a turn that failed.
\* The turn it is told (builder.py:88) lags behind by the turns since that gave
\* no candidate.  The rejections it is told are of turns without a candidate,
\* the newest of them among those told, however many there are.
ContextIsCurrent ==
  pc \in {"context_ready", "propose"} =>
    LET context  == BuildContext
        last     == rows[Len(rows)]
        rejected == context.prior_rejected
    IN  /\ context.evaluation_failures = FailureSummary(last.vec)
        /\ last.commit \in context.candidate_diff
        /\ Uncommitted \in context.candidate_diff => edits = {}
        /\ iteration - context.iteration = Cardinality(TurnsWithoutCandidate)
        /\ rejected \subseteq Refused \ {rows[i].iteration : i \in DOMAIN rows}
        /\ Refused # {} => \E n \in rejected : \A m \in Refused : m <= n

=============================================================================
