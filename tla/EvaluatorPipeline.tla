------------------------- MODULE EvaluatorPipeline -------------------------
(***************************************************************************)
(* The evaluator pipeline (evaluators/pipeline.py) with its two kinds of   *)
(* evaluators: commands run in the sandbox (evaluators/command.py) and the *)
(* diff size check (evaluators/diff_size.py).  Evaluators are registered,  *)
(* then every candidate is evaluated, and a claimed completion a second    *)
(* time (Controller._evaluate).  One action is one evaluator, run to its   *)
(* end and merged into the vector.                                         *)
(***************************************************************************)
EXTENDS Evaluation, FiniteSets, FiniteSetsExt

CONSTANTS
  Evaluators,     \* the evaluators that may be registered
  MaxEvaluators,  \* bound: how many are registered
  Durations,      \* bound: the ticks a command may take
  Sizes,          \* bound: the numbers of lines added, and removed, by a diff
  MaxAddedLines,  \* DiffSizeEvaluator's limits; None is no limit
  MaxRemovedLines,
  MaxTotalLines

ChecksOf == {"compilation_ok", "type_check_ok", "lint_ok"}

\* What a command's result says, by CommandEvaluator's outcome ("none" is an
\* outcome of None); "diff_size" is a DiffSizeEvaluator and "plain" any other
\* evaluator without merge_into.
Outcome == ChecksOf \union
  {"visible_tests", "hidden_tests", "policy_violations", "none", "diff_size", "plain"}

Evaluator == [tier: 0 .. 4, outcome: Outcome]

Limit == Nat \union {None}

ASSUME PipelineAssumption ==
  /\ Evaluators \subseteq Evaluator
  /\ MaxEvaluators \in Nat
  /\ Durations \subseteq Nat
  /\ Sizes \subseteq Nat /\ 0 \in Sizes
  /\ {MaxAddedLines, MaxRemovedLines, MaxTotalLines} \subseteq Limit

VARIABLES
  stage,       \* "registering", "running", "returned" or "raised"
  registered,  \* the evaluators, in the order of registration
  todo,        \* those of this evaluation that have not run, by their number
  results,     \* the results of this evaluation, in order
  vector,      \* the vector of this evaluation
  change,      \* the lines the candidate's commit adds and removes
  unstaged     \* the lines the workspace adds to and removes from its index

vars == <<stage, registered, todo, results, vector, change, unstaged>>

Diff   == [added: Nat, removed: Nat]
NoDiff == [added |-> 0, removed |-> 0]

\* exited is FALSE for a result without an exit code.
Result == [evaluator: Nat, passed: BOOLEAN, error: BOOLEAN, exited: BOOLEAN, duration: Nat]

OutcomeOf(i) == registered[i].outcome

-----------------------------------------------------------------------------
(* What one evaluator may answer. *)

Within(lines, limit) == limit = None \/ lines <= limit

WithinLimits(d) ==
  /\ Within(d.added, MaxAddedLines)
  /\ Within(d.removed, MaxRemovedLines)
  /\ Within(d.added + d.removed, MaxTotalLines)

\* A command that timed out has failed, with an exit code and an error.
CommandResults(i) ==
  {r \in [evaluator: {i}, passed: BOOLEAN, error: BOOLEAN, exited: {TRUE}, duration: Durations] :
     ~(r.passed /\ r.error)}

\* git diff --numstat may itself fail.
DiffSizeResults(i) ==
  {[evaluator |-> i, passed |-> ok /\ WithinLimits(unstaged), error |-> ~ok,
    exited |-> TRUE, duration |-> 0] : ok \in BOOLEAN}

\* An evaluator written for the protocol only.
PlainResults(i) ==
  [evaluator: {i}, passed: BOOLEAN, error: BOOLEAN, exited: BOOLEAN, duration: Durations]

ResultsOf(i) ==
  CASE OutcomeOf(i) = "diff_size" -> DiffSizeResults(i)
    [] OutcomeOf(i) = "plain"     -> PlainResults(i)
    [] OTHER                      -> CommandResults(i)

One(b) == IF b THEN 1 ELSE 0

\* Mutant of Merge: an absent hidden count stays absent.
MergeHiddenOnlyIfPresent(o, r, v) ==
  LET timed == [v EXCEPT !.runtime_seconds = @ + r.duration]
  IN CASE o = "hidden_tests" ->
            [timed EXCEPT
               !.hidden_tests_passed = IF @ = None THEN None ELSE @ + One(r.passed),
               !.hidden_tests_failed = IF @ = None THEN None ELSE @ + One(~r.passed)]
       [] o = "visible_tests" ->
            [timed EXCEPT !.visible_tests_passed = @ + One(r.passed),
                          !.visible_tests_failed = @ + One(~r.passed)]
       [] o \in {"policy_violations", "diff_size"} ->
            [timed EXCEPT !.policy_violations = @ + One(~r.passed)]
       [] OTHER -> timed

\* merge_into of the two evaluators, and the pipeline's own addition for an
\* evaluator that has none.
Merge(o, r, v) ==
  LET timed == [v EXCEPT !.runtime_seconds = @ + r.duration]
      check == IF r.passed THEN "ok" ELSE "failed"
  IN CASE o = "compilation_ok" -> [timed EXCEPT !.compilation_ok = check]
       [] o = "type_check_ok"  -> [timed EXCEPT !.type_check_ok = check]
       [] o = "lint_ok"        -> [timed EXCEPT !.lint_ok = check]
       [] o = "visible_tests"  ->
            [timed EXCEPT !.visible_tests_passed = @ + One(r.passed),
                          !.visible_tests_failed = @ + One(~r.passed)]
       [] o = "hidden_tests"   ->
            [timed EXCEPT !.hidden_tests_passed = OrZero(@) + One(r.passed),
                          !.hidden_tests_failed = OrZero(@) + One(~r.passed)]
       [] o \in {"policy_violations", "diff_size"} ->
            [timed EXCEPT !.policy_violations = @ + One(~r.passed)]
       [] o \in {"none", "plain"} -> timed

HardGateTriggered(v) ==
  v.policy_violations > 0 \/ v.protected_file_changes > 0 \/ v.security_critical > 0

-----------------------------------------------------------------------------

Init ==
  /\ stage = "registering"
  /\ registered = <<>> /\ todo = {} /\ results = <<>>
  /\ vector = EmptyVector
  /\ change = NoDiff /\ unstaged = NoDiff

Register ==
  /\ stage = "registering"
  /\ Len(registered) < MaxEvaluators
  /\ \E e \in Evaluators : registered' = Append(registered, e)
  /\ UNCHANGED <<stage, todo, results, vector, change, unstaged>>

Begin ==
  /\ todo' = DOMAIN registered
  /\ results' = <<>>
  /\ vector' = EmptyVector
  /\ stage' = IF registered = <<>> THEN "returned" ELSE "running"
  /\ UNCHANGED registered

\* The candidate was committed a moment ago: the workspace equals its index.
EvaluateCandidate ==
  /\ stage \in {"registering", "returned"}
  /\ change' \in [added: Sizes, removed: Sizes]
  /\ unstaged' = NoDiff
  /\ Begin

\* A claimed completion is evaluated again, in the workspace as it is.
VerifyCompletion ==
  /\ stage = "returned"
  /\ Begin
  /\ UNCHANGED <<change, unstaged>>

\* By tier, and within a tier in the order of registration.
IsNext(i) ==
  /\ i \in todo
  /\ \A j \in todo :
       \/ registered[i].tier < registered[j].tier
       \/ registered[i].tier = registered[j].tier /\ i <= j

\* Mutant of StageAfter: the hard gates are looked at after the last evaluator.
StageAfterAll(r, v, left) ==
  CASE registered[r.evaluator].tier = 0 /\ ~r.passed -> "returned"
    [] r.error /\ ~r.exited                          -> "raised"
    [] OTHER -> IF left = {} THEN "returned" ELSE "running"

\* Mutant of StageAfter: an evaluator's error ends the evaluation like a gate.
StageAfterErrorReturns(r, v, left) ==
  LET cutShort == \/ registered[r.evaluator].tier = 0 /\ ~r.passed
                  \/ HardGateTriggered(v)
                  \/ r.error /\ ~r.exited
  IN  IF cutShort \/ left = {} THEN "returned" ELSE "running"

\* Where an evaluation stands after result r made the vector v.
StageAfter(r, v, left) ==
  LET cutShort == \/ registered[r.evaluator].tier = 0 /\ ~r.passed
                  \/ HardGateTriggered(v)
  IN  CASE cutShort                                  -> "returned"
        [] ~cutShort /\ r.error /\ ~r.exited         -> "raised"
        [] ~cutShort /\ ~(r.error /\ ~r.exited)      ->
             IF left = {} THEN "returned" ELSE "running"

\* Mutant of RunEvaluator: an evaluator that timed out is run again.
RunEvaluatorAgain ==
  /\ stage = "running"
  /\ \E i \in todo :
       /\ IsNext(i)
       /\ \E r \in ResultsOf(i) :
            /\ results' = Append(results, r)
            /\ vector' = Merge(OutcomeOf(i), r, vector)
            /\ todo' = IF r.error THEN todo ELSE todo \ {i}
            /\ stage' = StageAfter(r, vector', todo')
  /\ UNCHANGED <<registered, change, unstaged>>

\* A command may change tracked files; git diff does not.
RunEvaluator ==
  /\ stage = "running"
  /\ \E i \in todo :
       /\ IsNext(i)
       /\ \E r \in ResultsOf(i) :
            /\ results' = Append(results, r)
            /\ vector' = Merge(OutcomeOf(i), r, vector)
            /\ todo' = todo \ {i}
            /\ stage' = StageAfter(r, vector', todo')
       /\ \/ UNCHANGED unstaged
          \/ OutcomeOf(i) # "diff_size" /\ unstaged' \in [added: Sizes, removed: Sizes]
  /\ UNCHANGED <<registered, change>>

\* No sandbox, or the sandbox failed: nothing is merged.
EvaluatorRaises ==
  /\ stage = "running"
  /\ \E i \in todo : IsNext(i) /\ OutcomeOf(i) # "diff_size"
  /\ stage' = "raised"
  /\ UNCHANGED <<registered, todo, results, vector, change, unstaged>>

\* The exception ends the run.
Raised == stage = "raised" /\ UNCHANGED vars

Next ==
  \/ Register \/ EvaluateCandidate \/ VerifyCompletion
  \/ RunEvaluator \/ EvaluatorRaises \/ Raised

Spec == Init /\ [][Next]_vars

-----------------------------------------------------------------------------

\* Every variable has its type, and no evaluator that ran is left to run.
TypeOK ==
  /\ stage \in {"registering", "running", "returned", "raised"}
  /\ registered \in Seq(Evaluators)
  /\ todo \subseteq DOMAIN registered
  /\ results \in Seq(Result) /\ \A k \in DOMAIN results : results[k].evaluator \in DOMAIN registered \ todo
  /\ vector \in EvaluationVector
  /\ change \in Diff /\ unstaged \in Diff

\* The result says something a vector can hold.
Projected(r) == OutcomeOf(r.evaluator) \notin {"none", "plain"}

\* A later result of the same check has replaced this one.
Superseded(k) ==
  /\ OutcomeOf(results[k].evaluator) \in ChecksOf
  /\ \E l \in DOMAIN results : l > k /\ OutcomeOf(results[l].evaluator) = OutcomeOf(results[k].evaluator)

\* What an acceptable vector is worth: every evaluator that reports into the
\* vector and ran has passed, unless a later evaluator of the same check
\* passed in its place; and every registered evaluator ran, unless the last to
\* run was a failing tier 0 evaluator that reports nothing (pipeline.py:46).
AcceptableIsBacked ==
  stage = "returned" /\ IsAcceptable(vector) =>
    /\ \A k \in DOMAIN results :
         ~results[k].passed => ~Projected(results[k]) \/ Superseded(k)
    /\ \/ todo = {}
       \/ LET last == results[Len(results)]
          IN registered[last.evaluator].tier = 0 /\ ~last.passed /\ ~Projected(last)

\* Nothing runs past a gate (pipeline.py:46-49): whatever fails at tier 0 or
\* fails a policy or size check is the last result of its evaluation.
NothingRunsPastAGate ==
  \A k \in DOMAIN results :
    /\ ~results[k].passed
    /\ \/ registered[results[k].evaluator].tier = 0
       \/ OutcomeOf(results[k].evaluator) \in {"policy_violations", "diff_size"}
    => k = Len(results) /\ stage = "returned"

Ran(o)    == {k \in DOMAIN results : OutcomeOf(results[k].evaluator) = o}
Passed(o) == Cardinality({k \in Ran(o) : results[k].passed})
Failed(o) == Cardinality({k \in Ran(o) : ~results[k].passed})

RunTime == MapThenSumSet(LAMBDA k : results[k].duration, DOMAIN results)

\* Every result of the evaluation is in its vector, once: the counts are the
\* numbers of results, the hidden counts absent if there was no hidden test
\* (command.py:61-81).
VectorCountsResults ==
  LET hidden(n) == IF Ran("hidden_tests") = {} THEN None ELSE n
  IN  /\ vector.visible_tests_passed = Passed("visible_tests")
      /\ vector.visible_tests_failed = Failed("visible_tests")
      /\ vector.hidden_tests_passed = hidden(Passed("hidden_tests"))
      /\ vector.hidden_tests_failed = hidden(Failed("hidden_tests"))
      /\ vector.policy_violations = Failed("policy_violations") + Failed("diff_size")
      /\ vector.runtime_seconds = RunTime

\* diff_size.py:1: "Evaluator enforcing diff size limits." of an accepted
\* candidate's change.
DiffIsLimited ==
  /\ stage = "returned" /\ IsAcceptable(vector)
  /\ \E k \in DOMAIN results : OutcomeOf(results[k].evaluator) = "diff_size"
  => WithinLimits(change)

=============================================================================
