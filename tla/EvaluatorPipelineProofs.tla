----------------------- MODULE EvaluatorPipelineProofs -----------------------
(***************************************************************************)
(* Theorems about EvaluatorPipeline, for every set of evaluators and every *)
(* limit: what an acceptable vector says of the evaluators, that a hard    *)
(* gate stops an evaluation, that a vector counts every result once, and   *)
(* that the ranking of vectors is an order.                                *)
(***************************************************************************)
EXTENDS EvaluatorPipeline, SequenceTheorems, FiniteSetTheorems, WellFoundedInduction, TLAPS

\* The fields of a vector, and adding to its counts, are well typed.
LEMMA CountFacts ==
  ASSUME NEW v \in EvaluationVector, NEW r \in Result
  PROVE  /\ v.runtime_seconds + r.duration \in Nat
         /\ One(r.passed) \in {0, 1} /\ One(~r.passed) \in {0, 1}
         /\ One(~r.passed) = 1 <=> ~r.passed
         /\ OrZero(v.hidden_tests_passed) \in Nat
         /\ OrZero(v.hidden_tests_failed) \in Nat
         /\ \A n \in Nat : OrZero(n) = n
BY EvaluationAssumption DEF EvaluationVector, Result, OrZero, Count, One

\* What a merged result does to the fields the gates are made of.
LEMMA MergeFacts ==
  ASSUME NEW o \in Outcome, NEW r \in Result, NEW v \in EvaluationVector
  PROVE  LET w == Merge(o, r, v) IN
         /\ w \in EvaluationVector
         /\ \A c \in ChecksOf : w[c] = IF o = c THEN IF r.passed THEN "ok" ELSE "failed" ELSE v[c]
         /\ w.visible_tests_failed >= v.visible_tests_failed
         /\ o = "visible_tests" /\ ~r.passed => w.visible_tests_failed > 0
         /\ OrZero(w.hidden_tests_failed) >= OrZero(v.hidden_tests_failed)
         /\ o = "hidden_tests" /\ ~r.passed => OrZero(w.hidden_tests_failed) > 0
         /\ w.policy_violations >= v.policy_violations
         /\ o \in {"policy_violations", "diff_size"} /\ ~r.passed => w.policy_violations > 0
<1> DEFINE timed == [v EXCEPT !.runtime_seconds = @ + r.duration]
<1>t. /\ timed \in EvaluationVector
      /\ timed.visible_tests_passed = v.visible_tests_passed
      /\ timed.visible_tests_failed = v.visible_tests_failed
      /\ timed.hidden_tests_passed = v.hidden_tests_passed
      /\ timed.hidden_tests_failed = v.hidden_tests_failed
      /\ timed.policy_violations = v.policy_violations
      /\ \A c \in ChecksOf : timed[c] = v[c]
  BY CountFacts DEF EvaluationVector, ChecksOf
<1>f. /\ v.visible_tests_failed \in Nat /\ v.visible_tests_passed \in Nat
      /\ v.policy_violations \in Nat
  BY DEF EvaluationVector
<1>m. timed = [v EXCEPT !.runtime_seconds = @ + r.duration]
  OBVIOUS
<1>1. CASE o \in ChecksOf
  <2> DEFINE check == IF r.passed THEN "ok" ELSE "failed"
  <2>1. Merge(o, r, v) = [timed EXCEPT ![o] = check]
    BY <1>1 DEF Merge, ChecksOf
  <2> HIDE DEF timed
  <2>2. check \in Check
    BY DEF Check
  <2> QED
    BY <1>1, <1>t, <1>f, <2>1, <2>2, CountFacts DEF EvaluationVector, ChecksOf
<1>2. CASE o = "visible_tests"
  <2>1. Merge(o, r, v) = [timed EXCEPT !.visible_tests_passed = @ + One(r.passed),
                                       !.visible_tests_failed = @ + One(~r.passed)]
    BY <1>2 DEF Merge
  <2> DEFINE p == v.visible_tests_passed + One(r.passed)
             f == v.visible_tests_failed + One(~r.passed)
  <2>2. /\ p \in Nat /\ f \in Nat
        /\ f >= v.visible_tests_failed
        /\ ~r.passed => f > 0
    BY <1>f, CountFacts
  <2>3. Merge(o, r, v) = [timed EXCEPT !.visible_tests_passed = p, !.visible_tests_failed = f]
    BY <1>t, <2>1
  <2> HIDE DEF timed, p, f
  <2>5. Merge(o, r, v) \in EvaluationVector
    BY <1>t, <2>2, <2>3 DEF EvaluationVector
  <2>6. /\ Merge(o, r, v).visible_tests_failed = f
        /\ Merge(o, r, v).policy_violations = v.policy_violations
        /\ Merge(o, r, v).hidden_tests_failed = v.hidden_tests_failed
        /\ \A c \in ChecksOf : Merge(o, r, v)[c] = v[c]
    BY <1>t, <2>3 DEF EvaluationVector, ChecksOf
  <2> QED
    BY <1>2, <1>f, <2>2, <2>5, <2>6, CountFacts DEF ChecksOf
<1>3. CASE o = "hidden_tests"
  <2>1. Merge(o, r, v) = [timed EXCEPT !.hidden_tests_passed = OrZero(@) + One(r.passed),
                                       !.hidden_tests_failed = OrZero(@) + One(~r.passed)]
    BY <1>3 DEF Merge
  <2>2. /\ OrZero(v.hidden_tests_passed) + One(r.passed) \in Nat
        /\ OrZero(v.hidden_tests_failed) + One(~r.passed) \in Nat
    BY CountFacts
  <2> DEFINE p == OrZero(v.hidden_tests_passed) + One(r.passed)
             f == OrZero(v.hidden_tests_failed) + One(~r.passed)
  <2>3. /\ p \in Count /\ f \in Count
        /\ OrZero(f) >= OrZero(v.hidden_tests_failed)
        /\ ~r.passed => OrZero(f) > 0
    BY <2>2, CountFacts DEF Count
  <2>4. Merge(o, r, v) = [timed EXCEPT !.hidden_tests_passed = p, !.hidden_tests_failed = f]
    BY <1>t, <2>1
  <2> HIDE DEF timed, p, f
  <2>5. Merge(o, r, v) \in EvaluationVector
    BY <1>t, <2>3, <2>4 DEF EvaluationVector
  <2>6. /\ Merge(o, r, v).hidden_tests_failed = f
        /\ Merge(o, r, v).policy_violations = v.policy_violations
        /\ Merge(o, r, v).visible_tests_failed = v.visible_tests_failed
        /\ \A c \in ChecksOf : Merge(o, r, v)[c] = v[c]
    BY <1>t, <2>4 DEF EvaluationVector, ChecksOf
  <2> QED
    BY <1>3, <1>f, <2>3, <2>5, <2>6, CountFacts DEF ChecksOf
<1>4. CASE o \in {"policy_violations", "diff_size"}
  <2>1. Merge(o, r, v) = [timed EXCEPT !.policy_violations = @ + One(~r.passed)]
    BY <1>4 DEF Merge
  <2> DEFINE p == v.policy_violations + One(~r.passed)
  <2>2. p \in Nat /\ p >= v.policy_violations /\ (~r.passed => p > 0)
    BY <1>f, CountFacts
  <2>3. Merge(o, r, v) = [timed EXCEPT !.policy_violations = p]
    BY <1>t, <2>1
  <2> HIDE DEF timed, p
  <2> QED
    BY <1>4, <1>t, <1>f, <2>2, <2>3, CountFacts DEF EvaluationVector, ChecksOf
<1>5. CASE o \in {"none", "plain"}
  <2>1. Merge(o, r, v) = timed
    BY <1>5 DEF Merge
  <2> QED
    BY <1>5, <1>t, <1>f, <2>1, CountFacts DEF ChecksOf
<1> QED
  BY <1>1, <1>2, <1>3, <1>4, <1>5 DEF Outcome, ChecksOf

\* What a pipeline does when it has taken the result r of evaluator i.
Take(i, r) ==
  /\ results' = Append(results, r)
  /\ vector' = Merge(OutcomeOf(i), r, vector)
  /\ todo' = todo \ {i}
  /\ stage' = StageAfter(r, vector', todo')

\* An evaluator answers with a result of its own.
LEMMA ResultFacts ==
  ASSUME TypeOK, NEW i \in todo, NEW r \in ResultsOf(i)
  PROVE  r \in Result /\ r.evaluator = i /\ OutcomeOf(i) \in Outcome /\ i \in DOMAIN registered
<1>1. i \in DOMAIN registered /\ i \in Nat /\ registered[i] \in Evaluators
  BY LenProperties, ElementOfSeq DEF TypeOK
<1>2. OutcomeOf(i) \in Outcome
  BY <1>1, PipelineAssumption DEF OutcomeOf, Evaluator
<1>3. CASE OutcomeOf(i) = "diff_size"
  <2>1. PICK ok \in BOOLEAN :
          r = [evaluator |-> i, passed |-> ok /\ WithinLimits(unstaged), error |-> ~ok,
               exited |-> TRUE, duration |-> 0]
    BY <1>3 DEF ResultsOf, DiffSizeResults
  <2>2. (ok /\ WithinLimits(unstaged)) \in BOOLEAN /\ (~ok) \in BOOLEAN
    OBVIOUS
  <2> QED
    BY <1>1, <1>2, <2>1, <2>2 DEF Result
<1>4. CASE OutcomeOf(i) # "diff_size"
  BY <1>1, <1>2, <1>4, PipelineAssumption DEF ResultsOf, PlainResults, CommandResults, Result
<1> QED
  BY <1>1, <1>2, <1>3, <1>4

\* The lines of a diff are counted, whoever changed them.
LEMMA DiffTypes ==
  ASSUME TypeOK, [Next]_vars
  PROVE  change' \in Diff /\ unstaged' \in Diff
<1>1. NoDiff \in Diff /\ \A d \in [added: Sizes, removed: Sizes] : d \in Diff
  BY PipelineAssumption DEF Diff, NoDiff
<1>2. \/ UNCHANGED <<change, unstaged>>
      \/ UNCHANGED change /\ unstaged' \in [added: Sizes, removed: Sizes]
      \/ change' \in [added: Sizes, removed: Sizes] /\ unstaged' = NoDiff
  BY DEF Next, Register, EvaluateCandidate, VerifyCompletion, RunEvaluator, EvaluatorRaises,
    Raised, vars
<1> QED
  BY <1>1, <1>2 DEF TypeOK

-----------------------------------------------------------------------------

\* A failed result is in the vector, or its check has a later result.
Reported(k) ==
  LET o == OutcomeOf(results[k].evaluator)
  IN  /\ o \in {"policy_violations", "diff_size"} => vector.policy_violations > 0
      /\ o = "visible_tests" => vector.visible_tests_failed > 0
      /\ o = "hidden_tests" => OrZero(vector.hidden_tests_failed) > 0
      /\ o \in ChecksOf => vector[o] = "failed" \/ Superseded(k)

FailuresAreReported == \A k \in DOMAIN results : ~results[k].passed => Reported(k)

\* Why an evaluation ended.
ReturnHasReason ==
  stage = "returned" =>
    \/ todo = {}
    \/ HardGateTriggered(vector)
    \/ LET n == Len(results)
       IN n \in DOMAIN results /\ registered[results[n].evaluator].tier = 0 /\ ~results[n].passed

PipelineInv ==
  /\ TypeOK
  /\ stage = "registering" => results = <<>>
  /\ FailuresAreReported
  /\ ReturnHasReason
  /\ NothingRunsPastAGate

LEMMA PipelineInvInit == Init => PipelineInv
<1> SUFFICES ASSUME Init PROVE PipelineInv
  OBVIOUS
<1>1. EmptyVector \in EvaluationVector
  BY DEF EmptyVector, EvaluationVector, Check, Count
<1> QED
  BY <1>1, EmptySeq DEF Init, PipelineInv, TypeOK, FailuresAreReported, ReturnHasReason,
    NothingRunsPastAGate, Diff, NoDiff

\* One result: the vector holds it, and if it closes a gate it is the last.
LEMMA TakeKeepsInv ==
  ASSUME PipelineInv, [Next]_vars, UNCHANGED registered, stage = "running",
         NEW i \in todo, NEW r \in ResultsOf(i), Take(i, r)
  PROVE  PipelineInv'
<1>n. PICK n \in Nat : n = Len(results) + 1
  BY LenProperties DEF PipelineInv, TypeOK
<1>o. PICK o \in Outcome : o = OutcomeOf(i)
  BY ResultFacts DEF PipelineInv
<1>1. /\ r \in Result /\ r.evaluator = i /\ i \in DOMAIN registered
      /\ results \in Seq(Result) /\ vector \in EvaluationVector
  BY ResultFacts DEF PipelineInv, TypeOK
<1>2. /\ results' \in Seq(Result) /\ Len(results') = n /\ results'[n] = r
      /\ DOMAIN results' = (DOMAIN results) \union {n} /\ n \notin DOMAIN results
      /\ \A k \in DOMAIN results : results'[k] = results[k] /\ k < n
  BY <1>1, <1>n, AppendProperties, LenProperties DEF Take
<1>3. /\ vector' = Merge(o, r, vector) /\ todo' = todo \ {i}
      /\ stage' = StageAfter(r, vector', todo')
      /\ OutcomeOf(i)' = o /\ \A k \in DOMAIN results :
           OutcomeOf(results[k].evaluator)' = OutcomeOf(results[k].evaluator)
  BY <1>2, <1>o DEF Take, OutcomeOf
<1>t. TypeOK'
  <2>1. stage' \in {"registering", "running", "returned", "raised"}
    BY <1>3 DEF StageAfter
  <2>2. vector' \in EvaluationVector
    BY <1>1, <1>3, MergeFacts
  <2> QED
    BY <1>1, <1>2, <1>3, <2>1, <2>2, DiffTypes DEF PipelineInv, TypeOK
<1>4. ~r.passed => Reported(n)'
  BY <1>1, <1>2, <1>3, MergeFacts DEF Reported, OutcomeOf, ChecksOf
<1>5. ASSUME NEW k \in DOMAIN results, ~results[k].passed
      PROVE  Reported(k)'
  <2>p. PICK p : p = OutcomeOf(results[k].evaluator)
    OBVIOUS
  <2>1. Reported(k) /\ p = OutcomeOf(results[k].evaluator)'
    BY <2>p, <1>3, <1>5 DEF PipelineInv, FailuresAreReported
  <2>v. /\ vector.policy_violations \in Nat /\ vector'.policy_violations \in Nat
        /\ vector.visible_tests_failed \in Nat /\ vector'.visible_tests_failed \in Nat
    BY <1>1, <1>t DEF TypeOK, EvaluationVector
  <2>2. p \in {"policy_violations", "diff_size"} => vector'.policy_violations > 0
    BY <1>1, <1>3, <1>t, <2>p, <2>1, <2>v, MergeFacts DEF Reported
  <2>3. p = "visible_tests" => vector'.visible_tests_failed > 0
    BY <1>1, <1>3, <1>t, <2>p, <2>1, <2>v, MergeFacts DEF Reported
  <2>4. p = "hidden_tests" => OrZero(vector'.hidden_tests_failed) > 0
    <3>1. /\ OrZero(vector.hidden_tests_failed) \in Nat /\ OrZero(vector'.hidden_tests_failed) \in Nat
          /\ OrZero(vector'.hidden_tests_failed) >= OrZero(vector.hidden_tests_failed)
      BY <1>1, <1>3, <1>t, CountFacts, MergeFacts DEF TypeOK
    <3> QED
      BY <2>p, <2>1, <3>1 DEF Reported
  <2>5. ASSUME p \in ChecksOf PROVE vector'[p] = "failed" \/ Superseded(k)'
    <3>1. CASE o = p
      BY <1>1, <1>2, <1>3, <2>p, <2>1, <2>5, <3>1 DEF Superseded, OutcomeOf
    <3>2. CASE o # p /\ Superseded(k)
      BY <1>2, <1>3, <2>p, <2>1, <3>2 DEF Superseded, OutcomeOf
    <3>3. CASE o # p /\ vector[p] = "failed"
      BY <1>1, <1>3, <2>5, <3>3, MergeFacts
    <3> QED
      BY <2>p, <2>1, <2>5, <3>1, <3>2, <3>3 DEF Reported
  <2> QED
    BY <2>1, <2>2, <2>3, <2>4, <2>5 DEF Reported
<1>6. FailuresAreReported'
  BY <1>2, <1>4, <1>5 DEF FailuresAreReported
<1>7. ReturnHasReason'
  BY <1>1, <1>2, <1>3 DEF ReturnHasReason, StageAfter
<1>8. NothingRunsPastAGate'
  <2>1. ASSUME NEW k \in DOMAIN results, ~results[k].passed
        PROVE  /\ registered[results[k].evaluator].tier # 0
               /\ OutcomeOf(results[k].evaluator) \notin {"policy_violations", "diff_size"}
    BY <2>1 DEF PipelineInv, NothingRunsPastAGate
  <2>2. ~r.passed /\ o \in {"policy_violations", "diff_size"} => HardGateTriggered(vector')
    BY <1>1, <1>3, MergeFacts DEF HardGateTriggered
  <2>3. ~r.passed /\ (registered[i].tier = 0 \/ o \in {"policy_violations", "diff_size"})
          => stage' = "returned"
    BY <1>1, <1>3, <2>2 DEF StageAfter
  <2> QED
    BY <1>1, <1>2, <1>3, <2>1, <2>3 DEF NothingRunsPastAGate, OutcomeOf
<1>9. stage' # "registering"
  BY <1>3 DEF StageAfter
<1> QED
  BY <1>t, <1>6, <1>7, <1>8, <1>9 DEF PipelineInv

LEMMA PipelineInvStep ==
  ASSUME PipelineInv, [Next]_vars
  PROVE  PipelineInv'
<1>1. ASSUME NEW i \in todo, NEW r \in ResultsOf(i), stage = "running", Take(i, r),
             UNCHANGED registered
      PROVE  PipelineInv'
  BY <1>1, TakeKeepsInv
<1>2. CASE Begin
  <2>1. EmptyVector \in EvaluationVector
    BY DEF EmptyVector, EvaluationVector, Check, Count
  <2>2. registered = <<>> => DOMAIN registered = {}
    OBVIOUS
  <2> QED
    BY <1>2, <2>1, <2>2, EmptySeq, DiffTypes DEF Begin, PipelineInv, TypeOK,
      FailuresAreReported, ReturnHasReason, NothingRunsPastAGate
<1>3. CASE Register
  <2>1. /\ registered' \in Seq(Evaluators) /\ DOMAIN registered \subseteq DOMAIN registered'
    BY <1>3, AppendProperties, LenProperties DEF Register, PipelineInv, TypeOK
  <2>2. results' = <<>> /\ UNCHANGED <<stage, todo, vector, change, unstaged>>
    BY <1>3 DEF Register, PipelineInv
  <2> QED
    BY <1>3, <2>1, <2>2, EmptySeq DEF Register, PipelineInv, TypeOK, FailuresAreReported,
      ReturnHasReason, NothingRunsPastAGate
<1>4. CASE UNCHANGED <<registered, todo, results, vector>> /\ stage' = stage
  <2>1. NothingRunsPastAGate' /\ FailuresAreReported' /\ ReturnHasReason'
    BY <1>4 DEF PipelineInv, NothingRunsPastAGate, FailuresAreReported, Reported,
      Superseded, ReturnHasReason, OutcomeOf
  <2> QED
    BY <1>4, <2>1, DiffTypes DEF PipelineInv, TypeOK
<1>5. CASE EvaluatorRaises
  <2>1. UNCHANGED <<registered, todo, results, vector>> /\ stage = "running" /\ stage' = "raised"
    BY <1>5 DEF EvaluatorRaises
  <2>2. NothingRunsPastAGate' /\ FailuresAreReported' /\ ReturnHasReason'
    BY <2>1 DEF PipelineInv, NothingRunsPastAGate, FailuresAreReported, Reported,
      Superseded, ReturnHasReason, OutcomeOf
  <2> QED
    BY <2>1, <2>2, DiffTypes DEF PipelineInv, TypeOK
<1>6. \/ EvaluatorRaises \/ Begin \/ Register
      \/ UNCHANGED <<registered, todo, results, vector>> /\ stage' = stage
      \/ \E i \in todo : \E r \in ResultsOf(i) :
           stage = "running" /\ Take(i, r) /\ UNCHANGED registered
  BY DEF Next, EvaluateCandidate, VerifyCompletion, RunEvaluator, Raised, Take, vars
<1> QED
  BY <1>1, <1>2, <1>3, <1>4, <1>5, <1>6

LEMMA PipelineInductive == Spec => []PipelineInv
BY PipelineInvInit, PipelineInvStep, PTL DEF Spec

\* Whatever the evaluators answer, the vector stays one: no count goes below
\* zero and no field gets a value that the acceptance gate does not know (TypeOK).
THEOREM TypeCorrect == Spec => []TypeOK
<1>1. PipelineInv => TypeOK
  BY DEF PipelineInv
<1> QED
  BY <1>1, PipelineInductive, PTL

\* Whatever the evaluators and the limits, an acceptable vector means that
\* every evaluator that reports into it ran and passed, but for the exceptions
\* the property names.
THEOREM AcceptableVectorsAreBacked == Spec => []AcceptableIsBacked
<1>1. PipelineInv => AcceptableIsBacked
  <2> SUFFICES ASSUME PipelineInv, stage = "returned", IsAcceptable(vector)
               PROVE  /\ \A k \in DOMAIN results :
                           ~results[k].passed => ~Projected(results[k]) \/ Superseded(k)
                      /\ \/ todo = {}
                         \/ LET last == results[Len(results)]
                            IN  registered[last.evaluator].tier = 0 /\ ~last.passed
                                /\ ~Projected(last)
    BY DEF AcceptableIsBacked
  <2>1. ASSUME NEW k \in DOMAIN results, ~results[k].passed
        PROVE  ~Projected(results[k]) \/ Superseded(k)
    <3>1. Reported(k)
      BY <2>1 DEF PipelineInv, FailuresAreReported
    <3>2. OutcomeOf(results[k].evaluator) \in Outcome
      BY PipelineAssumption, ElementOfSeq, LenProperties DEF PipelineInv, TypeOK, OutcomeOf, Evaluator
    <3> QED
      BY <3>1, <3>2 DEF Reported, Outcome, ChecksOf, Projected, IsAcceptable
  <2>2. ~HardGateTriggered(vector)
    BY DEF HardGateTriggered, IsAcceptable
  <2>3. ~Superseded(Len(results))
    BY LenProperties DEF Superseded, PipelineInv, TypeOK
  <2> QED
    BY <2>1, <2>2, <2>3 DEF PipelineInv, ReturnHasReason
<1> QED
  BY <1>1, PipelineInductive, PTL

\* A failed tier 0, policy or size check is the last thing its evaluation runs.
THEOREM GatesStopEvaluations == Spec => []NothingRunsPastAGate
<1>1. PipelineInv => NothingRunsPastAGate
  BY DEF PipelineInv
<1> QED
  BY <1>1, PipelineInductive, PTL

-----------------------------------------------------------------------------
(* Sums of durations.                                                      *)

LEMMA LeastNatural ==
  ASSUME NEW S \in SUBSET Nat, S # {}
  PROVE  \E n \in S : \A m \in S : n <= m
<1>1. IsWellFoundedOn({ss \in Nat \X Nat : ss[1] < ss[2]}, Nat)
  BY NatLessThanWellFounded DEF OpToRel
<1>2. PICK n \in S : \A m \in S : ~ (<<m, n>> \in {ss \in Nat \X Nat : ss[1] < ss[2]})
  BY <1>1, WFMin
<1>3. ASSUME NEW m \in S PROVE n <= m
  <2>1. m \in Nat /\ n \in Nat
    OBVIOUS
  <2>2. ~ (m < n)
    BY <1>2, <2>1
  <2> QED
    BY <2>1, <2>2
<1> QED
  BY <1>3

LEMMA Induction ==
  ASSUME NEW S, 0 \in S, \A n \in Nat : n \in S => n + 1 \in S
  PROVE Nat \subseteq S
<1>1. SUFFICES ASSUME ~(Nat \subseteq S) PROVE FALSE
  OBVIOUS
<1>2. PICK n \in Nat \ S : \A m \in Nat \ S : n <= m
  BY <1>1, LeastNatural
<1>3. n # 0 /\ n - 1 \in Nat /\ n - 1 \in S
  BY <1>2
<1>4. QED
  BY <1>3

\* Adding up durations over a set, as the community modules do it.
Any(s) == CHOOSE x \in s : TRUE

Timed(r, S) == IsFiniteSet(S) /\ \A k \in S : r[k].duration \in Nat

Same(q, r, S) == \A k \in S : q[k] = r[k]

Total(r, S) == MapThenSumSet(LAMBDA k : r[k].duration, S)

IsTotal(it, r, S) ==
  it = [s \in SUBSET S |-> IF s = {} THEN 0 ELSE r[Any(s)].duration + it[s \ {Any(s)}]]

LEMMA TotalIsFold ==
  ASSUME NEW r, NEW S
  PROVE  Total(r, S) = (CHOOSE it : IsTotal(it, r, S))[S]
BY DEF Total, MapThenSumSet, MapThenFoldSet, IsTotal, Any

LEMMA Smaller ==
  ASSUME NEW S, IsFiniteSet(S), NEW s \in SUBSET S, s # {}
  PROVE  /\ Any(s) \in s
         /\ IsFiniteSet(s) /\ Cardinality(s) \in Nat
         /\ \A x \in s : s \ {x} \in SUBSET S /\ Cardinality(s \ {x}) = Cardinality(s) - 1
BY FS_Subset, FS_RemoveElement, FS_CardinalityType DEF Any

LEMMA TotalsExist ==
  ASSUME NEW r, NEW S, Timed(r, S)
  PROVE  \E it \in [SUBSET S -> Nat] : IsTotal(it, r, S)
<1> DEFINE Upto(n) == {s \in SUBSET S : Cardinality(s) <= n}
           AddUp(it, s) == IF s = {} THEN 0 ELSE r[Any(s)].duration + it[s \ {Any(s)}]
           P == {n \in Nat : \E it \in [Upto(n) -> Nat] : \A s \in Upto(n) : it[s] = AddUp(it, s)}
<1>f. IsFiniteSet(S) /\ \A k \in S : r[k].duration \in Nat
  BY DEF Timed
<1>1. 0 \in P
  <2>1. \A s \in Upto(0) : s = {}
    <3> SUFFICES ASSUME NEW s \in Upto(0), s # {} PROVE FALSE
      OBVIOUS
    <3>1. PICK x : x \in s
      OBVIOUS
    <3>2. Cardinality(s) \in Nat /\ Cardinality(s \ {x}) = Cardinality(s) - 1 /\ Cardinality(s \ {x}) \in Nat
      BY <1>f, <3>1, FS_Subset, FS_RemoveElement, FS_CardinalityType
    <3> QED
      BY <3>2
  <2>2. [s \in Upto(0) |-> 0] \in [Upto(0) -> Nat]
    OBVIOUS
  <2> QED
    BY <2>1, <2>2
<1>2. ASSUME NEW n \in Nat, n \in P PROVE n + 1 \in P
  <2>1. PICK it \in [Upto(n) -> Nat] : \A s \in Upto(n) : it[s] = AddUp(it, s)
    BY <1>2
  <2> DEFINE more == [s \in Upto(n + 1) |-> AddUp(it, s)]
  <2>2. ASSUME NEW s \in Upto(n + 1), s # {}
        PROVE  s \ {Any(s)} \in Upto(n) /\ Any(s) \in S
    BY <1>f, <2>2, Smaller
  <2>3. \A s \in Upto(n + 1) : AddUp(it, s) \in Nat
    BY <1>f, <2>2
  <2>4. \A s \in Upto(n) : s \in Upto(n + 1) /\ more[s] = it[s]
    <3> SUFFICES ASSUME NEW s \in Upto(n) PROVE s \in Upto(n + 1) /\ more[s] = it[s]
      OBVIOUS
    <3>1. Cardinality(s) \in Nat
      BY <1>f, FS_Subset, FS_CardinalityType
    <3>2. s \in Upto(n + 1)
      BY <3>1
    <3> QED
      BY <2>1, <3>2
  <2>5. \A s \in Upto(n + 1) : more[s] = AddUp(more, s)
    BY <2>2, <2>4
  <2>6. more \in [Upto(n + 1) -> Nat]
    BY <2>3
  <2> HIDE DEF more, Upto, AddUp
  <2> QED
    BY <2>5, <2>6
<1>3. Cardinality(S) \in P
  <2> HIDE DEF P
  <2> QED
    BY <1>f, <1>1, <1>2, Induction, FS_CardinalityType
<1>4. Upto(Cardinality(S)) = SUBSET S
  BY <1>f, FS_Subset
<1>5. PICK it \in [SUBSET S -> Nat] : \A s \in SUBSET S : it[s] = AddUp(it, s)
  BY <1>3, <1>4
<1>6. it = [s \in SUBSET S |-> AddUp(it, s)]
  BY <1>5
<1> QED
  BY <1>6 DEF IsTotal

LEMMA TotalOfNothing == ASSUME NEW r PROVE Total(r, {}) = 0
<1>1. Timed(r, {})
  BY FS_EmptySet DEF Timed
<1>2. PICK it : it = (CHOOSE f : IsTotal(f, r, {}))
  OBVIOUS
<1>3. IsTotal(it, r, {})
  <2>1. \E f : IsTotal(f, r, {})
    BY <1>1, TotalsExist
  <2> QED
    BY <1>2, <2>1
<1>4. it[{}] = 0
  BY <1>3 DEF IsTotal
<1> QED
  BY <1>2, <1>4, TotalIsFold

\* Two sums agree where what they add up does.
LEMMA TotalsAgree ==
  ASSUME NEW r, NEW S, NEW q, NEW T, IsFiniteSet(T), S \subseteq T, Same(q, r, S),
         NEW it, IsTotal(it, r, S), NEW jt, IsTotal(jt, q, T)
  PROVE  \A s \in SUBSET S : it[s] = jt[s]
<1> USE DEF Same
<1> DEFINE P == {n \in Nat : \A s \in SUBSET S : Cardinality(s) = n => it[s] = jt[s]}
<1>0. ASSUME NEW s \in SUBSET S
      PROVE  /\ it[s] = IF s = {} THEN 0 ELSE r[Any(s)].duration + it[s \ {Any(s)}]
             /\ jt[s] = IF s = {} THEN 0 ELSE q[Any(s)].duration + jt[s \ {Any(s)}]
  BY DEF IsTotal
<1>f. IsFiniteSet(S)
  BY FS_Subset
<1>1. 0 \in P
  <2> SUFFICES ASSUME NEW s \in SUBSET S, Cardinality(s) = 0 PROVE it[s] = jt[s]
    OBVIOUS
  <2>1. s = {}
    BY <1>f, FS_Subset, FS_EmptySet
  <2> QED
    BY <1>0, <2>1
<1>2. ASSUME NEW n \in Nat, n \in P PROVE n + 1 \in P
  <2> SUFFICES ASSUME NEW s \in SUBSET S, Cardinality(s) = n + 1 PROVE it[s] = jt[s]
    OBVIOUS
  <2>1. s # {}
    BY FS_EmptySet
  <2>2. Any(s) \in s /\ s \ {Any(s)} \in SUBSET S /\ Cardinality(s \ {Any(s)}) = n
    <3>1. Any(s) \in s /\ \A x \in s : s \ {x} \in SUBSET S /\ Cardinality(s \ {x}) = Cardinality(s) - 1
      BY <1>f, <2>1, Smaller
    <3> QED
      BY <3>1
  <2> QED
    BY <1>0, <1>2, <2>1, <2>2
<1>3. Nat \subseteq P
  <2> HIDE DEF P
  <2> QED
    BY <1>1, <1>2, Induction
<1> QED
  BY <1>3, <1>f, FS_Subset, FS_CardinalityType

LEMMA TotalType ==
  ASSUME NEW r, NEW S, Timed(r, S),
         NEW it, IsTotal(it, r, S)
  PROVE  it \in [SUBSET S -> Nat]
<1>1. PICK jt \in [SUBSET S -> Nat] : IsTotal(jt, r, S)
  BY TotalsExist
<1>2. IsFiniteSet(S) /\ S \subseteq S /\ Same(r, r, S)
  BY DEF Timed, Same
<1>4. \A s \in SUBSET S : it[s] = jt[s]
  BY <1>1, <1>2, TotalsAgree
<1>3. it = [s \in SUBSET S |-> it[s]]
  BY DEF IsTotal
<1> QED
  BY <1>1, <1>4, <1>3

\* The choice of the element does not matter.
LEMMA TotalOfAny ==
  ASSUME NEW r, NEW S, Timed(r, S),
         NEW it, IsTotal(it, r, S), NEW z, z \in S
  PROVE  it[S] = r[z].duration + it[S \ {z}]
<1> DEFINE Good(s) == \A x \in s : it[s] = r[x].duration + it[s \ {x}]
           P == {n \in Nat : \A s \in SUBSET S : Cardinality(s) = n => Good(s)}
<1>t. it \in [SUBSET S -> Nat]
  BY TotalType
<1>f. IsFiniteSet(S) /\ \A k \in S : r[k].duration \in Nat
  BY DEF Timed
<1>0. \A s \in SUBSET S : s # {} => it[s] = r[Any(s)].duration + it[s \ {Any(s)}]
  BY DEF IsTotal
<1>1. 0 \in P
  BY <1>f, FS_Subset, FS_EmptySet
<1>2. ASSUME NEW n \in Nat, n \in P PROVE n + 1 \in P
  <2> SUFFICES ASSUME NEW s \in SUBSET S, Cardinality(s) = n + 1, NEW x \in s
               PROVE  it[s] = r[x].duration + it[s \ {x}]
    OBVIOUS
  <2> DEFINE c == Any(s)
  <2>1. c \in s /\ it[s] = r[c].duration + it[s \ {c}]
    <3>1. s # {}
      OBVIOUS
    <3> QED
      BY <1>0, <1>f, <3>1, Smaller
  <2>2. CASE x # c
    <3>1. /\ s \ {c} \in SUBSET S /\ Cardinality(s \ {c}) = n /\ x \in s \ {c}
          /\ s \ {x} \in SUBSET S /\ Cardinality(s \ {x}) = n /\ c \in s \ {x}
      BY <1>f, <2>1, <2>2, Smaller
    <3>2. it[s \ {c}] = r[x].duration + it[(s \ {c}) \ {x}]
      BY <1>2, <3>1
    <3>3. it[s \ {x}] = r[c].duration + it[(s \ {x}) \ {c}]
      BY <1>2, <3>1
    <3>4. (s \ {c}) \ {x} = (s \ {x}) \ {c} /\ (s \ {x}) \ {c} \in SUBSET S
      OBVIOUS
    <3>5. r[c].duration \in Nat /\ r[x].duration \in Nat /\ it[(s \ {x}) \ {c}] \in Nat
      BY <1>t, <1>f, <2>1, <3>4
    <3> HIDE DEF c
    <3>6. it[s] = r[c].duration + (r[x].duration + it[(s \ {x}) \ {c}])
      BY <2>1, <3>2, <3>4
    <3>7. it[s] = r[x].duration + (r[c].duration + it[(s \ {x}) \ {c}])
      BY <3>5, <3>6
    <3> QED
      BY <3>3, <3>7
  <2> QED
    BY <2>1, <2>2
<1>3. Nat \subseteq P
  <2> HIDE DEF P
  <2> QED
    BY <1>1, <1>2, Induction
<1> QED
  BY <1>3, <1>f, FS_CardinalityType

\* One more element adds its duration.
LEMMA TotalAdds ==
  ASSUME NEW r, NEW S, Timed(r, S),
         NEW q, NEW x, x \notin S, q[x].duration \in Nat, Same(q, r, S)
  PROVE  /\ Total(r, S) \in Nat
         /\ Total(q, S \union {x}) = Total(r, S) + q[x].duration
<1>0. PICK T : T = S \union {x}
  OBVIOUS
<1>1. IsFiniteSet(T)
  BY <1>0, FS_AddElement DEF Timed
<1>a. Timed(q, T)
  BY <1>0, <1>1 DEF Timed, Same
<1>2. PICK it : it = (CHOOSE f : IsTotal(f, r, S))
  OBVIOUS
<1>3. PICK jt : jt = (CHOOSE f : IsTotal(f, q, T))
  OBVIOUS
<1>4. IsTotal(it, r, S)
  <2>1. \E f : IsTotal(f, r, S)
    BY TotalsExist
  <2> QED
    BY <1>2, <2>1
<1>b. IsTotal(jt, q, T)
  <2>1. \E f : IsTotal(f, q, T)
    BY <1>a, TotalsExist
  <2> QED
    BY <1>3, <2>1
<1>5. Total(r, S) = it[S] /\ Total(q, T) = jt[T]
  BY <1>2, <1>3, TotalIsFold
<1>6. S \subseteq T /\ T \ {x} = S /\ x \in T
  BY <1>0
<1>7. it[S] \in Nat
  <2>1. it \in [SUBSET S -> Nat]
    BY <1>4, TotalType
  <2> QED
    BY <2>1
<1>8. jt[T] = q[x].duration + jt[S]
  <2>1. jt[T] = q[x].duration + jt[T \ {x}]
    BY <1>6, <1>a, <1>b, TotalOfAny
  <2> QED
    BY <1>6, <2>1
<1>9. it[S] = jt[S]
  <2>1. \A s \in SUBSET S : it[s] = jt[s]
    BY <1>1, <1>4, <1>6, <1>b, TotalsAgree
  <2> QED
    BY <2>1
<1> QED
  BY <1>0, <1>5, <1>7, <1>8, <1>9

-----------------------------------------------------------------------------
(* What the vector counts.                                                 *)

LEMMA ResultsAreFinite ==
  ASSUME TypeOK
  PROVE  IsFiniteSet(DOMAIN results)
<1>1. Len(results) \in Nat /\ DOMAIN results = 1 .. Len(results)
  BY LenProperties DEF TypeOK
<1>2. IsFiniteSet(1 .. Len(results))
  BY <1>1, FS_Interval
<1> QED
  BY <1>1, <1>2

\* A result counts where it belongs.
HitPassed(o, r, p) == One(o = p /\ r.passed)
HitFailed(o, r, p) == One(o = p /\ ~r.passed)

LEMMA RanGrows ==
  ASSUME TypeOK, UNCHANGED registered, NEW r \in Result, results' = Append(results, r), NEW p
  PROVE  /\ Passed(p) \in Nat /\ Passed(p)' = Passed(p) + HitPassed(OutcomeOf(r.evaluator), r, p)
         /\ Failed(p) \in Nat /\ Failed(p)' = Failed(p) + HitFailed(OutcomeOf(r.evaluator), r, p)
         /\ Ran(p) = {} => Passed(p) = 0 /\ Failed(p) = 0
         /\ OutcomeOf(r.evaluator) = p => Ran(p)' # {}
         /\ OutcomeOf(r.evaluator) # p => Ran(p)' = Ran(p)
<1>n. PICK n \in Nat : n = Len(results) + 1
  BY LenProperties DEF TypeOK
<1>q. PICK q : q = results'
  OBVIOUS
<1>o. PICK o : o = OutcomeOf(r.evaluator)
  OBVIOUS
<1>R. PICK R : R = Ran(p)
  OBVIOUS
<1>2. /\ DOMAIN q = (DOMAIN results) \union {n} /\ n \notin DOMAIN results
      /\ q[n] = r /\ \A k \in DOMAIN results : q[k] = results[k]
  BY <1>n, <1>q, AppendProperties, LenProperties DEF TypeOK
<1>3. R \subseteq DOMAIN results /\ Ran(p)' = IF o = p THEN R \union {n} ELSE R
  BY <1>2, <1>o, <1>R, <1>q DEF Ran, OutcomeOf
<1> DEFINE K == {k \in R : results[k].passed}
           L == {k \in R : ~results[k].passed}
<1>4. IsFiniteSet(K) /\ Cardinality(K) \in Nat /\ IsFiniteSet(L) /\ Cardinality(L) \in Nat
  <2>1. IsFiniteSet(DOMAIN results)
    BY ResultsAreFinite
  <2> QED
    BY <1>3, <2>1, FS_Subset, FS_CardinalityType
<1>5. Passed(p) = Cardinality(K) /\ Failed(p) = Cardinality(L)
  BY <1>R DEF Passed, Failed
<1>6. /\ Passed(p)' = Cardinality(IF o = p /\ r.passed THEN K \union {n} ELSE K)
      /\ Failed(p)' = Cardinality(IF o = p /\ ~r.passed THEN L \union {n} ELSE L)
  <2>1. /\ {k \in Ran(p)' : q[k].passed} = IF o = p /\ r.passed THEN K \union {n} ELSE K
        /\ {k \in Ran(p)' : ~q[k].passed} = IF o = p /\ ~r.passed THEN L \union {n} ELSE L
    BY <1>2, <1>3
  <2> QED
    BY <2>1, <1>q DEF Passed, Failed
<1>7. /\ Cardinality(K \union {n}) = Cardinality(K) + 1
      /\ Cardinality(L \union {n}) = Cardinality(L) + 1
  <2>1. n \notin K /\ n \notin L
    BY <1>2, <1>3
  <2> QED
    BY <1>4, <2>1, FS_AddElement
<1>8. R = {} => Cardinality(K) = 0 /\ Cardinality(L) = 0
  BY FS_EmptySet
<1> HIDE DEF K, L
<1>9. /\ Passed(p)' = Passed(p) + HitPassed(o, r, p)
      /\ Failed(p)' = Failed(p) + HitFailed(o, r, p)
  BY <1>4, <1>5, <1>6, <1>7 DEF HitPassed, HitFailed, One
<1> QED
  BY <1>3, <1>4, <1>5, <1>8, <1>9, <1>o, <1>R

\* The running time is such a sum.
RunTimeIsSum == RunTime = Total(results, DOMAIN results)

LEMMA RunTimeIsTotal ==
  /\ RunTime = Total(results, DOMAIN results)
  /\ RunTime' = Total(results', DOMAIN results')
<1>1. RunTimeIsSum
  BY DEF RunTimeIsSum, RunTime, Total
<1>2. RunTimeIsSum'
  BY <1>1, PTL
<1> QED
  BY <1>1, <1>2 DEF RunTimeIsSum

\* The time of a result is added to the time of those before it.
LEMMA TimeGrows ==
  ASSUME TypeOK, NEW r \in Result, results' = Append(results, r)
  PROVE  RunTime \in Nat /\ RunTime' = RunTime + r.duration
<1>n. PICK n \in Nat : n = Len(results) + 1
  BY LenProperties DEF TypeOK
<1>s. PICK S : S = DOMAIN results
  OBVIOUS
<1>q. PICK q : q = results'
  OBVIOUS
<1>1. /\ DOMAIN q = S \union {n} /\ n \notin S
      /\ q[n] = r /\ \A k \in S : q[k] = results[k]
  BY <1>n, <1>s, <1>q, AppendProperties, LenProperties DEF TypeOK
<1>2. Timed(results, S)
  <2>1. IsFiniteSet(S)
    BY <1>s, ResultsAreFinite
  <2>2. \A k \in S : results[k] \in Result
    BY <1>s, ElementOfSeq, LenProperties DEF TypeOK
  <2> QED
    BY <2>1, <2>2 DEF Timed, Result
<1>3. Same(q, results, S)
  BY <1>1 DEF Same
<1>4. q[n].duration \in Nat /\ q[n].duration = r.duration
  BY <1>1 DEF Result
<1>5. /\ Total(results, S) \in Nat
      /\ Total(q, S \union {n}) = Total(results, S) + q[n].duration
  BY <1>1, <1>2, <1>3, <1>4, TotalAdds
<1>6. RunTime = Total(results, S) /\ RunTime' = Total(q, DOMAIN q)
  BY <1>s, <1>q, RunTimeIsTotal
<1> QED
  BY <1>1, <1>4, <1>5, <1>6

\* What a merged result adds to the counts.
LEMMA MergeCounts ==
  ASSUME NEW o \in Outcome, NEW r \in Result, NEW v \in EvaluationVector,
         NEW w, w = Merge(o, r, v)
  PROVE  /\ w.visible_tests_passed = v.visible_tests_passed + HitPassed(o, r, "visible_tests")
         /\ w.visible_tests_failed = v.visible_tests_failed + HitFailed(o, r, "visible_tests")
         /\ o = "hidden_tests" =>
              /\ w.hidden_tests_passed = OrZero(v.hidden_tests_passed) + HitPassed(o, r, o)
              /\ w.hidden_tests_failed = OrZero(v.hidden_tests_failed) + HitFailed(o, r, o)
         /\ o # "hidden_tests" =>
              /\ w.hidden_tests_passed = v.hidden_tests_passed
              /\ w.hidden_tests_failed = v.hidden_tests_failed
         /\ w.policy_violations = v.policy_violations
              + (HitFailed(o, r, "policy_violations") + HitFailed(o, r, "diff_size"))
         /\ w.runtime_seconds = v.runtime_seconds + r.duration
<1> DEFINE timed == [v EXCEPT !.runtime_seconds = @ + r.duration]
<1>0. PICK u \in EvaluationVector : u = timed
  BY CountFacts DEF EvaluationVector
<1>t. /\ u.visible_tests_passed = v.visible_tests_passed
      /\ u.visible_tests_failed = v.visible_tests_failed
      /\ u.hidden_tests_passed = v.hidden_tests_passed
      /\ u.hidden_tests_failed = v.hidden_tests_failed
      /\ u.policy_violations = v.policy_violations
      /\ u.runtime_seconds = v.runtime_seconds + r.duration
  BY <1>0 DEF EvaluationVector
<1>f. /\ v.visible_tests_failed \in Nat /\ v.visible_tests_passed \in Nat
      /\ v.policy_violations \in Nat
  BY DEF EvaluationVector
<1>h. \A p : p # o => HitPassed(o, r, p) = 0 /\ HitFailed(o, r, p) = 0
  BY DEF HitPassed, HitFailed, One
<1>i. HitPassed(o, r, o) = One(r.passed) /\ HitFailed(o, r, o) = One(~r.passed)
  BY DEF HitPassed, HitFailed, One
<1>1. CASE o \in ChecksOf
  <2>1. PICK x : w = [u EXCEPT ![o] = x]
    BY <1>0, <1>1 DEF Merge, ChecksOf
  <2>2. /\ w.visible_tests_passed = u.visible_tests_passed
        /\ w.visible_tests_failed = u.visible_tests_failed
        /\ w.hidden_tests_passed = u.hidden_tests_passed
        /\ w.hidden_tests_failed = u.hidden_tests_failed
        /\ w.policy_violations = u.policy_violations
        /\ w.runtime_seconds = u.runtime_seconds
    BY <1>1, <2>1 DEF ChecksOf, EvaluationVector
  <2> HIDE DEF timed
  <2> QED
    BY <1>1, <1>t, <1>f, <1>h, <2>2 DEF ChecksOf
<1>2. CASE o = "visible_tests"
  <2>1. PICK x, y : /\ x = u.visible_tests_passed + One(r.passed)
                    /\ y = u.visible_tests_failed + One(~r.passed)
    OBVIOUS
  <2>2. w = [u EXCEPT !.visible_tests_passed = x, !.visible_tests_failed = y]
    BY <1>0, <1>2, <2>1 DEF Merge
  <2>3. /\ w.visible_tests_passed = x /\ w.visible_tests_failed = y
        /\ w.hidden_tests_passed = u.hidden_tests_passed
        /\ w.hidden_tests_failed = u.hidden_tests_failed
        /\ w.policy_violations = u.policy_violations
        /\ w.runtime_seconds = u.runtime_seconds
    BY <2>2 DEF EvaluationVector
  <2> HIDE DEF timed
  <2> QED
    BY <1>2, <1>t, <1>f, <1>h, <1>i, <2>1, <2>3
<1>3. CASE o = "hidden_tests"
  <2>1. PICK x, y : /\ x = OrZero(u.hidden_tests_passed) + One(r.passed)
                    /\ y = OrZero(u.hidden_tests_failed) + One(~r.passed)
    OBVIOUS
  <2>2. w = [u EXCEPT !.hidden_tests_passed = x, !.hidden_tests_failed = y]
    BY <1>0, <1>3, <2>1 DEF Merge
  <2>3. /\ w.hidden_tests_passed = x /\ w.hidden_tests_failed = y
        /\ w.visible_tests_passed = u.visible_tests_passed
        /\ w.visible_tests_failed = u.visible_tests_failed
        /\ w.policy_violations = u.policy_violations
        /\ w.runtime_seconds = u.runtime_seconds
    BY <2>2 DEF EvaluationVector
  <2> HIDE DEF timed
  <2> QED
    BY <1>3, <1>t, <1>f, <1>h, <1>i, <2>1, <2>3
<1>4. CASE o \in {"policy_violations", "diff_size"}
  <2>1. PICK x : x = u.policy_violations + One(~r.passed)
    OBVIOUS
  <2>2. w = [u EXCEPT !.policy_violations = x]
    BY <1>0, <1>4, <2>1 DEF Merge
  <2>3. /\ w.policy_violations = x
        /\ w.visible_tests_passed = u.visible_tests_passed
        /\ w.visible_tests_failed = u.visible_tests_failed
        /\ w.hidden_tests_passed = u.hidden_tests_passed
        /\ w.hidden_tests_failed = u.hidden_tests_failed
        /\ w.runtime_seconds = u.runtime_seconds
    BY <2>2 DEF EvaluationVector
  <2>4. One(~r.passed) \in Nat
    BY DEF One
  <2> HIDE DEF timed
  <2> QED
    BY <1>4, <1>t, <1>f, <1>h, <1>i, <2>1, <2>3, <2>4
<1>5. CASE o \in {"none", "plain"}
  <2>1. w = u
    BY <1>0, <1>5 DEF Merge
  <2> HIDE DEF timed
  <2> QED
    BY <1>5, <1>t, <1>f, <1>h, <2>1
<1> QED
  BY <1>1, <1>2, <1>3, <1>4, <1>5 DEF Outcome, ChecksOf

\* Before the first result there is nothing to count.
LEMMA NothingToCount == results = <<>> /\ vector = EmptyVector => VectorCountsResults
<1> SUFFICES ASSUME results = <<>>, vector = EmptyVector PROVE VectorCountsResults
  OBVIOUS
<1>1. \A p : Ran(p) = {}
  BY DEF Ran
<1>2. \A p : Passed(p) = 0 /\ Failed(p) = 0
  BY <1>1, FS_EmptySet DEF Passed, Failed
<1>3. RunTime = 0
  <2>1. DOMAIN results = {}
    OBVIOUS
  <2> QED
    BY <2>1, RunTimeIsTotal, TotalOfNothing
<1> QED
  BY <1>1, <1>2, <1>3 DEF VectorCountsResults, EmptyVector

\* The counts of a vector depend on the results alone.
LEMMA SameResults ==
  ASSUME UNCHANGED results, UNCHANGED registered \/ results = <<>>
  PROVE  /\ \A p : Ran(p)' = Ran(p) /\ Passed(p)' = Passed(p) /\ Failed(p)' = Failed(p)
         /\ RunTime' = RunTime
<1>1. \A p : Ran(p)' = Ran(p)
  BY DEF Ran, OutcomeOf
<1>2. \A p : Passed(p)' = Passed(p) /\ Failed(p)' = Failed(p)
  BY <1>1 DEF Passed, Failed
<1>3. RunTime' = RunTime
  BY RunTimeIsTotal
<1> QED
  BY <1>1, <1>2, <1>3

LEMMA CountsStep ==
  ASSUME PipelineInv, VectorCountsResults, [Next]_vars
  PROVE  VectorCountsResults'
<1>1. ASSUME NEW i \in todo, NEW r \in ResultsOf(i), Take(i, r), UNCHANGED registered
      PROVE  VectorCountsResults'
  <2>o. PICK o \in Outcome : o = OutcomeOf(i)
    BY <1>1, ResultFacts DEF PipelineInv
  <2>w. PICK w : w = vector'
    OBVIOUS
  <2>1. /\ r \in Result /\ OutcomeOf(r.evaluator) = o /\ vector \in EvaluationVector
        /\ TypeOK /\ results' = Append(results, r) /\ w = Merge(o, r, vector)
        /\ UNCHANGED registered
    BY <1>1, <2>o, <2>w, ResultFacts DEF PipelineInv, TypeOK, Take
  <2>2. \A p : /\ Passed(p) \in Nat /\ Passed(p)' = Passed(p) + HitPassed(o, r, p)
               /\ Failed(p) \in Nat /\ Failed(p)' = Failed(p) + HitFailed(o, r, p)
               /\ Ran(p) = {} => Passed(p) = 0 /\ Failed(p) = 0
               /\ o = p => Ran(p)' # {}
               /\ o # p => Ran(p)' = Ran(p)
    BY <2>1, RanGrows
  <2>3. RunTime' = RunTime + r.duration
    BY <2>1, TimeGrows
  <2>4. \A p : HitPassed(o, r, p) \in Nat /\ HitFailed(o, r, p) \in Nat
               /\ (o # p => HitPassed(o, r, p) = 0 /\ HitFailed(o, r, p) = 0)
    BY DEF HitPassed, HitFailed, One
  <2>5. w.runtime_seconds = RunTime'
    BY <2>1, <2>3, MergeCounts DEF VectorCountsResults
  <2>6. /\ w.visible_tests_passed = Passed("visible_tests")'
        /\ w.visible_tests_failed = Failed("visible_tests")'
    BY <2>1, <2>2, MergeCounts DEF VectorCountsResults
  <2>7. w.policy_violations = Failed("policy_violations")' + Failed("diff_size")'
    <3>1. w.policy_violations = vector.policy_violations
            + (HitFailed(o, r, "policy_violations") + HitFailed(o, r, "diff_size"))
      BY <2>1, MergeCounts
    <3>2. vector.policy_violations = Failed("policy_violations") + Failed("diff_size")
      BY DEF VectorCountsResults
    <3> QED
      BY <2>2, <2>4, <3>1, <3>2
  <2>8. /\ w.hidden_tests_passed =
             IF Ran("hidden_tests")' = {} THEN None ELSE Passed("hidden_tests")'
        /\ w.hidden_tests_failed =
             IF Ran("hidden_tests")' = {} THEN None ELSE Failed("hidden_tests")'
    <3>1. /\ vector.hidden_tests_passed =
               IF Ran("hidden_tests") = {} THEN None ELSE Passed("hidden_tests")
          /\ vector.hidden_tests_failed =
               IF Ran("hidden_tests") = {} THEN None ELSE Failed("hidden_tests")
      BY DEF VectorCountsResults
    <3>2. CASE o = "hidden_tests"
      <4>1. /\ OrZero(vector.hidden_tests_passed) = Passed("hidden_tests")
            /\ OrZero(vector.hidden_tests_failed) = Failed("hidden_tests")
        BY <2>2, <3>1, EvaluationAssumption DEF OrZero
      <4>2. /\ w.hidden_tests_passed = Passed("hidden_tests") + HitPassed(o, r, "hidden_tests")
            /\ w.hidden_tests_failed = Failed("hidden_tests") + HitFailed(o, r, "hidden_tests")
        BY <2>1, <3>2, <4>1, MergeCounts
      <4> QED
        BY <2>2, <3>2, <4>2
    <3>3. CASE o # "hidden_tests"
      <4>1. /\ w.hidden_tests_passed = vector.hidden_tests_passed
            /\ w.hidden_tests_failed = vector.hidden_tests_failed
        BY <2>1, <3>3, MergeCounts
      <4>2. /\ Passed("hidden_tests")' = Passed("hidden_tests")
            /\ Failed("hidden_tests")' = Failed("hidden_tests")
            /\ Ran("hidden_tests")' = Ran("hidden_tests")
        BY <2>2, <2>4, <3>3
      <4> QED
        BY <3>1, <4>1, <4>2
    <3> QED
      BY <3>2, <3>3
  <2> QED
    BY <2>w, <2>5, <2>6, <2>7, <2>8 DEF VectorCountsResults
<1>2. CASE results' = <<>> /\ vector' = EmptyVector
  <2>1. (results = <<>> /\ vector = EmptyVector => VectorCountsResults)'
    BY NothingToCount, PTL
  <2> QED
    BY <1>2, <2>1
<1>3. CASE UNCHANGED <<results, vector>> /\ (UNCHANGED registered \/ results = <<>>)
  BY <1>3, SameResults DEF VectorCountsResults
<1>4. \/ results' = <<>> /\ vector' = EmptyVector
      \/ UNCHANGED <<results, vector>> /\ (UNCHANGED registered \/ results = <<>>)
      \/ \E i \in todo : \E r \in ResultsOf(i) : Take(i, r) /\ UNCHANGED registered
  BY DEF Next, Begin, EvaluateCandidate, VerifyCompletion, RunEvaluator, EvaluatorRaises,
    Raised, Register, PipelineInv, Take, vars
<1> QED
  BY <1>1, <1>2, <1>3, <1>4

\* Whatever the evaluators answer, every result of an evaluation is in its
\* vector exactly once: none is lost between the pipeline and merge_into, none
\* is counted twice, and the running time is the sum of theirs.
THEOREM VectorsCountResults == Spec => []VectorCountsResults
<1>1. Init => VectorCountsResults
  BY NothingToCount DEF Init
<1>2. PipelineInv /\ VectorCountsResults /\ [Next]_vars => VectorCountsResults'
  BY CountsStep
<1> QED
  BY <1>1, <1>2, PipelineInductive, PTL DEF Spec

-----------------------------------------------------------------------------
(* The ranking of vectors.                                                 *)

\* The order on tuples of integers of one length is a strict order.
LEMMA TupleLessIsStrict ==
  ASSUME NEW n \in Nat,
         NEW x \in [1 .. n -> Int], NEW y \in [1 .. n -> Int], NEW z \in [1 .. n -> Int]
  PROVE  /\ ~TupleLess(x, x)
         /\ ~(TupleLess(x, y) /\ TupleLess(y, x))
         /\ TupleLess(x, y) /\ TupleLess(y, z) => TupleLess(x, z)
<1>1. \A a \in [1 .. n -> Int], b \in [1 .. n -> Int] :
        TupleLess(a, b)
          <=> \E i \in 1 .. n : a[i] < b[i] /\ \A j \in 1 .. i - 1 : a[j] = b[j]
  BY DEF TupleLess
<1>2. ~TupleLess(x, x)
  BY <1>1
<1>3. ASSUME TupleLess(x, y), TupleLess(y, z)
      PROVE  TupleLess(x, z)
  <2>1. PICK i \in 1 .. n : x[i] < y[i] /\ \A j \in 1 .. i - 1 : x[j] = y[j]
    BY <1>1, <1>3
  <2>2. PICK k \in 1 .. n : y[k] < z[k] /\ \A j \in 1 .. k - 1 : y[j] = z[j]
    BY <1>1, <1>3
  <2>3. CASE i <= k
    <3>1. x[i] < z[i]
      BY <2>1, <2>2, <2>3
    <3>2. \A j \in 1 .. i - 1 : x[j] = z[j]
      BY <2>1, <2>2, <2>3
    <3>3. QED
      BY <1>1, <3>1, <3>2
  <2>4. CASE k < i
    <3>1. x[k] < z[k]
      BY <2>1, <2>2, <2>4
    <3>2. \A j \in 1 .. k - 1 : x[j] = z[j]
      BY <2>1, <2>2, <2>4
    <3>3. QED
      BY <1>1, <3>1, <3>2
  <2>5. QED
    BY <2>3, <2>4
<1>4. ASSUME TupleLess(x, y), TupleLess(y, x)
      PROVE  FALSE
  <2>1. PICK i \in 1 .. n : x[i] < y[i] /\ \A j \in 1 .. i - 1 : x[j] = y[j]
    BY <1>1, <1>4
  <2>2. PICK k \in 1 .. n : y[k] < x[k] /\ \A j \in 1 .. k - 1 : y[j] = x[j]
    BY <1>1, <1>4
  <2>3. QED
    BY <2>1, <2>2
<1>5. QED
  BY <1>2, <1>3, <1>4

\* The key of a vector is a tuple of thirteen integers.
LEMMA RankKeyType ==
  ASSUME NEW v \in EvaluationVector
  PROVE  RankKey(v) \in [1 .. 13 -> Int]
<1>1. /\ CheckRank(v.compilation_ok) \in Int
      /\ CheckRank(v.type_check_ok) \in Int
      /\ CheckRank(v.lint_ok) \in Int
  BY DEF CheckRank
<1>2. /\ OrZero(v.hidden_tests_failed) \in Int
      /\ OrZero(v.hidden_tests_passed) \in Int
  BY DEF OrZero, EvaluationVector, Count
<1>3. QED
  BY <1>1, <1>2 DEF RankKey, EvaluationVector

\* Being better is a strict order on vectors, so "no improvement" in the test
\* for stagnation (transition_policy.py) can never go round in a circle: a
\* vector is not better than itself, nor than one that is better than it, and
\* improvements add up, with absent checks and counts among the vectors too.
THEOREM BetterIsAStrictOrder ==
  ASSUME NEW u \in EvaluationVector, NEW v \in EvaluationVector,
         NEW w \in EvaluationVector
  PROVE  /\ ~IsBetterThan(u, u)
         /\ ~(IsBetterThan(u, v) /\ IsBetterThan(v, u))
         /\ IsBetterThan(u, v) /\ IsBetterThan(v, w) => IsBetterThan(u, w)
<1>1. /\ RankKey(u) \in [1 .. 13 -> Int]
      /\ RankKey(v) \in [1 .. 13 -> Int]
      /\ RankKey(w) \in [1 .. 13 -> Int]
  BY RankKeyType
<1>2. QED
  BY <1>1, TupleLessIsStrict, 13 \in Nat DEF IsBetterThan

=============================================================================
