----------------------------- MODULE Evaluation -----------------------------
(***************************************************************************)
(* The evaluation vector, its acceptance gate and its ranking              *)
(* (domain/evaluations.py).  Counts are naturals; a check and a hidden     *)
(* count may be absent (None).  runtime_seconds is a natural number of     *)
(* ticks: the code only adds it up and compares it.                        *)
(***************************************************************************)
EXTENDS Integers, Sequences

CONSTANTS
  None,               \* Python's None: the check or the count is absent
  MaxRuntimeSeconds,  \* contract.constraints.max_runtime_seconds
  DependencyPolicy    \* contract.constraints.dependency_policy

ASSUME EvaluationAssumption ==
  /\ None \notin Nat
  /\ None \notin {"ok", "failed"}
  /\ MaxRuntimeSeconds \in Nat \ {0}
  /\ DependencyPolicy \in {"frozen", "allowlist_only", "allow_all"}

Check == {"ok", "failed", None}
Count == Nat \union {None}

EvaluationVector ==
  [policy_violations: Nat, protected_file_changes: Nat, security_critical: Nat,
   compilation_ok: Check, type_check_ok: Check, lint_ok: Check,
   visible_tests_failed: Nat, hidden_tests_failed: Count,
   security_high: Nat, visible_tests_passed: Nat, hidden_tests_passed: Count,
   dependency_changes: Nat, runtime_seconds: Nat]

\* EvaluationVector(): what a pipeline starts from.
EmptyVector ==
  [policy_violations |-> 0, protected_file_changes |-> 0, security_critical |-> 0,
   compilation_ok |-> None, type_check_ok |-> None, lint_ok |-> None,
   visible_tests_failed |-> 0, hidden_tests_failed |-> None,
   security_high |-> 0, visible_tests_passed |-> 0, hidden_tests_passed |-> None,
   dependency_changes |-> 0, runtime_seconds |-> 0]

-----------------------------------------------------------------------------

CheckRank(c) == IF c = "ok" THEN 2 ELSE IF c = None THEN 1 ELSE 0
OrZero(n)    == IF n = None THEN 0 ELSE n

\* The key the code compares: smaller is better.
RankKey(v) ==
  << v.policy_violations, v.protected_file_changes, v.security_critical,
     -CheckRank(v.compilation_ok), -CheckRank(v.type_check_ok), -CheckRank(v.lint_ok),
     v.visible_tests_failed, OrZero(v.hidden_tests_failed), v.security_high,
     -v.visible_tests_passed, -OrZero(v.hidden_tests_passed),
     v.dependency_changes, v.runtime_seconds >>

\* Python's order on tuples of one length: the first difference decides.
TupleLess(x, y) ==
  \E i \in DOMAIN x : x[i] < y[i] /\ \A j \in 1 .. i - 1 : x[j] = y[j]

IsBetterThan(v, w) == TupleLess(RankKey(v), RankKey(w))

\* The hard gates of the contract: an absent check or count passes.
IsAcceptable(v) ==
  /\ v.policy_violations = 0
  /\ v.protected_file_changes = 0
  /\ v.security_critical = 0
  /\ v.visible_tests_failed = 0
  /\ OrZero(v.hidden_tests_failed) = 0
  /\ "failed" \notin {v.compilation_ok, v.type_check_ok, v.lint_ok}
  /\ v.runtime_seconds <= MaxRuntimeSeconds
  /\ DependencyPolicy = "frozen" => v.dependency_changes = 0

=============================================================================
