-------------------------- MODULE TransitionPolicy --------------------------
(***************************************************************************)
(* How the controller turns evidence into a decision                       *)
(* (controller/transition_policy.py).  A history is a sequence of          *)
(* candidates, each a record with at least the fields commit and vec; vec  *)
(* is NoVector for a candidate that was never scored.                      *)
(***************************************************************************)
EXTENDS Evaluation

CONSTANT NoVector   \* the evaluation of a candidate that has none

ASSUME NoVectorAssumption == NoVector \notin EvaluationVector

Scored(history) == SelectSeq(history, LAMBDA c : c.vec # NoVector)

\* The repository did not move between the last two scored candidates and
\* the new vector is no improvement on the last of them.
IsStagnating(vector, history) ==
  LET scored == Scored(history)
      last   == Len(scored)
  IN  /\ last >= 2
      /\ ~IsBetterThan(vector, scored[last].vec)
      /\ scored[last].commit = scored[last - 1].commit

\* Mutant of Decide: a claim of completion is taken at its word.
DecideOnClaim(vector, history, completion_claimed) ==
  CASE completion_claimed                           -> "COMPLETE"
    [] ~completion_claimed /\ IsAcceptable(vector)  -> "ACCEPT"
    [] ~completion_claimed /\ ~IsAcceptable(vector) -> "RETRY"

\* The decision on a vector the pipeline returned.
Decide(vector, history, completion_claimed) ==
  CASE IsAcceptable(vector) /\ completion_claimed  -> "COMPLETE"
    [] IsAcceptable(vector) /\ ~completion_claimed -> "ACCEPT"
    [] ~IsAcceptable(vector) /\ IsStagnating(vector, history)  -> "ROLLBACK"
    [] ~IsAcceptable(vector) /\ ~IsStagnating(vector, history) -> "RETRY"

\* The decision on a proposal the policy engine refused, whatever it scores.
DecideRefused == "REJECT"

=============================================================================
