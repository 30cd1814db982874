---------------------------- MODULE StateMachine ----------------------------
(***************************************************************************)
(* The controller state machine: its states, its decisions and the two     *)
(* tables that say which edge may be taken under which decision            *)
(* (controller/state_machine.py).  The machine has no variable of its own  *)
(* here: the Controller module keeps the current state.                    *)
(***************************************************************************)

Terminal == {"COMPLETED", "FAILED", "CANCELLED"}

ControllerState ==
  {"CREATED", "INITIALIZING", "BASELINE_EVALUATION", "BUILDING_CONTEXT",
   "AWAITING_PROPOSAL", "POLICY_CHECK", "EXECUTING", "CHECKPOINTING",
   "EVALUATING", "SELECTING_TRANSITION", "AWAITING_APPROVAL",
   "VERIFYING_COMPLETION"} \union Terminal

TransitionDecision ==
  {"ACCEPT", "REJECT", "ROLLBACK", "RETRY", "BRANCH", "REQUEST_APPROVAL",
   "COMPLETE", "FAIL"}

\* The states a run may move on to, cancellation and failure apart.
Onward(s) ==
  CASE s = "CREATED"              -> {"INITIALIZING"}
    [] s = "INITIALIZING"         -> {"BASELINE_EVALUATION"}
    [] s = "BASELINE_EVALUATION"  -> {"BUILDING_CONTEXT"}
    [] s = "BUILDING_CONTEXT"     -> {"AWAITING_PROPOSAL"}
    [] s = "AWAITING_PROPOSAL"    -> {"POLICY_CHECK"}
    [] s = "POLICY_CHECK"         -> {"EXECUTING", "AWAITING_APPROVAL", "SELECTING_TRANSITION"}
    [] s = "EXECUTING"            -> {"CHECKPOINTING", "SELECTING_TRANSITION"}
    [] s = "CHECKPOINTING"        -> {"EVALUATING", "SELECTING_TRANSITION"}
    [] s = "EVALUATING"           -> {"SELECTING_TRANSITION"}
    [] s = "SELECTING_TRANSITION" -> {"BUILDING_CONTEXT", "AWAITING_APPROVAL",
                                      "VERIFYING_COMPLETION"}
    [] s = "AWAITING_APPROVAL"    -> {"POLICY_CHECK", "SELECTING_TRANSITION"}
    [] s = "VERIFYING_COMPLETION" -> {"COMPLETED", "BUILDING_CONTEXT"}
    [] OTHER                      -> {}

\* Every state that is not terminal may also be cancelled or fail.
TransitionTable(s) ==
  IF s \in Terminal THEN {} ELSE Onward(s) \union {"CANCELLED", "FAILED"}

\* The decisions that justify an edge.  Edges that are not named are taken
\* by ACCEPT, and an edge to CANCELLED or FAILED only by FAIL.
DecisionTable(s, t) ==
  CASE t \in {"CANCELLED", "FAILED"} -> {"FAIL"}
    [] t = "AWAITING_APPROVAL"       -> {"REQUEST_APPROVAL"}
    [] t \in {"VERIFYING_COMPLETION", "COMPLETED"} -> {"COMPLETE"}
    [] s \in {"POLICY_CHECK", "EXECUTING"} /\ t = "SELECTING_TRANSITION"
                                     -> {"REJECT", "RETRY", "ROLLBACK"}
    [] s = "CHECKPOINTING" /\ t = "SELECTING_TRANSITION"
                                     -> {"RETRY", "ROLLBACK"}
    [] s = "AWAITING_APPROVAL" /\ t = "SELECTING_TRANSITION"
                                     -> {"REJECT", "ROLLBACK"}
    [] s = "SELECTING_TRANSITION" /\ t = "BUILDING_CONTEXT"
                                     -> {"ACCEPT", "REJECT", "RETRY", "ROLLBACK", "BRANCH"}
    [] s = "VERIFYING_COMPLETION" /\ t = "BUILDING_CONTEXT"
                                     -> {"RETRY", "REJECT"}
    [] OTHER                         -> {"ACCEPT"}

\* StateMachine.validate: both tables must allow the request.
Validate(s, t, d) == t \in TransitionTable(s) /\ d \in DecisionTable(s, t)

=============================================================================
