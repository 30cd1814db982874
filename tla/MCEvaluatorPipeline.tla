------------------------ MODULE MCEvaluatorPipeline ------------------------
(* Pipelines of up to three evaluators, of every kind and at three tiers. *)
EXTENDS EvaluatorPipeline

MCEvaluators ==
  {[tier |-> 0, outcome |-> "policy_violations"],
   [tier |-> 0, outcome |-> "none"],
   [tier |-> 1, outcome |-> "diff_size"],
   [tier |-> 1, outcome |-> "compilation_ok"],
   [tier |-> 1, outcome |-> "type_check_ok"],
   [tier |-> 1, outcome |-> "lint_ok"],
   [tier |-> 2, outcome |-> "visible_tests"],
   [tier |-> 2, outcome |-> "plain"],
   [tier |-> 4, outcome |-> "hidden_tests"]}

MCDurations == {1}
MCSizes     == {0, 2}

=============================================================================
