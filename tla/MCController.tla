---------------------------- MODULE MCController ----------------------------
(* Controller on small budgets, with one vector of each kind. *)
EXTENDS ContextBuilder, Reports

\* Everything passed.
Good == [EmptyVector EXCEPT !.compilation_ok = "ok", !.visible_tests_passed = 1]

\* A visible test failed.
Bad == [EmptyVector EXCEPT !.visible_tests_failed = 1]

MCVectors == {Good, Bad}

=============================================================================
