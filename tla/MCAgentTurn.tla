---------------------------- MODULE MCAgentTurn -----------------------------
(* Two turns with two calls of the sandbox between them. *)
EXTENDS AgentTurn

\* Two globs with the paths of this module they match; "hidden" as it is would
\* match the directory alone.
Sources == [text |-> <<"src", "**">>, matches |-> {<<"src", "a">>, <<"src", "a", "b">>}]
Hidden  == [text |-> <<"hidden", "*">>, matches |-> {<<"hidden", "a">>}]

Goal ==
  [provider |-> "google-adk",
   required_checks |-> <<[id |-> "tests", command |-> <<"pytest">>]>>,
   hidden_checks |-> {<<"hidden">>}, hidden_writable |-> FALSE,
   max_iterations |-> 2, max_runtime_seconds |-> 2, max_model_calls |-> 2,
   writable_paths |-> {Sources}, protected_paths |-> {Hidden},
   allowed_commands |-> {<<"pytest">>}, forbidden_patterns |-> {"--force"},
   dependency_policy |-> "frozen", approval_gates |-> {},
   success_conditions |-> {"all checks pass"}, branching_factor |-> 1]

Scripted == [Goal EXCEPT !.provider = "scripted", !.max_iterations = 1]

\* Two that run, one that permits no command, one that the validator refuses,
\* one with a gate and one with a provider that do not exist.
MCGoals ==
  {Goal, Scripted,
   [Scripted EXCEPT !.allowed_commands = {}, !.dependency_policy = "allow_all",
                    !.approval_gates = {"DEPENDENCY_CHANGE"}],
   [Goal EXCEPT !.protected_paths = {[text |-> <<"src">>, matches |-> {<<"src">>}]}],
   [Goal EXCEPT !.approval_gates = {"RELEASE"}],
   [Goal EXCEPT !.provider = "other"]}

Edit    == [path |-> <<"src", "a">>, operation |-> "replace", content |-> TRUE, unified_diff |-> FALSE]
Command == [program |-> "pytest", matches |-> {}, shell |-> FALSE, timeout_seconds |-> 1]

Claim == [Nothing EXCEPT !.completion_claimed = TRUE]
Work  == [Nothing EXCEPT !.edits = <<Edit>>, !.commands = <<Command>>]
Twice == [Nothing EXCEPT !.commands = <<Command, Command>>]

\* Each is refused for another reason.
Refusable ==
  {[Nothing EXCEPT !.write_files = <<<<"hidden", "a">>>>],
   [Nothing EXCEPT !.write_files = <<<<"setup.py">>>>],
   [Nothing EXCEPT !.write_files = <<<<"src", "..">>>>],
   [Work EXCEPT !.diff = {<<"setup.py">>}],
   [Work EXCEPT !.commands = <<[Command EXCEPT !.timeout_seconds = 3]>>],
   [Work EXCEPT !.commands = <<[Command EXCEPT !.matches = {"--force"}]>>],
   [Work EXCEPT !.commands = <<[Command EXCEPT !.program = "make"]>>],
   [Work EXCEPT !.commands = <<[Command EXCEPT !.shell = TRUE]>>]}

MCProposals == {Claim, Work, Twice} \union Refusable

\* An answer without the field, and one whose edit has no content.
MCAnswers ==
  {[omitted |-> {}, proposal |-> p] : p \in MCProposals}
  \union {[omitted |-> {"diff"}, proposal |-> Work],
          [omitted |-> {}, proposal |-> [Work EXCEPT !.edits = <<[Edit EXCEPT !.content = FALSE]>>]]}

=============================================================================
