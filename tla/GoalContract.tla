---------------------------- MODULE GoalContract ----------------------------
(***************************************************************************)
(* domain/contracts.py: the goals that parse, and the rules across their   *)
(* fields that ContractValidator holds them to when a run starts.  A path  *)
(* is the sequence of its components; a glob is its own text, read as one, *)
(* with the set of paths it matches.                                       *)
(***************************************************************************)
EXTENDS Naturals, Sequences

SeqOps == INSTANCE SequencesExt

\* The field validators of GoalContract and its parts, for the fields the
\* harness reads.  No field is checked against another.
IsGoalContract(g) ==
  /\ \A i \in DOMAIN g.required_checks : g.required_checks[i].command # <<>>
  /\ g.hidden_checks # {} => ~g.hidden_writable
  /\ g.max_iterations > 0 /\ g.max_runtime_seconds > 0 /\ g.max_model_calls > 0
  /\ \A c \in g.allowed_commands : c # <<>>
  /\ g.dependency_policy \in {"frozen", "allowlist_only", "allow_all"}
  /\ g.branching_factor >= 1

\* _paths_overlap: globs are compared by their texts, not by what they match.
PathsOverlap(left, right) ==
  IF left = <<>> \/ right = <<>> THEN left = right
  ELSE SeqOps!IsPrefix(left, right) \/ SeqOps!IsPrefix(right, left)

DuplicateIds(checks) ==
  {checks[i].id : i \in {j \in DOMAIN checks : \E k \in DOMAIN checks :
                           k # j /\ checks[k].id = checks[j].id}}

\* ContractValidator.validate: the rules a goal breaks.
Validate(g) ==
  LET rule(name, broken) == IF broken THEN {name} ELSE {}
      protects(directory) == \E p \in g.protected_paths : PathsOverlap(directory, p.text)
  IN  rule("duplicate check id", DuplicateIds(g.required_checks) # {})
      \union rule("fewer model calls than iterations", g.max_model_calls < g.max_iterations)
      \union rule("writable and protected paths overlap",
                  \E w \in g.writable_paths, p \in g.protected_paths :
                    PathsOverlap(w.text, p.text))
      \union rule("hidden checks are not protected",
                  g.protected_paths # {} /\ \E d \in g.hidden_checks : ~protects(d))
      \union rule("no check", g.required_checks = <<>> /\ g.hidden_checks = {})
      \union rule("no success condition", g.success_conditions = {})
      \union rule("branches need iterations", g.branching_factor > 1 /\ g.max_iterations < 2)

=============================================================================
