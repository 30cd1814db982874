---------------------------- MODULE PolicyEngine ----------------------------
(***************************************************************************)
(* policy/: what a goal permits of a proposal.  A path is the sequence of  *)
(* its components below the workspace, or begins with ".." when it lies    *)
(* outside; a command is its program, the forbidden patterns its text can  *)
(* match and its timeout; a diff is the set of files it names.             *)
(***************************************************************************)
EXTENDS GoalContract

ApprovalGate ==
  {"DEPENDENCY_CHANGE", "PUBLIC_API_CHANGE", "DATABASE_SCHEMA_CHANGE", "SENSITIVE_FILE_CHANGE"}

\* PathPolicy._matches: fnmatch on the whole path, or the text of the glob
\* itself.
Matches(path, patterns) == \E p \in patterns : path \in p.matches \/ path = p.text

\* reject_path_traversal
LeavesWorkspace(path) == SeqOps!Contains(path, "..")

Violation(what, of) == [what |-> what, of |-> of]

\* The loop over write_files.  A resolved path is no symbolic link any more:
\* a link that leaves the workspace has already failed as a traversal.
PathViolations(g, path) ==
  IF LeavesWorkspace(path) THEN {Violation("traversal", path)}
  ELSE IF Matches(path, g.protected_paths) THEN {Violation("protected", path)}
  ELSE IF ~Matches(path, g.writable_paths) THEN {Violation("not writable", path)}
  ELSE {}

SensitiveGate(g, path) ==
  IF /\ ~LeavesWorkspace(path) /\ Matches(path, g.protected_paths)
     /\ "SENSITIVE_FILE_CHANGE" \in g.approval_gates
  THEN {"SENSITIVE_FILE_CHANGE"} ELSE {}

\* Mutant of IsAllowed: without an allowlist, everything is allowed.
IsAllowedByDefault(g, command) ==
  g.allowed_commands = {} \/ \E c \in g.allowed_commands : c[1] = command.program

\* CommandPolicy.is_allowed compares programs; the arguments an entry of the
\* contract lists are not looked at (engine.py:37).
IsAllowed(g, command) == \E c \in g.allowed_commands : c[1] = command.program

\* reject_shell_strings: argv is a list in every command the agents' schema lets
\* through, but for the older form, where it may be one string.
IsShellString(command) == command.shell

\* has_forbidden_pattern
HasForbiddenPattern(g, command) == command.matches \intersect g.forbidden_patterns # {}

\* The loop over commands.
CommandViolations(g, command) ==
  IF IsShellString(command) THEN {Violation("shell string", command.program)}
  ELSE IF ~IsAllowed(g, command) THEN {Violation("not allowed", command.program)}
  ELSE IF HasForbiddenPattern(g, command) THEN {Violation("forbidden pattern", command.program)}
  ELSE {}

\* all_timeouts_within_limit
TimeoutsWithinLimit(commands, limit) ==
  \A i \in DOMAIN commands : commands[i].timeout_seconds <= limit

\* One name stands for all of requirements.<x>.txt.
DependencyFiles ==
  {"pyproject.toml", "uv.lock", "requirements.txt", "requirements.dev.txt", "poetry.lock",
   "Pipfile", "Pipfile.lock", "setup.py", "setup.cfg"}

\* check_dependency_changes: such a file in any directory.
ChangesDependencies(diff) == \E file \in diff : SeqOps!Last(file) \in DependencyFiles

\* PolicyEngine.check_proposal.  A gate is never opened: what needs an approval
\* is not allowed.
CheckProposal(g, p) ==
  LET over(s, F(_)) == UNION {F(s[i]) : i \in DOMAIN s}
      rule(broken, what) == IF broken THEN {Violation(what, "proposal")} ELSE {}
      dependencies == ChangesDependencies(p.diff)
      rejected     == over(p.commands, LAMBDA c : CommandViolations(g, c))
      violations   ==
        over(p.write_files, LAMBDA f : PathViolations(g, f))
        \union rejected
        \union rule(~TimeoutsWithinLimit(p.commands, g.max_runtime_seconds), "timeout")
        \union rule(dependencies /\ g.dependency_policy = "frozen", "dependencies")
      gates ==
        over(p.write_files, LAMBDA f : SensitiveGate(g, f))
        \union (IF dependencies THEN {"DEPENDENCY_CHANGE"} \intersect g.approval_gates ELSE {})
  IN  [violations        |-> violations,
       rejected_commands |-> rejected,
       requires_approval |-> gates,
       allowed           |-> violations = {} /\ gates = {}]

=============================================================================
