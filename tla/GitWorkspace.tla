---------------------------- MODULE GitWorkspace ----------------------------
(***************************************************************************)
(* repository/git_store.py: the clone a run works in, with its commits and *)
(* its work tree, under the git commands the store calls.  Which files     *)
(* status, add and clean look at depends on the ignore file of the work    *)
(* tree, which is a file like the others.  Each file remembers the turn    *)
(* that wrote it.  An action is one call of the store, restore two: the    *)
(* file it is run on may be what the first command left.                   *)
(***************************************************************************)
EXTENDS Naturals, Sequences

CONSTANTS
  Paths,      \* the files a repository may have
  IgnoreFile, \* the one named .gitignore
  Texts,      \* what a file may hold
  Missing,    \* what a file holds that does not exist
  Patterns,   \* the files ignored, by the text of the ignore file
  MaxCommits, \* bound: commits
  MaxTurn     \* bound: turns of the run

ASSUME GitAssumption ==
  /\ IgnoreFile \in Paths
  /\ Missing \in Texts
  /\ Patterns \in [Texts -> SUBSET Paths]
  /\ Patterns[Missing] = {}
  /\ MaxCommits \in Nat /\ MaxTurn \in Nat

VARIABLES
  pc,      \* "idle", or "clean" between the two commands of restore
  turn,    \* the turn of the run
  commits, \* each with its parent and its files
  head,    \* the commit checked out
  work     \* the files of the work tree

vars == <<pc, turn, commits, head, work>>

Files == [by : 0 .. MaxTurn, text : Texts]

Commits == [parent : Nat, tree : [Paths -> Files]]

Tree(c) == commits[c].tree

Exists(file) == file.text # Missing

\* Between two calls, the index holds the files of HEAD.
Tracked(p) == Exists(Tree(head)[p])

Ignored(p) == p \in Patterns[work[IgnoreFile].text]

Differs(p) == work[p].text # Tree(head)[p].text

\* What git status --porcelain lists.
Status == {p \in Paths : Differs(p) /\ (Tracked(p) \/ ~Ignored(p))}

-----------------------------------------------------------------------------

\* initialize: the clone of a source without uncommitted changes.
Init ==
  /\ pc = "idle" /\ turn = 0 /\ head = 1
  /\ \E tree \in [Paths -> [by : {0}, text : Texts]] :
       commits = <<[parent |-> 0, tree |-> tree]>> /\ work = tree

\* A proposal's edit, a command in the sandbox or an evaluator writes a file,
\* or removes it.
Write(p, text) ==
  /\ pc = "idle"
  /\ work' = [work EXCEPT ![p] = [by |-> turn, text |-> text]]
  /\ UNCHANGED <<pc, turn, commits, head>>

NextTurn ==
  /\ pc = "idle"
  /\ turn < MaxTurn
  /\ turn' = turn + 1
  /\ UNCHANGED <<pc, commits, head, work>>

\* Mutant of Checkpoint: the parent is read after the commit.
CheckpointOnItself ==
  /\ pc = "idle"
  /\ Status # {}
  /\ Len(commits) < MaxCommits
  /\ commits' = Append(commits,
       [parent |-> Len(commits) + 1,
        tree |-> [p \in Paths |-> IF p \in Status THEN work[p] ELSE Tree(head)[p]]])
  /\ head' = Len(commits) + 1
  /\ UNCHANGED <<pc, turn, work>>

\* Mutant of Checkpoint: commit --all instead, which leaves untracked files out.
CheckpointTracked ==
  /\ pc = "idle"
  /\ Status # {}
  /\ Len(commits) < MaxCommits
  /\ commits' = Append(commits,
       [parent |-> head,
        tree |-> [p \in Paths |-> IF Tracked(p) THEN work[p] ELSE Tree(head)[p]]])
  /\ head' = Len(commits) + 1
  /\ UNCHANGED <<pc, turn, work>>

\* checkpoint: add --all, commit.  A clean workspace is refused.
Checkpoint ==
  /\ pc = "idle"
  /\ Status # {}
  /\ Len(commits) < MaxCommits
  /\ commits' = Append(commits,
       [parent |-> head,
        tree |-> [p \in Paths |-> IF p \in Status THEN work[p] ELSE Tree(head)[p]]])
  /\ head' = Len(commits) + 1
  /\ UNCHANGED <<pc, turn, work>>

\* Mutant of Reset: without --hard the work tree stays as it is.
ResetMixed(c) ==
  /\ pc = "idle"
  /\ head' = c
  /\ pc' = "clean"
  /\ UNCHANGED <<turn, commits, work>>

\* restore, reset --hard: every file of the index or of the commit is put back.
Reset(c) ==
  /\ pc = "idle"
  /\ head' = c
  /\ work' = [p \in Paths |-> IF Tracked(p) \/ Exists(Tree(c)[p]) THEN Tree(c)[p] ELSE work[p]]
  /\ pc' = "clean"
  /\ UNCHANGED <<turn, commits>>

\* Mutant of Clean: only ignored files are removed (clean -fdX).
CleanIgnored ==
  /\ pc = "clean"
  /\ work' = [p \in Paths |-> IF ~Tracked(p) /\ Ignored(p) THEN Tree(head)[p] ELSE work[p]]
  /\ pc' = "idle"
  /\ UNCHANGED <<turn, commits, head>>

\* restore, clean -fd: the untracked files that are not ignored are removed.
Clean ==
  /\ pc = "clean"
  /\ work' = [p \in Paths |-> IF Tracked(p) \/ Ignored(p) THEN work[p] ELSE Tree(head)[p]]
  /\ pc' = "idle"
  /\ UNCHANGED <<turn, commits, head>>

\* create_branch: checkout -B, which carries local changes over and refuses to
\* overwrite any but deletions and ignored files.
CreateBranch(c) ==
  LET changed == {p \in Paths : Tree(head)[p].text # Tree(c)[p].text}
  IN  /\ pc = "idle"
      /\ \A p \in changed \intersect Status : ~Exists(work[p])
      /\ head' = c
      /\ work' = [p \in Paths |-> IF p \in changed THEN Tree(c)[p] ELSE work[p]]
      /\ UNCHANGED <<pc, turn, commits>>

Next ==
  \/ \E p \in Paths, text \in Texts : Write(p, text)
  \/ NextTurn
  \/ Checkpoint
  \/ \E c \in DOMAIN commits : Reset(c) \/ CreateBranch(c)
  \/ Clean

Spec == Init /\ [][Next]_vars

-----------------------------------------------------------------------------

\* Every variable has its type; a commit is made on an earlier one.
TypeOK ==
  /\ pc \in {"idle", "clean"}
  /\ turn \in 0 .. MaxTurn
  /\ commits \in Seq(Commits)
  /\ \A c \in DOMAIN commits : commits[c].parent < c /\ (c # 1 => commits[c].parent # 0)
  /\ head \in DOMAIN commits
  /\ work \in [Paths -> Files]

\* A checkpoint commits all that is to be seen of the workspace, so that the
\* evaluation that follows looks at the candidate, with nothing beside it but
\* ignored files (git_store.py:46-56).
CheckpointCommitsAll ==
  [][Len(commits') > Len(commits) => Status' = {}]_vars

\* restore brings back the commit it is asked for, with nothing beside it but
\* ignored files, if the ignore file it meets is a tracked one or there is none
\* (git_store.py:58-63).
RestoreBringsBack ==
  [][pc = "clean" /\ (Tracked(IgnoreFile) \/ ~Exists(work[IgnoreFile]))
     => Status' = {}]_vars

\* The files no ignore file can hide are a Workspace: a commit adds to its
\* parent what the turns wrote since that was checked out, and what a restore
\* discards is in no later commit (git_store.py:46-75).
Plain == {p \in Paths : \A text \in Texts : p \notin Patterns[text]}

Writers(tree, base) == {tree[p].by : p \in {q \in Plain : tree[q].text # base[q].text}}

Abstract(c) ==
  [parent |-> commits[c].parent,
   edits  |-> IF commits[c].parent = 0 THEN {} ELSE Writers(Tree(c), Tree(commits[c].parent))]

W == INSTANCE Workspace WITH
       restoring <- pc = "clean",
       commits <- [c \in DOMAIN commits |-> Abstract(c)],
       edits <- Writers(work, Tree(head))

ImplementsWorkspace == W!Spec

\* repository/protocol.py:33: "Restore the isolated workspace to a previously
\* captured state."  A restore ends with nothing but that state to be seen.
RestoreIsExact == [][pc = "clean" => Status' = {}]_vars

=============================================================================
