------------------------- MODULE GitWorkspaceProofs -------------------------
(***************************************************************************)
(* Theorems about GitWorkspace, for any files, any ignore file and any     *)
(* number of commits and turns: what a checkpoint and a restore leave, and *)
(* that it is a Workspace.                                                 *)
(***************************************************************************)
EXTENDS GitWorkspace, SequenceTheorems, TLAPS

\* What reset puts back is unchanged when clean runs.
RestoreInv == pc = "clean" => \A p \in Paths : Tracked(p) => ~Differs(p)

LEMMA Elements ==
  ASSUME TypeOK
  PROVE  /\ Len(commits) \in Nat /\ DOMAIN commits = 1 .. Len(commits)
         /\ \A c \in DOMAIN commits : commits[c].parent \in Nat /\ Tree(c) \in [Paths -> Files]
<1>1. commits \in Seq(Commits)
  BY DEF TypeOK
<1>2. Len(commits) \in Nat /\ DOMAIN commits = 1 .. Len(commits)
      /\ \A c \in DOMAIN commits : commits[c] \in Commits
  BY <1>1
<1> QED
  BY <1>2 DEF Commits, Tree

LEMMA NewTree ==
  ASSUME TypeOK
  PROVE  [p \in Paths |-> IF p \in Status THEN work[p] ELSE Tree(head)[p]] \in [Paths -> Files]
BY Elements DEF TypeOK

LEMMA TypeInit == Init => TypeOK
<1> SUFFICES ASSUME Init PROVE TypeOK
  OBVIOUS
<1> USE DEF Init
<1>1. PICK tree \in [Paths -> [by : {0}, text : Texts]] :
        commits = <<[parent |-> 0, tree |-> tree]>> /\ work = tree
  OBVIOUS
<1>2. tree \in [Paths -> Files]
  BY GitAssumption DEF Files
<1>3. [parent |-> 0, tree |-> tree] \in Commits
  BY <1>2 DEF Commits
<1>4. commits \in Seq(Commits) /\ Len(commits) = 1 /\ commits[1].parent = 0
  BY <1>1, <1>3
<1> QED
  BY <1>1, <1>2, <1>4, GitAssumption DEF TypeOK, Commits

LEMMA TypeStep == TypeOK /\ [Next]_vars => TypeOK'
<1> SUFFICES ASSUME TypeOK, [Next]_vars PROVE TypeOK'
  OBVIOUS
<1>1. ASSUME NEW p \in Paths, NEW text \in Texts, Write(p, text) PROVE TypeOK'
  BY <1>1 DEF Write, TypeOK, Files
<1>2. ASSUME NextTurn PROVE TypeOK'
  BY <1>2, GitAssumption DEF NextTurn, TypeOK
<1>3. ASSUME Checkpoint PROVE TypeOK'
  <2> DEFINE new == [parent |-> head,
                     tree |-> [p \in Paths |-> IF p \in Status THEN work[p] ELSE Tree(head)[p]]]
  <2>1. new \in Commits
    BY NewTree, Elements DEF Commits, TypeOK
  <2>2. commits' = Append(commits, new) /\ head' = Len(commits) + 1
    BY <1>3 DEF Checkpoint
  <2>3. head \in 1 .. Len(commits) /\ new.parent = head
    BY Elements DEF TypeOK
  <2> HIDE DEF new
  <2>4. /\ commits' \in Seq(Commits) /\ Len(commits') = Len(commits) + 1
        /\ \A c \in 1 .. Len(commits) : commits'[c] = commits[c]
        /\ commits'[Len(commits) + 1] = new
    BY <2>1, <2>2, AppendProperties, Elements DEF TypeOK
  <2>5. ASSUME NEW c \in DOMAIN commits'
        PROVE  commits'[c].parent < c /\ (c # 1 => commits'[c].parent # 0)
    <3>1. Len(commits) \in Nat /\ DOMAIN commits = 1 .. Len(commits)
          /\ DOMAIN commits' = 1 .. Len(commits) + 1
      BY <2>4, Elements
    <3>2. CASE c = Len(commits) + 1
      BY <2>3, <2>4, <3>1, <3>2
    <3>3. CASE c \in DOMAIN commits
      BY <2>4, <3>1, <3>3 DEF TypeOK
    <3> QED
      BY <3>1, <3>2, <3>3
  <2>6. UNCHANGED <<pc, turn, work>>
    BY <1>3 DEF Checkpoint
  <2> QED
    BY <2>2, <2>4, <2>5, <2>6, Elements DEF TypeOK, Commits, Files
<1>4. ASSUME NEW c \in DOMAIN commits, Reset(c) PROVE TypeOK'
  BY <1>4, Elements DEF Reset, TypeOK
<1>5. ASSUME NEW c \in DOMAIN commits, CreateBranch(c) PROVE TypeOK'
  BY <1>5, Elements DEF CreateBranch, TypeOK
<1>6. ASSUME Clean PROVE TypeOK'
  BY <1>6, Elements DEF Clean, TypeOK
<1>7. ASSUME UNCHANGED vars PROVE TypeOK'
  BY <1>7 DEF vars, TypeOK, Commits, Files
<1> QED
  BY <1>1, <1>2, <1>3, <1>4, <1>5, <1>6, <1>7 DEF Next

\* Every variable keeps its type (git_store.py, as a whole).
THEOREM TypeCorrect == Spec => []TypeOK
<1> QED
  BY TypeInit, TypeStep, PTL DEF Spec

LEMMA RestoreStep == TypeOK /\ RestoreInv /\ [Next]_vars => RestoreInv'
<1> SUFFICES ASSUME TypeOK, RestoreInv, [Next]_vars, pc' = "clean"
             PROVE  \A p \in Paths : Tracked(p)' => ~Differs(p)'
  BY DEF RestoreInv
<1> USE DEF TypeOK, RestoreInv, Tracked, Differs, Exists, Tree
<1>1. CASE \E c \in DOMAIN commits : Reset(c)
  BY <1>1 DEF Reset
<1>2. CASE UNCHANGED vars
  BY <1>2 DEF vars
<1> QED
  BY <1>1, <1>2 DEF Next, Write, NextTurn, Checkpoint, CreateBranch, Clean

LEMMA Invariants == Spec => [](TypeOK /\ RestoreInv)
<1>1. Init => RestoreInv
  BY DEF Init, RestoreInv
<1> QED
  BY <1>1, TypeInit, TypeStep, RestoreStep, PTL DEF Spec

-----------------------------------------------------------------------------

LEMMA CleanStep ==
  ASSUME TypeOK, RestoreInv, Clean, Tracked(IgnoreFile) \/ ~Exists(work[IgnoreFile])
  PROVE  Status' = {}
<1> USE DEF TypeOK, Clean
<1>1. Tree(head)' = Tree(head) /\ \A p \in Paths : Tracked(p)' = Tracked(p)
  BY DEF Tracked, Tree
<1>2. work'[IgnoreFile].text = work[IgnoreFile].text
  <2>1. CASE Tracked(IgnoreFile)
    BY <2>1, GitAssumption
  <2>2. CASE ~Tracked(IgnoreFile) /\ ~Exists(work[IgnoreFile])
    BY <2>2, GitAssumption DEF Tracked, Exists
  <2> QED
    BY <2>1, <2>2
<1>3. \A p \in Paths : Ignored(p)' = Ignored(p)
  BY <1>2 DEF Ignored
<1>4. ASSUME NEW p \in Paths, Tracked(p)' \/ ~Ignored(p)' PROVE ~Differs(p)'
  <2>1. CASE Tracked(p)
    BY <1>1, <2>1 DEF RestoreInv, Differs, Tree
  <2>2. CASE ~Tracked(p) /\ ~Ignored(p)
    BY <1>1, <2>2 DEF Differs, Tree
  <2> QED
    BY <1>1, <1>3, <1>4, <2>1, <2>2
<1> QED
  BY <1>4 DEF Status

\* A restore ends with the commit it was asked for and nothing beside it but
\* ignored files, if it met a tracked ignore file or none (git_store.py:58-63).
THEOREM RestoreBringsTheCommitBack == Spec => RestoreBringsBack
<1>1. ASSUME TypeOK, RestoreInv, [Next]_vars
      PROVE  [pc = "clean" /\ (Tracked(IgnoreFile) \/ ~Exists(work[IgnoreFile]))
              => Status' = {}]_vars
  <2> SUFFICES ASSUME Next, pc = "clean", Tracked(IgnoreFile) \/ ~Exists(work[IgnoreFile])
               PROVE  Status' = {}
    BY <1>1
  <2>1. Clean
    BY DEF Next, Write, NextTurn, Checkpoint, Reset, CreateBranch
  <2> QED
    BY <1>1, <2>1, CleanStep
<1> QED
  BY <1>1, Invariants, PTL DEF Spec, RestoreBringsBack

LEMMA AppendCommit ==
  ASSUME TypeOK, Checkpoint
  PROVE  /\ Len(commits') = Len(commits) + 1
         /\ DOMAIN commits' = 1 .. Len(commits) + 1
         /\ \A c \in 1 .. Len(commits) : commits'[c] = commits[c]
         /\ head' = Len(commits) + 1
         /\ Tree(head)' = [p \in Paths |-> IF p \in Status THEN work[p] ELSE Tree(head)[p]]
         /\ commits'[head'].parent = head
<1> DEFINE new == [parent |-> head,
                   tree |-> [p \in Paths |-> IF p \in Status THEN work[p] ELSE Tree(head)[p]]]
<1>1. new \in Commits
  BY NewTree, Elements DEF Commits, TypeOK
<1>2. commits' = Append(commits, new) /\ head' = Len(commits) + 1
  BY DEF Checkpoint
<1>3. new.parent = head
      /\ new.tree = [p \in Paths |-> IF p \in Status THEN work[p] ELSE Tree(head)[p]]
  OBVIOUS
<1> HIDE DEF new
<1>4. commits' \in Seq(Commits) /\ Len(commits') = Len(commits) + 1
      /\ (\A c \in 1 .. Len(commits) : commits'[c] = commits[c])
      /\ commits'[Len(commits) + 1] = new
  BY <1>1, <1>2, AppendProperties DEF Commits, TypeOK
<1> QED
  BY <1>2, <1>3, <1>4 DEF Tree

\* A checkpoint leaves nothing to be seen in the workspace but the commit it
\* made (git_store.py:46-56).
THEOREM CheckpointsCommitAll == Spec => CheckpointCommitsAll
<1>1. ASSUME TypeOK, [Next]_vars
      PROVE  [Len(commits') > Len(commits) => Status' = {}]_vars
  <2> SUFFICES ASSUME Next, Len(commits') > Len(commits) PROVE Status' = {}
    BY <1>1
  <2>1. Checkpoint
    BY <1>1 DEF Next, Write, NextTurn, Reset, CreateBranch, Clean, TypeOK
  <2>2. work' = work /\ \A p \in Paths : Ignored(p)' = Ignored(p)
    BY <2>1 DEF Checkpoint, Ignored
  <2>3. ASSUME NEW p \in Paths, Differs(p)' PROVE ~Tracked(p)' /\ Ignored(p)'
    BY <1>1, <2>1, <2>2, <2>3, AppendCommit DEF Status, Differs, Tracked, Exists
  <2> QED
    BY <2>3 DEF Status
<1> QED
  BY <1>1, TypeCorrect, PTL DEF Spec, CheckpointCommitsAll

-----------------------------------------------------------------------------
(* The refinement. *)

AbstractCommits == [c \in DOMAIN commits |-> Abstract(c)]

AbstractEdits == Writers(work, Tree(head))

LEMMA PlainIsSeen == ASSUME TypeOK, NEW p \in Plain PROVE ~Ignored(p)
BY GitAssumption DEF TypeOK, Files, Plain, Ignored

\* The abstract commits do not change while no commit is made.
LEMMA SameCommits == ASSUME UNCHANGED commits PROVE UNCHANGED AbstractCommits
BY DEF AbstractCommits, Abstract, Tree

LEMMA AbstractCheckpoint ==
  ASSUME TypeOK, Checkpoint
  PROVE  /\ AbstractCommits' = Append(AbstractCommits, [parent |-> head, edits |-> AbstractEdits])
         /\ Len(AbstractCommits) = Len(commits)
         /\ AbstractEdits' = {}
<1>0. PICK n \in Nat : n = Len(commits)
  BY Elements
<1> DEFINE tree == [p \in Paths |-> IF p \in Status THEN work[p] ELSE Tree(head)[p]]
<1>1. DOMAIN commits = 1 .. n /\ head \in 1 .. n
  BY <1>0, Elements DEF TypeOK
<1>2. /\ DOMAIN commits' = 1 .. n + 1
      /\ \A c \in 1 .. n : commits'[c] = commits[c]
      /\ head' = n + 1 /\ Tree(head)' = tree /\ commits'[n + 1].parent = head
  BY <1>0, AppendCommit
<1>3. \A q \in Plain : tree[q].text # Tree(head)[q].text <=> Differs(q)
  BY PlainIsSeen DEF Status, Differs, Plain
<1>4. \A q \in Plain : Differs(q) => tree[q] = work[q]
  BY PlainIsSeen DEF Status, Plain
<1> HIDE DEF tree
<1>5. Writers(tree, Tree(head)) = AbstractEdits
  BY <1>3, <1>4 DEF Writers, AbstractEdits, Differs
<1>6. \A c \in 1 .. n : Abstract(c)' = Abstract(c)
  <2> SUFFICES ASSUME NEW c \in 1 .. n PROVE Abstract(c)' = Abstract(c)
    OBVIOUS
  <2>1. commits'[c] = commits[c]
    BY <1>2
  <2>2. CASE commits[c].parent = 0
    BY <2>1, <2>2 DEF Abstract
  <2>3. CASE commits[c].parent # 0
    <3>1. commits[c].parent \in 1 .. n
      BY <1>1, <2>3, Elements DEF TypeOK
    <3>2. commits'[commits[c].parent] = commits[commits[c].parent]
      BY <1>2, <3>1
    <3> QED
      BY <2>1, <2>3, <3>2 DEF Abstract, Tree
  <2> QED
    BY <2>2, <2>3
<1>7. Abstract(n + 1)' = [parent |-> head, edits |-> AbstractEdits]
  <2>1. commits'[head].tree = Tree(head)
    BY <1>1, <1>2 DEF Tree
  <2>2. commits'[n + 1].tree = tree
    BY <1>2 DEF Tree
  <2> QED
    BY <1>1, <1>2, <1>5, <2>1, <2>2 DEF Abstract, Tree
<1>8. AbstractCommits \in Seq({Abstract(c) : c \in 1 .. n}) /\ Len(AbstractCommits) = n
  BY <1>1 DEF AbstractCommits
<1>9. AbstractCommits' = [c \in 1 .. n + 1 |-> Abstract(c)']
  BY <1>2 DEF AbstractCommits
<1>10. \A c \in 1 .. n : AbstractCommits[c] = Abstract(c)
  BY <1>1 DEF AbstractCommits
<1>11. AbstractCommits' = Append(AbstractCommits, [parent |-> head, edits |-> AbstractEdits])
  BY <1>1, <1>6, <1>7, <1>8, <1>9, <1>10
<1>12. AbstractEdits' = {}
  <2>1. work' = work
    BY DEF Checkpoint
  <2>2. \A q \in Plain : work[q].text = tree[q].text
    BY <1>3, <1>4 DEF Differs
  <2> QED
    BY <1>2, <2>1, <2>2 DEF AbstractEdits, Writers
<1> QED
  BY <1>0, <1>8, <1>11, <1>12

LEMMA AbstractInit == Init => W!Init
<1> SUFFICES ASSUME Init PROVE W!Init
  OBVIOUS
<1>1. PICK tree \in [Paths -> [by : {0}, text : Texts]] :
        commits = <<[parent |-> 0, tree |-> tree]>> /\ work = tree
  BY DEF Init
<1>2. AbstractEdits = {}
  BY <1>1 DEF AbstractEdits, Writers, Tree, Init
<1>3. DOMAIN commits = 1 .. 1 /\ commits[1].parent = 0
  BY <1>1
<1>4. AbstractCommits = <<[parent |-> 0, edits |-> {}]>>
  <2> DEFINE first == [parent |-> 0, edits |-> {}]
  <2>1. Abstract(1) = first
    BY <1>3 DEF Abstract
  <2>2. AbstractCommits = [c \in 1 .. 1 |-> first]
    BY <1>3, <2>1 DEF AbstractCommits
  <2> HIDE DEF first
  <2>3. [c \in 1 .. 1 |-> first] = <<first>>
    OBVIOUS
  <2> QED
    BY <2>2, <2>3 DEF first
<1> QED
  BY <1>2, <1>4 DEF W!Init, Init, AbstractCommits, AbstractEdits

\* Edits over which another commit was checked out are edits still.
LEMMA AbstractSwitch ==
  ASSUME TypeOK, NEW c \in DOMAIN commits, Reset(c) \/ CreateBranch(c)
  PROVE  AbstractEdits' \subseteq AbstractEdits
<1>1. head' = c /\ Tree(c)' = Tree(c)
  BY DEF Reset, CreateBranch, Tree
<1>2. \A q \in Plain : work'[q].text # Tree(c)[q].text
                       => Differs(q) /\ work'[q] = work[q]
  BY DEF Reset, CreateBranch, Differs, Tracked, Exists, Plain
<1> QED
  BY <1>1, <1>2 DEF AbstractEdits, Writers, Differs, Tree

LEMMA AbstractStep == TypeOK /\ RestoreInv /\ [Next]_vars => [W!Next]_(W!vars)
<1> SUFFICES ASSUME TypeOK, RestoreInv, [Next]_vars PROVE [W!Next]_(W!vars)
  OBVIOUS
<1> DEFINE E == AbstractEdits
           C == AbstractCommits
<1>0. DOMAIN C = DOMAIN commits
  BY DEF AbstractCommits
<1>1. ASSUME NEW p \in Paths, NEW text \in Texts, Write(p, text) PROVE W!Edit
  <2>1. E' \subseteq E \union {turn}
    <3>1. \A q \in Paths : work'[q] = work[q] \/ work'[q].by = turn
      BY <1>1 DEF Write, TypeOK
    <3>2. Tree(head)' = Tree(head)
      BY <1>1 DEF Write, Tree
    <3> QED
      BY <3>1, <3>2 DEF AbstractEdits, Writers, Plain
  <2>2. UNCHANGED C
    BY <1>1, SameCommits DEF Write
  <2> QED
    BY <1>1, <2>1, <2>2 DEF W!Edit, Write, AbstractEdits, AbstractCommits
<1>2. ASSUME NextTurn PROVE W!NextTurn
  <2>1. UNCHANGED <<C, E>>
    BY <1>2, SameCommits DEF NextTurn, AbstractEdits, Writers, Tree
  <2> QED
    BY <1>2, <2>1 DEF W!NextTurn, NextTurn, AbstractEdits, AbstractCommits
<1>3. ASSUME Checkpoint PROVE W!CommitAll
  BY <1>3, AbstractCheckpoint DEF W!CommitAll, Checkpoint, AbstractEdits, AbstractCommits
<1>4. ASSUME NEW c \in DOMAIN commits, Reset(c) \/ CreateBranch(c) PROVE W!Switch(c)
  <2>1. E' \subseteq E /\ UNCHANGED C
    BY <1>4, AbstractSwitch, SameCommits DEF Reset, CreateBranch
  <2>2. UNCHANGED turn /\ head' = c /\ pc = "idle"
    BY <1>4 DEF Reset, CreateBranch
  <2> QED
    BY <2>1, <2>2 DEF W!Switch, AbstractEdits, AbstractCommits
<1>5. ASSUME Clean PROVE W!Discard
  <2>1. \A q \in Plain : work'[q].text = Tree(head)[q].text
    <3> SUFFICES ASSUME NEW q \in Plain PROVE work'[q].text = Tree(head)[q].text
      OBVIOUS
    <3>1. q \in Paths /\ ~Ignored(q)
      BY PlainIsSeen DEF Plain
    <3>2. Tracked(q) => work[q].text = Tree(head)[q].text
      BY <1>5, <3>1 DEF Clean, RestoreInv, Differs
    <3> QED
      BY <1>5, <3>1, <3>2 DEF Clean
  <2>2. Tree(head)' = Tree(head) /\ UNCHANGED C
    BY <1>5, SameCommits DEF Clean, Tree
  <2>3. E' = {}
    BY <2>1, <2>2 DEF AbstractEdits, Writers
  <2> QED
    BY <1>5, <2>2, <2>3 DEF W!Discard, Clean, AbstractEdits, AbstractCommits
<1>6. ASSUME UNCHANGED vars PROVE UNCHANGED W!vars
  <2>1. UNCHANGED <<C, E>>
    BY <1>6, SameCommits DEF vars, AbstractEdits, Writers, Tree
  <2> QED
    BY <1>6, <2>1 DEF W!vars, vars, AbstractEdits, AbstractCommits
<1> QED
  BY <1>0, <1>1, <1>2, <1>3, <1>4, <1>5, <1>6 DEF Next, W!Next, AbstractCommits

\* The store implements a Workspace of the files no ignore file can hide: a
\* commit adds what was written since its parent was checked out, and what a
\* restore discards is in no later commit (git_store.py:46-75).
THEOREM StoreImplementsWorkspace == Spec => ImplementsWorkspace
<1> QED
  BY Invariants, AbstractInit, AbstractStep, PTL DEF Spec, ImplementsWorkspace, W!Spec

=============================================================================
