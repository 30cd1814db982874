----------------------------- MODULE Workspace -----------------------------
(***************************************************************************)
(* What the store of repository states promises a run: a commit holds what *)
(* was written since its parent was checked out, and putting a commit back *)
(* discards everything else.  Files are not seen, only which turns wrote   *)
(* what; Controller uses its git workspace in this way (IsClean, CommitAll *)
(* and Restore), and GitWorkspace implements it for the files no ignore    *)
(* file hides.                                                             *)
(***************************************************************************)
EXTENDS Naturals, Sequences

VARIABLES
  restoring, \* a commit is being put back
  turn,      \* the turn of the run
  commits,   \* each with its parent and the turns whose edits it adds to it
  head,      \* the commit checked out
  edits      \* the turns whose edits are not committed

vars == <<restoring, turn, commits, head, edits>>

Init ==
  /\ restoring = FALSE
  /\ turn = 0
  /\ commits = <<[parent |-> 0, edits |-> {}]>>
  /\ head = 1
  /\ edits = {}

NextTurn ==
  /\ ~restoring
  /\ turn' = turn + 1
  /\ UNCHANGED <<restoring, commits, head, edits>>

\* The turn writes, possibly over or back what is there.
Edit ==
  /\ ~restoring
  /\ edits' \in SUBSET (edits \union {turn})
  /\ UNCHANGED <<restoring, turn, commits, head>>

CommitAll ==
  /\ ~restoring
  /\ commits' = Append(commits, [parent |-> head, edits |-> edits])
  /\ head' = Len(commits) + 1
  /\ edits' = {}
  /\ UNCHANGED <<restoring, turn>>

\* Another commit is checked out, over some or none of the edits, ...
Switch(c) ==
  /\ ~restoring
  /\ head' = c
  /\ edits' \in SUBSET edits
  /\ restoring' \in BOOLEAN
  /\ UNCHANGED <<turn, commits>>

\* ... of which nothing is left when a restore ends.
Discard ==
  /\ restoring
  /\ edits' = {}
  /\ restoring' = FALSE
  /\ UNCHANGED <<turn, commits, head>>

Next ==
  \/ NextTurn \/ Edit \/ CommitAll \/ Discard
  \/ \E c \in DOMAIN commits : Switch(c)

Spec == Init /\ [][Next]_vars

=============================================================================
