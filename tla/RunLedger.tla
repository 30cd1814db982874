----------------------------- MODULE RunLedger ------------------------------
(***************************************************************************)
(* What a run promises, whatever happens inside it.  A run trusts one      *)
(* commit at a time, starting with the one it was given; it delivers a     *)
(* commit only if an evaluation accepted it; and once it has a terminal    *)
(* status nothing it promised changes any more.                            *)
(***************************************************************************)
EXTENDS Naturals

VARIABLES
  status,     \* the status a user of the database sees
  verdicts,   \* the commits an evaluation has accepted
  trusted,    \* the commit the next proposal starts from
  delivered   \* the commit the run delivers, 0 until it does

vars == <<status, verdicts, trusted, delivered>>

Init ==
  /\ status = "none"
  /\ verdicts = {}
  /\ trusted = 1
  /\ delivered = 0

Begin ==
  /\ \/ status = "none" /\ status' = "CREATED"
     \/ status = "CREATED" /\ status' = "ACTIVE"
  /\ UNCHANGED <<verdicts, trusted, delivered>>

Judge ==
  /\ status = "ACTIVE"
  /\ \E c \in verdicts' : verdicts' = verdicts \union {c}
  /\ UNCHANGED <<status, trusted, delivered>>

Trust ==
  /\ status = "ACTIVE"
  /\ trusted' \in verdicts
  /\ UNCHANGED <<status, verdicts, delivered>>

Deliver ==
  /\ status = "ACTIVE"
  /\ status' = "COMPLETED"
  /\ delivered' \in verdicts
  /\ UNCHANGED <<verdicts, trusted>>

GiveUp ==
  /\ status = "ACTIVE"
  /\ status' = "CANCELLED"
  /\ UNCHANGED <<verdicts, trusted, delivered>>

Next == Begin \/ Judge \/ Trust \/ Deliver \/ GiveUp

Spec == Init /\ [][Next]_vars

=============================================================================
