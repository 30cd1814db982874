--------------------------- MODULE MCGitWorkspace ---------------------------
(* An ignore file with two texts, one of which hides a file; a file nothing *)
(* hides.                                                                    *)
EXTENDS GitWorkspace

PatternsOf == [t \in Texts |-> IF t = "hides" THEN {"hideable"} ELSE {}]

=============================================================================
