-------------------------- MODULE MCEvidenceStore --------------------------
(* A run with a few events and artifacts of one content, stored repeatedly. *)
EXTENDS EvidenceStore

CONSTANT d1

MCData == {d1}

=============================================================================
