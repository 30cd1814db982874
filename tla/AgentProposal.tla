---------------------------- MODULE AgentProposal ---------------------------
(***************************************************************************)
(* agents/protocol.py and the ADK agent's way from a model's answer to a   *)
(* proposal.  Texts that nothing reads are left out; of a text that is     *)
(* required, only whether it is there.                                     *)
(***************************************************************************)
EXTENDS Naturals, Sequences

\* FileEdit._validate_payload
IsFileEdit(e) ==
  \/ e.operation \in {"create", "replace"} /\ e.content /\ ~e.unified_diff
  \/ e.operation = "patch" /\ e.unified_diff
  \/ e.operation = "delete" /\ ~e.content /\ ~e.unified_diff

\* CommandRequest, or ProposedCommand, which has no purpose.
IsCommandRequest(c) == c.program # "" /\ c.timeout_seconds > 0

ProposalFields == {"edits", "commands", "completion_claimed", "write_files", "diff"}

\* AgentProposal
IsProposal(p) ==
  /\ DOMAIN p = ProposalFields
  /\ p.commands \in Seq({p.commands[i] : i \in DOMAIN p.commands})
  /\ \A i \in DOMAIN p.edits : IsFileEdit(p.edits[i]) /\ p.edits[i].path # <<>>
  /\ \A i \in DOMAIN p.commands : IsCommandRequest(p.commands[i])
  /\ \A i \in DOMAIN p.write_files : p.write_files[i] # <<>>

\* _normalized_proposal, and the end of propose_action: a proposal that names
\* no files to write writes those of its edits.
NormalizedProposal(p) ==
  IF p.write_files # <<>> THEN p
  ELSE [p EXCEPT !.write_files = [i \in DOMAIN p.edits |-> p.edits[i].path]]

\* _coerce_proposal: whether a structured answer is a proposal.  Unlike the
\* schema it has no default for a field that the model omits.
Coerces(answer) == answer.omitted = {} /\ IsProposal(answer.proposal)

\* propose_action drops a claim: a model does not claim completion.
WithoutClaim(p) == [p EXCEPT !.completion_claimed = FALSE]

=============================================================================
