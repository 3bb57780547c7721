------------------------ MODULE MCWorkspaceProposal ------------------------
(* WorkspaceProposal for TLC: two rejections may be in progress at a time. *)
EXTENDS WorkspaceProposal

CONSTANTS r1, r2

TwoRejects == {r1, r2}
=============================================================================
