------------------------ MODULE MCConversationState ------------------------
(* ConversationState for TLC: one conversation is there, one may be created. *)
EXTENDS ConversationState

CONSTANTS old, new, c1, c2, c3

TwoIds == {old, new}
OldOnly == {old}
ThreeCalls == {c1, c2, c3}
=============================================================================
