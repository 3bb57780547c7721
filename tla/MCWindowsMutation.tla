------------------------- MODULE MCWindowsMutation -------------------------
(* WindowsMutation for TLC: every operation, under the bounds of a .cfg.   *)
EXTENDS WindowsMutation

AllOperations == {"create", "replace", "delete", "move", "mkdir"}
=============================================================================
