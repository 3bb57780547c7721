-------------------------- MODULE MCLinuxMutation --------------------------
(* LinuxMutation for TLC: every operation, each under the bounds of a .cfg. *)
EXTENDS LinuxMutation

AllOperations == {"create", "replace", "delete", "move", "mkdir"}
=============================================================================
