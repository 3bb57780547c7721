--------------------------- MODULE AtomicMutation ---------------------------
(***************************************************************************)
(* What a workspace mutation promises to the conversation that confirmed   *)
(* it, whatever platform carries it out: the file operation is applied as  *)
(* a whole or not at all, the recorded verdict tells which, and once a     *)
(* verdict is recorded the broker never touches the files again.  Another  *)
(* program may write in the same directory at any time; a mutation may be  *)
(* declared undone while it is applied only after such a disturbance.      *)
(***************************************************************************)

VARIABLES
  applied,    \* the broker installed the result and did not withdraw it
  verdict,    \* what the conversation was told
  disturbed   \* somebody else has changed the files of the operation

vars == <<applied, verdict, disturbed>>

Verdicts == {"none", "committed", "rolledBack"}

TypeOK ==
  /\ applied \in BOOLEAN
  /\ verdict \in Verdicts
  /\ disturbed \in BOOLEAN

Init ==
  /\ applied = FALSE
  /\ verdict = "none"
  /\ disturbed = FALSE

Undecided == verdict = "none"

Apply ==
  /\ Undecided /\ ~applied
  /\ applied' = TRUE
  /\ UNCHANGED <<verdict, disturbed>>

Revert ==
  /\ Undecided /\ applied
  /\ applied' = FALSE
  /\ UNCHANGED <<verdict, disturbed>>

Commit ==
  /\ Undecided /\ applied
  /\ verdict' = "committed"
  /\ UNCHANGED <<applied, disturbed>>

Abort ==
  /\ Undecided
  /\ ~applied \/ disturbed
  /\ verdict' = "rolledBack"
  /\ UNCHANGED <<applied, disturbed>>

Disturb ==
  /\ disturbed' = TRUE
  /\ UNCHANGED <<applied, verdict>>

Next == Apply \/ Revert \/ Commit \/ Abort \/ Disturb

Spec == Init /\ [][Next]_vars
=============================================================================
