--------------------------- MODULE MutationClient ---------------------------
(***************************************************************************)
(* The Dart side of one confirmed workspace mutation: the coordinator's    *)
(* commit protocol (workspace_mutation_coordinator.dart), the recovery     *)
(* journal record it keeps, and startup recovery, which finishes the       *)
(* operation after the process was restarted.  The client drives a native  *)
(* broker by setting `call`; the broker answers in `reply`.                *)
(*                                                                         *)
(* The module knows nothing of the broker: every platform's broker is      *)
(* composed with this client.                                              *)
(***************************************************************************)

EXTENDS MethodChannel

VARIABLES
  step,     \* where the client stands in the protocol
  journal,  \* the state of the operation's record in the recovery journal
  startup,  \* the process was restarted since the operation began
  verdict   \* the outcome durably recorded for the conversation

client == <<step, journal, startup, verdict>>

Steps == {"start", "preparing", "put", "discarding", "sweeping",
          "committing", "checking", "reconciling", "undoing", "confirming",
          "cleaning", "removing", "waiting", "done", "failed", "lost",
          "peeking", "peekUndoing", "peekConfirming"}

ClientTypeOK ==
  /\ step \in Steps
  /\ journal \in {"none", "prepared", "terminal"}
  /\ startup \in BOOLEAN
  /\ verdict \in {"none", "committed", "rolledBack"}

ClientInit ==
  /\ step = "start"
  /\ journal = "none"
  /\ startup = FALSE
  /\ verdict = "none"

-----------------------------------------------------------------------------
(* The commit protocol.                                                    *)

\* A prepared receipt is obtained for a fresh operation id.
AskPrepare ==
  /\ step = "start"
  /\ Ask("prepare")
  /\ step' = "preparing"
  /\ UNCHANGED <<journal, startup, verdict>>

OnPrepare ==
  /\ step = "preparing" /\ Answered
  /\ step' = IF reply = "ok" THEN "put" ELSE "failed"
  /\ Rest
  /\ UNCHANGED <<journal, startup, verdict>>

\* The receipt is written to the journal before the broker may commit it.
PutPrepared ==
  /\ step = "put"
  /\ journal' = "prepared"
  /\ Ask("commit")
  /\ step' = "committing"
  /\ UNCHANGED <<startup, verdict>>

\* The write of the journal fails: the receipt is discarded.
PutRefused ==
  /\ step = "put"
  /\ Ask("rollback")
  /\ step' = "discarding"
  /\ UNCHANGED <<journal, startup, verdict>>

OnDiscard ==
  /\ step = "discarding" /\ Answered
  /\ \/ reply = "ok" /\ Ask("cleanup") /\ step' = "sweeping"
     \/ reply # "ok" /\ Rest /\ step' = "failed"
  /\ UNCHANGED <<journal, startup, verdict>>

OnSweep ==
  /\ step = "sweeping" /\ Answered
  /\ Rest
  /\ step' = "failed"
  /\ UNCHANGED <<journal, startup, verdict>>

-----------------------------------------------------------------------------
(* Deciding the outcome.  During the session the terminal result replaces  *)
(* the prepared record in the journal; at startup it is stored in the      *)
(* conversation, if that still waits for it, and the record stays prepared. *)

Record(outcome) ==
  /\ verdict' = IF verdict = "none" THEN outcome ELSE verdict
  /\ journal' = IF startup THEN journal ELSE "terminal"
  /\ Ask("cleanup")
  /\ step' = "cleaning"
  /\ UNCHANGED startup

\* Whatever commit answered, only a reconciliation is believed, and one that
\* does not confirm a successful commit is repeated.
OnCommit ==
  /\ step = "committing" /\ Answered
  /\ Ask("reconcile")
  /\ step' = IF reply = "ok" THEN "checking" ELSE "reconciling"
  /\ UNCHANGED <<journal, startup, verdict>>

\* No proof either way: the record stays, and blocks the session's workspace.
Retain ==
  /\ Rest
  /\ step' = "waiting"
  /\ UNCHANGED <<journal, startup, verdict>>

OnCheck ==
  /\ step = "checking" /\ Answered
  /\ \/ reply = "committed" /\ Record("committed")
     \/ /\ reply \in {"notCommitted", "rolledBack", "indeterminate"}
        /\ Ask("reconcile") /\ step' = "reconciling"
        /\ UNCHANGED <<journal, startup, verdict>>
     \/ reply = "error" /\ Retain

OnReconcile ==
  /\ step = "reconciling" /\ Answered
  /\ \/ reply = "committed" /\ Record("committed")
     \/ /\ reply = "notCommitted"
        /\ Ask("rollback") /\ step' = "undoing"
        /\ UNCHANGED <<journal, startup, verdict>>
     \/ /\ reply = "rolledBack"
        /\ IF startup THEN Record("rolledBack") ELSE Retain
     \/ reply \in {"indeterminate", "error"} /\ Retain

OnUndo ==
  /\ step = "undoing" /\ Answered
  /\ \/ /\ reply = "ok"
        /\ Ask("reconcile") /\ step' = "confirming"
        /\ UNCHANGED <<journal, startup, verdict>>
     \/ reply = "error" /\ Retain

\* After a rollback the startup pass also accepts a late proof of the commit.
OnConfirm ==
  /\ step = "confirming" /\ Answered
  /\ \/ reply \in {"rolledBack", "notCommitted"} /\ Record("rolledBack")
     \/ /\ reply \in {"committed", "indeterminate", "error"}
        /\ IF startup /\ reply = "committed" THEN Record("committed") ELSE Retain

-----------------------------------------------------------------------------
(* Acknowledging it: native cleanup first, then the journal record.        *)

OnCleanup ==
  /\ step = "cleaning" /\ Answered
  /\ \/ /\ reply = "ok"
        /\ Rest /\ step' = "removing"
        /\ UNCHANGED <<journal, startup, verdict>>
     \/ reply = "error" /\ Retain

\* Mutant of RemoveRecord: the acknowledged record is quarantined instead.
QuarantineRecord ==
  /\ step = "removing"
  /\ journal' = "quarantined"
  /\ step' = "done"
  /\ UNCHANGED <<call, reply, startup, verdict>>

RemoveRecord ==
  /\ step = "removing"
  /\ journal' = "none"
  /\ step' = "done"
  /\ UNCHANGED <<call, reply, startup, verdict>>

-----------------------------------------------------------------------------
(* Any other use of the session's workspace first looks at the prepared     *)
(* record: it reconciles and rolls back, but decides nothing and stays      *)
(* blocked, because only the conversation may acknowledge an outcome.      *)

Peek ==
  /\ step = "waiting" /\ journal = "prepared"
  /\ Ask("reconcile")
  /\ step' = "peeking"
  /\ UNCHANGED <<journal, startup, verdict>>

OnPeek ==
  /\ step = "peeking" /\ Answered
  /\ \/ /\ reply = "notCommitted"
        /\ Ask("rollback") /\ step' = "peekUndoing"
        /\ UNCHANGED <<journal, startup, verdict>>
     \/ reply # "notCommitted" /\ Retain

OnPeekUndo ==
  /\ step = "peekUndoing" /\ Answered
  /\ \/ /\ reply = "ok"
        /\ Ask("reconcile") /\ step' = "peekConfirming"
        /\ UNCHANGED <<journal, startup, verdict>>
     \/ reply = "error" /\ Retain

OnPeekConfirm ==
  /\ step = "peekConfirming" /\ Answered
  /\ Retain

-----------------------------------------------------------------------------
(* The process ends, by a crash or because the user closed it, and starts  *)
(* again: startup recovery goes by what the journal still holds.           *)

Restarted ==
  /\ startup' = TRUE
  /\ reply' = "none"
  /\ UNCHANGED <<journal, verdict>>
  /\ \/ /\ journal = "none"
        /\ call' = "idle"
        /\ step' = IF step \in {"done", "failed"} THEN step
                   ELSE IF verdict = "none" THEN "lost" ELSE "done"
     \/ journal = "prepared" /\ call' = "reconcile" /\ step' = "reconciling"
     \/ journal = "terminal" /\ call' = "cleanup" /\ step' = "cleaning"

\* A blocked operation is tried again when the user restarts the program.
Reopen ==
  /\ step = "waiting"
  /\ Restarted

ClientProgress ==
  \/ AskPrepare \/ OnPrepare \/ PutPrepared
  \/ OnDiscard \/ OnSweep \/ OnCommit \/ OnCheck
  \/ OnReconcile \/ OnUndo \/ OnConfirm
  \/ OnCleanup \/ RemoveRecord
  \/ OnPeek \/ OnPeekUndo \/ OnPeekConfirm
=============================================================================
