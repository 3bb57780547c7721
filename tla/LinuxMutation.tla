--------------------------- MODULE LinuxMutation ---------------------------
(***************************************************************************)
(* One confirmed workspace mutation on Linux, end to end: the Dart client  *)
(* with its journal, the native broker, another program that writes in     *)
(* the same session directory, and crashes of the process at any point.    *)
(***************************************************************************)
EXTENDS Naturals, FiniteSets, LinuxBroker, MutationClient

CONSTANTS
  MaxEdits,     \* changes another program makes to the operation's names
  MaxCrashes,   \* times the process dies in the middle of something
  MaxFaults     \* system calls or journal writes that fail

ASSUME BoundsAssumption ==
  MaxEdits \in Nat /\ MaxCrashes \in Nat /\ MaxFaults \in Nat

VARIABLES
  aside,     \* an entry another program moved away, and may move back
  edits, crashes, faults

budget == <<edits, crashes, faults>>
vars == <<call, reply, broker, client, aside, budget>>

TypeOK ==
  /\ BrokerTypeOK
  /\ ClientTypeOK
  /\ aside \in Nodes
  /\ edits \in 0 .. MaxEdits
  /\ crashes \in 0 .. MaxCrashes
  /\ faults \in 0 .. MaxFaults

Init ==
  /\ ChannelInit
  /\ BrokerInit
  /\ ClientInit
  /\ aside = "none"
  /\ edits = 0 /\ crashes = 0 /\ faults = 0

-----------------------------------------------------------------------------
(* Another program: it creates, overwrites, deletes, edits in place, or    *)
(* moves away and back what is at the operation's names.  It cannot reach   *)
(* the hidden directory through the tools, and leaves it alone.            *)

Outsider ==
  /\ edits < MaxEdits
  /\ edits' = edits + 1
  /\ UNCHANGED <<call, reply, op, stage, backup, phase, applied, client,
                 crashes, faults>>
  /\ \/ /\ aside' = aside
        /\ \E p \in Named :
             \/ tree[p] # "foreign" /\ Put(p, "foreign")
             \/ tree[p] = "none" /\ Put(p, "foreignDir")
             \/ tree[p] # "none" /\ Put(p, "none")
             \/ tree[p] # Edited(tree[p]) /\ Put(p, Edited(tree[p]))
     \/ /\ Here # "none" /\ aside = "none"
        /\ aside' = Here
        /\ Put("path", "none")
     \/ /\ Here = "none" /\ aside # "none"
        /\ aside' = "none"
        /\ Put("path", aside)

-----------------------------------------------------------------------------

\* The process dies: the handler in progress and every await are lost.
Crash ==
  /\ crashes < MaxCrashes
  /\ crashes' = crashes + 1
  /\ Restarted
  /\ UNCHANGED <<broker, aside, edits, faults>>

NativeFault ==
  /\ faults < MaxFaults
  /\ faults' = faults + 1
  /\ Fault
  /\ UNCHANGED <<client, aside, edits, crashes>>

JournalFault ==
  /\ faults < MaxFaults
  /\ faults' = faults + 1
  /\ PutRefused
  /\ UNCHANGED <<broker, aside, edits, crashes>>

Client == ClientProgress /\ UNCHANGED <<broker, aside, budget>>
Broker == BrokerStep /\ UNCHANGED <<client, aside, budget>>
Recheck == Peek /\ UNCHANGED <<broker, aside, budget>>
Restart == Reopen /\ UNCHANGED <<broker, aside, budget>>

Next ==
  \/ Client \/ Broker \/ Recheck \/ Restart
  \/ Outsider \/ Crash \/ NativeFault \/ JournalFault

Spec == Init /\ [][Next]_vars

(* The handlers run to their end and the client's awaits resume: both are  *)
(* the event loop's.  A blocked operation is taken up again because the    *)
(* user starts the program again sooner or later.                          *)
FairSpec == Spec /\ WF_vars(Client) /\ WF_vars(Broker) /\ SF_vars(Restart)

-----------------------------------------------------------------------------
(* Safety.                                                                 *)

Quiet == edits = 0

\* With nobody else writing, the answer the conversation keeps is the truth
\* about the tree: all of the operation, or none of it.  (Crashes and failed
\* system calls included; _resolveFailedCommit, startup _reconcile.)
VerdictHonest ==
  Quiet =>
    /\ (verdict = "committed"  => tree = After(op))
    /\ (verdict = "rolledBack" => tree = Before(op))

\* The hidden entries never outlive the state file that names them while the
\* journal still holds the receipt, so that an interrupted cleanup can be repeated
\* (HandleCleanup answers success only for a clean directory), and an acknowledged
\* operation leaves nothing behind at all.
NothingLeftBehind ==
  /\ journal # "none" /\ phase = "none" => stage = "none" /\ ~backup
  /\ step = "done" => phase = "none" /\ stage = "none" /\ ~backup

\* What the journal calls terminal, and what the conversation was told, never
\* contradicts the phase in the native state file.
VerdictMatchesPhase ==
  phase # "none" =>
    /\ (verdict = "committed"  => phase = "committed")
    /\ (verdict = "rolledBack" => phase = "rolledBack")

-----------------------------------------------------------------------------
(* What a step may never do.                                               *)

Present(n) == n \in {Here, There, stage, aside}

\* The file the proposal was made against is not destroyed by the broker
\* before the conversation recorded that the operation is committed.
KeepsOriginal ==
  edits' = edits /\ Present("expected") /\ verdict # "committed"
    => Present("expected")'

OriginalPreserved == [][KeepsOriginal]_vars

Copies(n) ==
  Cardinality({p \in Places : tree[p] = n})
    + (IF stage = n THEN 1 ELSE 0) + (IF aside = n THEN 1 ELSE 0)

OutsiderData == {"foreign", "foreignDir", "expectedEdited"}
OutsiderCopies == [n \in OutsiderData |-> Copies(n)]

\* In a session without a crash or a failing call the broker destroys no file
\* another program wrote, at whatever points of the handlers that program
\* makes up to two changes (RENAME_EXCHANGE, the proof and the swap back; a
\* third change can imitate the installed result after a swap back).
OutsiderDataPreserved ==
  [][edits' = edits /\ edits <= 2 /\ crashes' = 0 /\ faults' = 0
       => \A n \in OutsiderData : OutsiderCopies'[n] >= OutsiderCopies[n]]_vars

\* A decided phase is final: no handler moves a committed operation to rolled
\* back or the reverse, and none of them moves a file any more.
PhaseKept ==
  phase \in {"committed", "rolledBack"}
    => /\ phase' \in {phase, "none"}
       /\ (edits' = edits => tree' = tree)

DecisionFinal == [][PhaseKept]_vars

-----------------------------------------------------------------------------
(* The inductive invariant behind all of this.                             *)

Half == {"targetQuarantining", "stageInstalling"}
Open == Half \cup {"prepared"}
Result == {"staged", "stagedEdited"}
Clean == phase = "none" /\ stage = "none" /\ ~backup

\* Which handler a client's step waits for.
CallFits ==
  /\ call # "idle" => reply = "none"
  /\ step \in {"start", "put", "removing", "waiting", "done", "failed", "lost"}
       => call = "idle" /\ reply = "none"
  /\ step = "preparing" => call \in {"idle", "prepare", "prepareState"}
  /\ step = "committing"
       => call \in {"idle", "commit", "commitRename", "commitProof", "commitUndo",
                    "commitSeal"}
  /\ step \in {"checking", "reconciling", "confirming", "peeking", "peekConfirming"}
       => call \in {"idle", "reconcile"}
  /\ step \in {"discarding", "undoing", "peekUndoing"}
       => call \in {"idle", "rollback", "rollbackSeal"} \cup UndoPoints
  /\ step \in {"sweeping", "cleaning"}
       => call \in {"idle", "cleanup", "cleanupBackup", "cleanupState"}

\* What the journal holds at each step, and when there is a verdict.
JournalFits ==
  /\ step \in {"start", "preparing", "put", "discarding", "sweeping", "failed", "lost"}
       => journal = "none" /\ verdict = "none"
  /\ step \in {"committing", "checking"} => journal = "prepared" /\ verdict = "none"
  /\ step \in {"reconciling", "undoing", "confirming",
               "peeking", "peekUndoing", "peekConfirming"} => journal = "prepared"
  /\ step \in {"cleaning", "removing"} => journal # "none" /\ verdict # "none"
  /\ step = "waiting" => journal # "none"
  /\ step = "done" => journal = "none" /\ verdict # "none"
  /\ journal = "terminal" => verdict # "none"

\* The phase a step of the client or a point of a handler relies on.
PhaseFits ==
  /\ step = "start" => Clean
  /\ step = "preparing" => phase \in {"none", "prepared"}
  /\ call \in {"prepare", "prepareState"} => phase = "none"
  /\ step = "put" \/ (step = "preparing" /\ reply = "ok") => phase = "prepared"
  /\ step = "discarding" => phase \in {"prepared", "rolledBack"}
  /\ step = "sweeping" => phase \in {"none", "rolledBack"}
  /\ call = "commit" => phase = "prepared"
  /\ call \in {"commitRename", "commitProof", "commitUndo", "commitSeal"} => phase \in Half
  /\ call \in UndoPoints => phase \in Half
  /\ call = "rollbackSeal" => phase \in Open
  /\ call \in {"cleanupBackup", "cleanupState"} => phase # "none" /\ stage = "none"
  /\ call = "cleanupState" => ~backup
  /\ step \in {"discarding", "undoing", "peekUndoing"} /\ reply = "ok" => phase = "rolledBack"
  /\ step \in {"confirming", "peekConfirming"} => phase = "rolledBack"
  /\ reply = "committed" => phase = "committed"
  /\ reply = "rolledBack" => phase = "rolledBack"
  /\ step = "removing" \/ step = "done" \/ (step = "cleaning" /\ reply = "ok") => Clean
  /\ journal # "none" /\ phase = "none" => Clean /\ verdict # "none"

\* The expected file and the staged result are each in one place at most.
Placement ==
  /\ op # "move" => There = "none"
  /\ op = "move" => stage = "none"
  /\ op \in {"create", "mkdir"} => ~Present("expected")
  /\ op \in {"delete", "move"} => ~\E n \in Result : Present(n)
  /\ There \notin Result
  /\ Here = "expected" => "expected" \notin {There, stage, aside}
  /\ stage = "expected" => "expected" \notin {There, aside}
  /\ aside = "expected" => There # "expected"
  /\ Here \in Result => stage \notin Result /\ aside \notin Result
  /\ stage \in Result => aside \notin Result

\* Where the result is found, the broker put it.
AppliedFits ==
  /\ Here \in Result \/ aside \in Result => applied
  /\ op = "delete" /\ stage # "none" => applied
  /\ There = "expected" => applied
  /\ step \in {"start", "preparing", "put"} => ~applied
  /\ phase = "prepared" => ~applied
  /\ call = "commitRename" => ~applied
  /\ call \in {"commitProof", "commitUndo", "commitSeal"} => applied
  /\ phase = "committed" => applied

\* The expected file is never in the hidden directory when that is cleaned up
\* for an operation that was not committed.
StageSafe ==
  /\ phase \in {"prepared", "rolledBack"} => stage # "expected"
  /\ step \in {"preparing", "discarding", "undoing", "peekUndoing"} => stage # "expected"
  /\ reply = "notCommitted" => stage # "expected"
  /\ call # "rollbackExchange"
  /\ call = "rollbackRestore" => op = "move"
  /\ call = "rollbackUnlink" => op \in {"create", "mkdir"}

QuietStage ==
  IF ~applied
    THEN IF op \in {"create", "replace", "mkdir"} THEN "staged" ELSE "none"
    ELSE IF op \in {"replace", "delete"} THEN "expected" ELSE "none"

\* While nobody else writes, the tree and the stage are exactly what the
\* operation leaves there.
QuietTree ==
  Quiet =>
    /\ aside = "none"
    /\ tree = IF applied THEN After(op) ELSE Before(op)
    /\ (phase \in Open \/ call = "prepareState" => stage = QuietStage)
    /\ (call \in {"rollback", "rollbackSeal"} \cup UndoPoints => ~applied)
    /\ (reply = "notCommitted" \/ phase = "rolledBack" => ~applied)
    /\ (verdict = "committed" => applied)
    /\ (verdict = "rolledBack" => ~applied)

Inductive ==
  /\ TypeOK
  /\ CallFits /\ JournalFits /\ PhaseFits
  /\ Placement /\ AppliedFits /\ StageSafe /\ QuietTree
  /\ VerdictMatchesPhase

-----------------------------------------------------------------------------
(* The abstract mutation.                                                  *)

Atomic == INSTANCE AtomicMutation WITH disturbed <- ~Quiet

\* Whatever another program does, an operation is reported committed only if
\* the broker installed it, and undone only if it did not or was disturbed.
ImplementsAtomic == Atomic!Spec

\* If nobody else writes and no call fails, every operation is brought to an
\* end, a crash notwithstanding: recorded and cleaned up, refused before the
\* journal knew of it, or lost with it.
Settles ==
  <>(\/ step \in {"done", "failed", "lost"}
     \/ ~Quiet \/ faults > 0 \/ crashes > 1)

\* docs/ai/architecture.md: "Orphan prepared records are reconciled or rolled
\* back and cleaned".  Startup recovery answers for every record it finds.
PreparedRecordsCleaned == (journal = "prepared") ~> (journal = "none")
=============================================================================
