---------------------------- MODULE LinuxBroker ----------------------------
(***************************************************************************)
(* The native half of a workspace mutation on Linux                        *)
(* (linux/runner/session_workspace_*.cc) for one operation id: what is at  *)
(* the operation's names in the session tree, the hidden directory beside  *)
(* it (the .stage entry, the .backup copy, the .state file with its phase) *)
(* and the five handlers.  A handler is one call of the method channel; it *)
(* is split at each system call after which a crash, or another program    *)
(* writing in the tree, makes a difference.                                *)
(***************************************************************************)
EXTENDS WorkspaceTree

files == <<tree, stage, backup>>
broker == <<op, tree, stage, backup, phase, applied>>

Phases == {"none", "prepared", "targetQuarantining", "stageInstalling",
           "committed", "rolledBack"}

Points == {"idle", "prepare", "prepareState", "commit", "commitRename",
           "commitProof", "commitUndo", "commitSeal", "reconcile", "rollback",
           "rollbackUnlink", "rollbackExchange", "rollbackRestore",
           "rollbackSeal", "cleanup", "cleanupBackup", "cleanupState"}

BrokerTypeOK ==
  /\ call \in Points
  /\ reply \in Replies
  /\ op \in Operations
  /\ tree \in [Places -> Nodes]
  /\ stage \in Nodes
  /\ backup \in BOOLEAN
  /\ phase \in Phases
  /\ applied \in BOOLEAN

BrokerInit ==
  /\ op \in Operations
  /\ tree = Before(op)
  /\ stage = "none"
  /\ backup = FALSE
  /\ phase = "none"
  /\ applied = FALSE

-----------------------------------------------------------------------------
(* Shared by the handlers.                                                 *)

Refuse == Answer("error") /\ UNCHANGED broker

\* SaveOperationState: the phases a stored state may move to.
Forward(from, to) ==
  \/ to \in {"committed", "rolledBack"}
  \/ from = to
  \/ from \in {"none"}
  \/ from = "prepared" /\ to \in {"targetQuarantining", "stageInstalling"}

Persist(to) == Forward(phase, to) /\ phase' = to

\* A handler that needs the stored state refuses when it is not there.
Loaded == phase # "none"

-----------------------------------------------------------------------------
(* HandlePrepare: check the target, stage the result, save the state.      *)

TargetAsProposed ==
  IF op \in {"create", "mkdir"} THEN Here = "none" ELSE IsExpected(Here)

HiddenNamesFree == phase = "none" /\ stage = "none" /\ ~backup

Prepare ==
  /\ call = "prepare"
  /\ \/ /\ HiddenNamesFree /\ TargetAsProposed
        /\ IF op \in {"delete", "move"}
             THEN backup' = TRUE /\ UNCHANGED stage
             ELSE stage' = "staged" /\ UNCHANGED backup
        /\ Continue("prepareState")
        /\ UNCHANGED <<op, tree, phase, applied>>
     \/ ~(HiddenNamesFree /\ TargetAsProposed) /\ Refuse

PrepareState ==
  /\ call = "prepareState"
  /\ Persist("prepared")
  /\ Answer("ok")
  /\ UNCHANGED <<op, files, applied>>

-----------------------------------------------------------------------------
(* HandleCommit: check again, persist the phase, one rename, prove what the *)
(* rename displaced and put it back if it was not the expected file.       *)

Installable ==
  /\ op \in {"create", "replace", "mkdir"} => stage = "staged"
  /\ op = "create" => ~IsFile(Here)
  /\ op \in {"replace", "delete", "move"} => IsExpected(Here)

CommitPhase ==
  IF op \in {"replace", "delete"} THEN "targetQuarantining" ELSE "stageInstalling"

Commit ==
  /\ call = "commit"
  /\ \/ phase = "committed" /\ Answer("ok") /\ UNCHANGED broker
     \/ /\ phase = "prepared" /\ Installable
        /\ Persist(CommitPhase)
        /\ Continue("commitRename")
        /\ UNCHANGED <<op, files, applied>>
     \/ /\ phase # "committed"
        /\ ~(phase = "prepared" /\ Installable)
        /\ Refuse

\* What the one rename of each operation does, and when it can be done.
\* RENAME_EXCHANGE needs both names, RENAME_NOREPLACE a free target.
Renamable ==
  /\ op \in {"create", "mkdir"} => Here = "none" /\ stage # "none"
  /\ op = "replace" => Here # "none" /\ stage # "none"
  /\ op = "delete"  => Here # "none" /\ stage = "none"
  /\ op = "move"    => Here # "none" /\ There = "none"

Rename ==
  IF op = "move"
    THEN tree' = [path |-> "none", dest |-> Here] /\ UNCHANGED stage
    ELSE tree' = [tree EXCEPT !["path"] = stage] /\ stage' = Here

\* Only a replaced, removed or moved file is proved after the rename.
AfterRename == IF op \in {"create", "mkdir"} THEN "commitSeal" ELSE "commitProof"

CommitRename ==
  /\ call = "commitRename"
  /\ \/ /\ Renamable /\ Rename
        /\ applied' = TRUE
        /\ Continue(AfterRename)
        /\ UNCHANGED <<op, backup, phase>>
     \/ ~Renamable /\ Refuse

Displaced == IF op = "move" THEN There ELSE stage

\* Mutant of CommitProof: what the rename displaced is taken for the expected file.
UnprovedCommit ==
  /\ call = "commitProof"
  /\ Continue("commitSeal")
  /\ UNCHANGED broker

CommitProof ==
  /\ call = "commitProof"
  /\ Continue(IF IsExpected(Displaced) THEN "commitSeal" ELSE "commitUndo")
  /\ UNCHANGED broker

\* The inverse rename; whether it succeeds, the answer is the same error.
UndoPossible ==
  \/ op = "replace" /\ Here # "none" /\ stage # "none"
  \/ op = "delete" /\ Here = "none" /\ stage # "none"
  \/ op = "move" /\ Here = "none" /\ There # "none"

UndoRename ==
  IF op = "move"
    THEN tree' = [path |-> There, dest |-> "none"] /\ UNCHANGED stage
    ELSE tree' = [tree EXCEPT !["path"] = stage] /\ stage' = Here

\* History: has an inverse rename taken the result out of the tree again?
Withdrawn ==
  op \in {"create", "replace", "mkdir"} => Here \in {"staged", "stagedEdited"}

CommitUndo ==
  /\ call = "commitUndo"
  /\ \/ /\ UndoPossible /\ UndoRename
        /\ applied' = (applied /\ ~Withdrawn)
     \/ ~UndoPossible /\ UNCHANGED <<tree, stage, applied>>
  /\ Answer("error")
  /\ UNCHANGED <<op, backup, phase>>

CommitSeal ==
  /\ call = "commitSeal"
  /\ Persist("committed")
  /\ Answer("ok")
  /\ UNCHANGED <<op, files, applied>>

-----------------------------------------------------------------------------
(* HandleReconcile: what the tree proves about the operation.              *)

\* Mutants of ProvesCommitted: the stored phase is trusted instead of the tree,
\* and a directory is recognised by its name alone.
PhaseProvesCommitted == phase # "prepared"

NameProvesCommitted ==
  \/ op \in {"create", "replace"} /\ IsFile(Here) /\ IsResult(Here)
  \/ op = "delete" /\ Here = "none" /\ IsExpected(stage)
  \/ op = "move" /\ Here = "none" /\ IsExpected(There)
  \/ op = "mkdir" /\ IsDirectory(Here)

ProvesCommitted ==
  \/ op \in {"create", "replace"} /\ IsFile(Here) /\ IsResult(Here)
  \/ op = "delete" /\ Here = "none" /\ IsExpected(stage)
  \/ op = "move" /\ Here = "none" /\ IsExpected(There)
  \/ op = "mkdir" /\ IsDirectory(Here) /\ IsResult(Here)

\* Mutant of ProvesUntouched: any file at the name passes for the expected one.
PresenceProvesUntouched ==
  IF op \in {"create", "mkdir"} THEN Here = "none" ELSE Here # "none"

ProvesUntouched ==
  IF op \in {"create", "mkdir"} THEN Here = "none" ELSE IsExpected(Here)

Reconcile ==
  /\ call = "reconcile"
  /\ \/ ~Loaded /\ Refuse
     \/ phase = "rolledBack" /\ Answer("rolledBack") /\ UNCHANGED broker
     \/ /\ Loaded /\ phase # "rolledBack" /\ ProvesCommitted
        /\ Persist("committed")
        /\ Answer("committed")
        /\ UNCHANGED <<op, files, applied>>
     \/ /\ Loaded /\ phase # "rolledBack" /\ ~ProvesCommitted
        /\ Answer(IF ProvesUntouched THEN "notCommitted" ELSE "indeterminate")
        /\ UNCHANGED broker

-----------------------------------------------------------------------------
(* HandleRollback: refuses a committed operation, undoes a half-done one.  *)
(* The check of the tree and the system call it leads to are two steps.    *)

Undoing == phase \notin {"none", "prepared", "committed", "rolledBack"}

\* What a half-done operation needs undone, by what the tree looks like now.
NeedsUnlink == op \in {"create", "mkdir"} /\ IsResult(Here)

NeedsExchange == op = "replace" /\ IsResult(Here) /\ IsExpected(stage)

NeedsRestore ==
  \/ op = "replace" /\ ~IsFile(Here) /\ IsExpected(stage)
  \/ op = "delete" /\ Here = "none" /\ IsExpected(stage)
  \/ op = "move" /\ Here = "none" /\ IsExpected(There)

NeedsNothing ==
  /\ ~(NeedsUnlink \/ NeedsExchange \/ NeedsRestore)
  /\ op = "replace" => IsExpected(Here)

\* Mutant of Rollback: a committed operation is not refused.
UncheckedRollback ==
  /\ call = "rollback"
  /\ UNCHANGED broker
  /\ IF Loaded THEN Continue("rollbackSeal") ELSE Answer("error")

Rollback ==
  /\ call = "rollback"
  /\ UNCHANGED broker
  /\ \/ phase = "rolledBack" /\ Answer("ok")
     \/ phase \in {"none", "committed"} /\ Answer("error")
     \/ phase = "prepared" /\ Continue("rollbackSeal")
     \/ Undoing /\ NeedsUnlink /\ Continue("rollbackUnlink")
     \/ Undoing /\ NeedsExchange /\ Continue("rollbackExchange")
     \/ Undoing /\ NeedsRestore /\ Continue("rollbackRestore")
     \/ Undoing /\ NeedsNothing /\ Continue("rollbackSeal")
     \/ /\ Undoing /\ Answer("error")
        /\ ~(NeedsUnlink \/ NeedsExchange \/ NeedsRestore \/ NeedsNothing)

\* unlinkat removes whatever is at the name by now, rmdir only an empty directory.
Unlinkable ==
  IF op = "mkdir" THEN Here = "staged" ELSE Here # "none" /\ ~IsDirectory(Here)

RollbackMovable ==
  /\ call = "rollbackUnlink" => Unlinkable
  /\ call = "rollbackExchange" => Here # "none"
  /\ call = "rollbackRestore" => Here = "none" /\ (op = "move" => There # "none")

RollbackMove ==
  IF call = "rollbackUnlink"
    THEN tree' = [tree EXCEPT !["path"] = "none"] /\ UNCHANGED stage
    ELSE UndoRename

UndoPoints == {"rollbackUnlink", "rollbackExchange", "rollbackRestore"}

RollbackUndo ==
  /\ call \in UndoPoints
  /\ \/ /\ RollbackMovable /\ RollbackMove
        /\ applied' = (applied /\ ~Withdrawn)
        /\ Continue("rollbackSeal")
        /\ UNCHANGED <<op, backup, phase>>
     \/ ~RollbackMovable /\ Refuse

RollbackSeal ==
  /\ call = "rollbackSeal"
  /\ Persist("rolledBack")
  /\ Answer("ok")
  /\ UNCHANGED <<op, files, applied>>

-----------------------------------------------------------------------------
(* HandleCleanup: the stage, the backup, and the state last, so that a     *)
(* cleanup that was cut short can be repeated.                             *)

\* Mutant of StageRemovable: unlinkat is never told that the stage is a directory.
FileStageRemovable == stage = "none" \/ ~IsDirectory(stage)

\* unlinkat without AT_REMOVEDIR fails on a directory, and the other way round.
StageRemovable ==
  stage = "none" \/ (IF op = "mkdir" THEN stage = "staged" ELSE ~IsDirectory(stage))

\* Mutant of Cleanup: the state file goes first, the stage is left for later.
StateFirstCleanup ==
  /\ call = "cleanup" /\ Loaded
  /\ phase' = "none"
  /\ Continue("cleanupBackup")
  /\ UNCHANGED <<op, files, applied>>

Cleanup ==
  /\ call = "cleanup"
  /\ \/ ~Loaded /\ stage = "none" /\ ~backup /\ Answer("ok") /\ UNCHANGED broker
     \/ ~Loaded /\ (stage # "none" \/ backup) /\ Refuse
     \/ /\ Loaded /\ StageRemovable
        /\ stage' = "none"
        /\ Continue("cleanupBackup")
        /\ UNCHANGED <<op, tree, backup, phase, applied>>
     \/ Loaded /\ ~StageRemovable /\ Refuse

CleanupBackup ==
  /\ call = "cleanupBackup"
  /\ backup' = FALSE
  /\ Continue("cleanupState")
  /\ UNCHANGED <<op, tree, stage, phase, applied>>

CleanupState ==
  /\ call = "cleanupState"
  /\ phase' = "none"
  /\ Answer("ok")
  /\ UNCHANGED <<op, files, applied>>

-----------------------------------------------------------------------------
(* A system call fails.  A write of the state or a rename followed by a    *)
(* failing fsync reports an error although it took effect.                 *)

FailedPersist(to) ==
  /\ phase' \in {phase, to}
  /\ Forward(phase, to)
  /\ UNCHANGED <<op, files, applied>>

FaultyAnswer ==
  /\ Answer("error")
  /\ \/ /\ call = "prepare" /\ HiddenNamesFree /\ TargetAsProposed
        /\ IF op \in {"delete", "move"}
             THEN backup' = TRUE /\ UNCHANGED stage
             ELSE stage' = "staged" /\ UNCHANGED backup
        /\ UNCHANGED <<op, tree, phase, applied>>
     \/ call = "prepareState" /\ FailedPersist("prepared")
     \/ /\ call = "commit" /\ phase = "prepared" /\ Installable
        /\ FailedPersist(CommitPhase)
     \/ /\ call = "commitRename" /\ Renamable /\ Rename
        /\ applied' = TRUE
        /\ UNCHANGED <<op, backup, phase>>
     \/ call = "commitSeal" /\ FailedPersist("committed")
     \/ /\ call = "reconcile" /\ ProvesCommitted
        /\ phase \notin {"none", "committed", "rolledBack"}
        /\ FailedPersist("committed")
     \/ /\ call \in UndoPoints /\ RollbackMovable /\ RollbackMove
        /\ applied' = (applied /\ ~Withdrawn)
        /\ UNCHANGED <<op, backup, phase>>
     \/ call = "rollbackSeal" /\ FailedPersist("rolledBack")
     \/ /\ call = "cleanupState"
        /\ phase' = "none"
        /\ UNCHANGED <<op, files, applied>>
     \/ /\ call \in {"commitRename", "commitUndo"} \cup UndoPoints
                   \cup {"reconcile", "rollback"}
                   \cup {"cleanup", "cleanupBackup", "cleanupState"}
        /\ UNCHANGED broker

\* The file that was displaced cannot be read: it is treated as foreign.
FaultyProof ==
  /\ call = "commitProof"
  /\ Continue("commitUndo")
  /\ UNCHANGED broker

Fault == FaultyAnswer \/ FaultyProof

BrokerStep ==
  \/ Prepare \/ PrepareState
  \/ Commit \/ CommitRename \/ CommitProof \/ CommitUndo \/ CommitSeal
  \/ Reconcile
  \/ Rollback \/ RollbackUndo \/ RollbackSeal
  \/ Cleanup \/ CleanupBackup \/ CleanupState
=============================================================================
