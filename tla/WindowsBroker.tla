--------------------------- MODULE WindowsBroker ---------------------------
(***************************************************************************)
(* The native half of a workspace mutation on Windows                      *)
(* (windows/runner/session_workspace_*.cpp) for one operation id.  It      *)
(* differs from Linux in three things: nothing is exchanged, so a replaced *)
(* file waits under a third hidden name (.old) while the result is         *)
(* renamed into the free place; files are opened without FILE_SHARE_DELETE *)
(* and renamed or deleted through the open handle, so nobody moves what    *)
(* the broker has open, and the broker opens nothing another program has   *)
(* open; and a file that cannot be opened passes for a missing one.        *)
(*                                                                         *)
(* OpenContext keeps the session directory open, without FILE_SHARE_DELETE, *)
(* while OpenParent opens it again and asks for DELETE.                    *)
(* SharesDirectories says whether the file system grants that; where it    *)
(* enforces share modes on directories it does not, and HandlePrepare      *)
(* refuses every mutation.                                                 *)
(***************************************************************************)
EXTENDS WorkspaceTree

CONSTANTS
  SharesDirectories   \* a directory in use can be opened with DELETE again

ASSUME SharesDirectoriesAssumption == SharesDirectories \in BOOLEAN

VARIABLES
  old,    \* the hidden .old entry: the file a write replaces
  temp,   \* a temporary state file was left in the hidden directory
  held    \* the places of the tree another program has open

files == <<tree, stage, backup, old>>
broker == <<op, files, temp, phase, applied>>

Phases == {"none", "prepared", "targetQuarantining", "targetQuarantined",
           "stageInstalling", "committed", "rolledBack"}

Points == {"idle", "prepare", "prepareSave", "commit", "quarantine",
           "quarantined", "reinstall", "install", "commitSeal", "reconcile",
           "rollback", "rollbackDelete", "rollbackRestore", "rollbackSeal",
           "cleanup", "cleanupBackup", "cleanupOld", "cleanupState"}

BrokerTypeOK ==
  /\ call \in Points
  /\ reply \in Replies
  /\ op \in Operations
  /\ tree \in [Places -> Nodes]
  /\ stage \in Nodes /\ old \in Nodes
  /\ backup \in BOOLEAN /\ temp \in BOOLEAN
  /\ held \subseteq Places
  /\ phase \in Phases
  /\ applied \in BOOLEAN

BrokerInit ==
  /\ op \in Operations
  /\ tree = Before(op)
  /\ stage = "none" /\ old = "none"
  /\ backup = FALSE /\ temp = FALSE
  /\ phase = "none"
  /\ applied = FALSE

-----------------------------------------------------------------------------
(* Shared by the handlers.                                                 *)

\* OpenChild: the handle is valid only if the entry is there, is of the kind
\* asked for and is not open elsewhere; the handlers look at nothing else.
Opens(p) == IsFile(tree[p]) /\ p \notin held
OpensDirectory(p) == IsDirectory(tree[p]) /\ p \notin held

FileProof(p) == Opens(p) /\ IsExpected(tree[p])
StageProof(p) == Opens(p) /\ tree[p] = "staged"

Refuse == Answer("error") /\ UNCHANGED broker

\* Persist: SaveOperationState first removes what an earlier save left behind,
\* if it finds it.
Persist(to) == phase' = to /\ (temp' = FALSE \/ UNCHANGED temp)

\* A failing search looks like one that finds nothing (CleanupStateTemps).
TempMissed == temp' /\ phase' # phase

Loaded == phase # "none"

Clean == phase = "none" /\ stage = "none" /\ old = "none" /\ ~backup

-----------------------------------------------------------------------------
(* HandlePrepare: check the target, stage the result, save the state.      *)

\* OpenParent, while the session directory of OpenContext is open.
ParentOpens == SharesDirectories

Prepareable ==
  /\ ParentOpens
  /\ stage = "none" /\ old = "none" /\ ~backup
  /\ IF op \in {"create", "mkdir"} THEN Here = "none" ELSE FileProof("path")

StageIt ==
  IF op \in {"delete", "move"}
    THEN backup' = TRUE /\ UNCHANGED stage
    ELSE stage' = "staged" /\ UNCHANGED backup

Prepare ==
  /\ call = "prepare"
  /\ \/ /\ Prepareable
        /\ StageIt
        /\ Continue("prepareSave")
        /\ UNCHANGED <<op, tree, old, temp, phase, applied>>
     \/ ~Prepareable /\ Refuse

PrepareSave ==
  /\ call = "prepareSave"
  /\ Persist("prepared")
  /\ Answer("ok")
  /\ UNCHANGED <<op, files, applied>>

-----------------------------------------------------------------------------
(* HandleCommit: a replaced or deleted file is renamed out of the way, a   *)
(* result is renamed into the place; the phase is saved before each rename. *)

Quarantinable ==
  /\ op \in {"replace", "delete"}
  /\ FileProof("path")
  /\ IF op = "replace" THEN ~IsFile(old) ELSE stage = "none"

Installable ==
  \/ op = "create" /\ ~Opens("path") /\ stage = "staged"
  \/ op = "mkdir" /\ Here = "none" /\ IsResult(stage)
  \/ op = "move" /\ FileProof("path") /\ There = "none"

\* Where a commit that was cut short is taken up; once the result may be in its
\* place nothing is looked at again.
Resumable ==
  \/ phase = IF op = "delete" THEN "targetQuarantined" ELSE "stageInstalling"
  \/ /\ op = "replace" /\ ~Opens("path")
     /\ \/ phase = "targetQuarantining" /\ IsExpected(old)
        \/ phase = "targetQuarantined"

ResumePoint ==
  IF op = "replace" /\ phase = "targetQuarantining" THEN "quarantined"
  ELSE IF op = "replace" /\ phase = "targetQuarantined" THEN "reinstall"
  ELSE "commitSeal"

Commit ==
  /\ call = "commit"
  /\ \/ phase = "committed" /\ Answer("ok") /\ UNCHANGED broker
     \/ /\ phase = "prepared" /\ Quarantinable
        /\ Persist("targetQuarantining")
        /\ Continue("quarantine")
        /\ UNCHANGED <<op, files, applied>>
     \/ /\ phase = "prepared" /\ Installable
        /\ Persist("stageInstalling")
        /\ Continue("install")
        /\ UNCHANGED <<op, files, applied>>
     \/ Resumable /\ Continue(ResumePoint) /\ UNCHANGED broker
     \/ /\ phase # "committed" /\ ~Resumable
        /\ ~(phase = "prepared" /\ (Quarantinable \/ Installable))
        /\ Refuse

\* RenameDurable through the open handle, never over another entry.
QuarantineRename ==
  /\ tree' = [tree EXCEPT !["path"] = "none"]
  /\ IF op = "replace"
       THEN old' = Here /\ UNCHANGED <<stage, applied>>
       ELSE stage' = Here /\ applied' = TRUE /\ UNCHANGED old

Quarantine ==
  /\ call = "quarantine"
  /\ QuarantineRename
  /\ Continue("quarantined")
  /\ UNCHANGED <<op, backup, temp, phase>>

\* Only a replaced file is opened and proved again where it is now.
ProvedInQuarantine == op = "replace" => IsExpected(old)

Quarantined ==
  /\ call = "quarantined"
  /\ \/ /\ ProvedInQuarantine
        /\ Persist("targetQuarantined")
        /\ Continue(IF op = "replace" THEN "reinstall" ELSE "commitSeal")
        /\ UNCHANGED <<op, files, applied>>
     \/ ~ProvedInQuarantine /\ Refuse

Reinstall ==
  /\ call = "reinstall"
  /\ \/ /\ stage = "staged"
        /\ Persist("stageInstalling")
        /\ Continue("install")
        /\ UNCHANGED <<op, files, applied>>
     \/ stage # "staged" /\ Refuse

\* Mutant of Placeable: the rename replaces what is there by now.
OverwritingPlaceable == TRUE

Placeable == IF op = "move" THEN There = "none" ELSE Here = "none"

InstallRename ==
  /\ applied' = TRUE
  /\ IF op = "move"
       THEN tree' = [path |-> "none", dest |-> Here] /\ UNCHANGED stage
       ELSE tree' = [tree EXCEPT !["path"] = stage] /\ stage' = "none"

Install ==
  /\ call = "install"
  /\ \/ /\ Placeable /\ InstallRename
        /\ Continue("commitSeal")
        /\ UNCHANGED <<op, backup, old, temp, phase>>
     \/ ~Placeable /\ Refuse

CommitSeal ==
  /\ call = "commitSeal"
  /\ Persist("committed")
  /\ Answer("ok")
  /\ UNCHANGED <<op, files, applied>>

-----------------------------------------------------------------------------
(* HandleReconcile: what can be opened and proved, whatever the phase says. *)

QuarantineProved == ~Opens("path") /\ IsExpected(old)

\* Mutant of Probed: the file is only looked for where it was.
ProbedInPlace ==
  op = "replace" /\ phase = "targetQuarantining" => FileProof("path") /\ ~IsFile(old)

\* A quarantine that was cut short must have happened or not.
Probed ==
  op = "replace" /\ phase = "targetQuarantining" =>
    QuarantineProved \/ (FileProof("path") /\ ~IsFile(old))

ProvesCommitted ==
  \/ op = "create" /\ StageProof("path") /\ ~IsFile(stage)
  \/ op = "replace" /\ StageProof("path") /\ ~IsFile(stage) /\ IsExpected(old)
  \/ op = "delete" /\ ~Opens("path") /\ IsExpected(stage)
  \/ op = "move" /\ ~Opens("path") /\ FileProof("dest")
  \/ op = "mkdir" /\ OpensDirectory("path") /\ IsResult(Here) /\ ~IsDirectory(stage)

\* Mutant of ProvesUntouched: the stage, whose rename is what installs the
\* result, is not looked at.
StagelessProvesUntouched ==
  \/ op \in {"create", "mkdir"} /\ ~Opens("path")
  \/ op = "replace" /\ (FileProof("path") \/ QuarantineProved)
  \/ op \in {"delete", "move"} /\ FileProof("path")

ProvesUntouched ==
  \/ op = "create" /\ ~Opens("path") /\ stage = "staged"
  \/ /\ op = "replace" /\ stage = "staged"
     /\ QuarantineProved \/ (FileProof("path") /\ ~IsFile(old))
  \/ op = "delete" /\ FileProof("path") /\ ~IsFile(stage)
  \/ op = "move" /\ FileProof("path") /\ ~Opens("dest")
  \/ op = "mkdir" /\ ~OpensDirectory("path") /\ IsDirectory(stage) /\ IsResult(stage)

\* What a reconciliation that proves no commit leaves in the state file.
QuarantineNoted == op = "replace" /\ phase = "targetQuarantining" /\ QuarantineProved

\* No decision is recorded, and what there is agrees with some stage of the commit.
Undecided == phase \notin {"none", "committed", "rolledBack"} /\ Probed

Reconcile ==
  /\ call = "reconcile"
  /\ \/ ~Loaded /\ Refuse
     \/ phase = "rolledBack" /\ Answer("rolledBack") /\ UNCHANGED broker
     \/ Loaded /\ phase # "rolledBack" /\ ~Probed /\ Refuse
     \/ /\ Loaded /\ phase # "rolledBack" /\ Probed /\ ProvesCommitted
        /\ IF phase = "committed" THEN UNCHANGED <<phase, temp>> ELSE Persist("committed")
        /\ Answer("committed")
        /\ UNCHANGED <<op, files, applied>>
     \/ /\ Loaded /\ phase # "rolledBack" /\ Probed /\ ~ProvesCommitted
        /\ IF QuarantineNoted THEN Persist("targetQuarantined") ELSE UNCHANGED <<phase, temp>>
        /\ Answer(IF ProvesUntouched THEN "notCommitted" ELSE "indeterminate")
        /\ UNCHANGED <<op, files, applied>>

-----------------------------------------------------------------------------
(* HandleRollback: a result is deleted, a quarantined or moved file goes   *)
(* back; what cannot be opened counts as not there.                        *)

NeedsDelete ==
  \/ op = "create" /\ StageProof("path")
  \/ op = "replace" /\ IsExpected(old) /\ StageProof("path")
  \/ op = "mkdir" /\ OpensDirectory("path") /\ IsResult(Here)

NeedsRestore ==
  /\ ~Opens("path")
  /\ \/ op = "replace" /\ IsExpected(old)
     \/ op = "delete" /\ IsExpected(stage)
     \/ op = "move" /\ FileProof("dest")

\* Something else is in the way, or the original cannot be found.
Obstructed ==
  \/ op = "create" /\ Opens("path") /\ ~NeedsDelete
  \/ op = "replace" /\ ~NeedsDelete /\ ~NeedsRestore
       /\ (IsExpected(old) \/ ~FileProof("path"))
  \/ op \in {"delete", "move"} /\ Opens("path") /\ ~FileProof("path")
  \/ op = "mkdir" /\ OpensDirectory("path") /\ ~NeedsDelete

Rollback ==
  /\ call = "rollback"
  /\ UNCHANGED broker
  /\ \/ phase = "rolledBack" /\ Answer("ok")
     \/ phase \in {"none", "committed"} /\ Answer("error")
     \/ /\ phase \notin {"none", "committed", "rolledBack"}
        /\ \/ NeedsDelete /\ Continue("rollbackDelete")
           \/ NeedsRestore /\ Continue("rollbackRestore")
           \/ Obstructed /\ Answer("error")
           \/ ~(NeedsDelete \/ NeedsRestore \/ Obstructed) /\ Continue("rollbackSeal")

UndoPoints == {"rollbackDelete", "rollbackRestore"}

\* Only an empty directory is deleted, and only to a free place is a file moved.
Undoable ==
  IF call = "rollbackDelete" THEN op = "mkdir" => Here = "staged" ELSE Here = "none"

Undo ==
  IF call = "rollbackDelete"
    THEN tree' = [tree EXCEPT !["path"] = "none"] /\ UNCHANGED <<stage, old>>
    ELSE /\ tree' = [path |-> IF op = "replace" THEN old
                              ELSE IF op = "delete" THEN stage ELSE There,
                     dest |-> IF op = "move" THEN "none" ELSE There]
         /\ old' = IF op = "replace" THEN "none" ELSE old
         /\ stage' = IF op = "delete" THEN "none" ELSE stage

RollbackUndo ==
  /\ call \in UndoPoints
  /\ \/ /\ Undoable /\ Undo
        /\ applied' = FALSE
        /\ Continue(IF call = "rollbackDelete" /\ op = "replace"
                      THEN "rollbackRestore" ELSE "rollbackSeal")
        /\ UNCHANGED <<op, backup, temp, phase>>
     \/ ~Undoable /\ Refuse

RollbackSeal ==
  /\ call = "rollbackSeal"
  /\ Persist("rolledBack")
  /\ Answer("ok")
  /\ UNCHANGED <<op, files, applied>>

-----------------------------------------------------------------------------
(* HandleCleanup: the stage, the backup, the replaced file, the state last. *)

\* Mutant of Cleanup: it begins with the state file.
StateFirstCleanup ==
  /\ call = "cleanup" /\ Loaded
  /\ phase' = "none"
  /\ Continue("cleanupBackup")
  /\ UNCHANGED <<op, files, temp, applied>>

Cleanup ==
  /\ call = "cleanup"
  /\ \/ Clean /\ Answer("ok") /\ UNCHANGED broker
     \/ ~Loaded /\ ~Clean /\ Refuse
     \/ /\ Loaded
        /\ stage' = "none"
        /\ Continue("cleanupBackup")
        /\ UNCHANGED <<op, tree, backup, old, temp, phase, applied>>

CleanupBackup ==
  /\ call = "cleanupBackup"
  /\ backup' = FALSE
  /\ Continue("cleanupOld")
  /\ UNCHANGED <<op, tree, stage, old, temp, phase, applied>>

CleanupOld ==
  /\ call = "cleanupOld"
  /\ old' = "none"
  /\ Continue("cleanupState")
  /\ UNCHANGED <<op, tree, stage, backup, temp, phase, applied>>

CleanupState ==
  /\ call = "cleanupState"
  /\ phase' = "none"
  /\ Answer("ok")
  /\ UNCHANGED <<op, files, temp, applied>>

-----------------------------------------------------------------------------
(* A system call fails.  A save may leave its temporary file, and may have *)
(* replaced the state before the flush that failed; so may a rename.       *)

Saving(to) ==
  \/ call = "prepareSave" /\ to = "prepared"
  \/ call = "commit" /\ phase = "prepared" /\ Quarantinable /\ to = "targetQuarantining"
  \/ call = "commit" /\ phase = "prepared" /\ Installable /\ to = "stageInstalling"
  \/ call = "quarantined" /\ ProvedInQuarantine /\ to = "targetQuarantined"
  \/ call = "reinstall" /\ stage = "staged" /\ to = "stageInstalling"
  \/ call = "commitSeal" /\ to = "committed"
  \/ call = "reconcile" /\ Undecided /\ ProvesCommitted /\ to = "committed"
  \/ call = "reconcile" /\ Undecided /\ QuarantineNoted /\ to = "targetQuarantined"
  \/ call = "rollbackSeal" /\ to = "rolledBack"

FailedSave(to) ==
  /\ (phase' = phase /\ temp' \in BOOLEAN) \/ Persist(to)
  /\ UNCHANGED <<op, tree, old, applied>>
  \* HandlePrepare withdraws what it staged when its state cannot be saved, if
  \* it can open it.
  /\ \/ UNCHANGED <<stage, backup>>
     \/ to = "prepared" /\ stage' = "none" /\ backup' = FALSE

Fault ==
  \/ /\ Answer("error")
     /\ \/ /\ call = "prepare" /\ Prepareable /\ StageIt
           /\ UNCHANGED <<op, tree, old, temp, phase, applied>>
        \/ \E to \in Phases : Saving(to) /\ FailedSave(to)
        \/ /\ call = "quarantine" /\ QuarantineRename
           /\ UNCHANGED <<op, backup, temp, phase>>
        \/ /\ call = "install" /\ Placeable /\ InstallRename
           /\ UNCHANGED <<op, backup, old, temp, phase>>
        \/ /\ call \in UndoPoints /\ Undoable /\ Undo
           /\ applied' = FALSE
           /\ UNCHANGED <<op, backup, temp, phase>>
        \/ /\ call \in {"prepare", "quarantine", "quarantined", "install", "rollback",
                        "reconcile", "cleanup", "cleanupBackup", "cleanupOld",
                        "cleanupState"} \cup UndoPoints
           /\ UNCHANGED broker
  \* A file that is there cannot be read, so nothing is proved.  An entry of the
  \* hidden directory that cannot be opened passes for a missing one: commit and
  \* rollback then refuse, as they do without opening it.
  \/ /\ call = "reconcile" /\ Loaded /\ phase # "rolledBack"
     /\ \/ UNCHANGED <<phase, temp>>
        \/ QuarantineNoted /\ Persist("targetQuarantined")
     /\ Answer("indeterminate")
     /\ UNCHANGED <<op, files, applied>>

\* HandleCleanup looks at the handle only: an entry it cannot open is passed over
\* like a missing one, and the cleanup goes on to delete the state.
SkipEntry(entry) ==
  /\ \/ /\ entry = "stage" /\ call = "cleanup" /\ Loaded /\ stage # "none"
        /\ Continue("cleanupBackup")
     \/ /\ entry = "backup" /\ call = "cleanupBackup" /\ backup
        /\ Continue("cleanupOld")
     \/ /\ entry = "old" /\ call = "cleanupOld" /\ old # "none"
        /\ Continue("cleanupState")
  /\ UNCHANGED broker

BrokerStep ==
  \/ Prepare \/ PrepareSave
  \/ Commit \/ Quarantine \/ Quarantined \/ Reinstall \/ Install \/ CommitSeal
  \/ Reconcile
  \/ Rollback \/ RollbackUndo \/ RollbackSeal
  \/ Cleanup \/ CleanupBackup \/ CleanupOld \/ CleanupState
=============================================================================
