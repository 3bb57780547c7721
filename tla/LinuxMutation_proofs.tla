----------------------- MODULE LinuxMutation_proofs -----------------------
(***************************************************************************)
(* Proofs about LinuxMutation, for every set of operations and every bound *)
(* on the changes, crashes and failing calls.                              *)
(*                                                                         *)
(* `Inductive` is shown to hold initially and to be preserved by every     *)
(* step; the invariants follow from it, and so do the step properties and  *)
(* the refinement, which are shown step by step from Inductive.  The       *)
(* broker's handlers are taken one lemma each, together with the failing   *)
(* system calls inside that handler.                                       *)
(***************************************************************************)
EXTENDS LinuxMutation, WorkspaceTree_proofs

-----------------------------------------------------------------------------
(* Files and names.                                                        *)

\* The forward rename of a commit exchanges, or moves, what is at its two names.
LEMMA RenameEffect ==
  ASSUME TypeOK, Rename
  PROVE  /\ op = "move"  => Here' = "none" /\ There' = Here /\ stage' = stage
         /\ op # "move" => Here' = stage /\ There' = There /\ stage' = Here
         /\ tree' \in [Places -> Nodes] /\ stage' \in Nodes
  BY DEF TypeOK, BrokerTypeOK, Rename, Here, There, Places, Nodes

\* The inverse rename does the same the other way.
LEMMA UndoEffect ==
  ASSUME TypeOK, UndoRename
  PROVE  /\ op = "move"  => Here' = There /\ There' = "none" /\ stage' = stage
         /\ op # "move" => Here' = stage /\ There' = There /\ stage' = Here
         /\ tree' \in [Places -> Nodes] /\ stage' \in Nodes
  BY DEF TypeOK, BrokerTypeOK, UndoRename, Here, There, Places, Nodes

-----------------------------------------------------------------------------
(* The inductive invariant.                                                *)

\* A fresh operation on the tree it was proposed for satisfies the invariant.
LEMMA InitInductive == Init => Inductive
<1> SUFFICES ASSUME Init PROVE Inductive
  OBVIOUS
<1> USE DEF Init, ChannelInit, BrokerInit, ClientInit
<1>1. TypeOK
  <2>1. tree \in [Places -> Nodes]
    BY DEF Before, Places, Nodes
  <2>2. BrokerTypeOK
    BY <2>1 DEF BrokerTypeOK, Nodes, Phases, Points, Replies
  <2>3. ClientTypeOK
    BY DEF ClientTypeOK, Steps
  <2>4. aside \in Nodes
    BY DEF Nodes
  <2> QED BY <2>2, <2>3, <2>4, BoundsAssumption DEF TypeOK
<1>2. /\ Here = IF op \in {"create", "mkdir"} THEN "none" ELSE "expected"
      /\ There = "none"
  BY DEF Before, Here, There
<1>3. CallFits /\ JournalFits
  BY DEF CallFits, JournalFits
<1>4. PhaseFits /\ VerdictMatchesPhase
  BY DEF PhaseFits, VerdictMatchesPhase, Clean, Half, Open, UndoPoints
<1>5. Placement
  BY <1>2 DEF Placement, Present, Result
<1>6. AppliedFits /\ StageSafe
  BY <1>2 DEF AppliedFits, StageSafe, Result
<1>7. QuietTree
  BY <1>2 DEF QuietTree, Quiet, Open, Half, QuietStage
<1> QED BY <1>1, <1>3, <1>4, <1>5, <1>6, <1>7 DEF Inductive

\* A handler in progress tells which step of the client waits for it.
LEMMA AwaitedBy ==
  ASSUME Inductive
  PROVE  /\ call \in {"prepare", "prepareState"} => step = "preparing"
         /\ call \in {"commit", "commitRename", "commitProof", "commitUndo", "commitSeal"}
              => step = "committing"
         /\ call = "reconcile" =>
              step \in {"checking", "reconciling", "confirming", "peeking", "peekConfirming"}
         /\ call \in {"rollback", "rollbackSeal"} \cup UndoPoints =>
              step \in {"discarding", "undoing", "peekUndoing"}
         /\ call \in {"cleanup", "cleanupBackup", "cleanupState"} =>
              step \in {"sweeping", "cleaning"}
  BY DEF Inductive, TypeOK, ClientTypeOK, CallFits, Steps, UndoPoints

\* The Dart side leaves the files alone; what it learned from an answer is
\* already known of the phase.
LEMMA ClientInductive ==
  ASSUME Inductive, ClientProgress \/ PutRefused \/ Peek,
         UNCHANGED <<broker, aside, edits, crashes>>, faults' \in 0 .. MaxFaults
  PROVE  Inductive'
<1> USE DEF ClientProgress, AskPrepare, OnPrepare, PutPrepared, PutRefused, OnDiscard,
            OnSweep, OnCommit, OnCheck, OnReconcile, OnUndo, OnConfirm, OnCleanup,
            RemoveRecord, Peek, OnPeek, OnPeekUndo, OnPeekConfirm,
            Ask, Rest, Answered, Record, Retain
<1>1. TypeOK'
  BY
    DEF Inductive, TypeOK, BrokerTypeOK, ClientTypeOK, broker, Nodes, Phases, Points,
        Replies, Steps
<1>2. Placement'
  BY DEF Inductive, Placement, broker, Here, There, Present, Result
<1>3. CallFits'
  BY DEF Inductive, CallFits, UndoPoints
<1>4. JournalFits'
  BY DEF Inductive, TypeOK, ClientTypeOK, JournalFits
<1>5. PhaseFits'
  BY
    DEF Inductive, TypeOK, BrokerTypeOK, ClientTypeOK, CallFits, JournalFits,
        PhaseFits, broker, Clean, UndoPoints, Half, Open
<1>6. AppliedFits'
  BY DEF Inductive, CallFits, PhaseFits, AppliedFits, broker, Here, There, Result
<1>7. StageSafe'
  BY DEF Inductive, CallFits, PhaseFits, StageSafe, broker, Clean
<1>8. QuietTree'
  BY
    DEF Inductive, UndoPoints, CallFits, PhaseFits, AppliedFits, QuietTree, Quiet,
        QuietStage, broker
<1>9. VerdictMatchesPhase'
  BY DEF Inductive, PhaseFits, VerdictMatchesPhase, JournalFits, broker
<1> QED BY <1>1, <1>2, <1>3, <1>4, <1>5, <1>6, <1>7, <1>8, <1>9 DEF Inductive

\* HandlePrepare, and a call failing in it.
LEMMA PrepareInductive ==
  ASSUME Inductive,
         Prepare \/ PrepareState \/ (FaultyAnswer /\ call \in {"prepare", "prepareState"}),
         UNCHANGED <<client, aside, edits, crashes>>, faults' \in 0 .. MaxFaults
  PROVE  Inductive'
<1> USE DEF FaultyAnswer, FaultyProof, FailedPersist, UndoPoints, Prepare,
            PrepareState, HiddenNamesFree, TargetAsProposed, IsExpected, broker,
            files, Answer, Continue, Refuse, Persist, Forward, Loaded
<1>0. /\ UNCHANGED <<op, tree, applied>> /\ stage' \in {"staged", stage}
      /\ phase' \in {"prepared", phase} /\ (backup' = backup \/ backup' = TRUE)
      /\ call' \in {"idle", "prepareState"} /\ reply' \in {"ok", "error", reply}
  OBVIOUS
<1>1. TypeOK'
  <2>1. BrokerTypeOK'
    BY <1>0 DEF Inductive, TypeOK, BrokerTypeOK, Nodes, Phases, Points, Replies
  <2>2. ClientTypeOK'
    BY DEF Inductive, TypeOK, ClientTypeOK, client
  <2> QED BY <2>1, <2>2 DEF Inductive, TypeOK
<1>2. Placement'
  BY AwaitedBy DEF Inductive, AppliedFits, Placement, Here, There, Present, Result
<1>3. CallFits'
  BY DEF Inductive, CallFits, PhaseFits, client, UndoPoints
<1>4. JournalFits'
  BY DEF Inductive, JournalFits, client
<1>5. PhaseFits'
  BY AwaitedBy
    DEF Inductive, TypeOK, BrokerTypeOK, ClientTypeOK, CallFits, JournalFits,
        PhaseFits, client, Clean, UndoPoints, Half, Open, Phases, AppliedFits
<1>6. AppliedFits'
  BY AwaitedBy
    DEF Inductive, CallFits, PhaseFits, AppliedFits, client, Here, There, Result,
        Half, Open
<1>7. StageSafe'
  BY AwaitedBy
    DEF Inductive, CallFits, PhaseFits, Placement, StageSafe, client, Present, Here,
        There, Result, Half, Open
<1>8. QuietTree'
  BY AwaitedBy, OperationsAssumption
    DEF Inductive, TypeOK, BrokerTypeOK, CallFits, PhaseFits, AppliedFits, QuietTree,
        Quiet, QuietStage, client, Open, Half
<1>9. VerdictMatchesPhase'
  BY AwaitedBy
    DEF Inductive, PhaseFits, VerdictMatchesPhase, JournalFits, CallFits, client
<1> QED BY <1>1, <1>2, <1>3, <1>4, <1>5, <1>6, <1>7, <1>8, <1>9 DEF Inductive

\* HandleCommit except its two renames, and a call failing in it.
LEMMA CommitInductive ==
  ASSUME Inductive,
         \/ Commit \/ CommitProof \/ CommitSeal \/ FaultyProof
         \/ FaultyAnswer /\ call \in {"commit", "commitSeal"},
         UNCHANGED <<client, aside, edits, crashes>>, faults' \in 0 .. MaxFaults
  PROVE  Inductive'
<1> USE DEF FaultyAnswer, FaultyProof, FailedPersist, UndoPoints, Commit, CommitProof,
            CommitSeal, Installable, CommitPhase, Displaced, IsExpected, broker,
            files, Answer, Continue, Refuse, Persist, Forward, Loaded
<1>1. TypeOK'
  BY
    DEF Inductive, TypeOK, BrokerTypeOK, ClientTypeOK, client, Nodes, Phases, Points,
        Replies
<1>2. Placement'
  BY DEF Inductive, Placement, Here, There, Present, Result
<1>3. CallFits'
  BY DEF Inductive, CallFits, PhaseFits, client, UndoPoints
<1>4. JournalFits'
  BY DEF Inductive, JournalFits, client
<1>5. PhaseFits'
  BY AwaitedBy
    DEF Inductive, TypeOK, BrokerTypeOK, ClientTypeOK, CallFits, JournalFits,
        PhaseFits, client, Clean, UndoPoints, Half, Open, Phases, AppliedFits
<1>6. AppliedFits'
  BY AwaitedBy
    DEF Inductive, CallFits, PhaseFits, AppliedFits, client, Here, There, Result,
        Half, Open
<1>7. StageSafe'
  BY AwaitedBy
    DEF Inductive, CallFits, PhaseFits, Placement, StageSafe, client, Present, Here,
        There, Result, Half, Open
<1>8. QuietTree'
  BY AwaitedBy
    DEF Inductive, UndoPoints, CallFits, PhaseFits, AppliedFits, StageSafe, QuietTree,
        Quiet, QuietStage, client, Open, Half
<1>9. VerdictMatchesPhase'
  BY AwaitedBy
    DEF Inductive, PhaseFits, VerdictMatchesPhase, JournalFits, CallFits, client
<1> QED BY <1>1, <1>2, <1>3, <1>4, <1>5, <1>6, <1>7, <1>8, <1>9 DEF Inductive

\* HandleReconcile, and a call failing in it: on an undisturbed tree its proofs
\* tell whether the operation is applied.
LEMMA ReconcileInductive ==
  ASSUME Inductive, Reconcile \/ (FaultyAnswer /\ call = "reconcile"),
         UNCHANGED <<client, aside, edits, crashes>>, faults' \in 0 .. MaxFaults
  PROVE  Inductive'
<1> USE DEF FaultyAnswer, FaultyProof, FailedPersist, UndoPoints, Reconcile,
            ProvesCommitted, ProvesUntouched, IsExpected, IsResult, broker, files,
            Answer, Continue, Refuse, Persist, Forward, Loaded
<1>1. TypeOK'
  BY
    DEF Inductive, TypeOK, BrokerTypeOK, ClientTypeOK, client, Nodes, Phases, Points,
        Replies
<1>2. Placement'
  BY DEF Inductive, Placement, Here, There, Present, Result
<1>3. CallFits'
  BY DEF Inductive, CallFits, PhaseFits, client, UndoPoints
<1>4. JournalFits'
  BY DEF Inductive, JournalFits, client
<1>5. PhaseFits'
  BY AwaitedBy
    DEF Inductive, TypeOK, BrokerTypeOK, ClientTypeOK, CallFits, JournalFits,
        PhaseFits, client, Clean, UndoPoints, Half, Open, Phases, AppliedFits
<1>6. AppliedFits'
  BY AwaitedBy
    DEF Inductive, CallFits, PhaseFits, AppliedFits, client, Here, There, Result,
        Half, Open
<1>7. StageSafe'
  BY AwaitedBy
    DEF Inductive, CallFits, PhaseFits, Placement, StageSafe, client, Present, Here,
        There, Result, Half, Open
<1>8. QuietTree'
  <2> SUFFICES ASSUME Quiet PROVE QuietTree'
    BY DEF QuietTree, Quiet
  <2>1. /\ op \in {"create", "replace", "delete", "move", "mkdir"}
        /\ tree \in [Places -> Nodes]
        /\ tree = IF applied THEN After(op) ELSE Before(op)
    BY OperationsAssumption DEF Inductive, TypeOK, BrokerTypeOK, QuietTree
  <2>2. /\ ProvesCommitted => applied
        /\ ProvesUntouched => ~applied
    BY <2>1, TreeShape DEF Here, There
  <2> QED BY <2>2, AwaitedBy
          DEF Inductive, PhaseFits, QuietTree, Quiet, QuietStage, client, Open, Half,
              UndoPoints
<1>9. VerdictMatchesPhase'
  BY AwaitedBy
    DEF Inductive, PhaseFits, VerdictMatchesPhase, JournalFits, CallFits, client
<1> QED BY <1>1, <1>2, <1>3, <1>4, <1>5, <1>6, <1>7, <1>8, <1>9 DEF Inductive

\* HandleRollback except the undo itself, and a call failing in it.
LEMMA RollbackInductive ==
  ASSUME Inductive,
         Rollback \/ RollbackSeal \/ (FaultyAnswer /\ call \in {"rollback", "rollbackSeal"}),
         UNCHANGED <<client, aside, edits, crashes>>, faults' \in 0 .. MaxFaults
  PROVE  Inductive'
<1> USE DEF FaultyAnswer, FaultyProof, FailedPersist, UndoPoints, Rollback,
            RollbackSeal, NeedsUnlink, NeedsExchange, NeedsRestore, NeedsNothing,
            IsExpected, Undoing, IsResult, broker, files, Answer, Continue, Refuse,
            Persist, Forward, Loaded
<1>1. TypeOK'
  BY
    DEF Inductive, TypeOK, BrokerTypeOK, ClientTypeOK, client, Nodes, Phases, Points,
        Replies
<1>2. Placement'
  BY DEF Inductive, Placement, Here, There, Present, Result
<1>3. CallFits'
  BY DEF Inductive, CallFits, PhaseFits, client, UndoPoints
<1>4. JournalFits'
  BY DEF Inductive, JournalFits, client
<1>5. PhaseFits'
  BY AwaitedBy
    DEF Inductive, TypeOK, BrokerTypeOK, ClientTypeOK, CallFits, JournalFits,
        PhaseFits, client, Clean, UndoPoints, Half, Open, Phases, AppliedFits
<1>6. AppliedFits'
  BY AwaitedBy
    DEF Inductive, CallFits, PhaseFits, AppliedFits, client, Here, There, Result,
        Half, Open
<1>7. StageSafe'
  BY AwaitedBy
    DEF Inductive, CallFits, PhaseFits, Placement, StageSafe, client, Present, Here,
        There, Result, Half, Open
<1>8. QuietTree'
  BY AwaitedBy
    DEF Inductive, PhaseFits, QuietTree, Quiet, QuietStage, client, Open, Half,
        UndoPoints
<1>9. VerdictMatchesPhase'
  BY AwaitedBy DEF Inductive, PhaseFits, VerdictMatchesPhase, Open, Half, client
<1> QED BY <1>1, <1>2, <1>3, <1>4, <1>5, <1>6, <1>7, <1>8, <1>9 DEF Inductive

\* HandleCleanup, and a call failing in it: it runs only for a decided operation.
LEMMA CleanupInductive ==
  ASSUME Inductive,
         \/ Cleanup \/ CleanupBackup \/ CleanupState
         \/ FaultyAnswer /\ call \in {"cleanup", "cleanupBackup", "cleanupState"},
         UNCHANGED <<client, aside, edits, crashes>>, faults' \in 0 .. MaxFaults
  PROVE  Inductive'
<1> USE DEF FaultyAnswer, FaultyProof, FailedPersist, UndoPoints, Cleanup,
            CleanupBackup, CleanupState, broker, files, Answer, Continue, Refuse,
            Persist, Forward, Loaded
<1>0. UNCHANGED <<op, tree, applied>> /\ stage' \in {"none", stage}
  BY DEF Inductive
<1>1. TypeOK'
  <2>1. /\ call' \in {"idle", "cleanupBackup", "cleanupState"} /\ reply' \in {"ok", "error", reply}
        /\ phase' \in {"none", phase} /\ (backup' = backup \/ backup' = FALSE)
    OBVIOUS
  <2>2. BrokerTypeOK'
    BY <1>0, <2>1 DEF Inductive, TypeOK, BrokerTypeOK, Nodes, Phases, Points, Replies
  <2>3. ClientTypeOK'
    BY DEF Inductive, TypeOK, ClientTypeOK, client
  <2> QED BY <2>2, <2>3 DEF Inductive, TypeOK
<1>2. Placement'
  BY DEF Inductive, Placement, Here, There, Present, Result
<1>3. CallFits'
  BY DEF Inductive, CallFits, PhaseFits, client, UndoPoints
<1>4. JournalFits'
  BY DEF Inductive, JournalFits, client
<1>5. PhaseFits'
  BY AwaitedBy
    DEF Inductive, TypeOK, BrokerTypeOK, ClientTypeOK, CallFits, JournalFits,
        PhaseFits, client, Clean, UndoPoints, Half, Open, Phases, AppliedFits
<1>6. AppliedFits'
  BY AwaitedBy
    DEF Inductive, CallFits, PhaseFits, AppliedFits, client, Here, There, Result,
        Half, Open
<1>7. StageSafe'
  BY AwaitedBy
    DEF Inductive, CallFits, PhaseFits, Placement, StageSafe, client, Present, Here,
        There, Result, Half, Open
<1>8. QuietTree'
  BY AwaitedBy
    DEF Inductive, UndoPoints, TypeOK, ClientTypeOK, PhaseFits, JournalFits,
        VerdictMatchesPhase, QuietTree, Quiet, QuietStage, client, Open, Half
<1>9. VerdictMatchesPhase'
  BY AwaitedBy
    DEF Inductive, PhaseFits, VerdictMatchesPhase, JournalFits, CallFits, client
<1> QED BY <1>1, <1>2, <1>3, <1>4, <1>5, <1>6, <1>7, <1>8, <1>9 DEF Inductive

\* An answer of a handler that changed nothing.
LEMMA RefuseInductive ==
  ASSUME Inductive, call # "idle", Refuse,
         UNCHANGED <<client, aside, edits, crashes>>, faults' \in 0 .. MaxFaults
  PROVE  Inductive'
<1> USE DEF Refuse, broker, Answer
<1>1. TypeOK'
  BY DEF Inductive, TypeOK, BrokerTypeOK, ClientTypeOK, client, Points, Replies
<1>2. Placement' /\ VerdictMatchesPhase' /\ JournalFits'
  BY
    DEF Inductive, Placement, VerdictMatchesPhase, JournalFits, client, Here, There,
        Present
<1>3. CallFits'
  BY DEF Inductive, CallFits, client
<1>4. PhaseFits'
  BY AwaitedBy
    DEF Inductive, TypeOK, BrokerTypeOK, CallFits, JournalFits, PhaseFits, client,
        Clean, UndoPoints, Half, Open
<1>5. AppliedFits'
  BY AwaitedBy DEF Inductive, CallFits, PhaseFits, AppliedFits, client, Here, There
<1>6. StageSafe'
  BY AwaitedBy DEF Inductive, StageSafe, client
<1>7. QuietTree'
  BY AwaitedBy
    DEF Inductive, UndoPoints, QuietTree, Quiet, QuietStage, client, Open, Half
<1> QED BY <1>1, <1>2, <1>3, <1>4, <1>5, <1>6, <1>7 DEF Inductive

\* The rename of HandleCommit, whether its fsync then succeeds or not.
LEMMA RenameInductive ==
  ASSUME Inductive, call = "commitRename", Renamable, Rename, applied' = TRUE,
         UNCHANGED <<op, backup, phase>>, Continue(AfterRename) \/ Answer("error"),
         UNCHANGED <<client, aside, edits, crashes>>, faults' \in 0 .. MaxFaults
  PROVE  Inductive'
<1> USE DEF Continue, Answer, AfterRename
<1>0. TypeOK /\ step = "committing" /\ journal = "prepared" /\ verdict = "none" /\ phase \in Half
  BY AwaitedBy DEF Inductive, JournalFits, PhaseFits
<1>t. /\ op = "move"  => Here' = "none" /\ There' = Here /\ stage' = stage
      /\ op # "move" => Here' = stage /\ There' = There /\ stage' = Here
      /\ tree' \in [Places -> Nodes] /\ stage' \in Nodes
  BY <1>0, RenameEffect
<1>1. TypeOK'
  BY <1>0, <1>t DEF TypeOK, BrokerTypeOK, ClientTypeOK, client, Points, Replies
<1>2. Placement'
  BY <1>t DEF Inductive, Placement, Renamable, Present, Result
<1>3. VerdictMatchesPhase' /\ JournalFits'
  BY <1>0 DEF Inductive, VerdictMatchesPhase, JournalFits, client
<1>4. CallFits'
  BY <1>0 DEF Inductive, CallFits, client, UndoPoints
<1>5. PhaseFits'
  BY <1>0 DEF Inductive, CallFits, PhaseFits, client, Clean, UndoPoints, Half, Open
<1>6. AppliedFits'
  BY <1>0, <1>t
    DEF Inductive, CallFits, PhaseFits, AppliedFits, client, Half, Renamable
<1>7. StageSafe'
  BY <1>0, <1>t DEF Inductive, CallFits, StageSafe, client, Half
<1>8. QuietTree'
  <2> SUFFICES ASSUME Quiet PROVE QuietTree'
    BY DEF QuietTree, Quiet
  <2>1. /\ op \in {"create", "replace", "delete", "move", "mkdir"}
        /\ ~applied /\ tree = Before(op) /\ stage = QuietStage /\ aside = "none"
    BY <1>0, OperationsAssumption
      DEF Inductive, TypeOK, BrokerTypeOK, AppliedFits, QuietTree, Open
  <2>2. /\ Here = IF op \in {"create", "mkdir"} THEN "none" ELSE "expected"
        /\ There = "none"
    BY <1>0, <2>1, TreeShape DEF TypeOK, BrokerTypeOK, Here, There
  <2>3. /\ Here' = IF op \in {"delete", "move"} THEN "none" ELSE "staged"
        /\ There' = IF op = "move" THEN "expected" ELSE "none"
        /\ stage' = QuietStage'
    BY <1>t, <2>1, <2>2 DEF QuietStage
  <2>4. tree' = After(op)
    BY <1>t, <2>3, TreeShape DEF Here, There
  <2> QED BY <1>0, <2>1, <2>3, <2>4
    DEF QuietTree, Quiet, client, Half, UndoPoints, Inductive, CallFits
<1> QED BY <1>1, <1>2, <1>3, <1>4, <1>5, <1>6, <1>7, <1>8 DEF Inductive

\* HandleCommit putting back what the rename displaced.
LEMMA UndoInductive ==
  ASSUME Inductive, CommitUndo,
         UNCHANGED <<client, aside, edits, crashes>>, faults' \in 0 .. MaxFaults
  PROVE  Inductive'
<1> USE DEF CommitUndo, Answer
<1>0. /\ TypeOK /\ step = "committing" /\ journal = "prepared" /\ verdict = "none"
      /\ phase \in Half /\ applied
  BY AwaitedBy DEF Inductive, JournalFits, PhaseFits, AppliedFits
<1>1. \/ /\ UndoPossible
         /\ op = "move"  => Here' = There /\ There' = "none" /\ stage' = stage
         /\ op # "move" => Here' = stage /\ There' = There /\ stage' = Here
         /\ tree' \in [Places -> Nodes] /\ stage' \in Nodes
         /\ applied' = ~Withdrawn
      \/ /\ ~UndoPossible
         /\ tree' = tree /\ stage' = stage /\ applied' = applied
         /\ Here' = Here /\ There' = There
  BY <1>0, UndoEffect DEF Here, There
<1>2. TypeOK'
  BY <1>0, <1>1 DEF TypeOK, BrokerTypeOK, ClientTypeOK, client, Points, Replies
<1>3. Placement'
  BY <1>1 DEF Inductive, Placement, UndoPossible, Present, Result
<1>4. VerdictMatchesPhase' /\ JournalFits'
  BY <1>0 DEF Inductive, VerdictMatchesPhase, JournalFits, client
<1>5. CallFits'
  BY <1>0 DEF Inductive, CallFits, client
<1>6. PhaseFits'
  BY <1>0 DEF Inductive, CallFits, PhaseFits, client, Clean, UndoPoints, Half, Open
<1>7. AppliedFits'
  BY <1>0, <1>1, OperationsAssumption
    DEF Inductive, TypeOK, BrokerTypeOK, Placement, Present, AppliedFits, client,
        Half, UndoPossible, Withdrawn, Result
<1>8. StageSafe'
  BY <1>0 DEF Inductive, StageSafe, client, Half
<1>9. QuietTree'
  <2> SUFFICES ASSUME Quiet PROVE QuietTree'
    BY DEF QuietTree, Quiet
  <2>1. /\ op \in {"create", "replace", "delete", "move", "mkdir"}
        /\ tree = After(op) /\ stage = QuietStage /\ aside = "none"
    BY <1>0, OperationsAssumption DEF Inductive, TypeOK, BrokerTypeOK, QuietTree, Open
  <2>2. /\ Here = IF op \in {"delete", "move"} THEN "none" ELSE "staged"
        /\ There = IF op = "move" THEN "expected" ELSE "none"
    BY <1>0, <2>1, TreeShape DEF TypeOK, BrokerTypeOK, Here, There
  <2>3. CASE UndoPossible
    <3>1. op \in {"replace", "delete", "move"} /\ ~applied'
      BY <1>1, <2>2, <2>3 DEF UndoPossible, Withdrawn
    <3>2. tree' = Before(op)
      BY <1>0, <1>1, <2>1, <2>2, <2>3, <3>1, TreeShape DEF Here, There, QuietStage
    <3>3. stage' = QuietStage'
      BY <1>0, <1>1, <2>1, <2>2, <2>3, <3>1 DEF QuietStage
    <3> QED BY <1>0, <2>1, <3>1, <3>2, <3>3 DEF QuietTree, Quiet, client, Half, Open
  <2>4. CASE ~UndoPossible
    BY <1>0, <1>1, <2>1, <2>4
      DEF UndoPoints, QuietTree, Quiet, QuietStage, client, Half, Open
  <2> QED BY <2>3, <2>4
<1> QED BY <1>2, <1>3, <1>4, <1>5, <1>6, <1>7, <1>8, <1>9 DEF Inductive

\* The undo of HandleRollback: an exchange is never needed, because reconcile
\* would have proved the operation committed.
LEMMA RollbackUndoInductive ==
  ASSUME Inductive, call \in UndoPoints, RollbackMovable, RollbackMove,
         applied' = (applied /\ ~Withdrawn), UNCHANGED <<op, backup, phase>>,
         Continue("rollbackSeal") \/ Answer("error"),
         UNCHANGED <<client, aside, edits, crashes>>, faults' \in 0 .. MaxFaults
  PROVE  Inductive'
<1> USE DEF Answer, Continue
<1>0. /\ TypeOK /\ step \in {"discarding", "undoing", "peekUndoing"} /\ phase \in Half
      /\ stage # "expected"
  BY AwaitedBy DEF Inductive, PhaseFits, StageSafe
<1>1. call = "rollbackUnlink" \/ (call = "rollbackRestore" /\ op = "move")
  BY DEF Inductive, StageSafe, UndoPoints
<1>2. \/ /\ call = "rollbackUnlink" /\ Unlinkable
         /\ Here' = "none" /\ There' = There /\ stage' = stage
      \/ /\ call = "rollbackRestore" /\ op = "move" /\ Here = "none" /\ There # "none"
         /\ Here' = There /\ There' = "none" /\ stage' = stage
  BY <1>0, <1>1, UndoEffect
    DEF RollbackMovable, RollbackMove, Here, There, Places, TypeOK, BrokerTypeOK
<1>3. tree' \in [Places -> Nodes]
  BY <1>0, <1>1, UndoEffect DEF RollbackMove, Here, There, TypeOK, BrokerTypeOK, Nodes
<1>4. TypeOK'
  BY <1>0, <1>2, <1>3 DEF TypeOK, BrokerTypeOK, ClientTypeOK, client, Points, Replies
<1>5. Placement'
  BY <1>2 DEF Inductive, Placement, Present, Result
<1>6. VerdictMatchesPhase' /\ JournalFits'
  BY <1>0 DEF Inductive, VerdictMatchesPhase, JournalFits, client
<1>7. CallFits'
  BY <1>0 DEF Inductive, CallFits, client, UndoPoints
<1>8. PhaseFits'
  BY <1>0 DEF Inductive, CallFits, PhaseFits, client, Clean, UndoPoints, Half, Open
<1>9. AppliedFits'
  BY <1>0, <1>2
    DEF Inductive, StageSafe, CallFits, Placement, Present, AppliedFits, client, Half,
        Withdrawn, Result
<1>10. StageSafe'
  BY <1>0, <1>2 DEF Inductive, CallFits, StageSafe, client, Half, UndoPoints
<1>11. QuietTree'
  <2> SUFFICES ASSUME Quiet PROVE FALSE
    BY DEF QuietTree, Quiet
  <2>1. ~applied /\ tree = Before(op)
    BY DEF Inductive, QuietTree
  <2>2. Here = IF op \in {"create", "mkdir"} THEN "none" ELSE "expected"
    BY <1>0, <2>1, TreeShape DEF TypeOK, BrokerTypeOK, Here
  <2> QED BY <1>2, <2>2 DEF Unlinkable, Inductive, StageSafe
<1> QED BY <1>4, <1>5, <1>6, <1>7, <1>8, <1>9, <1>10, <1>11 DEF Inductive

\* A process that ends and starts again, by a crash or by the user.
LEMMA RestartInductive ==
  ASSUME Inductive, Restarted, UNCHANGED <<broker, aside, edits, faults>>,
         crashes' \in 0 .. MaxCrashes
  PROVE  Inductive'
<1> USE DEF Restarted, broker
<1>1. TypeOK'
  BY DEF Inductive, TypeOK, BrokerTypeOK, ClientTypeOK, Points, Replies, Steps
<1>2. Placement' /\ VerdictMatchesPhase'
  BY DEF Inductive, Placement, VerdictMatchesPhase, Here, There, Present
<1>3. CallFits'
  BY DEF Inductive, TypeOK, ClientTypeOK, CallFits
<1>4. JournalFits'
  BY DEF Inductive, TypeOK, ClientTypeOK, JournalFits
<1>5. journal = "none" /\ verdict # "none" => step = "done" /\ Clean
  BY DEF Inductive, TypeOK, ClientTypeOK, JournalFits, PhaseFits, Steps
<1>6. PhaseFits'
  BY <1>5 DEF Inductive, TypeOK, ClientTypeOK, PhaseFits, Clean, UndoPoints
<1>7. AppliedFits'
  BY DEF Inductive, TypeOK, ClientTypeOK, AppliedFits, Here, There
<1>8. StageSafe'
  BY DEF Inductive, TypeOK, ClientTypeOK, StageSafe
<1>9. QuietTree'
  BY DEF Inductive, TypeOK, ClientTypeOK, UndoPoints, QuietTree, Quiet, QuietStage
<1> QED BY <1>1, <1>2, <1>3, <1>4, <1>6, <1>7, <1>8, <1>9 DEF Inductive

\* What another program can do to the two names and to what it moved aside.
LEMMA OutsiderEffect ==
  ASSUME TypeOK, Outsider
  PROVE  /\ tree' \in [Places -> Nodes] /\ aside' \in Nodes
         /\ \/ /\ aside' = aside /\ There' = There
               /\ Here' \in {"foreign", "foreignDir", "none", Edited(Here)}
            \/ /\ aside' = aside /\ Here' = Here /\ op = "move"
               /\ There' \in {"foreign", "foreignDir", "none", Edited(There)}
            \/ aside' = Here /\ Here' = "none" /\ There' = There /\ aside = "none"
            \/ aside' = "none" /\ Here' = aside /\ There' = There /\ Here = "none"
<1>1. tree \in [Places -> Nodes] /\ aside \in Nodes
  BY DEF TypeOK, BrokerTypeOK
<1>2. CASE /\ aside' = aside
           /\ \E p \in Named : \E n \in {"foreign", "foreignDir", "none", Edited(tree[p])} : Put(p, n)
  <2>0. PICK p \in Named : \E n \in {"foreign", "foreignDir", "none", Edited(tree[p])} : Put(p, n)
    BY <1>2
  <2>1. PICK n \in {"foreign", "foreignDir", "none", Edited(tree[p])} : Put(p, n)
    BY <2>0
  <2>2. p \in Places /\ n \in Nodes /\ (p = "dest" => op = "move")
    BY <1>1, <2>1 DEF Named, Places, Nodes, Edited
  <2> QED BY <1>1, <1>2, <2>1, <2>2 DEF Put, Here, There, Places
<1>3. CASE Here # "none" /\ aside = "none" /\ aside' = Here /\ Put("path", "none")
  BY <1>1, <1>3 DEF Put, Here, There, Places, Nodes
<1>4. CASE Here = "none" /\ aside' = "none" /\ Put("path", aside)
  BY <1>1, <1>4 DEF Put, Here, There, Places, Nodes
<1> QED BY <1>2, <1>3, <1>4 DEF Outsider

\* A change by another program.
LEMMA OutsiderInductive ==
  ASSUME Inductive, Outsider
  PROVE  Inductive'
<1>1. TypeOK /\ edits' \in 1 .. MaxEdits
  BY BoundsAssumption DEF Inductive, TypeOK, Outsider
<1>2. TypeOK'
  BY <1>1, OutsiderEffect DEF Outsider, TypeOK, BrokerTypeOK, ClientTypeOK, client
<1>3. Placement'
  BY <1>1, OutsiderEffect DEF Outsider, Inductive, Placement, Present, Result, Edited
<1>4. CallFits' /\ JournalFits' /\ PhaseFits' /\ VerdictMatchesPhase'
  BY
    DEF Outsider, client, Inductive, CallFits, JournalFits, PhaseFits,
        VerdictMatchesPhase, Clean
<1>5. AppliedFits'
  BY <1>1, OutsiderEffect
     DEF Outsider, client, Inductive, Placement, AppliedFits, Present, Result, Edited
<1>6. StageSafe'
  BY DEF Outsider, client, Inductive, StageSafe
<1>7. QuietTree'
  BY <1>1 DEF QuietTree, Quiet
<1> QED BY <1>2, <1>3, <1>4, <1>5, <1>6, <1>7 DEF Inductive

\* A stuttering step.
LEMMA UnchangedInductive ==
  ASSUME Inductive, UNCHANGED vars
  PROVE  Inductive'
  BY DEF vars, budget, broker, client, Inductive, TypeOK, BrokerTypeOK, ClientTypeOK,
         CallFits, JournalFits, PhaseFits, Placement, AppliedFits, StageSafe, QuietTree,
         VerdictMatchesPhase, Quiet, QuietStage, Clean, Present, Here, There

\* Every step preserves the invariant: one case for each handler.
LEMMA NextInductive ==
  ASSUME Inductive, [Next]_vars
  PROVE  Inductive'
<1>0. edits \in 0 .. MaxEdits /\ crashes \in 0 .. MaxCrashes /\ faults \in 0 .. MaxFaults
  BY DEF Inductive, TypeOK
<1>1. CASE Client \/ Recheck \/ JournalFault
  BY <1>0, <1>1, BoundsAssumption, ClientInductive
    DEF Client, Recheck, JournalFault, budget
<1>2. CASE Broker \/ NativeFault
  <2>1. UNCHANGED <<client, aside, edits, crashes>> /\ faults' \in 0 .. MaxFaults
    BY <1>0, <1>2, BoundsAssumption DEF Broker, NativeFault, budget
  <2>2. CASE Prepare \/ PrepareState \/ (FaultyAnswer /\ call \in {"prepare", "prepareState"})
    BY <2>1, <2>2, PrepareInductive
  <2>3. CASE \/ Commit \/ CommitProof \/ CommitSeal \/ FaultyProof
             \/ FaultyAnswer /\ call \in {"commit", "commitSeal"}
    BY <2>1, <2>3, CommitInductive
  <2>4. CASE CommitRename \/ (FaultyAnswer /\ call = "commitRename")
    <3>1. CASE Refuse
      BY <2>1, <2>4, <3>1, RefuseInductive DEF CommitRename
    <3>2. CASE /\ Renamable /\ Rename /\ applied' = TRUE /\ UNCHANGED <<op, backup, phase>>
               /\ Continue(AfterRename) \/ Answer("error")
      BY <2>1, <2>4, <3>2, RenameInductive DEF CommitRename
    <3> QED BY <2>4, <3>1, <3>2 DEF CommitRename, FaultyAnswer, Refuse, UndoPoints
  <2>5. CASE CommitUndo \/ (FaultyAnswer /\ call = "commitUndo")
    <3>1. CASE Refuse
      BY <2>1, <2>5, <3>1, RefuseInductive DEF CommitUndo
    <3>2. CASE CommitUndo
      BY <2>1, <3>2, UndoInductive
    <3> QED BY <2>5, <3>1, <3>2 DEF FaultyAnswer, Refuse, UndoPoints
  <2>6. CASE Reconcile \/ (FaultyAnswer /\ call = "reconcile")
    BY <2>1, <2>6, ReconcileInductive
  <2>7. CASE Rollback \/ RollbackSeal \/ (FaultyAnswer /\ call \in {"rollback", "rollbackSeal"})
    BY <2>1, <2>7, RollbackInductive
  <2>8. CASE RollbackUndo \/ (FaultyAnswer /\ call \in UndoPoints)
    <3>1. CASE Refuse
      BY <2>1, <2>8, <3>1, RefuseInductive DEF RollbackUndo, UndoPoints
    <3>2. CASE /\ RollbackMovable /\ RollbackMove
               /\ applied' = (applied /\ ~Withdrawn) /\ UNCHANGED <<op, backup, phase>>
               /\ Continue("rollbackSeal") \/ Answer("error")
      BY <2>1, <2>8, <3>2, RollbackUndoInductive DEF RollbackUndo
    <3> QED BY <2>8, <3>1, <3>2 DEF RollbackUndo, FaultyAnswer, Refuse, UndoPoints
  <2>9. CASE \/ Cleanup \/ CleanupBackup \/ CleanupState
             \/ FaultyAnswer /\ call \in {"cleanup", "cleanupBackup", "cleanupState"}
    BY <2>1, <2>9, CleanupInductive
  <2> QED BY <1>2, <2>2, <2>3, <2>4, <2>5, <2>6, <2>7, <2>8, <2>9
          DEF Broker, BrokerStep, NativeFault, Fault, FaultyAnswer
<1>3. CASE Restart
  BY <1>0, <1>3, RestartInductive DEF Restart, Reopen, budget
<1>4. CASE Crash
  BY <1>0, <1>4, BoundsAssumption, RestartInductive DEF Crash
<1>5. CASE Outsider
  BY <1>5, OutsiderInductive
<1>6. CASE UNCHANGED vars
  BY <1>6, UnchangedInductive
<1> QED BY <1>1, <1>2, <1>3, <1>4, <1>5, <1>6 DEF Next

-----------------------------------------------------------------------------
(* The invariants.                                                         *)

\* The inductive invariant of the specification.
THEOREM InductiveInvariance == Spec => []Inductive
  BY InitInductive, NextInductive, PTL DEF Spec

\* The variables keep their types.
THEOREM TypeCorrect == Spec => []TypeOK
<1>1. Inductive => TypeOK
  BY DEF Inductive
<1> QED BY <1>1, InductiveInvariance, PTL

\* As long as nobody else writes in the tree, a verdict the conversation keeps
\* is the truth about the files (_resolveFailedCommit, startup _reconcile).
THEOREM Honest == Spec => []VerdictHonest
<1>1. Inductive => VerdictHonest
  BY DEF Inductive, QuietTree, VerdictHonest
<1> QED BY <1>1, InductiveInvariance, PTL

\* A cleanup that was cut short can be repeated (HandleCleanup), and an
\* acknowledged operation has left nothing in the hidden directory.
THEOREM NoRemains == Spec => []NothingLeftBehind
<1>1. Inductive => NothingLeftBehind
  BY DEF Inductive, PhaseFits, Clean, NothingLeftBehind
<1> QED BY <1>1, InductiveInvariance, PTL

\* A recorded verdict never contradicts the phase of the native state file.
THEOREM VerdictAgrees == Spec => []VerdictMatchesPhase
<1>1. Inductive => VerdictMatchesPhase
  BY DEF Inductive
<1> QED BY <1>1, InductiveInvariance, PTL

-----------------------------------------------------------------------------
(* What a step may never do.                                               *)

\* The steps that are not the broker's nor another program's leave the files alone.
LEMMA ClientKeeps ==
  ASSUME Client \/ Recheck \/ Restart \/ Crash \/ JournalFault \/ UNCHANGED vars
  PROVE  UNCHANGED broker /\ UNCHANGED aside
  BY DEF Client, Recheck, Restart, Crash, JournalFault, vars

\* Who can change a file in a step.
LEMMA StepsOfNext ==
  ASSUME [Next]_vars
  PROVE  \/ UNCHANGED broker /\ UNCHANGED aside
         \/ UNCHANGED client /\ UNCHANGED aside /\ (BrokerStep \/ Fault)
         \/ Outsider
  BY ClientKeeps DEF Next, Broker, NativeFault

\* The handlers change a file at five places only.
LEMMA FilesChange ==
  ASSUME BrokerStep \/ Fault
  PROVE  \/ UNCHANGED <<tree, stage, applied>>
         \/ call = "prepare" /\ stage = "none" /\ UNCHANGED <<tree, applied>>
         \/ call = "commitRename" /\ Renamable /\ Rename /\ applied' = TRUE
         \/ /\ call = "commitUndo" /\ UndoPossible /\ UndoRename
            /\ applied' = (applied /\ ~Withdrawn)
         \/ /\ call \in UndoPoints /\ RollbackMovable /\ RollbackMove
            /\ applied' = (applied /\ ~Withdrawn)
         \/ call = "cleanup" /\ Loaded /\ stage' = "none" /\ UNCHANGED <<tree, applied>>
<1> USE DEF Refuse, Persist, FailedPersist, broker, files
<1>1. CASE FaultyAnswer
  BY <1>1 DEF FaultyAnswer, HiddenNamesFree
<1>2. CASE FaultyProof \/ Commit \/ CommitProof \/ CommitSeal \/ PrepareState
  BY <1>2 DEF FaultyProof, Commit, CommitProof, CommitSeal, PrepareState
<1>3. CASE Prepare
  BY <1>3 DEF Prepare, HiddenNamesFree
<1>4. CASE CommitRename
  BY <1>4 DEF CommitRename
<1>5. CASE CommitUndo
  BY <1>5 DEF CommitUndo
<1>6. CASE Reconcile \/ Rollback \/ RollbackSeal
  BY <1>6 DEF Reconcile, Rollback, RollbackSeal
<1>7. CASE RollbackUndo
  BY <1>7 DEF RollbackUndo
<1>8. CASE Cleanup \/ CleanupBackup \/ CleanupState
  BY <1>8 DEF Cleanup, CleanupBackup, CleanupState
<1> QED BY <1>1, <1>2, <1>3, <1>4, <1>5, <1>6, <1>7, <1>8 DEF BrokerStep, Fault

\* No step destroys the expected file before a commit is recorded: the unlink of
\* a rollback removes created entries only, and a cleanup that was not committed
\* never finds the expected file in the stage.
LEMMA OriginalKept ==
  ASSUME Inductive, [Next]_vars, edits' = edits, Present("expected"), verdict # "committed"
  PROVE  Present("expected")'
<1>0. TypeOK
  BY DEF Inductive
<1>1. CASE UNCHANGED broker /\ UNCHANGED aside
  BY <1>1 DEF broker, Present, Here, There
<1>2. CASE UNCHANGED aside /\ (BrokerStep \/ Fault)
  <2>1. CASE UNCHANGED <<tree, stage>>
    BY <1>2, <2>1 DEF Present, Here, There
  <2>2. CASE stage = "none" /\ UNCHANGED tree
    BY <1>2, <2>2 DEF Present, Here, There
  <2>3. CASE Renamable /\ Rename
    BY <1>0, <1>2, <2>3, RenameEffect DEF Present, Renamable
  <2>4. CASE UndoPossible /\ UndoRename
    BY <1>0, <1>2, <2>4, UndoEffect DEF Present, UndoPossible
  <2>5. CASE call \in UndoPoints /\ RollbackMovable /\ RollbackMove
    <3>1. CASE call = "rollbackUnlink"
      <4>1. Here # "expected" /\ There # "expected" /\ stage # "expected"
        BY <1>0, <3>1 DEF Inductive, StageSafe, Placement, Present
      <4> QED BY <1>2, <4>1 DEF Present
    <3>2. CASE call # "rollbackUnlink"
      BY <1>0, <1>2, <2>5, <3>2, UndoEffect
         DEF Inductive, StageSafe, UndoPoints, RollbackMovable, RollbackMove, Present
    <3> QED BY <3>1, <3>2
  <2>6. CASE call = "cleanup" /\ Loaded /\ UNCHANGED tree
    <3>1. stage # "expected"
      BY <1>0, <2>6, AwaitedBy
         DEF Loaded, Inductive, TypeOK, ClientTypeOK, JournalFits, PhaseFits, StageSafe,
             VerdictMatchesPhase
    <3> QED BY <1>2, <2>6, <3>1 DEF Present, Here, There
  <2> QED BY <1>2, <2>1, <2>2, <2>3, <2>4, <2>5, <2>6, FilesChange
<1>3. CASE Outsider
  BY <1>0, <1>3, BoundsAssumption DEF TypeOK, Outsider
<1> QED BY <1>1, <1>2, <1>3, StepsOfNext

\* Whatever fails and whoever interferes, the broker keeps the file the proposal
\* was made against until the conversation recorded the commit.
THEOREM OriginalSafe == Spec => OriginalPreserved
<1>1. Inductive /\ [Next]_vars => [KeepsOriginal]_vars
  BY OriginalKept DEF KeepsOriginal
<1> QED BY <1>1, InductiveInvariance, PTL DEF OriginalPreserved, Spec

\* No handler leaves a decided phase or moves a file in it.
LEMMA DecidedPhaseKept ==
  ASSUME Inductive, [Next]_vars, phase \in {"committed", "rolledBack"}
  PROVE  phase' \in {phase, "none"} /\ (edits' = edits => tree' = tree)
<1>0. TypeOK /\ phase \notin Half /\ phase \notin Open
  BY DEF Inductive, Half, Open
<1>1. CASE UNCHANGED broker /\ UNCHANGED aside
  BY <1>1 DEF broker
<1>2. CASE BrokerStep \/ Fault
  <2>1. call \notin {"prepare", "prepareState", "commitRename", "commitProof",
                     "commitUndo", "commitSeal", "rollbackSeal"} \cup UndoPoints
    BY <1>0 DEF Inductive, PhaseFits
  <2> QED BY <1>2, <2>1
       DEF BrokerStep, Fault, FaultyAnswer, FaultyProof, FailedPersist, Prepare,
           PrepareState, Commit, CommitRename, CommitProof, CommitUndo, CommitSeal,
           Reconcile, Rollback, RollbackUndo, RollbackSeal, Cleanup,
           CleanupBackup, CleanupState, Refuse, broker, files, Persist, Forward, UndoPoints
<1>3. CASE Outsider
  BY <1>0, <1>3, BoundsAssumption DEF TypeOK, Outsider
<1> QED BY <1>1, <1>2, <1>3, StepsOfNext

\* A committed operation never becomes rolled back, nor the reverse
\* (HandleRollback refuses it, HandleCommit refuses a rolled back one).
THEOREM FinalDecision == Spec => DecisionFinal
<1>1. Inductive /\ [Next]_vars => [PhaseKept]_vars
  BY DecidedPhaseKept DEF PhaseKept
<1> QED BY <1>1, InductiveInvariance, PTL DEF DecisionFinal, Spec

-----------------------------------------------------------------------------
(* What other programs wrote.                                              *)

Calm == edits <= 2 /\ crashes = 0 /\ faults = 0

Outside(n) == n \in OutsiderData

\* The first change cannot both move the file aside and put another in its place.
ChangesFit ==
  /\ edits = 0 \/ (edits = 1 /\ aside # "none")
       => ~Outside(Here) /\ ~Outside(There) /\ ~Outside(stage) /\ ~Outside(aside)
  /\ edits = 0 => aside = "none"

\* The one rename displaces a file that was there, never the broker's own result.
Swap == op \in {"replace", "delete"}

DisplacedFits ==
  /\ call = "commitRename" /\ op \in {"create", "replace", "mkdir"} => stage = "staged"
  /\ call \in {"commitProof", "commitUndo"} => op \in {"replace", "delete", "move"}
  /\ call \in {"commitProof", "commitUndo"} /\ Swap => stage \notin {"none"} \cup Result
  /\ Calm /\ call = "commitUndo" /\ Swap => Outside(stage)

\* Another program's file is in the hidden directory only from the rename that
\* displaced it to the rename that puts it back.  When that one fails, two changes are
\* used up and no answer of the broker can be mistaken for a proof.
Proving == call \in {"commitProof", "commitUndo"}

Stuck ==
  /\ call \in {"idle", "reconcile"} /\ reply \in {"none", "error", "indeterminate"}
  /\ step \in {"committing", "reconciling", "waiting", "peeking"}
  /\ step = "committing" => reply = "error"
  /\ journal = "prepared" /\ verdict = "none" /\ phase \in Half
  /\ edits = 2 /\ Here \notin {"expected", "staged"}

HeldFits ==
  Calm /\ Outside(stage) =>
    /\ Swap
    /\ Proving \/ Stuck
    /\ Proving /\ edits = 1
         => aside = "none" /\ Here = (IF op = "replace" THEN "staged" ELSE "none")
    /\ Proving => Here # "expected"

\* A created entry that is installed is committed without an error in between, so a
\* rollback never finds it.
CreatedFits ==
  Calm =>
    /\ op \in {"create", "mkdir"} /\ phase \in Half /\ applied => call = "commitSeal"
    /\ call # "rollbackUnlink"

OutsiderFits == ChangesFit /\ DisplacedFits /\ HeldFits /\ CreatedFits

\* At first there is none of another program's files.
LEMMA OutsiderFitsInit == Init => OutsiderFits
<1> SUFFICES ASSUME Init PROVE OutsiderFits
  OBVIOUS
<1> USE DEF Init, ChannelInit, BrokerInit, ClientInit
<1>1. ~Outside(Here) /\ ~Outside(There) /\ ~Outside("none")
  BY DEF Before, Here, There, Outside, OutsiderData
<1>2. ChangesFit /\ DisplacedFits
  BY <1>1 DEF ChangesFit, DisplacedFits
<1>3. HeldFits /\ CreatedFits
  BY <1>1 DEF HeldFits, CreatedFits
<1> QED BY <1>2, <1>3 DEF OutsiderFits

\* The Dart side asks for nothing while another program's file is held, but what the tree
\* proves.
LEMMA ClientOutside ==
  ASSUME Inductive, OutsiderFits, Client \/ Recheck \/ Restart
  PROVE  OutsiderFits'
<1> USE DEF Inductive, OutsiderFits
<1>1. /\ UNCHANGED broker /\ UNCHANGED <<aside, edits, crashes, faults>>
      /\ call = "idle" /\ call' \in {"idle", "prepare", "commit", "reconcile", "rollback", "cleanup"}
  BY DEF Client, Recheck, Restart, budget, ClientProgress, AskPrepare, OnPrepare,
         PutPrepared,
         OnDiscard, OnSweep, OnCommit, OnCheck, OnReconcile, OnUndo, OnConfirm, OnCleanup,
         RemoveRecord, Peek, OnPeek, OnPeekUndo, OnPeekConfirm, Reopen, Restarted,
         Ask, Rest, Answered, Record, Retain, CallFits, broker
<1>2. ChangesFit'
  BY <1>1 DEF ChangesFit, Here, There, broker
<1>3. DisplacedFits'
  BY <1>1 DEF DisplacedFits
<1>4. HeldFits'
  <2> SUFFICES ASSUME Calm', Outside(stage') PROVE HeldFits'
    BY DEF HeldFits
  <2>1. Swap /\ Stuck
    BY <1>1 DEF Calm, HeldFits, Proving, broker
  <2>2. Swap' /\ Here' = Here /\ edits' = edits /\ phase' = phase
    BY <1>1, <2>1 DEF Swap, Here, broker
  <2>3. Stuck'
    BY <1>1, <2>1, <2>2
    DEF Stuck, Client, Recheck, Restart, ClientProgress, AskPrepare, OnPrepare, PutPrepared,
         OnDiscard, OnSweep, OnCommit, OnCheck, OnReconcile, OnUndo, OnConfirm, OnCleanup,
         RemoveRecord, Peek, OnPeek, OnPeekUndo, OnPeekConfirm, Reopen, Restarted,
         Ask, Rest, Answered, Record, Retain
  <2>4. ~Proving'
    BY <1>1 DEF Proving
  <2> QED BY <2>2, <2>3, <2>4 DEF HeldFits
<1>5. CreatedFits'
  BY <1>1 DEF CreatedFits, Calm, broker
<1> QED BY <1>2, <1>3, <1>4, <1>5

\* The broker moves files about, and writes only its own result.
LEMMA ChangesStayFit ==
  ASSUME Inductive, ChangesFit, BrokerStep \/ Fault, UNCHANGED <<aside, edits>>
  PROVE  ChangesFit'
<1> SUFFICES ASSUME edits = 0 \/ (edits = 1 /\ aside # "none")
             PROVE  ~Outside(Here') /\ ~Outside(There') /\ ~Outside(stage')
  BY DEF ChangesFit
<1>1. /\ ~Outside(Here) /\ ~Outside(There) /\ ~Outside(stage)
      /\ ~Outside("none") /\ ~Outside("staged")
  BY DEF ChangesFit, Outside, OutsiderData
<1>2. TypeOK
  BY DEF Inductive
<1>3. CASE UNCHANGED <<tree, stage>>
  BY <1>1, <1>3 DEF Here, There
<1>4. CASE call = "prepare" /\ UNCHANGED tree
  <2>1. stage' \in {stage, "staged"}
    BY <1>4
      DEF BrokerStep, Prepare, PrepareState, Commit, CommitRename, CommitProof, CommitUndo,
            CommitSeal, Reconcile, Rollback, RollbackUndo, RollbackSeal, Cleanup,
            CleanupBackup,
            CleanupState, Fault, FaultyAnswer, FaultyProof, Refuse, broker, UndoPoints
  <2> QED BY <1>1, <1>4, <2>1 DEF Here, There
<1>5. CASE Rename
  BY <1>1, <1>2, <1>5, RenameEffect
<1>6. CASE UndoRename
  BY <1>1, <1>2, <1>6, UndoEffect
<1>7. CASE call = "rollbackUnlink" /\ RollbackMove
  BY <1>1, <1>2, <1>7 DEF RollbackMove, TypeOK, BrokerTypeOK, Places, Here, There
<1>8. CASE stage' = "none" /\ UNCHANGED tree
  BY <1>1, <1>8 DEF Here, There
<1> QED BY <1>3, <1>4, <1>5, <1>6, <1>7, <1>8, FilesChange DEF RollbackMove

\* A crash, or a failing call, ends the calm.
LEMMA FailureOutside ==
  ASSUME Inductive, OutsiderFits, Crash \/ NativeFault \/ JournalFault
  PROVE  OutsiderFits'
<1> USE DEF Inductive, OutsiderFits
<1>1. ~Calm'
  BY BoundsAssumption DEF Calm, Crash, NativeFault, JournalFault, TypeOK
<1>2. CASE Crash \/ JournalFault
  <2>1. /\ UNCHANGED broker /\ UNCHANGED <<aside, edits>>
        /\ call' \in {"idle", "rollback", "reconcile", "cleanup"}
    BY <1>2 DEF Crash, JournalFault, PutRefused, Restarted, Ask
  <2> QED BY <1>1, <2>1
       DEF ChangesFit, DisplacedFits, HeldFits, CreatedFits, Here, There, broker
<1>3. CASE NativeFault
  <2>1. ChangesFit'
    BY <1>3, ChangesStayFit DEF NativeFault
  <2>2. \/ call' = "idle"
        \/ call = "commitProof" /\ call' = "commitUndo" /\ UNCHANGED broker
    BY <1>3 DEF NativeFault, Fault, FaultyAnswer, FaultyProof, Answer, Continue
  <2>3. DisplacedFits'
    BY <1>1, <2>2 DEF DisplacedFits, Swap, broker
  <2> QED BY <1>1, <2>1, <2>3 DEF HeldFits, CreatedFits
<1> QED BY <1>2, <1>3

\* The file that the rename displaced, or a rename that was refused.
LEMMA RenameOutside ==
  ASSUME Inductive, Inductive', OutsiderFits, CommitRename, UNCHANGED <<client, aside, budget>>
  PROVE  DisplacedFits' /\ HeldFits' /\ CreatedFits'
<1> USE DEF Inductive, OutsiderFits
<1>1. CASE UNCHANGED broker /\ Answer("error")
  <2>1. ~(Calm /\ Outside(stage))
    BY DEF CommitRename, HeldFits, Proving, Stuck
  <2>2. ~(Calm /\ op \in {"create", "mkdir"} /\ phase \in Half /\ applied)
    BY DEF CommitRename, CreatedFits
  <2> QED BY <1>1, <2>1, <2>2
       DEF DisplacedFits, HeldFits, CreatedFits, Calm, Answer, broker, budget
<1>2. CASE /\ Renamable /\ Rename /\ applied' = TRUE
           /\ Continue(AfterRename) /\ UNCHANGED <<op, backup, phase>>
  <2>1. /\ op = "move"  => Here' = "none" /\ There' = Here /\ stage' = stage
        /\ op # "move" => Here' = stage /\ There' = There /\ stage' = Here
    BY <1>2, RenameEffect
  <2>2. /\ op \in {"create", "mkdir"} => Here = "none" /\ call' = "commitSeal"
        /\ op \notin {"create", "mkdir"} => call' = "commitProof"
        /\ op = "replace" => Here # "none"
        /\ op = "delete" => Here # "none" /\ stage = "none"
    BY <1>2 DEF Renamable, AfterRename, Continue
  <2>3. op \in {"create", "replace", "mkdir"} => stage = "staged"
    BY DEF CommitRename, DisplacedFits
  <2>4. op \in Operations /\ UNCHANGED <<op, aside, edits, crashes, faults>>
    BY <1>2 DEF TypeOK, BrokerTypeOK, budget
  <2>5. DisplacedFits'
    <3>1. op = "replace" => stage' \notin {"none"} \cup Result
      BY <2>1, <2>2, <2>3, <2>4 DEF Placement, Result
    <3>2. op = "delete" => stage' \notin {"none"} \cup Result
      BY <2>1, <2>2 DEF Placement, Present, Result
    <3> QED BY <2>2, <2>4, <3>1, <3>2, OperationsAssumption DEF DisplacedFits, Swap
  <2>6. HeldFits'
    <3> SUFFICES ASSUME Calm', Outside(stage') PROVE HeldFits'
      BY DEF HeldFits
    <3>1. ~Outside("none")
      BY DEF Outside, OutsiderData
    <3>2. Swap /\ stage' = Here
      BY <2>1, <2>2, <2>4, <3>1, OperationsAssumption DEF Swap, Placement
    <3>3. Here' = (IF op = "replace" THEN "staged" ELSE "none")
      BY <2>1, <2>2, <2>3, <3>2 DEF Swap
    <3>4. edits = 1 => aside = "none"
      BY <3>2 DEF ChangesFit
    <3>5. Proving' /\ Swap'
      BY <2>2, <2>4, <3>2 DEF Swap, Proving
    <3> QED BY <2>4, <3>3, <3>4, <3>5 DEF HeldFits
  <2>7. CreatedFits'
    BY <2>2, <2>4 DEF CreatedFits
  <2> QED BY <2>5, <2>6, <2>7
<1> QED BY <1>1, <1>2 DEF CommitRename, Refuse

\* What the rename displaced is looked at, and put back if it is another program's.
LEMMA ProofOutside ==
  ASSUME Inductive, OutsiderFits, CommitProof, UNCHANGED <<client, aside, budget>>
  PROVE  DisplacedFits' /\ HeldFits' /\ CreatedFits'
<1> USE DEF Inductive, OutsiderFits
<1>1. /\ UNCHANGED <<op, tree, stage, phase, applied, aside, edits, crashes, faults>>
      /\ call = "commitProof" /\ call' = (IF IsExpected(Displaced) THEN "commitSeal" ELSE "commitUndo")
  BY DEF CommitProof, Continue, broker, budget
<1>2. stage \in Nodes
  BY DEF TypeOK, BrokerTypeOK
<1>3. Swap => Displaced = stage
  BY DEF Swap, Displaced
<1>4. DisplacedFits'
  <2>1. call' = "commitUndo" /\ Swap => stage \notin {"none", "expected"} \cup Result
    BY <1>1, <1>3 DEF IsExpected, DisplacedFits
  <2>2. call' = "commitUndo" /\ Swap => Outside(stage)
    BY <1>2, <2>1 DEF Nodes, Result, Outside, OutsiderData
  <2> QED BY <1>1, <2>1, <2>2 DEF DisplacedFits, Swap
<1>5. HeldFits'
  <2> SUFFICES ASSUME Calm', Outside(stage') PROVE HeldFits'
    BY DEF HeldFits
  <2>1. Swap /\ call' = "commitUndo"
    BY <1>1, <1>3 DEF HeldFits, Calm, IsExpected, Outside, OutsiderData
  <2> QED BY <1>1, <2>1 DEF HeldFits, Calm, Proving, Swap, Here
<1>6. CreatedFits'
  BY <1>1 DEF CreatedFits, Calm, DisplacedFits
<1> QED BY <1>4, <1>5, <1>6

\* While one change was made at most, the file is put back; after the second, it may not
\* be, or a later one of another program takes its place.
LEMMA UndoOutside ==
  ASSUME Inductive, Inductive', OutsiderFits, CommitUndo, UNCHANGED <<client, aside, budget>>
  PROVE  DisplacedFits' /\ HeldFits' /\ CreatedFits'
<1> USE DEF Inductive, OutsiderFits
<1>1. /\ call = "commitUndo" /\ call' = "idle" /\ reply' = "error"
      /\ UNCHANGED <<op, phase, step, journal, verdict, aside, edits, crashes, faults>>
  BY DEF CommitUndo, Answer, client, budget
<1>2. DisplacedFits'
  BY <1>1 DEF DisplacedFits
<1>3. op \notin {"create", "mkdir"}
  BY <1>1 DEF DisplacedFits
<1>4. CreatedFits'
  BY <1>1, <1>3 DEF CreatedFits
<1>5. HeldFits'
  <2> SUFFICES ASSUME Calm', Outside(stage') PROVE HeldFits'
    BY DEF HeldFits
  <2>1. Calm /\ edits \in {0, 1, 2} /\ ~Outside("none") /\ ~Outside("staged")
    BY <1>1 DEF Calm, TypeOK, Outside, OutsiderData
  <2>2. Swap
    <3>1. op # "move"
      BY <1>1, <2>1 DEF Placement
    <3> QED BY <1>3, <3>1, OperationsAssumption DEF TypeOK, BrokerTypeOK, Swap
  <2>3. step = "committing" /\ journal = "prepared" /\ verdict = "none" /\ phase \in Half
    BY <1>1, AwaitedBy DEF JournalFits, PhaseFits
  <2>4. edits = 2 /\ Here' \notin {"expected", "staged"} => HeldFits'
    BY <1>1, <2>2, <2>3 DEF HeldFits, Swap, Stuck, Proving
  <2>5. Outside(stage) /\ Here # "expected"
    BY <1>1, <2>1, <2>2 DEF DisplacedFits, HeldFits, Proving
  <2>6. CASE UndoPossible /\ UndoRename
    <3>1. Here' = stage /\ stage' = Here
      BY <2>2, <2>6, UndoEffect DEF Swap
    <3>2. edits = 2
      BY <1>1, <2>1, <2>2, <2>5, <3>1 DEF HeldFits, ChangesFit, Proving, Swap
    <3>3. Here' \notin {"expected", "staged"}
      BY <2>5, <3>1 DEF Outside, OutsiderData
    <3> QED BY <2>4, <3>2, <3>3
  <2>7. CASE ~UndoPossible /\ UNCHANGED <<tree, stage>>
    <3>1. IF op = "replace" THEN Here = "none" ELSE Here # "none"
      BY <2>2, <2>5, <2>7, <2>1 DEF UndoPossible, Swap
    <3>2. edits = 2
      BY <1>1, <2>1, <2>2, <2>5, <3>1 DEF HeldFits, ChangesFit, Proving, Swap
    <3>3. Here' \notin {"expected", "staged"}
      BY <2>2, <2>5, <2>7, <3>1 DEF Here, Swap, Placement, Present, Result
    <3> QED BY <2>4, <3>2, <3>3
  <2> QED BY <2>6, <2>7 DEF CommitUndo
<1> QED BY <1>2, <1>4, <1>5

\* The answers of a reconciliation, the handlers that move nothing, and the cleanup.
LEMMA HandlerOutside ==
  ASSUME Inductive, Inductive', OutsiderFits, UNCHANGED <<client, aside, budget>>,
         \/ Prepare \/ PrepareState \/ Commit \/ CommitSeal \/ Reconcile
         \/ Rollback \/ RollbackUndo \/ RollbackSeal
         \/ Cleanup \/ CleanupBackup \/ CleanupState
  PROVE  DisplacedFits' /\ HeldFits' /\ CreatedFits'
<1> USE DEF Inductive, OutsiderFits
<1>1. /\ call \notin {"commitRename", "commitProof", "commitUndo"}
      /\ call' \notin {"commitProof", "commitUndo"}
      /\ op' = op /\ UNCHANGED <<step, journal, verdict, aside, edits, crashes, faults>>
  BY DEF Prepare, PrepareState, Commit, CommitSeal, Reconcile, Rollback, RollbackUndo,
         RollbackSeal,
         Cleanup, CleanupBackup, CleanupState, Answer, Continue, Refuse, broker, UndoPoints,
         client, budget
<1>2. DisplacedFits'
  <2>1. call' = "commitRename" /\ op \in {"create", "replace", "mkdir"} => stage' = "staged"
    BY <1>1
      DEF Prepare, PrepareState, Commit, CommitSeal, Reconcile, Rollback, RollbackUndo,
          RollbackSeal,
         Cleanup, CleanupBackup, CleanupState, Answer, Continue, Refuse, broker,
         UndoPoints, Installable, files
  <2> QED BY <1>1, <2>1 DEF DisplacedFits
<1>3. HeldFits'
  <2> SUFFICES ASSUME Calm', Outside(stage') PROVE HeldFits'
    BY DEF HeldFits
  <2>1. Calm /\ ~Outside("none") /\ ~Outside("staged") /\ ~Outside("expected")
    BY <1>1 DEF Calm, Outside, OutsiderData
  <2>2. CASE Outside(stage)
    <3>1. Swap /\ Stuck
      BY <1>1, <2>1, <2>2 DEF HeldFits, Proving
    <3>2. Reconcile
      BY <3>1 DEF Stuck, Prepare, PrepareState, Commit, CommitSeal, Rollback, RollbackUndo,
          RollbackSeal, Cleanup, CleanupBackup, CleanupState, UndoPoints
    <3>3. /\ Loaded /\ phase # "rolledBack" /\ op \in {"replace", "delete"}
          /\ Here # "expected" /\ Here # "staged" /\ stage # "expected"
      BY <2>1, <2>2, <3>1 DEF Stuck, Swap, Loaded, Half
    <3>4. ~ProvesCommitted /\ ~ProvesUntouched
      BY <3>3 DEF ProvesCommitted, ProvesUntouched, IsResult, IsExpected
    <3>5. UNCHANGED broker /\ call' = "idle" /\ reply' = "indeterminate"
      BY <3>2, <3>3, <3>4 DEF Reconcile, Answer
    <3>6. step # "committing"
      BY <3>2, AwaitedBy DEF Reconcile
    <3>7. Stuck' /\ Swap' /\ ~Proving'
      BY <1>1, <3>1, <3>5, <3>6 DEF Stuck, Swap, Proving, broker, Here
    <3> QED BY <3>7 DEF HeldFits
  <2>3. CASE ~Outside(stage)
    <3>1. stage' \in {stage, "none", "staged"} \/ (RollbackUndo /\ stage' # stage)
      BY DEF Prepare, PrepareState, Commit, CommitSeal, Reconcile, Rollback,
          RollbackSeal, Cleanup, CleanupBackup, CleanupState, Refuse, broker, files
    <3>2. CASE RollbackUndo
      <4>1. call = "rollbackRestore" /\ op = "move"
        BY <2>1, <3>2 DEF RollbackUndo, UndoPoints, CreatedFits, StageSafe
      <4>2. stage' = stage
        BY <3>2, <4>1 DEF RollbackUndo, RollbackMove, UndoRename, Refuse, broker
      <4> QED BY <2>3, <4>2
    <3> QED BY <2>1, <2>3, <3>1, <3>2
  <2> QED BY <2>2, <2>3
<1>4. CreatedFits'
  <2> SUFFICES ASSUME Calm' PROVE CreatedFits'
    BY DEF CreatedFits
  <2>1. Calm
    BY <1>1 DEF Calm
  <2>2. CASE Commit /\ call' = "commitRename"
    <3>1. phase = "prepared" /\ applied' = applied
      BY <2>2 DEF Commit, Answer, Continue, Refuse
    <3> QED BY <2>2, <3>1 DEF CreatedFits, AppliedFits
  <2>3. CASE CommitSeal
    <3>1. phase' = "committed" /\ call' = "idle"
      BY <2>3 DEF CommitSeal, Persist, Answer
    <3> QED BY <3>1 DEF CreatedFits, Half
  <2>4. CASE ~(Commit /\ call' = "commitRename") /\ ~CommitSeal
    <3> USE DEF Prepare, PrepareState, Commit, Reconcile, Rollback, RollbackUndo,
                RollbackSeal,
            Cleanup, CleanupBackup, CleanupState
    <3>1. call # "commitSeal"
      BY <2>4 DEF UndoPoints
    <3>2. applied' => applied
      BY <2>4 DEF Refuse, broker
    <3>3. phase' \in {phase, "prepared", "committed", "rolledBack", "none"}
      BY <2>4 DEF Refuse, broker, Persist, Answer, Continue
    <3>4. call' # "rollbackUnlink"
      <4> SUFFICES ASSUME call' = "rollbackUnlink" PROVE FALSE
        OBVIOUS
      <4>1. Rollback /\ Undoing /\ NeedsUnlink
        BY <2>4 DEF Refuse, Answer, Continue
      <4>2. applied
        BY <4>1 DEF NeedsUnlink, IsResult, Result, AppliedFits
      <4>3. phase \in Half
        BY <4>1 DEF Undoing, TypeOK, BrokerTypeOK, Phases, Half
      <4> QED BY <2>1, <3>1, <4>1, <4>2, <4>3 DEF CreatedFits, NeedsUnlink
    <3> QED BY <1>1, <2>1, <3>1, <3>2, <3>3, <3>4 DEF CreatedFits, Half
  <2> QED BY <2>2, <2>3, <2>4
<1> QED BY <1>2, <1>3, <1>4

\* Another program's own change: the first one leaves its earlier files out of the
\* broker's hands, the second one ends the calm of a stuck operation.
LEMMA OutsiderOutside ==
  ASSUME Inductive, OutsiderFits, Outsider
  PROVE  OutsiderFits'
<1> USE DEF Inductive, OutsiderFits
<1>1. /\ UNCHANGED <<call, op, stage, phase, applied, crashes, faults>>
      /\ edits' = edits + 1 /\ edits \in Nat
  BY BoundsAssumption DEF Outsider, TypeOK
<1>2. /\ \/ aside' = aside
         \/ aside' = Here /\ Here' = "none" /\ There' = There
         \/ aside' = "none" /\ Here' = aside
      /\ Here' = aside \/ Here' = Here \/ Here' \in {"foreign", "foreignDir", "none", Edited(Here)}
  BY <1>1, OutsiderEffect
<1>3. ~Outside("none")
  BY DEF Outside, OutsiderData
<1>4. ChangesFit'
  BY <1>1, <1>2, <1>3 DEF ChangesFit
<1>5. DisplacedFits'
  BY <1>1 DEF DisplacedFits, Calm, Swap
<1>6. HeldFits'
  <2> SUFFICES ASSUME Calm', Outside(stage') PROVE HeldFits'
    BY DEF HeldFits
  <2>1. Calm /\ Outside(stage) /\ edits' # 1
    BY <1>1 DEF Calm, ChangesFit
  <2>2. Swap /\ Proving /\ edits = 1 /\ aside = "none" /\ Here # "expected"
    BY <1>1, <2>1 DEF Calm, HeldFits, Stuck
  <2>3. Here' # "expected"
    BY <1>2, <2>2 DEF Edited
  <2> QED BY <1>1, <2>1, <2>2, <2>3 DEF HeldFits, Swap, Proving
<1>7. CreatedFits'
  BY <1>1 DEF CreatedFits, Calm
<1> QED BY <1>4, <1>5, <1>6, <1>7

\* Every step preserves what is known of another program's files.
LEMMA NextOutside ==
  ASSUME Inductive, OutsiderFits, [Next]_vars
  PROVE  OutsiderFits'
<1>1. Inductive'
  BY NextInductive
<1>2. CASE Client \/ Recheck \/ Restart
  BY <1>2, ClientOutside
<1>3. CASE Broker
  <2>1. UNCHANGED <<client, aside, budget>> /\ UNCHANGED <<aside, edits>> /\ BrokerStep
    BY <1>3 DEF Broker, budget
  <2>2. ChangesFit'
    BY <2>1, ChangesStayFit DEF OutsiderFits
  <2>3. DisplacedFits' /\ HeldFits' /\ CreatedFits'
    BY <1>1, <2>1, RenameOutside, ProofOutside, UndoOutside, HandlerOutside DEF BrokerStep
  <2> QED BY <2>2, <2>3 DEF OutsiderFits
<1>4. CASE Outsider
  BY <1>4, OutsiderOutside
<1>5. CASE Crash \/ NativeFault \/ JournalFault
  BY <1>5, FailureOutside
<1>6. CASE UNCHANGED vars
  BY <1>6
    DEF vars, broker, client, budget, OutsiderFits, ChangesFit, DisplacedFits, HeldFits,
              CreatedFits, Here, There, Calm, Swap, Proving, Stuck
<1> QED BY <1>2, <1>3, <1>4, <1>5, <1>6 DEF Next

\* The copies of a file, before and after a step.
LEMMA CopiesCounted ==
  ASSUME Inductive, [Next]_vars, NEW n
  PROVE  /\ Copies(n) = Bit(Here = n) + Bit(There = n) + Bit(stage = n) + Bit(aside = n)
         /\ Copies(n)' = Bit(Here' = n) + Bit(There' = n) + Bit(stage' = n) + Bit(aside' = n)
<1>1. tree \in [Places -> Nodes] /\ tree' \in [Places -> Nodes]
  BY NextInductive DEF Inductive, TypeOK, BrokerTypeOK
<1> QED BY <1>1, CountNames DEF Copies, Bit, Here, There

\* While it is calm, a handler moves another program's files and never removes one.
LEMMA FilesKept ==
  ASSUME Inductive, OutsiderFits, BrokerStep \/ Fault, Calm, NEW n \in OutsiderData
  PROVE  Bit(Here' = n) + Bit(There' = n) + Bit(stage' = n)
           >= Bit(Here = n) + Bit(There = n) + Bit(stage = n)
<1> USE DEF Inductive, OutsiderFits
<1>1. TypeOK /\ n # "none"
  BY DEF OutsiderData
<1>2. CASE UNCHANGED <<tree, stage>>
  BY <1>2 DEF Here, There, Bit
<1>3. CASE call = "prepare" /\ stage = "none" /\ UNCHANGED tree
  BY <1>1, <1>3 DEF Here, There, Bit
<1>4. CASE Renamable /\ Rename
  <2>1. op = "move" => There = "none"
    BY <1>4 DEF Renamable
  <2> QED BY <1>1, <1>4, <2>1, RenameEffect DEF Bit
<1>5. CASE UndoRename /\ (op = "move" => Here = "none")
  BY <1>1, <1>5, UndoEffect DEF Bit
<1>6. CASE UndoPossible /\ UndoRename
  BY <1>5, <1>6 DEF UndoPossible
<1>7. CASE call \in UndoPoints /\ RollbackMovable /\ RollbackMove
  <2>1. call = "rollbackRestore"
    BY <1>7 DEF UndoPoints, CreatedFits, StageSafe
  <2> QED BY <1>5, <1>7, <2>1 DEF RollbackMovable, RollbackMove
<1>8. CASE call = "cleanup" /\ stage' = "none" /\ UNCHANGED tree
  <2>1. stage # n
    BY <1>8 DEF HeldFits, Proving, Stuck, Outside
  <2> QED BY <1>8, <2>1 DEF Here, There, Bit
<1> QED BY <1>2, <1>3, <1>4, <1>6, <1>7, <1>8, FilesChange

\* In a session without a crash or a failing call the broker destroys no file another
\* program wrote, while that program made two changes at most (HandleCommit's exchange,
\* proof and swap back; HandleRollback; HandleCleanup).
THEOREM OutsiderDataSafe == Spec => OutsiderDataPreserved
<1>1. Spec => []OutsiderFits
  <2>1. Inductive /\ OutsiderFits /\ [Next]_vars => OutsiderFits'
    BY NextOutside
  <2> QED BY <2>1, OutsiderFitsInit, InductiveInvariance, PTL DEF Spec
<1>2. ASSUME Inductive, OutsiderFits, [Next]_vars,
             edits' = edits, edits <= 2, crashes' = 0, faults' = 0,
             NEW n \in OutsiderData
      PROVE  OutsiderCopies'[n] >= OutsiderCopies[n]
  <2>1. Calm
    BY <1>2, BoundsAssumption
      DEF Calm, Inductive, TypeOK, Next, Client, Broker, Recheck, Restart, Outsider, Crash,
          NativeFault, JournalFault, vars, budget
  <2>2. ~Outsider
    BY <1>2, BoundsAssumption DEF Outsider, Inductive, TypeOK
  <2>3. Copies(n)' >= Copies(n)
    <3>1. /\ Copies(n) = Bit(Here = n) + Bit(There = n) + Bit(stage = n) + Bit(aside = n)
          /\ Copies(n)' = Bit(Here' = n) + Bit(There' = n) + Bit(stage' = n) + Bit(aside' = n)
      BY <1>2, CopiesCounted
    <3>2. CASE UNCHANGED broker /\ UNCHANGED aside
      BY <3>1, <3>2 DEF broker, Here, There, Bit
    <3>3. CASE UNCHANGED aside /\ (BrokerStep \/ Fault)
      <4>1. Bit(Here' = n) + Bit(There' = n) + Bit(stage' = n)
              >= Bit(Here = n) + Bit(There = n) + Bit(stage = n)
        BY <1>2, <2>1, <3>3, FilesKept
      <4> QED BY <3>1, <3>3, <4>1 DEF Bit
    <3> QED BY <1>2, <2>2, <3>2, <3>3, StepsOfNext
  <2> QED BY <2>3 DEF OutsiderCopies
<1>3. Inductive /\ OutsiderFits /\ [Next]_vars =>
        [edits' = edits /\ edits <= 2 /\ crashes' = 0 /\ faults' = 0
           => \A n \in OutsiderData : OutsiderCopies'[n] >= OutsiderCopies[n]]_vars
  BY <1>2
<1> QED BY <1>1, <1>3, InductiveInvariance, PTL DEF OutsiderDataPreserved, Spec

-----------------------------------------------------------------------------
(* The refinement.                                                         *)

\* A step of the protocol is a step of the abstract mutation or leaves its state.
LEMMA StepSimulation ==
  ASSUME Inductive, [Next]_vars
  PROVE  [Atomic!Next]_Atomic!vars
<1> USE DEF Atomic!Next, Atomic!vars, Atomic!Apply, Atomic!Revert, Atomic!Commit,
            Atomic!Abort, Atomic!Disturb, Atomic!Undecided
<1>1. CASE (ClientProgress \/ Peek \/ PutRefused) /\ UNCHANGED <<broker, edits>>
  <2>1. \/ verdict' = verdict
        \/ verdict = "none" /\ verdict' = "committed" /\ reply = "committed"
        \/ verdict = "none" /\ verdict' = "rolledBack" /\ phase = "rolledBack"
    BY <1>1
      DEF Inductive, PhaseFits, ClientProgress, AskPrepare, OnPrepare, PutPrepared,
            PutRefused, OnDiscard, OnSweep, OnCommit, OnCheck, OnReconcile, OnUndo,
            OnConfirm, OnCleanup, RemoveRecord, Peek, OnPeek, OnPeekUndo, OnPeekConfirm,
            Retain, Record
  <2>2. /\ reply = "committed" => applied
        /\ Quiet /\ phase = "rolledBack" => ~applied
    BY DEF Inductive, PhaseFits, AppliedFits, QuietTree
  <2> QED BY <1>1, <2>1, <2>2 DEF broker, Quiet
<1>2. CASE Restarted /\ UNCHANGED <<broker, edits>>
  BY <1>2 DEF Restarted, broker, Quiet
<1>3. CASE (BrokerStep \/ Fault) /\ UNCHANGED <<client, edits>>
  <2>1. applied' \in BOOLEAN /\ applied \in BOOLEAN
    BY NextInductive DEF Inductive, TypeOK, BrokerTypeOK
  <2>2. applied' # applied => verdict = "none"
    BY <1>3, FilesChange, AwaitedBy
       DEF Inductive, TypeOK, ClientTypeOK, JournalFits, PhaseFits, VerdictMatchesPhase,
           Half
  <2> QED BY <1>3, <2>1, <2>2 DEF client, Quiet
<1>4. CASE Outsider
  <2>1. ~Quiet' /\ UNCHANGED <<applied, verdict>>
    BY <1>4, BoundsAssumption DEF Outsider, Inductive, TypeOK, Quiet, client
  <2> QED BY <2>1
<1>5. CASE UNCHANGED vars
  BY <1>5 DEF vars, broker, client, budget, Quiet
<1> QED BY <1>1, <1>2, <1>3, <1>4, <1>5
     DEF Next, Client, Recheck, JournalFault, Restart, Reopen, Crash, Broker, NativeFault,
         budget

\* The protocol implements the abstract mutation: it reports committed only what
\* it installed, undone only what is not installed or was disturbed, and touches
\* no file once a verdict is recorded.
THEOREM AtomicImplemented == Spec => ImplementsAtomic
<1>1. Init => Atomic!Init
  BY DEF Init, BrokerInit, ClientInit, Quiet, Atomic!Init
<1> QED BY <1>1, StepSimulation, InductiveInvariance, PTL
  DEF ImplementsAtomic, Spec, Atomic!Spec
=============================================================================
