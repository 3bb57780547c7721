------------------------ MODULE WindowsMutation_proofs ------------------------
(***************************************************************************)
(* Proofs about WindowsMutation, for every set of operations, whether or   *)
(* not the file system shares directories, and for every bound on the      *)
(* changes, open files, crashes and failing calls.                         *)
(*                                                                         *)
(* `Inductive` is shown to hold initially and to be preserved by every     *)
(* step; the invariants follow from it, and the step property and the      *)
(* refinement are shown step by step from it.  The broker's handlers are   *)
(* taken one lemma each, together with the system calls that fail in them. *)
(***************************************************************************)
EXTENDS WindowsMutation, WorkspaceTree_proofs

-----------------------------------------------------------------------------
(* The inductive invariant.                                                *)

Half == {"targetQuarantining", "targetQuarantined", "stageInstalling"}
Original == {"expected", "expectedEdited"}
Result == {"staged", "stagedEdited"}
RollbackPoints == {"rollback", "rollbackSeal"} \cup UndoPoints

\* Which handler a client's step waits for.
CallFits ==
  /\ call # "idle" => reply = "none"
  /\ step \in {"start", "put", "removing", "waiting", "done", "failed", "lost"}
       => call = "idle" /\ reply = "none"
  /\ step = "preparing" => call \in {"idle", "prepare", "prepareSave"}
  /\ step = "committing"
       => call \in {"idle", "commit", "quarantine", "quarantined", "reinstall",
                    "install", "commitSeal"}
  /\ step \in {"checking", "reconciling", "confirming", "peeking", "peekConfirming"}
       => call \in {"idle", "reconcile"}
  /\ step \in {"discarding", "undoing", "peekUndoing"} => call \in {"idle"} \cup RollbackPoints
  /\ step \in {"sweeping", "cleaning"}
       => call \in {"idle", "cleanup", "cleanupBackup", "cleanupOld", "cleanupState"}

\* What the journal holds at each step, and when there is a verdict.
JournalFits ==
  /\ step \in {"start", "preparing", "put", "discarding", "sweeping", "failed", "lost"}
       => journal = "none" /\ verdict = "none"
  /\ step \in {"committing", "checking"} => journal = "prepared" /\ verdict = "none"
  /\ step \in {"reconciling", "undoing", "confirming",
               "peeking", "peekUndoing", "peekConfirming"} => journal = "prepared"
  /\ step \in {"cleaning", "removing"} => journal # "none" /\ verdict # "none"
  /\ step = "waiting" => journal # "none"
  /\ step = "done" => journal = "none" /\ verdict # "none"
  /\ journal = "terminal" => verdict # "none"

\* The phase a step of the client or a point of a handler relies on.
PhaseFits ==
  /\ step = "start" => Clean
  /\ call \in {"prepare", "prepareSave"} => phase = "none"
  /\ step = "put" \/ (step = "preparing" /\ reply = "ok") => phase = "prepared"
  /\ step = "discarding" => phase \in {"prepared", "rolledBack"}
  /\ step = "sweeping" => phase \in {"none", "rolledBack"}
  /\ call = "commit" => phase = "prepared"
  /\ call \in {"quarantine", "quarantined", "reinstall", "install", "commitSeal"} => phase \in Half
  /\ call \in UndoPoints => phase \in Half
  /\ call = "rollbackSeal" => phase \in Half \cup {"prepared"}
  /\ step \in {"discarding", "undoing", "peekUndoing"} /\ reply = "ok" => phase = "rolledBack"
  /\ step \in {"confirming", "peekConfirming"} => phase = "rolledBack"
  /\ reply = "committed" => phase = "committed"
  /\ reply = "rolledBack" => phase = "rolledBack"

\* A recorded verdict agrees with the phase that is saved.
VerdictFits ==
  phase # "none" => /\ verdict = "committed" => phase = "committed"
                    /\ verdict = "rolledBack" => phase = "rolledBack"

\* A cleanup removes the entries one by one, except those it could not open, and the
\* state last; a decided operation has no half-written state file, unless the search
\* for one failed.
CleanupFits ==
  /\ call \in {"cleanupBackup", "cleanupOld", "cleanupState"} =>
       phase # "none" /\ (stage = "none" \/ "stage" \in skipped)
  /\ call \in {"cleanupOld", "cleanupState"} => ~backup \/ "backup" \in skipped
  /\ call = "cleanupState" => old = "none" \/ "old" \in skipped
  /\ phase \in {"committed", "rolledBack"} => ~temp \/ "temp" \in skipped
  /\ (\/ step \in {"removing", "done"} \/ (step = "cleaning" /\ reply = "ok")
      \/ journal # "none" /\ phase = "none")
       => /\ stage = "none" \/ "stage" \in skipped
          /\ ~backup \/ "backup" \in skipped
          /\ old = "none" \/ "old" \in skipped
          /\ ~temp \/ "temp" \in skipped
  /\ journal # "none" /\ phase = "none" => verdict # "none"

\* What each operation keeps in the hidden directory; the original and the result are
\* in one place.
HiddenFits ==
  /\ stage \in IF op = "delete" THEN {"none"} \cup Original
               ELSE IF op = "move" THEN {"none"} ELSE {"none", "staged"}
  /\ old \in IF op = "replace" THEN {"none"} \cup Original ELSE {"none"}
  /\ op # "move" => There = "none"
  /\ There = "expected" => Here # "expected"
  /\ Here \in Result => stage # "staged"

\* The entry that a commit renames is the one the broker has open.
CommitFits ==
  /\ call = "quarantine" =>
       /\ op \in {"replace", "delete"} /\ Here \in Original
       /\ IF op = "replace" THEN old = "none" ELSE stage = "none"
  /\ call = "quarantined" => op \in {"replace", "delete"}
  /\ call = "install" => op # "delete" /\ (op # "move" => stage = "staged")

\* The hidden directory of an operation whose result is not installed, and whose
\* original was not edited on the way into it.
Unapplied ==
  IF op \in {"delete", "move"}
    THEN stage = "none" /\ There # "expected"
    ELSE stage = "staged" /\ old # "expectedEdited"

\* Where a rollback begins and what it leaves: there is never a result to delete,
\* and only a replaced file to put back.
RollbackFits ==
  /\ call \in {"prepareSave", "commit"} \/ step = "put" \/ (step = "preparing" /\ reply = "ok")
       => Unapplied /\ old = "none"
  /\ call \in RollbackPoints \/ reply = "notCommitted" => Unapplied
  /\ phase = "prepared" => old = "none"
  /\ call # "rollbackDelete"
  /\ call = "rollbackRestore" => op = "replace" /\ old = "expected"
  /\ call = "rollbackSeal" \/ phase = "rolledBack" =>
       old = "none" /\ (op = "delete" => stage = "none")

\* Where the result is found, the broker put it.
AppliedFits ==
  /\ Here \in Result \/ There = "expected" => applied
  /\ op = "delete" /\ stage # "none" => applied
  /\ step \in {"start", "preparing", "put"} => ~applied
  /\ reply = "committed" => applied

\* A commit that is confirmed has not caught an edited file.
CommittedFits ==
  reply = "committed" \/ verdict = "committed" =>
    stage # "expectedEdited" /\ old # "expectedEdited"

\* While nobody else writes, the result is where the broker put it, and no
\* rollback is begun once it is there.
QuietFits ==
  Quiet =>
    /\ applied => Here = After(op)["path"] /\ There = After(op)["dest"]
    /\ call = "install" /\ op = "move" => Here = "expected"
    /\ call \in RollbackPoints \/ reply = "notCommitted" \/ phase = "rolledBack" => ~applied

Protocol == CallFits /\ JournalFits /\ PhaseFits /\ VerdictFits /\ CleanupFits
Content == HiddenFits /\ CommitFits /\ RollbackFits /\ AppliedFits /\ CommittedFits /\ QuietFits
Inductive == TypeOK /\ Protocol /\ Content

\* What a step of the broker went on without is noted.
SkipsNoted ==
  /\ skipped \subseteq skipped' /\ skipped' \subseteq HiddenEntries \cup {"temp"}
  /\ TempMissed => "temp" \in skipped'

-----------------------------------------------------------------------------
(* The invariant initially, and what it says of a handler in progress.     *)

LEMMA InitInductive == Init => Inductive
<1> SUFFICES ASSUME Init PROVE Inductive
  OBVIOUS
<1> USE DEF Init, ChannelInit, BrokerInit, ClientInit
<1>1. TypeOK
  <2>1. tree \in [Places -> Nodes]
    BY DEF Before, Places, Nodes
  <2>2. BrokerTypeOK
    BY <2>1 DEF BrokerTypeOK, Nodes, Phases, Points, Replies
  <2>3. ClientTypeOK
    BY DEF ClientTypeOK, Steps
  <2> QED BY <2>2, <2>3, BoundsAssumption DEF TypeOK
<1>2. /\ Here = IF op \in {"create", "mkdir"} THEN "none" ELSE "expected"
      /\ There = "none"
  BY DEF Before, Here, There
<1>3. Protocol
  BY DEF Protocol, CallFits, JournalFits, PhaseFits, VerdictFits, CleanupFits, Clean,
         UndoPoints
<1>4. Content
  BY <1>2 DEF Content, HiddenFits, CommitFits, RollbackFits, RollbackPoints, UndoPoints,
     AppliedFits, Result, CommittedFits, QuietFits
<1> QED BY <1>1, <1>3, <1>4 DEF Inductive

\* A handler in progress tells which step of the client waits for it.
LEMMA AwaitedBy ==
  ASSUME Inductive
  PROVE  /\ call \in {"prepare", "prepareSave"} => step = "preparing"
         /\ call \in {"commit", "quarantine", "quarantined", "reinstall", "install",
                      "commitSeal"} => step = "committing"
         /\ call = "reconcile" =>
              step \in {"checking", "reconciling", "confirming", "peeking", "peekConfirming"}
         /\ call \in RollbackPoints => step \in {"discarding", "undoing", "peekUndoing"}
         /\ call \in {"cleanup", "cleanupBackup", "cleanupOld", "cleanupState"} =>
              step \in {"sweeping", "cleaning"}
  BY DEF Inductive, Protocol, TypeOK, ClientTypeOK, CallFits, Steps, RollbackPoints,
         UndoPoints

\* The Dart side leaves the files alone; what it learned from an answer is known already.
LEMMA ClientInductive ==
  ASSUME Inductive, ClientProgress \/ PutRefused \/ Peek,
         UNCHANGED <<broker, held, edits, holds, crashes, skipped>>,
         faults' \in 0 .. MaxFaults
  PROVE  Inductive'
<1> USE DEF Inductive, Protocol, Content
<1> USE DEF ClientProgress, AskPrepare, OnPrepare, PutPrepared, PutRefused, OnDiscard,
            OnSweep, OnCommit, OnCheck, OnReconcile, OnUndo, OnConfirm, OnCleanup,
            RemoveRecord, Peek, OnPeek, OnPeekUndo, OnPeekConfirm,
            Ask, Rest, Answered, Record, Retain
<1>1. TypeOK'
  BY DEF TypeOK, BrokerTypeOK, ClientTypeOK, Nodes, Phases, Points, Replies, Steps,
         broker, files
<1>2. CallFits'
  BY DEF CallFits, RollbackPoints, UndoPoints, TypeOK, ClientTypeOK, JournalFits,
         PhaseFits, broker, files
<1>3. JournalFits'
  BY DEF JournalFits, TypeOK, ClientTypeOK, CallFits, broker, files
<1>4. PhaseFits'
  BY DEF PhaseFits, CallFits, JournalFits, RollbackFits, VerdictFits, RollbackPoints,
         UndoPoints, Half, TypeOK, BrokerTypeOK, ClientTypeOK, CleanupFits, Clean,
         broker, files
<1>5. VerdictFits'
  BY DEF VerdictFits, PhaseFits, JournalFits, CallFits, Half, UndoPoints, RollbackFits,
         CleanupFits, Clean, broker, files
<1>6. CleanupFits'
  BY DEF CleanupFits, PhaseFits, JournalFits, CallFits, VerdictFits, Clean, Half,
         TypeOK, ClientTypeOK, BrokerTypeOK, RollbackFits, RollbackPoints, UndoPoints,
         broker, files
<1>7. HiddenFits'
  BY DEF HiddenFits, CommitFits, RollbackFits, AppliedFits, Result, Original, Here,
         There, broker, files
<1>8. CommitFits'
  BY DEF CommitFits, HiddenFits, Original, Here, There, RollbackFits, Unapplied,
         CallFits, broker, files
<1>9. RollbackFits'
  <2>1. call' \in {"prepareSave", "commit"} \/ step' = "put" \/ (step' = "preparing" /\ reply' = "ok")
          => Unapplied' /\ old' = "none"
    BY DEF RollbackFits, RollbackPoints, UndoPoints, Unapplied, HiddenFits, Original,
           Here, There, PhaseFits, CallFits, AppliedFits, Result, Half, broker, files
  <2>2. call' \in RollbackPoints \/ reply' = "notCommitted" => Unapplied'
    <3> SUFFICES ASSUME call' \in RollbackPoints \/ reply' = "notCommitted"
                 PROVE  Unapplied'
      OBVIOUS
    <3>1. call \in RollbackPoints \/ reply = "notCommitted" \/ step = "put"
      BY DEF RollbackPoints, UndoPoints
    <3>2. Unapplied
      BY <3>1 DEF RollbackFits
    <3> QED BY <3>2 DEF Unapplied, There, broker, files
  <2>3. call' # "rollbackDelete"
    BY DEF RollbackFits, RollbackPoints, UndoPoints, Unapplied, HiddenFits, Original,
           Here, There, PhaseFits, CallFits, AppliedFits, Result, Half, broker, files
  <2>4. call' = "rollbackRestore" => op' = "replace" /\ old' = "expected"
    BY DEF RollbackFits, RollbackPoints, UndoPoints, Unapplied, HiddenFits, Original,
           Here, There, PhaseFits, CallFits, AppliedFits, Result, Half, broker, files
  <2>5. call' = "rollbackSeal" \/ phase' = "rolledBack" =>
          old' = "none" /\ (op' = "delete" => stage' = "none")
    BY DEF RollbackFits, RollbackPoints, UndoPoints, Unapplied, HiddenFits, Original,
           Here, There, PhaseFits, CallFits, AppliedFits, Result, Half, broker, files
  <2>6. phase' = "prepared" => old' = "none"
    BY DEF RollbackFits, RollbackPoints, UndoPoints, Unapplied, HiddenFits, Original,
           Here, There, PhaseFits, CallFits, AppliedFits, Result, Half, broker, files
  <2> QED BY <2>1, <2>2, <2>3, <2>4, <2>5, <2>6 DEF RollbackFits
<1>10. AppliedFits'
  BY DEF AppliedFits, HiddenFits, CommitFits, RollbackFits, Here, There, Result,
         Original, PhaseFits, CallFits, broker, files
<1>11. CommittedFits'
  BY DEF CommittedFits, HiddenFits, Original, JournalFits, CallFits, RollbackFits,
         PhaseFits, broker, files
<1>12. QuietFits'
  BY DEF QuietFits, Quiet, After, Here, There, HiddenFits, AppliedFits, RollbackFits,
         Unapplied, Result, RollbackPoints, UndoPoints, PhaseFits, CommitFits, CallFits,
         Half, broker, files
<1> QED BY <1>1, <1>2, <1>3, <1>4, <1>5, <1>6, <1>7, <1>8, <1>9, <1>10, <1>11, <1>12

\* HandlePrepare, and a call failing in it.
LEMMA PrepareInductive ==
  ASSUME Inductive, Prepare \/ PrepareSave \/ (Fault /\ call \in {"prepare", "prepareSave"}),
         UNCHANGED <<client, held, edits, holds, crashes>>, SkipsNoted,
         faults' \in 0 .. MaxFaults
  PROVE  Inductive'
<1> USE DEF Inductive, Protocol, Content
<1> USE DEF Fault, FailedSave, Saving, Prepare, PrepareSave, Prepareable, StageIt,
            UndoPoints, Answer, Continue, Refuse, broker, files, Persist
<1>k. /\ skipped' \subseteq HiddenEntries \cup {"temp"}
      /\ \A entry \in {"stage", "backup", "old", "temp"} : entry \in skipped => entry \in skipped'
      /\ temp' => phase' = phase \/ "temp" \in skipped'
  BY DEF SkipsNoted, TempMissed
<1>1. TypeOK'
  <2>1. call' \in Points /\ reply' \in Replies
    BY DEF TypeOK, BrokerTypeOK, Points, Replies
  <2>2. tree' \in [Places -> Nodes] /\ stage' \in Nodes /\ old' \in Nodes /\ op' = op
    BY DEF TypeOK, BrokerTypeOK, Places, Nodes, Here, There
  <2>3. backup' \in BOOLEAN /\ temp' \in BOOLEAN /\ applied' \in BOOLEAN
    BY DEF TypeOK, BrokerTypeOK
  <2>4. phase' \in Phases
    BY DEF TypeOK, BrokerTypeOK, Phases
  <2>5. ClientTypeOK'
    BY DEF TypeOK, ClientTypeOK, client
  <2> QED BY <1>k, <2>1, <2>2, <2>3, <2>4, <2>5 DEF TypeOK, BrokerTypeOK
<1>2. CallFits'
  BY AwaitedBy
    DEF CallFits, RollbackPoints, UndoPoints, TypeOK, ClientTypeOK, JournalFits,
        PhaseFits, client
<1>3. JournalFits'
  BY AwaitedBy DEF JournalFits, TypeOK, ClientTypeOK, CallFits, client
<1>4. PhaseFits'
  BY AwaitedBy
    DEF PhaseFits, CallFits, JournalFits, RollbackFits, VerdictFits, RollbackPoints,
        UndoPoints, Half, TypeOK, BrokerTypeOK, ClientTypeOK, CleanupFits, Clean, client
<1>5. VerdictFits'
  BY AwaitedBy
    DEF VerdictFits, PhaseFits, JournalFits, CallFits, Half, UndoPoints, RollbackFits,
        CleanupFits, Clean, client
<1>6. CleanupFits'
  BY <1>k, AwaitedBy
    DEF CleanupFits, PhaseFits, JournalFits, CallFits, VerdictFits, Clean, Half, TypeOK,
        ClientTypeOK, BrokerTypeOK, RollbackFits, RollbackPoints, UndoPoints, client
<1>7. HiddenFits'
  BY AwaitedBy
    DEF HiddenFits, CommitFits, RollbackFits, AppliedFits, Result, Original, Here,
        There, client
<1>8. CommitFits'
  BY AwaitedBy
    DEF CommitFits, HiddenFits, Original, Here, There, RollbackFits, Unapplied,
        CallFits, client
<1>9. RollbackFits'
  <2>1. call' \in {"prepareSave", "commit"} \/ step' = "put" \/ (step' = "preparing" /\ reply' = "ok")
          => Unapplied' /\ old' = "none"
    <3>1. step = "preparing" /\ step' = "preparing" /\ ~applied /\ There' = There /\ op' = op
      BY AwaitedBy DEF client, AppliedFits, There
    <3>2. CASE Prepare
      BY <3>1, <3>2 DEF Unapplied, AppliedFits, HiddenFits, CallFits, PhaseFits
    <3>3. CASE PrepareSave
      BY <3>1, <3>3 DEF Unapplied, RollbackFits
    <3>4. CASE Fault
      BY <3>1, <3>4 DEF CallFits
    <3> QED BY <3>2, <3>3, <3>4
  <2>2. call' \in RollbackPoints \/ reply' = "notCommitted" => Unapplied'
    BY AwaitedBy
      DEF RollbackFits, RollbackPoints, UndoPoints, Unapplied, HiddenFits, Original,
          Here, There, PhaseFits, CallFits, AppliedFits, Result, Half, client
  <2>3. call' # "rollbackDelete"
    BY AwaitedBy
      DEF RollbackFits, RollbackPoints, UndoPoints, Unapplied, HiddenFits, Original,
          Here, There, PhaseFits, CallFits, AppliedFits, Result, Half, client
  <2>4. call' = "rollbackRestore" => op' = "replace" /\ old' = "expected"
    BY AwaitedBy
      DEF RollbackFits, RollbackPoints, UndoPoints, Unapplied, HiddenFits, Original,
          Here, There, PhaseFits, CallFits, AppliedFits, Result, Half, client
  <2>5. call' = "rollbackSeal" \/ phase' = "rolledBack" =>
          old' = "none" /\ (op' = "delete" => stage' = "none")
    BY AwaitedBy
      DEF RollbackFits, RollbackPoints, UndoPoints, Unapplied, HiddenFits, Original,
          Here, There, PhaseFits, CallFits, AppliedFits, Result, Half, client
  <2>6. phase' = "prepared" => old' = "none"
    BY AwaitedBy
      DEF RollbackFits, RollbackPoints, UndoPoints, Unapplied, HiddenFits, Original,
          Here, There, PhaseFits, CallFits, AppliedFits, Result, Half, client
  <2> QED BY <2>1, <2>2, <2>3, <2>4, <2>5, <2>6 DEF RollbackFits
<1>10. AppliedFits'
  BY AwaitedBy
    DEF AppliedFits, HiddenFits, CommitFits, RollbackFits, Here, There, Result,
        Original, PhaseFits, CallFits, client
<1>11. CommittedFits'
  BY AwaitedBy
    DEF CommittedFits, HiddenFits, Original, JournalFits, CallFits, RollbackFits,
        PhaseFits, client
<1>12. QuietFits'
  BY AwaitedBy
    DEF QuietFits, Quiet, After, Here, There, HiddenFits, AppliedFits, RollbackFits,
        Unapplied, Result, RollbackPoints, UndoPoints, PhaseFits, CommitFits, CallFits,
        Half, client
<1> QED BY <1>1, <1>2, <1>3, <1>4, <1>5, <1>6, <1>7, <1>8, <1>9, <1>10, <1>11, <1>12

\* HandleCommit except its two renames, and a call failing in it.
LEMMA CommitInductive ==
  ASSUME Inductive, 
         \/ Commit \/ Quarantined \/ Reinstall \/ CommitSeal
         \/ Fault /\ call \in {"commit", "quarantined", "reinstall", "commitSeal"},
         UNCHANGED <<client, held, edits, holds, crashes>>, SkipsNoted,
         faults' \in 0 .. MaxFaults
  PROVE  Inductive'
<1> USE DEF Inductive, Protocol, Content
<1> USE DEF Fault, FailedSave, Saving, Commit, Quarantined, Reinstall, CommitSeal,
            Quarantinable, Installable, Resumable, ResumePoint, FileProof, Opens,
            IsExpected, IsResult, IsFile, ProvedInQuarantine, UndoPoints, Answer,
            Continue, Refuse, broker, files, Persist
<1>k. /\ skipped' \subseteq HiddenEntries \cup {"temp"}
      /\ \A entry \in {"stage", "backup", "old", "temp"} : entry \in skipped => entry \in skipped'
      /\ temp' => phase' = phase \/ "temp" \in skipped'
  BY DEF SkipsNoted, TempMissed
<1>1. TypeOK'
  <2>1. call' \in Points /\ reply' \in Replies
    BY DEF TypeOK, BrokerTypeOK, Points, Replies
  <2>2. tree' \in [Places -> Nodes] /\ stage' \in Nodes /\ old' \in Nodes /\ op' = op
    BY DEF TypeOK, BrokerTypeOK, Places, Nodes, Here, There
  <2>3. backup' \in BOOLEAN /\ temp' \in BOOLEAN /\ applied' \in BOOLEAN
    BY DEF TypeOK, BrokerTypeOK
  <2>4. phase' \in Phases
    BY DEF TypeOK, BrokerTypeOK, Phases
  <2>5. ClientTypeOK'
    BY DEF TypeOK, ClientTypeOK, client
  <2> QED BY <1>k, <2>1, <2>2, <2>3, <2>4, <2>5 DEF TypeOK, BrokerTypeOK
<1>2. CallFits'
  BY AwaitedBy
    DEF CallFits, RollbackPoints, UndoPoints, TypeOK, ClientTypeOK, JournalFits,
        PhaseFits, client
<1>3. JournalFits'
  BY AwaitedBy DEF JournalFits, TypeOK, ClientTypeOK, CallFits, client
<1>4. PhaseFits'
  BY AwaitedBy
    DEF PhaseFits, CallFits, JournalFits, RollbackFits, VerdictFits, RollbackPoints,
        UndoPoints, Half, TypeOK, BrokerTypeOK, ClientTypeOK, CleanupFits, Clean, client
<1>5. VerdictFits'
  BY AwaitedBy
    DEF VerdictFits, PhaseFits, JournalFits, CallFits, Half, UndoPoints, RollbackFits,
        CleanupFits, Clean, client
<1>6. CleanupFits'
  BY <1>k, AwaitedBy
    DEF CleanupFits, PhaseFits, JournalFits, CallFits, VerdictFits, Clean, Half, TypeOK,
        ClientTypeOK, BrokerTypeOK, RollbackFits, RollbackPoints, UndoPoints, client
<1>7. HiddenFits'
  BY AwaitedBy
    DEF HiddenFits, CommitFits, RollbackFits, AppliedFits, Result, Original, Here,
        There, client
<1>8. CommitFits'
  BY AwaitedBy
    DEF CommitFits, HiddenFits, Original, Here, There, RollbackFits, Unapplied,
        CallFits, client
<1>9. RollbackFits'
  BY AwaitedBy
    DEF RollbackFits, RollbackPoints, UndoPoints, Unapplied, HiddenFits, Original, Here,
        There, PhaseFits, CallFits, AppliedFits, Result, Half, client
<1>10. AppliedFits'
  BY AwaitedBy
    DEF AppliedFits, HiddenFits, CommitFits, RollbackFits, Here, There, Result,
        Original, PhaseFits, CallFits, client
<1>11. CommittedFits'
  BY AwaitedBy
    DEF CommittedFits, HiddenFits, Original, JournalFits, CallFits, RollbackFits,
        PhaseFits, client
<1>12. QuietFits'
  BY AwaitedBy
    DEF QuietFits, Quiet, After, Here, There, HiddenFits, AppliedFits, RollbackFits,
        Unapplied, Result, RollbackPoints, UndoPoints, PhaseFits, CommitFits, CallFits,
        Half, client
<1> QED BY <1>1, <1>2, <1>3, <1>4, <1>5, <1>6, <1>7, <1>8, <1>9, <1>10, <1>11, <1>12

\* The two renames of HandleCommit, whether their flush then succeeds or not.
LEMMA RenameInductive ==
  ASSUME Inductive, Quarantine \/ Install \/ (Fault /\ call \in {"quarantine", "install"}),
         UNCHANGED <<client, held, edits, holds, crashes>>, SkipsNoted,
         faults' \in 0 .. MaxFaults
  PROVE  Inductive'
<1> USE DEF Inductive, Protocol, Content
<1> USE DEF Fault, FailedSave, Saving, UndoPoints, Answer, Continue, Refuse, broker,
            files, Persist
<1>k. /\ skipped' \subseteq HiddenEntries \cup {"temp"}
      /\ \A entry \in {"stage", "backup", "old", "temp"} : entry \in skipped => entry \in skipped'
      /\ temp' => phase' = phase \/ "temp" \in skipped'
  BY DEF SkipsNoted, TempMissed
<1>e. \/ UNCHANGED <<tree, stage, old, applied>>
      \/ /\ call = "quarantine" /\ Here' = "none" /\ There' = There
         /\ op = "replace" => old' = Here /\ stage' = stage /\ applied' = applied
         /\ op = "delete" => stage' = Here /\ old' = old /\ applied' = TRUE
      \/ /\ call = "install" /\ applied' = TRUE /\ old' = old
         /\ op = "move" => Here' = "none" /\ There' = Here /\ stage' = stage
         /\ op # "move" => Here' = stage /\ stage' = "none" /\ There' = There
  BY DEF Quarantine, Install, QuarantineRename, InstallRename, Placeable, CommitFits,
         TypeOK, BrokerTypeOK, Here, There, Places
<1>f. /\ call \in {"quarantine", "install"} /\ step = "committing" /\ op' = op /\ backup' = backup
      /\ temp' = temp /\ phase' = phase /\ phase \in Half /\ call' \in {"idle", "quarantined", "commitSeal"}
      /\ (call' = "idle" => reply' = "error") /\ (call' # "idle" => reply' = reply)
      /\ (call' = "quarantined" => call = "quarantine")
  BY AwaitedBy DEF Quarantine, Install, PhaseFits
<1>g. Here' # Here => applied' = TRUE \/ Here' = "none"
  BY <1>e DEF Here, There
<1>1. TypeOK'
  <2>1. call' \in Points /\ reply' \in Replies
    BY <1>f DEF TypeOK, BrokerTypeOK, Points, Replies
  <2>a. tree' \in [Places -> Nodes]
    BY DEF Quarantine, Install, QuarantineRename, InstallRename, TypeOK, BrokerTypeOK,
           Places, Nodes, Here
  <2>2. tree' \in [Places -> Nodes] /\ stage' \in Nodes /\ old' \in Nodes /\ op' = op
    BY <1>e, <1>f, <2>a DEF TypeOK, BrokerTypeOK, Places, Nodes, Here, There, CommitFits
  <2>3. backup' \in BOOLEAN /\ temp' \in BOOLEAN /\ applied' \in BOOLEAN
    BY <1>e, <1>f DEF TypeOK, BrokerTypeOK, CommitFits
  <2>4. phase' \in Phases
    BY <1>f DEF TypeOK, BrokerTypeOK
  <2>5. ClientTypeOK'
    BY DEF TypeOK, ClientTypeOK, client
  <2> QED BY <1>k, <2>1, <2>2, <2>3, <2>4, <2>5 DEF TypeOK, BrokerTypeOK
<1>2. CallFits'
  BY <1>e, <1>f
    DEF CallFits, RollbackPoints, UndoPoints, TypeOK, ClientTypeOK, JournalFits,
        PhaseFits, client
<1>3. JournalFits'
  BY <1>e, <1>f DEF JournalFits, TypeOK, ClientTypeOK, CallFits, client
<1>4. PhaseFits'
  BY <1>e, <1>f
    DEF PhaseFits, CallFits, JournalFits, RollbackFits, VerdictFits, RollbackPoints,
        UndoPoints, Half, TypeOK, BrokerTypeOK, ClientTypeOK, CleanupFits, Clean, client
<1>5. VerdictFits'
  BY <1>e, <1>f
    DEF VerdictFits, PhaseFits, JournalFits, CallFits, Half, UndoPoints, RollbackFits,
        CleanupFits, Clean, client
<1>6. CleanupFits'
  BY <1>e, <1>f
    DEF CleanupFits, PhaseFits, JournalFits, CallFits, VerdictFits, Clean, Half, TypeOK,
        ClientTypeOK, BrokerTypeOK, RollbackFits, RollbackPoints, UndoPoints, client
<1>7. HiddenFits'
  BY <1>e, <1>f
    DEF HiddenFits, CommitFits, RollbackFits, AppliedFits, Result, Original, Here,
        There, client
<1>8. CommitFits'
  BY <1>e, <1>f
    DEF CommitFits, HiddenFits, Original, Here, There, RollbackFits, Unapplied,
        CallFits, client
<1>9. RollbackFits'
  BY <1>e, <1>f
    DEF RollbackFits, RollbackPoints, UndoPoints, Unapplied, HiddenFits, Original, Here,
        There, PhaseFits, CallFits, AppliedFits, Result, Half, client
<1>10. AppliedFits'
  BY <1>e, <1>f
    DEF AppliedFits, HiddenFits, CommitFits, RollbackFits, Here, There, Result,
        Original, PhaseFits, CallFits, client
<1>11. CommittedFits'
  BY <1>e, <1>f
    DEF CommittedFits, HiddenFits, Original, JournalFits, CallFits, RollbackFits,
        PhaseFits, client
<1>12. QuietFits'
  <2> SUFFICES ASSUME Quiet
               PROVE  /\ applied' => Here' = After(op)["path"] /\ There' = After(op)["dest"]
                      /\ call' # "install"
                      /\ ~(call' \in RollbackPoints \/ reply' = "notCommitted" \/ phase' = "rolledBack")
    BY <1>f DEF QuietFits, Quiet
  <2>1. /\ After(op)["path"] = IF op \in {"delete", "move"} THEN "none" ELSE "staged"
        /\ After(op)["dest"] = IF op = "move" THEN "expected" ELSE "none"
    BY DEF After
  <2>2. applied' => Here' = After(op)["path"] /\ There' = After(op)["dest"]
    BY <1>e, <1>f, <2>1 DEF QuietFits, CommitFits, HiddenFits, Original, Here, There
  <2>3. call' # "install" /\ call' \notin RollbackPoints /\ reply' # "notCommitted" /\ phase' # "rolledBack"
    BY <1>f DEF RollbackPoints, CallFits, Half
  <2> QED BY <2>2, <2>3
<1> QED BY <1>1, <1>2, <1>3, <1>4, <1>5, <1>6, <1>7, <1>8, <1>9, <1>10, <1>11, <1>12

\* HandleReconcile, and a call failing in it.
LEMMA ReconcileInductive ==
  ASSUME Inductive, Reconcile \/ (Fault /\ call = "reconcile"),
         UNCHANGED <<client, held, edits, holds, crashes>>, SkipsNoted,
         faults' \in 0 .. MaxFaults
  PROVE  Inductive'
<1> USE DEF Inductive, Protocol, Content
<1> USE DEF Fault, FailedSave, Saving, Reconcile, Loaded, Probed, ProvesCommitted,
            ProvesUntouched, QuarantineNoted, QuarantineProved, FileProof, StageProof,
            Opens, OpensDirectory, IsExpected, IsResult, IsFile, IsDirectory, Undecided,
            UndoPoints, Answer, Continue, Refuse, broker, files, Persist
<1>k. /\ skipped' \subseteq HiddenEntries \cup {"temp"}
      /\ \A entry \in {"stage", "backup", "old", "temp"} : entry \in skipped => entry \in skipped'
      /\ temp' => phase' = phase \/ "temp" \in skipped'
  BY DEF SkipsNoted, TempMissed
<1>1. TypeOK'
  <2>1. call' \in Points /\ reply' \in Replies
    BY DEF TypeOK, BrokerTypeOK, Points, Replies
  <2>2. tree' \in [Places -> Nodes] /\ stage' \in Nodes /\ old' \in Nodes /\ op' = op
    BY DEF TypeOK, BrokerTypeOK, Places, Nodes, Here, There
  <2>3. backup' \in BOOLEAN /\ temp' \in BOOLEAN /\ applied' \in BOOLEAN
    BY DEF TypeOK, BrokerTypeOK
  <2>4. phase' \in Phases
    BY DEF TypeOK, BrokerTypeOK, Phases
  <2>5. ClientTypeOK'
    BY DEF TypeOK, ClientTypeOK, client
  <2> QED BY <1>k, <2>1, <2>2, <2>3, <2>4, <2>5 DEF TypeOK, BrokerTypeOK
<1>2. CallFits'
  BY AwaitedBy
    DEF CallFits, RollbackPoints, UndoPoints, TypeOK, ClientTypeOK, JournalFits,
        PhaseFits, client
<1>3. JournalFits'
  BY AwaitedBy DEF JournalFits, TypeOK, ClientTypeOK, CallFits, client
<1>4. PhaseFits'
  BY AwaitedBy
    DEF PhaseFits, CallFits, JournalFits, RollbackFits, VerdictFits, RollbackPoints,
        UndoPoints, Half, TypeOK, BrokerTypeOK, ClientTypeOK, CleanupFits, Clean, client
<1>5. VerdictFits'
  BY AwaitedBy
    DEF VerdictFits, PhaseFits, JournalFits, CallFits, Half, UndoPoints, RollbackFits,
        CleanupFits, Clean, client
<1>6. CleanupFits'
  BY <1>k, AwaitedBy
    DEF CleanupFits, PhaseFits, JournalFits, CallFits, VerdictFits, Clean, Half, TypeOK,
        ClientTypeOK, BrokerTypeOK, RollbackFits, RollbackPoints, UndoPoints, client
<1>7. HiddenFits'
  BY AwaitedBy
    DEF HiddenFits, CommitFits, RollbackFits, AppliedFits, Result, Original, Here,
        There, client
<1>8. CommitFits'
  BY AwaitedBy
    DEF CommitFits, HiddenFits, Original, Here, There, RollbackFits, Unapplied,
        CallFits, client
<1>9. RollbackFits'
  <2>1. call' \in {"prepareSave", "commit"} \/ step' = "put" \/ (step' = "preparing" /\ reply' = "ok")
          => Unapplied' /\ old' = "none"
    BY AwaitedBy
      DEF RollbackFits, RollbackPoints, UndoPoints, Unapplied, HiddenFits, Original,
          Here, There, PhaseFits, CallFits, AppliedFits, Result, Half, client
  <2>2. call' \in RollbackPoints \/ reply' = "notCommitted" => Unapplied'
    <3> SUFFICES ASSUME reply' = "notCommitted", ProvesUntouched
                 PROVE  Unapplied
      BY DEF RollbackPoints, CallFits, Unapplied, There
    <3> QED BY DEF Unapplied, HiddenFits, Original, Here, There, TypeOK, BrokerTypeOK
  <2>3. call' # "rollbackDelete"
    BY AwaitedBy
      DEF RollbackFits, RollbackPoints, UndoPoints, Unapplied, HiddenFits, Original,
          Here, There, PhaseFits, CallFits, AppliedFits, Result, Half, client
  <2>4. call' = "rollbackRestore" => op' = "replace" /\ old' = "expected"
    BY AwaitedBy
      DEF RollbackFits, RollbackPoints, UndoPoints, Unapplied, HiddenFits, Original,
          Here, There, PhaseFits, CallFits, AppliedFits, Result, Half, client
  <2>5. call' = "rollbackSeal" \/ phase' = "rolledBack" =>
          old' = "none" /\ (op' = "delete" => stage' = "none")
    BY AwaitedBy
      DEF RollbackFits, RollbackPoints, UndoPoints, Unapplied, HiddenFits, Original,
          Here, There, PhaseFits, CallFits, AppliedFits, Result, Half, client
  <2>6. phase' = "prepared" => old' = "none"
    BY AwaitedBy
      DEF RollbackFits, RollbackPoints, UndoPoints, Unapplied, HiddenFits, Original,
          Here, There, PhaseFits, CallFits, AppliedFits, Result, Half, client
  <2> QED BY <2>1, <2>2, <2>3, <2>4, <2>5, <2>6 DEF RollbackFits
<1>10. AppliedFits'
  BY AwaitedBy
    DEF AppliedFits, HiddenFits, CommitFits, RollbackFits, Here, There, Result,
        Original, PhaseFits, CallFits, client
<1>11. CommittedFits'
  BY AwaitedBy
    DEF CommittedFits, HiddenFits, Original, JournalFits, CallFits, RollbackFits,
        PhaseFits, client
<1>12. QuietFits'
  <2> SUFFICES ASSUME Quiet PROVE QuietFits'
    BY DEF QuietFits, Quiet, client
  <2>1. /\ After(op)["path"] = IF op \in {"delete", "move"} THEN "none" ELSE "staged"
        /\ After(op)["dest"] = IF op = "move" THEN "expected" ELSE "none"
    BY DEF After
  <2>2. ProvesUntouched => ~applied
    BY <2>1, OperationsAssumption
      DEF QuietFits, HiddenFits, Here, There, TypeOK, BrokerTypeOK, Result
  <2>3. /\ UNCHANGED <<op, tree, applied, edits>> /\ call' = "idle"
        /\ phase' = "rolledBack" => phase = "rolledBack"
        /\ reply' = "notCommitted" => ProvesUntouched
    BY DEF CallFits
  <2> QED BY <2>2, <2>3 DEF QuietFits, Quiet, RollbackPoints, UndoPoints, Here, There
<1> QED BY <1>1, <1>2, <1>3, <1>4, <1>5, <1>6, <1>7, <1>8, <1>9, <1>10, <1>11, <1>12

\* HandleRollback except the undo itself, and a call failing in it.
LEMMA RollbackInductive ==
  ASSUME Inductive, Rollback \/ RollbackSeal \/ (Fault /\ call \in {"rollback", "rollbackSeal"}),
         UNCHANGED <<client, held, edits, holds, crashes>>, SkipsNoted,
         faults' \in 0 .. MaxFaults
  PROVE  Inductive'
<1> USE DEF Inductive, Protocol, Content
<1> USE DEF Fault, FailedSave, Saving, Rollback, RollbackSeal, NeedsDelete,
            NeedsRestore, Obstructed, FileProof, StageProof, Opens, OpensDirectory,
            IsExpected, IsResult, IsFile, IsDirectory, UndoPoints, Answer, Continue,
            Refuse, broker, files, Persist
<1>k. /\ skipped' \subseteq HiddenEntries \cup {"temp"}
      /\ \A entry \in {"stage", "backup", "old", "temp"} : entry \in skipped => entry \in skipped'
      /\ temp' => phase' = phase \/ "temp" \in skipped'
  BY DEF SkipsNoted, TempMissed
<1>1. TypeOK'
  <2>1. call' \in Points /\ reply' \in Replies
    BY DEF TypeOK, BrokerTypeOK, Points, Replies
  <2>2. tree' \in [Places -> Nodes] /\ stage' \in Nodes /\ old' \in Nodes /\ op' = op
    BY DEF TypeOK, BrokerTypeOK, Places, Nodes, Here, There
  <2>3. backup' \in BOOLEAN /\ temp' \in BOOLEAN /\ applied' \in BOOLEAN
    BY DEF TypeOK, BrokerTypeOK
  <2>4. phase' \in Phases
    BY DEF TypeOK, BrokerTypeOK, Phases
  <2>5. ClientTypeOK'
    BY DEF TypeOK, ClientTypeOK, client
  <2> QED BY <1>k, <2>1, <2>2, <2>3, <2>4, <2>5 DEF TypeOK, BrokerTypeOK
<1>2. CallFits'
  BY AwaitedBy
    DEF CallFits, RollbackPoints, UndoPoints, TypeOK, ClientTypeOK, JournalFits,
        PhaseFits, client
<1>3. JournalFits'
  BY AwaitedBy DEF JournalFits, TypeOK, ClientTypeOK, CallFits, client
<1>4. PhaseFits'
  <2>1. /\ call \in {"rollback", "rollbackSeal"} /\ step \in {"discarding", "undoing", "peekUndoing"}
        /\ call' \in {"idle", "rollbackSeal"} \cup UndoPoints /\ step' = step /\ journal' = journal
        /\ phase' \in {phase, "rolledBack"} /\ reply' \in {reply, "ok", "error"}
        /\ call' # "idle" => reply' = "none" /\ phase' \in Half \cup {"prepared"}
        /\ reply' = "ok" => phase' = "rolledBack"
    BY AwaitedBy DEF RollbackPoints, client, TypeOK, BrokerTypeOK, Phases, Half, CallFits
  <2>2. call' \in UndoPoints => phase' \in Half
    <3> SUFFICES ASSUME call' \in UndoPoints
                 PROVE  phase' \in Half
      OBVIOUS
    <3>1. /\ call = "rollback" /\ (NeedsDelete \/ NeedsRestore)
          /\ phase' = phase /\ phase \in Half \cup {"prepared"}
      BY <2>1
    <3>2. phase # "prepared"
      BY <3>1 DEF RollbackFits, RollbackPoints, Unapplied, HiddenFits, Result, Here, There
    <3> QED BY <3>1, <3>2
  <2>3. step = "discarding" => phase' \in {"prepared", "rolledBack"}
    BY <2>1 DEF PhaseFits
  <2> QED BY <2>1, <2>2, <2>3 DEF PhaseFits
<1>5. VerdictFits'
  BY AwaitedBy
    DEF VerdictFits, PhaseFits, JournalFits, CallFits, Half, UndoPoints, RollbackFits,
        CleanupFits, Clean, client
<1>6. CleanupFits'
  BY <1>k, AwaitedBy
    DEF CleanupFits, PhaseFits, JournalFits, CallFits, VerdictFits, Clean, Half, TypeOK,
        ClientTypeOK, BrokerTypeOK, RollbackFits, RollbackPoints, UndoPoints, client
<1>7. HiddenFits'
  BY AwaitedBy
    DEF HiddenFits, CommitFits, RollbackFits, AppliedFits, Result, Original, Here,
        There, client
<1>8. CommitFits'
  BY AwaitedBy
    DEF CommitFits, HiddenFits, Original, Here, There, RollbackFits, Unapplied,
        CallFits, client
<1>9. RollbackFits'
  <2>1. call' \in {"prepareSave", "commit"} \/ step' = "put" \/ (step' = "preparing" /\ reply' = "ok")
          => Unapplied' /\ old' = "none"
    BY AwaitedBy
      DEF RollbackFits, RollbackPoints, UndoPoints, Unapplied, HiddenFits, Original,
          Here, There, PhaseFits, CallFits, AppliedFits, Result, Half, client
  <2>2. call' \in RollbackPoints \/ reply' = "notCommitted" => Unapplied'
    BY AwaitedBy
      DEF RollbackFits, RollbackPoints, UndoPoints, Unapplied, HiddenFits, Original,
          Here, There, PhaseFits, CallFits, AppliedFits, Result, Half, client
  <2>3. call' # "rollbackDelete"
    <3>1. call = "rollback" => ~NeedsDelete
      BY DEF RollbackFits, RollbackPoints, Unapplied, HiddenFits, Result, Here
    <3> QED BY <3>1 DEF RollbackFits
  <2>4. call' = "rollbackRestore" => op' = "replace" /\ old' = "expected"
    BY AwaitedBy
      DEF RollbackFits, RollbackPoints, UndoPoints, Unapplied, HiddenFits, Original,
          Here, There, PhaseFits, CallFits, AppliedFits, Result, Half, client
  <2>5. call' = "rollbackSeal" \/ phase' = "rolledBack" =>
          old' = "none" /\ (op' = "delete" => stage' = "none")
    BY AwaitedBy
      DEF RollbackFits, RollbackPoints, UndoPoints, Unapplied, HiddenFits, Original,
          Here, There, PhaseFits, CallFits, AppliedFits, Result, Half, client
  <2>6. phase' = "prepared" => old' = "none"
    BY AwaitedBy
      DEF RollbackFits, RollbackPoints, UndoPoints, Unapplied, HiddenFits, Original,
          Here, There, PhaseFits, CallFits, AppliedFits, Result, Half, client
  <2> QED BY <2>1, <2>2, <2>3, <2>4, <2>5, <2>6 DEF RollbackFits
<1>10. AppliedFits'
  BY AwaitedBy
    DEF AppliedFits, HiddenFits, CommitFits, RollbackFits, Here, There, Result,
        Original, PhaseFits, CallFits, client
<1>11. CommittedFits'
  BY AwaitedBy
    DEF CommittedFits, HiddenFits, Original, JournalFits, CallFits, RollbackFits,
        PhaseFits, client
<1>12. QuietFits'
  BY AwaitedBy
    DEF QuietFits, Quiet, After, Here, There, HiddenFits, AppliedFits, RollbackFits,
        Unapplied, Result, RollbackPoints, UndoPoints, PhaseFits, CommitFits, CallFits,
        Half, client
<1> QED BY <1>1, <1>2, <1>3, <1>4, <1>5, <1>6, <1>7, <1>8, <1>9, <1>10, <1>11, <1>12

\* The undo of HandleRollback, whether its flush then succeeds or not: a replaced file is put back.
LEMMA UndoInductive ==
  ASSUME Inductive, RollbackUndo \/ (Fault /\ call \in UndoPoints),
         UNCHANGED <<client, held, edits, holds, crashes>>, SkipsNoted,
         faults' \in 0 .. MaxFaults
  PROVE  Inductive'
<1> USE DEF Inductive, Protocol, Content
<1> USE DEF Fault, FailedSave, Saving, RollbackUndo, Undoable, Undo, UndoPoints, Answer,
            Continue, Refuse, broker, files, Persist
<1>k. /\ skipped' \subseteq HiddenEntries \cup {"temp"}
      /\ \A entry \in {"stage", "backup", "old", "temp"} : entry \in skipped => entry \in skipped'
      /\ temp' => phase' = phase \/ "temp" \in skipped'
  BY DEF SkipsNoted, TempMissed
<1>1. TypeOK'
  <2>1. call' \in Points /\ reply' \in Replies
    BY DEF TypeOK, BrokerTypeOK, Points, Replies
  <2>2. tree' \in [Places -> Nodes] /\ stage' \in Nodes /\ old' \in Nodes /\ op' = op
    BY DEF TypeOK, BrokerTypeOK, Places, Nodes, Here, There
  <2>3. backup' \in BOOLEAN /\ temp' \in BOOLEAN /\ applied' \in BOOLEAN
    BY DEF TypeOK, BrokerTypeOK
  <2>4. phase' \in Phases
    BY DEF TypeOK, BrokerTypeOK, Phases
  <2>5. ClientTypeOK'
    BY DEF TypeOK, ClientTypeOK, client
  <2> QED BY <1>k, <2>1, <2>2, <2>3, <2>4, <2>5 DEF TypeOK, BrokerTypeOK
<1>2. CallFits'
  BY AwaitedBy
    DEF CallFits, RollbackPoints, UndoPoints, TypeOK, ClientTypeOK, JournalFits,
        PhaseFits, client
<1>3. JournalFits'
  BY AwaitedBy DEF JournalFits, TypeOK, ClientTypeOK, CallFits, client
<1>4. PhaseFits'
  BY AwaitedBy
    DEF PhaseFits, CallFits, JournalFits, RollbackFits, VerdictFits, RollbackPoints,
        UndoPoints, Half, TypeOK, BrokerTypeOK, ClientTypeOK, CleanupFits, Clean, client
<1>5. VerdictFits'
  BY AwaitedBy
    DEF VerdictFits, PhaseFits, JournalFits, CallFits, Half, UndoPoints, RollbackFits,
        CleanupFits, Clean, client
<1>6. CleanupFits'
  BY <1>k, AwaitedBy
    DEF CleanupFits, PhaseFits, JournalFits, CallFits, VerdictFits, Clean, Half, TypeOK,
        ClientTypeOK, BrokerTypeOK, RollbackFits, RollbackPoints, UndoPoints, client
<1>7. HiddenFits'
  BY AwaitedBy
    DEF HiddenFits, CommitFits, RollbackFits, AppliedFits, Result, Original, Here,
        There, client
<1>8. CommitFits'
  BY AwaitedBy
    DEF CommitFits, HiddenFits, Original, Here, There, RollbackFits, Unapplied,
        CallFits, client
<1>9. RollbackFits'
  BY AwaitedBy
    DEF RollbackFits, RollbackPoints, UndoPoints, Unapplied, HiddenFits, Original, Here,
        There, PhaseFits, CallFits, AppliedFits, Result, Half, client
<1>10. AppliedFits'
  BY AwaitedBy
    DEF AppliedFits, HiddenFits, CommitFits, RollbackFits, Here, There, Result,
        Original, PhaseFits, CallFits, client
<1>11. CommittedFits'
  BY AwaitedBy
    DEF CommittedFits, HiddenFits, Original, JournalFits, CallFits, RollbackFits,
        PhaseFits, client
<1>12. QuietFits'
  BY AwaitedBy
    DEF QuietFits, Quiet, After, Here, There, HiddenFits, AppliedFits, RollbackFits,
        Unapplied, Result, RollbackPoints, UndoPoints, PhaseFits, CommitFits, CallFits,
        Half, client
<1> QED BY <1>1, <1>2, <1>3, <1>4, <1>5, <1>6, <1>7, <1>8, <1>9, <1>10, <1>11, <1>12

\* HandleCleanup, and a call failing in it: it runs only for a decided operation.
LEMMA CleanupInductive ==
  ASSUME Inductive, 
         \/ Cleanup \/ CleanupBackup \/ CleanupOld \/ CleanupState
         \/ Fault /\ call \in {"cleanup", "cleanupBackup", "cleanupOld", "cleanupState"}
         \/ \E entry \in HiddenEntries : SkipEntry(entry) /\ entry \in skipped',
         UNCHANGED <<client, held, edits, holds, crashes>>, SkipsNoted,
         faults' \in 0 .. MaxFaults
  PROVE  Inductive'
<1> USE DEF Inductive, Protocol, Content
<1> USE DEF Fault, FailedSave, Saving, Cleanup, CleanupBackup, CleanupOld, CleanupState,
            SkipEntry, Clean, Loaded, UndoPoints, Answer, Continue, Refuse, broker, files, Persist
<1>k. /\ skipped' \subseteq HiddenEntries \cup {"temp"}
      /\ \A entry \in {"stage", "backup", "old", "temp"} : entry \in skipped => entry \in skipped'
      /\ temp' => phase' = phase \/ "temp" \in skipped'
  BY DEF SkipsNoted, TempMissed
<1>1. TypeOK'
  <2>1. call' \in Points /\ reply' \in Replies
    BY DEF TypeOK, BrokerTypeOK, Points, Replies
  <2>2. tree' \in [Places -> Nodes] /\ stage' \in Nodes /\ old' \in Nodes /\ op' = op
    BY DEF TypeOK, BrokerTypeOK, Places, Nodes, Here, There
  <2>3. backup' \in BOOLEAN /\ temp' \in BOOLEAN /\ applied' \in BOOLEAN
    BY DEF TypeOK, BrokerTypeOK
  <2>4. phase' \in Phases
    BY DEF TypeOK, BrokerTypeOK, Phases
  <2>5. ClientTypeOK'
    BY DEF TypeOK, ClientTypeOK, client
  <2> QED BY <1>k, <2>1, <2>2, <2>3, <2>4, <2>5 DEF TypeOK, BrokerTypeOK
<1>2. CallFits'
  BY AwaitedBy
    DEF CallFits, RollbackPoints, UndoPoints, TypeOK, ClientTypeOK, JournalFits,
        PhaseFits, client
<1>3. JournalFits'
  BY AwaitedBy DEF JournalFits, TypeOK, ClientTypeOK, CallFits, client
<1>4. PhaseFits'
  BY AwaitedBy
    DEF PhaseFits, CallFits, JournalFits, RollbackFits, VerdictFits, RollbackPoints,
        UndoPoints, Half, TypeOK, BrokerTypeOK, ClientTypeOK, CleanupFits, Clean, client
<1>5. VerdictFits'
  BY AwaitedBy
    DEF VerdictFits, PhaseFits, JournalFits, CallFits, Half, UndoPoints, RollbackFits,
        CleanupFits, Clean, client
<1>6. CleanupFits'
  BY <1>k, AwaitedBy
    DEF CleanupFits, PhaseFits, JournalFits, CallFits, VerdictFits, Clean, Half, TypeOK,
        ClientTypeOK, BrokerTypeOK, RollbackFits, RollbackPoints, UndoPoints, client
<1>7. HiddenFits'
  BY AwaitedBy
    DEF HiddenFits, CommitFits, RollbackFits, AppliedFits, Result, Original, Here,
        There, client
<1>8. CommitFits'
  BY AwaitedBy
    DEF CommitFits, HiddenFits, Original, Here, There, RollbackFits, Unapplied,
        CallFits, client
<1>9. RollbackFits'
  BY AwaitedBy
    DEF RollbackFits, RollbackPoints, UndoPoints, Unapplied, HiddenFits, Original, Here,
        There, PhaseFits, CallFits, AppliedFits, Result, Half, client
<1>10. AppliedFits'
  BY AwaitedBy
    DEF AppliedFits, HiddenFits, CommitFits, RollbackFits, Here, There, Result,
        Original, PhaseFits, CallFits, client
<1>11. CommittedFits'
  BY AwaitedBy
    DEF CommittedFits, HiddenFits, Original, JournalFits, CallFits, RollbackFits,
        PhaseFits, client
<1>12. QuietFits'
  BY AwaitedBy
    DEF QuietFits, Quiet, After, Here, There, HiddenFits, AppliedFits, RollbackFits,
        Unapplied, Result, RollbackPoints, UndoPoints, PhaseFits, CommitFits, CallFits,
        Half, client
<1> QED BY <1>1, <1>2, <1>3, <1>4, <1>5, <1>6, <1>7, <1>8, <1>9, <1>10, <1>11, <1>12

\* A process that ends and starts again, by a crash or by the user.
LEMMA RestartInductive ==
  ASSUME Inductive, Restarted, UNCHANGED <<op, files, phase, applied, held, edits, holds, faults, skipped>>,
         temp' = temp \/ (temp' = TRUE /\ \E to \in Phases : Saving(to)), crashes' \in 0 .. MaxCrashes
  PROVE  Inductive'
<1> USE DEF Inductive, Protocol, Content
<1> USE DEF Restarted
<1>s. (\E to \in Phases : Saving(to)) =>
        /\ phase \notin {"committed", "rolledBack"} /\ step # "done"
        /\ phase = "none" => journal = "none"
  BY AwaitedBy
    DEF Saving, Undecided, PhaseFits, CallFits, JournalFits, RollbackPoints, Half
<1>1. TypeOK'
  <2>1. temp' \in BOOLEAN
    BY DEF TypeOK, BrokerTypeOK
  <2>2. BrokerTypeOK'
    BY <2>1 DEF TypeOK, BrokerTypeOK, Points, Replies, files
  <2>3. ClientTypeOK'
    BY DEF TypeOK, ClientTypeOK, Steps
  <2> QED BY <2>2, <2>3 DEF TypeOK
<1>2. CallFits'
  BY AwaitedBy
    DEF CallFits, RollbackPoints, UndoPoints, TypeOK, ClientTypeOK, JournalFits,
        PhaseFits, files
<1>3. JournalFits'
  BY AwaitedBy DEF JournalFits, TypeOK, ClientTypeOK, CallFits, files
<1>4. PhaseFits'
  BY AwaitedBy
    DEF PhaseFits, CallFits, JournalFits, RollbackFits, VerdictFits, RollbackPoints,
        UndoPoints, Half, TypeOK, BrokerTypeOK, ClientTypeOK, CleanupFits, Clean, files
<1>5. VerdictFits'
  BY AwaitedBy
    DEF VerdictFits, PhaseFits, JournalFits, CallFits, Half, UndoPoints, RollbackFits,
        CleanupFits, Clean, files
<1>6. CleanupFits'
  <2>1. phase \in {"committed", "rolledBack"} => ~temp' \/ "temp" \in skipped
    BY <1>s DEF CleanupFits
  <2>2. (journal # "none" /\ phase = "none") \/ step' = "done" =>
          /\ stage = "none" \/ "stage" \in skipped
          /\ ~backup \/ "backup" \in skipped
          /\ old = "none" \/ "old" \in skipped
          /\ ~temp' \/ "temp" \in skipped
    BY <1>s DEF CleanupFits, JournalFits, TypeOK, ClientTypeOK, Steps
  <2>3. journal # "none" /\ phase = "none" => verdict # "none"
    BY DEF CleanupFits
  <2> QED BY <2>1, <2>2, <2>3 DEF CleanupFits, files, TypeOK, ClientTypeOK
<1>7. HiddenFits'
  BY AwaitedBy
    DEF HiddenFits, CommitFits, RollbackFits, AppliedFits, Result, Original, Here,
        There, files
<1>8. CommitFits'
  BY AwaitedBy
    DEF CommitFits, HiddenFits, Original, Here, There, RollbackFits, Unapplied,
        CallFits, files
<1>9. RollbackFits'
  BY AwaitedBy
    DEF RollbackFits, RollbackPoints, UndoPoints, Unapplied, HiddenFits, Original, Here,
        There, PhaseFits, CallFits, AppliedFits, Result, Half, files
<1>10. AppliedFits'
  BY AwaitedBy
    DEF AppliedFits, HiddenFits, CommitFits, RollbackFits, Here, There, Result,
        Original, PhaseFits, CallFits, files
<1>11. CommittedFits'
  BY AwaitedBy
    DEF CommittedFits, HiddenFits, Original, JournalFits, CallFits, RollbackFits,
        PhaseFits, files
<1>12. QuietFits'
  BY AwaitedBy
    DEF QuietFits, Quiet, After, Here, There, HiddenFits, AppliedFits, RollbackFits,
        Unapplied, Result, RollbackPoints, UndoPoints, PhaseFits, CommitFits, CallFits,
        Half, files
<1> QED BY <1>1, <1>2, <1>3, <1>4, <1>5, <1>6, <1>7, <1>8, <1>9, <1>10, <1>11, <1>12


\* What another program can do to the two names.
LEMMA OutsiderEffect ==
  ASSUME TypeOK, Outsider
  PROVE  /\ tree' \in [Places -> Nodes] /\ edits' \in 1 .. MaxEdits
         /\ \/ There' = There /\ Here' \in {"foreign", "foreignDir", "none", Edited(Here)}
            \/ Here' = Here /\ op = "move" /\ There' \in {"foreign", "foreignDir", "none", Edited(There)}
         /\ call = "quarantine" => Here' \in {Here, Edited(Here)} \/ Here = "none"
<1>1. tree \in [Places -> Nodes]
  BY DEF TypeOK, BrokerTypeOK
<1>2. PICK p \in Named :
        \/ tree[p] = "none" /\ \E n \in {"foreign", "foreignDir"} : Put(p, n)
        \/ Removable(p) /\ \E n \in {"none", "foreign"} \ {tree[p]} : Put(p, n)
        \/ tree[p] # Edited(tree[p]) /\ Put(p, Edited(tree[p]))
  BY DEF Outsider
<1>3. PICK n \in {"foreign", "foreignDir", "none", Edited(tree[p])} :
        Put(p, n) /\ (n = Edited(tree[p]) \/ tree[p] = "none" \/ Removable(p))
  BY <1>2
<1>4. p \in Places /\ n \in Nodes /\ (p = "dest" => op = "move")
  BY <1>1, <1>3 DEF Named, Places, Nodes, Edited
<1>5. edits' \in 1 .. MaxEdits
  BY BoundsAssumption DEF Outsider, TypeOK
<1> QED BY <1>1, <1>3, <1>4, <1>5 DEF Put, Here, There, Places, Removable, Pinned

\* A change by another program, which cannot take what the broker has open.
LEMMA OutsiderInductive ==
  ASSUME Inductive, Outsider
  PROVE  Inductive'
<1> USE DEF Inductive, Protocol, Content
<1>1. TypeOK'
  BY OutsiderEffect
    DEF Outsider, client, Edited, TypeOK, BrokerTypeOK, ClientTypeOK, Nodes, Phases,
        Points, Replies, Steps
<1>2. CallFits'
  BY OutsiderEffect
    DEF Outsider, client, Edited, CallFits, RollbackPoints, UndoPoints, TypeOK,
        ClientTypeOK, JournalFits, PhaseFits
<1>3. JournalFits'
  BY OutsiderEffect
    DEF Outsider, client, Edited, JournalFits, TypeOK, ClientTypeOK, CallFits
<1>4. PhaseFits'
  BY OutsiderEffect
    DEF Outsider, client, Edited, PhaseFits, CallFits, JournalFits, RollbackFits,
        VerdictFits, RollbackPoints, UndoPoints, Half, TypeOK, BrokerTypeOK,
        ClientTypeOK, CleanupFits, Clean
<1>5. VerdictFits'
  BY OutsiderEffect
    DEF Outsider, client, Edited, VerdictFits, PhaseFits, JournalFits, CallFits, Half,
        UndoPoints, RollbackFits, CleanupFits, Clean
<1>6. CleanupFits'
  BY OutsiderEffect
    DEF Outsider, client, Edited, CleanupFits, PhaseFits, JournalFits, CallFits,
        VerdictFits, Clean, Half, TypeOK, ClientTypeOK, BrokerTypeOK, RollbackFits,
        RollbackPoints, UndoPoints
<1>7. HiddenFits'
  BY OutsiderEffect
    DEF Outsider, client, Edited, HiddenFits, CommitFits, RollbackFits, AppliedFits,
        Result, Original, Here, There
<1>8. CommitFits'
  BY OutsiderEffect
    DEF Outsider, client, Edited, CommitFits, HiddenFits, Original, Here, There,
        RollbackFits, Unapplied, CallFits
<1>9. RollbackFits'
  BY OutsiderEffect
    DEF Outsider, client, Edited, RollbackFits, RollbackPoints, UndoPoints, Unapplied,
        HiddenFits, Original, Here, There, PhaseFits, CallFits, AppliedFits, Result,
        Half
<1>10. AppliedFits'
  BY OutsiderEffect
    DEF Outsider, client, Edited, AppliedFits, HiddenFits, CommitFits, RollbackFits,
        Here, There, Result, Original, PhaseFits, CallFits
<1>11. CommittedFits'
  BY OutsiderEffect
    DEF Outsider, client, Edited, CommittedFits, HiddenFits, Original, JournalFits,
        CallFits, RollbackFits, PhaseFits
<1>12. QuietFits'
  BY OutsiderEffect
    DEF Outsider, client, Edited, QuietFits, Quiet, After, Here, There, HiddenFits,
        AppliedFits, RollbackFits, Unapplied, Result, RollbackPoints, UndoPoints,
        PhaseFits, CommitFits, CallFits, Half
<1> QED BY <1>1, <1>2, <1>3, <1>4, <1>5, <1>6, <1>7, <1>8, <1>9, <1>10, <1>11, <1>12

\* Another program opens a file or lets go of it, or nothing happens.
LEMMA UnchangedInductive ==
  ASSUME Inductive, UNCHANGED <<call, reply, broker, client, edits, crashes, faults, skipped>>,
         held' \subseteq Places, holds' \in 0 .. MaxHolds
  PROVE  Inductive'
<1> USE DEF Inductive, Protocol, Content
<1>1. TypeOK'
  BY DEF TypeOK, BrokerTypeOK, ClientTypeOK, Nodes, Phases, Points, Replies, Steps,
         broker, files, client
<1>2. CallFits'
  BY DEF CallFits, RollbackPoints, UndoPoints, TypeOK, ClientTypeOK, JournalFits,
         PhaseFits, broker, files, client
<1>3. JournalFits'
  BY DEF JournalFits, TypeOK, ClientTypeOK, CallFits, broker, files, client
<1>4. PhaseFits'
  BY DEF PhaseFits, CallFits, JournalFits, RollbackFits, VerdictFits, RollbackPoints,
         UndoPoints, Half, TypeOK, BrokerTypeOK, ClientTypeOK, CleanupFits, Clean,
         broker, files, client
<1>5. VerdictFits'
  BY DEF VerdictFits, PhaseFits, JournalFits, CallFits, Half, UndoPoints, RollbackFits,
         CleanupFits, Clean, broker, files, client
<1>6. CleanupFits'
  BY DEF CleanupFits, PhaseFits, JournalFits, CallFits, VerdictFits, Clean, Half,
         TypeOK, ClientTypeOK, BrokerTypeOK, RollbackFits, RollbackPoints, UndoPoints,
         broker, files, client
<1>7. HiddenFits'
  BY DEF HiddenFits, CommitFits, RollbackFits, AppliedFits, Result, Original, Here,
         There, broker, files, client
<1>8. CommitFits'
  BY DEF CommitFits, HiddenFits, Original, Here, There, RollbackFits, Unapplied,
         CallFits, broker, files, client
<1>9. RollbackFits'
  BY DEF RollbackFits, RollbackPoints, UndoPoints, Unapplied, HiddenFits, Original,
         Here, There, PhaseFits, CallFits, AppliedFits, Result, Half, broker, files,
         client
<1>10. AppliedFits'
  BY DEF AppliedFits, HiddenFits, CommitFits, RollbackFits, Here, There, Result,
         Original, PhaseFits, CallFits, broker, files, client
<1>11. CommittedFits'
  BY DEF CommittedFits, HiddenFits, Original, JournalFits, CallFits, RollbackFits,
         PhaseFits, broker, files, client
<1>12. QuietFits'
  BY DEF QuietFits, Quiet, After, Here, There, HiddenFits, AppliedFits, RollbackFits,
         Unapplied, Result, RollbackPoints, UndoPoints, PhaseFits, CommitFits, CallFits,
         Half, broker, files, client
<1> QED BY <1>1, <1>2, <1>3, <1>4, <1>5, <1>6, <1>7, <1>8, <1>9, <1>10, <1>11, <1>12


\* Every step preserves the invariant: one case for each handler.
LEMMA NextInductive ==
  ASSUME Inductive, [Next]_vars
  PROVE  Inductive'
<1>0. /\ edits \in 0 .. MaxEdits /\ holds \in 0 .. MaxHolds /\ held \subseteq Places
      /\ crashes \in 0 .. MaxCrashes /\ faults \in 0 .. MaxFaults
  BY DEF Inductive, TypeOK, BrokerTypeOK
<1>1. CASE Client \/ Recheck \/ JournalFault
  BY <1>0, <1>1, BoundsAssumption, ClientInductive
    DEF Client, Recheck, JournalFault, budget
<1>2. CASE Broker \/ NativeFault \/ NativeSkip
  <2>1. /\ UNCHANGED <<client, held, edits, holds, crashes>> /\ SkipsNoted
        /\ faults' \in 0 .. MaxFaults
    <3>1. UNCHANGED <<client, held, edits, holds, crashes>> /\ faults' \in 0 .. MaxFaults
      BY <1>0, <1>2, BoundsAssumption DEF Broker, NativeFault, NativeSkip, budget
    <3>2. SkipsNoted
      <4>1. skipped \subseteq HiddenEntries \cup {"temp"}
        BY DEF Inductive, TypeOK
      <4>2. CASE Broker \/ NativeFault
        <5>1. skipped' = skipped /\ ~TempMissed
          BY <4>2 DEF Broker, NativeFault, budget
        <5> QED BY <4>1, <5>1 DEF SkipsNoted
      <4>3. CASE \E entry \in HiddenEntries :
                   SkipEntry(entry) /\ skipped' = skipped \cup {entry}
        <5>1. PICK entry \in HiddenEntries :
                SkipEntry(entry) /\ skipped' = skipped \cup {entry}
          BY <4>3
        <5>2. ~TempMissed
          BY <5>1 DEF SkipEntry, broker, TempMissed
        <5> QED BY <4>1, <5>1, <5>2 DEF SkipsNoted
      <4>4. CASE skipped' = skipped \cup {"temp"}
        BY <4>1, <4>4 DEF SkipsNoted
      <4> QED BY <1>2, <4>2, <4>3, <4>4 DEF NativeSkip
    <3> QED BY <3>1, <3>2
  <2>2. CASE Prepare \/ PrepareSave \/ (Fault /\ call \in {"prepare", "prepareSave"})
    BY <2>1, <2>2, PrepareInductive
  <2>3. CASE \/ Commit \/ Quarantined \/ Reinstall \/ CommitSeal
             \/ Fault /\ call \in {"commit", "quarantined", "reinstall", "commitSeal"}
    BY <2>1, <2>3, CommitInductive
  <2>4. CASE Quarantine \/ Install \/ (Fault /\ call \in {"quarantine", "install"})
    BY <2>1, <2>4, RenameInductive
  <2>5. CASE Reconcile \/ (Fault /\ call = "reconcile")
    BY <2>1, <2>5, ReconcileInductive
  <2>6. CASE Rollback \/ RollbackSeal \/ (Fault /\ call \in {"rollback", "rollbackSeal"})
    BY <2>1, <2>6, RollbackInductive
  <2>7. CASE RollbackUndo \/ (Fault /\ call \in UndoPoints)
    BY <2>1, <2>7, UndoInductive
  <2>8. CASE \/ Cleanup \/ CleanupBackup \/ CleanupOld \/ CleanupState
             \/ Fault /\ call \in {"cleanup", "cleanupBackup", "cleanupOld", "cleanupState"}
             \/ \E entry \in HiddenEntries : SkipEntry(entry) /\ entry \in skipped'
    BY <2>1, <2>8, CleanupInductive
  <2>9. Fault => call \in {"prepare", "prepareSave", "commit", "quarantined", "reinstall",
                           "commitSeal", "quarantine", "install", "reconcile", "rollback",
                           "rollbackSeal", "cleanup", "cleanupBackup", "cleanupOld",
                           "cleanupState"} \cup UndoPoints
    BY DEF Fault, Saving
  <2> QED BY <1>2, <2>2, <2>3, <2>4, <2>5, <2>6, <2>7, <2>8, <2>9
          DEF Broker, BrokerStep, NativeFault, NativeSkip
<1>3. CASE Restart
  BY <1>0, <1>3, RestartInductive DEF Restart, Reopen, budget, broker
<1>6. CASE Crash
  <2>1. crashes' \in 0 .. MaxCrashes
    BY <1>0, <1>6, BoundsAssumption DEF Crash
  <2> QED BY <1>6, <2>1, RestartInductive DEF Crash
<1>4. CASE Outsider
  BY <1>4, OutsiderInductive
<1>5. CASE Hold \/ Release \/ UNCHANGED vars
  <2>1. held' \subseteq Places
    BY <1>0, <1>5 DEF Hold, Release, vars, Named, Places
  <2>2. holds' \in 0 .. MaxHolds
    BY <1>0, <1>5, BoundsAssumption DEF Hold, Release, vars, budget
  <2> QED BY <1>5, <2>1, <2>2, UnchangedInductive DEF Hold, Release, vars, budget
<1> QED BY <1>1, <1>2, <1>3, <1>4, <1>5, <1>6 DEF Next

-----------------------------------------------------------------------------
(* The invariants.                                                         *)

\* The inductive invariant of the specification.
THEOREM InductiveInvariance == Spec => []Inductive
  BY InitInductive, NextInductive, PTL DEF Spec

\* The variables keep their types.
THEOREM TypeCorrect == Spec => []TypeOK
<1>1. Inductive => TypeOK
  BY DEF Inductive
<1> QED BY <1>1, InductiveInvariance, PTL

\* While the journal holds the receipt, the hidden entries do not outlive the state
\* (HandleCleanup), and an acknowledged operation has left nothing in the hidden
\* directory, the temporary state file of an interrupted save included
\* (CleanupStateTemps): all but the entries whose opening or finding failed, which the
\* broker passes over.
THEOREM NoRemains == Spec => []NothingLeftBehind
<1>1. Inductive => NothingLeftBehind
  BY DEF Inductive, Protocol, CleanupFits, NothingLeftBehind, Left
<1> QED BY <1>1, InductiveInvariance, PTL

-----------------------------------------------------------------------------
(* What a step may never do.                                               *)

\* The handlers change a file at five places only.
LEMMA FilesChange ==
  ASSUME Inductive, BrokerStep \/ Fault
  PROVE  \/ UNCHANGED <<tree, stage, old, applied>>
         \/ /\ call \in {"prepare", "prepareSave"} /\ stage \in {"none", "staged"}
            /\ UNCHANGED <<tree, old, applied>>
         \/ /\ call = "quarantine" /\ Here' = "none" /\ There' = There
            /\ \/ old = "none" /\ old' = Here /\ stage' = stage
               \/ stage = "none" /\ stage' = Here /\ old' = old
         \/ /\ call = "install" /\ old' = old
            /\ \/ There = "none" /\ There' = Here /\ Here' = "none" /\ stage' = stage
               \/ Here = "none" /\ Here' = stage /\ stage' = "none" /\ There' = There
         \/ /\ call = "rollbackRestore" /\ Here = "none" /\ Here' = old /\ old' = "none"
            /\ stage' = stage /\ There' = There
         \/ /\ call \in {"cleanup", "cleanupOld"} /\ phase # "none"
            /\ \/ stage' = "none" /\ old' = old
               \/ stage' = stage /\ old' = "none"
            /\ UNCHANGED <<tree, applied>>
<1> USE DEF Inductive, Protocol, Content
<1> USE DEF Refuse, Persist, broker, files
<1>1. CASE Prepare \/ PrepareSave \/ (Fault /\ call \in {"prepare", "prepareSave"})
  <2>1. call \in {"prepare", "prepareSave"} => stage \in {"none", "staged"}
    BY AwaitedBy DEF AppliedFits, HiddenFits
  <2> QED BY <1>1, <2>1

         DEF Prepare, PrepareSave, Prepareable, Fault, FailedSave, Saving, StageIt,
             UndoPoints
<1>2. CASE \/ Commit \/ Quarantined \/ Reinstall \/ CommitSeal
           \/ Fault /\ call \in {"commit", "quarantined", "reinstall", "commitSeal"}
  BY <1>2
    DEF Commit, Quarantined, Reinstall, CommitSeal, Fault, FailedSave, Saving,
        UndoPoints
<1>3. CASE Quarantine \/ (Fault /\ call = "quarantine")
  <2>1. UNCHANGED <<tree, stage, old, applied>> \/ (call = "quarantine" /\ QuarantineRename)
    BY <1>3 DEF Quarantine, Fault, Saving, UndoPoints
  <2> QED BY <2>1
    DEF QuarantineRename, CommitFits, TypeOK, BrokerTypeOK, Here, There, Places
<1>4. CASE Install \/ (Fault /\ call = "install")
  <2>1. \/ UNCHANGED <<tree, stage, old, applied>>
        \/ call = "install" /\ Placeable /\ InstallRename /\ old' = old
    BY <1>4 DEF Install, Fault, Saving, UndoPoints
  <2> QED BY <2>1
    DEF Placeable, InstallRename, TypeOK, BrokerTypeOK, Here, There, Places
<1>5. CASE \/ Reconcile \/ Rollback \/ RollbackSeal
           \/ Fault /\ call \in {"reconcile", "rollback", "rollbackSeal"}
  BY <1>5 DEF Reconcile, Rollback, RollbackSeal, Fault, FailedSave, Saving, UndoPoints
<1>6. CASE RollbackUndo \/ (Fault /\ call \in UndoPoints)
  <2>1. UNCHANGED <<tree, stage, old, applied>> \/ (call \in UndoPoints /\ Undoable /\ Undo)
    BY <1>6 DEF RollbackUndo, Fault, Saving, UndoPoints
  <2>2. call \in UndoPoints => call = "rollbackRestore" /\ op = "replace"
    BY DEF RollbackFits, UndoPoints
  <2> QED BY <2>1, <2>2 DEF Undo, Undoable, Here, There
<1>7. CASE \/ Cleanup \/ CleanupBackup \/ CleanupOld \/ CleanupState
           \/ Fault /\ call \in {"cleanup", "cleanupBackup", "cleanupOld", "cleanupState"}
  BY <1>7 DEF Cleanup, CleanupBackup, CleanupOld, CleanupState, Loaded, CleanupFits,
              Fault, FailedSave, Saving, UndoPoints
<1>8. Fault => call \in {"prepare", "prepareSave", "commit", "quarantined", "reinstall",
                         "commitSeal", "quarantine", "install", "reconcile", "rollback",
                         "rollbackSeal", "cleanup", "cleanupBackup", "cleanupOld",
                         "cleanupState"} \cup UndoPoints
  BY DEF Fault, Saving
<1> QED BY <1>1, <1>2, <1>3, <1>4, <1>5, <1>6, <1>7, <1>8 DEF BrokerStep

\* What a cleanup removes: never another program's file, and the original only of an
\* operation whose commit is recorded.
LEMMA CleanupSafe ==
  ASSUME Inductive, call \in {"cleanup", "cleanupOld"}, phase # "none"
  PROVE  /\ stage \notin OutsiderData /\ old \notin OutsiderData
         /\ verdict # "committed" => stage # "expected" /\ old # "expected"
<1> USE DEF Inductive, Protocol, Content
<1>1. phase = "rolledBack" \/ verdict = "committed"
  BY AwaitedBy DEF PhaseFits, JournalFits, VerdictFits, TypeOK, ClientTypeOK
<1>2. phase = "rolledBack" => stage \in {"none", "staged"} /\ old = "none"
  BY DEF RollbackFits, HiddenFits, Original
<1>3. verdict = "committed" => stage # "expectedEdited" /\ old # "expectedEdited"
  BY DEF CommittedFits
<1> QED BY <1>1, <1>2, <1>3 DEF HiddenFits, Original, OutsiderData

\* The steps that are not the broker's nor another program's leave the files alone.
LEMMA StepsOfNext ==
  ASSUME Inductive, [Next]_vars
  PROVE  \/ UNCHANGED files /\ UNCHANGED applied
         \/ UNCHANGED client /\ (BrokerStep \/ Fault)
         \/ Outsider
  BY DEF Next, Client, Recheck, Restart, Crash, JournalFault, Broker, NativeFault,
         NativeSkip, SkipEntry, Hold, Release, vars, broker

\* The copies of a file, before and after a step.
LEMMA CopiesCounted ==
  ASSUME Inductive, [Next]_vars, NEW n
  PROVE  /\ Copies(n) = Bit(Here = n) + Bit(There = n) + Bit(stage = n) + Bit(old = n)
         /\ Copies(n)' = Bit(Here' = n) + Bit(There' = n) + Bit(stage' = n) + Bit(old' = n)
         /\ Copies(n) \in Int /\ Copies(n)' \in Int
<1>1. tree \in [Places -> Nodes] /\ tree' \in [Places -> Nodes]
  BY NextInductive DEF Inductive, TypeOK, BrokerTypeOK
<1>2. /\ Copies(n) = Bit(Here = n) + Bit(There = n) + Bit(stage = n) + Bit(old = n)
      /\ Copies(n)' = Bit(Here' = n) + Bit(There' = n) + Bit(stage' = n) + Bit(old' = n)
  BY <1>1, CountNames DEF Copies, Bit, Here, There
<1> QED BY <1>2 DEF Bit

\* The files that a step destroys are those a cleanup removes.
LEMMA CopiesKept ==
  ASSUME Inductive, [Next]_vars, edits' = edits, NEW n \in Nodes \ {"none", "staged"},
         \/ call \notin {"cleanup", "cleanupOld"} \/ phase = "none"
         \/ stage # n /\ old # n
  PROVE  Copies(n)' >= Copies(n)
<1>1. TypeOK
  BY DEF Inductive
<1>3. /\ Copies(n) = Bit(Here = n) + Bit(There = n) + Bit(stage = n) + Bit(old = n)
      /\ Copies(n)' = Bit(Here' = n) + Bit(There' = n) + Bit(stage' = n) + Bit(old' = n)
  BY CopiesCounted
<1>4. CASE UNCHANGED files
  BY <1>3, <1>4 DEF files, Here, There, Bit
<1>5. CASE BrokerStep \/ Fault
  BY <1>3, <1>5, FilesChange DEF Here, There, Bit
<1>6. CASE Outsider
  BY <1>1, <1>6 DEF TypeOK, Outsider
<1> QED BY <1>4, <1>5, <1>6, StepsOfNext

\* Whatever fails and whoever interferes, the broker destroys neither the file the
\* proposal was made against before the conversation recorded the commit, nor any file
\* another program wrote (RenameDurable, HandleCleanup).
THEOREM NoFileLost == Spec => FilesPreserved
<1>1. ASSUME Inductive, [Next]_vars, edits' = edits
      PROVE  /\ Copies("expected") > 0 /\ verdict # "committed" => Copies("expected")' > 0
             /\ \A n \in OutsiderData : OutsiderCopies'[n] >= OutsiderCopies[n]
  <2>1. ASSUME Copies("expected") > 0, verdict # "committed"
        PROVE  Copies("expected")' > 0
    <3>1. Copies("expected")' >= Copies("expected")
      BY <1>1, <2>1, CleanupSafe, CopiesKept DEF Nodes
    <3>2. Copies("expected") \in Int /\ Copies("expected")' \in Int
      BY <1>1, CopiesCounted
    <3> QED BY <2>1, <3>1, <3>2
  <2>2. ASSUME NEW n \in OutsiderData
        PROVE  OutsiderCopies'[n] >= OutsiderCopies[n]
    <3>1. n \in Nodes \ {"none", "staged"}
      BY DEF OutsiderData, Nodes
    <3>2. Copies(n)' >= Copies(n)
      BY <1>1, <3>1, CleanupSafe, CopiesKept
    <3> QED BY <3>2 DEF OutsiderCopies
  <2> QED BY <2>1, <2>2
<1>2. Inductive /\ [Next]_vars =>
        [edits' = edits =>
           /\ Copies("expected") > 0 /\ verdict # "committed" => Copies("expected")' > 0
           /\ \A n \in OutsiderData : OutsiderCopies'[n] >= OutsiderCopies[n]]_vars
  BY <1>1
<1> QED BY <1>2, InductiveInvariance, PTL DEF FilesPreserved, Spec

-----------------------------------------------------------------------------
(* The refinement.                                                         *)

\* A step of the protocol is a step of the abstract mutation or leaves its state.
LEMMA StepSimulation ==
  ASSUME Inductive, [Next]_vars
  PROVE  [Atomic!Next]_Atomic!vars
<1> USE DEF Inductive, Protocol, Content
<1> USE DEF Atomic!Next, Atomic!vars, Atomic!Apply, Atomic!Revert, Atomic!Commit,
            Atomic!Abort, Atomic!Disturb, Atomic!Undecided
<1>1. CASE (ClientProgress \/ Peek \/ PutRefused) /\ UNCHANGED <<broker, edits>>
  <2>1. \/ verdict' = verdict
        \/ verdict = "none" /\ verdict' = "committed" /\ reply = "committed"
        \/ verdict = "none" /\ verdict' = "rolledBack" /\ phase = "rolledBack"
    BY <1>1
      DEF PhaseFits, ClientProgress, AskPrepare, OnPrepare, PutPrepared,
            PutRefused, OnDiscard, OnSweep, OnCommit, OnCheck, OnReconcile, OnUndo,
            OnConfirm, OnCleanup, RemoveRecord, Peek, OnPeek, OnPeekUndo, OnPeekConfirm,
            Retain, Record
  <2>2. /\ reply = "committed" => applied
        /\ Quiet /\ phase = "rolledBack" => ~applied
    BY DEF AppliedFits, QuietFits
  <2> QED BY <1>1, <2>1, <2>2 DEF broker, Quiet
<1>2. CASE Restarted /\ UNCHANGED <<applied, edits>>
  BY <1>2 DEF Restarted, Quiet
<1>3. CASE (BrokerStep \/ Fault) /\ UNCHANGED <<client, edits>>
  <2>1. applied' \in BOOLEAN /\ applied \in BOOLEAN
    BY NextInductive DEF TypeOK, BrokerTypeOK
  <2>2. applied' # applied => verdict = "none"
    <3>1. applied' # applied => call \in {"quarantine", "install", "rollbackRestore"}
      BY <1>3, FilesChange
    <3>2. call = "rollbackRestore" => phase \in Half
      BY DEF PhaseFits, UndoPoints
    <3>3. phase \in Half => verdict = "none"
      BY DEF VerdictFits, Half, TypeOK, ClientTypeOK
    <3>4. call \in {"quarantine", "install"} => verdict = "none"
      BY AwaitedBy DEF JournalFits
    <3> QED BY <3>1, <3>2, <3>3, <3>4
  <2> QED BY <1>3, <2>1, <2>2 DEF client, Quiet
<1>4. CASE Outsider
  <2>1. ~Quiet' /\ UNCHANGED <<applied, verdict>>
    BY <1>4, BoundsAssumption DEF Outsider, TypeOK, Quiet, client
  <2> QED BY <2>1
<1>5. CASE \/ Hold \/ Release \/ UNCHANGED vars
           \/ NativeSkip /\ UNCHANGED broker
  BY <1>5 DEF Hold, Release, NativeSkip, vars, broker, client, budget, Quiet
<1> QED BY <1>1, <1>2, <1>3, <1>4, <1>5

       DEF Next, Client, Recheck, JournalFault, Restart, Reopen, Crash, Broker,
           NativeFault, NativeSkip, SkipEntry, budget, broker

\* The protocol implements the abstract mutation: although a file that another program
\* has open looks missing to the handlers (OpenFileMaybe), an operation is reported
\* committed only if the broker installed it, and undone only if it did not or was
\* disturbed.
THEOREM AtomicImplemented == Spec => ImplementsAtomic
<1>1. Init => Atomic!Init
  BY DEF Init, BrokerInit, ClientInit, Quiet, Atomic!Init
<1> QED BY <1>1, StepSimulation, InductiveInvariance, PTL
  DEF ImplementsAtomic, Spec, Atomic!Spec
=============================================================================
