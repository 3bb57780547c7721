# Verification of mobilka

TLA+ models of the parts of mobilka where several actors, awaits, stores and
crashes meet, the TLC runs that check them on small instances, and TLAPS proofs
of what matters most for every value of the constants. `src/` below is the
repository at the modelled commit.

    tlc -config LinuxSafety.cfg MCLinuxMutation      # a run
    tlapm LinuxMutation_proofs.tla                   # the proofs
    tlapm MemoryMutation_proofs.tla                  # and so for the other *_proofs

`PROJECT.json` is the index: components, runs, the source lines every definition
stands for (`map`), a plausible bug for every property (`mutants`), hazards,
findings and theorems.

## 1. The system

mobilka is a Flutter chat client (desktop and Android) for local and remote
language models. The model may call tools; a tool that changes files only
*proposes* the change, the user confirms it, and a native broker carries it out
in the directory the session is bound to. State is kept in Hive boxes
(conversations, recovery journals, settings) and in files the user owns
(session workspace, memory directory). All of the Dart code runs on one event
loop, so the interleavings are those of awaits; the native handlers run on the
platform thread, one method-channel call at a time.

| Component | State | Operations | Hard behaviour | What makes it correct |
|---|---|---|---|---|
| Linux session-workspace broker (`linux/runner/session_workspace_*.cc`) | hidden directory with `.stage`, `.backup`, `.state` per operation; the session tree | prepare, commit, reconcile, rollback, cleanup (metadata, list, read) | crash at any system call, another program writing in the tree, `fsync` that fails after the effect | a verdict tells the truth; nobody's file is lost; a cleanup can be repeated |
| Workspace coordinator and journal (`workspace_mutation_coordinator.dart`, `workspace_recovery_journal.dart`) | one journal record per operation: claimed, prepared or terminal | claim, commit, reconcile, acknowledge, recover | commit call that throws after the rename; a write of the journal that fails; the process dies between stores | no changed file without a record; a record is removed only after the native state |
| Workspace proposals (`chat_controller_proposal_actions.dart`, `workspace_decision_continuation.dart`, `chat_workspace_startup_recovery.dart`) | the pending proposal in the conversation; `_workspaceDecisions`; the answer | confirm, reject, delete, startup recovery | three stores without a transaction; two buttons; deletion under way | one true answer; a card that comes back; no stray claim |
| Conversation state (`chat_controller.dart`, `automatic_title_coordinator.dart`, `conversation_store.dart`) | `ChatState.conversations`, the box, a queue per conversation | create, rename, mutate, claim and complete a title, delete | state read before a save and published after it | no acknowledged change is lost; a failed operation blocks nobody |
| Request lifecycle (`chat_streaming_coordinator.dart`, `chat_lifecycle_service.dart`, ...) | the running request, cancellation, the coordinator of each memory location | admit, stream, retry, finalize, cancel, relocate | cancellation racing an answer, retry after a partial stream, relocation under a running request | one running request; the slot is always released; no duplicate delta or tool call |
| Tool execution and taint (`chat_tool_executor.dart`, `request_tool_security_state.dart`, `request_execution_ledger.dart`) | bounded ledger, sticky taint | execute, append, gate mutations | 32-entry bound, append that fails | a dropped entry's taint stays; no mutation after untrusted data without the gate |
| Memory/document/skill/generic proposals | pending proposal | confirm, reject | the same claim-then-execute shape | executed at most once |
| Memory mutations (`memory_mutation_coordinator.dart`) | memory files, audit log, journal | replace, create, delete several files; recover | crash between two writes; somebody edits a file before recovery | all files or none; nobody's edit overwritten; one terminal audit entry |
| Personas, memory backup, file stores | files behind the memory boundary | list, switch, export, import | clients of the memory coordinator | membership does not go stale |
| Windows session-workspace broker (`windows/runner/session_workspace_*.cpp`) | the same, plus the `.old` name and a phase per rename | as on Linux | no atomic exchange, so two renames with the target missing in between; share modes; another program with a file open | the same abstract mutation |
| Android SAF broker | the same protocol over a document provider | as on Linux | a provider that renames at will | the same abstract mutation |
| Updater (`update_staging_lifecycle_coordinator.dart`, `updater_staging.cpp`) | partial files and installers, one persisted record, native download sessions | stage, recover, clean up, hand over | crash or failing call at every step, files that age | an offered update can be installed; a finished download is never forgotten; leftovers are bounded; a file that cannot be read for a moment is not an absent one |
| Public sources and web search | 8 MiB budget per conversation, cache with aliases | reserve, fetch, refund | concurrent reservations, deletion under way | the budget is not exceeded and not leaked |
| Documents (`native_document_extractor.dart`, `document_worker_broker.cpp`, `document_worker/`) | the running extraction, the run's thread, the job and its process | run, terminate, close | a terminate before the job is published, a worker that hangs, two extractors, a window closed meanwhile | one worker; none outlives its extraction; extraction and closing end |
| Agents | agent catalog, delegation graph | edit, delegate | cycles | acyclic, bounded depth |
| Artifacts | box and files | create, delete | two stores | compensation |
| Models, settings, shell, presentation | settings | plain | none of its own | |

How they interact: the chat controller calls the proposal actions, which call the
workspace coordinator, which calls the journal (Hive) and the platform's broker
(method channel). The answer goes back into the conversation through the
per-conversation queue of the automatic-title coordinator, which every other
change of a conversation also uses. Startup recovery runs before the user
interface is usable and takes the same path from the journal's side.

## 2. Modules

```
AtomicMutation                     what a mutation promises
   ^  refined by
   +-- LinuxMutation     = LinuxBroker   + MutationClient + MethodChannel
   +-- WindowsMutation   = WindowsBroker + MutationClient + MethodChannel
   |                       (both brokers extend WorkspaceTree)
   +-- WorkspaceProposal   (the broker reduced to what LinuxMutation shows of it)
   +-- MemoryMutation
ConversationState     UpdateStaging     DocumentWorker
proofs: LinuxMutation_proofs      WindowsMutation_proofs
          (both extend WorkspaceTree_proofs)
        WorkspaceProposal_proofs  ConversationState_proofs
        MemoryMutation_proofs     UpdateStaging_proofs
        DocumentWorker_proofs
```

`MCLinuxMutation`, `MCWindowsMutation`, `MCWorkspaceProposal`,
`MCConversationState`, `MCMemoryMutation` and `MCDocumentWorker` give the
constants their values for TLC; `UpdateStaging` needs only numbers, which its
configuration gives.

### AtomicMutation

The abstract specification: `applied`, `verdict`, `disturbed`. The broker may
apply and withdraw while nothing is decided; `Commit` needs an applied
mutation; `Abort` needs a mutation that is not applied, or a disturbance by
somebody else. After the verdict the files are left alone.

### MethodChannel, LinuxBroker, MutationClient, LinuxMutation

One mutation with one operation id, end to end.

* `MethodChannel` — `call` is the method the client waits for and then the
  place the handler has reached; `reply` is the last answer.
* `WorkspaceTree` — what both brokers work on. A file is known to the code by
  inode (file index) and SHA-256, so a file is one of *expected*, *staged*, either
  of them *edited*, *foreign*, a *foreign directory* or *none*. `op` is the
  operation (create and replace are the two forms of a write), `tree` what is at
  the two names. `applied` is a history variable for the refinement.
* `LinuxBroker` — the five handlers, split at every system call after which a
  crash or another program makes a difference; `stage`, `backup`, `phase` are
  the hidden entries.
* `MutationClient` — `commitConfirmed`, `_resolveFailedCommit`, the
  acknowledgement, `_recoverLocked` (`Peek`) and startup `_reconcile`, for any
  broker: the Windows broker is composed with this same module.
  `journal` is the record's state, `step` the await the code is in.
* `LinuxMutation` — composes them with another program (`Outsider`), the death
  of the process (`Crash`), failing system calls (`NativeFault`) and a journal
  whose write fails (`JournalFault`).

| Code | Definition |
|---|---|
| `HandlePrepare` | `Prepare`, `PrepareState` |
| `HandleCommit`: checks, state write, rename, proof, swap back, state write | `Commit`, `CommitRename`, `CommitProof`, `CommitUndo`, `CommitSeal` |
| `HandleReconcile` | `Reconcile` |
| `HandleRollback` | `Rollback`, `RollbackUndo`, `RollbackSeal` |
| `HandleCleanup` | `Cleanup`, `CleanupBackup`, `CleanupState` |
| `SaveOperationState`'s permitted transitions | `Forward` |

### WindowsBroker, WindowsMutation

The same five handlers over handles. Windows has no exchange of two names, so a
write is two renames, the target to a hidden `.old` name (`Quarantine`) and the
stage to the target (`Install`), each with a phase saved before it; between them
the target is missing, and reconciling must tell from the phases and from what is
under each name which of the two was made (`Probed`, `ProvesCommitted`,
`ProvesUntouched`). Saving a phase replaces the state file through a temporary
file that a failing call leaves behind. A handle open without sharing makes a file
look missing to the handlers (`held`), which is how the other program of
`WindowsMutation` interferes besides writing.

Not every failing call is an error. `HandleCleanup` passes over a `.stage`, `.backup`
or `.old` it cannot open, deletes the state file and answers success (`SkipEntry`); a
save whose search for earlier temporary files fails goes on as if there were none
(`TempMissed`). `NativeSkip` takes these steps; `skipped` is a history variable that
names what was passed over.

`SharesDirectories` says whether the file system lets the session directory be
opened a second time with DELETE access while the first handle does not share
deletion. NTFS does not, so that `HandlePrepare` refuses everything there
(`windows_refused`); the other run assumes that it does, so that the rest of the
protocol is checked, too.

| Code | Definition |
|---|---|
| `HandlePrepare` | `Prepare`, `PrepareSave`, `StageIt` |
| `HandleCommit`: quarantine, proof, installation, state writes, resuming | `Commit`, `Quarantine`, `Quarantined`, `Reinstall`, `Install`, `CommitSeal` |
| `HandleReconcile` | `Reconcile` |
| `HandleRollback` | `Rollback`, `RollbackUndo`, `RollbackSeal` |
| `HandleCleanup` | `Cleanup`, `CleanupBackup`, `CleanupOld`, `CleanupState`, `SkipEntry` |

### WorkspaceProposal

The proposal card, one step per await: the claim, the executing proposal, the
checks, prepare, the receipt in the journal, commit, its proof, the decision in
the conversation and the acknowledgement; rejections; deletion of the
conversation in its two steps; startup recovery and the sweep of executing
proposals without a record. The broker is reduced to *prepared, applied,
committed, rolledBack, none* — what `LinuxMutation` proves of it when no other
program interferes — and to the two ways in which it proves nothing (`Unproved`): a
doubtful outcome, of which there are `MaxDoubts`, and from some moment on every
outcome (`lost`, set by `Lose`), when another program has changed the operation's
files or the folder cannot be opened again. `Commit`, `Prove` and startup meet both.

### ConversationState

`listed` is `ChatState.conversations`, `stored` the box, `queue` the operations
of `AutomaticTitleCoordinator`. A call is *queued*, reads the state at `Start`,
is *saving*, then *saved*, and publishes. A conversation is reduced to the set
of edits in it and the state of its title. `createConversation` and `delete`
publish a whole list, the others one conversation. `overwritten` is a history
variable that names the conversations a whole list was published over.

### MemoryMutation

One change of several memory files: the record in the journal, the writes, the
entry in the audit log (the file `memory.md`), the rollback of an error and the
recovery that precedes every later use. `files` holds what a hash tells of each
file: *before*, *after*, *none*, *edited* by another program, *full* (the audit
log), or *unreadable*: another program has made it larger than the decoder takes, or
no valid text. `audit` is the sequence of this change's entries, `journal` its record,
`mode` whether the change itself is running, its error is being undone, or a
later transaction recovers it. `kept` (files another program edited between
transactions) and `verdict` (the outcome recorded last) are history variables.

| Code | Definition |
|---|---|
| `_mutate`: checks, journal, writes and deletions, applied, catch | `Refuse`, `Begin`, `Change`, `Changed`, `Failed`, `Told` |
| `_recover`, and everything that begins with it | `Recover` |
| `_recoverRecord`: comparison of hashes, restoring, reads that throw | `InPlace`, `FullyApplied`, `Differs`, `FinishApplied`, `BeginUndo`, `Examine`, `Restore`, `ReadFails` |
| `_finalize` | `NeedsEntry`, `MayDefer`, `Audit`, `Close`, `NoRoom`, `ReadFails` |
| `_removeFinalized` | `RemoveRecord`, `RemovalFault` |

A file operation that reports an error may or may not have taken effect
(`Fault`). Another program edits at any moment, also between the comparison of a
hash (`Examine`) and the write that follows it (`Restore`).

### UpdateStaging

Staging an update on Windows. A download is a number (its file name has a random
part); `part` and `final` are its partial file and its installer, `age` how old
the file is in the steps the cleanup tells apart (a day, 7 days, 30 days), `record`
the persisted metadata with its life cycle, `session` the partial files the native
side holds open. A partial file that is deleted while a session has it open stays,
*deleting*, until that session ends. The operations `_stage`, `recoverThenCheck` and
`apply` exclude each other by a lock; `step` is the call the one that has it is about
to make, `doomed` the files its cleanup has decided to delete.

`verifyUpdate` answers that there is no such file also when the file cannot be opened,
asked about or hashed, and the listing leaves such a file out. The callers cannot tell:
a deletion is skipped and the record cleared all the same. `Looked` and `Listed` are
those two answers, right or wrong, wherever the code asks (`Stage`, `Recover`,
`Settle`, `Remove`, `Recheck`, `Delete`, `List`); `misread` is a history variable that
names the downloads they were wrong about. A misreading counts as a failing call.

| Code | Definition |
|---|---|
| `_stage` | `Stage`, `StageAgain`, `StageAnew`, `SaveDownloading`, `Begin`, `Write`, `Refused`, `Finish`, `Abort`, `SaveFinalizing`, `Import`, `SaveVerified` |
| `recoverThenCheck` | `Recover`, `Sort`, `Settle`, `Resume`, `Remove`, `Forget`, `Recheck` |
| `_cleanup` | `Clean`, `List`, `OldParts`, `OldFinals`, `Protected`, `Delete`, `Unrecord`, `Cleaned` |
| `apply`, `installWindowsMsi`, the hand-over script | `Apply`, `Launch`, `Install`, `Start` |
| `beginDownload`, `writeDownload`, `finishDownload`, `abortDownload`, `verifyUpdate`, `finalizeUpdate`, `safeList`, `delete` of the native channel | the steps that call them; `Verified`, `Intact`, `Looked`, `Listed`, `Gone`, `BeginFails` |

### DocumentWorker

Extracting a document in a sandboxed process on Windows. Four kinds of actor: the
extractors (`asking`, `request`), the platform thread that takes their calls in
order (`calls`, `main`, `call`, `victim`), the thread of the run (`thread`,
`active`) and the worker process of each run (`worker`). `running` and `job` are
the broker's fields under its mutex. `victim` is the job handle that `Terminate`
and `Stop` read under the mutex and use after it. A worker may hang: nothing makes
`WorkerFinishes` happen.

| Code | Definition |
|---|---|
| `NativeDocumentExtractor.extract`, `terminateAndReap` | `Extract`, `Settle`, `Reap` |
| `Broker::Run` | `RunUnavailable`, `RunBusy`, `Run`, `StartThread`, `Release` |
| `Broker::Execute` | `StartFails`, `Publish`, `Resume`, `SendRequest`, `SendFails`, `OverLimit`, `ReadAll`, `Exited`, `WaitTimeout` |
| `Broker::Terminate`, `Broker::Stop` | `Terminate`, `Kill`; `Stop`, `StopKill`, `StopJoin` |
| `RunDocumentWorker` | `WorkerFinishes`, `WorkerFails` |

## 3. Runs

| Run | Question | Bounds | Distinct states |
|---|---|---|---|
| `linux_safety` | Are verdicts true, is nothing lost, does the protocol implement `AtomicMutation`, and does an undisturbed operation end? | 5 operations, 3 changes by another program, 2 crashes, 1 failing call | 118,166 |
| `linux_orphan` | Does startup clean every prepared record it finds? (violated) | 2 crashes | |
| `windows_safety` | The same questions for the Windows broker | 5 operations, 3 changes and 2 open files of another program, 2 crashes, 1 failing call | 472,182 |
| `windows_refused` | Is a proposal nobody interferes with applied on NTFS? (violated) | | |
| `proposal_safety` | Is a proposal answered once and truly, whoever wins, and what alone can keep its card disabled? | 2 confirmations, 2 rejections, 2 doubtful outcomes, a receipt lost for good, 2 crashes | 29,222 |
| `proposal_finalized` | Is a receipt settled before the request is finalized? (violated) | | |
| `conversation_safety` | Is an acknowledged change kept, on the screen and on disk, and does every queued call get its turn? | 2 conversations, 3 calls, 1 failing save, 1 crash | 102,595 |
| `conversation_stale` | Is a change ever published over? (violated) | 3 calls | |
| `memory_safety` | Is a change made as a whole or not at all and truly told, are other programs' edits spared, does every record end if the files can be read? | 4 files, 6 kinds of change, 2 edits, 2 crashes, 2 errors | 1,344,482 |
| `memory_reverted` | Is a change finalized exactly once? (violated) | a restored backup, 1 crash | |
| `update_staging` | Can what is offered be installed, is a finished download ever forgotten, what stays behind, does a start settle everything? | 2 versions, 3 downloads, 1 failing or misreading call, 1 crash | 1,980,584 |
| `document_worker` | Is there one worker at a time, does none outlive its extraction, do extractions and closing end? | 2 extractors, 3 runs | 856,304 |

Why the bounds are enough to be of use:

* Two crashes: recovery is itself interrupted once. A third crash only repeats
  the second, because startup goes by what is stored and keeps nothing of how
  often it was started.
* Three changes by another program: between the verification and the exchange,
  between the exchange and the proof, and before the swap back. The proofs have
  no bound.
* One failing call together with a crash exercises every error path after which
  something is already on disk; the proofs have no bound here either. A call that
  fails without being noticed (`NativeSkip`, `Looked`, `Listed`) counts as one.
* Two doubtful outcomes: one in the session and one at the start after it. Outcomes
  that nobody can prove at any start are no matter of a bound: `lost` is for good.
* Two confirmations: the second meets what the first left (claim, receipt,
  terminal record). Two rejections: they race each other and a confirmation.
* Two conversations, three calls: one conversation is being changed while another
  is created, and a queue with a running call, a waiting call and one behind it.
* Two errors in a memory change: the first makes it recover, the second breaks
  that recovery off; a crash after it interrupts the later one. Two edits: one
  before and one after recovery has looked at the file, or a log that is filled
  and emptied. The kinds of change are those the program makes: a backup of
  several files, a new persona with the removal of its legacy file, a deleted
  persona, a legacy alias, an instant write of `memory.md`.

* Three downloads: one being made, one partial file of an attempt that failed,
  one installer from before; the cleanup's limits (one partial file, two
  installers) are met and exceeded. A crash and an error: each at every step, and
  an error in the recovery from the crash. That there are no more than three installers
  says nothing of three downloads, which have no more (that there are at most two when
  one begins does); the proof is for any number.
* Two extractors, three runs: a run, one that is refused as busy, and one that
  starts when the first is released.

Deadlock is checked in `update_staging`. In the other configurations it is off,
because an operation that was answered, a finished proposal, a closed window and a
program whose calls were all made are ends; their liveness properties would show an
unwanted stop.

### What the properties say

`LinuxMutation`
* `VerdictHonest` — while nobody else writes, *committed* and *rolledBack* are
  true of the whole tree, over crashes and failing calls.
* `NothingLeftBehind` — an interrupted cleanup can be repeated and a finished
  operation leaves nothing hidden.
* `DecisionFinal` — a decision is never turned round.
* `OriginalPreserved` — the broker does not destroy the file the proposal was
  made against before the conversation has recorded the commit.
* `OutsiderDataPreserved` — without a crash or a failing call, the broker
  destroys no file another program wrote, for up to two changes at any points.
  With a third one it can: after a swap back another program may put something
  that the next step takes for the installed result.
* `ImplementsAtomic` — the refinement of `AtomicMutation`.
* `Settles` — every operation ends.

`WindowsMutation`
* `NothingLeftBehind` — as on Linux, but for the entries the cleanup passed over
  because it could not open them (`skipped`): they stay, and nothing names them any
  more.
* `ImplementsAtomic`, `Settles` — as on Linux; the refinement says that verdicts are
  true.
* `FilesPreserved` — `OriginalPreserved` and `OutsiderDataPreserved` in one, and
  without the restriction to two changes: no rename here replaces anything.

`WorkspaceProposal`
* `RecordTrue` — changed files always have a record, and a terminal record is true.
* `NoStrayClaim` — a claim does not outlive the confirmation that took it.
* `CardReturns` — a card that stays disabled for good does so over a prepared receipt
  no start can prove. The code lets that happen: `_reconcile` ends *blocked*, `_apply`
  returns without touching the card, and the sweep passes over a proposal its record
  matches. Over a claim, a terminal record or no record a card always comes back.
* `ImplementsAtomic` — the answer is given once, is true, and nothing is done
  to the files after it; a rejection promises that nothing was done. An outcome that
  could not be proved counts as a disturbance.

`ConversationState`
* `ChangesKept`, `ShownIsStored`, `ManualTitleKept` — for
  conversations no whole list was published over.
* `QueueMoves` — a failed operation holds up nobody.

`MemoryMutation`
* `WholeOrNothing`, `OutcomeTold`, `ImplementsAtomic` — in a directory
  nobody else writes in, with errors and crashes at any point, the files are all
  new or all old, the caller (`rollbackSucceeded`) and the log are told which,
  the log exactly once, and nothing changes after that. They are about `Quiet`
  behaviours: no edit was made, and the change leaves the text of `memory.md`
  alone or defers its entry; the others are in the finding below.
* `EditsKept` — of every kind of change: recovery overwrites no edit another
  program made between the transactions.
* `RecordsEnd` — no record stays in the journal for ever, a full log included, if
  the log and the files of the change can be read again and again. While one of them
  cannot, every recovery throws at its read, before it looks for room or defers the
  entry; the record stays, and with it the failure of every use of the memory files.

`UpdateStaging`
* `RecordKept` — whatever step a crash or an error came between, the record of an
  installer that is there is not cleared, unless that installer was misread, which
  costs it its record. It says nothing of the next download, whose record replaces the
  one there is.
* `OfferHolds` — what the user is offered to install is what the record names and
  is there. There are two exceptions. An installer past its 30 days: when it is staged
  again, the cleanup deletes it and it is offered all the same (`_stage` does not
  look at it again, as `recoverThenCheck` does); `apply` then refuses it. And a misread
  one: when recovery clears its record and then meets an error, what was offered
  before is still offered.
* `InstallerRetained` — the 30 days the packaging document promises to the installer
  of the record; one that was misread has lost its record, and its claim to them.
* `LeftoversBounded` — misread files aside, at most two partial files and three
  installers: what the cleanup keeps and those of the download in progress. The
  document speaks of "at most one current partial and two" installers, which is what
  a cleanup leaves. Misread files are beyond any bound of one cleanup: they are left
  where they are until one reads them.
* `StartSettles` — a start that meets no error ends with no record, or with the
  installer of the record offered.

`DocumentWorker`
* `OneWorker` — one process at a time, that of the run being executed.
* `FreeIsReaped` — the comment "Never delete the snapshot while an unconfirmed
  worker may use it": an extraction that has returned has no process, also when
  it gave up before there was one.
* `ExtractionEnds`, `ClosingEnds` — extractions and closing the window end, also
  when the worker hangs, if the terminate finds the run's job. Where a terminate comes before the job
  is published it is lost, and the end depends on the worker (`WorkersEnd`): a
  hung worker then holds the extractor up without limit.

### Findings

* `linux_orphan`: startup recovery stores the outcome in the conversation, then
  removes the native state, then the journal record, which stays *prepared*.
  After a crash between the last two, `reconcilePrepared` refuses the receipt
  at every start: the record is never cleaned and blocks the session's
  workspace. (`Settles` therefore allows one crash; the session protocol is not
  affected, since there the record is *terminal* by then.)
* `proposal_finalized`: after an outcome nobody could prove, the card is pending
  again and can be rejected, which finalizes the request over a receipt that is
  neither reconciled nor rolled back.
* `conversation_stale`: `createConversation` and `delete` publish a list read
  before their save over what other conversations saved meanwhile; the next
  change of such a conversation also saves without it.
* `windows_refused`: `OpenContext` keeps the session directory open without sharing
  deletion, and `OpenParent` opens it again with DELETE access. NTFS refuses that,
  so every prepare on Windows answers `metadata_changed` before it stages
  anything.
* `memory_reverted`: recovery compares `memory.md` with the content the change
  wrote, after the change's own audit entry was appended to it. When a restored
  backup includes `memory.md` and its record outlives the commit (a crash, or the
  swallowed error of `_removeFinalized`), the next use rolls the other files back,
  leaves `memory.md` new and appends *failed* after *committed*.

Seen while modelling, with no run of their own:

* A confirmation that finds a journal record reconciles it without a claim token
  (`chat_controller_proposal_actions.dart:302`), which no record matches: it always
  fails, and the branch that goes on from a committed record is dead.
* The document broker resets `running_` after the answer was sent
  (`document_worker_broker.cpp:279`), so the next run can be refused as busy.
* Two first uses of the document tools may make two extractors
  (`chat_tool_runtime_registry.dart:82`); the one whose run is refused as busy
  terminates the other's worker, since `terminate` names no run. The module takes
  these steps; none of its properties forbids them.
* A staged installer that cannot be opened for a moment, say because another program
  scans it, is taken for a missing one (`updater_staging.cpp:291`): its record is
  cleared, and the update is downloaded again.
* The Windows cleanup deletes the state file also when it could not open an entry that
  file names (`session_workspace_recovery.cpp:371`).
* A job handle read by `Terminate` may be closed before it is used; it can be no
  other run's job, since only the platform thread starts runs.

## 4. Fairness

* `WF_vars(Client)`, `WF_vars(Broker)`, `WF_vars(Confirmation)`,
  `WF_vars(Rejection)`, `WF_vars(Startup)`, `WF_vars(Progress)` — the event loop
  resumes every await whose future is complete, and a native handler is a
  sequence of system calls that return.
* `SF_vars(Restart)` in `LinuxMutation` and `SF_vars(Reopen)` in
  `WorkspaceProposal` — a blocked operation is taken up again when the user
  starts the program, which he does sooner or later. Strong, because in between
  other uses of the workspace (`Peek`), or another confirmation, disable it. The
  code has no timer of its own for this.
* `WF_vars(Recover)` in `MemoryMutation` — every use of the memory files begins
  with recovery, and the next request of a conversation reads them.
* `WF_vars(Progress)`, `WF_vars(Start)`, `WF_vars(Recover /\ ~checked)` in
  `UpdateStaging` — an operation goes on (a stalled download ends with the error of
  its stream, but none of the properties depends on it), the program is started
  again, and its first frame looks for updates (`app.dart`).
* `WF_vars(Broker)`, `WF_vars(Execute)`, and weak fairness of `Settle` and `Reap`
  in `DocumentWorker` — threads run, the extractor's timer fires, answers arrive.
  Nothing is assumed of the worker process; `WorkersEnd`, that a process does not
  stay for ever, is a hypothesis of the properties that need it (the job's limit of
  120 s of processor time ends one that computes, not one that waits).
* Nothing is assumed of the user's other actions, of the other program, of
  crashes or of faults.

## 5. Proofs

`LinuxMutation_proofs` proves, for every set of operations and every bound on
changes, crashes and faults (so for any number of each):

| Theorem | Statement |
|---|---|
| `InductiveInvariance` | `Spec => []Inductive` |
| `TypeCorrect` | `Spec => []TypeOK` |
| `Honest` | `Spec => []VerdictHonest` |
| `NoRemains` | `Spec => []NothingLeftBehind` |
| `VerdictAgrees` | `Spec => []VerdictMatchesPhase` |
| `OriginalSafe` | `Spec => OriginalPreserved` |
| `OutsiderDataSafe` | `Spec => OutsiderDataPreserved` |
| `FinalDecision` | `Spec => DecisionFinal` |
| `AtomicImplemented` | `Spec => ImplementsAtomic` |

The assumptions are `OperationsAssumption` (the operations are among the five)
and `BoundsAssumption` (the bounds are naturals).

None of the invariants is inductive alone: that a verdict is true depends on
which await the client is in when an answer arrives, on what the phase says, and
on where the expected file and the staged result are. `Inductive` is the
conjunction of named parts: `CallFits` (which handler a client step waits for),
`JournalFits` (what the journal holds at each step), `PhaseFits` (the phase each
step and each handler point relies on), `Placement` (the expected file and the
result are in one place each), `AppliedFits` (where the result is found, the
broker put it), `StageSafe` (the expected file is not in the hidden directory
when that is cleaned for an operation that was not committed), `QuietTree` (the
exact tree while nobody else writes) and `VerdictMatchesPhase`. Preservation is
one lemma per handler together with the faults in it, one for the client, one
for another program and one for a restart. The step properties and the
refinement are then shown from `Inductive`, again by handler.

`OutsiderDataSafe` is about two changes of another program, however many the
instance allows, and needs a second invariant, `OutsiderFits`, proved on top of
`Inductive`: one change alone cannot both move the file away and put another in its
place (`ChangesFit`); the one rename of a commit displaces a file that was there,
never the broker's own result (`DisplacedFits`); a foreign file is in the hidden
directory only between the rename that displaced it and the rename that puts it
back, and if that one fails, both changes are used up and no later answer can
be mistaken for a proof (`HeldFits`), so that no cleanup comes; and a rollback never
finds a created entry to unlink (`CreatedFits`). On the run's bounds TLC agrees: it is
an invariant of the 118,166 states. `Cardinality` is reasoned about in
`WorkspaceTree_proofs`, name by name, for both brokers.

`WindowsMutation_proofs` proves, for every set of operations, either way of
sharing directories, and every bound on changes, open files, crashes and faults:

| Theorem | Statement |
|---|---|
| `InductiveInvariance` | `Spec => []Inductive` |
| `TypeCorrect` | `Spec => []TypeOK` |
| `NoRemains` | `Spec => []NothingLeftBehind` |
| `NoFileLost` | `Spec => FilesPreserved` |
| `AtomicImplemented` | `Spec => ImplementsAtomic` |

The assumptions are those of the Linux protocol (`OperationsAssumption`,
`BoundsAssumption`) and `SharesDirectories` being a truth value. `Inductive` has the
client's half in common with Linux (`CallFits`, `JournalFits`, `PhaseFits`,
`VerdictFits`, `CleanupFits`); the other half is what two renames instead of an
exchange leave: what each operation can have under its hidden names at all
(`HiddenFits`: never another program's file, because a rename here acts on the handle
that was checked), which file is open at each point of a commit (`CommitFits`), where
a rollback begins and what it leaves (`RollbackFits`), where the result is
(`AppliedFits`, `QuietFits`), and that a confirmed commit caught no edited file
(`CommittedFits`). The proof shows two things the code does not say: a rollback
never has a result to delete (its branch for that, `rollbackDelete`, is dead in
every reachable state) and never anything to put back but a replaced file. TLC
checked `Inductive` on the 472,182 states of the run. `NoRemains` rests on
`CleanupFits`, which goes through the cleanup entry by entry: each is gone at the point
behind its deletion, or is among the `skipped` ones.

`WorkspaceProposal_proofs` proves, for every set of rejections and every bound
on claims, doubtful outcomes and crashes:

| Theorem | Statement |
|---|---|
| `InductiveInvariance` | `Spec => []Inductive` |
| `TypeCorrect` | `Spec => []TypeOK` |
| `JournalTrue` | `Spec => []RecordTrue` |
| `ClaimReturned` | `Spec => []NoStrayClaim` |
| `AtomicImplemented` | `Spec => ImplementsAtomic` |

The assumption is `LimitsAssumption` (the bounds are naturals). Three stores change
one after another, so at every await one of them is behind. `Inductive` says which
one, and by what: the claim token against the number of claims (`ClaimFits`), the
record and the proposal each step works on (`RecordFits`, `ProposalFits`), the files
against the native state and the record (`EffectFits`), the outcome on its way to the
conversation (`OutcomeFits`), and the answer against the files (`AnswerFits`: a
rejection of changed files needs an outcome that nobody could prove, a doubt or a lost
receipt). TLC checked it on the 29,222 states of the run.

`ConversationState_proofs` proves, for any conversations, calls, failing saves and
restarts (the assumptions are `InitialAssumption`, that the conversations there are at
first are among all, and `LimitsAssumption`, that the bounds are naturals):

| Theorem | Statement |
|---|---|
| `InductiveInvariance` | `Spec => []Inductive` |
| `TypeCorrect` | `Spec => []TypeOK` |
| `KeptChanges` | `Spec => []ChangesKept` |
| `ShownStored` | `Spec => []ShownIsStored` |
| `ManualKept` | `Spec => []ManualTitleKept` |

Nobody holds a lock in this code; what excludes two savers of a conversation is that
the one which saves stands first in its queue (`QueueFits`, from lemmas about
`Append` and `Tail`), and a creator does not queue but has a name nobody else
knows (`CreatorAlone`, `CreatorFits`, `UnbornFits`). From this follows that a saver
carries the conversation as it is listed, with its own change made (`SaveFits`), that
the disk is ahead of the screen by that change alone (`DiskFits`), and that an
acknowledged change stays in both (`KeptFits`). All three speak of conversations no
whole list was published over, as the properties do; the finding
`conversation_stale` shows that they must. TLC checked `Inductive` on the run's
102,595 states.

`MemoryMutation_proofs` proves, for every set of files and operations and every
bound:

| Theorem | Statement |
|---|---|
| `TypeCorrect` | `Spec => []TypeOK` |
| `EditsSafe` | `Spec => []EditsKept` |
| `MutationAtomic` | `Spec => []WholeOrNothing` |
| `ToldTrue` | `Spec => []OutcomeTold` |
| `MutationRefines` | `Spec => ImplementsAtomic` |

The assumptions are `OperationsAssumption` (what is replaced, created and deleted
fits together, and the audit log is neither created nor deleted) and
`LimitsAssumption`. The last three properties speak of `Quiet` states: no other
program has written yet, and a change that replaces the audit log defers its entry
(`memory_reverted` shows that the second half is needed). They are proved of a
directory in which others do write, up to the moment they do: the invariant is
`QuietSoFar`, that a `Quiet` state satisfies `QuietInductive`, and a step into a
`Quiet` state comes from one (lemma `QuietBefore`).

`EditsInductive` adds to `EditsKept` that a file about to be restored (`victim`)
is not among the edited ones: the comparison of hashes in `Examine` establishes
it, and an edit after it is one made during a transaction. `QuietInductive`
relates what each step may rely on (`StepFits`), the log, the record and the
outcome (`LogFits`), and the files a transaction is done with and still has to
visit (`FilesFit`). Its core is that in a `Quiet` state the hashes tell old
files from new ones (lemma `HashesTell`), so that recovery decides as the
abstract mutation does. An unreadable file is an edited one to these properties:
`EditsKept` covers it, and a `Quiet` state has none. Preservation is one lemma per
group of steps.

`UpdateStaging_proofs` proves, for every set of versions and any number of
downloads, errors and crashes:

| Theorem | Statement |
|---|---|
| `TypeCorrect` | `Spec => []TypeOK` |
| `OffersHold` | `Spec => []OfferHolds` |
| `RecordsKept` | `Spec => RecordKept` |
| `InstallersRetained` | `Spec => InstallerRetained` |
| `LeftoversAreBounded` | `Spec => []LeftoversBounded` |

The assumption is `StagingAssumption` (versions are positive, bounds naturals). A
property of one moment, such as what is offered while nothing runs, rests on what
every step on the way relies on, which the parts of `Inductive` name: a download in
progress has no installer and nothing is offered meanwhile (`AttemptFits`); what the
record says at the steps that trust it (`RecordFits`); that the cleanup around a
record spares its installer (`LateFits`, `DoomedFits`, from lemmas `Listing` and
`Cleaning`: whatever is listed, the protected installer is doomed only after its 30
days); and that an offer stays good over operations that an error ends half way
(`OfferFits`). What the native side answers enters through one lemma, `Look`: a file
it does not find is not there, or is `misread` from then on (`Missing`).

`LeftoversBounded` counts, and needs a further invariant, `LeftoversFit`, which says at
each step of an operation how many files there may be that were not misread, and how old:
after a cleanup that was begun, what is left once its `doomed` files are gone (lemma
`ListRoom`: the files left out of the listing are misread ones); after an operation that
ended half way, one more than a cleanup leaves (`PartsFit`, `FinalsFit`); that every
native session but the current one is there because a call failed (`SessionsFit`); and
that a deleted partial file stays only in a session (`DeletingFit`). TLC checked
`Inductive` and `LeftoversFit` on the 1,980,584 states of the run.

`DocumentWorker_proofs` proves, for any number of extractors and runs:

| Theorem | Statement |
|---|---|
| `TypeCorrect` | `Spec => []TypeOK` |
| `OneWorkerRuns` | `Spec => []OneWorker` |
| `Reaped` | `Spec => []FreeIsReaped` |

The assumption is `RunsAssumption`. That an extractor which gave up early leaves no
process behind is shown by following its request: a call on its way, and the run
about to start, are for a run nobody has taken up (`CallsFit`, `JoinFits`), each
number is given once (`NumbersFit`), a process belongs to the published job of an
unanswered run (`ThreadFits`, `LiveFits`), and an extraction that is over was
answered (`FreeFits`).

Model-checked only are the liveness properties `Settles` (of both brokers),
`CardReturns`, `QueueMoves`, `RecordsEnd`, `StartSettles`, `ExtractionEnds` and
`ClosingEnds`: liveness under fairness and `ENABLED` are beyond the prover. Every other
property that a passing run checks is stated by a theorem. Induction over data and
`RECURSIVE` operators would be out of reach as well; the modules here have neither.

## 6. What is abstracted or left out

* `LinuxBroker`: `metadata`, `list`, `read` change nothing; argument validation,
  path resolution and the size and quota checks refuse before any effect. The
  temporary file of a state write is not modelled (its rename is one step). One
  operation at a time: the coordinator holds a lock per workspace root. Another
  program is assumed to leave the hidden directory alone.
* `WindowsBroker`: as `LinuxBroker`. `FILE_SHARE` modes are those of the calls
  made; another program holds a file open without sharing it or not at all, and
  leaves the hidden directory alone.
* `MutationClient`: a write of the journal may fail. The journal's 32 records are no
  reason for that: the receipt replaces the claim under the same key. Malformed and
  quarantined records are left out.
* `WorkspaceProposal`: one confirmation at a time (the card is disabled in the
  frame it is pressed in), no malformed record, and saves of the conversation
  that do not fail. A startup whose journal or conversation store fails is left out:
  recovery as a whole is given up then, until the next start.
* `ConversationState`: selection, search, sorting, and the contents of messages;
  an edit is the fact that it was made.
* `MemoryMutation`: one change at a time, because transactions exclude each other
  and each begins with recovery; malformed records, the persona quota and changes
  of nothing are left out. New contents differ from old ones. Another program's
  edit leaves the lines of the log as they are, and does not remove `memory.md`, which
  the next start makes from its template before it recovers (`memory_repository.dart`).
  A write is one rename, as on a directory path; a document provider's write is
  not one step, and is not modelled. A failing journal write leaves the old
  record, as Hive does.
* `UpdateStaging`: the Windows path only; Android asks for a permission and gets no
  answer from the installer, which is another life cycle. The signature of the
  manifest stays valid and nobody else writes in the directory. A file that is listed
  is listed with its own age: that `Identity` fails right after the check of the same
  handle succeeded, which would list it with none, is left out. Files get older between
  operations only. The script's elevated part is reduced to *installed or not*.
* `DocumentWorker`: Windows only; Android's service has a process per request.
  `TerminateJobObject` takes effect at once. `capabilities` changes nothing. What a
  worker computes and how it frames it is left out.
* Components with no module yet are listed with the reason in `PROJECT.json`.
  Widgets, localisation, transport, TLS, parsers, OCR and installers are I/O or
  data processing with nothing for a model checker to interleave.

## 7. Plan

Done: `AtomicMutation`, the Linux and the Windows protocol, `WorkspaceProposal`,
`ConversationState`, `MemoryMutation`, `UpdateStaging`, `DocumentWorker`, and proofs of
the safety properties and the refinements of all of them.

Next, most important behaviour first:

1. Proofs: lemmas that both brokers' proofs state for themselves (what a step of the
   client relies on: `CallFits`, `JournalFits`) could move to a module about
   `MutationClient` alone.
2. `RequestLifecycle` — admission, cancellation, retry, finalizer and slot,
   relocation of the memory directory; composed with the queue of
   `ConversationState`. Properties: one running request, the slot is released,
   no delta twice.
3. `ToolExecution` — the bounded ledger with its sticky taint as pure operators,
   checked against the unbounded history, and the gate in front of mutating
   calls.
4. `SafBroker`, composed with `MutationClient`, against `AtomicMutation`.
5. `PublicSourceBudget`; the acyclicity of the agent graph; journal capacity.
