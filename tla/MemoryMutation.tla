--------------------------- MODULE MemoryMutation ---------------------------
(***************************************************************************)
(* One change of several memory files (memory_mutation_coordinator.dart):  *)
(* the recovery journal, the writes one after the other, the entry in the  *)
(* audit log, and recovery after an error or a crash.                      *)
(*                                                                         *)
(* The audit log is itself a memory file, memory.md, which a change may    *)
(* replace.  Transactions exclude each other (one lock per directory) and  *)
(* each begins with recovery, so no other change meets this one's record.  *)
(* Other programs do not take the lock: they edit and remove files at any  *)
(* moment, also between a read and the write that follows it.  A content   *)
(* is what its hash tells of it; new contents differ from the old ones.    *)
(* A file larger than 1 MiB, or not in UTF-8, is there but cannot be read. *)
(***************************************************************************)
EXTENDS Naturals, Sequences

CONSTANTS
  Files,       \* the memory files of the operations
  AuditFile,   \* the one the audit log is kept in
  Operations,  \* the changes an instance may make
  MaxEdits,    \* files another program changes
  MaxCrashes,
  MaxFaults    \* writes, deletions and journal writes that fail

ASSUME OperationsAssumption ==
  /\ AuditFile \in Files
  /\ \A o \in Operations :
       /\ o.replaced \subseteq Files \ o.deleted
       /\ o.created \subseteq o.replaced
       /\ o.deleted \subseteq Files
       /\ o.replaced \cup o.deleted # {}
       /\ AuditFile \notin o.created \cup o.deleted
       /\ o.deferred \in BOOLEAN

ASSUME LimitsAssumption ==
  MaxEdits \in Nat /\ MaxCrashes \in Nat /\ MaxFaults \in Nat

VARIABLES
  op,       \* the files replaced, created and deleted; is the audit deferred?
  files,    \* what is in each file
  audit,    \* the entries of this operation in the audit log
  journal,  \* its record in the recovery journal
  mode,     \* "mutating", "resolving" its own error, or "recovering" later
  step,     \* where the transaction stands, "idle" between transactions
  todo,     \* files the transaction still has to change or to look at
  victim,   \* the file it is about to restore
  outcome,  \* what it is going to record
  result,   \* what the caller was told
  verdict,  \* history: the outcome recorded last
  kept,     \* history: files another program edited between transactions
  edits, crashes, faults

vars == <<op, files, audit, journal, mode, step, todo, victim, outcome, result,
          verdict, kept, edits, crashes, faults>>
limits == <<edits, crashes, faults>>
history == <<verdict, kept>>

Outcomes == {"committed", "failed"}

Contents == {"none", "before", "after", "edited", "full", "unreadable"}

NoRecord == [status |-> "none", written |-> FALSE, deferred |-> FALSE]

Records ==
  [status : {"pending", "applied"} \cup Outcomes,
   written : BOOLEAN, deferred : BOOLEAN]

TypeOK ==
  /\ op \in Operations
  /\ files \in [Files -> Contents]
  /\ audit \in Seq(Outcomes)
  /\ journal \in {NoRecord} \cup Records
  /\ mode \in {"mutating", "resolving", "recovering"}
  /\ step \in {"preparing", "changing", "checking", "undoing", "auditing",
               "audited", "closed", "idle"}
  /\ todo \subseteq Files
  /\ victim \subseteq Files
  /\ outcome \in Outcomes \cup {"none"}
  /\ step \in {"undoing", "auditing", "audited", "closed"} => outcome # "none"
  /\ result \in {"none", "refused", "ok", "rolledBack", "unknown", "lost"}
  /\ verdict \in Outcomes \cup {"none"}
  /\ kept \subseteq Files
  /\ edits \in 0 .. MaxEdits
  /\ crashes \in 0 .. MaxCrashes
  /\ faults \in 0 .. MaxFaults

Targets == op.replaced \cup op.deleted

\* MemoryFileCodec decodes it; a file that is not there is read as missing.
Readable(f) == files[f] # "unreadable"

Original(f) == IF f \in op.created THEN "none" ELSE "before"

\* The files have been read and the versions the caller expects, the quota of
\* personas and the room for an audit entry have been checked.
Init ==
  /\ op \in Operations
  /\ files = [f \in Files |-> Original(f)]
  /\ audit = <<>>
  /\ journal = NoRecord
  /\ mode = "mutating"
  /\ step = "preparing"
  /\ todo = {} /\ victim = {}
  /\ outcome = "none" /\ result = "none" /\ verdict = "none"
  /\ kept = {}
  /\ edits = 0 /\ crashes = 0 /\ faults = 0

-----------------------------------------------------------------------------
(* Changing the files.                                                     *)

\* One of the checks fails, or the journal does not take the record.
Refuse ==
  /\ step = "preparing"
  /\ step' = "idle" /\ result' = "refused"
  /\ UNCHANGED <<op, files, audit, journal, mode, todo, victim, outcome,
                 history, limits>>

Begin ==
  /\ step = "preparing"
  /\ journal' = [status |-> "pending", written |-> FALSE, deferred |-> op.deferred]
  /\ todo' = Targets
  /\ step' = "changing"
  /\ UNCHANGED <<op, files, audit, mode, victim, outcome, result, history, limits>>

\* A write is one rename.  Replacements come first, then the deletions.
ChangeFile(f) ==
  /\ f \in todo
  /\ \/ f \in op.replaced /\ files' = [files EXCEPT ![f] = "after"]
     \/ /\ f \in op.deleted /\ todo \subseteq op.deleted
        /\ files' = [files EXCEPT ![f] = "none"]
  /\ UNCHANGED audit

Change(f) ==
  /\ step = "changing" /\ ChangeFile(f)
  /\ todo' = todo \ {f}
  /\ UNCHANGED <<op, journal, mode, step, victim, outcome, result, history, limits>>

MarkApplied ==
  /\ journal' = [journal EXCEPT !.status = "applied"]
  /\ outcome' = "committed"
  /\ step' = "auditing"
  /\ UNCHANGED <<op, files, audit, mode, todo, victim, result, history, limits>>

Changed == step = "changing" /\ todo = {} /\ MarkApplied

-----------------------------------------------------------------------------
(* Recovery: of an error in the same transaction, or of what the journal    *)
(* holds, before anything else is done in a later one.                     *)

Recover ==
  /\ step = "idle" /\ journal # NoRecord
  /\ step' = "checking" /\ mode' = "recovering"
  /\ UNCHANGED <<op, files, audit, journal, todo, victim, outcome, result,
                 history, limits>>

\* The hash of the file is the one the journal has for its new content.  An
\* entry in the log changes the hash of the log.
Matches(f) == files[f] = "after" /\ (f = AuditFile => audit = <<>>)

\* As the change leaves the file.
InPlace(f) == IF f \in op.replaced THEN Matches(f) ELSE files[f] = "none"

\* The comparison stops at the first file that differs, and gets to the deleted
\* ones only if every replaced one matches.
Compared(f) == f \in op.deleted => \A g \in op.replaced : Matches(g)

Differs == \E f \in Targets : Compared(f) /\ Readable(f) /\ ~InPlace(f)

\* Mutant of FullyApplied: only the replacements are looked at.
ReplacementsApplied == \A f \in op.replaced : Matches(f)

FullyApplied == \A f \in Targets : InPlace(f)

FinishApplied == step = "checking" /\ FullyApplied /\ MarkApplied

\* Mutant of BeginUndo: the operation is not declared failed.
ForgetOutcome ==
  /\ step = "checking" /\ Differs
  /\ step' = "undoing" /\ todo' = Targets
  /\ UNCHANGED <<op, files, audit, journal, mode, victim, outcome, result,
                 history, limits>>

BeginUndo ==
  /\ step = "checking" /\ Differs
  /\ outcome' = "failed"
  /\ step' = "undoing" /\ todo' = Targets
  /\ UNCHANGED <<op, files, audit, journal, mode, victim, result, history, limits>>

\* Mutant of Revertible: whatever is there is replaced by the old content.
AlwaysRevertible(f) == TRUE

\* Only what the operation itself wrote, or removed, is restored.
Revertible(f) == InPlace(f)

\* The replaced files are looked at first.
Due(f) == f \in todo /\ (f \in op.deleted => todo \subseteq op.deleted)

Examine(f) ==
  /\ step = "undoing" /\ victim = {} /\ Due(f) /\ Readable(f)
  /\ todo' = todo \ {f}
  /\ victim' = IF Revertible(f) THEN {f} ELSE {}
  /\ UNCHANGED <<op, files, audit, journal, mode, step, outcome, result,
                 history, limits>>

\* Mutant of RestoreFile: a file that was created is emptied, not deleted.
RewriteFile(f) ==
  /\ f \in victim
  /\ files' = [files EXCEPT ![f] = "before"]
  /\ audit' = IF f = AuditFile THEN <<>> ELSE audit

RestoreFile(f) ==
  /\ f \in victim
  /\ files' = [files EXCEPT ![f] = Original(f)]
  /\ audit' = IF f = AuditFile THEN <<>> ELSE audit

Restore(f) ==
  /\ step = "undoing" /\ RestoreFile(f)
  /\ victim' = {}
  /\ UNCHANGED <<op, journal, mode, step, todo, outcome, result, history, limits>>

-----------------------------------------------------------------------------
(* Recording the outcome: the audit log, the journal, and the end of the    *)
(* record.  A log without room is an error to the change itself, and left   *)
(* without an entry by a later recovery.  The log is read first, and an    *)
(* edit between that and the write is lost: as if it had not been made.    *)

Finalizing == step = "auditing" \/ (step = "undoing" /\ todo = {} /\ victim = {})

Listed(o) == \E i \in 1 .. Len(audit) : audit[i] = o

AlreadyWritten == journal.status = outcome /\ journal.written

NeedsEntry == ~AlreadyWritten /\ ~Listed(outcome) /\ ~journal.deferred

Room == files[AuditFile] # "full"

\* Mutant of MayDefer: no transaction goes on without its entry.
NeverDefers == FALSE

MayDefer == ~Room /\ mode = "recovering"

WriteEntry ==
  /\ Finalizing /\ Readable(AuditFile) /\ NeedsEntry /\ Room
  /\ audit' = Append(audit, outcome)
  /\ UNCHANGED files

Audit ==
  /\ WriteEntry
  /\ step' = "audited"
  /\ verdict' = outcome
  /\ UNCHANGED <<op, journal, mode, todo, victim, outcome, result, kept, limits>>

Close ==
  /\ \/ step = "audited"
     \/ Finalizing /\ Readable(AuditFile) /\ (NeedsEntry => MayDefer)
  /\ LET deferred == journal.deferred \/ (step # "audited" /\ NeedsEntry) IN
       journal' = [status |-> outcome, written |-> ~deferred, deferred |-> deferred]
  /\ step' = "closed"
  /\ verdict' = outcome
  /\ UNCHANGED <<op, files, audit, mode, todo, victim, outcome, result, kept, limits>>

Told ==
  IF mode = "recovering" THEN result
  ELSE IF outcome = "committed" THEN "ok" ELSE "rolledBack"

EndWith(record) ==
  /\ step = "closed"
  /\ journal' = record
  /\ step' = "idle" /\ result' = Told
  /\ UNCHANGED <<op, files, audit, mode, todo, victim, outcome, history,
                 edits, crashes>>

RemoveRecord == EndWith(NoRecord) /\ UNCHANGED faults

-----------------------------------------------------------------------------
(* Errors.                                                                 *)

\* Mutant of Failed: an error in the recovery of an error is a rollback too.
FailedIsUndone ==
  /\ step' = IF mode = "mutating" THEN "checking" ELSE "idle"
  /\ mode' = IF mode = "mutating" THEN "resolving" ELSE mode
  /\ result' = IF mode = "resolving" THEN "rolledBack" ELSE result
  /\ todo' = {} /\ victim' = {}

\* The first error makes the transaction recover, the second ends it.
Failed ==
  /\ step' = IF mode = "mutating" THEN "checking" ELSE "idle"
  /\ mode' = IF mode = "mutating" THEN "resolving" ELSE mode
  /\ result' = IF mode = "resolving" THEN "unknown" ELSE result
  /\ todo' = {} /\ victim' = {}

NoRoom ==
  /\ Finalizing /\ NeedsEntry /\ ~Room /\ mode # "recovering"
  /\ Failed
  /\ UNCHANGED <<op, files, audit, journal, outcome, history, limits>>

\* A file that recovery has to look at, or the log, cannot be decoded.
ReadFails ==
  /\ \/ step = "checking" /\ \E f \in Targets : Compared(f) /\ ~Readable(f)
     \/ step = "undoing" /\ victim = {} /\ \E f \in todo : Due(f) /\ ~Readable(f)
     \/ Finalizing /\ ~Readable(AuditFile)
  /\ Failed
  /\ UNCHANGED <<op, files, audit, journal, outcome, history, limits>>

\* An operation on a file that reports an error may have taken effect.
Fault ==
  /\ faults < MaxFaults /\ faults' = faults + 1
  /\ step \in {"changing", "checking", "undoing", "auditing", "audited"}
  /\ Failed
  /\ \/ step = "changing" /\ \E f \in Files : ChangeFile(f)
     \/ step = "undoing" /\ \E f \in Files : RestoreFile(f)
     \/ WriteEntry
     \/ UNCHANGED <<files, audit>>
  /\ UNCHANGED <<op, journal, outcome, history, edits, crashes>>

\* The error of removing the record is swallowed.
RemovalFault ==
  /\ faults < MaxFaults /\ faults' = faults + 1
  /\ EndWith(journal)

Crash ==
  /\ crashes < MaxCrashes /\ crashes' = crashes + 1
  /\ step # "idle" /\ step' = "idle"
  /\ todo' = {} /\ victim' = {}
  /\ outcome' = "none"
  /\ result' = IF result = "none" THEN "lost" ELSE result
  /\ UNCHANGED <<op, files, audit, journal, mode, history, edits, faults>>

\* Another program edits a file, leaving the lines of the log as they are, fills
\* the log, makes a file one that cannot be read, or removes one other than the
\* log (which the next start makes anew, before it recovers).
Edit(f, content) ==
  /\ edits < MaxEdits /\ edits' = edits + 1
  /\ files[f] # content
  /\ content = "full" => f = AuditFile
  /\ content = "none" => f # AuditFile
  /\ files' = [files EXCEPT ![f] = content]
  /\ kept' = IF content = "none" THEN kept \ {f}
             ELSE IF step = "idle" THEN kept \cup {f} ELSE kept
  /\ UNCHANGED <<op, audit, journal, mode, step, todo, victim, outcome, result,
                 verdict, crashes, faults>>

-----------------------------------------------------------------------------

Progress ==
  \/ Refuse \/ Begin \/ Changed
  \/ FinishApplied \/ BeginUndo
  \/ \E f \in Files : Change(f) \/ Examine(f) \/ Restore(f)
  \/ Audit \/ Close \/ RemoveRecord \/ NoRoom \/ ReadFails

Next ==
  \/ Progress \/ Recover
  \/ Fault \/ RemovalFault \/ Crash
  \/ \E f \in Files, content \in {"none", "edited", "full", "unreadable"} : Edit(f, content)

Spec == Init /\ [][Next]_vars

\* Awaits resume, and every use of the memory files begins with recovery: the
\* next request of a conversation reads them.
FairSpec == Spec /\ WF_vars(Progress) /\ WF_vars(Recover)

-----------------------------------------------------------------------------
(* Correctness.  The first group is about the time before another program  *)
(* writes, and operations that leave the audit log's own text alone.       *)

Quiet == edits = 0 /\ (AuditFile \in op.replaced => op.deferred)

Installed ==
  /\ \A f \in op.replaced : files[f] = "after"
  /\ \A f \in op.deleted : files[f] = "none"

Untouched == \A f \in Files : files[f] = Original(f)

\* Once the record is gone the files are all new or all old, as recorded, and
\* nothing happened behind a change that was refused.
WholeOrNothing ==
  Quiet /\ step = "idle" /\ journal = NoRecord =>
    IF verdict = "committed" THEN Installed ELSE Untouched

\* The log of a change that ended with an outcome.
LogOf(o) == IF op.deferred THEN <<>> ELSE <<o>>

\* The caller is told the truth, also after an error (MemoryMutationException's
\* rollbackSucceeded), and the log tells the outcome of a finished change, once,
\* unless it is deferred.
OutcomeTold ==
  Quiet =>
    /\ result = "ok" => Installed
    /\ result \in {"rolledBack", "refused"} => Untouched
    /\ journal = NoRecord /\ verdict # "none" => audit = LogOf(verdict)

Atomic == INSTANCE AtomicMutation
            WITH applied <- Installed,
                 verdict <- IF verdict = "failed" THEN "rolledBack" ELSE verdict,
                 disturbed <- FALSE

\* With crashes and errors at any point, the change is applied as a whole, and
\* the outcome, once it is in the log, is neither changed nor belied: as long as
\* nobody else writes, every step is one of the atomic mutation, or none.
ImplementsAtomic ==
  Atomic!Init /\ [][Quiet' => [Atomic!Next]_(Atomic!vars)]_vars

-----------------------------------------------------------------------------
(* The rest holds, or is said to hold, whoever else writes.                *)

\* Recovery never overwrites what somebody wrote into a file between the
\* transactions (the comparison with the hash in _recoverRecord).
EditsKept == \A f \in kept : files[f] \in {"edited", "full", "unreadable"}

\* A record is not kept for ever: it would be looked at, and might undo
\* something, at every later use of the memory files.  A full log is no obstacle.
\* One that cannot be read is, and so is such a file of the change: its record
\* stays, and every use of the memory files fails, as long as it is so.
RecordsEnd ==
  []<>(\A f \in Targets \cup {AuditFile} : Readable(f)) => []<>(journal = NoRecord)

\* test/memory_mutation_recovery_test.dart: "recovery finalizes a fully applied
\* journal exactly once".
OneVerdict == Len(audit) <= 1

-----------------------------------------------------------------------------
(* What the proofs strengthen the invariants to.                           *)

New(f) == IF f \in op.replaced THEN "after" ELSE "none"

\* No edit made between transactions is about to be overwritten.
EditsInductive ==
  /\ TypeOK
  /\ step \in {"preparing", "changing"} => kept = {}
  /\ step # "undoing" => victim = {}
  /\ victim \cap kept = {}
  /\ EditsKept

\* What each step may rely on.
StepFits ==
  /\ step \in {"preparing", "changing"} =>
       mode = "mutating" /\ audit = <<>> /\ verdict = "none" /\ result = "none"
  /\ step = "preparing" => journal = NoRecord
  /\ step \notin {"preparing", "idle"} => journal # NoRecord
  /\ step \in {"checking", "undoing"} => mode # "mutating"
  /\ step = "undoing" => outcome = "failed"
  /\ step = "auditing" => outcome = "committed"
  /\ step \in {"audited", "closed"} => verdict = outcome
  /\ step # "undoing" => victim = {}
  /\ todo \subseteq Targets /\ victim \subseteq Targets
  /\ \A f, g \in victim : f = g
  /\ result = "refused" => step = "idle" /\ journal = NoRecord

\* The log has at most the entry of the outcome, and none if it is deferred.
LogFits ==
  /\ journal # NoRecord => journal.deferred = op.deferred
  /\ op.deferred => audit = <<>>
  /\ audit \in {<<>>, <<"committed">>, <<"failed">>}
  /\ step = "audited" => audit = <<outcome>>
  /\ \A o \in Outcomes : journal.status = o /\ journal.written => audit = <<o>>
  /\ step = "closed" \/ (journal = NoRecord /\ verdict # "none") =>
       audit = LogOf(verdict)

\* Each file is old or new; the ones a transaction is done with are one of them.
FilesFit ==
  /\ \A f \in Files : files[f] = Original(f) \/ (f \in Targets /\ files[f] = New(f))
  /\ step = "preparing" \/ (journal = NoRecord /\ verdict = "none") => Untouched
  /\ step = "changing" =>
       \A f \in Targets : files[f] = IF f \in todo THEN Original(f) ELSE New(f)
  /\ step = "undoing" =>
       /\ verdict # "committed" /\ result # "ok" /\ audit # <<"committed">>
       /\ \A f \in Targets : f \in todo \/ f \in victim \/ files[f] = Original(f)
       /\ ~Installed
  /\ step = "auditing" \/ verdict = "committed" \/ result = "ok"
        \/ audit = <<"committed">> => Installed
  /\ verdict = "failed" \/ result \in {"rolledBack", "refused"}
        \/ audit = <<"failed">> => Untouched

QuietInductive == TypeOK /\ StepFits /\ LogFits /\ FilesFit
=============================================================================
