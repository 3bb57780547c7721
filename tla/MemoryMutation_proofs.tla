------------------------ MODULE MemoryMutation_proofs ------------------------
(***************************************************************************)
(* Proofs about MemoryMutation, for every set of files and operations and  *)
(* every bound.  The first part is about all behaviours; the second about  *)
(* Quiet states, those before another program writes, of operations that   *)
(* leave the text of the audit log alone or defer their entry.             *)
(***************************************************************************)
EXTENDS MemoryMutation, TLAPS

\* What the assumption on operations says of the one under way.
LEMMA OpFacts ==
  ASSUME op \in Operations
  PROVE  /\ op.replaced \subseteq Files \ op.deleted
         /\ op.created \subseteq op.replaced
         /\ op.deleted \subseteq Files
         /\ Targets \subseteq Files /\ Targets # {}
         /\ AuditFile \in Files
         /\ AuditFile \notin op.created \cup op.deleted
         /\ op.deferred \in BOOLEAN
  BY OperationsAssumption DEF Targets

-----------------------------------------------------------------------------
(* Types, and the edits of other programs.                                 *)

LEMMA InitType == Init => TypeOK
<1> SUFFICES ASSUME Init PROVE TypeOK
  OBVIOUS
<1>1. files \in [Files -> Contents]
  BY DEF Init, Original, Contents
<1>2. audit \in Seq(Outcomes)
  BY DEF Init
<1> QED BY <1>1, <1>2, LimitsAssumption DEF Init, TypeOK

\* What the transaction does to the files and the log keeps their types.
LEMMA FileTypes ==
  ASSUME TypeOK, NEW f, ChangeFile(f) \/ RestoreFile(f) \/ WriteEntry
  PROVE  /\ files' \in [Files -> Contents]
         /\ audit' \in Seq(Outcomes)
<1>1. CASE ChangeFile(f)
  BY <1>1 DEF TypeOK, ChangeFile, Contents
<1>2. CASE RestoreFile(f)
  BY <1>2 DEF TypeOK, RestoreFile, Original, Contents
<1>3. CASE WriteEntry
  <2>1. outcome \in Outcomes
    BY <1>3 DEF TypeOK, WriteEntry, Finalizing
  <2> QED BY <2>1, <1>3 DEF TypeOK, WriteEntry
<1> QED BY <1>1, <1>2, <1>3

\* Every step keeps the types.
LEMMA NextType ==
  ASSUME TypeOK, [Next]_vars
  PROVE  TypeOK'
<1> USE DEF limits, history
<1>1. CASE Refuse \/ Begin \/ Changed \/ FinishApplied \/ BeginUndo
  <2>1. op \in Operations
    BY DEF TypeOK
  <2>2. Targets \subseteq Files /\ op.deferred \in BOOLEAN
    BY <2>1, OpFacts
  <2>3. ASSUME MarkApplied
        PROVE  journal' \in Records
    <3>1. CASE journal = NoRecord
      BY <2>3, <3>1 DEF MarkApplied, NoRecord, Records
    <3>2. CASE journal \in Records
      BY <2>3, <3>2 DEF MarkApplied, Records
    <3> QED BY <3>1, <3>2 DEF TypeOK
  <2>4. journal' \in {NoRecord} \cup Records
    <3>1. CASE Begin
      BY <2>2, <3>1 DEF Begin, Records
    <3>2. CASE Changed \/ FinishApplied
      BY <2>3, <3>2 DEF Changed, FinishApplied
    <3>3. CASE Refuse \/ BeginUndo
      BY <3>3 DEF TypeOK, Refuse, BeginUndo
    <3> QED BY <1>1, <3>1, <3>2, <3>3
  <2> QED BY <1>1, <2>2, <2>4
    DEF TypeOK, Refuse, Begin, Changed, FinishApplied, BeginUndo, MarkApplied, Outcomes
<1>2. ASSUME NEW f \in Files, Change(f) \/ Restore(f)
      PROVE  TypeOK'
  <2>1. /\ files' \in [Files -> Contents]
        /\ audit' \in Seq(Outcomes)
    BY <1>2, FileTypes DEF Change, Restore
  <2> QED BY <1>2, <2>1 DEF TypeOK, Change, Restore
<1>3. ASSUME NEW f \in Files, Examine(f)
      PROVE  TypeOK'
  BY <1>3 DEF TypeOK, Examine
<1>4. CASE Audit
  <2>1. /\ files' \in [Files -> Contents]
        /\ audit' \in Seq(Outcomes)
    BY <1>4, FileTypes DEF Audit
  <2>2. outcome \in Outcomes
    BY <1>4 DEF TypeOK, Audit, WriteEntry, Finalizing
  <2> QED BY <1>4, <2>1, <2>2 DEF TypeOK, Audit, Outcomes
<1>5. CASE Close
  <2>1. outcome \in Outcomes
    BY <1>5 DEF TypeOK, Close, Finalizing
  <2>2. PICK deferred \in BOOLEAN :
          journal' = [status |-> outcome, written |-> ~deferred, deferred |-> deferred]
    <3>1. journal.deferred \in BOOLEAN
      <4>1. journal = NoRecord \/ journal \in Records
        BY DEF TypeOK
      <4>2. CASE journal = NoRecord
        BY <4>2 DEF NoRecord
      <4>3. CASE journal \in Records
        BY <4>3 DEF Records
      <4> QED BY <4>1, <4>2, <4>3
    <3>2. (journal.deferred \/ (step # "audited" /\ NeedsEntry)) \in BOOLEAN
      BY <3>1
    <3> QED BY <1>5, <3>2 DEF Close
  <2>3. journal' \in Records
    BY <2>1, <2>2 DEF Records
  <2> QED BY <1>5, <2>1, <2>3 DEF TypeOK, Close, Outcomes
<1>6. CASE RemoveRecord \/ RemovalFault
  BY <1>6, LimitsAssumption DEF TypeOK, RemoveRecord, RemovalFault, EndWith, Told
<1>7. CASE NoRoom \/ ReadFails
  BY <1>7 DEF TypeOK, NoRoom, ReadFails, Failed
<1>8. CASE Recover
  BY <1>8 DEF TypeOK, Recover
<1>9. CASE Fault
  <2>1. /\ files' \in [Files -> Contents]
        /\ audit' \in Seq(Outcomes)
    BY <1>9, FileTypes DEF Fault, TypeOK
  <2> QED BY <1>9, <2>1, LimitsAssumption DEF TypeOK, Fault, Failed
<1>10. CASE Crash
  BY <1>10, LimitsAssumption DEF TypeOK, Crash
<1>11. ASSUME NEW f \in Files, NEW content \in {"none", "edited", "full", "unreadable"},
              Edit(f, content)
       PROVE  TypeOK'
  BY <1>11, LimitsAssumption DEF TypeOK, Edit, Contents
<1>12. CASE UNCHANGED vars
  BY <1>12 DEF TypeOK, vars
<1> QED BY <1>1, <1>2, <1>3, <1>4, <1>5, <1>6, <1>7, <1>8, <1>9, <1>10, <1>11, <1>12
    DEF Next, Progress

\* Every variable keeps its type, and no transaction records an outcome it did
\* not decide on.
THEOREM TypeCorrect == Spec => []TypeOK
<1> QED BY InitType, NextType, PTL DEF Spec

\* The inductive invariant that protects the edits of other programs: nothing
\* that was edited between transactions is about to be restored.
LEMMA EditsInvariant == Spec => []EditsInductive
<1>1. Init => EditsInductive
  BY InitType DEF Init, EditsInductive, EditsKept
<1>2. ASSUME EditsInductive, [Next]_vars
      PROVE  EditsInductive'
  <2> USE DEF EditsInductive, EditsKept, limits, history
  <2>0. TypeOK'
    BY <1>2, NextType
  <2>1. CASE Refuse \/ Begin \/ Changed \/ FinishApplied \/ BeginUndo \/ Recover
    BY <1>2, <2>0, <2>1
    DEF Refuse, Begin, Changed, FinishApplied, BeginUndo, Recover, MarkApplied
  <2>2. ASSUME NEW f \in Files, Change(f)
        PROVE  EditsInductive'
    BY <1>2, <2>0, <2>2 DEF Change, ChangeFile
  <2>3. ASSUME NEW f \in Files, Examine(f)
        PROVE  EditsInductive'
    <3>1. Revertible(f) => f \notin kept
      BY <1>2 DEF Revertible, InPlace, Matches
    <3> QED BY <1>2, <2>0, <2>3, <3>1 DEF Examine
  <2>4. ASSUME NEW f \in Files, Restore(f)
        PROVE  EditsInductive'
    <3>1. \A g \in kept : files'[g] = files[g]
      BY <1>2, <2>4 DEF Restore, RestoreFile, TypeOK
    <3> QED BY <1>2, <2>0, <2>4, <3>1 DEF Restore
  <2>5. CASE Audit \/ Close \/ RemoveRecord \/ RemovalFault
    BY <1>2, <2>0, <2>5
    DEF Audit, WriteEntry, Close, Finalizing, RemoveRecord, RemovalFault, EndWith
  <2>6. CASE NoRoom \/ ReadFails
    BY <1>2, <2>0, <2>6 DEF NoRoom, ReadFails, Failed, Finalizing, TypeOK
  <2>7. CASE Fault
    <3>1. \A g \in kept : files'[g] = files[g]
      BY <1>2, <2>7 DEF Fault, ChangeFile, RestoreFile, WriteEntry, TypeOK
    <3>2. step' \in {"checking", "idle"} /\ victim' = {} /\ kept' = kept
      BY <2>7 DEF Fault, Failed
    <3> QED BY <1>2, <2>0, <3>1, <3>2
  <2>8. CASE Crash
    BY <1>2, <2>0, <2>8 DEF Crash
  <2>9. ASSUME NEW f \in Files, NEW content \in {"none", "edited", "full", "unreadable"},
               Edit(f, content)
        PROVE  EditsInductive'
    <3>1. \A g \in Files : files'[g] = IF g = f THEN content ELSE files[g]
      BY <1>2, <2>9 DEF Edit, TypeOK
    <3>2. kept' \subseteq Files
      BY <2>0 DEF TypeOK
    <3>3. step' = step /\ victim' = victim
      BY <2>9 DEF Edit
    <3>4. step \in {"preparing", "changing"} => kept' = {}
      BY <1>2, <2>9 DEF Edit
    <3>5. victim' \cap kept' = {}
      BY <1>2, <2>9 DEF Edit
    <3>6. \A g \in kept' : files'[g] \in {"edited", "full", "unreadable"}
      BY <1>2, <2>9, <3>1, <3>2 DEF Edit, TypeOK
    <3> QED BY <1>2, <2>0, <3>3, <3>4, <3>5, <3>6
  <2>10. CASE UNCHANGED vars
    BY <1>2, <2>0, <2>10 DEF vars
  <2> QED BY <1>2, <2>1, <2>2, <2>3, <2>4, <2>5, <2>6, <2>7, <2>8, <2>9, <2>10
      DEF Next, Progress
<1> QED BY <1>1, <1>2, PTL DEF Spec

\* Whatever fails and whoever else writes, recovery overwrites no edit made
\* between the transactions.
THEOREM EditsSafe == Spec => []EditsKept
<1>1. EditsInductive => EditsKept
  BY DEF EditsInductive
<1> QED BY EditsInvariant, <1>1, PTL

-----------------------------------------------------------------------------
(* Before another program writes.                                          *)

\* A log with one entry is not an empty one, and tells which entry it is.
LEMMA OneEntry ==
  /\ Append(<<>>, "committed") = <<"committed">>
  /\ Append(<<>>, "failed") = <<"failed">>
  /\ <<"committed">> # <<"failed">> /\ <<>> # <<"committed">> /\ <<>> # <<"failed">>
  /\ Len(<<>>) = 0 /\ Len(<<"committed">>) = 1 /\ Len(<<"failed">>) = 1
  /\ <<"committed">>[1] = "committed" /\ <<"failed">>[1] = "failed"
  OBVIOUS

\* A change changes something, and each of its files.
LEMMA NewIsNew ==
  ASSUME op \in Operations
  PROVE  /\ \A f \in Targets : New(f) # Original(f)
         /\ Installed <=> \A f \in Targets : files[f] = New(f)
         /\ ~(Installed /\ Untouched)
<1>1. \A f \in Targets : New(f) # Original(f)
  BY OpFacts DEF Targets, New, Original
<1>2. Installed <=> \A f \in Targets : files[f] = New(f)
  BY OpFacts DEF Installed, Targets, New
<1>3. ~(Installed /\ Untouched)
  BY <1>1, <1>2, OpFacts DEF Untouched
<1> QED BY <1>1, <1>2, <1>3

\* Before another program writes, the hashes in the record tell old files from new
\* ones, every file can be read, and the log has room.
LEMMA HashesTell ==
  ASSUME Quiet, QuietInductive
  PROVE  /\ FullyApplied <=> Installed
         /\ \A f \in Targets : Revertible(f) <=> files[f] = New(f)
         /\ Differs <=> ~Installed
         /\ \A f \in Files : Readable(f)
         /\ Room
         /\ AuditFile \in Targets => audit = <<>>
<1>1. op \in Operations
  BY DEF QuietInductive, TypeOK
<1>2. AuditFile \in Targets => audit = <<>>
  BY <1>1, OpFacts DEF Quiet, QuietInductive, LogFits, LogOf, Targets
<1>3. \A f \in op.replaced : Matches(f) <=> files[f] = "after"
  BY <1>2 DEF Matches, Targets
<1>4. FullyApplied <=> Installed
  BY <1>1, <1>3, OpFacts DEF FullyApplied, InPlace, Installed, Targets
<1>5. \A f \in Targets : Revertible(f) <=> files[f] = New(f)
  BY <1>1, <1>3, OpFacts DEF Revertible, InPlace, New, Targets
<1>6. Room
  BY <1>1, OpFacts DEF Room, QuietInductive, FilesFit, Original, New
<1>7. \A f \in Files : Readable(f)
  BY <1>1, OpFacts DEF Readable, QuietInductive, FilesFit, Original, New
<1>8. Differs <=> ~Installed
  <2>1. ASSUME ~Installed PROVE Differs
    <3>1. CASE \A f \in op.replaced : Matches(f)
      <4>1. PICK f \in Targets : ~InPlace(f)
        BY <1>4, <2>1 DEF FullyApplied
      <4>2. Compared(f) /\ Readable(f)
        BY <1>1, <1>7, <3>1, OpFacts DEF Compared
      <4> QED BY <4>1, <4>2 DEF Differs
    <3>2. CASE \E f \in op.replaced : ~Matches(f)
      <4>1. PICK f \in op.replaced : ~Matches(f)
        BY <3>2
      <4>2. f \in Targets /\ Compared(f) /\ ~InPlace(f)
        BY <1>1, <4>1, OpFacts DEF Targets, Compared, InPlace
      <4>3. Readable(f)
        BY <1>1, <1>7, <4>2, OpFacts
      <4> QED BY <4>2, <4>3 DEF Differs
    <3> QED BY <3>1, <3>2
  <2>2. Differs => ~Installed
    BY <1>4 DEF Differs, FullyApplied
  <2> QED BY <2>1, <2>2
<1> QED BY <1>2, <1>4, <1>5, <1>6, <1>7, <1>8

\* An entry is written only into a log without one.
LEMMA EntryIsFirst ==
  ASSUME Quiet, QuietInductive, WriteEntry
  PROVE  /\ outcome \in Outcomes /\ ~op.deferred
         /\ audit = <<>> /\ audit' = <<outcome>>
         /\ outcome = "committed" => Installed
         /\ outcome = "failed" => Untouched
<1> USE DEF QuietInductive
<1>1. op \in Operations
  BY DEF TypeOK
<1>2. CASE step = "auditing"
  <2>1. outcome = "committed" /\ Installed
    BY <1>2 DEF StepFits, FilesFit
  <2>2. audit # <<"failed">>
    BY <2>1, <1>1, NewIsNew DEF FilesFit
  <2>3. audit # <<"committed">>
    BY <2>1, OneEntry DEF WriteEntry, NeedsEntry, Listed
  <2>4. audit = <<>>
    BY <2>2, <2>3 DEF LogFits, LogOf
  <2> QED BY <1>2, <2>1, <2>4, OneEntry
    DEF WriteEntry, NeedsEntry, StepFits, LogFits, LogOf, Outcomes
<1>3. CASE step = "undoing" /\ todo = {} /\ victim = {}
  <2>1. outcome = "failed" /\ audit # <<"committed">>
    BY <1>3 DEF StepFits, FilesFit
  <2>2. Untouched
    BY <1>3 DEF FilesFit, Untouched
  <2>3. audit # <<"failed">>
    BY <2>1, OneEntry DEF WriteEntry, NeedsEntry, Listed
  <2>4. audit = <<>>
    BY <2>1, <2>3 DEF LogFits, LogOf
  <2> QED BY <1>3, <2>1, <2>2, <2>4, OneEntry
    DEF WriteEntry, NeedsEntry, StepFits, LogFits, LogOf, Outcomes
<1> QED BY <1>2, <1>3 DEF WriteEntry, Finalizing

\* A record is closed when the log has its entry, or never gets one.
LEMMA ClosedIsTold ==
  ASSUME Quiet, QuietInductive, Close
  PROVE  /\ outcome \in Outcomes
         /\ audit = IF op.deferred THEN <<>> ELSE <<outcome>>
         /\ journal' = [status |-> outcome, written |-> ~op.deferred,
                        deferred |-> op.deferred]
         /\ outcome = "committed" => Installed
         /\ outcome = "failed" => Untouched
<1> USE DEF QuietInductive
<1>1. outcome \in Outcomes
  BY DEF Close, Finalizing, TypeOK
<1>2. step # "audited" => ~NeedsEntry
  BY HashesTell DEF Close, MayDefer
<1>3. journal # NoRecord /\ journal.deferred = op.deferred
  BY DEF Close, Finalizing, StepFits, LogFits, LogOf
<1>4. op.deferred \in BOOLEAN
  BY OpFacts DEF TypeOK
<1>5. journal' = [status |-> outcome, written |-> ~op.deferred, deferred |-> op.deferred]
  BY <1>2, <1>3, <1>4 DEF Close
<1>6. audit = IF op.deferred THEN <<>> ELSE <<outcome>>
  <2>1. CASE op.deferred
    BY <2>1 DEF LogFits, LogOf
  <2>2. CASE ~op.deferred /\ step = "audited"
    BY <2>2 DEF LogFits, LogOf
  <2>3. CASE ~op.deferred /\ step # "audited"
    <3>1. AlreadyWritten \/ Listed(outcome)
      BY <1>2, <1>3, <2>3 DEF NeedsEntry
    <3>2. CASE AlreadyWritten
      BY <3>2, <1>1, <2>3 DEF AlreadyWritten, LogFits, LogOf
    <3>3. CASE Listed(outcome)
      BY <3>3, <1>1, <2>3, OneEntry DEF Listed, LogFits, LogOf, Outcomes
    <3> QED BY <3>1, <3>2, <3>3
  <2> QED BY <2>1, <2>2, <2>3
<1>7. CASE step = "audited"
  BY <1>1, <1>5, <1>6, <1>7 DEF StepFits, FilesFit
<1>8. CASE step = "auditing"
  BY <1>1, <1>5, <1>6, <1>8 DEF StepFits, FilesFit
<1>9. CASE step = "undoing" /\ todo = {} /\ victim = {}
  BY <1>1, <1>5, <1>6, <1>9 DEF StepFits, FilesFit, Untouched
<1> QED BY <1>7, <1>8, <1>9 DEF Close, Finalizing

\* The operation determines its targets and the contents it knows.
LEMMA SameOperation ==
  ASSUME op' = op
  PROVE  /\ Targets' = Targets
         /\ \A f \in Files : Original(f)' = Original(f) /\ New(f)' = New(f)
  BY DEF Targets, Original, New

\* The same files are installed, or untouched, as before.
LEMMA SameFiles ==
  ASSUME op' = op, files' = files
  PROVE  (Installed' <=> Installed) /\ (Untouched' <=> Untouched)
  BY DEF Installed, Untouched, Original

\* Where no file is changed it is enough to look at what the step says of them.
LEMMA FilesStillFit ==
  ASSUME QuietInductive, op' = op, files' = files,
         step' \in {"preparing", "changing", "undoing"} =>
           step' = step /\ UNCHANGED <<todo, victim, verdict, result, audit>>,
         journal' = NoRecord /\ verdict' = "none" =>
           step = "preparing" \/ (journal = NoRecord /\ verdict = "none"),
         step' = "auditing" \/ verdict' = "committed" \/ result' = "ok"
           \/ audit' = <<"committed">> => Installed,
         verdict' = "failed" \/ result' \in {"rolledBack", "refused"}
           \/ audit' = <<"failed">> => Untouched
  PROVE  FilesFit'
<1> USE DEF QuietInductive
<1>1. /\ Targets' = Targets
      /\ \A f \in Files : Original(f)' = Original(f) /\ New(f)' = New(f)
      /\ Installed' <=> Installed
      /\ Untouched' <=> Untouched
  BY SameOperation, SameFiles
<1>2. Targets \subseteq Files
  BY OpFacts DEF TypeOK
<1>3. \A f \in Files : files'[f] = Original(f)' \/ (f \in Targets' /\ files'[f] = New(f)')
  BY <1>1 DEF FilesFit
<1>4. step' = "preparing" \/ (journal' = NoRecord /\ verdict' = "none") => Untouched'
  BY <1>1 DEF FilesFit
<1>5. step' = "changing" =>
        \A f \in Targets' : files'[f] = IF f \in todo' THEN Original(f)' ELSE New(f)'
  BY <1>1, <1>2 DEF FilesFit
<1>6. step' = "undoing" =>
        /\ verdict' # "committed" /\ result' # "ok" /\ audit' # <<"committed">>
        /\ \A f \in Targets' : f \in todo' \/ f \in victim' \/ files'[f] = Original(f)'
        /\ ~Installed'
  BY <1>1, <1>2 DEF FilesFit
<1> QED BY <1>1, <1>3, <1>4, <1>5, <1>6 DEF FilesFit

\* The invariant is kept by the steps of a change and of recovery...
LEMMA QuietBegin ==
  ASSUME Quiet, QuietInductive, TypeOK', Refuse \/ Begin \/ Recover
  PROVE  QuietInductive'
<1> USE DEF QuietInductive, limits, history
<1>1. op \in Operations /\ Targets' = Targets
  BY SameOperation DEF TypeOK, Refuse, Begin, Recover
<1>2. CASE Refuse
  <2>1. StepFits' /\ LogFits'
    BY <1>1, <1>2 DEF Refuse, StepFits, LogFits, LogOf
  <2>2. FilesFit'
    BY <1>2, FilesStillFit DEF Refuse, FilesFit
  <2> QED BY <2>1, <2>2
<1>3. CASE Begin
  <2>1. journal' # NoRecord /\ journal'.deferred = op.deferred
        /\ journal'.status = "pending"
    BY <1>3 DEF Begin, NoRecord
  <2>2. StepFits' /\ LogFits'
    BY <1>1, <1>3, <2>1 DEF Begin, StepFits, LogFits, LogOf, Outcomes
  <2>3. Untouched /\ verdict = "none" /\ result = "none" /\ audit = <<>>
    BY <1>3 DEF Begin, FilesFit, StepFits
  <2>4. /\ \A f \in Files : Original(f)' = Original(f) /\ New(f)' = New(f)
        /\ Untouched' <=> Untouched
    BY <1>3, SameOperation, SameFiles DEF Begin
  <2>5. FilesFit'
    BY <1>1, <1>3, <2>1, <2>3, <2>4, OpFacts, OneEntry DEF Begin, FilesFit, Untouched
  <2> QED BY <2>2, <2>5
<1>4. CASE Recover
  <2>1. StepFits' /\ LogFits'
    BY <1>1, <1>4 DEF Recover, StepFits, LogFits, LogOf
  <2>2. FilesFit'
    BY <1>4, FilesStillFit DEF Recover, FilesFit
  <2> QED BY <2>1, <2>2
<1> QED BY <1>2, <1>3, <1>4

\* A record is marked applied only when every file is new.
LEMMA QuietApplied ==
  ASSUME Quiet, QuietInductive, TypeOK', Changed \/ FinishApplied
  PROVE  QuietInductive'
<1> USE DEF QuietInductive, limits, history, Changed, FinishApplied, MarkApplied
<1>1. op \in Operations /\ Targets' = Targets
  BY SameOperation DEF TypeOK
<1>2. Installed
  <2>1. CASE Changed
    BY <1>1, <2>1, NewIsNew DEF FilesFit
  <2>2. CASE FinishApplied
    BY <2>2, HashesTell
  <2> QED BY <2>1, <2>2
<1>3. journal # NoRecord
  BY DEF StepFits
<1>4. journal' # NoRecord /\ journal'.status = "applied"
      /\ journal'.deferred = op.deferred
  BY <1>3 DEF NoRecord, Records, TypeOK, LogFits, LogOf
<1>5. StepFits'
  BY <1>1, <1>4 DEF StepFits
<1>6. LogFits'
  BY <1>3, <1>4 DEF LogFits, LogOf, Outcomes
<1>7. ~Untouched
  BY <1>1, <1>2, NewIsNew
<1>8. FilesFit'
  BY <1>2, <1>4, <1>7, FilesStillFit DEF FilesFit
<1> QED BY <1>5, <1>6, <1>8

\* An undo begins only when the files are not all new.
LEMMA QuietUndo ==
  ASSUME Quiet, QuietInductive, TypeOK', BeginUndo
  PROVE  QuietInductive'
<1> USE DEF QuietInductive, limits, history, BeginUndo
<1>1. op \in Operations /\ Targets' = Targets
  BY SameOperation DEF TypeOK
<1>2. ~Installed
  BY HashesTell
<1>3. /\ \A f \in Files : Original(f)' = Original(f) /\ New(f)' = New(f)
      /\ Installed' <=> Installed
      /\ Untouched' <=> Untouched
  BY SameOperation, SameFiles
<1>4. StepFits' /\ LogFits'
  BY <1>1 DEF StepFits, LogFits, LogOf
<1>5. FilesFit'
  BY <1>1, <1>2, <1>3, OpFacts DEF FilesFit, StepFits
<1> QED BY <1>4, <1>5

\* One file is written, examined or restored.
LEMMA QuietFiles ==
  ASSUME Quiet, QuietInductive, TypeOK', NEW f \in Files,
         Change(f) \/ Examine(f) \/ Restore(f)
  PROVE  QuietInductive'
<1> USE DEF QuietInductive, limits, history
<1>1. /\ op \in Operations /\ Targets' = Targets
      /\ \A g \in Files : Original(g)' = Original(g) /\ New(g)' = New(g)
  BY SameOperation DEF TypeOK, Change, Examine, Restore
<1>2. Targets \subseteq Files
  BY <1>1, OpFacts
<1>3. CASE Change(f)
  <2>1. f \in Targets /\ files' = [files EXCEPT ![f] = New(f)] /\ audit' = audit
    BY <1>1, <1>3, OpFacts DEF Change, ChangeFile, Targets, New
  <2>2. StepFits' /\ LogFits'
    BY <1>1, <1>3, <2>1 DEF Change, StepFits, LogFits, LogOf
  <2>3. \A g \in Files : files'[g] = IF g = f THEN New(f) ELSE files[g]
    BY <2>1 DEF TypeOK
  <2>4. FilesFit'
    BY <1>1, <1>2, <1>3, <2>1, <2>3, OneEntry DEF Change, FilesFit, StepFits
  <2> QED BY <2>2, <2>4
<1>4. CASE Examine(f)
  <2>1. StepFits' /\ LogFits'
    BY <1>1, <1>4 DEF Examine, Due, StepFits, LogFits, LogOf
  <2>2. (Installed' <=> Installed) /\ (Untouched' <=> Untouched)
    BY <1>4, SameFiles DEF Examine
  <2>3. f \in Targets /\ (files[f] = New(f) \/ files[f] = Original(f))
    BY <1>4 DEF Examine, Due, StepFits, FilesFit
  <2>4. files[f] = New(f) => victim' = {f}
    BY <1>4, <2>3, HashesTell DEF Examine
  <2>5. FilesFit'
    <3>1. \A g \in Files : files'[g] = Original(g)' \/ (g \in Targets' /\ files'[g] = New(g)')
      BY <1>1, <1>4 DEF Examine, FilesFit
    <3>2. \A g \in Targets' : g \in todo' \/ g \in victim' \/ files'[g] = Original(g)'
      BY <1>1, <1>2, <1>4, <2>3, <2>4 DEF Examine, FilesFit
    <3> QED BY <1>1, <1>4, <2>2, <3>1, <3>2 DEF Examine, FilesFit
  <2> QED BY <2>1, <2>5
<1>5. CASE Restore(f)
  <2>1. /\ f \in Targets /\ files' = [files EXCEPT ![f] = Original(f)]
        /\ audit' = audit
    BY <1>5, HashesTell DEF Restore, RestoreFile, StepFits
  <2>2. \A g \in Files : files'[g] = IF g = f THEN Original(f) ELSE files[g]
    BY <2>1 DEF TypeOK
  <2>3. StepFits' /\ LogFits'
    BY <1>1, <1>5, <2>1 DEF Restore, StepFits, LogFits, LogOf
  <2>4. ~Installed' /\ (Untouched => Untouched')
    BY <1>1, <1>2, <1>5, <2>1, <2>2, NewIsNew DEF Restore, Installed, Untouched, Targets, New
  <2>5. FilesFit'
    <3>1. \A g \in Files : files'[g] = Original(g)' \/ (g \in Targets' /\ files'[g] = New(g)')
      BY <1>1, <2>2 DEF FilesFit
    <3>2. \A g \in Targets' : g \in todo' \/ g \in victim' \/ files'[g] = Original(g)'
      <4>1. victim = {f}
        BY <1>5 DEF Restore, RestoreFile, StepFits
      <4> QED BY <1>1, <1>2, <1>5, <2>2, <4>1 DEF Restore, FilesFit
    <3>3. step = "undoing" /\ step' = step /\ journal' = journal /\ verdict' = verdict
          /\ result' = result
      BY <1>5 DEF Restore
    <3> QED BY <2>1, <2>4, <3>1, <3>2, <3>3 DEF FilesFit, StepFits
  <2> QED BY <2>3, <2>5
<1> QED BY <1>3, <1>4, <1>5

\* ... by those that record its outcome...
LEMMA QuietAudit ==
  ASSUME Quiet, QuietInductive, TypeOK', Audit
  PROVE  QuietInductive'
<1> USE DEF QuietInductive, limits, history
<1>1. op \in Operations /\ Targets' = Targets
  BY SameOperation DEF TypeOK, Audit
<1>2. /\ outcome \in Outcomes /\ ~op.deferred
      /\ audit = <<>> /\ audit' = <<outcome>>
      /\ outcome = "committed" => Installed
      /\ outcome = "failed" => Untouched
      /\ Finalizing /\ files' = files
  BY EntryIsFirst DEF Audit, WriteEntry
<1>3. /\ step' = "audited" /\ verdict' = outcome
      /\ UNCHANGED <<op, journal, mode, todo, victim, outcome, result>>
  BY DEF Audit
<1>4. step \notin {"preparing", "idle"} /\ journal # NoRecord /\ victim = {}
  BY <1>2 DEF Finalizing, StepFits
<1>5. StepFits'
  BY <1>1, <1>3, <1>4 DEF StepFits
<1>6. LogFits'
  BY <1>2, <1>3, <1>4, OneEntry DEF LogFits, LogOf, Outcomes
<1>7. result \in {"rolledBack", "refused"} => Untouched
  BY DEF FilesFit
<1>8. result = "ok" => Installed
  BY DEF FilesFit
<1>9. FilesFit'
  BY <1>2, <1>3, <1>4, <1>7, <1>8, FilesStillFit, OneEntry DEF Outcomes
<1> QED BY <1>5, <1>6, <1>9

\* The record becomes final after the entry in the log.
LEMMA QuietClose ==
  ASSUME Quiet, QuietInductive, TypeOK', Close
  PROVE  QuietInductive'
<1> USE DEF QuietInductive, limits, history
<1>1. op \in Operations /\ Targets' = Targets /\ op.deferred \in BOOLEAN
  BY SameOperation, OpFacts DEF TypeOK, Close
<1>2. /\ outcome \in Outcomes
      /\ audit = IF op.deferred THEN <<>> ELSE <<outcome>>
      /\ journal' = [status |-> outcome, written |-> ~op.deferred,
                     deferred |-> op.deferred]
      /\ outcome = "committed" => Installed
      /\ outcome = "failed" => Untouched
  BY ClosedIsTold
<1>3. /\ step' = "closed" /\ verdict' = outcome
      /\ UNCHANGED <<op, files, audit, mode, todo, victim, outcome, result>>
  BY DEF Close
<1>4. step \notin {"preparing", "idle"} /\ victim = {}
  BY DEF Close, Finalizing, StepFits
<1>5. journal' # NoRecord
  BY <1>2 DEF NoRecord, Outcomes
<1>6. StepFits'
  BY <1>1, <1>3, <1>4, <1>5 DEF StepFits
<1>7. LogFits'
  BY <1>1, <1>2, <1>3, <1>5, OneEntry DEF LogFits, LogOf, Outcomes
<1>8. /\ result \in {"rolledBack", "refused"} => Untouched
      /\ result = "ok" => Installed
      /\ audit = <<"committed">> => Installed
      /\ audit = <<"failed">> => Untouched
  BY DEF FilesFit
<1>9. FilesFit'
  BY <1>2, <1>3, <1>5, <1>8, FilesStillFit
<1> QED BY <1>6, <1>7, <1>9

\* The final record is removed, or left for the next use.
LEMMA QuietEnd ==
  ASSUME Quiet, QuietInductive, TypeOK', RemoveRecord \/ RemovalFault
  PROVE  QuietInductive'
<1> USE DEF QuietInductive, limits, history
<1>1. op \in Operations /\ Targets' = Targets
  BY SameOperation DEF TypeOK, RemoveRecord, RemovalFault, EndWith
<1>2. /\ step = "closed" /\ step' = "idle" /\ result' = Told
      /\ journal' \in {journal, NoRecord}
      /\ UNCHANGED <<op, files, audit, mode, todo, victim, outcome, verdict>>
  BY DEF RemoveRecord, RemovalFault, EndWith
<1>3. verdict = outcome /\ outcome \in Outcomes
  BY <1>2 DEF StepFits, TypeOK
<1>4. /\ verdict = "committed" => Installed
      /\ verdict = "failed" => Untouched
      /\ result \in {"rolledBack", "refused"} => Untouched
      /\ result = "ok" => Installed
      /\ audit = <<"committed">> => Installed
      /\ audit = <<"failed">> => Untouched
  BY DEF FilesFit
<1>5. result # "refused"
  BY <1>2 DEF StepFits
<1>6. StepFits'
  BY <1>1, <1>2, <1>5 DEF StepFits, Told
<1>7. LogFits'
  BY <1>2, <1>3 DEF LogFits, LogOf, NoRecord, Outcomes
<1>8. /\ result' = "ok" => Installed
      /\ result' \in {"rolledBack", "refused"} => Untouched
  BY <1>2, <1>3, <1>4 DEF Told, Outcomes
<1>9. FilesFit'
  BY <1>2, <1>3, <1>4, <1>8, FilesStillFit DEF Outcomes
<1> QED BY <1>6, <1>7, <1>9

\* ... and by errors and crashes.
LEMMA QuietFault ==
  ASSUME Quiet, QuietInductive, TypeOK', Fault
  PROVE  QuietInductive'
<1> USE DEF QuietInductive, limits, history
<1>1. /\ op \in Operations /\ Targets' = Targets
      /\ \A g \in Files : Original(g)' = Original(g) /\ New(g)' = New(g)
  BY SameOperation DEF TypeOK, Fault
<1>2. /\ step \in {"changing", "checking", "undoing", "auditing", "audited"}
      /\ step' \in {"checking", "idle"}
      /\ step' = "checking" => mode' # "mutating"
      /\ todo' = {} /\ victim' = {}
      /\ result' \in {result, "unknown"}
      /\ UNCHANGED <<op, journal, outcome, verdict>>
  BY DEF Fault, Failed
<1>3. journal # NoRecord /\ result # "refused"
  BY <1>2 DEF StepFits
<1>4. StepFits'
  BY <1>1, <1>2, <1>3 DEF StepFits
<1>5. CASE step = "changing" /\ \E f \in Files : ChangeFile(f)
  <2>1. PICK f \in Files : ChangeFile(f)
    BY <1>5
  <2>2. f \in Targets /\ files' = [files EXCEPT ![f] = New(f)] /\ audit' = audit
    BY <1>1, <2>1, OpFacts DEF ChangeFile, Targets, New
  <2>3. \A g \in Files : files'[g] = IF g = f THEN New(f) ELSE files[g]
    BY <2>2 DEF TypeOK
  <2>4. verdict = "none" /\ result = "none" /\ audit = <<>>
    BY <1>5 DEF StepFits
  <2>5. LogFits'
    BY <1>2, <1>3, <2>2 DEF LogFits, LogOf
  <2>6. FilesFit'
    BY <1>1, <1>2, <1>3, <2>2, <2>3, <2>4, OneEntry DEF FilesFit
  <2> QED BY <1>4, <2>5, <2>6
<1>6. CASE step = "undoing" /\ \E f \in Files : RestoreFile(f)
  <2>1. PICK f \in Files : RestoreFile(f)
    BY <1>6
  <2>2. /\ f \in Targets /\ files' = [files EXCEPT ![f] = Original(f)]
        /\ audit' = audit
    BY <2>1, HashesTell DEF RestoreFile, StepFits
  <2>3. \A g \in Files : files'[g] = IF g = f THEN Original(f) ELSE files[g]
    BY <2>2 DEF TypeOK
  <2>4. verdict # "committed" /\ result # "ok" /\ audit # <<"committed">>
    BY <1>6 DEF FilesFit
  <2>5. LogFits'
    BY <1>2, <1>3, <2>2 DEF LogFits, LogOf
  <2>6. Untouched => Untouched'
    BY <1>1, <2>3 DEF Untouched
  <2>7. FilesFit'
    BY <1>1, <1>2, <1>3, <2>2, <2>3, <2>4, <2>6 DEF FilesFit
  <2> QED BY <1>4, <2>5, <2>7
<1>7. CASE WriteEntry
  <2>1. /\ outcome \in Outcomes /\ ~op.deferred
        /\ audit = <<>> /\ audit' = <<outcome>>
        /\ outcome = "committed" => Installed
        /\ outcome = "failed" => Untouched
        /\ files' = files
    BY <1>7, EntryIsFirst DEF WriteEntry
  <2>2. LogFits'
    BY <1>2, <1>3, <2>1, OneEntry DEF LogFits, LogOf, Outcomes
  <2>3. /\ result \in {"rolledBack", "refused"} => Untouched
        /\ result = "ok" => Installed
        /\ verdict = "committed" => Installed
        /\ verdict = "failed" => Untouched
    BY DEF FilesFit
  <2>4. FilesFit'
    BY <1>2, <1>3, <2>1, <2>3, FilesStillFit, OneEntry DEF Outcomes
  <2> QED BY <1>4, <2>2, <2>4
<1>8. CASE UNCHANGED <<files, audit>>
  <2>1. LogFits'
    BY <1>2, <1>3, <1>8 DEF LogFits, LogOf
  <2>2. FilesFit'
    BY <1>2, <1>3, <1>8, FilesStillFit DEF FilesFit
  <2> QED BY <1>4, <2>1, <2>2
<1> QED BY <1>5, <1>6, <1>7, <1>8 DEF Fault

\* Nothing but a crash stops a transaction half way.
LEMMA QuietStops ==
  ASSUME Quiet, QuietInductive, TypeOK', NoRoom \/ ReadFails \/ Crash
  PROVE  QuietInductive'
<1> USE DEF QuietInductive, limits, history
<1>1. Crash
  <2>1. op \in Operations
    BY DEF TypeOK
  <2>2. /\ \A f \in Targets : Readable(f)
        /\ \A f \in todo : Readable(f)
        /\ Readable(AuditFile) /\ Room
    BY <2>1, HashesTell, OpFacts DEF StepFits
  <2> QED BY <2>2 DEF NoRoom, ReadFails
<1>2. op \in Operations /\ Targets' = Targets
  BY <1>1, SameOperation DEF TypeOK, Crash
<1>3. StepFits'
  BY <1>1, <1>2 DEF StepFits, Crash
<1>4. LogFits'
  BY <1>1 DEF LogFits, LogOf, StepFits, Crash
<1>5. journal = NoRecord => step = "preparing"
  BY <1>1 DEF StepFits, Crash
<1>6. FilesFit'
  BY <1>1, <1>5, FilesStillFit DEF FilesFit, Crash
<1> QED BY <1>3, <1>4, <1>6

\* Before another program writes, the files, the log, the record and the outcome
\* fit together whatever fails and wherever the process dies.
LEMMA QuietStep ==
  ASSUME Quiet, Quiet', QuietInductive, [Next]_vars
  PROVE  QuietInductive'
<1>1. TypeOK'
  BY NextType DEF QuietInductive
<1>2. ASSUME NEW f \in Files, NEW content \in {"none", "edited", "full", "unreadable"},
             Edit(f, content)
      PROVE  FALSE
  BY <1>2 DEF Edit, Quiet, QuietInductive, TypeOK
<1>3. CASE UNCHANGED vars
  <2>1. /\ Targets' = Targets
        /\ Installed' <=> Installed
        /\ Untouched' <=> Untouched
        /\ \A g \in Files : Original(g)' = Original(g) /\ New(g)' = New(g)
    BY <1>3, SameOperation, SameFiles DEF vars
  <2>2. StepFits' /\ LogFits'
    BY <1>3, <2>1 DEF QuietInductive, StepFits, LogFits, LogOf, vars
  <2>3. FilesFit'
    BY <1>3, FilesStillFit DEF QuietInductive, FilesFit, vars
  <2> QED BY <1>1, <2>2, <2>3 DEF QuietInductive
<1> QED
  BY <1>1, <1>2, <1>3, QuietBegin, QuietApplied, QuietUndo, QuietFiles, QuietAudit,
     QuietClose, QuietEnd, QuietFault, QuietStops DEF Next, Progress

\* Only the step that writes the entry and the one that closes the record
\* decide on the outcome.
LEMMA OutcomeSteps ==
  ASSUME [Next]_vars
  PROVE  /\ op' = op
         /\ verdict' = verdict \/ Audit \/ Close
<1> USE DEF limits, history
<1>1. CASE Refuse \/ Begin \/ Changed \/ Recover \/ FinishApplied \/ BeginUndo
  BY <1>1 DEF Refuse, Begin, Changed, MarkApplied, Recover, FinishApplied, BeginUndo
<1>2. CASE \E f \in Files : Change(f) \/ Examine(f) \/ Restore(f)
  BY <1>2 DEF Change, Examine, Restore
<1>3. CASE Audit \/ Close
  BY <1>3 DEF Audit, Close
<1>4. CASE RemoveRecord \/ RemovalFault \/ NoRoom \/ ReadFails \/ Fault \/ Crash
  BY <1>4 DEF RemoveRecord, RemovalFault, EndWith, NoRoom, ReadFails, Fault, Crash
<1>5. CASE \E f \in Files, content \in {"none", "edited", "full", "unreadable"} : Edit(f, content)
  BY <1>5 DEF Edit
<1>6. CASE UNCHANGED vars
  BY <1>6 DEF vars
<1> QED BY <1>1, <1>2, <1>3, <1>4, <1>5, <1>6 DEF Next, Progress

\* Once another program has written, it has.
LEMMA QuietBefore ==
  ASSUME TypeOK, [Next]_vars, Quiet'
  PROVE  Quiet
<1> USE LimitsAssumption DEF limits, history
<1>1. edits \in Nat
  BY DEF TypeOK
<1>2. op' = op
  BY OutcomeSteps
<1>3. edits' = edits \/ edits' = edits + 1
  <2>1. CASE Refuse \/ Begin \/ Changed \/ Recover \/ FinishApplied \/ BeginUndo
    BY <2>1 DEF Refuse, Begin, Changed, MarkApplied, Recover, FinishApplied, BeginUndo
  <2>2. CASE \E f \in Files : Change(f) \/ Examine(f) \/ Restore(f)
    BY <2>2 DEF Change, Examine, Restore
  <2>3. CASE Audit \/ Close \/ RemoveRecord \/ RemovalFault \/ NoRoom \/ ReadFails \/ Fault \/ Crash
    BY <2>3 DEF Audit, Close, RemoveRecord, RemovalFault, EndWith, NoRoom, ReadFails, Fault, Crash
  <2>4. CASE \E f \in Files, content \in {"none", "edited", "full", "unreadable"} : Edit(f, content)
    BY <2>4 DEF Edit
  <2>5. CASE UNCHANGED vars
    BY <2>5 DEF vars
  <2> QED BY <2>1, <2>2, <2>3, <2>4, <2>5 DEF Next, Progress
<1> QED BY <1>1, <1>2, <1>3 DEF Quiet

\* Until another program writes, the strengthening holds.
QuietSoFar == TypeOK /\ (Quiet => QuietInductive)

LEMMA QuietInvariant == Spec => []QuietSoFar
<1>1. Init => QuietInductive
  <2> SUFFICES ASSUME Init PROVE QuietInductive
    OBVIOUS
  <2>1. op \in Operations /\ Untouched
    BY DEF Init, Untouched
  <2>2. \A f \in Files : files[f] = Original(f)
    BY <2>1 DEF Untouched
  <2>3. StepFits
    BY DEF Init, StepFits
  <2>4. LogFits
    BY DEF Init, LogFits, LogOf, NoRecord, Outcomes
  <2>5. FilesFit
    BY <2>1, <2>2, OneEntry DEF Init, FilesFit
  <2> QED BY <2>3, <2>4, <2>5, InitType DEF QuietInductive
<1>2. Init => QuietSoFar
  BY <1>1, InitType DEF QuietSoFar
<1>3. QuietSoFar /\ [Next]_vars => QuietSoFar'
  BY NextType, QuietBefore, QuietStep DEF QuietSoFar
<1> QED BY <1>2, <1>3, PTL DEF Spec

\* With crashes and errors at any point, a change whose record is gone was made
\* as a whole or not at all, as recorded.
THEOREM MutationAtomic == Spec => []WholeOrNothing
<1>1. QuietSoFar => WholeOrNothing
  BY DEF QuietSoFar, QuietInductive, TypeOK, Outcomes, FilesFit, WholeOrNothing
<1> QED BY QuietInvariant, <1>1, PTL

\* What the caller is told of a change, a rollback above all, is so, and a finished
\* change has its outcome in the audit log exactly once.
THEOREM ToldTrue == Spec => []OutcomeTold
<1>1. QuietSoFar => OutcomeTold
  BY DEF QuietSoFar, QuietInductive, FilesFit, LogFits, LogOf, OutcomeTold
<1> QED BY QuietInvariant, <1>1, PTL

\* The journal, the writes and recovery implement the atomic mutation.
THEOREM MutationRefines == Spec => ImplementsAtomic
<1> USE DEF limits, history
<1>1. Init => Atomic!Init
  <2> SUFFICES ASSUME Init PROVE Atomic!Init
    OBVIOUS
  <2>1. ~Installed
    BY NewIsNew DEF Init, Untouched
  <2> QED BY <2>1 DEF Init, Atomic!Init
<1>2. ASSUME Quiet, Quiet', QuietInductive, [Next]_vars
      PROVE  [Atomic!Next]_(Atomic!vars)
  <2> USE DEF Atomic!Next, Atomic!Apply, Atomic!Revert, Atomic!Commit, Atomic!Abort,
              Atomic!Undecided, Atomic!vars
  <2>1. QuietInductive'
    BY <1>2, QuietStep
  <2>2. Installed \in BOOLEAN /\ Installed' \in BOOLEAN
    BY DEF Installed
  <2>3. op \in Operations /\ op' = op /\ verdict \in Outcomes \cup {"none"}
    BY <1>2, OutcomeSteps DEF QuietInductive, TypeOK
  <2>4. CASE verdict' = verdict /\ verdict = "none"
    BY <2>2, <2>4
  <2>5. CASE verdict' = verdict /\ verdict # "none"
    <3>1. (verdict = "committed" => Installed) /\ (verdict = "failed" => ~Installed)
      BY <1>2, <2>3, NewIsNew DEF QuietInductive, FilesFit
    <3>2. Untouched' => ~Installed'
      <4>1. PICK f \in Targets : f \in Files /\ New(f) # Original(f)
        BY <2>3, NewIsNew, OpFacts
      <4>2. Untouched' => files'[f] = Original(f)
        BY <2>3, <4>1 DEF Untouched, Original
      <4>3. Installed' => files'[f] = New(f)
        BY <2>3, <4>1 DEF Installed, New, Targets
      <4> QED BY <4>1, <4>2, <4>3
    <3>3. (verdict' = "committed" => Installed') /\ (verdict' = "failed" => ~Installed')
      BY <2>1, <3>2 DEF QuietInductive, FilesFit
    <3>4. Installed' <=> Installed
      BY <2>3, <2>5, <3>1, <3>3 DEF Outcomes
    <3> QED BY <2>2, <2>5, <3>4
  <2>6. CASE verdict' # verdict
    <3>1. /\ outcome \in Outcomes /\ verdict' = outcome /\ files' = files
          /\ outcome = "committed" => Installed
          /\ outcome = "failed" => Untouched
      BY <1>2, <2>6, OutcomeSteps, EntryIsFirst, ClosedIsTold DEF Audit, WriteEntry, Close
    <3>2. Installed' <=> Installed
      BY <2>3, <3>1, SameFiles
    <3>3. verdict = "none"
      BY <1>2, <2>3, <2>6, <3>1, NewIsNew, OutcomeSteps
      DEF QuietInductive, FilesFit, StepFits, Outcomes
    <3>4. outcome = "failed" => ~Installed
      BY <2>3, <3>1, NewIsNew
    <3> QED BY <2>2, <3>1, <3>2, <3>3, <3>4 DEF Outcomes
  <2> QED BY <2>4, <2>5, <2>6
<1>3. QuietSoFar /\ [Next]_vars => [Quiet' => [Atomic!Next]_(Atomic!vars)]_vars
  BY <1>2, QuietBefore DEF QuietSoFar
<1> QED BY <1>1, <1>3, QuietInvariant, PTL DEF Spec, ImplementsAtomic
=============================================================================
