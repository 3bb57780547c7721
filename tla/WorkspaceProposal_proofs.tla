---------------------- MODULE WorkspaceProposal_proofs ----------------------
(***************************************************************************)
(* Proofs about WorkspaceProposal, for every set of rejections in progress *)
(* and for every bound on the claims, doubts and crashes.                  *)
(*                                                                         *)
(* `Inductive` says which record, proposal and native state each step of a *)
(* confirmation, or of startup, works on, and what holds of them between   *)
(* the steps.  It holds initially and every step preserves it; the         *)
(* invariants and the refinement of AtomicMutation follow from it.         *)
(***************************************************************************)
EXTENDS WorkspaceProposal, TLAPS

-----------------------------------------------------------------------------
(* The inductive invariant.                                                *)

\* Until the claim, the card was enabled when the confirmation began; from then on
\* the proposal is the confirmation's own, or gone with its conversation.
Asked == {"checking", "existing", "claiming", "persisting"}
Underway == {"validating", "preparing", "putting", "committing", "proving"}
Failing == {"catching", "resetting"}
Answering == {"resolving", "deciding", "cleaning", "removing"}

\* Claims are numbered in the order they are taken.
ClaimFits ==
  /\ step \in {"checking", "existing", "claiming"} => claims < MaxClaims
  /\ step \in {"persisting", "releasing"} \cup Underway \cup Failing \cup Answering
       => claims # 0

\* The record each step relies on.  Only a confirmation has a claim, until a receipt
\* takes its place.
RecordFits ==
  /\ record.state = "claimed"
       => step \in {"persisting", "releasing", "validating", "preparing", "putting",
                    "catching", "recovering", "dropping"}
  /\ step = "claiming" => record = NoRecord
  /\ step \in {"persisting", "releasing", "validating", "preparing", "putting"}
       => record = Claimed(claims)
  /\ step \in {"committing", "proving"} => record = Prepared(claims)
  /\ step \in Answering => record.state = "terminal"
  /\ step = "catching" /\ record.state = "claimed" => record = Claimed(claims)
  /\ step = "dropping" => record.state = "claimed"
  /\ step \in {"storing", "startupCleaning", "startupRemoving"}
       => record.state \in {"prepared", "terminal"}
  /\ step = "sweeping" => record = NoRecord \/ proposal = Gone

\* The proposal each step leaves to the next.
ProposalFits ==
  /\ step \in Asked => proposal \in {Pending, Gone}
  /\ step \in Underway \cup Failing => proposal \in {Executing(claims), Gone}
  /\ step = "dropping" => proposal \in {Pending, Gone}
  /\ step \in {"releasing", "cleaning", "removing", "startupCleaning", "startupRemoving"}
       => proposal = Gone

\* The files show the operation as long as the broker says so, and before it can be
\* forgotten the proposal is decided.
EffectFits ==
  /\ native \in {"applied", "committed"} => effect
  /\ effect => native \in {"applied", "committed", "none"}
  /\ effect => record.state \in {"prepared", "terminal"} \/ proposal = Gone
  /\ step \in {"preparing", "putting", "committing"} => ~effect
  /\ step \in {"putting", "committing", "proving"} => native # "none"
  /\ step \in {"removing", "startupRemoving"} => native = "none"
  /\ native \in {"applied", "committed"} => record.state \in {"prepared", "terminal"}

\* A settled outcome tells what became of the files, in the journal and on its way to
\* the conversation.
OutcomeFits ==
  /\ record.state = "terminal" => (record.outcome = "committed") = effect
  /\ step \in {"resolving", "deciding", "storing"}
       => /\ result # "none"
          /\ (result = "committed") = effect

\* The answer comes with the end of the proposal; it is true, unless nobody could tell
\* in the session whether the files were changed.
AnswerFits ==
  /\ (answer = "none") = (proposal # Gone)
  /\ answer = "committed" => effect
  /\ answer = "rolledBack" => ~effect
  /\ answer = "rejected" => ~effect \/ doubts > 0 \/ lost
  /\ step \in Underway => answer \in {"none", "deleted"}
  /\ effect /\ (proposal = Pending \/ step \in Failing)
       => doubts > 0 \/ lost \/ proposal = Gone

Inductive ==
  /\ TypeOK
  /\ ClaimFits /\ RecordFits /\ ProposalFits
  /\ EffectFits /\ OutcomeFits /\ AnswerFits

-----------------------------------------------------------------------------
(* It holds initially, and every step preserves it.                        *)

LEMMA InitInductive == Init => Inductive
<1> SUFFICES ASSUME Init PROVE Inductive
  OBVIOUS
<1> USE DEF Init, Pending, Gone, NoRecord
<1>1. TypeOK
  <2>1. proposal \in {Pending, Gone} /\ record = NoRecord
    OBVIOUS
  <2>2. /\ claims \in 0 .. MaxClaims /\ doubts \in 0 .. MaxDoubts
        /\ crashes \in 0 .. MaxCrashes
    BY LimitsAssumption
  <2>3. reject \in [Rejects -> {"idle", "restoring", "deciding"}]
    OBVIOUS
  <2>4. step = "ready" /\ answer = "none" /\ result = "none" /\ native = "none"
    OBVIOUS
  <2>5. effect \in BOOLEAN /\ deciding \in BOOLEAN /\ deletion \in BOOLEAN /\ lost \in BOOLEAN
    OBVIOUS
  <2> HIDE DEF Init, Pending, Gone, NoRecord
  <2> QED BY <2>1, <2>2, <2>3, <2>4, <2>5 DEF TypeOK, Outcomes
<1>2. ClaimFits /\ RecordFits /\ ProposalFits
  BY DEF ClaimFits, RecordFits, ProposalFits, Underway, Failing, Answering
<1>3. EffectFits /\ OutcomeFits /\ AnswerFits
  BY DEF EffectFits, OutcomeFits, AnswerFits
<1> QED BY <1>1, <1>2, <1>3 DEF Inductive

\* Asking, claiming, and giving the claim back.
LEMMA ClaimInductive ==
  ASSUME Inductive,
         Confirm \/ Check \/ Existing \/ Claim \/ PersistExecuting \/ Release
  PROVE  Inductive'
<1> USE DEF Inductive, Confirm, Check, Existing, Claim, PersistExecuting, Release,
            Elsewhere, Abandoned, GoTo, storage, limits, Pending, Gone, Executing,
            NoRecord, Claimed, Prepared, Terminal
<1>1. TypeOK'
  <2>1. /\ proposal' \in {Pending, Gone} \cup {Executing(t) : t \in 1 .. MaxClaims}
        /\ claims' \in 0 .. MaxClaims
    BY LimitsAssumption DEF TypeOK, ClaimFits
  <2>2. record' \in {NoRecord} \cup {Claimed(t) : t \in 1 .. MaxClaims}
                    \cup {Prepared(t) : t \in 1 .. MaxClaims}
                    \cup {Terminal(t, o) : t \in 1 .. MaxClaims, o \in Outcomes \ {"none"}}
    BY LimitsAssumption DEF TypeOK, ClaimFits
  <2>3. native' \in {"none", "prepared", "applied", "committed", "rolledBack"}
    BY DEF TypeOK
  <2>4. answer' \in Outcomes \cup {"rejected", "deleted"} /\ result' \in Outcomes
    BY DEF TypeOK
  <2>5. step' \in Confirming \cup Starting \cup {"ready"}
    BY DEF Confirming, Locked
  <2>6. reject' \in [Rejects -> {"idle", "restoring", "deciding"}]
    BY DEF TypeOK
  <2>7. effect' \in BOOLEAN
    BY DEF TypeOK
  <2>8. deciding' \in BOOLEAN
    BY DEF TypeOK
  <2>9. deletion' \in BOOLEAN /\ lost' \in BOOLEAN
    BY DEF TypeOK
  <2>10. doubts' \in 0 .. MaxDoubts /\ crashes' \in 0 .. MaxCrashes
    BY LimitsAssumption DEF TypeOK
  <2> QED BY <2>1, <2>2, <2>3, <2>4, <2>5, <2>6, <2>7, <2>8, <2>9, <2>10 DEF TypeOK
<1>2. ClaimFits'
  BY DEF TypeOK, ClaimFits, Underway, Failing, Answering
<1>3. RecordFits'
  BY DEF TypeOK, RecordFits, Answering
<1>4. ProposalFits'
  BY DEF TypeOK, ProposalFits, Asked, Underway, Failing
<1>5. EffectFits'
  BY DEF RecordFits, EffectFits
<1>6. OutcomeFits'
  BY DEF OutcomeFits
<1>7. AnswerFits'
  BY DEF AnswerFits, Underway, Failing
<1> QED BY <1>1, <1>2, <1>3, <1>4, <1>5, <1>6, <1>7

\* The broker's part: a receipt, the rename and its proof.
LEMMA ReceiptInductive ==
  ASSUME Inductive,
         Validate \/ Prepare \/ PutPrepared \/ CommitNative \/ Prove
  PROVE  Inductive'
<1> USE DEF Inductive, Validate, Prepare, PutPrepared, CommitNative, Prove, Elsewhere,
            Settled, Doubt, Unproved, GoTo, storage, limits, Pending, Gone, Executing, NoRecord,
            Claimed, Prepared, Terminal
<1>1. TypeOK'
  <2>1. /\ proposal' \in {Pending, Gone} \cup {Executing(t) : t \in 1 .. MaxClaims}
        /\ claims' \in 0 .. MaxClaims
    BY LimitsAssumption DEF TypeOK
  <2>2. record' \in {NoRecord} \cup {Claimed(t) : t \in 1 .. MaxClaims}
                    \cup {Prepared(t) : t \in 1 .. MaxClaims}
                    \cup {Terminal(t, o) : t \in 1 .. MaxClaims, o \in Outcomes \ {"none"}}
    BY LimitsAssumption DEF TypeOK, RecordFits, Outcomes
  <2>3. native' \in {"none", "prepared", "applied", "committed", "rolledBack"}
    BY DEF TypeOK
  <2>4. answer' \in Outcomes \cup {"rejected", "deleted"} /\ result' \in Outcomes
    BY DEF TypeOK, Outcomes
  <2>5. step' \in Confirming \cup Starting \cup {"ready"}
    BY DEF Confirming, Locked
  <2>6. reject' \in [Rejects -> {"idle", "restoring", "deciding"}]
    BY DEF TypeOK
  <2>7. effect' \in BOOLEAN
    <3>1. effect \in BOOLEAN
      BY DEF TypeOK
    <3> QED BY <3>1
  <2>8. deciding' \in BOOLEAN
    BY DEF TypeOK
  <2>9. deletion' \in BOOLEAN /\ lost' \in BOOLEAN
    BY DEF TypeOK
  <2>10. doubts' \in 0 .. MaxDoubts /\ crashes' \in 0 .. MaxCrashes
    BY LimitsAssumption DEF TypeOK
  <2> QED BY <2>1, <2>2, <2>3, <2>4, <2>5, <2>6, <2>7, <2>8, <2>9, <2>10 DEF TypeOK
<1>2. ClaimFits'
  BY DEF ClaimFits, Underway
<1>3. RecordFits'
  BY DEF RecordFits, Answering
<1>4. ProposalFits'
  BY DEF ProposalFits, Asked, Underway
<1>5. EffectFits'
  BY DEF RecordFits, EffectFits
<1>6. OutcomeFits'
  BY DEF TypeOK, RecordFits, EffectFits, OutcomeFits
<1>7. AnswerFits'
  BY DEF TypeOK, RecordFits, ProposalFits, EffectFits, AnswerFits, Underway, Failing
<1> QED BY <1>1, <1>2, <1>3, <1>4, <1>5, <1>6, <1>7

\* The result is recorded and acknowledged.
LEMMA AnswerInductive ==
  ASSUME Inductive,
         Resolve \/ Decide \/ AckCleanup \/ AckRemove
  PROVE  Inductive'
<1> USE DEF Inductive, Resolve, Decide, AckCleanup, AckRemove, GoTo, storage, limits,
            Pending, Gone, Executing, NoRecord, Claimed, Prepared, Terminal
<1>1. TypeOK'
  <2>1. /\ proposal' \in {Pending, Gone} \cup {Executing(t) : t \in 1 .. MaxClaims}
        /\ claims' \in 0 .. MaxClaims
    BY LimitsAssumption DEF TypeOK
  <2>2. record' \in {NoRecord} \cup {Claimed(t) : t \in 1 .. MaxClaims}
                    \cup {Prepared(t) : t \in 1 .. MaxClaims}
                    \cup {Terminal(t, o) : t \in 1 .. MaxClaims, o \in Outcomes \ {"none"}}
    BY LimitsAssumption DEF TypeOK
  <2>3. native' \in {"none", "prepared", "applied", "committed", "rolledBack"}
    BY DEF TypeOK
  <2>4. answer' \in Outcomes \cup {"rejected", "deleted"} /\ result' \in Outcomes
    BY DEF TypeOK
  <2>5. step' \in Confirming \cup Starting \cup {"ready"}
    BY DEF Confirming, Locked
  <2>6. reject' \in [Rejects -> {"idle", "restoring", "deciding"}]
    BY DEF TypeOK
  <2>7. effect' \in BOOLEAN
    BY DEF TypeOK
  <2>8. deciding' \in BOOLEAN
    <3>1. deciding \in BOOLEAN
      BY DEF TypeOK
    <3> QED BY <3>1
  <2>9. deletion' \in BOOLEAN /\ lost' \in BOOLEAN
    BY DEF TypeOK
  <2>10. doubts' \in 0 .. MaxDoubts /\ crashes' \in 0 .. MaxCrashes
    BY LimitsAssumption DEF TypeOK
  <2> QED BY <2>1, <2>2, <2>3, <2>4, <2>5, <2>6, <2>7, <2>8, <2>9, <2>10 DEF TypeOK
<1>2. ClaimFits'
  BY DEF ClaimFits, Answering
<1>3. RecordFits'
  BY DEF RecordFits, Answering
<1>4. ProposalFits'
  BY DEF ProposalFits, Asked, Underway, Failing
<1>5. EffectFits'
  BY DEF ProposalFits, EffectFits
<1>6. OutcomeFits'
  BY DEF OutcomeFits
<1>7. AnswerFits'
  BY DEF RecordFits, ProposalFits, OutcomeFits, AnswerFits, Underway, Failing, Answering
<1> QED BY <1>1, <1>2, <1>3, <1>4, <1>5, <1>6, <1>7

\* A confirmation that failed gives back what it has.
LEMMA FailureInductive ==
  ASSUME Inductive,
         Catch \/ Reset
  PROVE  Inductive'
<1> USE DEF Inductive, Catch, Reset, Elsewhere, Abandoned, GoTo, storage, limits,
            Pending, Gone, Executing, NoRecord, Claimed, Prepared, Terminal
<1>1. TypeOK'
  <2>1. /\ proposal' \in {Pending, Gone} \cup {Executing(t) : t \in 1 .. MaxClaims}
        /\ claims' \in 0 .. MaxClaims
    BY LimitsAssumption DEF TypeOK
  <2>2. record' \in {NoRecord} \cup {Claimed(t) : t \in 1 .. MaxClaims}
                    \cup {Prepared(t) : t \in 1 .. MaxClaims}
                    \cup {Terminal(t, o) : t \in 1 .. MaxClaims, o \in Outcomes \ {"none"}}
    BY LimitsAssumption DEF TypeOK
  <2>3. native' \in {"none", "prepared", "applied", "committed", "rolledBack"}
    BY DEF TypeOK
  <2>4. answer' \in Outcomes \cup {"rejected", "deleted"} /\ result' \in Outcomes
    BY DEF TypeOK
  <2>5. step' \in Confirming \cup Starting \cup {"ready"}
    BY DEF Confirming
  <2>6. reject' \in [Rejects -> {"idle", "restoring", "deciding"}]
    BY DEF TypeOK
  <2>7. effect' \in BOOLEAN
    BY DEF TypeOK
  <2>8. deciding' \in BOOLEAN
    BY DEF TypeOK
  <2>9. deletion' \in BOOLEAN /\ lost' \in BOOLEAN
    BY DEF TypeOK
  <2>10. doubts' \in 0 .. MaxDoubts /\ crashes' \in 0 .. MaxCrashes
    BY LimitsAssumption DEF TypeOK
  <2> QED BY <2>1, <2>2, <2>3, <2>4, <2>5, <2>6, <2>7, <2>8, <2>9, <2>10 DEF TypeOK
<1>2. ClaimFits'
  BY DEF ClaimFits, Failing
<1>3. RecordFits'
  BY DEF RecordFits, Answering
<1>4. ProposalFits'
  BY DEF ProposalFits, Asked, Underway, Failing
<1>5. EffectFits'
  BY DEF EffectFits
<1>6. OutcomeFits'
  BY DEF OutcomeFits
<1>7. AnswerFits'
  BY DEF AnswerFits, Underway, Failing
<1> QED BY <1>1, <1>2, <1>3, <1>4, <1>5, <1>6, <1>7

\* The user rejects the proposal.
LEMMA UserInductive ==
  ASSUME Inductive,
         NEW r \in Rejects, Reject(r) \/ EnterReject(r) \/ SaveReject(r)
  PROVE  Inductive'
<1> USE DEF Inductive, Reject, EnterReject, SaveReject, GoTo, storage, limits, Pending,
            Gone, Executing, NoRecord, Claimed, Prepared, Terminal
<1>1. TypeOK'
  <2>1. /\ proposal' \in {Pending, Gone} \cup {Executing(t) : t \in 1 .. MaxClaims}
        /\ claims' \in 0 .. MaxClaims
    BY LimitsAssumption DEF TypeOK
  <2>2. record' \in {NoRecord} \cup {Claimed(t) : t \in 1 .. MaxClaims}
                    \cup {Prepared(t) : t \in 1 .. MaxClaims}
                    \cup {Terminal(t, o) : t \in 1 .. MaxClaims, o \in Outcomes \ {"none"}}
    BY LimitsAssumption DEF TypeOK
  <2>3. native' \in {"none", "prepared", "applied", "committed", "rolledBack"}
    BY DEF TypeOK
  <2>4. answer' \in Outcomes \cup {"rejected", "deleted"} /\ result' \in Outcomes
    BY DEF TypeOK
  <2>5. step' \in Confirming \cup Starting \cup {"ready"}
    BY DEF TypeOK
  <2>6. reject' \in [Rejects -> {"idle", "restoring", "deciding"}]
    BY DEF TypeOK
  <2>7. effect' \in BOOLEAN
    BY DEF TypeOK
  <2>8. deciding' \in BOOLEAN
    <3>1. deciding \in BOOLEAN
      BY DEF TypeOK
    <3> QED BY <3>1
  <2>9. deletion' \in BOOLEAN /\ lost' \in BOOLEAN
    BY DEF TypeOK
  <2>10. doubts' \in 0 .. MaxDoubts /\ crashes' \in 0 .. MaxCrashes
    BY LimitsAssumption DEF TypeOK
  <2> QED BY <2>1, <2>2, <2>3, <2>4, <2>5, <2>6, <2>7, <2>8, <2>9, <2>10 DEF TypeOK
<1>2. ClaimFits'
  BY DEF ClaimFits
<1>3. RecordFits'
  BY DEF RecordFits
<1>4. ProposalFits'
  BY DEF ProposalFits
<1>5. EffectFits'
  BY DEF EffectFits
<1>6. OutcomeFits'
  BY DEF OutcomeFits
<1>7. AnswerFits'
  BY DEF ProposalFits, AnswerFits
<1> QED BY <1>1, <1>2, <1>3, <1>4, <1>5, <1>6, <1>7

\* The conversation goes.
LEMMA DeletionInductive ==
  ASSUME Inductive,
         Forget \/ Delete
  PROVE  Inductive'
<1> USE DEF Inductive, Forget, Delete, GoTo, storage, limits, Pending, Gone, Executing,
            NoRecord, Claimed, Prepared, Terminal
<1>1. TypeOK'
  <2>1. /\ proposal' \in {Pending, Gone} \cup {Executing(t) : t \in 1 .. MaxClaims}
        /\ claims' \in 0 .. MaxClaims
    BY LimitsAssumption DEF TypeOK
  <2>2. record' \in {NoRecord} \cup {Claimed(t) : t \in 1 .. MaxClaims}
                    \cup {Prepared(t) : t \in 1 .. MaxClaims}
                    \cup {Terminal(t, o) : t \in 1 .. MaxClaims, o \in Outcomes \ {"none"}}
    BY LimitsAssumption DEF TypeOK
  <2>3. native' \in {"none", "prepared", "applied", "committed", "rolledBack"}
    BY DEF TypeOK
  <2>4. answer' \in Outcomes \cup {"rejected", "deleted"} /\ result' \in Outcomes
    BY DEF TypeOK
  <2>5. step' \in Confirming \cup Starting \cup {"ready"}
    BY DEF TypeOK
  <2>6. reject' \in [Rejects -> {"idle", "restoring", "deciding"}]
    BY DEF TypeOK
  <2>7. effect' \in BOOLEAN
    BY DEF TypeOK
  <2>8. deciding' \in BOOLEAN
    <3>1. deciding \in BOOLEAN
      BY DEF TypeOK
    <3> QED BY <3>1
  <2>9. deletion' \in BOOLEAN
    OBVIOUS
  <2>10. doubts' \in 0 .. MaxDoubts /\ crashes' \in 0 .. MaxCrashes
    BY LimitsAssumption DEF TypeOK
  <2>11. lost' \in BOOLEAN
    BY DEF TypeOK
  <2> QED BY <2>1, <2>2, <2>3, <2>4, <2>5, <2>6, <2>7, <2>8, <2>9, <2>10,
              <2>11 DEF TypeOK
<1>2. ClaimFits'
  BY DEF ClaimFits
<1>3. RecordFits'
  BY DEF RecordFits
<1>4. ProposalFits'
  BY DEF ProposalFits
<1>5. EffectFits'
  BY DEF EffectFits
<1>6. OutcomeFits'
  BY DEF OutcomeFits
<1>7. AnswerFits'
  BY DEF AnswerFits
<1> QED BY <1>1, <1>2, <1>3, <1>4, <1>5, <1>6, <1>7

\* Somebody else settles the receipt, or makes it impossible.
LEMMA PeekInductive ==
  ASSUME Inductive,
         Peek \/ Lose
  PROVE  Inductive'
<1> USE DEF Inductive, Peek, Lose, Settled, GoTo, storage, limits, Pending, Gone, Executing,
            NoRecord, Claimed, Prepared, Terminal
<1>1. TypeOK'
  <2>1. /\ proposal' \in {Pending, Gone} \cup {Executing(t) : t \in 1 .. MaxClaims}
        /\ claims' \in 0 .. MaxClaims
    BY LimitsAssumption DEF TypeOK
  <2>2. record' \in {NoRecord} \cup {Claimed(t) : t \in 1 .. MaxClaims}
                    \cup {Prepared(t) : t \in 1 .. MaxClaims}
                    \cup {Terminal(t, o) : t \in 1 .. MaxClaims, o \in Outcomes \ {"none"}}
    BY LimitsAssumption DEF TypeOK
  <2>3. native' \in {"none", "prepared", "applied", "committed", "rolledBack"}
    BY DEF TypeOK
  <2>4. answer' \in Outcomes \cup {"rejected", "deleted"} /\ result' \in Outcomes
    BY DEF TypeOK
  <2>5. step' \in Confirming \cup Starting \cup {"ready"}
    BY DEF TypeOK
  <2>6. reject' \in [Rejects -> {"idle", "restoring", "deciding"}]
    BY DEF TypeOK
  <2>7. effect' \in BOOLEAN
    BY DEF TypeOK
  <2>8. deciding' \in BOOLEAN
    BY DEF TypeOK
  <2>9. deletion' \in BOOLEAN
    BY DEF TypeOK
  <2>10. doubts' \in 0 .. MaxDoubts /\ crashes' \in 0 .. MaxCrashes
    BY LimitsAssumption DEF TypeOK
  <2>11. lost' \in BOOLEAN
    <3>1. lost \in BOOLEAN
      BY DEF TypeOK
    <3> QED BY <3>1
  <2> QED BY <2>1, <2>2, <2>3, <2>4, <2>5, <2>6, <2>7, <2>8, <2>9, <2>10,
              <2>11 DEF TypeOK
<1>2. ClaimFits'
  BY DEF ClaimFits
<1>3. RecordFits'
  BY DEF RecordFits
<1>4. ProposalFits'
  BY DEF ProposalFits
<1>5. EffectFits'
  BY DEF EffectFits
<1>6. OutcomeFits'
  BY DEF OutcomeFits
<1>7. AnswerFits'
  BY DEF AnswerFits
<1> QED BY <1>1, <1>2, <1>3, <1>4, <1>5, <1>6, <1>7

\* The program starts again, at any point.
LEMMA RestartInductive ==
  ASSUME Inductive,
         Crash \/ Reopen
  PROVE  Inductive'
<1> USE DEF Inductive, Crash, Reopen, Restarted, GoTo, storage, limits, Pending, Gone,
            Executing, NoRecord, Claimed, Prepared, Terminal
<1>1. TypeOK'
  <2>1. /\ proposal' \in {Pending, Gone} \cup {Executing(t) : t \in 1 .. MaxClaims}
        /\ claims' \in 0 .. MaxClaims
    BY LimitsAssumption DEF TypeOK
  <2>2. record' \in {NoRecord} \cup {Claimed(t) : t \in 1 .. MaxClaims}
                    \cup {Prepared(t) : t \in 1 .. MaxClaims}
                    \cup {Terminal(t, o) : t \in 1 .. MaxClaims, o \in Outcomes \ {"none"}}
    BY LimitsAssumption DEF TypeOK
  <2>3. native' \in {"none", "prepared", "applied", "committed", "rolledBack"}
    BY DEF TypeOK
  <2>4. answer' \in Outcomes \cup {"rejected", "deleted"} /\ result' \in Outcomes
    BY DEF TypeOK, Outcomes
  <2>5. step' \in Confirming \cup Starting \cup {"ready"}
    BY DEF Starting
  <2>6. reject' \in [Rejects -> {"idle", "restoring", "deciding"}]
    OBVIOUS
  <2>7. effect' \in BOOLEAN
    BY DEF TypeOK
  <2>8. deciding' \in BOOLEAN
    OBVIOUS
  <2>9. deletion' \in BOOLEAN
    OBVIOUS
  <2>10. doubts' \in 0 .. MaxDoubts /\ crashes' \in 0 .. MaxCrashes
    BY LimitsAssumption DEF TypeOK
  <2>11. lost' \in BOOLEAN
    BY DEF TypeOK
  <2> QED BY <2>1, <2>2, <2>3, <2>4, <2>5, <2>6, <2>7, <2>8, <2>9, <2>10,
              <2>11 DEF TypeOK
<1>2. ClaimFits'
  BY DEF ClaimFits, Underway, Failing, Answering
<1>3. RecordFits'
  BY DEF RecordFits, Answering
<1>4. ProposalFits'
  BY DEF ProposalFits, Asked, Underway, Failing
<1>5. EffectFits'
  BY DEF EffectFits
<1>6. OutcomeFits'
  BY DEF OutcomeFits
<1>7. AnswerFits'
  BY DEF AnswerFits, Underway, Failing
<1> QED BY <1>1, <1>2, <1>3, <1>4, <1>5, <1>6, <1>7

\* Startup settles what the journal holds.
LEMMA RecoverInductive ==
  ASSUME Inductive,
         RecoverNone \/ RecoverClaim \/ DropClaim \/ RecoverPrepared \/
         RecoverTerminal
  PROVE  Inductive'
<1> USE DEF Inductive, RecoverNone, RecoverClaim, DropClaim, RecoverPrepared,
            RecoverTerminal, Quietly, Settled, Doubt, Unproved, GoTo, storage, limits,
            Pending, Gone, Executing, NoRecord, Claimed, Prepared, Terminal
<1>1. TypeOK'
  <2>1. /\ proposal' \in {Pending, Gone} \cup {Executing(t) : t \in 1 .. MaxClaims}
        /\ claims' \in 0 .. MaxClaims
    BY LimitsAssumption DEF TypeOK
  <2>2. record' \in {NoRecord} \cup {Claimed(t) : t \in 1 .. MaxClaims}
                    \cup {Prepared(t) : t \in 1 .. MaxClaims}
                    \cup {Terminal(t, o) : t \in 1 .. MaxClaims, o \in Outcomes \ {"none"}}
    BY LimitsAssumption DEF TypeOK
  <2>3. native' \in {"none", "prepared", "applied", "committed", "rolledBack"}
    BY DEF TypeOK
  <2>4. answer' \in Outcomes \cup {"rejected", "deleted"} /\ result' \in Outcomes
    BY DEF TypeOK, Outcomes
  <2>5. step' \in Confirming \cup Starting \cup {"ready"}
    BY DEF Starting
  <2>6. reject' \in [Rejects -> {"idle", "restoring", "deciding"}]
    BY DEF TypeOK
  <2>7. effect' \in BOOLEAN
    BY DEF TypeOK
  <2>8. deciding' \in BOOLEAN
    BY DEF TypeOK
  <2>9. deletion' \in BOOLEAN /\ lost' \in BOOLEAN
    BY DEF TypeOK
  <2>10. doubts' \in 0 .. MaxDoubts /\ crashes' \in 0 .. MaxCrashes
    BY LimitsAssumption DEF TypeOK
  <2> QED BY <2>1, <2>2, <2>3, <2>4, <2>5, <2>6, <2>7, <2>8, <2>9, <2>10 DEF TypeOK
<1>2. ClaimFits'
  BY DEF ClaimFits, Underway, Failing, Answering
<1>3. RecordFits'
  BY DEF TypeOK, RecordFits, Answering
<1>4. ProposalFits'
  BY DEF ProposalFits, Asked, Underway, Failing
<1>5. EffectFits'
  BY DEF RecordFits, EffectFits
<1>6. OutcomeFits'
  BY DEF TypeOK, EffectFits, OutcomeFits
<1>7. AnswerFits'
  BY DEF TypeOK, EffectFits, AnswerFits, Underway, Failing
<1> QED BY <1>1, <1>2, <1>3, <1>4, <1>5, <1>6, <1>7

\* Startup records the outcome, cleans up and looks for cards left behind.
LEMMA FinishInductive ==
  ASSUME Inductive,
         Store \/ StartupCleanup \/ StartupRemove \/ Sweep
  PROVE  Inductive'
<1> USE DEF Inductive, Store, StartupCleanup, StartupRemove, Sweep, Quietly, Doubt,
            Unproved, GoTo, storage, limits, Pending, Gone, Executing, NoRecord, Claimed,
            Prepared, Terminal
<1>1. TypeOK'
  <2>1. /\ proposal' \in {Pending, Gone} \cup {Executing(t) : t \in 1 .. MaxClaims}
        /\ claims' \in 0 .. MaxClaims
    BY LimitsAssumption DEF TypeOK
  <2>2. record' \in {NoRecord} \cup {Claimed(t) : t \in 1 .. MaxClaims}
                    \cup {Prepared(t) : t \in 1 .. MaxClaims}
                    \cup {Terminal(t, o) : t \in 1 .. MaxClaims, o \in Outcomes \ {"none"}}
    BY LimitsAssumption DEF TypeOK
  <2>3. native' \in {"none", "prepared", "applied", "committed", "rolledBack"}
    BY DEF TypeOK
  <2>4. answer' \in Outcomes \cup {"rejected", "deleted"} /\ result' \in Outcomes
    BY DEF TypeOK
  <2>5. step' \in Confirming \cup Starting \cup {"ready"}
    BY DEF Starting
  <2>6. reject' \in [Rejects -> {"idle", "restoring", "deciding"}]
    BY DEF TypeOK
  <2>7. effect' \in BOOLEAN
    BY DEF TypeOK
  <2>8. deciding' \in BOOLEAN
    BY DEF TypeOK
  <2>9. deletion' \in BOOLEAN /\ lost' \in BOOLEAN
    BY DEF TypeOK
  <2>10. doubts' \in 0 .. MaxDoubts /\ crashes' \in 0 .. MaxCrashes
    BY LimitsAssumption DEF TypeOK
  <2> QED BY <2>1, <2>2, <2>3, <2>4, <2>5, <2>6, <2>7, <2>8, <2>9, <2>10 DEF TypeOK
<1>2. ClaimFits'
  BY DEF ClaimFits, Underway, Failing, Answering
<1>3. RecordFits'
  BY DEF RecordFits, ProposalFits, Answering
<1>4. ProposalFits'
  BY DEF ProposalFits, Asked, Underway, Failing
<1>5. EffectFits'
  BY DEF ProposalFits, EffectFits
<1>6. OutcomeFits'
  BY DEF OutcomeFits
<1>7. AnswerFits'
  BY DEF TypeOK, RecordFits, EffectFits, OutcomeFits, AnswerFits, Underway, Failing
<1> QED BY <1>1, <1>2, <1>3, <1>4, <1>5, <1>6, <1>7

\* Every step preserves the invariant.
LEMMA NextInductive == Inductive /\ [Next]_vars => Inductive'
<1> SUFFICES ASSUME Inductive, [Next]_vars PROVE Inductive'
  OBVIOUS
<1>1. CASE Confirm \/ Confirmation
  BY <1>1, ClaimInductive, ReceiptInductive, AnswerInductive, FailureInductive
     DEF Confirmation
<1>2. CASE \E r \in Rejects : Reject(r) \/ EnterReject(r) \/ SaveReject(r)
  BY <1>2, UserInductive
<1>3. CASE Forget \/ Delete \/ Peek \/ Lose
  <2>1. CASE Forget \/ Delete
    BY <2>1, DeletionInductive
  <2> QED BY <1>3, <2>1, PeekInductive
<1>4. CASE Crash \/ Reopen
  BY <1>4, RestartInductive
<1>5. CASE Startup
  BY <1>5, RecoverInductive, FinishInductive DEF Startup
<1>6. CASE UNCHANGED vars
  BY <1>6 DEF vars, Inductive, TypeOK, ClaimFits, RecordFits, ProposalFits, EffectFits,
              OutcomeFits, AnswerFits
<1> QED BY <1>1, <1>2, <1>3, <1>4, <1>5, <1>6 DEF Next, Rejection

\* The inductive invariant of the specification.
THEOREM InductiveInvariance == Spec => []Inductive
  BY InitInductive, NextInductive, PTL DEF Spec

-----------------------------------------------------------------------------
(* The invariants.                                                         *)

\* The variables keep their types.
THEOREM TypeCorrect == Spec => []TypeOK
<1>1. Inductive => TypeOK
  BY DEF Inductive
<1> QED BY <1>1, InductiveInvariance, PTL

\* Files the broker changed and may still undo are in the journal, whatever step a crash
\* interrupts (commit and acknowledge of the coordinator, startup recovery), and a
\* terminal record tells what became of them.
THEOREM JournalTrue == Spec => []RecordTrue
<1>1. Inductive => RecordTrue
  BY DEF Inductive, EffectFits, OutcomeFits, RecordTrue
<1> QED BY <1>1, InductiveInvariance, PTL

\* However a confirmation ends, and however the program does, its claim is given back.
THEOREM ClaimReturned == Spec => []NoStrayClaim
<1>1. Inductive => NoStrayClaim
  BY DEF Inductive, RecordFits, NoStrayClaim
<1> QED BY <1>1, InductiveInvariance, PTL

-----------------------------------------------------------------------------
(* The refinement of AtomicMutation.                                       *)

\* A step of the program is a step of the abstract mutation, or none.  The rename is its
\* Apply, the answer its Commit or Abort; a doubt and the loss of every proof are
\* disturbances.
LEMMA StepSimulation == Inductive /\ [Next]_vars => [Atomic!Next]_Atomic!vars
<1> SUFFICES ASSUME Inductive, [Next]_vars PROVE [Atomic!Next]_Atomic!vars
  OBVIOUS
<1> USE DEF Atomic!vars, Atomic!Next, Atomic!Undecided, Verdict
<1>1. CASE CommitNative
  <2>1. CASE UNCHANGED effect
    BY <1>1, <2>1 DEF CommitNative, Elsewhere
  <2>2. CASE effect' = TRUE
    <3>1. ~effect /\ answer \in {"none", "deleted"}
      BY <1>1 DEF CommitNative, Inductive, EffectFits, AnswerFits, Underway
    <3> QED BY <1>1, <2>2, <3>1 DEF CommitNative, Elsewhere, Atomic!Apply
  <2> QED BY <1>1, <2>1, <2>2 DEF CommitNative
<1>2. CASE Prove \/ RecoverPrepared \/ StartupCleanup
  <2>1. UNCHANGED <<effect, answer, lost>>
    BY <1>2 DEF Prove, RecoverPrepared, StartupCleanup, Quietly
  <2>2. CASE UNCHANGED doubts
    BY <2>1, <2>2
  <2>3. CASE Doubt
    <3>1. doubts' > 0
      BY <2>3 DEF Doubt, Inductive, TypeOK
    <3> QED BY <2>1, <3>1 DEF Atomic!Disturb
  <2> QED BY <1>2, <2>2, <2>3 DEF Prove, RecoverPrepared, StartupCleanup, Unproved
<1>3. CASE Decide \/ Store
  <2>1. UNCHANGED <<effect, doubts, lost>>
    BY <1>3 DEF Decide, Store, limits, Quietly
  <2>2. CASE UNCHANGED answer
    BY <2>1, <2>2
  <2>3. CASE answer' = result /\ proposal # Gone
    <3>1. answer = "none" /\ result \in {"committed", "rolledBack"}
      BY <1>3, <2>3 DEF Decide, Store, Inductive, TypeOK, Outcomes, OutcomeFits, AnswerFits
    <3>2. (result = "committed") = effect
      BY <1>3 DEF Decide, Store, Inductive, OutcomeFits
    <3>3. CASE result = "committed"
      BY <2>1, <2>3, <3>1, <3>2, <3>3 DEF Atomic!Commit
    <3>4. CASE result = "rolledBack"
      BY <2>1, <2>3, <3>1, <3>2, <3>4 DEF Atomic!Abort
    <3> QED BY <3>1, <3>3, <3>4
  <2> QED BY <1>3, <2>2, <2>3 DEF Decide, Store, Executing, Gone
<1>4. ASSUME NEW r \in Rejects, SaveReject(r)
      PROVE  [Atomic!Next]_Atomic!vars
  <2>1. UNCHANGED <<effect, doubts, lost>>
    BY <1>4 DEF SaveReject, limits
  <2>2. CASE proposal = Pending /\ answer' = "rejected"
    <3>1. answer = "none" /\ (~effect \/ doubts > 0 \/ lost)
      BY <2>2 DEF Inductive, AnswerFits, Pending, Gone
    <3> QED BY <2>1, <2>2, <3>1 DEF Atomic!Abort
  <2> QED BY <1>4, <2>1, <2>2 DEF SaveReject
<1>5. CASE Delete
  <2>1. UNCHANGED <<effect, doubts, lost>>
    BY <1>5 DEF Delete, limits
  <2>2. CASE UNCHANGED answer
    BY <2>1, <2>2
  <2>3. CASE proposal # Gone /\ answer' = "deleted"
    BY <2>1, <2>3 DEF Inductive, AnswerFits
  <2> QED BY <1>5, <2>2, <2>3 DEF Delete
<1>6. CASE \/ Confirm \/ Check \/ Existing \/ Claim \/ PersistExecuting \/ Release
           \/ Validate \/ Prepare \/ PutPrepared \/ Catch \/ Reset
  <2>1. UNCHANGED <<effect, answer, doubts, lost>>
    BY <1>6 DEF Confirm, Check, Existing, Claim, PersistExecuting, Release, Validate,
                Prepare, PutPrepared, Catch, Reset, storage, Elsewhere
  <2> QED BY <2>1
<1>7. CASE Resolve \/ AckCleanup \/ AckRemove \/ Forget \/ Peek \/ Crash \/ Reopen
  <2>1. UNCHANGED <<effect, answer, doubts, lost>>
    BY <1>7 DEF Resolve, AckCleanup, AckRemove, Forget, Peek, Crash, Reopen, Restarted,
                storage, limits
  <2> QED BY <2>1
<1>8. CASE \/ RecoverNone \/ RecoverClaim \/ DropClaim \/ RecoverTerminal
           \/ StartupRemove \/ Sweep
  <2>1. UNCHANGED <<effect, answer, doubts, lost>>
    BY <1>8 DEF RecoverNone, RecoverClaim, DropClaim, RecoverTerminal, StartupRemove,
                Sweep, storage, Quietly
  <2> QED BY <2>1
<1>9. ASSUME NEW r \in Rejects, Reject(r) \/ EnterReject(r)
      PROVE  [Atomic!Next]_Atomic!vars
  <2>1. UNCHANGED <<effect, answer, doubts, lost>>
    BY <1>9 DEF Reject, EnterReject, storage, limits
  <2> QED BY <2>1
<1>10. CASE UNCHANGED vars
  BY <1>10 DEF vars
<1>11. CASE Lose
  BY <1>11 DEF Lose, storage, Atomic!Disturb
<1> QED BY <1>1, <1>2, <1>3, <1>4, <1>5, <1>6, <1>7, <1>8, <1>9, <1>10, <1>11
     DEF Next, Confirmation, Rejection, Startup

\* Whoever wins of a confirmation, a rejection, a deletion and startup, the conversation
\* is answered once, with the truth, and nothing is done to its files after that.
THEOREM AtomicImplemented == Spec => ImplementsAtomic
<1>1. Init => Atomic!Init
  BY LimitsAssumption DEF Init, Verdict, Atomic!Init
<1> QED BY <1>1, StepSimulation, InductiveInvariance, PTL
  DEF ImplementsAtomic, Spec, Atomic!Spec
=============================================================================
