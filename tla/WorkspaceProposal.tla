------------------------- MODULE WorkspaceProposal -------------------------
(***************************************************************************)
(* One workspace proposal of a conversation, from the card the user sees   *)
(* to the answer the model gets: confirming it, rejecting it, deleting the *)
(* conversation meanwhile, and what the next start of the program makes of *)
(* an unfinished one (chat_controller_proposal_actions.dart,               *)
(* workspace_decision_continuation.dart, chat_workspace_startup_recovery). *)
(*                                                                         *)
(* The claim, the journal record and the native operation are kept in      *)
(* three places that no transaction spans; every await between them is a   *)
(* step of its own.  The native broker is reduced to what LinuxMutation    *)
(* shows it to do: prepared, applied, decided, cleaned up.                 *)
(***************************************************************************)
EXTENDS Naturals

CONSTANTS
  Rejects,     \* rejections the user may have in progress at a time
  MaxClaims,   \* confirmations that get as far as a claim
  MaxDoubts,   \* calls that fail once: a reconciliation, a terminal write
  MaxCrashes

ASSUME LimitsAssumption ==
  MaxClaims \in Nat /\ MaxDoubts \in Nat /\ MaxCrashes \in Nat

VARIABLES
  proposal,  \* the pending proposal stored with the conversation
  answer,    \* the tool result that finalized the request
  record,    \* the operation's record in the recovery journal
  native,    \* the operation of the latest receipt in the native broker
  effect,    \* the files in the tree show the operation
  step,      \* where the confirmation, or startup recovery, stands
  result,    \* the outcome it carries from the journal to the conversation
  reject,    \* where each rejection stands
  deciding,  \* the proposal's decision is in _workspaceDecisions
  deletion,  \* the conversation is about to be deleted
  lost,      \* no reconciliation will ever prove anything again
  claims, doubts, crashes

vars == <<proposal, answer, record, native, effect, step, result, reject,
          deciding, deletion, lost, claims, doubts, crashes>>
limits == <<lost, claims, doubts, crashes>>
storage == <<proposal, answer, record, native, effect>>

Pending == [status |-> "pending", token |-> 0]
Gone == [status |-> "gone", token |-> 0]
Executing(t) == [status |-> "executing", token |-> t]

NoRecord == [state |-> "none", token |-> 0, outcome |-> "none"]
Claimed(t) == [state |-> "claimed", token |-> t, outcome |-> "none"]
Prepared(t) == [state |-> "prepared", token |-> t, outcome |-> "none"]
Terminal(t, o) == [state |-> "terminal", token |-> t, outcome |-> o]

Outcomes == {"none", "committed", "rolledBack"}

\* Steps of commit and of the acknowledgement hold the workspace root's lock.
Locked == {"validating", "preparing", "putting", "committing", "proving",
           "cleaning", "removing"}
Confirming == Locked \cup {"checking", "existing", "claiming", "persisting",
                           "releasing", "resolving", "deciding", "catching",
                           "resetting"}
Starting == {"recovering", "dropping", "storing", "startupCleaning",
             "startupRemoving", "sweeping"}

TypeOK ==
  /\ proposal \in {Pending, Gone} \cup {Executing(t) : t \in 1 .. MaxClaims}
  /\ answer \in Outcomes \cup {"rejected", "deleted"}
  /\ record \in {NoRecord} \cup {Claimed(t) : t \in 1 .. MaxClaims}
                 \cup {Prepared(t) : t \in 1 .. MaxClaims}
                 \cup {Terminal(t, o) : t \in 1 .. MaxClaims,
                                       o \in Outcomes \ {"none"}}
  /\ native \in {"none", "prepared", "applied", "committed", "rolledBack"}
  /\ effect \in BOOLEAN
  /\ step \in Confirming \cup Starting \cup {"ready"}
  /\ result \in Outcomes
  /\ reject \in [Rejects -> {"idle", "restoring", "deciding"}]
  /\ deciding \in BOOLEAN
  /\ deletion \in BOOLEAN
  /\ lost \in BOOLEAN
  /\ claims \in 0 .. MaxClaims
  /\ doubts \in 0 .. MaxDoubts
  /\ crashes \in 0 .. MaxCrashes

Init ==
  /\ proposal = Pending
  /\ answer = "none"
  /\ record = NoRecord
  /\ native = "none"
  /\ effect = FALSE
  /\ step = "ready"
  /\ result = "none"
  /\ reject = [r \in Rejects |-> "idle"]
  /\ deciding = FALSE
  /\ deletion = FALSE
  /\ lost = FALSE
  /\ claims = 0 /\ doubts = 0 /\ crashes = 0

-----------------------------------------------------------------------------
(* Confirming.  The card is disabled while a confirmation runs.            *)

GoTo(s) == step' = s

Elsewhere == UNCHANGED <<result, reject, deciding, deletion, lost, doubts, crashes>>

Confirm ==
  /\ step = "ready" /\ proposal.status = "pending" /\ claims < MaxClaims
  /\ GoTo("checking")
  /\ UNCHANGED <<storage, claims>> /\ Elsewhere

\* Permission, binding, root and the stored proposal; any of them may refuse.
Check ==
  /\ step = "checking"
  /\ \/ proposal.status = "pending" /\ GoTo("existing")
     \/ GoTo("ready")
  /\ UNCHANGED <<storage, claims>> /\ Elsewhere

\* reconcileProposal is called without a claim token, which no record matches.
Existing ==
  /\ step = "existing"
  /\ GoTo(IF record.state = "none" THEN "claiming" ELSE "ready")
  /\ UNCHANGED <<storage, claims>> /\ Elsewhere

\* beginClaim, unless another operation's record blocks the session.
Claim ==
  /\ step = "claiming"
  /\ \/ /\ record.state # "prepared"
        /\ claims' = claims + 1
        /\ record' = Claimed(claims')
        /\ GoTo("persisting")
     \/ UNCHANGED <<claims, record>> /\ GoTo("ready")
  /\ UNCHANGED <<proposal, answer, native, effect>> /\ Elsewhere

PersistExecuting ==
  /\ step = "persisting"
  /\ \/ /\ proposal.status = "pending"
        /\ proposal' = Executing(claims) /\ GoTo("validating")
     \/ /\ proposal.status # "pending"
        /\ UNCHANGED proposal /\ GoTo("releasing")
  /\ UNCHANGED <<answer, record, native, effect, claims>> /\ Elsewhere

\* abandonClaim removes the claim it is given the token of, and nothing else.
Abandoned == IF record = Claimed(claims) THEN NoRecord ELSE record

\* Mutant of Release: the claim of a proposal that is gone is left behind.
KeepClaim ==
  /\ step = "releasing"
  /\ GoTo("ready")
  /\ UNCHANGED <<storage, claims>> /\ Elsewhere

Release ==
  /\ step = "releasing"
  /\ record' = Abandoned
  /\ GoTo("ready")
  /\ UNCHANGED <<proposal, answer, native, effect, claims>> /\ Elsewhere

\* The claim, the target, the quota, and then the proposal and its permission
\* again; any of them may refuse.
Validate ==
  /\ step = "validating"
  /\ \/ /\ record = Claimed(claims) /\ ~effect /\ proposal = Executing(claims)
        /\ GoTo("preparing")
     \/ GoTo("catching")
  /\ UNCHANGED <<storage, claims>> /\ Elsewhere

Prepare ==
  /\ step = "preparing"
  /\ \/ native' = "prepared" /\ GoTo("putting")
     \/ UNCHANGED native /\ GoTo("catching")
  /\ UNCHANGED <<proposal, answer, record, effect, claims>> /\ Elsewhere

\* A receipt the journal refuses is rolled back and cleaned up, if that works.
PutPrepared ==
  /\ step = "putting"
  /\ \/ /\ record' = Prepared(record.token)
        /\ UNCHANGED native /\ GoTo("committing")
     \/ /\ native' \in {"none", "rolledBack", native}
        /\ UNCHANGED record /\ GoTo("catching")
  /\ UNCHANGED <<proposal, answer, effect, claims>> /\ Elsewhere

\* The native commit succeeds, fails after the rename, or fails before it.
CommitNative ==
  /\ step = "committing"
  /\ \/ native' \in {"committed", "applied"} /\ effect' = TRUE
     \/ UNCHANGED <<native, effect>>
  /\ GoTo("proving")
  /\ UNCHANGED <<proposal, answer, record, claims>> /\ Elsewhere

\* What a reconciliation, and the rollback it may lead to, settles.
Settled == IF native \in {"applied", "committed"} THEN "committed" ELSE "rolledBack"

Doubt == doubts < MaxDoubts /\ doubts' = doubts + 1

\* The reconciliation proves nothing: a call fails, or nothing can be proved.
Unproved == IF lost THEN UNCHANGED doubts ELSE Doubt

\* Mutant of Prove: an outcome nobody could prove becomes the terminal record.
PersistIndeterminate ==
  /\ step = "proving"
  /\ \/ native' = Settled /\ result' = Settled
     \/ UNCHANGED native /\ result' = "none"
  /\ record' = Terminal(record.token, result')
  /\ GoTo("resolving")
  /\ UNCHANGED <<proposal, answer, effect, reject, deciding, deletion, limits>>

Prove ==
  /\ step = "proving"
  /\ \/ /\ ~lost
        /\ native' = Settled /\ result' = Settled
        /\ record' = Terminal(record.token, Settled)
        /\ GoTo("resolving")
        /\ UNCHANGED doubts
     \/ /\ Unproved
        /\ native' \in IF lost THEN {native} ELSE {native, Settled}
        /\ UNCHANGED <<result, record>>
        /\ GoTo("catching")
  /\ UNCHANGED <<proposal, answer, effect, reject, deciding, deletion, lost,
                 claims, crashes>>

-----------------------------------------------------------------------------
(* Recording the result, then acknowledging it to the broker.              *)

Resolve ==
  /\ step = "resolving"
  /\ \/ ~deciding /\ deciding' = TRUE /\ GoTo("deciding")
     \/ deciding /\ UNCHANGED deciding /\ GoTo("ready")
  /\ UNCHANGED <<storage, result, reject, deletion, limits>>

Decide ==
  /\ step = "deciding"
  /\ \/ /\ proposal = Executing(claims)
        /\ answer' = result /\ proposal' = Gone
        /\ UNCHANGED deciding /\ GoTo("cleaning")
     \/ /\ proposal # Executing(claims)
        /\ UNCHANGED <<answer, proposal>>
        /\ deciding' = FALSE /\ GoTo("ready")
  /\ UNCHANGED <<record, native, effect, result, reject, deletion, limits>>

AckCleanup ==
  /\ step = "cleaning"
  /\ \/ native' = "none" /\ UNCHANGED deciding /\ GoTo("removing")
     \/ UNCHANGED native /\ deciding' = FALSE /\ GoTo("catching")
  /\ UNCHANGED <<proposal, answer, record, effect, result, reject, deletion, limits>>

AckRemove ==
  /\ step = "removing"
  /\ record' = NoRecord /\ deciding' = FALSE /\ GoTo("ready")
  /\ UNCHANGED <<proposal, answer, native, effect, result, reject, deletion, limits>>

\* An error: the claim is given back unless a receipt took its place.
Catch ==
  /\ step = "catching"
  /\ record' = Abandoned
  /\ GoTo("resetting")
  /\ UNCHANGED <<proposal, answer, native, effect, claims>> /\ Elsewhere

Reset ==
  /\ step = "resetting"
  /\ proposal' = IF proposal = Executing(claims) THEN Pending ELSE proposal
  /\ GoTo("ready")
  /\ UNCHANGED <<answer, record, native, effect, claims>> /\ Elsewhere

-----------------------------------------------------------------------------
(* Rejecting.  The proposal was pending when the button was pressed, so it *)
(* had no claim to give up: the card of an executing proposal is disabled, *)
(* and the branch of rejectWorkspaceProposal for one, with its             *)
(* abandonClaim, is never entered from the screen.                         *)

Reject(r) ==
  /\ step = "ready" /\ proposal.status = "pending" /\ reject[r] = "idle"
  /\ reject' = [reject EXCEPT ![r] = "restoring"]
  /\ UNCHANGED <<storage, step, result, deciding, deletion, limits>>

EnterReject(r) ==
  /\ reject[r] = "restoring"
  /\ \/ /\ ~deciding /\ deciding' = TRUE
        /\ reject' = [reject EXCEPT ![r] = "deciding"]
     \/ /\ deciding /\ UNCHANGED deciding
        /\ reject' = [reject EXCEPT ![r] = "idle"]
  /\ UNCHANGED <<storage, step, result, deletion, limits>>

\* Mutant of SaveReject: any proposal of the request is taken for the one rejected.
SaveAnyReject(r) ==
  /\ reject[r] = "deciding"
  /\ reject' = [reject EXCEPT ![r] = "idle"]
  /\ deciding' = FALSE
  /\ proposal' = Gone
  /\ answer' = IF proposal = Gone THEN answer ELSE "rejected"
  /\ UNCHANGED <<record, native, effect, step, result, deletion, limits>>

\* hasSameIdentity: the status and the claim are part of the identity.
SaveReject(r) ==
  /\ reject[r] = "deciding"
  /\ reject' = [reject EXCEPT ![r] = "idle"]
  /\ deciding' = FALSE
  /\ \/ proposal = Pending /\ proposal' = Gone /\ answer' = "rejected"
     \/ proposal # Pending /\ UNCHANGED <<proposal, answer>>
  /\ UNCHANGED <<record, native, effect, step, result, deletion, limits>>

\* The conversation can be deleted at any time: its decisions are forgotten, and
\* then, once its other saves are done, it goes.
Forget ==
  /\ step \notin Starting /\ proposal # Gone /\ ~deletion
  /\ deletion' = TRUE /\ deciding' = FALSE
  /\ UNCHANGED <<storage, step, result, reject, limits>>

Delete ==
  /\ deletion /\ deletion' = FALSE
  /\ proposal' = Gone
  /\ answer' = IF proposal = Gone THEN answer ELSE "deleted"
  /\ UNCHANGED <<record, native, effect, step, result, reject, deciding, limits>>

\* Any other use of the workspace settles a prepared receipt natively, but
\* leaves the record to the conversation (_recoverLocked).
Peek ==
  /\ step \notin Locked \cup Starting /\ ~lost
  /\ record.state = "prepared" /\ native \in {"prepared", "applied"}
  /\ native' = Settled
  /\ UNCHANGED <<proposal, answer, record, effect, step, result, reject,
                 deciding, deletion, limits>>

\* Another program changes the operation's files so that neither outcome can be
\* proved any more, or the workspace folder cannot be opened again.
Lose ==
  /\ record.state = "prepared" /\ native # "none" /\ ~lost
  /\ lost' = TRUE
  /\ UNCHANGED <<storage, step, result, reject, deciding, deletion, claims, doubts,
                 crashes>>

-----------------------------------------------------------------------------
(* The program ends and starts again; recovery runs before the user can do *)
(* anything.                                                               *)

Restarted ==
  /\ GoTo("recovering")
  /\ result' = "none"
  /\ reject' = [r \in Rejects |-> "idle"]
  /\ deciding' = FALSE /\ deletion' = FALSE
  /\ UNCHANGED <<storage, lost, claims, doubts>>

Crash == crashes < MaxCrashes /\ crashes' = crashes + 1 /\ Restarted

Reopen ==
  /\ step = "ready"
  /\ record.state # "none" \/ proposal.status = "executing"
  /\ Restarted /\ UNCHANGED crashes

Quietly == UNCHANGED <<reject, deciding, deletion, lost, claims, crashes>>

RecoverNone ==
  /\ step = "recovering" /\ record.state = "none"
  /\ GoTo("sweeping")
  /\ UNCHANGED <<storage, result, doubts>> /\ Quietly

\* A claim alone did nothing: first the card is given back, then the claim goes.
\* (A claim that is not the executing proposal's own, which goes into quarantine
\* first, needs two confirmations at a time.)
RecoverClaim ==
  /\ step = "recovering" /\ record.state = "claimed"
  /\ proposal' = IF proposal = Gone THEN Gone ELSE Pending
  /\ GoTo("dropping")
  /\ UNCHANGED <<answer, record, native, effect, result, doubts>> /\ Quietly

DropClaim ==
  /\ step = "dropping"
  /\ record' = NoRecord
  /\ GoTo("sweeping")
  /\ UNCHANGED <<proposal, answer, native, effect, result, doubts>> /\ Quietly

\* A receipt is settled; without a proof, or without the native state, the
\* record stays and the proposal with it.
RecoverPrepared ==
  /\ step = "recovering" /\ record.state = "prepared"
  /\ \/ /\ native # "none" /\ ~lost
        /\ native' = Settled /\ result' = Settled
        /\ GoTo("storing") /\ UNCHANGED doubts
     \/ native = "none" /\ UNCHANGED <<native, result, doubts>> /\ GoTo("ready")
     \/ native # "none" /\ Unproved /\ UNCHANGED <<native, result>> /\ GoTo("ready")
  /\ UNCHANGED <<proposal, answer, record, effect>> /\ Quietly

RecoverTerminal ==
  /\ step = "recovering" /\ record.state = "terminal"
  /\ result' = record.outcome
  /\ GoTo("storing")
  /\ UNCHANGED <<storage, doubts>> /\ Quietly

\* Whatever its status, the proposal is finalized with the settled outcome.
Store ==
  /\ step = "storing"
  /\ \/ proposal # Gone /\ proposal' = Gone /\ answer' = result
     \/ proposal = Gone /\ UNCHANGED <<proposal, answer>>
  /\ GoTo("startupCleaning")
  /\ UNCHANGED <<record, native, effect, result, doubts>> /\ Quietly

\* Mutant of StartupCleanup: the record goes before the native state.
RemoveFirst ==
  /\ step = "startupCleaning"
  /\ record' = NoRecord /\ GoTo("startupRemoving")
  /\ UNCHANGED <<proposal, answer, native, effect, result, doubts>> /\ Quietly

StartupCleanup ==
  /\ step = "startupCleaning"
  /\ \/ native' = "none" /\ GoTo("startupRemoving") /\ UNCHANGED doubts
     \/ Unproved /\ UNCHANGED native /\ GoTo("sweeping")
  /\ UNCHANGED <<proposal, answer, record, effect, result>> /\ Quietly

StartupRemove ==
  /\ step = "startupRemoving"
  /\ record' = NoRecord
  /\ GoTo("sweeping")
  /\ UNCHANGED <<proposal, answer, native, effect, result, doubts>> /\ Quietly

\* Mutant of Sweep: only proposals that have a record are looked at.
KeepExecuting ==
  /\ step = "sweeping"
  /\ GoTo("ready")
  /\ UNCHANGED <<storage, result, doubts>> /\ Quietly

\* _resetUnclaimedExecuting: no record speaks for an executing proposal.
Sweep ==
  /\ step = "sweeping"
  /\ proposal' = IF proposal.status = "executing" THEN Pending ELSE proposal
  /\ GoTo("ready")
  /\ UNCHANGED <<answer, record, native, effect, result, doubts>> /\ Quietly

-----------------------------------------------------------------------------

Confirmation ==
  \/ Check \/ Existing \/ Claim \/ PersistExecuting \/ Release
  \/ Validate \/ Prepare \/ PutPrepared \/ CommitNative \/ Prove
  \/ Resolve \/ Decide \/ AckCleanup \/ AckRemove \/ Catch \/ Reset

Rejection == \E r \in Rejects : EnterReject(r) \/ SaveReject(r)

Startup ==
  \/ RecoverNone \/ RecoverClaim \/ DropClaim \/ RecoverPrepared
  \/ RecoverTerminal \/ Store \/ StartupCleanup \/ StartupRemove \/ Sweep

Next ==
  \/ Confirm \/ Confirmation
  \/ \E r \in Rejects : Reject(r)
  \/ Rejection
  \/ Forget \/ Delete \/ Peek \/ Lose
  \/ Crash \/ Reopen \/ Startup

Spec == Init /\ [][Next]_vars

(* Every await resumes, and a blocked session makes the user start the     *)
(* program again sooner or later, even if he goes on confirming meanwhile. *)
FairSpec ==
  /\ Spec
  /\ WF_vars(Confirmation) /\ WF_vars(Rejection) /\ WF_vars(Startup)
  /\ SF_vars(Reopen)

-----------------------------------------------------------------------------
(* Safety.                                                                 *)

\* Files the broker changed and has not been told to forget are always in the
\* journal, so that a crash anywhere leaves startup something to settle; and
\* terminal records tell what became of the files.
RecordTrue ==
  /\ native \in {"applied", "committed"} => record.state \in {"prepared", "terminal"}
  /\ record.state = "terminal" => (record.outcome = "committed") = effect

\* A claim does not outlive the confirmation that took it: it would block every
\* use of the session's workspace.
NoStrayClaim == step = "ready" => record.state # "claimed"

-----------------------------------------------------------------------------
(* The abstract mutation.  A rejection promises that nothing was done; an  *)
(* outcome nobody could prove in the session counts as a disturbance.      *)

Verdict ==
  IF answer = "rejected" THEN "rolledBack"
  ELSE IF answer = "deleted" THEN "none" ELSE answer

Atomic == INSTANCE AtomicMutation
            WITH applied <- effect, verdict <- Verdict, disturbed <- doubts > 0 \/ lost

\* Whoever wins, confirmation, rejection or startup, the answer is given once
\* and is true, and nothing is done to the files after it.
ImplementsAtomic == Atomic!Spec

\* The card of a proposal stays disabled for good only over a receipt that no start
\* can prove (_apply returns and leaves the record, and the sweep passes over the
\* proposal it matches): not over a claim, a terminal record or no record at all.
CardReturns ==
  <>[](proposal.status = "executing") => <>[](record.state = "prepared" /\ lost)

-----------------------------------------------------------------------------
(* What the documents say.                                                 *)

\* docs/ai/tools.md: "any prepared native receipt is reconciled or rolled back
\* before the conversation is finalized".
ReceiptSettled ==
  answer \in {"committed", "rolledBack", "rejected"}
    => ~(record.state = "prepared" /\ native \in {"prepared", "applied"})
=============================================================================
