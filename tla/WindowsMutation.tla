-------------------------- MODULE WindowsMutation --------------------------
(***************************************************************************)
(* One confirmed workspace mutation on Windows, end to end: the Dart       *)
(* client with its journal, the native broker, another program that writes *)
(* in the session directory or merely has a file of it open, and crashes   *)
(* of the process at any point.                                            *)
(***************************************************************************)
EXTENDS Naturals, FiniteSets, WindowsBroker, MutationClient

CONSTANTS
  MaxEdits,     \* changes another program makes to the operation's names
  MaxHolds,     \* times another program opens one of them
  MaxCrashes,   \* times the process dies in the middle of something
  MaxFaults     \* system calls or journal writes that fail

ASSUME BoundsAssumption ==
  MaxEdits \in Nat /\ MaxHolds \in Nat /\ MaxCrashes \in Nat /\ MaxFaults \in Nat

VARIABLES edits, holds, crashes, faults,
  skipped       \* what the broker once could not open or find and went on without

budget == <<edits, holds, crashes, faults, skipped>>
vars == <<call, reply, broker, client, held, budget>>

HiddenEntries == {"stage", "backup", "old"}

TypeOK ==
  /\ BrokerTypeOK
  /\ ClientTypeOK
  /\ edits \in 0 .. MaxEdits
  /\ holds \in 0 .. MaxHolds
  /\ crashes \in 0 .. MaxCrashes
  /\ faults \in 0 .. MaxFaults
  /\ skipped \subseteq HiddenEntries \cup {"temp"}

Init ==
  /\ ChannelInit
  /\ BrokerInit
  /\ ClientInit
  /\ held = {}
  /\ edits = 0 /\ holds = 0 /\ crashes = 0 /\ faults = 0
  /\ skipped = {}

-----------------------------------------------------------------------------
(* Another program: it creates, overwrites, deletes or edits in place what *)
(* is at the operation's names, or keeps it open.  It cannot reach the     *)
(* hidden directory through the tools, and leaves it alone.                *)

\* What a handler has open from its check to its rename or delete.
Pinned ==
  {p \in Places :
     IF p = "path"
       THEN \/ call \in {"prepareSave", "quarantine", "rollbackDelete"}
            \/ call = "install" /\ op = "move"
       ELSE op = "move" /\ call \in {"commitSeal", "rollbackRestore"}}

\* An entry that somebody has open can be written but not removed or renamed.
Removable(p) == tree[p] # "none" /\ p \notin held \cup Pinned

Outsider ==
  /\ edits < MaxEdits
  /\ edits' = edits + 1
  /\ UNCHANGED <<call, reply, op, stage, backup, old, temp, phase, applied,
                 client, held, holds, crashes, faults, skipped>>
  /\ \E p \in Named :
       \/ tree[p] = "none" /\ \E n \in {"foreign", "foreignDir"} : Put(p, n)
       \/ Removable(p) /\ \E n \in {"none", "foreign"} \ {tree[p]} : Put(p, n)
       \/ tree[p] # Edited(tree[p]) /\ Put(p, Edited(tree[p]))

Hold ==
  /\ holds < MaxHolds
  /\ holds' = holds + 1
  /\ \E p \in Named : Removable(p) /\ held' = held \cup {p}
  /\ UNCHANGED <<call, reply, broker, client, edits, crashes, faults, skipped>>

Release ==
  /\ held # {}
  /\ held' = {}
  /\ UNCHANGED <<call, reply, broker, client, budget>>

-----------------------------------------------------------------------------

\* The process dies: the handler in progress and every await are lost, and a
\* save in progress may have left its temporary file.
Crash ==
  /\ crashes < MaxCrashes
  /\ crashes' = crashes + 1
  /\ Restarted
  /\ temp' = temp \/ (temp' = TRUE /\ \E to \in Phases : Saving(to))
  /\ UNCHANGED <<op, files, phase, applied, held, edits, holds, faults, skipped>>

NativeFault ==
  /\ faults < MaxFaults
  /\ faults' = faults + 1
  /\ Fault /\ ~TempMissed
  /\ UNCHANGED <<client, held, edits, holds, crashes, skipped>>

\* A call fails and the handler goes on as if there were nothing: a cleanup that
\* cannot open an entry, a save that cannot look for an earlier temporary file.
NativeSkip ==
  /\ faults < MaxFaults
  /\ faults' = faults + 1
  /\ \/ \E entry \in HiddenEntries : SkipEntry(entry) /\ skipped' = skipped \cup {entry}
     \/ BrokerStep /\ TempMissed /\ skipped' = skipped \cup {"temp"}
  /\ UNCHANGED <<client, held, edits, holds, crashes>>

JournalFault ==
  /\ faults < MaxFaults
  /\ faults' = faults + 1
  /\ PutRefused
  /\ UNCHANGED <<broker, held, edits, holds, crashes, skipped>>

Client == ClientProgress /\ UNCHANGED <<broker, held, budget>>
Broker == BrokerStep /\ ~TempMissed /\ UNCHANGED <<client, held, budget>>
Recheck == Peek /\ UNCHANGED <<broker, held, budget>>
Restart == Reopen /\ UNCHANGED <<broker, held, budget>>

Next ==
  \/ Client \/ Broker \/ Recheck \/ Restart
  \/ Outsider \/ Hold \/ Release \/ Crash \/ NativeFault \/ NativeSkip \/ JournalFault

Spec == Init /\ [][Next]_vars

(* The handlers run to their end and the client's awaits resume: both are  *)
(* the event loop's.  The user starts the program again sooner or later,   *)
(* and other programs do not keep a file open for ever.                    *)
FairSpec ==
  Spec /\ WF_vars(Client) /\ WF_vars(Broker) /\ SF_vars(Restart) /\ WF_vars(Release)

-----------------------------------------------------------------------------
(* Safety.                                                                 *)

Quiet == edits = 0

Left == {entry \in HiddenEntries :
           \/ entry = "stage" /\ stage # "none"
           \/ entry = "backup" /\ backup
           \/ entry = "old" /\ old # "none"}

\* The hidden entries never outlive the state file that names them while the
\* journal still holds the receipt (HandleCleanup removes the state last), and an
\* acknowledged operation leaves nothing behind, the temporary state file of an
\* interrupted save included (CleanupStateTemps): all but the entries whose opening
\* failed when the broker was about to remove them.  It passes those over and
\* answers success; they stay for good.
NothingLeftBehind ==
  /\ journal # "none" /\ phase = "none" => Left \subseteq skipped
  /\ step = "done" => Left \subseteq skipped /\ (temp => "temp" \in skipped)

-----------------------------------------------------------------------------
(* What a step may never do.                                               *)

Copies(n) ==
  Cardinality({p \in Places : tree[p] = n})
    + (IF stage = n THEN 1 ELSE 0) + (IF old = n THEN 1 ELSE 0)

OutsiderData == {"foreign", "foreignDir", "expectedEdited"}
OutsiderCopies == [n \in OutsiderData |-> Copies(n)]

\* The broker destroys neither the file the proposal was made against, before the
\* conversation recorded that the operation is committed, nor any file another
\* program wrote, whenever it writes, also with crashes and failing calls: every
\* rename refuses a name that is taken, every delete goes through the handle of a
\* proved file.
FilesPreserved ==
  [][edits' = edits =>
       /\ Copies("expected") > 0 /\ verdict # "committed" => Copies("expected")' > 0
       /\ \A n \in OutsiderData : OutsiderCopies'[n] >= OutsiderCopies[n]]_vars

Atomic == INSTANCE AtomicMutation WITH disturbed <- ~Quiet

\* Whatever another program does, and although a file it has open looks missing to
\* the handlers (OpenFileMaybe), an operation is reported committed only if
\* the broker installed it, and undone only if it did not or was disturbed.
ImplementsAtomic == Atomic!Spec

\* If nobody else writes and no call fails, every operation is brought to an
\* end, although another program opens its files or the process dies once.
Settles ==
  <>(\/ step \in {"done", "failed", "lost"}
     \/ ~Quiet \/ faults > 0 \/ crashes + holds > 1)

\* docs/ai/architecture.md: on Windows the native broker's mutations "persist
\* one exact proposal".  A proposal that nobody disturbs is applied.
QuietProposalApplied ==
  <>(\/ step = "done" /\ verdict = "committed"
     \/ ~Quiet \/ faults + crashes + holds > 0)
=============================================================================
