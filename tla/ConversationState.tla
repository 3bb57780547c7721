------------------------- MODULE ConversationState -------------------------
(***************************************************************************)
(* Who may change a conversation, and what the others see of it            *)
(* (chat_controller.dart, automatic_title_coordinator.dart,                *)
(* conversation_store.dart).                                               *)
(*                                                                         *)
(* Every change of a conversation goes through a per-conversation queue,   *)
(* reads the conversation from the controller's state, saves the changed   *)
(* one and publishes it in the state.  Creating a conversation goes        *)
(* through no queue, deleting one only through its own, and both publish   *)
(* the whole list.  Every save is an await: other calls run meanwhile.     *)
(***************************************************************************)
EXTENDS Naturals, Sequences, FiniteSets

CONSTANTS
  Ids,         \* conversations
  Initial,     \* those stored when the program starts
  Calls,       \* calls of the controller's operations
  MaxFailures, \* saves that fail
  MaxCrashes

ASSUME InitialAssumption == Initial \subseteq Ids
ASSUME LimitsAssumption == MaxFailures \in Nat /\ MaxCrashes \in Nat

VARIABLES
  listed,    \* ChatState.conversations
  stored,    \* the conversations box on disk
  queue,     \* AutomaticTitleCoordinator._operations
  stage,     \* how far each call is
  job,       \* what each call does, and to which conversation
  held,      \* the list it carries over its save, its change included
  overwritten, \* history: conversations published from a list read before a save
  failures, crashes

vars == <<listed, stored, queue, stage, job, held, overwritten, failures, crashes>>

-----------------------------------------------------------------------------

\* A conversation is the edits that made it, deltas and tool results among them,
\* and the state of its title.
Conversations ==
  [edits : SUBSET Calls,
   title : {"pendingAutomatic", "fallback", "generated", "manual"}]

Absent == [edits |-> {}, title |-> "absent"]
Fresh == [edits |-> {}, title |-> "pendingAutomatic"]

Lists == [Ids -> Conversations \cup {Absent}]

Kinds == {"edit", "rename", "claim", "complete", "delete", "create"}
Idle == [kind |-> "none", id |-> "none"]

Saving == {"saving", "saved"}

InQueue(c, id) == \E i \in 1 .. Len(queue[id]) : queue[id][i] = c

Acked(c, kind, id) == stage[c] = "acked" /\ job[c] = [kind |-> kind, id |-> id]

\* The queue of a conversation holds the calls that wait and the one it serves.
TypeOK ==
  /\ listed \in Lists /\ stored \in Lists
  /\ stage \in [Calls -> {"idle", "queued", "saving", "saved", "acked", "over"}]
  /\ job \in [Calls -> [kind : Kinds, id : Ids] \cup {Idle}]
  /\ \A id \in Ids :
       /\ queue[id] \in Seq(Calls)
       /\ \A c \in Calls :
            InQueue(c, id) <=> /\ stage[c] \in Saving \cup {"queued"}
                               /\ job[c].id = id /\ job[c].kind # "create"
  /\ held \in [Calls -> Lists]
  /\ overwritten \subseteq Ids
  /\ failures \in 0 .. MaxFailures /\ crashes \in 0 .. MaxCrashes

Init ==
  /\ listed = [id \in Ids |-> IF id \in Initial THEN Fresh ELSE Absent]
  /\ stored = listed
  /\ queue = [id \in Ids |-> <<>>]
  /\ stage = [c \in Calls |-> "idle"]
  /\ job = [c \in Calls |-> Idle]
  /\ held = [c \in Calls |-> listed]
  /\ overwritten = {}
  /\ failures = 0 /\ crashes = 0

-----------------------------------------------------------------------------
(* Changing a conversation.                                                *)

To(c, s) == stage' = [stage EXCEPT ![c] = s]

Hold(c, conversation) ==
  held' = [held EXCEPT ![c] = [listed EXCEPT ![job'[c].id] = conversation]]

Leave(c) == queue' = [queue EXCEPT ![job[c].id] = Tail(@)]

\* mutate, claim, complete and serialize: the call waits for its turn.  A title
\* is completed by the one that claimed it.
Enqueue(c, kind, id) ==
  /\ stage[c] = "idle" /\ kind # "create" /\ listed[id] # Absent
  /\ kind = "complete" => \E d \in Calls : Acked(d, "claim", id)
  /\ To(c, "queued")
  /\ job' = [job EXCEPT ![c] = [kind |-> kind, id |-> id]]
  /\ queue' = [queue EXCEPT ![id] = Append(@, c)]
  /\ UNCHANGED <<listed, stored, held, overwritten, failures, crashes>>

\* Mutant of Applies: a title is completed whatever became of it meanwhile.
CompletesAnyway(kind, conversation) ==
  kind = "claim" => conversation.title = "pendingAutomatic"

Applies(kind, conversation) ==
  /\ kind = "claim" => conversation.title = "pendingAutomatic"
  /\ kind = "complete" => conversation.title = "fallback"

Changed(c, conversation) ==
  CASE job[c].kind = "edit" -> [conversation EXCEPT !.edits = @ \cup {c}]
    [] job[c].kind = "rename" -> [conversation EXCEPT !.title = "manual"]
    [] job[c].kind = "claim" -> [conversation EXCEPT !.title = "fallback"]
    [] job[c].kind = "complete" -> [conversation EXCEPT !.title = "generated"]

\* Mutant of Turn: calls for one conversation run side by side.
AnyTurn(c) == stage[c] = "queued"

Turn(c) == stage[c] = "queued" /\ Head(queue[job[c].id]) = c

\* The conversation is read when the call's turn comes.  Deleting reads the list.
Start(c) ==
  /\ Turn(c) /\ UNCHANGED job
  /\ LET latest == listed[job[c].id] IN
     \/ /\ job[c].kind # "delete"
        /\ latest # Absent /\ Applies(job[c].kind, latest)
        /\ Hold(c, Changed(c, latest))
        /\ To(c, "saving")
        /\ UNCHANGED queue
     \/ /\ job[c].kind # "delete"
        /\ latest = Absent \/ ~Applies(job[c].kind, latest)
        /\ To(c, "over") /\ Leave(c)
        /\ UNCHANGED held
     \/ /\ job[c].kind = "delete"
        /\ Hold(c, Absent)
        /\ To(c, "saving")
        /\ UNCHANGED queue
  /\ UNCHANGED <<listed, stored, overwritten, failures, crashes>>

Create(c, id) ==
  /\ stage[c] = "idle"
  /\ stored[id] = Absent /\ \A d \in Calls : job[d].id # id
  /\ id \notin Initial
  /\ job' = [job EXCEPT ![c] = [kind |-> "create", id |-> id]]
  /\ Hold(c, Fresh)
  /\ To(c, "saving")
  /\ UNCHANGED <<listed, stored, queue, overwritten, failures, crashes>>

-----------------------------------------------------------------------------
(* Saving and publishing.                                                  *)

Write(c) ==
  /\ stage[c] = "saving" /\ To(c, "saved")
  /\ stored' = [stored EXCEPT ![job[c].id] = held[c][job[c].id]]
  /\ UNCHANGED <<listed, queue, job, held, overwritten, failures, crashes>>

\* _saveAndPublishAuthoritative replaces one conversation of the list, if it is
\* still there.
PublishChange(c) ==
  /\ stage[c] = "saved" /\ job[c].kind \notin {"create", "delete"}
  /\ listed' = [listed EXCEPT ![job[c].id] = IF @ = Absent THEN Absent ELSE held[c][job[c].id]]
  /\ To(c, "acked") /\ Leave(c)
  /\ UNCHANGED <<stored, job, held, overwritten, failures, crashes>>

\* createConversation and delete publish the list they read before the save.
PublishList(c) ==
  /\ stage[c] = "saved" /\ job[c].kind \in {"create", "delete"}
  /\ listed' = held[c]
  /\ overwritten' = overwritten \cup
                      {id \in Ids \ {job[c].id} : held[c][id] # listed[id]}
  /\ To(c, "acked")
  /\ IF job[c].kind = "delete" THEN Leave(c) ELSE UNCHANGED queue
  /\ UNCHANGED <<stored, job, held, failures, crashes>>

\* Mutant of Fail: an operation that failed holds up the ones behind it.
FailForGood(c) ==
  /\ stage[c] = "saving" /\ failures < MaxFailures
  /\ failures' = failures + 1
  /\ To(c, "over")
  /\ UNCHANGED <<listed, stored, queue, job, held, overwritten, crashes>>

\* A save that fails is the caller's error; the queue goes on.
Fail(c) ==
  /\ stage[c] = "saving" /\ failures < MaxFailures
  /\ failures' = failures + 1
  /\ To(c, "over")
  /\ IF job[c].kind = "create" THEN UNCHANGED queue ELSE Leave(c)
  /\ UNCHANGED <<listed, stored, job, held, overwritten, crashes>>

\* The program ends and starts again from the box.
Restart ==
  /\ crashes < MaxCrashes /\ crashes' = crashes + 1
  /\ listed' = stored
  /\ queue' = [id \in Ids |-> <<>>]
  /\ stage' = [c \in Calls |-> IF stage[c] \in {"idle", "acked"}
                                 THEN stage[c] ELSE "over"]
  /\ UNCHANGED <<stored, job, held, overwritten, failures>>

-----------------------------------------------------------------------------

Progress ==
  \E c \in Calls :
    Start(c) \/ Write(c) \/ PublishChange(c) \/ PublishList(c) \/ Fail(c)

Next ==
  \/ \E c \in Calls, id \in Ids :
       Create(c, id) \/ \E kind \in Kinds : Enqueue(c, kind, id)
  \/ Progress
  \/ Restart

Spec == Init /\ [][Next]_vars

\* Every await resumes, with a result or with an error.
FairSpec == Spec /\ WF_vars(Progress)

-----------------------------------------------------------------------------
(* Correctness.                                                            *)

Untouched == Ids \ overwritten

\* A change its caller was told of is in the conversation, on the screen and on
\* disk, unless a whole list was published over it.
ChangesKept ==
  \A id \in Untouched, c \in Calls :
    Acked(c, "edit", id) => /\ listed[id] # Absent => c \in listed[id].edits
                            /\ stored[id] # Absent => c \in stored[id].edits

\* When nobody is saving a conversation, the screen shows what a restart would.
ShownIsStored ==
  \A id \in Untouched :
    (\A c \in Calls : job[c].id = id => stage[c] \notin Saving)
      => listed[id] = stored[id]

\* The name the user gave is not replaced by a generated one, even if the title
\* was asked for before.
ManualTitleKept ==
  \A id \in Untouched, c \in Calls :
    Acked(c, "rename", id) /\ listed[id] # Absent => listed[id].title = "manual"

\* A failed operation does not hold up the conversation's queue.
QueueMoves == \A c \in Calls : stage[c] = "queued" ~> stage[c] # "queued"

-----------------------------------------------------------------------------
\* docs/ai/architecture.md: every delta is applied to "the latest authoritative
\* Conversation [...] Never replace this with a stale captured conversation".
NeverStale ==
  \A id \in Ids, c \in Calls :
    Acked(c, "edit", id) /\ listed[id] # Absent => c \in listed[id].edits
=============================================================================
