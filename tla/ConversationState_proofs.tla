----------------------- MODULE ConversationState_proofs -----------------------
(* Proofs about ConversationState, for any set of conversations and of calls  *)
(* and any number of failing saves and restarts.                              *)
EXTENDS ConversationState, SequenceTheorems, TLAPS

-----------------------------------------------------------------------------
(* The inductive invariant.                                                *)

\* The queue of a conversation holds a call once, and serves the one that saves.
QueueFits ==
  /\ queue \in [Ids -> Seq(Calls)]
  /\ \A id \in Ids : \A i, j \in 1 .. Len(queue[id]) :
       queue[id][i] = queue[id][j] => i = j
  /\ \A c \in Calls :
       stage[c] \in Saving /\ job[c].kind # "create" => Head(queue[job[c].id]) = c

JobFits ==
  \A c \in Calls : /\ stage[c] = "idle" <=> job[c] = Idle
                   /\ stage[c] = "queued" => job[c].kind # "create"

\* Nobody deals with a conversation that is being created but its creator.
CreatorAlone ==
  \A c, d \in Calls :
    stage[c] \in Saving /\ job[c].kind = "create" /\ job[d].id = job[c].id => d = c

\* A conversation that was not there when the program started, and whose creator, if
\* there is one, has not published it,
Unborn(id) ==
  /\ id \notin Initial
  /\ \A c \in Calls : stage[c] # "idle" /\ job[c].id = id =>
                        job[c].kind = "create" /\ stage[c] \in Saving

\* is in nobody's list, and on disk only when its creator has saved it.
UnbornFits ==
  \A id \in Ids : Unborn(id) =>
    /\ listed[id] = Absent
    /\ \A c \in Calls : stage[c] \in Saving /\ job[c].id # id => held[c][id] = Absent
    /\ (\A c \in Calls : job[c].id = id => stage[c] # "saved") => stored[id] = Absent

CreatorFits ==
  \A c \in Calls : job[c].kind = "create" => job[c].id \notin Initial

\* A saver carries the conversation as it is listed, with its own change made.
Carries(c, id) ==
  /\ job[c].kind = "create" => held[c][id] = Fresh
  /\ job[c].kind = "delete" => held[c][id] = Absent
  /\ job[c].kind \notin {"create", "delete"} =>
       /\ listed[id] # Absent /\ Applies(job[c].kind, listed[id])
       /\ held[c][id] = Changed(c, listed[id])

SaveFits ==
  \A c \in Calls :
    stage[c] \in Saving /\ job[c].id \in Untouched => Carries(c, job[c].id)

\* The disk is ahead of the list by the change of the saver that has written.
DiskFits ==
  \A id \in Untouched :
    /\ \A c \in Calls : stage[c] = "saved" /\ job[c].id = id => stored[id] = held[c][id]
    /\ listed[id] = stored[id] \/ \E c \in Calls : stage[c] = "saved" /\ job[c].id = id

\* What its caller was told of a change holds of a conversation.
Keeps(id, conversation) ==
  conversation # Absent =>
    \A c \in Calls : /\ Acked(c, "edit", id) => c \in conversation.edits
                     /\ Acked(c, "rename", id) => conversation.title = "manual"

KeptFits == \A id \in Untouched : Keeps(id, listed[id]) /\ Keeps(id, stored[id])

Control == TypeOK /\ QueueFits /\ JobFits /\ CreatorAlone /\ CreatorFits
Content == UnbornFits /\ SaveFits /\ DiskFits /\ KeptFits
Inductive == Control /\ Content

-----------------------------------------------------------------------------
(* Conversations, jobs and queues.                                         *)

LEMMA Jobs ==
  ASSUME TypeOK, JobFits
  PROVE  /\ \A c \in Calls : job[c] = Idle \/ (job[c].id \in Ids /\ job[c].kind \in Kinds)
         /\ \A c \in Calls : stage[c] # "idle" => job[c].id \in Ids /\ job[c].kind \in Kinds
         /\ \A c \in Calls : stage[c] = "idle" => job[c] = Idle
         /\ Idle.kind = "none" /\ "none" \notin Kinds
BY DEF TypeOK, JobFits, Kinds, Idle

\* A conversation that was just created is one, and has no edits.
LEMMA Values ==
  /\ Absent \notin Conversations /\ Fresh \in Conversations /\ Absent # Fresh
  /\ Fresh.edits = {}
BY DEF Absent, Fresh, Conversations

\* A change keeps the edits that are there, adds its own, and sets the title only
\* if it is about it.
LEMMA ChangeMade ==
  ASSUME NEW c \in Calls, NEW conversation \in Conversations,
         job[c].kind \in {"edit", "rename", "claim", "complete"}
  PROVE  /\ Changed(c, conversation) \in Conversations
         /\ conversation.edits \subseteq Changed(c, conversation).edits
         /\ job[c].kind = "edit" => c \in Changed(c, conversation).edits
         /\ job[c].kind = "edit" => Changed(c, conversation).title = conversation.title
         /\ job[c].kind = "rename" => Changed(c, conversation).title = "manual"
<1>1. conversation.edits \in SUBSET Calls
  BY DEF Conversations
<1>2. CASE job[c].kind = "edit"
  BY <1>1, <1>2 DEF Changed, Conversations
<1>3. CASE job[c].kind = "rename"
  BY <1>1, <1>3 DEF Changed, Conversations
<1>4. CASE job[c].kind = "claim"
  BY <1>1, <1>4 DEF Changed, Conversations
<1>5. CASE job[c].kind = "complete"
  BY <1>1, <1>5 DEF Changed, Conversations
<1> QED BY <1>2, <1>3, <1>4, <1>5

\* The head of a queue that is not empty.
LEMMA Heads ==
  ASSUME QueueFits, NEW id \in Ids
  PROVE  /\ Len(queue[id]) \in Nat
         /\ queue[id] \in Seq(Calls)
         /\ Len(queue[id]) > 0 => queue[id] # <<>> /\ Head(queue[id]) = queue[id][1]
<1>1. queue[id] \in Seq(Calls)
  BY DEF QueueFits
<1> QED BY <1>1, LenProperties, EmptySeq, HeadTailProperties

\* A call whose turn it is, and one that saves, is the head of its queue.
LEMMA Served ==
  ASSUME TypeOK, QueueFits, JobFits, NEW c \in Calls,
         Turn(c) \/ (stage[c] \in Saving /\ job[c].kind # "create")
  PROVE  /\ job[c].id \in Ids /\ job[c].kind # "create"
         /\ Len(queue[job[c].id]) > 0 /\ queue[job[c].id][1] = c
<1>1. job[c].id \in Ids /\ stage[c] \in Saving \cup {"queued"}
  BY Jobs DEF Turn, Saving
<1>2. CASE job[c].kind # "create"
  <2>1. InQueue(c, job[c].id)
    BY <1>1, <1>2 DEF TypeOK
  <2>2. Len(queue[job[c].id]) > 0
    BY <1>1, <2>1, Heads DEF InQueue
  <2>3. Head(queue[job[c].id]) = c
    BY DEF Turn, QueueFits
  <2> QED BY <1>1, <1>2, <2>2, <2>3, Heads
<1> QED BY <1>2 DEF Turn, JobFits

\* A call that gets in line stands last, and once (_serialize).
LEMMA Appended ==
  ASSUME QueueFits, NEW c \in Calls, NEW id \in Ids, ~InQueue(c, id),
         queue' = [queue EXCEPT ![id] = Append(@, c)]
  PROVE  /\ queue' \in [Ids -> Seq(Calls)]
         /\ \A i, j \in 1 .. Len(queue'[id]) : queue'[id][i] = queue'[id][j] => i = j
         /\ \A x \in Ids \ {id} : queue'[x] = queue[x]
         /\ \A d \in Calls : InQueue(d, id)' <=> InQueue(d, id) \/ d = c
         /\ Len(queue[id]) > 0 => Head(queue'[id]) = Head(queue[id])
<1>1. queue[id] \in Seq(Calls) /\ Len(queue[id]) \in Nat
  BY Heads
<1>2. queue'[id] = Append(queue[id], c)
  BY DEF QueueFits
<1>3. /\ queue'[id] \in Seq(Calls) /\ Len(queue'[id]) = Len(queue[id]) + 1
      /\ \A i \in 1 .. Len(queue[id]) : queue'[id][i] = queue[id][i]
      /\ queue'[id][Len(queue[id]) + 1] = c
  BY <1>1, <1>2, AppendProperties
<1>4. queue' \in [Ids -> Seq(Calls)] /\ \A x \in Ids \ {id} : queue'[x] = queue[x]
  BY <1>3 DEF QueueFits
<1>5. ASSUME NEW i \in 1 .. Len(queue'[id]), NEW j \in 1 .. Len(queue'[id]),
             queue'[id][i] = queue'[id][j]
      PROVE  i = j
  <2>1. \A k \in 1 .. Len(queue[id]) : queue[id][k] # c
    BY DEF InQueue
  <2>2. \A k \in 1 .. Len(queue'[id]) : k \in 1 .. Len(queue[id]) \/ k = Len(queue[id]) + 1
    BY <1>1, <1>3
  <2> QED BY <1>3, <1>5, <2>1, <2>2 DEF QueueFits
<1>6. \A d \in Calls : InQueue(d, id)' <=> InQueue(d, id) \/ d = c
  BY <1>1, <1>3 DEF InQueue
<1>7. Len(queue[id]) > 0 => Head(queue'[id]) = Head(queue[id])
  <2>1. queue'[id] # <<>> /\ Head(queue'[id]) = queue'[id][1]
    BY <1>1, <1>3, HeadTailProperties, EmptySeq
  <2> QED BY <1>1, <1>3, <2>1, Heads
<1> QED BY <1>4, <1>5, <1>6, <1>7

\* The call that leaves the queue stood first, and is out of it.
LEMMA Left ==
  ASSUME QueueFits, NEW c \in Calls, NEW id \in Ids, id = job[c].id,
         Len(queue[id]) > 0, queue[id][1] = c, Leave(c)
  PROVE  /\ queue' \in [Ids -> Seq(Calls)]
         /\ \A i, j \in 1 .. Len(queue'[id]) : queue'[id][i] = queue'[id][j] => i = j
         /\ \A x \in Ids \ {id} : queue'[x] = queue[x]
         /\ \A d \in Calls : InQueue(d, id)' <=> InQueue(d, id) /\ d # c
<1>1. /\ queue[id] \in Seq(Calls) /\ queue[id] # <<>>
      /\ Len(queue[id]) \in Nat /\ Len(queue[id]) > 0 /\ queue[id][1] = c
  BY Heads
<1>2. queue' = [queue EXCEPT ![id] = Tail(queue[id])]
  BY DEF Leave
<1>3. queue'[id] = Tail(queue[id]) /\ \A x \in Ids \ {id} : queue'[x] = queue[x]
  BY <1>1, <1>2 DEF QueueFits
<1>4. /\ queue'[id] \in Seq(Calls) /\ Len(queue'[id]) = Len(queue[id]) - 1
      /\ \A i \in 1 .. Len(queue'[id]) : queue'[id][i] = queue[id][i + 1]
  BY <1>1, <1>3, HeadTailProperties
<1>5. queue' \in [Ids -> Seq(Calls)]
  BY <1>1, <1>2, <1>3, <1>4 DEF QueueFits
<1>6. \A i \in 1 .. Len(queue'[id]) : i + 1 \in 1 .. Len(queue[id]) /\ i + 1 # 1
  BY <1>1, <1>4
<1>7. \A i, j \in 1 .. Len(queue'[id]) : queue'[id][i] = queue'[id][j] => i = j
  <2> SUFFICES ASSUME NEW i \in 1 .. Len(queue'[id]), NEW j \in 1 .. Len(queue'[id]),
                      queue'[id][i] = queue'[id][j]
               PROVE  i = j
    OBVIOUS
  <2>1. i + 1 = j + 1
    BY <1>1, <1>4, <1>6 DEF QueueFits
  <2> QED BY <2>1, <1>1, <1>4
<1>8. \A d \in Calls : InQueue(d, id)' <=> InQueue(d, id) /\ d # c
  <2> TAKE d \in Calls
  <2>1. InQueue(d, id)' => InQueue(d, id) /\ d # c
    <3> SUFFICES ASSUME NEW i \in 1 .. Len(queue'[id]), queue'[id][i] = d
                 PROVE  InQueue(d, id) /\ d # c
      BY DEF InQueue
    <3>1. queue[id][i + 1] = d /\ i + 1 \in 1 .. Len(queue[id]) /\ i + 1 # 1
      BY <1>4, <1>6
    <3>2. 1 \in 1 .. Len(queue[id])
      BY <1>1
    <3> QED BY <1>1, <3>1, <3>2 DEF InQueue, QueueFits
  <2>2. ASSUME NEW i \in 1 .. Len(queue[id]), queue[id][i] = d, d # c
        PROVE  InQueue(d, id)'
    <3>0. i # 1 /\ i \in 1 .. Len(queue[id])
      BY <1>1, <2>2
    <3>1. PICK j \in 1 .. Len(queue'[id]) : j + 1 = i
      <4>1. i - 1 \in 1 .. Len(queue'[id]) /\ (i - 1) + 1 = i
        BY <1>1, <1>4, <3>0
      <4> QED BY <4>1
    <3>2. queue'[id][j] = d
      BY <1>4, <2>2, <3>1
    <3> QED BY <3>1, <3>2 DEF InQueue
  <2> QED BY <2>1, <2>2 DEF InQueue
<1> QED BY <1>3, <1>5, <1>7, <1>8

\* Only one call saves a conversation at a time.
LEMMA OneSaver ==
  ASSUME TypeOK, QueueFits, JobFits, CreatorAlone, NEW c \in Calls, NEW d \in Calls,
         stage[c] \in Saving, stage[d] \in Saving \/ Turn(d), job[c].id = job[d].id
  PROVE  c = d
<1>1. CASE job[c].kind = "create" \/ (job[d].kind = "create" /\ stage[d] \in Saving)
  BY <1>1 DEF CreatorAlone
<1>2. CASE job[c].kind # "create" /\ (job[d].kind # "create" \/ Turn(d))
  BY <1>2, Served
<1> QED BY <1>1, <1>2

\* When the program has started, nothing is queued and the screen shows the disk.
LEMMA InitInductive == Init => Inductive
<1> SUFFICES ASSUME Init PROVE Inductive
  OBVIOUS
<1>a. /\ listed = [id \in Ids |-> IF id \in Initial THEN Fresh ELSE Absent]
      /\ stored = listed /\ held = [c \in Calls |-> listed]
      /\ queue = [id \in Ids |-> <<>>] /\ stage = [c \in Calls |-> "idle"]
      /\ job = [c \in Calls |-> Idle]
      /\ overwritten = {} /\ failures = 0 /\ crashes = 0
  BY DEF Init
<1>1. \A id \in Ids : queue[id] = <<>> /\ Len(queue[id]) = 0 /\ queue[id] \in Seq(Calls)
  BY <1>a, EmptySeq
<1>2. \A c \in Calls : stage[c] = "idle" /\ job[c] = Idle
  BY <1>a
<1>3. TypeOK
  <2>1. listed \in Lists /\ stored \in Lists
    BY <1>a, Values DEF Lists
  <2>2. held \in [Calls -> Lists]
    BY <1>a, <2>1
  <2>3. /\ stage \in [Calls -> {"idle", "queued", "saving", "saved", "acked", "over"}]
        /\ job \in [Calls -> [kind : Kinds, id : Ids] \cup {Idle}]
    BY <1>a
  <2>4. \A id \in Ids, c \in Calls : ~InQueue(c, id)
    BY <1>1 DEF InQueue
  <2>5. failures \in 0 .. MaxFailures /\ crashes \in 0 .. MaxCrashes /\ overwritten \subseteq Ids
    BY <1>a, LimitsAssumption
  <2> QED BY <1>1, <1>2, <2>1, <2>2, <2>3, <2>4, <2>5 DEF TypeOK, Saving
<1>4. QueueFits /\ JobFits
  BY <1>a, <1>1, <1>2 DEF QueueFits, JobFits, Saving
<1>5. CreatorAlone /\ CreatorFits /\ SaveFits
  BY <1>2 DEF CreatorAlone, CreatorFits, SaveFits, Saving, Idle
<1>6. UnbornFits
  BY <1>a, <1>2 DEF UnbornFits, Unborn, Saving
<1>7. DiskFits /\ KeptFits
  BY <1>a, <1>2 DEF DiskFits, KeptFits, Keeps, Acked
<1> QED BY <1>3, <1>4, <1>5, <1>6, <1>7 DEF Inductive, Control, Content

-----------------------------------------------------------------------------
(* Control: stages, jobs and queues.                                       *)

\* What the data of a step must be for it to keep the types.
DataTyped ==
  /\ listed \in Lists /\ stored \in Lists /\ held \in [Calls -> Lists]
  /\ overwritten \subseteq Ids
  /\ failures \in 0 .. MaxFailures /\ crashes \in 0 .. MaxCrashes

\* Nobody joins the queue of a conversation that is being created.
LEMMA CreatedUnlisted ==
  ASSUME Inductive, NEW c \in Calls, stage[c] \in Saving, job[c].kind = "create"
  PROVE  listed[job[c].id] = Absent /\ Unborn(job[c].id)
<1>1. job[c].id \in Ids /\ job[c].id \notin Initial
  BY Jobs DEF Inductive, Control, CreatorFits, Saving
<1>2. Unborn(job[c].id)
  BY <1>1 DEF Inductive, Control, CreatorAlone, Unborn
<1> QED BY <1>1, <1>2 DEF Inductive, Content, UnbornFits

\* A new call finds its place in the queue.
LEMMA EnqueueControl ==
  ASSUME Inductive, NEW c \in Calls, NEW kind \in Kinds, NEW id \in Ids,
         Enqueue(c, kind, id)
  PROVE  Control'
<1> USE DEF Inductive, Control, Enqueue, To
<1>1. ~InQueue(c, id) /\ job[c] = Idle /\ stage[c] = "idle"
  BY DEF TypeOK, JobFits, Saving
<1>2. /\ job'[c] = [kind |-> kind, id |-> id] /\ stage'[c] = "queued"
      /\ \A d \in Calls \ {c} : job'[d] = job[d] /\ stage'[d] = stage[d]
  BY DEF TypeOK
<1>3. /\ job' \in [Calls -> [kind : Kinds, id : Ids] \cup {Idle}]
      /\ stage' \in [Calls -> {"idle", "queued", "saving", "saved", "acked", "over"}]
  BY DEF TypeOK
<1>4. \A x \in Ids \ {id} : \A d \in Calls : InQueue(d, x)' <=> InQueue(d, x)
  BY <1>1, Appended DEF InQueue
<1>5. TypeOK'
  <2>1. ASSUME NEW x \in Ids, NEW d \in Calls
        PROVE  InQueue(d, x)' <=> /\ stage'[d] \in Saving \cup {"queued"}
                                  /\ job'[d].id = x /\ job'[d].kind # "create"
    <3>1. CASE d = c
      <4>1. ~InQueue(c, x)
        BY <1>1 DEF TypeOK, Saving
      <4>2. InQueue(c, x)' <=> x = id
        BY <1>1, <1>4, <4>1, Appended
      <4> QED BY <3>1, <4>2, <1>2
    <3>2. CASE d # c
      <4>1. InQueue(d, id)' <=> InQueue(d, id)
        BY <3>2, <1>1, Appended
      <4>2. InQueue(d, x)' <=> InQueue(d, x)
        BY <1>4, <4>1
      <4> QED BY <3>2, <4>2, <1>2 DEF TypeOK
    <3> QED BY <3>1, <3>2
  <2>2. \A x \in Ids : queue'[x] \in Seq(Calls)
    BY <1>1, Appended
  <2> QED BY <1>3, <2>1, <2>2 DEF TypeOK
<1>6. QueueFits'
  <2>1. \A d \in Calls : stage'[d] \in Saving /\ job'[d].kind # "create" =>
          Head(queue'[job'[d].id]) = d
    <3> SUFFICES ASSUME NEW d \in Calls, stage'[d] \in Saving, job'[d].kind # "create"
                 PROVE  Head(queue'[job'[d].id]) = d
      OBVIOUS
    <3>1. d # c /\ stage[d] \in Saving /\ job[d].kind # "create" /\ job'[d] = job[d]
      BY <1>2 DEF Saving
    <3>2. job[d].id \in Ids /\ Len(queue[job[d].id]) > 0 /\ Head(queue[job[d].id]) = d
      BY <3>1, Served DEF QueueFits
    <3> QED BY <3>1, <3>2, <1>1, Appended
  <2>2. ASSUME NEW x \in Ids
        PROVE  \A i, j \in 1 .. Len(queue'[x]) : queue'[x][i] = queue'[x][j] => i = j
    <3>1. CASE x = id
      <4>1. \A i, j \in 1 .. Len(queue'[id]) : queue'[id][i] = queue'[id][j] => i = j
        BY <1>1, Appended
      <4> QED BY <3>1, <4>1
    <3>2. CASE x # id
      BY <3>2, <1>1, Appended DEF QueueFits
    <3> QED BY <3>1, <3>2
  <2> QED BY <1>1, <2>1, <2>2, Appended DEF QueueFits
<1>7. JobFits' /\ CreatorFits'
  BY <1>2, Values DEF JobFits, CreatorFits, Idle, Kinds
<1>8. CreatorAlone'
  <2>1. \A d \in Calls : stage[d] \in Saving /\ job[d].kind = "create" => job[d].id # id
    BY CreatedUnlisted
  <2> QED BY <1>2, <2>1 DEF CreatorAlone, Saving
<1> QED BY <1>5, <1>6, <1>7, <1>8

\* A creation takes a name nobody uses, and waits in no queue.
LEMMA CreateControl ==
  ASSUME Inductive, NEW c \in Calls, NEW id \in Ids, Create(c, id)
  PROVE  Control'
<1> USE DEF Inductive, Control, Create, To
<1>1. job[c] = Idle /\ stage[c] = "idle"
  BY DEF JobFits
<1>2. /\ job'[c] = [kind |-> "create", id |-> id] /\ stage'[c] = "saving"
      /\ \A d \in Calls \ {c} : job'[d] = job[d] /\ stage'[d] = stage[d]
  BY DEF TypeOK
<1>3. /\ job' \in [Calls -> [kind : Kinds, id : Ids] \cup {Idle}]
      /\ stage' \in [Calls -> {"idle", "queued", "saving", "saved", "acked", "over"}]
  BY DEF TypeOK, Kinds
<1>4. held' \in [Calls -> Lists]
  BY <1>2, Values DEF Hold, TypeOK, Lists
<1>5. \A x \in Ids, d \in Calls : InQueue(d, x)' <=> InQueue(d, x)
  BY DEF InQueue
<1>6. TypeOK'
  <2>1. ASSUME NEW x \in Ids, NEW d \in Calls
        PROVE  InQueue(d, x)' <=> /\ stage'[d] \in Saving \cup {"queued"}
                                  /\ job'[d].id = x /\ job'[d].kind # "create"
    BY <1>1, <1>2, <1>5 DEF TypeOK, Saving
  <2> QED BY <1>3, <1>4, <2>1 DEF TypeOK
<1>7. QueueFits' /\ JobFits' /\ CreatorFits'
  BY <1>1, <1>2 DEF QueueFits, JobFits, CreatorFits, Idle, Saving
<1>8. CreatorAlone'
  BY <1>1, <1>2 DEF CreatorAlone
<1> QED BY <1>6, <1>7, <1>8

\* A call that goes on, in its turn or with its save.
LEMMA StayControl ==
  ASSUME Inductive, NEW c \in Calls, NEW s \in Saving, To(c, s), UNCHANGED <<job, queue>>,
         DataTyped', Turn(c) \/ stage[c] \in Saving
  PROVE  Control'
<1> USE DEF Inductive, Control, To
<1>1. /\ stage'[c] = s /\ \A d \in Calls \ {c} : stage'[d] = stage[d]
      /\ stage' \in [Calls -> {"idle", "queued", "saving", "saved", "acked", "over"}]
  BY DEF TypeOK, Saving
<1>2. /\ stage[c] \in Saving \cup {"queued"} /\ job[c].id \in Ids
      /\ job[c].kind # "create" => Head(queue[job[c].id]) = c
      /\ job[c].kind = "create" => stage[c] \in Saving
  BY Jobs DEF Turn, Saving, QueueFits, JobFits
<1>3. \A x \in Ids, d \in Calls : InQueue(d, x)' <=> InQueue(d, x)
  BY DEF InQueue
<1>4. TypeOK'
  <2>1. ASSUME NEW x \in Ids, NEW d \in Calls
        PROVE  InQueue(d, x)' <=> /\ stage'[d] \in Saving \cup {"queued"}
                                  /\ job'[d].id = x /\ job'[d].kind # "create"
    BY <1>1, <1>2, <1>3 DEF TypeOK
  <2> QED BY <1>1, <2>1 DEF TypeOK, DataTyped
<1>5. QueueFits' /\ JobFits' /\ CreatorFits'
  BY <1>1, <1>2 DEF QueueFits, JobFits, CreatorFits, Saving
<1>6. CreatorAlone'
  BY <1>1, <1>2 DEF CreatorAlone
<1> QED BY <1>4, <1>5, <1>6

\* A call that leaves, and the queue with it when it was in one.
LEMMA LeaveControl ==
  ASSUME Inductive, NEW c \in Calls, NEW s \in {"acked", "over"}, To(c, s), UNCHANGED job,
         DataTyped', Turn(c) \/ stage[c] \in Saving,
         IF job[c].kind = "create" THEN UNCHANGED queue ELSE Leave(c)
  PROVE  Control'
<1> USE DEF Inductive, Control, To
<1>1. /\ stage'[c] = s /\ \A d \in Calls \ {c} : stage'[d] = stage[d]
      /\ stage' \in [Calls -> {"idle", "queued", "saving", "saved", "acked", "over"}]
  BY DEF TypeOK
<1>2. stage[c] \in Saving \cup {"queued"} /\ job[c].id \in Ids
  BY Jobs DEF Turn, Saving
<1>3. JobFits' /\ CreatorFits' /\ CreatorAlone'
  BY <1>1, <1>2 DEF JobFits, CreatorFits, CreatorAlone, Saving
<1>4. CASE job[c].kind = "create"
  <2>1. \A x \in Ids, d \in Calls : InQueue(d, x)' <=> InQueue(d, x)
    BY <1>4 DEF InQueue
  <2>2. ASSUME NEW x \in Ids, NEW d \in Calls
        PROVE  InQueue(d, x)' <=> /\ stage'[d] \in Saving \cup {"queued"}
                                  /\ job'[d].id = x /\ job'[d].kind # "create"
    BY <1>1, <1>4, <2>1 DEF TypeOK
  <2>3. TypeOK'
    BY <1>1, <1>4, <2>2 DEF TypeOK, DataTyped
  <2>4. QueueFits'
    BY <1>1, <1>4 DEF QueueFits, Saving
  <2> QED BY <1>3, <2>3, <2>4
<1>5. CASE job[c].kind # "create"
  <2> DEFINE y == job[c].id
  <2>1. Len(queue[job[c].id]) > 0 /\ queue[job[c].id][1] = c /\ Leave(c)
    BY <1>5, Served
  <2>2. PICK id \in Ids : id = job[c].id
    BY <1>2
  <2>3. /\ queue' \in [Ids -> Seq(Calls)]
        /\ \A i, j \in 1 .. Len(queue'[id]) : queue'[id][i] = queue'[id][j] => i = j
        /\ \A x \in Ids \ {id} : queue'[x] = queue[x]
        /\ \A d \in Calls : InQueue(d, id)' <=> InQueue(d, id) /\ d # c
    BY <2>1, <2>2, Left
  <2>4. \A x \in Ids \ {id} : \A d \in Calls : InQueue(d, x)' <=> InQueue(d, x)
    BY <2>3 DEF InQueue
  <2>5. ASSUME NEW x \in Ids, NEW d \in Calls
        PROVE  InQueue(d, x)' <=> /\ stage'[d] \in Saving \cup {"queued"}
                                  /\ job'[d].id = x /\ job'[d].kind # "create"
    <3>1. CASE x = id
      <4>1. InQueue(d, id)' <=> InQueue(d, id) /\ d # c
        BY <2>3
      <4>2. s \notin Saving \cup {"queued"}
        BY DEF Saving
      <4> QED BY <3>1, <4>1, <4>2, <1>1 DEF TypeOK
    <3>2. CASE x # id
      BY <3>2, <2>2, <2>4, <1>1 DEF TypeOK
    <3> QED BY <3>1, <3>2
  <2>6. TypeOK'
    BY <1>1, <2>3, <2>5 DEF TypeOK, DataTyped
  <2>7. QueueFits'
    <3>1. ASSUME NEW d \in Calls, stage'[d] \in Saving, job'[d].kind # "create"
          PROVE  Head(queue'[job'[d].id]) = d
      <4>1. d # c /\ stage[d] \in Saving /\ job[d].kind # "create"
        BY <3>1, <1>1 DEF Saving
      <4>2. job[d].id \in Ids /\ queue[job[d].id][1] = d /\ Head(queue[job[d].id]) = d
        BY <4>1, Served DEF QueueFits
      <4>3. job[d].id # id
        BY <4>1, <4>2, <2>1, <2>2
      <4> QED BY <4>2, <4>3, <2>3
    <3>2. ASSUME NEW x \in Ids
          PROVE  \A i, j \in 1 .. Len(queue'[x]) : queue'[x][i] = queue'[x][j] => i = j
      <4>1. CASE x = id
        BY <4>1, <2>3
      <4>2. CASE x # id
        BY <4>2, <2>3 DEF QueueFits
      <4> QED BY <4>1, <4>2
    <3> QED BY <2>3, <3>1, <3>2 DEF QueueFits
  <2> QED BY <1>3, <2>6, <2>7
<1> QED BY <1>4, <1>5

\* A restart loses every call and every queue.
LEMMA RestartControl ==
  ASSUME Inductive, Restart
  PROVE  Control'
<1> USE DEF Inductive, Control, Restart
<1>1. \A c \in Calls : /\ stage'[c] \in {"idle", "acked", "over"}
                       /\ stage'[c] = "idle" <=> stage[c] = "idle"
                       /\ stage'[c] = "acked" <=> stage[c] = "acked"
  OBVIOUS
<1>2. stage' \in [Calls -> {"idle", "queued", "saving", "saved", "acked", "over"}]
  OBVIOUS
<1>3. \A x \in Ids : queue'[x] = <<>> /\ queue'[x] \in Seq(Calls) /\ Len(queue'[x]) = 0
  BY EmptySeq
<1>4. \A x \in Ids, d \in Calls : ~InQueue(d, x)'
  BY <1>3 DEF InQueue
<1>5. crashes' \in 0 .. MaxCrashes
  BY LimitsAssumption DEF TypeOK
<1>6. TypeOK'
  BY <1>1, <1>2, <1>3, <1>4, <1>5 DEF TypeOK, Saving
<1>7. queue' \in [Ids -> Seq(Calls)]
  BY <1>3
<1>8. QueueFits'
  BY <1>1, <1>3, <1>7 DEF QueueFits, Saving
<1>9. JobFits' /\ CreatorFits' /\ CreatorAlone'
  BY <1>1 DEF JobFits, CreatorFits, CreatorAlone, Saving
<1> QED BY <1>6, <1>8, <1>9

-----------------------------------------------------------------------------
(* Content: what the list, the disk and the savers hold.                   *)

\* What the callers were told stays true of a conversation when a change is made.
LEMMA KeepsChange ==
  ASSUME NEW c \in Calls, NEW id \in Ids, NEW conversation \in Conversations,
         job[c].kind \in {"edit", "rename", "claim", "complete"},
         Applies(job[c].kind, conversation), Keeps(id, conversation)
  PROVE  Keeps(id, Changed(c, conversation))
<1>1. conversation # Absent
  BY Values
<1>2. ASSUME NEW d \in Calls, Acked(d, "edit", id)
      PROVE  d \in Changed(c, conversation).edits
  BY <1>1, <1>2, ChangeMade DEF Keeps
<1>3. ASSUME NEW d \in Calls, Acked(d, "rename", id)
      PROVE  Changed(c, conversation).title = "manual"
  <2>1. conversation.title = "manual"
    BY <1>1, <1>3 DEF Keeps
  <2>2. job[c].kind \in {"edit", "rename"}
    BY <2>1 DEF Applies
  <2> QED BY <2>1, <2>2, ChangeMade
<1> QED BY <1>2, <1>3 DEF Keeps

\* A saver of a conversation that is not to be created or deleted changes it.
LEMMA Carried ==
  ASSUME Inductive, NEW c \in Calls, stage[c] \in Saving, NEW id \in Untouched,
         id = job[c].id
  PROVE  /\ id \in Ids /\ job[c].kind \in Kinds
         /\ job[c].kind = "create" => held[c][id] = Fresh
         /\ job[c].kind = "delete" => held[c][id] = Absent
         /\ job[c].kind \notin {"create", "delete"} =>
              /\ job[c].kind \in {"edit", "rename", "claim", "complete"}
              /\ listed[id] \in Conversations /\ listed[id] # Absent
              /\ Applies(job[c].kind, listed[id])
              /\ held[c][id] = Changed(c, listed[id])
<1> USE DEF Inductive, Control, Content
<1>1. job[c].id \in Ids /\ job[c].kind \in Kinds
  BY Jobs DEF Saving
<1>2. Carries(c, job[c].id)
  BY DEF SaveFits
<1>3. listed[id] \in Conversations \cup {Absent}
  BY <1>1 DEF TypeOK, Lists
<1> QED BY <1>1, <1>2, <1>3 DEF Carries, Kinds

\* A call that only waits changes neither the screen nor the disk.
LEMMA EnqueueContent ==
  ASSUME Inductive, NEW c \in Calls, NEW kind \in Kinds, NEW id \in Ids,
         Enqueue(c, kind, id)
  PROVE  Content'
<1> USE DEF Inductive, Control, Content, Enqueue, To
<1>1. /\ job'[c] = [kind |-> kind, id |-> id] /\ stage'[c] = "queued" /\ stage[c] = "idle"
      /\ \A d \in Calls \ {c} : job'[d] = job[d] /\ stage'[d] = stage[d]
  BY DEF TypeOK
<1>2. \A d \in Calls : stage'[d] \in Saving =>
        stage[d] \in Saving /\ job'[d] = job[d] /\ stage'[d] = stage[d]
  BY <1>1 DEF Saving
<1>3. \A d \in Calls : stage[d] \in Saving =>
        stage'[d] \in Saving /\ job'[d] = job[d] /\ stage'[d] = stage[d]
  BY <1>1 DEF Saving
<1>4. ASSUME NEW x \in Ids, Unborn(x)'
      PROVE  Unborn(x) /\ x # id
  BY <1>1, <1>4 DEF Unborn, Saving
<1>5. UnbornFits'
  <2> SUFFICES ASSUME NEW x \in Ids, Unborn(x)'
               PROVE  /\ listed[x] = Absent
                      /\ \A d \in Calls : stage'[d] \in Saving /\ job'[d].id # x =>
                                            held[d][x] = Absent
                      /\ (\A d \in Calls : job'[d].id = x => stage'[d] # "saved") =>
                           stored[x] = Absent
    BY DEF UnbornFits
  <2>1. Unborn(x) /\ x # id
    BY <1>4
  <2>2. (\A d \in Calls : job'[d].id = x => stage'[d] # "saved") =>
          \A d \in Calls : job[d].id = x => stage[d] # "saved"
    BY <1>1
  <2> QED BY <1>2, <2>1, <2>2 DEF UnbornFits
<1>6. SaveFits'
  <2> SUFFICES ASSUME NEW d \in Calls, stage'[d] \in Saving, job'[d].id \in Untouched
               PROVE  Carries(d, job[d].id)'
    BY DEF SaveFits, Untouched
  <2>1. job'[d] = job[d] /\ job[d].kind \in Kinds /\ Carries(d, job[d].id)
    BY <1>2, Jobs DEF SaveFits, Saving
  <2> QED BY <2>1 DEF Carries, Applies, Changed, Kinds
<1>7. DiskFits'
  BY <1>1, <1>2, <1>3 DEF DiskFits, Untouched, Saving
<1>8. \A d \in Calls, k \in {"edit", "rename"}, x \in Ids : Acked(d, k, x)' => Acked(d, k, x)
  BY <1>1 DEF Acked
<1>9. KeptFits'
  BY <1>8 DEF KeptFits, Keeps, Untouched
<1> QED BY <1>5, <1>6, <1>7, <1>9

\* A creation holds the whole list it has read, and its own conversation.
LEMMA CreateContent ==
  ASSUME Inductive, NEW c \in Calls, NEW id \in Ids, Create(c, id)
  PROVE  Content'
<1> USE DEF Inductive, Control, Content, Create, To
<1>1. /\ job'[c] = [kind |-> "create", id |-> id] /\ stage'[c] = "saving" /\ stage[c] = "idle"
      /\ \A d \in Calls \ {c} : /\ job'[d] = job[d] /\ stage'[d] = stage[d]
                                /\ held'[d] = held[d]
      /\ \A d \in Calls : job[d].id # id
  BY DEF TypeOK, Hold
<1>2. held'[c][id] = Fresh /\ \A x \in Ids \ {id} : held'[c][x] = listed[x]
  BY <1>1 DEF TypeOK, Hold, Lists
<1>3. Unborn(id)
  BY <1>1 DEF Unborn
<1>4. ASSUME NEW x \in Ids, Unborn(x)'
      PROVE  Unborn(x)
  BY <1>1, <1>3, <1>4 DEF Unborn, Saving
<1>5. UnbornFits'
  <2> SUFFICES ASSUME NEW x \in Ids, Unborn(x)'
               PROVE  /\ listed[x] = Absent
                      /\ \A d \in Calls : stage'[d] \in Saving /\ job'[d].id # x =>
                                            held'[d][x] = Absent
                      /\ (\A d \in Calls : job'[d].id = x => stage'[d] # "saved") =>
                           stored[x] = Absent
    BY DEF UnbornFits
  <2>1. Unborn(x) /\ listed[x] = Absent
    BY <1>4 DEF UnbornFits
  <2>2. (\A d \in Calls : job'[d].id = x => stage'[d] # "saved") =>
          \A d \in Calls : job[d].id = x => stage[d] # "saved"
    BY <1>1
  <2> QED BY <1>1, <1>2, <2>1, <2>2 DEF UnbornFits
<1>6. SaveFits'
  <2> SUFFICES ASSUME NEW d \in Calls, stage'[d] \in Saving, job'[d].id \in Untouched
               PROVE  Carries(d, job[d].id)'
    BY DEF SaveFits, Untouched
  <2>1. CASE d = c
    BY <2>1, <1>1, <1>2 DEF Carries
  <2>2. CASE d # c
    <3>1. /\ job'[d] = job[d] /\ held'[d] = held[d]
          /\ job[d].kind \in Kinds /\ Carries(d, job[d].id)
      BY <2>2, <1>1, Jobs DEF SaveFits, Saving
    <3> QED BY <3>1 DEF Carries, Applies, Changed, Kinds
  <2> QED BY <2>1, <2>2
<1>7. DiskFits'
  BY <1>1 DEF DiskFits, Untouched
<1>8. \A d \in Calls, k \in {"edit", "rename"}, x \in Ids : Acked(d, k, x)' => Acked(d, k, x)
  BY <1>1 DEF Acked
<1>9. KeptFits'
  BY <1>8 DEF KeptFits, Keeps, Untouched
<1> QED BY <1>5, <1>6, <1>7, <1>9

\* A call that reads the conversation in its turn and goes on to save it.
LEMMA StartContent ==
  ASSUME Inductive, NEW c \in Calls, Start(c), To(c, "saving")
  PROVE  Content' /\ held' \in [Calls -> Lists]
<1> USE DEF Inductive, Control, Content, Start
<1>0. PICK id \in Ids : id = job[c].id
  BY Served
<1>1. /\ stage[c] = "queued" /\ stage'[c] = "saving" /\ job[c].kind # "create"
      /\ \A d \in Calls \ {c} : stage'[d] = stage[d]
      /\ job' = job /\ job[c].kind \in Kinds
  BY Jobs, Served DEF Turn, To, TypeOK
<1>2. /\ \A d \in Calls \ {c} : held'[d] = held[d]
      /\ \A x \in Ids \ {id} : held'[c][x] = listed[x]
      /\ job[c].kind = "delete" => held'[c][id] = Absent
      /\ job[c].kind # "delete" =>
           /\ listed[id] # Absent /\ Applies(job[c].kind, listed[id])
           /\ held'[c][id] = Changed(c, listed[id])
  <2>1. listed \in [Ids -> Conversations \cup {Absent}] /\ held \in [Calls -> Lists]
    BY DEF TypeOK, Lists
  <2>2. CASE job[c].kind = "delete"
    <3>1. held' = [held EXCEPT ![c] = [listed EXCEPT ![id] = Absent]]
      BY <1>0, <1>1, <2>2 DEF Hold
    <3> QED BY <2>1, <2>2, <3>1
  <2>3. CASE job[c].kind # "delete"
    <3>1. /\ held' = [held EXCEPT ![c] = [listed EXCEPT ![id] = Changed(c, listed[id])]]
          /\ listed[id] # Absent /\ Applies(job[c].kind, listed[id])
      BY <1>0, <1>1, <2>3 DEF Hold, To
    <3> QED BY <2>1, <2>3, <3>1
  <2> QED BY <2>2, <2>3
<1>a. held' \in [Calls -> Lists]
  <2>1. held'[c][id] \in Conversations \cup {Absent}
    <3>1. CASE job[c].kind = "delete"
      BY <3>1, <1>2
    <3>2. CASE job[c].kind # "delete"
      <4>1. listed[id] \in Conversations
        BY <3>2, <1>2 DEF TypeOK, Lists
      <4>2. job[c].kind \in {"edit", "rename", "claim", "complete"}
        BY <3>2, <1>1 DEF Kinds
      <4> QED BY <3>2, <4>1, <4>2, <1>2, ChangeMade
    <3> QED BY <3>1, <3>2
  <2>2. \A v : Hold(c, v) => held' = [held EXCEPT ![c] = [listed EXCEPT ![id] = v]]
    BY <1>0, <1>1 DEF Hold
  <2>3. PICK v : Hold(c, v)
    BY <1>1 DEF To
  <2>4. held' = [held EXCEPT ![c] = [listed EXCEPT ![id] = v]] /\ held'[c][id] = v
    BY <2>2, <2>3 DEF TypeOK, Lists
  <2> QED BY <2>1, <2>4 DEF TypeOK, Lists
<1>3. ASSUME NEW x \in Ids, Unborn(x)'
      PROVE  Unborn(x) /\ x # id
  BY <1>0, <1>1, <1>3 DEF Unborn, Saving
<1>4. UnbornFits'
  <2> SUFFICES ASSUME NEW x \in Ids, Unborn(x)'
               PROVE  /\ listed[x] = Absent
                      /\ \A d \in Calls : stage'[d] \in Saving /\ job[d].id # x =>
                                            held'[d][x] = Absent
                      /\ (\A d \in Calls : job[d].id = x => stage'[d] # "saved") =>
                           stored[x] = Absent
    BY <1>1 DEF UnbornFits
  <2>1. Unborn(x) /\ x # id /\ listed[x] = Absent
    BY <1>3 DEF UnbornFits
  <2>2. (\A d \in Calls : job[d].id = x => stage'[d] # "saved") =>
          \A d \in Calls : job[d].id = x => stage[d] # "saved"
    BY <1>1
  <2> QED BY <1>1, <1>2, <2>1, <2>2 DEF UnbornFits
<1>5. SaveFits'
  <2> SUFFICES ASSUME NEW d \in Calls, stage'[d] \in Saving, job[d].id \in Untouched
               PROVE  Carries(d, job[d].id)'
    BY <1>1 DEF SaveFits, Untouched
  <2>1. CASE d = c
    BY <2>1, <1>0, <1>1, <1>2 DEF Carries, Applies, Changed
  <2>2. CASE d # c
    BY <2>2, <1>1, <1>2 DEF SaveFits, Carries, Applies, Changed
  <2> QED BY <2>1, <2>2
<1>6. DiskFits'
  BY <1>1, <1>2 DEF DiskFits, Untouched
<1>7. \A d \in Calls, k \in {"edit", "rename"}, x \in Ids : Acked(d, k, x)' => Acked(d, k, x)
  BY <1>1 DEF Acked
<1>8. KeptFits'
  BY <1>7 DEF KeptFits, Keeps, Untouched
<1> QED BY <1>4, <1>5, <1>6, <1>8, <1>a

\* A call that ends without having saved changes nothing.
LEMMA OverContent ==
  ASSUME Inductive, NEW c \in Calls, To(c, "over"), stage[c] \in {"queued", "saving"},
         UNCHANGED <<listed, stored, job, held, overwritten>>
  PROVE  Content'
<1> USE DEF Inductive, Control, Content
<1>1. stage'[c] = "over" /\ \A d \in Calls \ {c} : stage'[d] = stage[d]
  BY DEF To, TypeOK
<1>2. \A x : Unborn(x)' => Unborn(x)
  BY <1>1 DEF Unborn, Saving
<1>3. UnbornFits'
  BY <1>1, <1>2 DEF UnbornFits, Saving
<1>4. SaveFits'
  BY <1>1 DEF SaveFits, Carries, Untouched, Applies, Changed, Saving
<1>5. DiskFits'
  BY <1>1 DEF DiskFits, Untouched
<1>6. \A d \in Calls, k \in {"edit", "rename"}, x \in Ids : Acked(d, k, x)' => Acked(d, k, x)
  BY <1>1 DEF Acked
<1>7. KeptFits'
  BY <1>6 DEF KeptFits, Keeps, Untouched
<1> QED BY <1>3, <1>4, <1>5, <1>7

\* A save brings the disk up to what the saver carries.
LEMMA WriteContent ==
  ASSUME Inductive, NEW c \in Calls, Write(c)
  PROVE  Content' /\ stored' \in Lists
<1> USE DEF Inductive, Control, Content, Write, To
<1>0. PICK id \in Ids : id = job[c].id
  BY Jobs
<1>1. /\ stage[c] = "saving" /\ stage'[c] = "saved"
      /\ \A d \in Calls \ {c} : stage'[d] = stage[d]
      /\ \A d \in Calls : stage'[d] \in Saving <=> stage[d] \in Saving
  BY DEF TypeOK, Saving
<1>2. stored'[id] = held[c][id] /\ \A x \in Ids \ {id} : stored'[x] = stored[x]
  BY <1>0 DEF TypeOK, Lists
<1>3. stored' \in Lists
  BY <1>0 DEF TypeOK, Lists
<1>4. \A x : Unborn(x)' => Unborn(x)
  BY <1>1 DEF Unborn
<1>5. UnbornFits'
  <2> SUFFICES ASSUME NEW x \in Ids, Unborn(x)'
               PROVE  /\ listed[x] = Absent
                      /\ \A d \in Calls : stage'[d] \in Saving /\ job[d].id # x =>
                                            held[d][x] = Absent
                      /\ (\A d \in Calls : job[d].id = x => stage'[d] # "saved") =>
                           stored'[x] = Absent
    BY DEF UnbornFits
  <2>1. Unborn(x)
    BY <1>4
  <2>2. ASSUME \A d \in Calls : job[d].id = x => stage'[d] # "saved"
        PROVE  stored'[x] = Absent
    <3>1. x # id
      BY <2>2, <1>0, <1>1
    <3>2. \A d \in Calls : job[d].id = x => stage[d] # "saved"
      BY <2>2, <1>1
    <3> QED BY <2>1, <3>1, <3>2, <1>2 DEF UnbornFits
  <2> QED BY <1>1, <2>1, <2>2 DEF UnbornFits
<1>6. SaveFits'
  BY <1>1 DEF SaveFits, Carries, Untouched, Applies, Changed
<1>7. DiskFits'
  <2> SUFFICES ASSUME NEW x \in Untouched
               PROVE  /\ \A d \in Calls : stage'[d] = "saved" /\ job[d].id = x =>
                                            stored'[x] = held[d][x]
                      /\ \/ listed[x] = stored'[x]
                         \/ \E d \in Calls : stage'[d] = "saved" /\ job[d].id = x
    BY DEF DiskFits, Untouched
  <2>1. CASE x = id
    <3>1. \A d \in Calls : stage'[d] = "saved" /\ job[d].id = id => d = c
      BY <1>0, <1>1, OneSaver DEF Saving
    <3> QED BY <2>1, <3>1, <1>0, <1>1, <1>2
  <2>2. CASE x # id
    <3>1. x \in Ids
      BY DEF Untouched
    <3> QED BY <2>2, <3>1, <1>0, <1>1, <1>2 DEF DiskFits
  <2> QED BY <2>1, <2>2
<1>8. \A d \in Calls, k \in {"edit", "rename"}, x \in Ids : Acked(d, k, x)' => Acked(d, k, x)
  BY <1>1 DEF Acked
<1>9. KeptFits'
  <2>1. ASSUME NEW x \in Untouched, x # id
        PROVE  Keeps(x, listed[x]) /\ Keeps(x, stored'[x])
    BY <2>1, <1>2 DEF KeptFits, Untouched
  <2>2. ASSUME id \in Untouched
        PROVE  Keeps(id, listed[id]) /\ Keeps(id, stored'[id])
    <3>1. Keeps(id, listed[id])
      BY <2>2 DEF KeptFits
    <3>2. CASE job[c].kind = "create"
      <4>1. \A d \in Calls, k \in {"edit", "rename"} : ~Acked(d, k, id)
        BY <3>2, <1>0, <1>1 DEF CreatorAlone, Acked, Saving
      <4> QED BY <4>1, <3>1 DEF Keeps
    <3>3. CASE job[c].kind = "delete"
      BY <3>1, <3>3, <2>2, <1>0, <1>1, <1>2, Carried DEF Keeps, Saving
    <3>4. CASE job[c].kind \notin {"create", "delete"}
      <4>1. /\ job[c].kind \in {"edit", "rename", "claim", "complete"}
            /\ listed[id] \in Conversations /\ Applies(job[c].kind, listed[id])
            /\ held[c][id] = Changed(c, listed[id])
        BY <3>4, <2>2, <1>0, <1>1, Carried DEF Saving
      <4>2. Keeps(id, Changed(c, listed[id]))
        BY <4>1, <3>1, KeepsChange
      <4> QED BY <3>1, <4>1, <4>2, <1>2
    <3> QED BY <3>2, <3>3, <3>4
  <2>3. ASSUME NEW x \in Untouched, NEW conversation, Keeps(x, conversation)
        PROVE  conversation # Absent =>
                 \A d \in Calls : /\ Acked(d, "edit", x)' => d \in conversation.edits
                                  /\ Acked(d, "rename", x)' => conversation.title = "manual"
    BY <2>3, <1>8 DEF Keeps, Untouched
  <2> QED BY <2>1, <2>2, <2>3 DEF KeptFits, Keeps, Untouched
<1> QED BY <1>3, <1>5, <1>6, <1>7, <1>9

\* Publishing one conversation brings the screen up to the disk.
LEMMA PublishChangeContent ==
  ASSUME Inductive, NEW c \in Calls, PublishChange(c)
  PROVE  Content' /\ listed' \in Lists
<1> USE DEF Inductive, Control, Content, PublishChange
<1>0. PICK id \in Ids : id = job[c].id
  BY Jobs
<1>1. /\ stage[c] = "saved" /\ stage[c] \in Saving /\ stage'[c] = "acked"
      /\ \A d \in Calls \ {c} : stage'[d] = stage[d]
      /\ job[c].kind \notin {"create", "delete"}
  BY DEF TypeOK, Saving, To
<1>2. /\ \A x \in Ids \ {id} : listed'[x] = listed[x]
      /\ listed'[id] = IF listed[id] = Absent THEN Absent ELSE held[c][id]
      /\ listed' \in Lists
  BY <1>0 DEF TypeOK, Lists
<1>3. ASSUME NEW d \in Calls, stage'[d] \in Saving
      PROVE  d # c /\ stage[d] = stage'[d] /\ job[d].id # id
  BY <1>0, <1>1, <1>3, OneSaver DEF Saving
<1>4. ASSUME id \in Untouched
      PROVE  listed'[id] = stored[id]
  BY <1>4, <1>0, <1>1, <1>2, Carried DEF DiskFits
<1>5. ASSUME NEW x \in Ids, Unborn(x)'
      PROVE  Unborn(x) /\ x # id
  BY <1>0, <1>1, <1>5 DEF Unborn, Saving
<1>6. UnbornFits'
  <2> SUFFICES ASSUME NEW x \in Ids, Unborn(x)'
               PROVE  /\ listed'[x] = Absent
                      /\ \A d \in Calls : stage'[d] \in Saving /\ job[d].id # x =>
                                            held[d][x] = Absent
                      /\ (\A d \in Calls : job[d].id = x => stage'[d] # "saved") =>
                           stored[x] = Absent
    BY DEF UnbornFits
  <2>1. Unborn(x) /\ x # id
    BY <1>5
  <2>2. (\A d \in Calls : job[d].id = x => stage'[d] # "saved") =>
          \A d \in Calls : job[d].id = x => stage[d] # "saved"
    BY <1>0, <1>1, <2>1
  <2> QED BY <1>2, <1>3, <2>1, <2>2 DEF UnbornFits
<1>7. SaveFits'
  <2> SUFFICES ASSUME NEW d \in Calls, stage'[d] \in Saving, job[d].id \in Untouched
               PROVE  Carries(d, job[d].id)'
    BY DEF SaveFits, Untouched
  <2>1. stage[d] \in Saving /\ job[d].id \in Ids \ {id} /\ Carries(d, job[d].id)
    BY <1>3 DEF SaveFits, Untouched
  <2> QED BY <2>1, <1>2 DEF Carries, Applies, Changed
<1>8. DiskFits'
  <2> SUFFICES ASSUME NEW x \in Untouched
               PROVE  /\ \A d \in Calls : stage'[d] = "saved" /\ job[d].id = x =>
                                            stored[x] = held[d][x]
                      /\ \/ listed'[x] = stored[x]
                         \/ \E d \in Calls : stage'[d] = "saved" /\ job[d].id = x
    BY DEF DiskFits, Untouched
  <2>1. \A d \in Calls : stage'[d] = "saved" /\ job[d].id = x => stored[x] = held[d][x]
    BY <1>3 DEF DiskFits, Saving
  <2>2. CASE x = id
    BY <2>1, <2>2, <1>4
  <2>3. CASE x # id
    <3>1. listed[x] = stored[x] \/ \E d \in Calls : stage[d] = "saved" /\ job[d].id = x
      BY DEF DiskFits
    <3>2. listed'[x] = listed[x]
      BY <2>3, <1>2 DEF Untouched
    <3>3. (\E d \in Calls : stage[d] = "saved" /\ job[d].id = x) =>
            \E d \in Calls : stage'[d] = "saved" /\ job[d].id = x
      BY <2>3, <1>0, <1>1
    <3> QED BY <2>1, <3>1, <3>2, <3>3
  <2> QED BY <2>2, <2>3
<1>9. KeptFits'
  <2>1. ASSUME NEW x \in Untouched, x # id
        PROVE  Keeps(x, listed[x])' /\ Keeps(x, stored[x])'
    <3>1. Keeps(x, listed[x]) /\ Keeps(x, stored[x]) /\ listed'[x] = listed[x]
      BY <2>1, <1>2 DEF KeptFits, Untouched
    <3>2. ASSUME NEW d \in Calls, NEW k \in {"edit", "rename"}, Acked(d, k, x)'
          PROVE  Acked(d, k, x)
      <4>1. job[d].id = x /\ d # c
        BY <2>1, <3>2, <1>0 DEF Acked
      <4> QED BY <3>2, <4>1, <1>1 DEF Acked
    <3> QED BY <3>1, <3>2 DEF Keeps
  <2>2. ASSUME id \in Untouched
        PROVE  Keeps(id, listed[id])' /\ Keeps(id, stored[id])'
    <3>1. /\ stored[id] = Changed(c, listed[id]) /\ listed[id] \in Conversations
          /\ job[c].kind \in {"edit", "rename", "claim", "complete"}
      BY <2>2, <1>0, <1>1, Carried DEF DiskFits
    <3>2. Keeps(id, stored[id])
      BY <2>2 DEF KeptFits
    <3>3. \A d \in Calls \ {c}, k \in {"edit", "rename"} : Acked(d, k, id)' => Acked(d, k, id)
      BY <1>1 DEF Acked
    <3>4. \A k \in {"edit", "rename"} : Acked(c, k, id)' => job[c].kind = k
      BY DEF Acked
    <3>5. /\ job[c].kind = "edit" => c \in stored[id].edits
          /\ job[c].kind = "rename" => stored[id].title = "manual"
      BY <3>1, ChangeMade
    <3>6. ASSUME NEW d \in Calls, NEW k \in {"edit", "rename"}, Acked(d, k, id)', stored[id] # Absent
          PROVE  /\ k = "edit" => d \in stored[id].edits
                 /\ k = "rename" => stored[id].title = "manual"
      <4>1. CASE d = c
        BY <4>1, <3>4, <3>5, <3>6
      <4>2. CASE d # c
        <5>1. Acked(d, k, id)
          BY <4>2, <3>3, <3>6
        <5> QED BY <5>1, <3>2, <3>6 DEF Keeps
      <4> QED BY <4>1, <4>2
    <3> QED BY <3>6, <2>2, <1>4 DEF Keeps
  <2> QED BY <2>1, <2>2 DEF KeptFits, Untouched
<1> QED BY <1>2, <1>6, <1>7, <1>8, <1>9

\* Publishing a whole list does so for every conversation it does not overwrite.
LEMMA PublishListContent ==
  ASSUME Inductive, NEW c \in Calls, PublishList(c)
  PROVE  Content' /\ listed' \in Lists /\ overwritten' \subseteq Ids
<1> USE DEF Inductive, Control, Content, PublishList
<1>0. PICK id \in Ids : id = job[c].id
  BY Jobs
<1>1. /\ stage[c] = "saved" /\ stage[c] \in Saving /\ stage'[c] = "acked"
      /\ \A d \in Calls \ {c} : stage'[d] = stage[d]
      /\ job[c].kind \in {"create", "delete"}
  BY DEF TypeOK, Saving, To
<1>2. listed' = held[c] /\ listed' \in Lists /\ overwritten' \subseteq Ids
  BY DEF TypeOK
<1>3. ASSUME NEW d \in Calls, stage'[d] \in Saving
      PROVE  d # c /\ stage[d] = stage'[d] /\ job[d].id # id
  BY <1>0, <1>1, <1>3, OneSaver DEF Saving
<1>a. \A x \in Untouched' : x \in Untouched /\ x \in Ids /\ (x # id => listed'[x] = listed[x])
  BY <1>0, <1>2 DEF Untouched
<1>4. ASSUME id \in Untouched
      PROVE  listed'[id] = stored[id]
  BY <1>4, <1>0, <1>1, <1>2 DEF DiskFits
<1>5. ASSUME NEW x \in Ids, Unborn(x)'
      PROVE  Unborn(x) /\ x # id
  BY <1>0, <1>1, <1>5 DEF Unborn, Saving
<1>6. UnbornFits'
  <2> SUFFICES ASSUME NEW x \in Ids, Unborn(x)'
               PROVE  /\ listed'[x] = Absent
                      /\ \A d \in Calls : stage'[d] \in Saving /\ job[d].id # x =>
                                            held[d][x] = Absent
                      /\ (\A d \in Calls : job[d].id = x => stage'[d] # "saved") =>
                           stored[x] = Absent
    BY DEF UnbornFits
  <2>1. Unborn(x) /\ x # id
    BY <1>5
  <2>2. (\A d \in Calls : job[d].id = x => stage'[d] # "saved") =>
          \A d \in Calls : job[d].id = x => stage[d] # "saved"
    BY <1>0, <1>1, <2>1
  <2>3. held[c][x] = Absent
    BY <2>1, <1>0, <1>1 DEF UnbornFits
  <2> QED BY <1>2, <1>3, <2>1, <2>2, <2>3 DEF UnbornFits
<1>7. SaveFits'
  <2> SUFFICES ASSUME NEW d \in Calls, stage'[d] \in Saving, job[d].id \in Untouched'
               PROVE  Carries(d, job[d].id)'
    BY DEF SaveFits
  <2>1. stage[d] \in Saving /\ job[d].id # id /\ Carries(d, job[d].id)
    BY <1>3, <1>a DEF SaveFits
  <2> QED BY <2>1, <1>a DEF Carries, Applies, Changed
<1>8. DiskFits'
  <2> SUFFICES ASSUME NEW x \in Untouched'
               PROVE  /\ \A d \in Calls : stage'[d] = "saved" /\ job[d].id = x =>
                                            stored[x] = held[d][x]
                      /\ \/ listed'[x] = stored[x]
                         \/ \E d \in Calls : stage'[d] = "saved" /\ job[d].id = x
    BY DEF DiskFits
  <2>0. x \in Untouched
    BY <1>a
  <2>1. \A d \in Calls : stage'[d] = "saved" /\ job[d].id = x => stored[x] = held[d][x]
    BY <2>0, <1>3 DEF DiskFits, Saving
  <2>2. CASE x = id
    BY <2>0, <2>1, <2>2, <1>4
  <2>3. CASE x # id
    <3>1. listed[x] = stored[x] \/ \E d \in Calls : stage[d] = "saved" /\ job[d].id = x
      BY <2>0 DEF DiskFits
    <3>2. listed'[x] = listed[x]
      BY <2>3, <1>a
    <3>3. (\E d \in Calls : stage[d] = "saved" /\ job[d].id = x) =>
            \E d \in Calls : stage'[d] = "saved" /\ job[d].id = x
      BY <2>3, <1>0, <1>1
    <3> QED BY <2>1, <3>1, <3>2, <3>3
  <2> QED BY <2>2, <2>3
<1>9. KeptFits'
  <2>1. \A d \in Calls, k \in {"edit", "rename"}, x \in Ids : Acked(d, k, x)' => Acked(d, k, x)
    BY <1>1 DEF Acked
  <2>2. \A x \in Untouched' : Keeps(x, listed'[x]) /\ Keeps(x, stored[x])
    BY <1>a, <1>4 DEF KeptFits
  <2>3. ASSUME NEW x \in Ids, NEW conversation, Keeps(x, conversation)
        PROVE  conversation # Absent =>
                 \A d \in Calls : /\ Acked(d, "edit", x)' => d \in conversation.edits
                                  /\ Acked(d, "rename", x)' => conversation.title = "manual"
    BY <2>1, <2>3 DEF Keeps
  <2> QED BY <1>a, <2>2, <2>3 DEF KeptFits, Keeps
<1> QED BY <1>2, <1>6, <1>7, <1>8, <1>9

\* After a restart the screen shows the disk.
LEMMA RestartContent ==
  ASSUME Inductive, Restart
  PROVE  Content'
<1> USE DEF Inductive, Control, Content, Restart
<1>1. \A c \in Calls : /\ stage'[c] \in {"idle", "acked", "over"} /\ stage'[c] \notin Saving
                       /\ stage'[c] = "idle" <=> stage[c] = "idle"
                       /\ stage'[c] = "acked" <=> stage[c] = "acked"
  BY DEF Saving
<1>2. ASSUME NEW x \in Ids, Unborn(x)'
      PROVE  Unborn(x) /\ \A c \in Calls : job[c].id = x => stage[c] # "saved"
  BY <1>1, <1>2 DEF Unborn, Saving
<1>3. UnbornFits'
  BY <1>1, <1>2 DEF UnbornFits
<1>4. SaveFits' /\ DiskFits'
  BY <1>1 DEF SaveFits, DiskFits, Untouched
<1>5. \A d \in Calls, k \in {"edit", "rename"}, x \in Ids : Acked(d, k, x)' => Acked(d, k, x)
  BY <1>1 DEF Acked
<1>6. KeptFits'
  BY <1>5 DEF KeptFits, Keeps, Untouched
<1> QED BY <1>3, <1>4, <1>6

-----------------------------------------------------------------------------
(* The invariant, and what follows from it.                                *)

LEMMA StartInductive ==
  ASSUME Inductive, NEW c \in Calls, Start(c)
  PROVE  Inductive'
<1>1. TypeOK /\ Turn(c) /\ stage[c] = "queued" /\ job[c].kind # "create"
  BY DEF Inductive, Control, Start, Turn, JobFits
<1>2. CASE To(c, "saving") /\ UNCHANGED queue
  <2>1. Content' /\ held' \in [Calls -> Lists]
    BY <1>2, StartContent
  <2>2. DataTyped'
    BY <1>1, <2>1 DEF TypeOK, DataTyped, Start
  <2> QED BY <1>1, <1>2, <2>1, <2>2, StayControl DEF Start, Saving, Inductive
<1>3. CASE To(c, "over") /\ Leave(c) /\ UNCHANGED held
  <2>1. DataTyped'
    BY <1>1, <1>3 DEF TypeOK, DataTyped, Start
  <2> QED BY <1>1, <1>3, <2>1, LeaveControl, OverContent DEF Start, Inductive
<1> QED BY <1>2, <1>3 DEF Start

\* The steps of a save, whether they succeed or fail.
LEMMA SaveInductive ==
  ASSUME Inductive, NEW c \in Calls,
         Write(c) \/ PublishChange(c) \/ PublishList(c) \/ Fail(c)
  PROVE  Inductive'
<1>1. TypeOK /\ LimitsAssumption
  BY LimitsAssumption DEF Inductive, Control
<1>2. CASE Write(c)
  <2>1. Content' /\ stored' \in Lists
    BY <1>2, WriteContent
  <2>2. DataTyped'
    BY <1>1, <1>2, <2>1 DEF TypeOK, DataTyped, Write
  <2> QED BY <1>2, <2>1, <2>2, StayControl DEF Write, Saving, Inductive
<1>3. CASE PublishChange(c)
  <2>1. Content' /\ listed' \in Lists
    BY <1>3, PublishChangeContent
  <2>2. DataTyped'
    BY <1>1, <1>3, <2>1 DEF TypeOK, DataTyped, PublishChange
  <2> QED BY <1>3, <2>1, <2>2, LeaveControl DEF PublishChange, Saving, Inductive
<1>4. CASE PublishList(c)
  <2>1. Content' /\ listed' \in Lists /\ overwritten' \subseteq Ids
    BY <1>4, PublishListContent
  <2>2. DataTyped'
    BY <1>1, <1>4, <2>1 DEF TypeOK, DataTyped, PublishList
  <2> QED BY <1>4, <2>1, <2>2, LeaveControl DEF PublishList, Saving, Inductive
<1>5. CASE Fail(c)
  <2>1. Content'
    BY <1>5, OverContent DEF Fail
  <2>2. failures' \in 0 .. MaxFailures
    BY <1>1, <1>5, LimitsAssumption DEF Fail, TypeOK
  <2>3. DataTyped'
    BY <1>1, <1>5, <2>2 DEF TypeOK, DataTyped, Fail
  <2> QED BY <1>5, <2>1, <2>3, LeaveControl DEF Fail, Saving, Inductive
<1> QED BY <1>2, <1>3, <1>4, <1>5

\* Nothing changes where nothing happens.
LEMMA StutterInductive ==
  ASSUME Inductive, UNCHANGED vars
  PROVE  Inductive'
<1> USE DEF Inductive, vars
<1>1. Control'
  BY DEF Control, TypeOK, QueueFits, JobFits, CreatorAlone, CreatorFits, InQueue
<1>2. UnbornFits' /\ DiskFits'
  BY DEF Content, UnbornFits, Unborn, DiskFits, Untouched
<1>4. SaveFits'
  BY DEF Content, SaveFits, Carries, Applies, Changed, Untouched
<1>3. KeptFits'
  BY DEF Content, KeptFits, Keeps, Acked, Untouched
<1> QED BY <1>1, <1>2, <1>3, <1>4 DEF Content

\* Every step preserves the invariant.
LEMMA NextInductive == Inductive /\ [Next]_vars => Inductive'
<1> SUFFICES ASSUME Inductive, [Next]_vars
             PROVE  Inductive'
  OBVIOUS
<1>1. ASSUME NEW c \in Calls, NEW id \in Ids, Create(c, id)
      PROVE  Inductive'
  BY <1>1, CreateControl, CreateContent DEF Inductive
<1>2. ASSUME NEW c \in Calls, NEW id \in Ids, NEW kind \in Kinds, Enqueue(c, kind, id)
      PROVE  Inductive'
  BY <1>2, EnqueueControl, EnqueueContent DEF Inductive
<1>3. CASE Progress
  BY <1>3, StartInductive, SaveInductive DEF Progress
<1>4. CASE Restart
  BY <1>4, RestartControl, RestartContent DEF Inductive
<1>5. CASE UNCHANGED vars
  BY <1>5, StutterInductive
<1> QED BY <1>1, <1>2, <1>3, <1>4, <1>5 DEF Next

\* The inductive invariant of the specification.
THEOREM InductiveInvariance == Spec => []Inductive
BY InitInductive, NextInductive, PTL DEF Spec

\* The variables have their types, and a call stands in the queue of its conversation
\* exactly while it waits or is served (_operations).
THEOREM TypeCorrect == Spec => []TypeOK
<1>1. Inductive => TypeOK
  BY DEF Inductive, Control
<1> QED BY <1>1, InductiveInvariance, PTL

\* A change its caller was told of is on the screen and on disk, however many calls,
\* failures and restarts came after, unless a whole list was published over it
\* (_mutateConversation, createConversation).
THEOREM KeptChanges == Spec => []ChangesKept
<1>1. Inductive => ChangesKept
  BY DEF Inductive, Content, KeptFits, Keeps, ChangesKept, Untouched
<1> QED BY <1>1, InductiveInvariance, PTL

\* The screen shows what a restart would, unless the conversation is being saved
\* (_saveAndPublishAuthoritative).
THEOREM ShownStored == Spec => []ShownIsStored
<1>1. Inductive => ShownIsStored
  BY DEF Inductive, Content, DiskFits, ShownIsStored, Saving
<1> QED BY <1>1, InductiveInvariance, PTL

\* No title that was asked for earlier replaces the name the user gave (claim,
\* complete).
THEOREM ManualKept == Spec => []ManualTitleKept
<1>1. Inductive => ManualTitleKept
  BY DEF Inductive, Content, KeptFits, Keeps, ManualTitleKept, Untouched
<1> QED BY <1>1, InductiveInvariance, PTL
=============================================================================
