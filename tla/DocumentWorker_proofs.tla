------------------------ MODULE DocumentWorker_proofs ------------------------
(* Proofs about DocumentWorker, for any number of extractors and of runs.   *)
EXTENDS DocumentWorker, SequenceTheorems, TLAPS

-----------------------------------------------------------------------------
(* The inductive invariant.                                                *)

\* A run that nobody has taken up yet.
Fresh(r) == r # 0 /\ r # active /\ worker[r] = "none" /\ reply[r] = "none"

Asks(i) == calls[i].kind = "run"

\* A call on its way is for a fresh run, one for each extractor, which waits.
CallsFit ==
  /\ \A i \in DOMAIN calls :
       Asks(i) => asking[calls[i].by] # "free" /\ Fresh(request[calls[i].by])
  /\ \A i, j \in DOMAIN calls :
       Asks(i) /\ Asks(j) /\ calls[i].by = calls[j].by => i = j

\* So is the run whose thread is about to start.
JoinFits ==
  main = "joining" =>
    /\ running /\ call \in Extractors
    /\ asking[call] # "free" /\ Fresh(request[call])
    /\ \A i \in DOMAIN calls : Asks(i) => calls[i].by # call

\* Runs are numbered as they are asked for.
NumbersFit ==
  /\ \A e \in Extractors : request[e] <= runs
  /\ \A e, f \in Extractors : request[e] = request[f] /\ request[e] # 0 => e = f
  /\ \A r \in Runs : r > runs => worker[r] = "none" /\ reply[r] = "none" /\ r # active

\* The thread of a run, its job and its answer.
ThreadFits ==
  /\ thread # "none" => running /\ active # 0 /\ main # "joining"
  /\ thread \in {"resuming", "sending", "reading", "waiting"} => job = active
  /\ job # 0 => job = active /\ thread \notin {"none", "starting"}
  /\ thread = "starting" => worker[active] = "none"
  /\ thread \notin {"none", "answered"} => reply[active] = "none"

\* A process that is there belongs to the job there is, and to a run that has not
\* been answered.
LiveFits == \A r \in Runs : worker[r] \in Live => r = job /\ reply[r] = "none"

\* An extraction that is over has been answered.
FreeFits ==
  \A e \in Extractors :
    asking[e] = "free" /\ request[e] # 0 => reply[request[e]] # "none"

Inductive ==
  /\ TypeOK
  /\ CallsFit /\ JoinFits /\ NumbersFit /\ ThreadFits /\ LiveFits /\ FreeFits

\* Before the first extraction there is no run and no process.
LEMMA InitInductive == Init => Inductive
<1> SUFFICES ASSUME Init PROVE Inductive
  OBVIOUS
<1>a. /\ worker = [r \in Runs |-> "none"] /\ reply = [r \in Runs |-> "none"]
      /\ calls = <<>> /\ main = "idle" /\ call = "none"
      /\ victim = 0 /\ job = 0 /\ active = 0 /\ runs = 0
      /\ running = FALSE /\ thread = "none"
      /\ asking = [e \in Extractors |-> "free"] /\ request = [e \in Extractors |-> 0]
  BY DEF Init
<1>b. \A r \in Runs : worker[r] = "none" /\ reply[r] = "none"
  BY <1>a
<1>1. calls \in Seq(Calls) /\ DOMAIN calls = {}
  BY <1>a, EmptySeq
<1>2. TypeOK
  <2>1. worker \in [Runs -> Live \cup {"none", "finished", "failed", "killed"}]
    BY <1>a
  <2>2. reply \in [Runs -> {"none", "data", "busy", "unavailable", "died",
                           "outputLimit", "timeout"}]
    BY <1>a
  <2>3. asking \in [Extractors -> {"free", "waiting", "stopping", "reaping"}]
    BY <1>a
  <2>4. request \in [Extractors -> 0 .. MaxRuns]
    <3>1. 0 \in 0 .. MaxRuns
      BY RunsAssumption
    <3>2. request = [e \in Extractors |-> 0]
      BY <1>a
    <3> QED BY <3>1, <3>2
  <2>5. /\ victim \in 0 .. MaxRuns /\ job \in 0 .. MaxRuns
        /\ active \in 0 .. MaxRuns /\ runs \in 0 .. MaxRuns
    BY <1>a, RunsAssumption
  <2>6. /\ main = "idle" /\ call = "none" /\ running = FALSE /\ thread = "none"
    BY <1>a
  <2> QED BY <1>1, <2>1, <2>2, <2>3, <2>4, <2>5, <2>6 DEF TypeOK
<1>3. CallsFit /\ JoinFits
  BY <1>a, <1>1 DEF CallsFit, JoinFits
<1>4. NumbersFit /\ ThreadFits
  BY <1>a, <1>b, RunsAssumption DEF NumbersFit, ThreadFits, Runs
<1>5. LiveFits /\ FreeFits
  BY <1>a, <1>b DEF LiveFits, FreeFits, Live
<1> QED BY <1>2, <1>3, <1>4, <1>5 DEF Inductive

\* Every call in the queue comes from an extractor.
LEMMA Callers ==
  ASSUME TypeOK
  PROVE  \A i \in DOMAIN calls : calls[i].by \in Extractors
<1>1. calls \in Seq(Calls)
  BY DEF TypeOK
<1>2. DOMAIN calls = 1 .. Len(calls)
  BY <1>1, LenProperties
<1>3. \A i \in DOMAIN calls : calls[i] \in Calls
  BY <1>1, <1>2, ElementOfSeq
<1> QED BY <1>3 DEF Calls

-----------------------------------------------------------------------------
(* The extractors.                                                         *)

\* What a new call does to the queue.
LEMMA Sent ==
  ASSUME Inductive, NEW e \in Extractors, NEW k \in {"run", "terminate"}, Send(k, e)
  PROVE  /\ calls' \in Seq(Calls)
         /\ \A i \in DOMAIN calls : calls'[i] = calls[i]
         /\ \A i \in DOMAIN calls' \ DOMAIN calls : /\ i = Len(calls) + 1
                                                    /\ calls'[i] = [kind |-> k, by |-> e]
<1>1. calls \in Seq(Calls) /\ [kind |-> k, by |-> e] \in Calls
  BY DEF Inductive, TypeOK, Calls
<1>2. /\ calls' \in Seq(Calls) /\ Len(calls') = Len(calls) + 1 /\ Len(calls) \in Nat
      /\ DOMAIN calls = 1 .. Len(calls) /\ DOMAIN calls' = 1 .. Len(calls')
      /\ \A i \in 1 .. Len(calls) : calls'[i] = calls[i]
      /\ calls'[Len(calls) + 1] = [kind |-> k, by |-> e]
  BY <1>1, AppendProperties, LenProperties DEF Send
<1> QED BY <1>2

\* What NativeDocumentExtractor does: it asks, gives up, and reaps.
LEMMA ExtractorSteps ==
  ASSUME Inductive, NEW e \in Extractors, Extract(e) \/ Settle(e) \/ Reap(e)
  PROVE  Inductive'
<1> USE RunsAssumption DEF Inductive, platform, broker, Fresh, Asks
<1>1. CASE Extract(e)
  <2> USE <1>1 DEF Extract
  <2>0. runs' \in Runs /\ runs' = runs + 1 /\ runs \in Nat
    BY DEF TypeOK, Runs
  <2>1. Fresh(runs') /\ \A f \in Extractors : request[f] # runs'
    BY <2>0 DEF TypeOK, NumbersFit, Runs
  <2>2. TypeOK'
    <3>1. calls' \in Seq(Calls)
      BY Sent
    <3>2. /\ request' \in [Extractors -> 0 .. MaxRuns] /\ runs' \in 0 .. MaxRuns
          /\ asking' \in [Extractors -> {"free", "waiting", "stopping", "reaping"}]
      BY <2>0 DEF TypeOK, Runs
    <3> QED BY <3>1, <3>2 DEF TypeOK
  <2>3. /\ request'[e] = runs' /\ asking'[e] = "waiting"
        /\ \A f \in Extractors \ {e} : request'[f] = request[f] /\ asking'[f] = asking[f]
    BY DEF TypeOK
  <2>4. \A i \in DOMAIN calls : calls[i].by \in Extractors
    BY Callers
  <2>5. \A i \in DOMAIN calls : Asks(i) => calls[i].by # e
    BY DEF CallsFit
  <2>6. CallsFit'
    <3>1. \A i \in DOMAIN calls' :
            Asks(i)' => asking'[calls'[i].by] # "free" /\ Fresh(request[calls[i].by])'
      <4> SUFFICES ASSUME NEW i \in DOMAIN calls', Asks(i)'
                   PROVE  asking'[calls'[i].by] # "free" /\ Fresh(request[calls[i].by])'
        OBVIOUS
      <4>1. CASE i \in DOMAIN calls
        <5>1. calls'[i] = calls[i]
          BY <4>1, Sent
        <5>2. asking[calls[i].by] # "free" /\ Fresh(request[calls[i].by])
          BY <4>1, <5>1 DEF CallsFit
        <5> QED BY <4>1, <5>1, <5>2, <2>3, <2>4, <2>5
      <4>2. CASE i \notin DOMAIN calls
        <5>1. calls'[i] = [kind |-> "run", by |-> e]
          BY <4>2, Sent
        <5> QED BY <5>1, <2>1, <2>3
      <4> QED BY <4>1, <4>2
    <3>2. \A i \in DOMAIN calls : calls'[i] = calls[i]
      BY Sent
    <3>3. \A i \in DOMAIN calls' \ DOMAIN calls :
            i = Len(calls) + 1 /\ calls'[i] = [kind |-> "run", by |-> e]
      BY Sent
    <3> QED BY <3>1, <3>2, <3>3, <2>5 DEF CallsFit
  <2>7. JoinFits'
    <3>1. main = "joining" => call # e
      BY DEF JoinFits
    <3>2. \A i \in DOMAIN calls' : \/ calls'[i] = [kind |-> "run", by |-> e]
                                   \/ i \in DOMAIN calls /\ calls'[i] = calls[i]
      BY Sent
    <3> QED BY <3>1, <3>2, <2>3 DEF JoinFits
  <2>8. NumbersFit' /\ ThreadFits' /\ LiveFits' /\ FreeFits'
    BY <2>0, <2>1, <2>3 DEF NumbersFit, ThreadFits, LiveFits, FreeFits, TypeOK, Runs
  <2> QED BY <2>2, <2>6, <2>7, <2>8
<1>2. CASE Settle(e)
  <2> USE <1>2 DEF Settle
  <2>1. TypeOK'
    BY Sent DEF TypeOK
  <2>2. \A f \in Extractors : asking'[f] = "free" <=> asking[f] = "free"
    BY DEF TypeOK
  <2>3. \A i \in DOMAIN calls : calls[i].by \in Extractors
    BY Callers
  <2>4. CallsFit' /\ JoinFits'
    <3>1. \A i \in DOMAIN calls' :
            Asks(i)' => i \in DOMAIN calls /\ calls'[i] = calls[i]
      <4>1. \A i \in DOMAIN calls' \ DOMAIN calls : calls'[i] = [kind |-> "terminate", by |-> e]
        BY Sent
      <4> QED BY <4>1, Sent
    <3> QED BY <2>2, <2>3, <3>1 DEF CallsFit, JoinFits
  <2>5. NumbersFit' /\ ThreadFits' /\ LiveFits' /\ FreeFits'
    BY <2>2 DEF NumbersFit, ThreadFits, LiveFits, FreeFits
  <2> QED BY <2>1, <2>4, <2>5
<1>3. CASE Reap(e)
  <2> USE <1>3 DEF Reap
  <2>1. TypeOK'
    BY DEF TypeOK
  <2>2. \A f \in Extractors \ {e} : asking'[f] = asking[f]
    BY DEF TypeOK
  <2>3. \A i \in DOMAIN calls : calls[i].by \in Extractors
    BY Callers
  <2>4. CallsFit' /\ JoinFits'
    BY <2>2, <2>3 DEF CallsFit, JoinFits
  <2>5. NumbersFit' /\ ThreadFits' /\ LiveFits' /\ FreeFits'
    BY <2>2 DEF NumbersFit, ThreadFits, LiveFits, FreeFits, TypeOK
  <2> QED BY <2>1, <2>4, <2>5
<1> QED BY <1>1, <1>2, <1>3

-----------------------------------------------------------------------------
(* The platform thread.                                                    *)

\* What is left of the queue, and the call that was taken from it.
LEMMA Taken ==
  ASSUME Inductive, NEW k, Handles(k)
  PROVE  /\ main = "idle" /\ calls' \in Seq(Calls)
         /\ call' \in Extractors /\ call' = calls[1].by /\ calls[1].kind = k
         /\ DOMAIN calls = 1 .. Len(calls) /\ 1 \in DOMAIN calls
         /\ \A i \in DOMAIN calls' : /\ i + 1 \in DOMAIN calls /\ i \in Nat /\ i + 1 # 1
                                    /\ calls'[i] = calls[i + 1]
         /\ \A i \in DOMAIN calls : calls[i].by \in Extractors
<1>1. calls \in Seq(Calls) /\ calls # <<>>
  BY DEF Inductive, TypeOK, Handles
<1>2. /\ Head(calls) = calls[1] /\ Tail(calls) \in Seq(Calls)
      /\ Len(Tail(calls)) = Len(calls) - 1 /\ Len(calls) \in Nat /\ Len(calls) > 0
      /\ \A i \in 1 .. Len(Tail(calls)) : Tail(calls)[i] = calls[i + 1]
      /\ DOMAIN calls = 1 .. Len(calls) /\ DOMAIN Tail(calls) = 1 .. Len(Tail(calls))
  BY <1>1, HeadTailProperties, EmptySeq, LenProperties
<1>3. \A i \in DOMAIN calls : calls[i] \in Calls
  BY <1>1, <1>2, ElementOfSeq
<1> QED BY <1>1, <1>2, <1>3 DEF Handles, Calls

\* A run call that is taken up is for a fresh run, and the only one of its extractor.
LEMMA TakenRun ==
  ASSUME Inductive, Handles("run")
  PROVE  /\ asking[call'] # "free" /\ Fresh(request[call']) /\ request[call'] \in Runs
         /\ \A i \in DOMAIN calls' : Asks(i)' => calls'[i].by # call'
BY Taken, RunsAssumption DEF Inductive, TypeOK, CallsFit, Asks, Fresh, Runs

\* The calls that are left are as before.
LEMMA Rest ==
  ASSUME Inductive, NEW k, Handles(k), UNCHANGED <<asking, request, active>>,
         \A e \in Extractors :
           request[e] # request[call'] \/ k # "run"
             => worker'[request[e]] = worker[request[e]] /\ reply'[request[e]] = reply[request[e]]
  PROVE  CallsFit'
<1>1. /\ \A i \in DOMAIN calls' : Asks(i)' => Asks(i + 1)
      /\ \A i, j \in DOMAIN calls' : i + 1 = j + 1 => i = j
  BY Taken DEF Asks
<1>2. \A i \in DOMAIN calls' : Asks(i)' /\ k = "run" => calls'[i].by # call'
  BY TakenRun DEF Inductive
<1>3. \A i \in DOMAIN calls' : Asks(i)' /\ k = "run" => request[calls'[i].by] # request[call']
  BY <1>1, <1>2, Taken DEF Inductive, NumbersFit, CallsFit, Fresh
<1>4. ASSUME NEW i \in DOMAIN calls', Asks(i)'
      PROVE  asking'[calls'[i].by] # "free" /\ Fresh(request[calls[i].by])'
  <2>1. /\ calls'[i].by \in Extractors
        /\ asking[calls'[i].by] # "free" /\ Fresh(request[calls'[i].by])
    BY <1>1, <1>4, Taken DEF Inductive, CallsFit
  <2> QED BY <2>1, <1>3, <1>4 DEF Fresh
<1>5. ASSUME NEW i \in DOMAIN calls', NEW j \in DOMAIN calls', Asks(i)', Asks(j)',
             calls'[i].by = calls'[j].by
      PROVE  i = j
  BY <1>1, <1>5, Taken DEF Inductive, CallsFit
<1> QED BY <1>4, <1>5 DEF CallsFit, Asks

\* What the platform thread does: Run, Terminate, Stop, and the calls it refuses.
LEMMA PlatformSteps ==
  ASSUME Inductive, Broker \/ Stop
  PROVE  Inductive'
<1> USE RunsAssumption DEF dart, platform, broker, Answer
<1>1. CASE RunUnavailable \/ RunBusy
  <2>0. PICK a \in {"unavailable", "busy"} :
          /\ Handles("run") /\ reply' = [reply EXCEPT ![request[call']] = a]
          /\ UNCHANGED <<dart, main, victim, broker, worker>>
    BY <1>1 DEF RunUnavailable, RunBusy
  <2> USE <2>0
  <2>1. /\ reply'[request[call']] = a
        /\ \A r \in Runs \ {request[call']} : reply'[r] = reply[r]
    BY TakenRun DEF Inductive, TypeOK
  <2>2. TypeOK'
    BY Taken, TakenRun DEF Inductive, TypeOK
  <2>3. \A e \in Extractors : request[e] # request[call'] =>
          reply'[request[e]] = reply[request[e]]
    BY DEF Inductive, TypeOK
  <2>4. CallsFit'
    BY <2>3, Rest
  <2>5. JoinFits' /\ NumbersFit' /\ FreeFits'
    BY <2>1, Taken, TakenRun DEF Inductive, JoinFits, NumbersFit, FreeFits, TypeOK, Runs, Fresh
  <2>6. ThreadFits' /\ LiveFits'
    BY <2>1, TakenRun DEF Inductive, ThreadFits, LiveFits, TypeOK, Runs, Fresh, Live
  <2> QED BY <2>2, <2>4, <2>5, <2>6 DEF Inductive
<1>2. CASE Run
  <2> USE <1>2 DEF Run
  <2>1. TypeOK'
    BY Taken DEF Inductive, TypeOK
  <2>2. CallsFit'
    BY Rest
  <2>3. JoinFits'
    BY Taken, TakenRun DEF JoinFits, Fresh, Asks
  <2>4. NumbersFit' /\ FreeFits' /\ LiveFits'
    BY DEF Inductive, NumbersFit, FreeFits, LiveFits
  <2>5. ThreadFits'
    BY DEF Inductive, ThreadFits
  <2> QED BY <2>1, <2>2, <2>3, <2>4, <2>5 DEF Inductive
<1>3. CASE StartThread
  <2> USE <1>3 DEF StartThread
  <2>1. call \in Extractors /\ Fresh(request[call]) /\ request[call] \in Runs /\ running
    BY DEF Inductive, JoinFits, TypeOK, Fresh, Runs
  <2>2. TypeOK'
    BY <2>1 DEF Inductive, TypeOK, Runs
  <2>3. CallsFit'
    <3>1. \A i \in DOMAIN calls : Asks(i) =>
            calls[i].by \in Extractors /\ calls[i].by # call
      BY Callers DEF Inductive, JoinFits
    <3>2. \A i \in DOMAIN calls : Asks(i) => request[calls[i].by] # request[call]
      BY <3>1, <2>1 DEF Inductive, NumbersFit, Fresh
    <3> QED BY <3>2 DEF Inductive, CallsFit, Fresh, Asks
  <2>4. JoinFits' /\ FreeFits' /\ LiveFits' /\ NumbersFit'
    BY <2>1 DEF Inductive, JoinFits, FreeFits, LiveFits, NumbersFit, TypeOK, Runs, Fresh
  <2>5. ThreadFits'
    BY <2>1 DEF Inductive, ThreadFits, Fresh
  <2> QED BY <2>2, <2>3, <2>4, <2>5 DEF Inductive
<1>4. CASE Terminate
  <2> USE <1>4 DEF Terminate
  <2>1. TypeOK'
    BY Taken DEF Inductive, TypeOK
  <2>2. CallsFit'
    BY Rest
  <2>3. JoinFits' /\ NumbersFit' /\ FreeFits' /\ LiveFits' /\ ThreadFits'
    BY DEF Inductive, JoinFits, NumbersFit, FreeFits, LiveFits, ThreadFits
  <2> QED BY <2>1, <2>2, <2>3 DEF Inductive
<1>5. CASE Kill \/ StopKill
  <2>0. /\ worker' = Killed(victim) /\ main \in {"killing", "stopping"} /\ main' \in {"idle", "closing"}
        /\ UNCHANGED <<request, runs, calls, call, victim, broker, reply>>
        /\ asking' = asking \/ asking' = [asking EXCEPT ![call] = "reaping"]
    BY <1>5 DEF Kill, StopKill
  <2> USE <2>0
  <2>1. TypeOK'
    BY DEF Inductive, TypeOK, Killed
  <2>2. /\ \A e \in Extractors : asking'[e] = "free" => asking[e] = "free"
        /\ \A r \in Runs : worker'[r] # worker[r] => worker[r] \in Live /\ worker'[r] = "killed"
    BY DEF Inductive, TypeOK, Killed, Runs
  <2>3. \A i \in DOMAIN calls : calls[i].by \in Extractors
    BY Callers DEF Inductive
  <2>4. \A r \in Runs : worker[r] = "none" => worker'[r] = "none"
    BY <2>2 DEF Live
  <2>5. CallsFit' /\ FreeFits'
    <3>1. \A i \in DOMAIN calls : request[calls[i].by] \in 0 .. MaxRuns
      BY <2>3 DEF Inductive, TypeOK
    <3> QED BY <2>2, <2>3, <2>4, <3>1
        DEF Inductive, CallsFit, FreeFits, Fresh, Asks, TypeOK, Runs
  <2>6. JoinFits' /\ NumbersFit'
    BY <2>4 DEF Inductive, JoinFits, NumbersFit
  <2>7. LiveFits'
    BY <2>2 DEF Inductive, LiveFits, Live
  <2>8. ThreadFits'
    BY <2>4 DEF Inductive, ThreadFits, TypeOK, Runs
  <2> QED BY <2>1, <2>5, <2>6, <2>7, <2>8 DEF Inductive
<1>6. CASE Stop \/ StopJoin
  <2>0. /\ UNCHANGED <<dart, calls, call, broker, worker, reply>>
        /\ main' \in {"stopping", "closed"} /\ victim' \in {victim, job}
    BY <1>6 DEF Stop, StopJoin
  <2> USE <2>0
  <2>1. TypeOK'
    BY DEF Inductive, TypeOK
  <2>2. CallsFit' /\ JoinFits' /\ NumbersFit' /\ FreeFits' /\ LiveFits' /\ ThreadFits'
    BY DEF Inductive, CallsFit, Fresh, Asks, JoinFits, NumbersFit, FreeFits, LiveFits, ThreadFits
  <2> QED BY <2>1, <2>2 DEF Inductive
<1> QED BY <1>1, <1>2, <1>3, <1>4, <1>5, <1>6 DEF Broker

-----------------------------------------------------------------------------
(* The thread of the run and the worker.                                   *)

\* Steps of the thread touch its own run only, and leave it unanswered or answer
\* it with no process left.
LEMMA ThreadKeeps ==
  ASSUME Inductive, TypeOK', ThreadFits', UNCHANGED <<dart, calls, platform, active>>,
         active \in Runs, main # "joining",
         \A r \in Runs \ {active} : worker'[r] = worker[r] /\ reply'[r] = reply[r],
         reply'[active] # reply[active] => reply'[active] # "none",
         worker'[active] \in Live => job' = active /\ reply'[active] = "none"
  PROVE  Inductive'
<1> USE DEF dart, platform
<1>1. \A i \in DOMAIN calls : Asks(i) =>
        /\ calls[i].by \in Extractors /\ request[calls[i].by] \in Runs
        /\ request[calls[i].by] # active
  BY Callers, RunsAssumption DEF Inductive, CallsFit, Fresh, TypeOK, Runs
<1>2. CallsFit'
  BY <1>1 DEF Inductive, CallsFit, Fresh, Asks
<1>3. JoinFits'
  BY DEF JoinFits
<1>4. NumbersFit'
  BY DEF Inductive, NumbersFit
<1>5. LiveFits'
  <2>1. ASSUME NEW r \in Runs, r # active, worker'[r] \in Live
        PROVE  FALSE
    <3>1. r = job /\ r # 0
      BY <2>1, RunsAssumption DEF Inductive, LiveFits, Runs
    <3> QED BY <3>1, <2>1 DEF Inductive, ThreadFits
  <2> QED BY <2>1 DEF LiveFits
<1>6. FreeFits'
  BY RunsAssumption DEF Inductive, FreeFits, TypeOK, Runs
<1> QED BY <1>2, <1>3, <1>4, <1>5, <1>6 DEF Inductive

\* What the thread of the run does in Execute.
LEMMA ThreadSteps ==
  ASSUME Inductive, Execute \/ OverLimit
  PROVE  Inductive'
<1> USE RunsAssumption DEF dart, platform, Answer, AnswerActive
<1>0. /\ thread # "none" /\ active \in Runs /\ main # "joining" /\ running
      /\ UNCHANGED <<dart, calls, platform, active>>
  BY DEF Execute, StartFails, Publish, Resume, SendRequest, SendFails, OverLimit, ReadAll,
         Exited, WaitTimeout, Release, Inductive, ThreadFits, TypeOK, Runs
<1>1. CASE StartFails \/ SendFails \/ Exited
  <2>0. PICK a \in {"unavailable", "died", "data"} :
          /\ reply' = [reply EXCEPT ![active] = a] /\ thread' = "answered"
          /\ UNCHANGED <<running, job, worker>>
          /\ thread \in {"starting", "sending", "waiting"} /\ worker[active] \notin Live
    BY <1>1, <1>0 DEF StartFails, SendFails, Exited, Inductive, ThreadFits, Live
  <2> USE <1>0, <2>0
  <2>1. TypeOK' /\ reply'[active] = a /\ \A r \in Runs \ {active} : reply'[r] = reply[r]
    BY DEF Inductive, TypeOK
  <2>2. ThreadFits'
    BY DEF Inductive, ThreadFits
  <2> QED BY <2>1, <2>2, ThreadKeeps
<1>2. CASE Publish \/ Resume
  <2>0. PICK s \in Live \cup {"killed", "failed", "finished", "none"} :
          /\ worker' = [worker EXCEPT ![active] = s]
          /\ thread' \in {"resuming", "sending"} /\ job' = active
          /\ thread \in {"starting", "resuming"} /\ UNCHANGED <<running, reply>>
    BY <1>2, <1>0 DEF Publish, Resume, Inductive, ThreadFits, TypeOK, Live
  <2> USE <1>0, <2>0
  <2>1. /\ TypeOK' /\ worker'[active] = s /\ reply[active] = "none"
        /\ \A r \in Runs \ {active} : worker'[r] = worker[r]
    BY DEF Inductive, TypeOK, ThreadFits, Runs, Live
  <2>2. ThreadFits'
    BY <2>1 DEF Inductive, ThreadFits
  <2> QED BY <2>1, <2>2, ThreadKeeps
<1>3. CASE SendRequest \/ ReadAll
  <2>0. /\ thread \in {"sending", "reading"} /\ thread' \in {"reading", "waiting"}
        /\ UNCHANGED <<running, job, worker, reply>>
    BY <1>3 DEF SendRequest, ReadAll
  <2> USE <1>0, <2>0
  <2>1. TypeOK'
    BY DEF Inductive, TypeOK
  <2>2. ThreadFits' /\ job = active /\ reply[active] = "none"
    BY DEF Inductive, ThreadFits
  <2> QED BY <2>1, <2>2, ThreadKeeps
<1>4. CASE OverLimit \/ WaitTimeout
  <2>0. PICK a \in {"outputLimit", "timeout"} :
          /\ reply' = [reply EXCEPT ![active] = a] /\ thread' = "answered"
          /\ thread \in {"reading", "waiting"} /\ worker[active] \in Live
          /\ worker' = Killed(active) /\ UNCHANGED <<running, job>>
    BY <1>4 DEF OverLimit, WaitTimeout, Live
  <2> USE <1>0, <2>0
  <2>1. job = active /\ active # 0
    BY DEF Inductive, ThreadFits
  <2>2. worker' = [worker EXCEPT ![active] = "killed"]
    BY <2>1 DEF Killed
  <2>3. /\ TypeOK' /\ reply'[active] = a /\ worker'[active] = "killed"
        /\ \A r \in Runs \ {active} : reply'[r] = reply[r] /\ worker'[r] = worker[r]
    BY <2>2 DEF Inductive, TypeOK
  <2>4. ThreadFits'
    BY <2>1 DEF Inductive, ThreadFits
  <2> QED BY <2>3, <2>4, ThreadKeeps DEF Live
<1>5. CASE Release
  <2>0. /\ thread = "answered" /\ thread' = "none" /\ job' = 0 /\ running' = FALSE
        /\ worker' = Killed(job) /\ reply' = reply
    BY <1>5 DEF Release
  <2> USE <1>0, <2>0
  <2>1. job # 0 => job = active
    BY DEF Inductive, ThreadFits
  <2>2. worker[active] \in Live => job = active
    BY DEF Inductive, LiveFits
  <2>3. worker' = IF worker[active] \in Live THEN [worker EXCEPT ![active] = "killed"]
                  ELSE worker
    <3>1. active # 0
      BY DEF Runs
    <3> QED BY <3>1, <2>1, <2>2 DEF Killed
  <2>4. /\ TypeOK' /\ worker'[active] \notin Live
        /\ \A r \in Runs \ {active} : worker'[r] = worker[r]
    <3>1. worker \in [Runs -> Live \cup {"none", "finished", "failed", "killed"}]
      BY DEF Inductive, TypeOK
    <3>2. /\ worker' \in [Runs -> Live \cup {"none", "finished", "failed", "killed"}]
          /\ worker'[active] \notin Live
          /\ \A r \in Runs \ {active} : worker'[r] = worker[r]
      BY <2>3, <3>1 DEF Live
    <3>3. 0 \in 0 .. MaxRuns
      OBVIOUS
    <3> QED BY <3>2, <3>3 DEF Inductive, TypeOK
  <2>5. ThreadFits'
    BY DEF ThreadFits
  <2> QED BY <2>4, <2>5, ThreadKeeps
<1> QED BY <1>1, <1>2, <1>3, <1>4, <1>5 DEF Execute

\* What a worker process does by itself.
LEMMA WorkerSteps ==
  ASSUME Inductive, WorkerFails \/ WorkerFinishes \/ WorkerCloses
  PROVE  Inductive'
<1> USE RunsAssumption DEF dart, platform, broker, Live
<1>0. PICK s \in {"failed", "finished", "mute"} :
        /\ active # 0 /\ worker[active] \in {"working", "mute"}
        /\ worker' = [worker EXCEPT ![active] = s]
        /\ UNCHANGED <<dart, calls, platform, broker, reply>>
  BY DEF WorkerFails, WorkerFinishes, WorkerCloses, WorkerBecomes
<1> USE <1>0
<1>1. active \in Runs
  BY DEF Inductive, TypeOK, Runs
<1>2. job = active /\ reply[active] = "none"
  BY <1>1 DEF Inductive, LiveFits
<1>3. thread \notin {"none", "starting"} /\ main # "joining"
  BY <1>2 DEF Inductive, ThreadFits
<1>4. TypeOK' /\ \A r \in Runs \ {active} : worker'[r] = worker[r]
  BY <1>1 DEF Inductive, TypeOK
<1>5. ThreadFits'
  BY <1>3 DEF Inductive, ThreadFits
<1> QED BY <1>1, <1>2, <1>3, <1>4, <1>5, ThreadKeeps

\* Every step preserves the invariant.
LEMMA NextInductive ==
  ASSUME Inductive, [Next]_vars
  PROVE  Inductive'
<1>1. CASE UNCHANGED vars
  BY <1>1
  DEF vars, dart, platform, broker, Inductive, TypeOK, CallsFit, JoinFits, NumbersFit,
      ThreadFits, LiveFits, FreeFits, Fresh, Asks
<1> QED BY <1>1, ExtractorSteps, PlatformSteps, ThreadSteps, WorkerSteps DEF Next

\* The inductive invariant of the specification.
THEOREM InductiveInvariance == Spec => []Inductive
BY InitInductive, NextInductive, PTL DEF Spec

-----------------------------------------------------------------------------
(* What follows.                                                           *)

\* Every variable keeps its type, the queue of calls and the record of the runs
\* included.
THEOREM TypeCorrect == Spec => []TypeOK
<1>1. Inductive => TypeOK
  BY DEF Inductive
<1> QED BY <1>1, InductiveInvariance, PTL

\* However many extractors ask and whatever moment a call to terminate comes at, a
\* process that is there belongs to the run whose thread is there.
THEOREM OneWorkerRuns == Spec => []OneWorker
<1>1. Inductive => OneWorker
  BY DEF Inductive, LiveFits, ThreadFits, TypeOK, OneWorker, Runs
<1> QED BY <1>1, InductiveInvariance, PTL

\* An extractor that is done has no process left, even one that gave up while its
\* run had none yet: the run has been answered, and a process of an answered run
\* is dead.
THEOREM Reaped == Spec => []FreeIsReaped
<1>1. Inductive => FreeIsReaped
  BY DEF Inductive, LiveFits, FreeFits, TypeOK, FreeIsReaped, Runs
<1> QED BY <1>1, InductiveInvariance, PTL
=============================================================================
