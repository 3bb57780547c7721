--------------------------- MODULE DocumentWorker ---------------------------
(***************************************************************************)
(* Extracting a document in a sandboxed process on Windows: the extractor  *)
(* (native_document_extractor.dart) and its handle, the platform thread    *)
(* that handles their calls one after the other, the thread of a run       *)
(* (Broker::Execute) and the worker process in its job.                    *)
(*                                                                         *)
(* The calls name no run: "terminate" is for the job there is.  There may  *)
(* be two extractors, since the runtime that has one is made behind an     *)
(* await (chat_tool_runtime_registry.dart, _load).  A worker that hangs is *)
(* one that takes no step; nothing but the job limits and a terminate ends *)
(* it.                                                                     *)
(***************************************************************************)
EXTENDS Naturals, Sequences, FiniteSets

CONSTANTS
  Extractors,
  MaxRuns     \* extractions asked for

ASSUME RunsAssumption == MaxRuns \in Nat

VARIABLES
  asking,    \* how far each extractor is with its request
  request,   \* the run it has asked for last
  calls,     \* calls on their way to the platform thread
  main,      \* what the platform thread is doing
  call,      \* the call it is dealing with
  victim,    \* the job it has read and is going to terminate
  running,   \* running_
  job,       \* job_: the run whose job is published, 0 if there is none
  thread,    \* the step of the run's thread, "none" when there is no thread
  active,    \* its run
  worker,    \* the process of each run
  reply,     \* the answer to each run
  runs

dart == <<asking, request, runs>>
platform == <<main, call, victim>>
broker == <<running, job, thread, active>>
vars == <<dart, calls, platform, broker, worker, reply>>

Runs == 1 .. MaxRuns
Calls == [kind : {"run", "terminate"}, by : Extractors]
Live == {"suspended", "working", "mute"}

TypeOK ==
  /\ asking \in [Extractors -> {"free", "waiting", "stopping", "reaping"}]
  /\ request \in [Extractors -> 0 .. MaxRuns]
  /\ calls \in Seq(Calls)
  /\ main \in {"idle", "joining", "killing", "stopping", "closing", "closed"}
  /\ call \in Extractors \cup {"none"}
  /\ victim \in 0 .. MaxRuns
  /\ running \in BOOLEAN
  /\ job \in 0 .. MaxRuns
  /\ thread \in {"none", "starting", "resuming", "sending", "reading", "waiting",
                 "answered"}
  /\ active \in 0 .. MaxRuns
  /\ worker \in [Runs -> Live \cup {"none", "finished", "failed", "killed"}]
  /\ reply \in [Runs -> {"none", "data", "busy", "unavailable", "died",
                         "outputLimit", "timeout"}]
  /\ runs \in 0 .. MaxRuns

Init ==
  /\ asking = [e \in Extractors |-> "free"]
  /\ request = [e \in Extractors |-> 0]
  /\ calls = <<>>
  /\ main = "idle" /\ call = "none" /\ victim = 0
  /\ running = FALSE /\ job = 0 /\ thread = "none" /\ active = 0
  /\ worker = [r \in Runs |-> "none"]
  /\ reply = [r \in Runs |-> "none"]
  /\ runs = 0

Closing == main \in {"stopping", "closing", "closed"}

-----------------------------------------------------------------------------
(* The extractor and its handle.                                           *)

Send(kind, e) == calls' = Append(calls, [kind |-> kind, by |-> e])

Extract(e) ==
  /\ ~Closing /\ asking[e] = "free" /\ runs < MaxRuns
  /\ runs' = runs + 1
  /\ request' = [request EXCEPT ![e] = runs']
  /\ asking' = [asking EXCEPT ![e] = "waiting"]
  /\ Send("run", e)
  /\ UNCHANGED <<platform, broker, worker, reply>>

\* The answer is there, or the time is up, or the user has cancelled: in any case
\* the worker is terminated and reaped before the extraction returns.
Settle(e) ==
  /\ ~Closing /\ asking[e] = "waiting"
  /\ asking' = [asking EXCEPT ![e] = "stopping"]
  /\ Send("terminate", e)
  /\ UNCHANGED <<request, runs, platform, broker, worker, reply>>

\* Mutant of Reap: the answer to terminate is enough.
ReapAtOnce(e) ==
  /\ asking[e] = "reaping"
  /\ asking' = [asking EXCEPT ![e] = "free"]
  /\ UNCHANGED <<request, runs, calls, platform, broker, worker, reply>>

\* The run has been answered as well.
Reap(e) ==
  /\ asking[e] = "reaping" /\ reply[request[e]] # "none"
  /\ asking' = [asking EXCEPT ![e] = "free"]
  /\ UNCHANGED <<request, runs, calls, platform, broker, worker, reply>>

-----------------------------------------------------------------------------
(* The platform thread.                                                    *)

Handles(kind) ==
  /\ main = "idle" /\ calls # <<>> /\ Head(calls).kind = kind
  /\ calls' = Tail(calls)
  /\ call' = Head(calls).by

Answer(r, a) == reply' = [reply EXCEPT ![r] = a]

\* The package of the worker is not the one that was shipped, or its sandbox is
\* not available.
RunUnavailable ==
  /\ Handles("run")
  /\ Answer(request[call'], "unavailable")
  /\ UNCHANGED <<dart, main, victim, broker, worker>>

RunBusy ==
  /\ Handles("run") /\ running
  /\ Answer(request[call'], "busy")
  /\ UNCHANGED <<dart, main, victim, broker, worker>>

\* Mutant of Run: the flag is not looked at.
RunAnyway ==
  /\ Handles("run")
  /\ running' = TRUE /\ main' = "joining"
  /\ UNCHANGED <<dart, victim, job, thread, active, worker, reply>>

Run ==
  /\ Handles("run") /\ ~running
  /\ running' = TRUE /\ main' = "joining"
  /\ UNCHANGED <<dart, victim, job, thread, active, worker, reply>>

\* The thread of the run before is joined, and the new one starts.
StartThread ==
  /\ main = "joining" /\ thread = "none"
  /\ main' = "idle"
  /\ thread' = "starting" /\ active' = request[call]
  /\ UNCHANGED <<dart, calls, call, victim, running, job, worker, reply>>

\* The handle of the job is read under the lock and used outside.
Terminate ==
  /\ Handles("terminate")
  /\ victim' = job /\ main' = "killing"
  /\ UNCHANGED <<dart, broker, worker, reply>>

\* TerminateJobObject: a handle closed meanwhile has no effect, nor has a job
\* whose process is gone.
Killed(r) ==
  IF r # 0 /\ r = job /\ worker[r] \in Live
    THEN [worker EXCEPT ![r] = "killed"] ELSE worker

\* Mutant of Kill: the call is answered only.
KillNothing ==
  /\ main = "killing" /\ main' = "idle"
  /\ worker' = worker
  /\ asking' = [asking EXCEPT ![call] = "reaping"]
  /\ UNCHANGED <<request, runs, calls, call, victim, broker, reply>>

Kill ==
  /\ main = "killing" /\ main' = "idle"
  /\ worker' = Killed(victim)
  /\ asking' = [asking EXCEPT ![call] = "reaping"]
  /\ UNCHANGED <<request, runs, calls, call, victim, broker, reply>>

\* The window is closed: Stop terminates the job and joins the thread.
Stop ==
  /\ main = "idle"
  /\ main' = "stopping" /\ victim' = job
  /\ UNCHANGED <<dart, calls, call, broker, worker, reply>>

\* Mutant of StopKill: the thread is joined only.
StopOnly ==
  /\ main = "stopping" /\ main' = "closing"
  /\ worker' = worker
  /\ UNCHANGED <<dart, calls, call, victim, broker, reply>>

StopKill ==
  /\ main = "stopping" /\ main' = "closing"
  /\ worker' = Killed(victim)
  /\ UNCHANGED <<dart, calls, call, victim, broker, reply>>

StopJoin ==
  /\ main = "closing" /\ thread = "none"
  /\ main' = "closed"
  /\ UNCHANGED <<dart, calls, call, victim, broker, worker, reply>>

-----------------------------------------------------------------------------
(* The thread of a run (Execute).                                          *)

AnswerActive(a) == Answer(active, a) /\ thread' = "answered"

\* No pipes, job, attributes or process, or no place in the job for it.
StartFails ==
  /\ thread = "starting"
  /\ AnswerActive("unavailable")
  /\ UNCHANGED <<dart, calls, platform, running, job, active, worker>>

\* The process is made, suspended, put in the job, and the job is published.
Publish ==
  /\ thread = "starting"
  /\ thread' = "resuming" /\ job' = active
  /\ worker' = [worker EXCEPT ![active] = "suspended"]
  /\ UNCHANGED <<dart, calls, platform, running, active, reply>>

Resume ==
  /\ thread = "resuming"
  /\ thread' = "sending"
  /\ worker' = [worker EXCEPT ![active] = IF @ = "suspended" THEN "working" ELSE @]
  /\ UNCHANGED <<dart, calls, platform, running, job, active, reply>>

SendRequest ==
  /\ thread = "sending" /\ worker[active] = "working"
  /\ thread' = "reading"
  /\ UNCHANGED <<dart, calls, platform, running, job, active, worker, reply>>

SendFails ==
  /\ thread = "sending" /\ worker[active] \notin Live
  /\ AnswerActive("died")
  /\ UNCHANGED <<dart, calls, platform, running, job, active, worker>>

\* The worker sends more than is read.
OverLimit ==
  /\ thread = "reading" /\ worker[active] = "working"
  /\ worker' = Killed(active)
  /\ AnswerActive("outputLimit")
  /\ UNCHANGED <<dart, calls, platform, running, job, active>>

\* The end of the output: the process is gone or has closed it.
ReadAll ==
  /\ thread = "reading" /\ worker[active] # "working"
  /\ thread' = "waiting"
  /\ UNCHANGED <<dart, calls, platform, running, job, active, worker, reply>>

\* Mutant of Exited: the end of the process is passed on as the answer.
ExitedRaw ==
  /\ thread = "waiting" /\ worker[active] \notin Live
  /\ AnswerActive(worker[active])
  /\ UNCHANGED <<dart, calls, platform, running, job, active, worker>>

Exited ==
  /\ thread = "waiting" /\ worker[active] \notin Live
  /\ AnswerActive(IF worker[active] = "finished" THEN "data" ELSE "died")
  /\ UNCHANGED <<dart, calls, platform, running, job, active, worker>>

\* Two minutes after the end of the output.
WaitTimeout ==
  /\ thread = "waiting" /\ worker[active] \in Live
  /\ worker' = Killed(active)
  /\ AnswerActive("timeout")
  /\ UNCHANGED <<dart, calls, platform, running, job, active>>

\* Closing its last handle ends a job.
Release ==
  /\ thread = "answered" /\ thread' = "none"
  /\ job' = 0 /\ running' = FALSE
  /\ worker' = Killed(job)
  /\ UNCHANGED <<dart, calls, platform, active, reply>>

-----------------------------------------------------------------------------
(* The worker process.                                                     *)

WorkerBecomes(states, state) ==
  /\ active # 0 /\ worker[active] \in states
  /\ worker' = [worker EXCEPT ![active] = state]
  /\ UNCHANGED <<dart, calls, platform, broker, reply>>

\* It crashes, meets a limit of its job or does not like its input.
WorkerFails == WorkerBecomes({"working", "mute"}, "failed")

\* It has read its input to the end and written the answer.
WorkerFinishes == thread = "reading" /\ WorkerBecomes({"working"}, "finished")

\* It closes its output and goes on.
WorkerCloses == thread = "reading" /\ WorkerBecomes({"working"}, "mute")

-----------------------------------------------------------------------------

Broker ==
  \/ RunUnavailable \/ RunBusy \/ Run \/ StartThread \/ Terminate \/ Kill
  \/ StopKill \/ StopJoin

Execute ==
  \/ StartFails \/ Publish \/ Resume \/ SendRequest \/ SendFails
  \/ ReadAll \/ Exited \/ WaitTimeout \/ Release

Next ==
  \/ \E e \in Extractors : Extract(e) \/ Settle(e) \/ Reap(e)
  \/ Broker \/ Stop
  \/ Execute \/ OverLimit
  \/ WorkerFails \/ WorkerFinishes \/ WorkerCloses

Spec == Init /\ [][Next]_vars

\* Threads run, the timer of the extractor fires, answers arrive.  A worker
\* process may hang for ever.
FairSpec ==
  /\ Spec
  /\ WF_vars(Broker) /\ WF_vars(Execute)
  /\ \A e \in Extractors : WF_vars(Settle(e)) /\ WF_vars(Reap(e))

WorkersEnd == WF_vars(WorkerFails)

-----------------------------------------------------------------------------
(* Correctness.                                                            *)

\* One worker at a time, the one of the run that is being executed: what the
\* busy answer, the join and the end of the job are for.
OneWorker ==
  /\ \A r \in Runs : worker[r] \in Live => r = active /\ thread # "none"
  /\ job # 0 => job = active /\ running

\* "Never delete the snapshot while an unconfirmed worker may use it"
\* (native_document_extractor.dart): an extractor is done only when the worker
\* of its run is gone, also when it gave up before there was a process.
FreeIsReaped ==
  \A e \in Extractors :
    asking[e] = "free" /\ request[e] # 0 => worker[request[e]] \notin Live

\* A terminate that finds the job of its run published frees the extractor, even
\* when the worker hangs.  One that comes before the job is published is lost, and
\* the run takes its time: if workers come to an end, every extraction does,
ExtractionEnds ==
  \A e \in Extractors :
    /\ main = "killing" /\ call = e /\ victim # 0 /\ victim = request[e] ~>
         asking[e] = "free" \/ Closing
    /\ WorkersEnd => (asking[e] # "free" ~> asking[e] = "free" \/ Closing)

\* and the window closes; at once when Stop has found the job, whatever the
\* worker does.
ClosingEnds ==
  /\ main = "stopping" /\ victim # 0 ~> main = "closed"
  /\ WorkersEnd => (main = "stopping" ~> main = "closed")
=============================================================================
