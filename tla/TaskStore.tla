----------------------------- MODULE TaskStore -----------------------------
(***************************************************************************)
(* The task API of the backend: POST /tasks with its deduplication, the    *)
(* in-memory TaskStore, the background coroutine run_or_enqueue that       *)
(* serialises agent runs behind an asyncio.Lock, run_agent_task, and       *)
(* POST /tasks/{id}/cancel.                                                *)
(*                                                                         *)
(* Everything runs on one asyncio event loop.  TaskStore._lock is never    *)
(* held across a suspension, so every store operation and the whole of the *)
(* submit and cancel handlers are single steps; coroutines interleave only *)
(* where they really suspend: before a background task starts, in the      *)
(* queue of the execution lock, and inside the agent.                      *)
(***************************************************************************)
EXTENDS Naturals, Sequences

CONSTANTS
  Jobs,       \* invocations of run_or_enqueue: one per accepted submission
  TaskIds,    \* task identifiers, the keys of TaskStore._tasks
  Sigs,       \* deduplication signatures: task text and sorted attachments
  FastSigs,   \* the signatures classify_intent answers without an agent
  VisionSigs, \* the signatures whose agent may call a vision tool
  CustomIds,  \* identifiers clients choose themselves (request.task_id)
  Window,     \* window_seconds of check_duplicate, in clock ticks
  NoJob,      \* no asyncio task
  NoId        \* no task

ASSUME ConstantsAssumption ==
  /\ FastSigs \subseteq Sigs /\ VisionSigs \subseteq Sigs
  /\ CustomIds \subseteq TaskIds
  /\ Window \in Nat
  /\ NoJob \notin Jobs /\ NoId \notin TaskIds

VARIABLES
  tasks,       \* TaskStore._tasks: a TaskRecord per identifier
  recent,      \* TaskStore._recent_submissions: last id and its age, per signature
  job,         \* the background coroutines: where each is, and its arguments
  holder,      \* the coroutine that holds TaskStore._exec_lock
  waiters,     \* the lock's FIFO queue of waiting coroutines
  interrupted, \* coroutines with a CancelledError on its way
  threads      \* coroutines whose asyncio.to_thread worker is still running

vars == <<tasks, recent, job, holder, waiters, interrupted, threads>>

Final     == {"completed", "failed", "cancelled"}
Active    == {"queued", "running"}
Status    == {"absent"} \cup Active \cup Final
\* rec.phase; "working" stands for every phase an agent reports on its way.
Phase     == {"absent", "queued", "understanding", "working"} \cup Final
InAgent   == {"agent", "tool"}
Pc        == {"unborn", "scheduled", "waiting", "done"} \cup InAgent

\* rec.asyncio_task is the handle by which a run can be interrupted.
TaskRecord == [status : Status, phase : Phase, handle : Jobs \cup {NoJob}]
Submission == [id : TaskIds \cup {NoId}, age : 0..Window]
Coroutine  == [pc : Pc, id : TaskIds \cup {NoId}, sig : Sigs \cup {NoId}]

TypeOK ==
  /\ tasks \in [TaskIds -> TaskRecord]
  /\ recent \in [Sigs -> Submission]
  /\ job \in [Jobs -> Coroutine]
  /\ holder \in Jobs \cup {NoJob}
  /\ waiters \in Seq(Jobs)
  /\ interrupted \subseteq Jobs
  /\ threads \subseteq Jobs

Init ==
  /\ tasks = [t \in TaskIds |-> [status |-> "absent", phase |-> "absent", handle |-> NoJob]]
  /\ recent = [s \in Sigs |-> [id |-> NoId, age |-> Window]]
  /\ job = [j \in Jobs |-> [pc |-> "unborn", id |-> NoId, sig |-> NoId]]
  /\ holder = NoJob
  /\ waiters = <<>>
  /\ interrupted = {}
  /\ threads = {}

-----------------------------------------------------------------------------
(* Helpers: the writes of update_task_state, and where a coroutine goes.    *)

Put(t, status, phase, handle) ==
  tasks' = [tasks EXCEPT ![t] = [status |-> status, phase |-> phase, handle |-> handle]]

\* Of the record a coroutine works for, found anew by its id at every write.
Record(j)                == tasks[job[j].id]
Report(j, status, phase) == Put(job[j].id, status, phase, Record(j).handle)
ReportPhase(j, phase)    == Report(j, Record(j).status, phase)
Goto(j, pc)              == job' = [job EXCEPT ![j].pc = pc]

\* Variant: check_duplicate forgets a task once the window is over.
DuplicateInWindow(s) == recent[s].id # NoId /\ recent[s].age < Window

\* check_duplicate: the signature's last task is recent, or is still active.
Duplicate(s) ==
  /\ recent[s].id # NoId
  /\ \/ recent[s].age < Window
     \/ tasks[recent[s].id].status \in Active

-----------------------------------------------------------------------------
(* The HTTP handlers.                                                       *)

\* submit_task, when it does not answer with an existing task: the identifier
\* is the client's, or a fresh uuid; an existing record under it is replaced.
Submit(j, s, t) ==
  /\ job[j].pc = "unborn"
  /\ ~Duplicate(s)
  /\ t \in CustomIds \/ tasks[t].status = "absent"
  /\ recent' = [recent EXCEPT ![s] = [id |-> t, age |-> 0]]
  /\ Put(t, "queued", "queued", NoJob)
  /\ job' = [job EXCEPT ![j] = [pc |-> "scheduled", id |-> t, sig |-> s]]
  /\ UNCHANGED <<holder, waiters, interrupted, threads>>

\* Variants: cancel_task interrupts whoever holds the lock; leaves the phase to
\* the agent.
CancelHolder(t) ==
  /\ tasks[t].status \in Active
  /\ Put(t, "cancelled", "cancelled", tasks[t].handle)
  /\ interrupted' = interrupted \cup {j \in Jobs : holder = j}
  /\ UNCHANGED <<recent, job, holder, waiters, threads>>

CancelKeepsPhase(t) ==
  /\ tasks[t].status \in Active
  /\ Put(t, "cancelled", tasks[t].phase, tasks[t].handle)
  /\ interrupted' = interrupted \cup
       {j \in Jobs : tasks[t].handle = j /\ job[j].pc # "done"}
  /\ UNCHANGED <<recent, job, holder, waiters, threads>>

\* cancel_task: refuses a finished task; interrupts the asyncio task the
\* record knows of, if that has not ended.
Cancel(t) ==
  /\ tasks[t].status \in Active
  /\ Put(t, "cancelled", "cancelled", tasks[t].handle)
  /\ interrupted' = interrupted \cup
       {j \in Jobs : tasks[t].handle = j /\ job[j].pc # "done"}
  /\ UNCHANGED <<recent, job, holder, waiters, threads>>

\* Time passes.  An age beyond the window is as good as the window.
Tick ==
  /\ \E s \in Sigs : recent[s].age < Window
  /\ recent' = [s \in Sigs |->
       [id |-> recent[s].id,
        age |-> IF recent[s].age < Window THEN recent[s].age + 1 ELSE Window]]
  /\ UNCHANGED <<tasks, job, holder, waiters, interrupted, threads>>

-----------------------------------------------------------------------------
(* run_or_enqueue.                                                          *)

\* Variant: the status is not read again after the wait for the lock.
EnterUnchecked(j) ==
  /\ Goto(j, IF job[j].sig \in FastSigs THEN "done" ELSE "agent")
  /\ IF job[j].sig \in FastSigs
       THEN Put(job[j].id, "completed", "completed", j) /\ UNCHANGED holder
       ELSE Put(job[j].id, "running", "understanding", j) /\ holder' = j

\* The body of "async with exec_lock", up to where it suspends.  A cancelled
\* task and a greeting release the lock in the same step they took it.
Enter(j) ==
  \/ /\ Record(j).status = "cancelled"
     /\ Goto(j, "done")
     /\ UNCHANGED <<tasks, holder>>
  \/ /\ Record(j).status # "cancelled"
     /\ job[j].sig \in FastSigs
     /\ Put(job[j].id, "completed", "completed", j)
     /\ Goto(j, "done")
     /\ UNCHANGED holder
  \/ /\ Record(j).status # "cancelled"
     /\ job[j].sig \notin FastSigs
     /\ Put(job[j].id, "running", "understanding", j)
     /\ Goto(j, "agent")
     /\ holder' = j

LockFree == holder = NoJob /\ waiters = <<>>

\* The background task starts and gets no further than the lock: it gives up,
\* because the task was cancelled, or it joins the queue.
StartCancelled(j) ==
  /\ job[j].pc = "scheduled"
  /\ Record(j).status = "cancelled"
  /\ Goto(j, "done")
  /\ UNCHANGED <<tasks, recent, holder, waiters, interrupted, threads>>

\* Variant: a task that finds the lock taken is marked queued, and that is all.
StartAbandoned(j) ==
  /\ job[j].pc = "scheduled"
  /\ Record(j).status # "cancelled"
  /\ ~LockFree
  /\ Report(j, "queued", "queued")
  /\ Goto(j, "done")
  /\ UNCHANGED <<recent, holder, waiters, interrupted, threads>>

\* exec_lock.locked() is false while a release is being handed to the first
\* waiter: the newcomer queues without being marked as queued.
StartWaiting(j) ==
  /\ job[j].pc = "scheduled"
  /\ Record(j).status # "cancelled"
  /\ ~LockFree
  /\ waiters' = Append(waiters, j)
  /\ Goto(j, "waiting")
  /\ IF holder # NoJob THEN Report(j, "queued", "queued") ELSE UNCHANGED tasks
  /\ UNCHANGED <<recent, holder, interrupted, threads>>

\* Variant: the task enters whether or not the lock is free.
StartUnserialised(j) ==
  /\ job[j].pc = "scheduled"
  /\ Record(j).status # "cancelled"
  /\ Enter(j)
  /\ UNCHANGED <<recent, waiters, interrupted, threads>>

StartAtOnce(j) ==
  /\ job[j].pc = "scheduled"
  /\ Record(j).status # "cancelled"
  /\ LockFree
  /\ Enter(j)
  /\ UNCHANGED <<recent, waiters, interrupted, threads>>

\* The first waiter resumes after a release.
Resume(j) ==
  /\ holder = NoJob
  /\ waiters # <<>> /\ Head(waiters) = j
  /\ waiters' = Tail(waiters)
  /\ Enter(j)
  /\ UNCHANGED <<recent, interrupted, threads>>

-----------------------------------------------------------------------------
(* run_agent_task while it awaits the agent.                                *)

\* The coroutine is resumed normally: no CancelledError is thrown into it.
Running(j, pc) == job[j].pc = pc /\ j \notin interrupted

\* on_agent_event for phases and tokens.  The agent announces the phases
\* "complete" and "failed" itself, before its result is stored.
AgentEvent(j) ==
  /\ Running(j, "agent")
  /\ \E p \in {"working", "completed", "failed"} : ReportPhase(j, p)
  /\ UNCHANGED <<recent, job, holder, waiters, interrupted, threads>>

\* A vision tool: the provider is called in a worker thread.
ToolStart(j) ==
  /\ Running(j, "agent")
  /\ job[j].sig \in VisionSigs
  /\ ReportPhase(j, "working")
  /\ Goto(j, "tool")
  /\ threads' = threads \cup {j}
  /\ UNCHANGED <<recent, holder, waiters, interrupted>>

\* The thread ends on its own; its result is awaited by the tool call.
ThreadEnd(j) ==
  /\ j \in threads
  /\ threads' = threads \ {j}
  /\ UNCHANGED <<tasks, recent, job, holder, waiters, interrupted>>

ToolEnd(j) ==
  /\ Running(j, "tool")
  /\ j \notin threads
  /\ Goto(j, "agent")
  /\ UNCHANGED <<tasks, recent, holder, waiters, interrupted, threads>>

\* agent.run returned or raised: the outcome is stored and the lock released.
AgentReturn(j) ==
  /\ Running(j, "agent")
  /\ \E s \in {"completed", "failed"} : Report(j, s, s)
  /\ Goto(j, "done")
  /\ holder' = NoJob
  /\ UNCHANGED <<recent, waiters, interrupted, threads>>

\* Variant: acquire() without a finally, so an interrupted run keeps the lock.
InterruptHoldsLock(j) ==
  /\ j \in interrupted
  /\ job[j].pc \in InAgent
  /\ Goto(j, "done")
  /\ interrupted' = interrupted \ {j}
  /\ UNCHANGED <<tasks, recent, holder, waiters, threads>>

\* The CancelledError arrives.  Its handler reads AgentStatus.CANCELLED, which
\* does not exist, and raises AttributeError: the store is not written.  A
\* worker thread is not stopped.
Interrupt(j) ==
  /\ j \in interrupted
  /\ job[j].pc \in InAgent
  /\ Goto(j, "done")
  /\ holder' = NoJob
  /\ interrupted' = interrupted \ {j}
  /\ UNCHANGED <<tasks, recent, waiters, threads>>

-----------------------------------------------------------------------------
Start(j) == StartCancelled(j) \/ StartWaiting(j) \/ StartAtOnce(j)

Next ==
  \/ \E j \in Jobs, s \in Sigs, t \in TaskIds : Submit(j, s, t)
  \/ \E t \in TaskIds : Cancel(t)
  \/ Tick
  \/ \E j \in Jobs :
       \/ StartCancelled(j) \/ StartWaiting(j) \/ StartAtOnce(j) \/ Resume(j)
       \/ AgentEvent(j) \/ ToolStart(j) \/ ThreadEnd(j) \/ ToolEnd(j)
       \/ AgentReturn(j) \/ Interrupt(j)

\* The event loop runs every ready coroutine, and the call of a vision thread
\* returns, within its limits.  Clients owe nothing, and neither does the agent:
\* it may await a model that never answers, generate() having no time limit.
Fairness ==
  \A j \in Jobs :
    /\ WF_vars(Start(j)) /\ WF_vars(Resume(j))
    /\ WF_vars(ThreadEnd(j)) /\ WF_vars(ToolEnd(j))
    /\ WF_vars(Interrupt(j))

Spec     == Init /\ [][Next]_vars
FairSpec == Spec /\ Fairness

-----------------------------------------------------------------------------
(* Properties.  All but the last one presuppose that identifiers are uuids,  *)
(* which is what the frontend relies on: CustomIds = {}.                    *)

\* Born: jobs that have been submitted.
Born == {j \in Jobs : job[j].pc # "unborn"}

\* The execution lock is held exactly by the coroutine that is inside the
\* agent, every waiting coroutine is in the queue exactly once, and nobody
\* waits on a lock nobody will release: no exit path of run_or_enqueue
\* forgets the lock or its place in the queue.
LockDiscipline ==
  /\ \A j \in Jobs : job[j].pc \in InAgent <=> holder = j
  /\ \A j \in Jobs : job[j].pc = "waiting" <=> \E n \in DOMAIN waiters : waiters[n] = j
  /\ \A m, n \in DOMAIN waiters : waiters[m] = waiters[n] => m = n

\* A task is shown as running exactly while its own coroutine holds the
\* execution lock and has not been told to stop; so at most one task runs.
RunningHoldsLock ==
  \A t \in TaskIds :
    tasks[t].status = "running" <=>
      \E j \in Born : holder = j /\ job[j].id = t /\ j \notin interrupted

\* A queued task is never orphaned: a coroutine that has not yet passed the
\* lock will pick it up.
QueuedHasRunner ==
  \A t \in TaskIds :
    tasks[t].status = "queued" =>
      \E j \in Jobs : job[j].id = t /\ job[j].pc \in {"scheduled", "waiting"}

\* A CancelledError is only ever on its way to the agent of a task that was
\* itself cancelled: cancel_task never interrupts somebody else's run.
InterruptsOwnTask ==
  \A j \in interrupted : job[j].pc \in InAgent /\ Record(j).status = "cancelled"

\* The phase a client polls agrees with the status once that is final, although
\* the agent's callbacks write the phase without looking at the status.
FinalPhaseAgrees ==
  \A t \in TaskIds : tasks[t].status \in Final => tasks[t].phase = tasks[t].status

\* Deduplication: two tasks with one signature are never queued or running
\* together, whatever the age of the first.
NoDuplicateActive ==
  \A j, k \in Born :
    /\ j # k /\ job[j].sig = job[k].sig
    /\ Record(j).status \in Active
    => Record(k).status \notin Active

\* A final record is never touched again: no late completion, failure, phase
\* event or start overwrites a cancellation, or the other way round.
FinalIsFinal ==
  [][\A t \in TaskIds : tasks[t].status \in Final =>
       tasks'[t].status = tasks[t].status /\ tasks'[t].phase = tasks[t].phase]_tasks

\* The store implements the life cycle the API promises.
Lifecycle == INSTANCE TaskLifecycle WITH status <- [t \in TaskIds |-> tasks[t].status]
ImplementsLifecycle == Lifecycle!Spec

\* No agent stays in its run for ever: what AgentRun!Terminates owes to a model
\* that answers, and cancel_task to an agent whose model does not.
NoAgentHangs == \A j \in Jobs : []<>(job[j].pc \notin InAgent)

\* Every accepted task reaches a final status, however it is cancelled and
\* whoever is queued before it: the one thing that can hold it up is an agent,
\* its own or one before it in the queue, that never returns.  Neither the lock,
\* nor the queue, nor a run that was interrupted or had its task cancelled can.
EveryTaskSettles ==
  NoAgentHangs =>
    \A t \in TaskIds : tasks[t].status \in Active ~> tasks[t].status \in Final

\* Cancelling a running task frees the execution lock for the next one.
CancelFreesLock ==
  \A j \in Jobs : j \in interrupted ~> holder # j

\* "to prevent duplicate executions against Ollama": no two submissions of one
\* signature have model work in progress together, in the agent or in a thread.
Working(j) == job[j].pc \in InAgent \/ j \in threads
NoDuplicateExecution ==
  \A j, k \in Born :
    j # k /\ job[j].sig = job[k].sig => ~(Working(j) /\ Working(k))

-----------------------------------------------------------------------------
(* Why they hold: the inductive invariant of the uuid case.                 *)

\* Records and coroutines correspond one to one.
OneJobPerId ==
  /\ \A j \in Born : job[j].id \in TaskIds /\ job[j].sig \in Sigs
  /\ \A j \in Born : Record(j).status # "absent"
  /\ \A j, k \in Born : job[j].id = job[k].id => j = k
  /\ \A t \in TaskIds : tasks[t].status # "absent" => \E j \in Born : job[j].id = t

\* What the record can say at each stage of its coroutine.
StageOK ==
  \A j \in Born :
    /\ job[j].pc \in {"scheduled", "waiting"} =>
         Record(j).status \in {"queued", "cancelled"} /\ Record(j).handle = NoJob
    /\ job[j].pc \in InAgent =>
         /\ Record(j).handle = j
         /\ Record(j).status = IF j \in interrupted THEN "cancelled" ELSE "running"
    /\ job[j].pc = "done" => Record(j).status \in Final

\* Deduplication still knows every task that is queued or running.
Remembered ==
  \A j \in Born : Record(j).status \in Active => recent[job[j].sig].id = job[j].id

\* The inductive invariant: no step of any coroutine, handler or thread leaves
\* the correspondence of records, coroutines, lock, queue and deduplication map.
StoreInv ==
  /\ TypeOK
  /\ LockDiscipline
  /\ OneJobPerId
  /\ StageOK
  /\ InterruptsOwnTask
  /\ FinalPhaseAgrees
  /\ Remembered
=============================================================================
