-------------------------- MODULE TaskStoreProofs --------------------------
(***************************************************************************)
(* Proofs about TaskStore when every identifier is a uuid (CustomIds = {}):*)
(* the inductive invariant StoreInv, the invariants that follow from it,   *)
(* the finality of a final record, and the implementation of the life      *)
(* cycle of module TaskLifecycle.                                          *)
(***************************************************************************)
EXTENDS TaskStore, TLAPS

(* The queue of the execution lock, as a set of positions. *)

LEMMA AppendFacts ==
  ASSUME NEW S, NEW q \in Seq(S), NEW x \in S
  PROVE  /\ Append(q, x) \in Seq(S)
         /\ DOMAIN Append(q, x) = DOMAIN q \cup {Len(q) + 1}
         /\ Append(q, x)[Len(q) + 1] = x
         /\ \A n \in DOMAIN q : Append(q, x)[n] = q[n] /\ n # Len(q) + 1
  OBVIOUS

LEMMA TailFacts ==
  ASSUME NEW S, NEW q \in Seq(S), q # <<>>
  PROVE  /\ Tail(q) \in Seq(S)
         /\ Head(q) = q[1] /\ 1 \in DOMAIN q
         /\ \A n \in DOMAIN Tail(q) : n + 1 \in DOMAIN q /\ n + 1 # 1 /\ Tail(q)[n] = q[n + 1]
         /\ \A n \in DOMAIN q : n # 1 => n - 1 \in DOMAIN Tail(q) /\ Tail(q)[n - 1] = q[n]
  OBVIOUS

(* The two ways a step writes a function of records. *)

LEMMA PutFacts ==
  ASSUME TypeOK, NEW t \in TaskIds, NEW st \in Status, NEW ph \in Phase,
         NEW h \in Jobs \cup {NoJob}, Put(t, st, ph, h)
  PROVE  /\ tasks' \in [TaskIds -> TaskRecord]
         /\ tasks'[t].status = st /\ tasks'[t].phase = ph /\ tasks'[t].handle = h
         /\ \A u \in TaskIds : u # t => tasks'[u] = tasks[u]
BY DEF TypeOK, TaskRecord, Put

LEMMA GotoFacts ==
  ASSUME TypeOK, NEW j \in Jobs, NEW p \in Pc, Goto(j, p)
  PROVE  /\ job' \in [Jobs -> Coroutine]
         /\ job'[j].pc = p /\ job'[j].id = job[j].id /\ job'[j].sig = job[j].sig
         /\ \A k \in Jobs : k # j => job'[k] = job[k]
BY DEF TypeOK, Coroutine, Goto

-----------------------------------------------------------------------------
(* Every action preserves the invariant. *)

\* The initial state: no record, no coroutine, a free lock.
LEMMA InitInv == ASSUME Init PROVE StoreInv
BY ConstantsAssumption
   DEF Init, StoreInv, TypeOK, TaskRecord, Submission, Coroutine,
       LockDiscipline, OneJobPerId, StageOK, InterruptsOwnTask, FinalPhaseAgrees, Remembered, Born, InAgent, Status, Phase, Pc, Final, Active, Record
\* A new record under a fresh identifier.
LEMMA SubmitInv ==
  ASSUME CustomIds = {}, StoreInv, NEW j \in Jobs, NEW s \in Sigs, NEW t \in TaskIds,
         Submit(j, s, t)
  PROVE  StoreInv'
<1> USE ConstantsAssumption
        DEF Submit, Put, StoreInv, Born, Record, InAgent, Active, Final
<1>1. TypeOK'
  BY DEF TypeOK, TaskRecord, Submission, Coroutine, Status, Phase, Pc
<1>2. LockDiscipline'
  BY DEF TypeOK, LockDiscipline
<1>3. OneJobPerId'
  BY DEF TypeOK, OneJobPerId
<1>4. StageOK'
  BY DEF TypeOK, StageOK, OneJobPerId, InterruptsOwnTask
<1>5. InterruptsOwnTask'
  BY DEF TypeOK, InterruptsOwnTask, OneJobPerId
<1>6. FinalPhaseAgrees'
  BY DEF TypeOK, FinalPhaseAgrees
<1>7. Remembered'
  BY DEF TypeOK, Remembered, OneJobPerId, Duplicate
<1> QED BY <1>1, <1>2, <1>3, <1>4, <1>5, <1>6, <1>7

\* A cancellation marks one record and interrupts at most its own coroutine.
LEMMA CancelInv ==
  ASSUME StoreInv, NEW t \in TaskIds, Cancel(t)
  PROVE  StoreInv'
<1> USE ConstantsAssumption DEF StoreInv, Born, Record, InAgent, Active, Final
<1>1. /\ tasks' \in [TaskIds -> TaskRecord]
      /\ tasks'[t].status = "cancelled" /\ tasks'[t].phase = "cancelled"
      /\ tasks'[t].handle = tasks[t].handle
      /\ \A u \in TaskIds : u # t => tasks'[u] = tasks[u]
  <2>1. tasks[t].handle \in Jobs \cup {NoJob}
    BY DEF TypeOK, TaskRecord
  <2> QED BY <2>1, PutFacts DEF Cancel, Status, Phase
<1>2. /\ UNCHANGED <<recent, job, holder, waiters, threads>>
      /\ tasks[t].status \in {"queued", "running"}
      /\ interrupted' = interrupted \cup
           {j \in Jobs : tasks[t].handle = j /\ job[j].pc # "done"}
  BY DEF Cancel
<1>3. TypeOK'
  BY <1>1, <1>2 DEF TypeOK
<1>4. LockDiscipline'
  BY <1>2 DEF LockDiscipline
<1>5. OneJobPerId'
  BY <1>1, <1>2 DEF OneJobPerId
<1>6. PICK i \in Jobs : i \in Born /\ job[i].id = t
  BY <1>2 DEF OneJobPerId
<1>7. \A j \in Born : j # i => job[j].id \in TaskIds /\ job[j].id # t
  BY <1>6 DEF OneJobPerId
<1>8. \A j \in interrupted' : j \in interrupted \/ (j = i /\ job[i].pc \in InAgent)
  <2>1. ASSUME NEW j \in interrupted', j \notin interrupted
        PROVE  j = i /\ job[i].pc \in InAgent
    <3>1. tasks[t].handle = j /\ j \in Jobs
      BY <1>2, <2>1
    <3>2. job[i].pc \in InAgent
      BY <1>2, <1>6, <3>1 DEF StageOK, TypeOK, Coroutine, Pc
    <3> QED BY <1>6, <3>1, <3>2 DEF StageOK
  <2> QED BY <2>1
<1>9. StageOK'
  BY <1>1, <1>2, <1>6, <1>7, <1>8 DEF StageOK, TypeOK
<1>10. InterruptsOwnTask'
  BY <1>1, <1>2, <1>6, <1>7, <1>8 DEF InterruptsOwnTask, TypeOK
<1>11. FinalPhaseAgrees'
  BY <1>1 DEF FinalPhaseAgrees
<1>12. Remembered'
  BY <1>1, <1>2, <1>6, <1>7 DEF Remembered
<1> QED BY <1>3, <1>4, <1>5, <1>9, <1>10, <1>11, <1>12

\* Ages move, identifiers do not.
LEMMA TickInv == ASSUME StoreInv, Tick PROVE StoreInv'
<1> USE ConstantsAssumption DEF StoreInv
<1>1. UNCHANGED <<tasks, job, holder, waiters, interrupted, threads>>
  BY DEF Tick
<1>2. /\ recent' \in [Sigs -> Submission]
      /\ \A s \in Sigs : recent'[s].id = recent[s].id
  <2>1. ASSUME NEW s \in Sigs
        PROVE  recent'[s] \in Submission /\ recent'[s].id = recent[s].id
    BY DEF Tick, TypeOK, Submission
  <2> QED BY <2>1 DEF Tick
<1>3. TypeOK'
  BY <1>1, <1>2 DEF TypeOK
<1>4. Remembered'
  BY <1>1, <1>2 DEF Remembered, OneJobPerId, Born, Record
<1> QED
  BY <1>1, <1>3, <1>4
     DEF LockDiscipline, OneJobPerId, StageOK, InterruptsOwnTask, FinalPhaseAgrees, Born, Record
-----------------------------------------------------------------------------
(* A step of one coroutine moves it and writes its own record. *)

\* The coroutine j, being the only one with its identifier, changes nobody
\* else's record; StoreInv survives if what it writes fits its new stage.
LEMMA OwnStep ==
  ASSUME StoreInv, NEW j \in Born,
         NEW p \in Pc \ {"unborn"}, Goto(j, p),
         NEW st \in Status \ {"absent"}, NEW ph \in Phase, NEW h \in Jobs \cup {NoJob},
         Put(job[j].id, st, ph, h),
         UNCHANGED recent, waiters' \in Seq(Jobs), holder' \in Jobs \cup {NoJob},
         threads' \subseteq Jobs, LockDiscipline',
         interrupted' \in {interrupted, interrupted \ {j}},
         st \in Active => Record(j).status \in Active,
         st \in Final => ph = st,
         p \in {"scheduled", "waiting"} => st \in {"queued", "cancelled"} /\ h = NoJob,
         p \in InAgent => h = j /\ st = IF j \in interrupted' THEN "cancelled" ELSE "running",
         p = "done" => st \in Final,
         j \in interrupted' => p \in InAgent /\ st = "cancelled"
  PROVE  StoreInv'
<1> USE DEF StoreInv
<1>1. j \in Jobs /\ job[j].id \in TaskIds
  BY DEF Born, OneJobPerId
<1>2. /\ tasks' \in [TaskIds -> TaskRecord]
      /\ tasks'[job[j].id].status = st /\ tasks'[job[j].id].phase = ph
      /\ tasks'[job[j].id].handle = h
      /\ \A u \in TaskIds : u # job[j].id => tasks'[u] = tasks[u]
  BY <1>1, PutFacts
<1>3. /\ job' \in [Jobs -> Coroutine]
      /\ job'[j].pc = p /\ job'[j].id = job[j].id /\ job'[j].sig = job[j].sig
      /\ \A k \in Jobs : k # j => job'[k] = job[k]
  BY <1>1, GotoFacts
<1>4. Born' = Born
  BY <1>3 DEF Born
<1>5. /\ Record(j)'.status = st /\ Record(j)'.phase = ph /\ Record(j)'.handle = h
      /\ \A k \in Born : k # j => job'[k] = job[k] /\ Record(k)' = Record(k)
  BY <1>1, <1>2, <1>3 DEF Record, OneJobPerId, Born
<1>6. TypeOK'
  BY <1>2, <1>3 DEF TypeOK
<1>7. OneJobPerId'
  <2>1. \A k \in Born : job'[k].id = job[k].id /\ job'[k].sig = job[k].sig
    BY <1>3, <1>5
  <2>2. \A k \in Born : Record(k)'.status # "absent"
    BY <1>5 DEF OneJobPerId
  <2>3. \A t \in TaskIds : tasks'[t].status # "absent" => \E k \in Born : job[k].id = t
    BY <1>2 DEF OneJobPerId
  <2> QED BY <1>4, <2>1, <2>2, <2>3 DEF OneJobPerId
<1>8. StageOK'
  <2>1. \A k \in Born : k # j => (k \in interrupted' <=> k \in interrupted)
    OBVIOUS
  <2> QED BY <1>3, <1>4, <1>5, <2>1 DEF StageOK, InAgent
<1>9. InterruptsOwnTask'
  <2>1. ASSUME NEW k \in interrupted'
        PROVE  job'[k].pc \in InAgent /\ Record(k)'.status = "cancelled"
    <3>1. k \in interrupted /\ k \in Born
      BY DEF InterruptsOwnTask, TypeOK, Born, InAgent
    <3> QED BY <1>3, <1>5, <3>1 DEF InterruptsOwnTask
  <2> QED BY <2>1 DEF InterruptsOwnTask, InAgent
<1>10. FinalPhaseAgrees'
  BY <1>1, <1>2 DEF FinalPhaseAgrees, Final
<1>11. Remembered'
  BY <1>3, <1>4, <1>5 DEF Remembered, Active
<1> QED BY <1>6, <1>7, <1>8, <1>9, <1>10, <1>11

\* A step that leaves the record alone writes what is there already.
LEMMA NoPut ==
  ASSUME TypeOK, NEW t \in TaskIds, UNCHANGED tasks
  PROVE  /\ Put(t, tasks[t].status, tasks[t].phase, tasks[t].handle)
         /\ tasks[t].status \in Status /\ tasks[t].phase \in Phase
         /\ tasks[t].handle \in Jobs \cup {NoJob}
BY DEF TypeOK, TaskRecord, Put

\* A step that does not move the coroutine leaves it where it is.
LEMMA NoGoto ==
  ASSUME TypeOK, NEW j \in Jobs, UNCHANGED job
  PROVE  Goto(j, job[j].pc) /\ job[j].pc \in Pc
BY DEF TypeOK, Coroutine, Goto
\* What a coroutine that has been submitted may rely on.
LEMMA BornFacts ==
  ASSUME StoreInv, NEW j \in Jobs, job[j].pc # "unborn"
  PROVE  /\ j \in Born /\ job[j].id \in TaskIds /\ job[j].pc \in Pc
         /\ Record(j).status \in Status \ {"absent"} /\ Record(j).phase \in Phase
         /\ Record(j).handle \in Jobs \cup {NoJob}
BY DEF StoreInv, OneJobPerId, TypeOK, TaskRecord, Coroutine, Born, Record

\* A cancelled task's coroutine gives up before the lock.
LEMMA StartCancelledInv ==
  ASSUME StoreInv, NEW j \in Jobs, StartCancelled(j)
  PROVE  StoreInv'
<1> USE DEF StartCancelled
<1>1. j \in Born /\ job[j].id \in TaskIds
  BY BornFacts
<1>2. Put(job[j].id, Record(j).status, Record(j).phase, Record(j).handle)
  BY <1>1, NoPut DEF StoreInv, Record
<1>3. job'[j].pc = "done" /\ \A k \in Jobs : k # j => job'[k] = job[k]
  BY GotoFacts DEF StoreInv, Pc
<1>4. LockDiscipline'
  BY <1>3 DEF StoreInv, LockDiscipline, InAgent
<1>5. j \notin interrupted
  BY DEF StoreInv, InterruptsOwnTask, InAgent
<1>6. Record(j).status = "cancelled" => Record(j).phase = "cancelled"
  BY <1>1 DEF StoreInv, FinalPhaseAgrees, Final, Record
<1>7. /\ Record(j).status \in Status \ {"absent"} /\ Record(j).phase \in Phase
      /\ Record(j).handle \in Jobs \cup {NoJob}
  BY BornFacts
<1>8. /\ UNCHANGED recent /\ waiters' \in Seq(Jobs) /\ holder' \in Jobs \cup {NoJob}
      /\ threads' \subseteq Jobs /\ interrupted' = interrupted
  BY DEF StoreInv, TypeOK
<1> QED
  BY <1>1, <1>2, <1>4, <1>5, <1>6, <1>7, <1>8, OwnStep
     DEF Pc, InAgent, Active, Final

\* A coroutine joins the queue of the lock.
LEMMA StartWaitingInv ==
  ASSUME StoreInv, NEW j \in Jobs, StartWaiting(j)
  PROVE  StoreInv'
<1> USE DEF StartWaiting
<1>1. j \in Born /\ job[j].id \in TaskIds
  BY BornFacts
<1>2. /\ Record(j).status = "queued" /\ Record(j).handle = NoJob
      /\ j \notin interrupted
  BY <1>1 DEF StoreInv, StageOK, InterruptsOwnTask, InAgent
<1>3. PICK ph \in Phase : Put(job[j].id, "queued", ph, NoJob)
  <2>1. CASE holder # NoJob
    BY <1>2, <2>1 DEF Report, Phase
  <2>2. CASE holder = NoJob
    BY <1>1, <1>2, <2>2, NoPut, BornFacts DEF StoreInv, Record
  <2> QED BY <2>1, <2>2
<1>4. job'[j].pc = "waiting" /\ \A k \in Jobs : k # j => job'[k] = job[k]
  BY GotoFacts DEF StoreInv, Pc
<1>5. /\ waiters' \in Seq(Jobs)
      /\ DOMAIN waiters' = DOMAIN waiters \cup {Len(waiters) + 1}
      /\ waiters'[Len(waiters) + 1] = j
      /\ \A n \in DOMAIN waiters : waiters'[n] = waiters[n] /\ n # Len(waiters) + 1
  BY AppendFacts DEF StoreInv, TypeOK
<1>6. LockDiscipline'
  <2>1. \A n \in DOMAIN waiters : waiters[n] # j
    BY DEF StoreInv, LockDiscipline
  <2>2. \A k \in Jobs : job'[k].pc \in InAgent <=> holder' = k
    BY <1>4 DEF StoreInv, LockDiscipline, InAgent
  <2>3. \A k \in Jobs : job'[k].pc = "waiting" <=> \E n \in DOMAIN waiters' : waiters'[n] = k
    BY <1>4, <1>5, <2>1 DEF StoreInv, LockDiscipline
  <2>4. \A m, n \in DOMAIN waiters' : waiters'[m] = waiters'[n] => m = n
    BY <1>5, <2>1 DEF StoreInv, LockDiscipline
  <2> QED BY <2>2, <2>3, <2>4 DEF LockDiscipline, InAgent
<1> QED
  BY <1>1, <1>2, <1>3, <1>5, <1>6, OwnStep
     DEF StoreInv, TypeOK, Pc, Status, InAgent, Active, Final
\* A coroutine takes the free lock, once it is in the queue no longer.
LEMMA EnterInv ==
  ASSUME StoreInv, NEW j \in Jobs, job[j].pc \in {"scheduled", "waiting"},
         holder = NoJob, Enter(j), UNCHANGED <<recent, interrupted, threads>>,
         waiters' \in Seq(Jobs),
         \A k \in Jobs :
           k # j /\ job[k].pc = "waiting" <=> \E n \in DOMAIN waiters' : waiters'[n] = k,
         \A m, n \in DOMAIN waiters' : waiters'[m] = waiters'[n] => m = n
  PROVE  StoreInv'
<1>1. j \in Born /\ job[j].id \in TaskIds
  BY BornFacts
<1>2. /\ Record(j).status \in {"queued", "cancelled"} /\ Record(j).handle = NoJob
      /\ j \notin interrupted
  BY <1>1 DEF StoreInv, StageOK, InterruptsOwnTask, InAgent
<1>3. /\ UNCHANGED recent /\ threads' \subseteq Jobs /\ interrupted' = interrupted
  BY DEF StoreInv, TypeOK
<1>4. \A k \in Jobs : job[k].pc \notin InAgent
  BY ConstantsAssumption DEF StoreInv, LockDiscipline
<1>5. CASE Record(j).status = "cancelled"
  <2>1. UNCHANGED tasks /\ holder' = NoJob /\ Goto(j, "done")
    BY <1>5 DEF Enter
  <2>2. /\ Put(job[j].id, "cancelled", Record(j).phase, NoJob)
        /\ Record(j).phase \in Phase /\ Record(j).phase = "cancelled"
    BY <1>1, <1>2, <1>5, <2>1, NoPut, BornFacts
       DEF StoreInv, FinalPhaseAgrees, Final, Record
  <2>3. job'[j].pc = "done" /\ \A k \in Jobs : k # j => job'[k] = job[k]
    BY <2>1, GotoFacts DEF StoreInv, Pc
  <2>4. LockDiscipline'
    BY <1>4, <2>1, <2>3, ConstantsAssumption DEF LockDiscipline, InAgent
  <2> QED
    BY <1>1, <1>2, <1>3, <1>5, <2>1, <2>2, <2>4, OwnStep DEF Pc, Status, InAgent, Active, Final
<1>6. CASE Record(j).status # "cancelled" /\ job[j].sig \in FastSigs
  <2>1. Put(job[j].id, "completed", "completed", j) /\ holder' = NoJob /\ Goto(j, "done")
    BY <1>6 DEF Enter
  <2>2. job'[j].pc = "done" /\ \A k \in Jobs : k # j => job'[k] = job[k]
    BY <2>1, GotoFacts DEF StoreInv, Pc
  <2>3. LockDiscipline'
    BY <1>4, <2>1, <2>2, ConstantsAssumption DEF LockDiscipline, InAgent
  <2> QED
    BY <1>1, <1>2, <1>3, <2>1, <2>3, OwnStep DEF Pc, Status, Phase, InAgent, Active, Final
<1>7. CASE Record(j).status # "cancelled" /\ job[j].sig \notin FastSigs
  <2>1. Put(job[j].id, "running", "understanding", j) /\ holder' = j /\ Goto(j, "agent")
    BY <1>7 DEF Enter
  <2>2. job'[j].pc = "agent" /\ \A k \in Jobs : k # j => job'[k] = job[k]
    BY <2>1, GotoFacts DEF StoreInv, Pc, InAgent
  <2>3. LockDiscipline'
    BY <1>4, <2>1, <2>2 DEF LockDiscipline, InAgent
  <2> QED
    BY <1>1, <1>2, <1>3, <1>7, <2>1, <2>3, OwnStep
       DEF Pc, Status, Phase, InAgent, Active, Final
<1> QED BY <1>5, <1>6, <1>7

LEMMA StartAtOnceInv ==
  ASSUME StoreInv, NEW j \in Jobs, StartAtOnce(j)
  PROVE  StoreInv'
<1>1. /\ job[j].pc = "scheduled" /\ holder = NoJob /\ waiters = <<>> /\ Enter(j)
      /\ UNCHANGED <<recent, waiters, interrupted, threads>>
  BY DEF StartAtOnce, LockFree
<1>2. \A k \in Jobs : job[k].pc # "waiting"
  BY <1>1 DEF StoreInv, LockDiscipline
<1> QED BY <1>1, <1>2, EnterInv DEF StoreInv, TypeOK

LEMMA ResumeInv ==
  ASSUME StoreInv, NEW j \in Jobs, Resume(j)
  PROVE  StoreInv'
<1>1. /\ holder = NoJob /\ waiters # <<>> /\ Head(waiters) = j /\ waiters' = Tail(waiters)
      /\ Enter(j) /\ UNCHANGED <<recent, interrupted, threads>>
  BY DEF Resume
<1>2. /\ waiters' \in Seq(Jobs)
      /\ waiters[1] = j /\ 1 \in DOMAIN waiters
      /\ \A n \in DOMAIN waiters' :
           n + 1 \in DOMAIN waiters /\ n + 1 # 1 /\ waiters'[n] = waiters[n + 1]
      /\ \A n \in DOMAIN waiters :
           n # 1 => n - 1 \in DOMAIN waiters' /\ waiters'[n - 1] = waiters[n]
  BY <1>1, TailFacts DEF StoreInv, TypeOK
<1>3. job[j].pc = "waiting"
  BY <1>2 DEF StoreInv, LockDiscipline
<1>4. \A m, n \in DOMAIN waiters : waiters[m] = waiters[n] => m = n
  BY DEF StoreInv, LockDiscipline
<1>5. ASSUME NEW k \in Jobs
      PROVE  k # j /\ job[k].pc = "waiting" <=> \E n \in DOMAIN waiters' : waiters'[n] = k
  <2>1. job[k].pc = "waiting" <=> \E n \in DOMAIN waiters : waiters[n] = k
    BY DEF StoreInv, LockDiscipline
  <2> QED BY <1>2, <1>4, <2>1
<1>6. ASSUME NEW m \in DOMAIN waiters', NEW n \in DOMAIN waiters', waiters'[m] = waiters'[n]
      PROVE  m = n
  <2>1. m + 1 = n + 1
    BY <1>2, <1>4, <1>6
  <2>2. m \in Nat /\ n \in Nat
    BY <1>2
  <2> QED BY <2>1, <2>2
<1> QED BY <1>1, <1>2, <1>3, <1>5, <1>6, EnterInv
-----------------------------------------------------------------------------
(* Steps under the lock. *)

\* A coroutine the agent runs for, and that has not been interrupted, holds
\* the lock and shows its task as running.
LEMMA AgentFacts ==
  ASSUME StoreInv, NEW j \in Jobs, job[j].pc \in InAgent
  PROVE  /\ j \in Born /\ job[j].id \in TaskIds /\ holder = j
         /\ Record(j).handle = j /\ Record(j).phase \in Phase
         /\ Record(j).status = IF j \in interrupted THEN "cancelled" ELSE "running"
         /\ Record(j).status = "cancelled" => Record(j).phase = "cancelled"
<1>1. j \in Born /\ job[j].id \in TaskIds /\ Record(j).phase \in Phase
  BY BornFacts DEF InAgent
<1>2. Record(j).status = "cancelled" => Record(j).phase = "cancelled"
  BY <1>1 DEF StoreInv, FinalPhaseAgrees, Final, Record
<1> QED BY <1>1, <1>2 DEF StoreInv, StageOK, LockDiscipline

\* The callbacks of a running agent write the phase only.
LEMMA AgentEventInv ==
  ASSUME StoreInv, NEW j \in Jobs, AgentEvent(j)
  PROVE  StoreInv'
<1>1. /\ job[j].pc = "agent" /\ j \notin interrupted
      /\ UNCHANGED <<recent, job, holder, waiters, interrupted, threads>>
  BY DEF AgentEvent, Running
<1>2. /\ j \in Born /\ job[j].id \in TaskIds
      /\ Record(j).handle = j /\ Record(j).status = "running"
  BY <1>1, AgentFacts DEF InAgent
<1>3. PICK ph \in Phase : Put(job[j].id, "running", ph, j)
  BY <1>2 DEF AgentEvent, ReportPhase, Report, Phase, Final
<1>4. Goto(j, "agent")
  BY <1>1, NoGoto DEF StoreInv
<1>5. LockDiscipline'
  BY <1>1 DEF StoreInv, LockDiscipline
<1>6. /\ waiters' \in Seq(Jobs) /\ holder' \in Jobs \cup {NoJob}
      /\ threads' \subseteq Jobs /\ interrupted' = interrupted /\ UNCHANGED recent
  BY <1>1 DEF StoreInv, TypeOK
<1> QED
  BY <1>1, <1>2, <1>3, <1>4, <1>5, <1>6, OwnStep DEF Pc, Status, InAgent, Active, Final

LEMMA ToolStartInv ==
  ASSUME StoreInv, NEW j \in Jobs, ToolStart(j)
  PROVE  StoreInv'
<1>1. /\ job[j].pc = "agent" /\ j \notin interrupted /\ Goto(j, "tool")
      /\ threads' = threads \cup {j} /\ UNCHANGED <<recent, holder, waiters, interrupted>>
  BY DEF ToolStart, Running
<1>2. /\ j \in Born /\ job[j].id \in TaskIds
      /\ Record(j).handle = j /\ Record(j).status = "running"
  BY <1>1, AgentFacts DEF InAgent
<1>3. Put(job[j].id, "running", "working", j)
  BY <1>2 DEF ToolStart, ReportPhase, Report
<1>4. job'[j].pc = "tool" /\ \A k \in Jobs : k # j => job'[k] = job[k]
  BY <1>1, GotoFacts DEF StoreInv, Pc, InAgent
<1>5. LockDiscipline'
  BY <1>1, <1>4 DEF StoreInv, LockDiscipline, InAgent
<1>6. /\ waiters' \in Seq(Jobs) /\ holder' \in Jobs \cup {NoJob}
      /\ threads' \subseteq Jobs /\ interrupted' = interrupted /\ UNCHANGED recent
  BY <1>1 DEF StoreInv, TypeOK
<1> QED
  BY <1>1, <1>2, <1>3, <1>5, <1>6, OwnStep DEF Pc, Status, Phase, InAgent, Active, Final

LEMMA ThreadEndInv ==
  ASSUME StoreInv, NEW j \in Jobs, ThreadEnd(j)
  PROVE  StoreInv'
BY DEF ThreadEnd, StoreInv, TypeOK, LockDiscipline, OneJobPerId, StageOK, InterruptsOwnTask,
       FinalPhaseAgrees, Remembered, Born, Record

LEMMA ToolEndInv ==
  ASSUME StoreInv, NEW j \in Jobs, ToolEnd(j)
  PROVE  StoreInv'
<1>1. /\ job[j].pc = "tool" /\ j \notin interrupted /\ Goto(j, "agent")
      /\ UNCHANGED <<tasks, recent, holder, waiters, interrupted, threads>>
  BY DEF ToolEnd, Running
<1>2. /\ j \in Born /\ job[j].id \in TaskIds /\ Record(j).phase \in Phase
      /\ Record(j).handle = j /\ Record(j).status = "running"
  BY <1>1, AgentFacts DEF InAgent
<1>3. Put(job[j].id, "running", Record(j).phase, j)
  BY <1>1, <1>2, NoPut DEF StoreInv, Record
<1>4. job'[j].pc = "agent" /\ \A k \in Jobs : k # j => job'[k] = job[k]
  BY <1>1, GotoFacts DEF StoreInv, Pc, InAgent
<1>5. LockDiscipline'
  BY <1>1, <1>4 DEF StoreInv, LockDiscipline, InAgent
<1>6. /\ waiters' \in Seq(Jobs) /\ holder' \in Jobs \cup {NoJob}
      /\ threads' \subseteq Jobs /\ interrupted' = interrupted /\ UNCHANGED recent
  BY <1>1 DEF StoreInv, TypeOK
<1> QED
  BY <1>1, <1>2, <1>3, <1>5, <1>6, OwnStep DEF Pc, Status, InAgent, Active, Final

\* The lock is released, and nobody else was under it.
LEMMA ReleaseFacts ==
  ASSUME StoreInv, NEW j \in Jobs, job[j].pc \in InAgent,
         Goto(j, "done"), holder' = NoJob, UNCHANGED waiters
  PROVE  LockDiscipline'
<1>1. job'[j].pc = "done" /\ \A k \in Jobs : k # j => job'[k] = job[k]
  BY GotoFacts DEF StoreInv, Pc
<1>2. \A k \in Jobs : k # j => job[k].pc \notin InAgent
  BY DEF StoreInv, LockDiscipline
<1>3. \A k \in Jobs : job'[k].pc \in InAgent <=> holder' = k
  BY <1>1, <1>2, ConstantsAssumption DEF InAgent
<1>4. \A k \in Jobs : job'[k].pc = "waiting" <=> \E n \in DOMAIN waiters' : waiters'[n] = k
  BY <1>1 DEF StoreInv, LockDiscipline, InAgent
<1> QED BY <1>3, <1>4 DEF StoreInv, LockDiscipline, InAgent

LEMMA AgentReturnInv ==
  ASSUME StoreInv, NEW j \in Jobs, AgentReturn(j)
  PROVE  StoreInv'
<1>1. /\ job[j].pc = "agent" /\ j \notin interrupted /\ Goto(j, "done") /\ holder' = NoJob
      /\ UNCHANGED <<recent, waiters, interrupted, threads>>
  BY DEF AgentReturn, Running
<1>2. /\ j \in Born /\ job[j].id \in TaskIds
      /\ Record(j).handle = j /\ Record(j).status = "running"
  BY <1>1, AgentFacts DEF InAgent
<1>3. PICK st \in {"completed", "failed"} : Put(job[j].id, st, st, j)
  BY <1>2 DEF AgentReturn, Report
<1>4. LockDiscipline'
  BY <1>1, ReleaseFacts DEF InAgent
<1>5. /\ waiters' \in Seq(Jobs) /\ holder' \in Jobs \cup {NoJob}
      /\ threads' \subseteq Jobs /\ interrupted' = interrupted /\ UNCHANGED recent
  BY <1>1 DEF StoreInv, TypeOK
<1> QED
  BY <1>1, <1>2, <1>3, <1>4, <1>5, OwnStep DEF Pc, Status, Phase, InAgent, Active, Final

LEMMA InterruptInv ==
  ASSUME StoreInv, NEW j \in Jobs, Interrupt(j)
  PROVE  StoreInv'
<1>1. /\ job[j].pc \in InAgent /\ j \in interrupted /\ Goto(j, "done") /\ holder' = NoJob
      /\ interrupted' = interrupted \ {j} /\ UNCHANGED <<tasks, recent, waiters, threads>>
  BY DEF Interrupt
<1>2. /\ j \in Born /\ job[j].id \in TaskIds /\ Record(j).handle = j
      /\ Record(j).status = "cancelled" /\ Record(j).phase = "cancelled"
  BY <1>1, AgentFacts
<1>3. Put(job[j].id, "cancelled", "cancelled", j)
  BY <1>1, <1>2, NoPut DEF StoreInv, Record
<1>4. LockDiscipline'
  BY <1>1, ReleaseFacts
<1>5. /\ waiters' \in Seq(Jobs) /\ holder' \in Jobs \cup {NoJob}
      /\ threads' \subseteq Jobs /\ UNCHANGED recent
  BY <1>1 DEF StoreInv, TypeOK
<1> QED
  BY <1>1, <1>2, <1>3, <1>4, <1>5, OwnStep DEF Pc, Status, Phase, InAgent, Active, Final
-----------------------------------------------------------------------------
(* The invariants. *)

LEMMA NextInv ==
  ASSUME CustomIds = {}, StoreInv, [Next]_vars
  PROVE  StoreInv'
<1>1. CASE \E j \in Jobs, s \in Sigs, t \in TaskIds : Submit(j, s, t)
  BY <1>1, SubmitInv
<1>2. CASE \E t \in TaskIds : Cancel(t)
  BY <1>2, CancelInv
<1>3. CASE Tick
  BY <1>3, TickInv
<1>4. CASE \E j \in Jobs : \/ StartCancelled(j) \/ StartWaiting(j) \/ StartAtOnce(j) \/ Resume(j)
                           \/ AgentEvent(j) \/ ToolStart(j) \/ ThreadEnd(j) \/ ToolEnd(j)
                           \/ AgentReturn(j) \/ Interrupt(j)
  BY <1>4, StartCancelledInv, StartWaitingInv, StartAtOnceInv, ResumeInv, AgentEventInv,
     ToolStartInv, ThreadEndInv, ToolEndInv, AgentReturnInv, InterruptInv
<1>5. CASE UNCHANGED vars
  BY <1>5 DEF vars, StoreInv, TypeOK, LockDiscipline, OneJobPerId, StageOK, InterruptsOwnTask,
              FinalPhaseAgrees, Remembered, Born, Record
<1> QED BY <1>1, <1>2, <1>3, <1>4, <1>5 DEF Next

\* With uuids, no interleaving of submissions, cancellations, coroutines and
\* threads breaks the correspondence StoreInv states.
THEOREM StoreCorrect == ASSUME CustomIds = {} PROVE Spec => []StoreInv
<1>1. Init => StoreInv
  BY InitInv
<1>2. StoreInv /\ [Next]_vars => StoreInv'
  BY NextInv
<1> QED BY <1>1, <1>2, PTL DEF Spec

\* Type correctness, and the discipline of the execution lock and its queue.
THEOREM LockCorrect == ASSUME CustomIds = {} PROVE Spec => [](TypeOK /\ LockDiscipline)
<1>1. StoreInv => TypeOK /\ LockDiscipline
  BY DEF StoreInv
<1> QED BY <1>1, StoreCorrect, PTL

\* Under the invariant, "running" is the status of the lock holder's task.
LEMMA RunningFacts == ASSUME StoreInv PROVE RunningHoldsLock
<1> SUFFICES ASSUME NEW t \in TaskIds
    PROVE tasks[t].status = "running" <=>
            \E j \in Born : holder = j /\ job[j].id = t /\ j \notin interrupted
  BY DEF RunningHoldsLock
<1>1. ASSUME tasks[t].status = "running"
      PROVE  \E j \in Born : holder = j /\ job[j].id = t /\ j \notin interrupted
  <2>1. PICK j \in Born : job[j].id = t
    BY <1>1 DEF StoreInv, OneJobPerId
  <2>2. j \in Jobs /\ job[j].pc \in InAgent
    BY <1>1, <2>1 DEF StoreInv, StageOK, TypeOK, Coroutine, Pc, Final, Born, Record
  <2> QED BY <1>1, <2>1, <2>2, AgentFacts DEF Record
<1>2. ASSUME NEW j \in Born, holder = j, job[j].id = t, j \notin interrupted
      PROVE  tasks[t].status = "running"
  <2>1. j \in Jobs /\ job[j].pc \in InAgent
    BY <1>2 DEF StoreInv, LockDiscipline, Born
  <2> QED BY <1>2, <2>1, AgentFacts DEF Record
<1> QED BY <1>1, <1>2

\* At most one task is shown as running, and it is the one that has the lock.
THEOREM RunningCorrect == ASSUME CustomIds = {} PROVE Spec => []RunningHoldsLock
BY RunningFacts, StoreCorrect, PTL

\* No queued task is orphaned.
THEOREM QueuedCorrect == ASSUME CustomIds = {} PROVE Spec => []QueuedHasRunner
<1>1. ASSUME StoreInv, NEW t \in TaskIds, tasks[t].status = "queued"
      PROVE  \E j \in Jobs : job[j].id = t /\ job[j].pc \in {"scheduled", "waiting"}
  <2>1. PICK j \in Born : job[j].id = t
    BY <1>1 DEF StoreInv, OneJobPerId
  <2>2. job[j].pc \notin InAgent \cup {"done"}
    BY <1>1, <2>1 DEF StoreInv, StageOK, Final, Record
  <2> QED BY <1>1, <2>1, <2>2 DEF StoreInv, TypeOK, Coroutine, Pc, Born
<1>2. StoreInv => QueuedHasRunner
  BY <1>1 DEF QueuedHasRunner
<1> QED BY <1>2, StoreCorrect, PTL

\* A CancelledError only ever travels to the agent of the cancelled task.
THEOREM InterruptCorrect == ASSUME CustomIds = {} PROVE Spec => []InterruptsOwnTask
<1>1. StoreInv => InterruptsOwnTask
  BY DEF StoreInv
<1> QED BY <1>1, StoreCorrect, PTL

\* Status and phase agree once the status is final.
THEOREM PhaseCorrect == ASSUME CustomIds = {} PROVE Spec => []FinalPhaseAgrees
<1>1. StoreInv => FinalPhaseAgrees
  BY DEF StoreInv
<1> QED BY <1>1, StoreCorrect, PTL

\* Deduplication: at most one queued or running task per signature.
THEOREM DedupCorrect == ASSUME CustomIds = {} PROVE Spec => []NoDuplicateActive
<1>1. ASSUME StoreInv, NEW j \in Born, NEW k \in Born, j # k, job[j].sig = job[k].sig,
             Record(j).status \in Active, Record(k).status \in Active
      PROVE  FALSE
  <2>1. job[j].id = job[k].id
    BY <1>1 DEF StoreInv, Remembered
  <2> QED BY <1>1, <2>1 DEF StoreInv, OneJobPerId
<1>2. StoreInv => NoDuplicateActive
  BY <1>1 DEF NoDuplicateActive
<1> QED BY <1>2, StoreCorrect, PTL
-----------------------------------------------------------------------------
(* What a step may do to a record; finality and the life cycle follow. *)

\* The status of record t goes from one of "from" to "to".
Moves(t, from, to) ==
  \E ph \in Phase, h \in Jobs \cup {NoJob} :
    tasks[t].status \in from /\ Put(t, to, ph, h)

\* All that a step does to the records, as moves of one status.
StatusStep ==
  \/ UNCHANGED tasks
  \/ \E t \in TaskIds :
       \/ Moves(t, {"absent"}, "queued")
       \/ Moves(t, {"queued"}, "queued")
       \/ Moves(t, {"queued"}, "running") /\ holder = NoJob
       \/ Moves(t, {"queued"}, "completed") /\ holder = NoJob
       \/ Moves(t, {"running"}, "running")
       \/ \E st \in {"completed", "failed"} : Moves(t, {"running"}, st)
       \/ Moves(t, Active, "cancelled")

LEMMA EnterStep ==
  ASSUME StoreInv, NEW j \in Jobs, job[j].pc \in {"scheduled", "waiting"},
         holder = NoJob, Enter(j)
  PROVE  StatusStep
<1>1. j \in Born /\ job[j].id \in TaskIds
  BY BornFacts
<1>2. Record(j).status \in {"queued", "cancelled"}
  BY <1>1 DEF StoreInv, StageOK
<1>3. CASE UNCHANGED tasks
  BY <1>3 DEF StatusStep
<1>4. CASE Record(j).status # "cancelled" /\ Put(job[j].id, "completed", "completed", j)
  BY <1>1, <1>2, <1>4 DEF StatusStep, Moves, Record, Phase, Final
<1>5. CASE Record(j).status # "cancelled" /\ Put(job[j].id, "running", "understanding", j)
  BY <1>1, <1>2, <1>5 DEF StatusStep, Moves, Record, Phase, Final
<1> QED BY <1>3, <1>4, <1>5 DEF Enter

LEMMA NextStatus ==
  ASSUME CustomIds = {}, StoreInv, [Next]_vars
  PROVE  StatusStep
<1>1. ASSUME NEW j \in Jobs, NEW s \in Sigs, NEW t \in TaskIds, Submit(j, s, t)
      PROVE  StatusStep
  <2>1. tasks[t].status \in {"absent"} /\ Put(t, "queued", "queued", NoJob)
    BY <1>1 DEF Submit
  <2> QED BY <2>1 DEF StatusStep, Moves, Phase
<1>2. ASSUME NEW t \in TaskIds, Cancel(t)
      PROVE  StatusStep
  <2>1. tasks[t].handle \in Jobs \cup {NoJob}
    BY DEF StoreInv, TypeOK, TaskRecord
  <2>2. tasks[t].status \in Active /\ Put(t, "cancelled", "cancelled", tasks[t].handle)
    BY <1>2 DEF Cancel
  <2>3. Moves(t, Active, "cancelled")
    BY <2>1, <2>2 DEF Moves, Phase, Final
  <2> QED BY <2>3 DEF StatusStep
<1>3. ASSUME NEW j \in Jobs, StartWaiting(j)
      PROVE  StatusStep
  <2>1. job[j].pc = "scheduled"
    BY <1>3 DEF StartWaiting
  <2>2. /\ job[j].id \in TaskIds /\ Record(j).handle \in Jobs \cup {NoJob}
        /\ Record(j).status = "queued"
    BY <1>3, <2>1, BornFacts DEF StartWaiting, StoreInv, StageOK
  <2>3. CASE Report(j, "queued", "queued")
    BY <2>2, <2>3 DEF Report, StatusStep, Moves, Record, Phase
  <2>4. CASE UNCHANGED tasks
    BY <2>4 DEF StatusStep
  <2> QED BY <1>3, <2>3, <2>4 DEF StartWaiting
<1>4. ASSUME NEW j \in Jobs, StartAtOnce(j)
      PROVE  StatusStep
  BY <1>4, EnterStep DEF StartAtOnce, LockFree
<1>5. ASSUME NEW j \in Jobs, Resume(j)
      PROVE  StatusStep
  <2>1. waiters[1] = j /\ 1 \in DOMAIN waiters
    BY <1>5, TailFacts DEF Resume, StoreInv, TypeOK
  <2>2. job[j].pc = "waiting" /\ holder = NoJob /\ Enter(j)
    BY <1>5, <2>1 DEF Resume, StoreInv, LockDiscipline
  <2> QED BY <2>2, EnterStep
<1>6. ASSUME NEW j \in Jobs, AgentEvent(j) \/ ToolStart(j) \/ AgentReturn(j)
      PROVE  StatusStep
  <2>1. job[j].pc = "agent" /\ j \notin interrupted
    BY <1>6 DEF AgentEvent, ToolStart, AgentReturn, Running
  <2>2. /\ job[j].id \in TaskIds /\ Record(j).handle = j /\ Record(j).status = "running"
    BY <2>1, AgentFacts DEF InAgent
  <2>3. \/ \E ph \in Phase : Put(job[j].id, "running", ph, j)
        \/ \E st \in {"completed", "failed"} : Put(job[j].id, st, st, j)
    BY <1>6, <2>2
       DEF AgentEvent, ToolStart, AgentReturn, ReportPhase, Report, Phase, Final
  <2>4. CASE \E ph \in Phase : Put(job[j].id, "running", ph, j)
    BY <2>2, <2>4 DEF StatusStep, Moves, Record
  <2>5. CASE \E st \in {"completed", "failed"} : Put(job[j].id, st, st, j)
    BY <2>2, <2>5 DEF StatusStep, Moves, Record, Phase, Final
  <2> QED BY <2>3, <2>4, <2>5
<1>7. ASSUME \/ Tick \/ UNCHANGED vars
             \/ \E j \in Jobs : StartCancelled(j) \/ ThreadEnd(j) \/ ToolEnd(j) \/ Interrupt(j)
      PROVE  StatusStep
  BY <1>7 DEF Tick, vars, StartCancelled, ThreadEnd, ToolEnd, Interrupt, StatusStep
<1> QED BY <1>1, <1>2, <1>3, <1>4, <1>5, <1>6, <1>7 DEF Next

\* A final record is never touched again, by no late event or start.
THEOREM FinalCorrect == ASSUME CustomIds = {} PROVE Spec => FinalIsFinal
<1>1. ASSUME StoreInv, [Next]_vars, NEW t \in TaskIds, tasks[t].status \in Final
      PROVE  tasks'[t].status = tasks[t].status /\ tasks'[t].phase = tasks[t].phase
  <2>1. StatusStep
    BY <1>1, NextStatus
  <2>2. \A u \in TaskIds, st \in Status, ph \in Phase, h \in Jobs \cup {NoJob} :
          Put(u, st, ph, h) /\ u # t => tasks'[t] = tasks[t]
    BY DEF StoreInv, TypeOK, Put
  <2> QED BY <1>1, <2>1, <2>2 DEF StatusStep, Moves, Final, Active, Status
<1>2. StoreInv /\ [Next]_vars =>
        [\A t \in TaskIds : tasks[t].status \in Final =>
           tasks'[t].status = tasks[t].status /\ tasks'[t].phase = tasks[t].phase]_tasks
  BY <1>1
<1> QED BY <1>2, StoreCorrect, PTL DEF Spec, FinalIsFinal

\* The store implements the life cycle the API promises: every step is one of
\* its steps, or leaves every status alone.
THEOREM LifecycleCorrect == ASSUME CustomIds = {} PROVE Spec => ImplementsLifecycle
<1> DEFINE st == [t \in TaskIds |-> tasks[t].status]
<1>1. Init => Lifecycle!Init
  BY DEF Init, Lifecycle!Init
<1>2. ASSUME StoreInv, [Next]_vars
      PROVE  [Lifecycle!Next]_st
  <2>1. StatusStep
    BY <1>2, NextStatus
  <2>2. holder = NoJob => Lifecycle!Idle
    BY <1>2, RunningFacts, ConstantsAssumption DEF RunningHoldsLock, Lifecycle!Idle, Born
  <2>3. ASSUME NEW t \in TaskIds, NEW from, NEW to, Moves(t, from, to)
        PROVE  Lifecycle!Move(t, from, to)
    <3>1. PICK ph \in Phase, h \in Jobs \cup {NoJob} : Put(t, to, ph, h)
      BY <2>3 DEF Moves
    <3>2. tasks \in [TaskIds -> TaskRecord] /\ tasks[t].status \in from
      BY <1>2, <2>3 DEF Moves, StoreInv, TypeOK
    <3>3. \A u \in TaskIds : tasks'[u].status = IF u = t THEN to ELSE tasks[u].status
      BY <3>1, <3>2 DEF Put
    <3>4. st' = [st EXCEPT ![t] = to]
      BY <3>3
    <3> QED BY <3>2, <3>4 DEF Lifecycle!Move
  <2>4. ASSUME NEW t \in TaskIds, NEW s, Moves(t, {s}, s)
        PROVE  UNCHANGED st
    BY <1>2, <2>4 DEF Moves, Put, StoreInv, TypeOK, TaskRecord
  <2> QED
    BY <2>1, <2>2, <2>3, <2>4
       DEF StatusStep, Lifecycle!Next, Lifecycle!Accept, Lifecycle!Begin, Lifecycle!Greet,
           Lifecycle!Finish, Lifecycle!Cancel, Lifecycle!Active, Active
<1> QED BY <1>1, <1>2, StoreCorrect, PTL DEF Spec, ImplementsLifecycle, Lifecycle!Spec
=============================================================================
