---------------------------- MODULE Scheduler_proofs ----------------------------
(***************************************************************************)
(* Theorems about Scheduler, for any scheduled jobs, prompts, job stores,  *)
(* queue length and number of faults.                                      *)
(*                                                                         *)
(* QueueInv says what the row a worker holds has been through: a row that  *)
(* was inserted carries a task, the row that is held was inserted, and it  *)
(* counts as run while it is executing.  A row that was run is therefore   *)
(* one that no enqueue writes any more, and a result stays that of a row   *)
(* in the table.                                                           *)
(***************************************************************************)
EXTENDS Scheduler, TLAPS

\* The rows of the jobs table.
RowsInv ==
  \A j \in Queue!Jobs :
    /\ status[j] # "absent" => task[j] \in Tasks
    /\ runs[j] > 0 => status[j] # "absent"
    /\ j \in stamped[Worker] => status[j] = "absent" /\ task[j] \in Tasks

\* What the worker holds between the SELECT and the outcome.
HeldInv ==
  /\ pc[Worker] \in Queue!Claimed \cup {"selected"} =>
       holds[Worker] \in Queue!Jobs /\ status[holds[Worker]] # "absent"
  /\ pc[Worker] = "executing" => runs[holds[Worker]] > 0

QueueInv == Queue!TypeOK /\ RowsInv /\ HeldInv

IInv == TypeOK /\ QueueInv /\ LastResultWasRun

\* A row that was run stays what it is.
RunsAreKept ==
  \A j \in Queue!Jobs : runs[j] > 0 => task'[j] = task[j] /\ runs'[j] > 0

-------------------------------------------------------------------------------
(* The queue, with one worker *)

LEMMA QueueStart == Queue!Init /\ MaxFaults \in Nat => QueueInv
BY DEF Queue!Init, QueueInv, Queue!TypeOK, RowsInv, HeldInv, Queue!Statuses,
       Queue!PollStates, Queue!Claimed

LEMMA QueueUnchanged ==
  ASSUME QueueInv, UNCHANGED queueVars
  PROVE  QueueInv' /\ RunsAreKept
BY DEF QueueInv, queueVars, Queue!TypeOK, RowsInv, HeldInv, RunsAreKept

LEMMA StampKeeps ==
  ASSUME QueueInv, NEW t \in Tasks, Queue!EnqueueStamp(Worker, t)
  PROVE  QueueInv' /\ RunsAreKept
<1>1. PICK n \in Queue!Jobs :
        /\ \A i \in Queue!Used : i < n
        /\ stamped' = [stamped EXCEPT ![Worker] = @ \cup {n}]
        /\ task' = [task EXCEPT ![n] = t]
        /\ UNCHANGED <<status, ahead, pc, holds, runs, orphans, faults>>
  BY DEF Queue!EnqueueStamp
<1>2. status[n] = "absent"
  BY <1>1 DEF Queue!Used, Queue!Rows, Queue!Jobs
<1>3. Queue!TypeOK'
  BY <1>1 DEF QueueInv, Queue!TypeOK, Queue!Statuses
<1>4. RowsInv' /\ RunsAreKept
  BY <1>1, <1>2 DEF QueueInv, Queue!TypeOK, RowsInv, RunsAreKept
<1>5. HeldInv'
  BY <1>1 DEF QueueInv, Queue!TypeOK, HeldInv, Queue!Claimed
<1> QED
  BY <1>3, <1>4, <1>5 DEF QueueInv

LEMMA InsertKeeps ==
  ASSUME QueueInv, Queue!EnqueueInsert(Worker) \/ Queue!EnqueueRaises(Worker)
  PROVE  QueueInv' /\ RunsAreKept
<1>1. CASE Queue!EnqueueInsert(Worker)
  <2>1. PICK n \in stamped[Worker] :
          /\ status' = [status EXCEPT ![n] = "pending"]
          /\ ahead' = [ahead EXCEPT ![n] = Queue!Rows]
          /\ stamped' = [stamped EXCEPT ![Worker] = @ \ {n}]
          /\ UNCHANGED <<task, pc, holds, runs, orphans, faults>>
    BY <1>1 DEF Queue!EnqueueInsert
  <2>2. n \in Queue!Jobs /\ task[n] \in Tasks /\ status[n] = "absent"
    BY DEF QueueInv, Queue!TypeOK, RowsInv
  <2>3. Queue!TypeOK'
    BY <2>1, <2>2 DEF QueueInv, Queue!TypeOK, Queue!Statuses, Queue!Rows
  <2>4. RowsInv' /\ RunsAreKept
    BY <2>1, <2>2 DEF QueueInv, Queue!TypeOK, RowsInv, RunsAreKept
  <2>5. HeldInv'
    BY <2>1, <2>2 DEF QueueInv, Queue!TypeOK, HeldInv, Queue!Claimed
  <2> QED
    BY <2>3, <2>4, <2>5 DEF QueueInv
<1>2. CASE Queue!EnqueueRaises(Worker)
  <2>1. /\ \E n \in stamped[Worker] : stamped' = [stamped EXCEPT ![Worker] = @ \ {n}]
        /\ UNCHANGED <<status, task, ahead, pc, holds, runs, orphans>>
    BY <1>2 DEF Queue!EnqueueRaises
  <2>2. faults' \in 0..MaxFaults
    BY <1>2, SchedulerAssumption DEF Queue!EnqueueRaises, QueueInv, Queue!TypeOK
  <2>3. Queue!TypeOK'
    BY <2>1, <2>2 DEF QueueInv, Queue!TypeOK
  <2> QED
    BY <2>1, <2>3 DEF QueueInv, Queue!TypeOK, RowsInv, HeldInv, RunsAreKept
<1> QED
  BY <1>1, <1>2

\* The statements of the poll loop never bring a row back to "absent".
LEMMA ClaimKeeps ==
  ASSUME QueueInv,
         Queue!ClaimSelect(Worker) \/ Queue!ClaimUpdate(Worker) \/ Queue!ClaimFetch(Worker)
  PROVE  QueueInv' /\ RunsAreKept
<1> USE DEF QueueInv, Queue!TypeOK, RowsInv, HeldInv, RunsAreKept, Queue!Goto, Queue!enqueues,
            Queue!Claimed, Queue!PollStates, Queue!Statuses
<1>1. CASE Queue!ClaimSelect(Worker)
  <2>1. Queue!TypeOK'
    BY <1>1 DEF Queue!ClaimSelect
  <2>2. RowsInv' /\ HeldInv' /\ RunsAreKept
    BY <1>1 DEF Queue!ClaimSelect
  <2> QED
    BY <2>1, <2>2
<1>2. CASE Queue!ClaimUpdate(Worker)
  <2>1. Queue!TypeOK'
    BY <1>2 DEF Queue!ClaimUpdate
  <2>2. RowsInv' /\ HeldInv' /\ RunsAreKept
    BY <1>2 DEF Queue!ClaimUpdate
  <2> QED
    BY <2>1, <2>2
<1>3. CASE Queue!ClaimFetch(Worker)
  <2>1. holds[Worker] \in Queue!Jobs /\ runs[holds[Worker]] \in Nat
    BY <1>3 DEF Queue!ClaimFetch
  <2>2. /\ runs' = [runs EXCEPT ![holds[Worker]] = runs[holds[Worker]] + 1]
        /\ pc' = [pc EXCEPT ![Worker] = "executing"]
        /\ pc[Worker] = "updated"
        /\ UNCHANGED <<status, task, stamped, ahead, holds, orphans, faults>>
    BY <1>3 DEF Queue!ClaimFetch
  <2>3. runs' \in [Queue!Jobs -> Nat]
    BY <2>1, <2>2
  <2>4. Queue!TypeOK'
    BY <2>2, <2>3
  <2>5. \A j \in Queue!Jobs : runs'[j] > 0 => runs[j] > 0 \/ j = holds[Worker]
    BY <2>1, <2>2
  <2>6. \A j \in Queue!Jobs : runs[j] > 0 => runs'[j] > 0
    BY <2>1, <2>2
  <2>7. runs'[holds'[Worker]] > 0
    BY <2>1, <2>2
  <2>8. RowsInv' /\ RunsAreKept
    BY <2>1, <2>2, <2>5, <2>6
  <2>9. HeldInv'
    BY <2>1, <2>2, <2>7
  <2> QED
    BY <2>4, <2>8, <2>9
<1> QED
  BY <1>1, <1>2, <1>3

LEMMA OutcomeKeeps ==
  ASSUME QueueInv,
         \/ Queue!JobReturns(Worker) \/ Queue!JobRaises(Worker)
         \/ Queue!MarkDone(Worker) \/ Queue!MarkFailed(Worker)
         \/ Queue!MarkDoneRaises(Worker)
         \/ Queue!StatementRaises(Worker) \/ Queue!Kill(Worker) \/ Queue!Stop(Worker)
  PROVE  QueueInv' /\ RunsAreKept
<1> USE DEF QueueInv, Queue!TypeOK, RowsInv, HeldInv, RunsAreKept, Queue!Goto, Queue!enqueues,
            Queue!Claimed, Queue!PollStates, Queue!Statuses
<1>1. CASE Queue!JobReturns(Worker) \/ Queue!JobRaises(Worker)
  BY <1>1 DEF Queue!JobReturns, Queue!JobRaises
<1>2. CASE Queue!MarkDone(Worker) \/ Queue!MarkFailed(Worker)
  <2>1. /\ pc[Worker] \in {"returned", "raised"} /\ holds[Worker] \in Queue!Jobs
        /\ \E outcome \in {"done", "failed"} :
             status' = [status EXCEPT ![holds[Worker]] = outcome]
        /\ pc' = [pc EXCEPT ![Worker] = "idle"]
        /\ holds' = [holds EXCEPT ![Worker] = 0]
        /\ UNCHANGED <<task, stamped, ahead, runs, orphans, faults>>
    BY <1>2 DEF Queue!MarkDone, Queue!MarkFailed, Queue!Mark
  <2>2. Queue!TypeOK'
    BY <2>1
  <2>3. RowsInv' /\ HeldInv' /\ RunsAreKept
    BY <2>1
  <2> QED
    BY <2>2, <2>3
<1>3. CASE Queue!MarkDoneRaises(Worker)
  <2>1. Queue!TypeOK'
    <3>1. faults' \in 0..MaxFaults
      BY <1>3, SchedulerAssumption DEF Queue!MarkDoneRaises
    <3> QED
      BY <1>3, <3>1 DEF Queue!MarkDoneRaises
  <2>2. RowsInv' /\ HeldInv' /\ RunsAreKept
    BY <1>3 DEF Queue!MarkDoneRaises
  <2> QED
    BY <2>1, <2>2
<1>4. CASE Queue!StatementRaises(Worker) \/ Queue!Kill(Worker)
  <2>1. /\ faults' \in 0..MaxFaults
        /\ \E to \in {"idle", "down"} : pc' = [pc EXCEPT ![Worker] = to]
        /\ holds' = [holds EXCEPT ![Worker] = 0]
        /\ orphans' \subseteq Queue!Jobs
        /\ stamped'[Worker] \subseteq stamped[Worker]
        /\ stamped' \in [{Worker} -> SUBSET Queue!Jobs]
        /\ UNCHANGED <<status, task, ahead, runs>>
    <3>1. faults < MaxFaults /\ faults' = faults + 1
      BY <1>4 DEF Queue!StatementRaises, Queue!Kill, Queue!Release
    <3>2. faults' \in 0..MaxFaults
      BY <3>1, SchedulerAssumption
    <3> QED
      BY <1>4, <3>2 DEF Queue!StatementRaises, Queue!Kill, Queue!Release
  <2>2. Queue!TypeOK'
    BY <2>1
  <2>3. RowsInv' /\ HeldInv' /\ RunsAreKept
    BY <2>1
  <2> QED
    BY <2>2, <2>3
<1>5. CASE Queue!Stop(Worker)
  BY <1>5 DEF Queue!Stop
<1> QED
  BY <1>1, <1>2, <1>3, <1>4, <1>5

-------------------------------------------------------------------------------
(* The results *)

\* A step that takes a result over only from a row that was run.
LEMMA ResultsKeep ==
  ASSUME LastResultWasRun, RunsAreKept,
         \A u \in UserJobs : table'[u] # Gone /\ table'[u].last # Gone =>
           \/ table[u] # Gone /\ table'[u].last = table[u].last
           \/ \E j \in Queue!Jobs :
                task'[j] = [job |-> u, prompt |-> table'[u].last] /\ runs'[j] > 0
  PROVE  LastResultWasRun'
<1> SUFFICES ASSUME NEW u \in UserJobs, table'[u] # Gone, table'[u].last # Gone
             PROVE  \E j \in Queue!Jobs :
                      task'[j] = [job |-> u, prompt |-> table'[u].last] /\ runs'[j] > 0
  BY DEF LastResultWasRun, Queue!Jobs
<1>1. CASE table[u] # Gone /\ table'[u].last = table[u].last
  <2>1. PICK j \in Queue!Jobs :
          task[j] = [job |-> u, prompt |-> table[u].last] /\ runs[j] > 0
    BY <1>1 DEF LastResultWasRun
  <2> QED
    BY <1>1, <2>1 DEF RunsAreKept
<1> QED
  BY <1>1

\* With the table of scheduled jobs as it was.
LEMMA TableUnchanged ==
  ASSUME LastResultWasRun, RunsAreKept, UNCHANGED table
  PROVE  LastResultWasRun'
BY ResultsKeep

-------------------------------------------------------------------------------
(* The inductive invariant *)

LEMMA InitInv == Init => IInv
<1> SUFFICES ASSUME Init PROVE IInv
  OBVIOUS
<1>1. QueueInv
  BY QueueStart, SchedulerAssumption DEF Init
<1>2. TypeOK
  BY <1>1 DEF Init, TypeOK, QueueInv, NoPlan
<1>3. LastResultWasRun
  BY DEF Init, LastResultWasRun
<1> QED
  BY <1>1, <1>2, <1>3 DEF IInv

\* The job tools.
LEMMA ToolsKeep ==
  ASSUME IInv,
         \/ \E u \in UserJobs :
              \/ \E valid \in BOOLEAN, p \in Prompts : JobCreate(u, valid, p)
              \/ \E patch \in Patches : JobUpdateRead(u, patch)
              \/ JobDelete(u)
         \/ JobUpdateWrite
  PROVE  IInv'
<1>1. UNCHANGED <<workerVars, queueVars>>
  BY DEF JobCreate, JobUpdateRead, JobDelete, JobUpdateWrite
<1>2. QueueInv' /\ RunsAreKept
  BY <1>1, QueueUnchanged DEF IInv
<1>3. /\ table \in [UserJobs -> Rows \cup {Gone}]
      /\ created \subseteq UserJobs
      /\ edit \in [id : UserJobs, patch : Patches] \cup {Gone}
      /\ Queue!TypeOK'
      /\ store' \in Stores /\ boot' \in {"off", "listed", "on"}
      /\ plan' \in [UserJobs -> Prompts \cup {Gone}]
  BY <1>1, <1>2 DEF IInv, TypeOK, QueueInv, workerVars
<1>4. ASSUME NEW u \in UserJobs, NEW valid \in BOOLEAN, NEW p \in Prompts, JobCreate(u, valid, p)
      PROVE  TypeOK' /\ LastResultWasRun'
  <2> DEFINE row == [valid |-> valid, prompt |-> p, enabled |-> TRUE, last |-> Gone]
  <2>1. row \in Rows /\ row.last = Gone
    BY DEF Rows
  <2>2. table' = [table EXCEPT ![u] = row] /\ created' = created \cup {u} /\ edit' = edit
    BY <1>4 DEF JobCreate
  <2> HIDE DEF row
  <2>3. TypeOK'
    BY <1>3, <2>1, <2>2 DEF TypeOK
  <2>4. \A v \in UserJobs : table'[v] # Gone /\ table'[v].last # Gone =>
          table[v] # Gone /\ table'[v].last = table[v].last
    BY <1>3, <2>1, <2>2
  <2> QED
    BY <1>2, <2>3, <2>4, ResultsKeep DEF IInv
<1>5. ASSUME NEW u \in UserJobs, NEW patch \in Patches, JobUpdateRead(u, patch)
      PROVE  TypeOK' /\ LastResultWasRun'
  <2>1. UNCHANGED table
    BY <1>5 DEF JobUpdateRead
  <2>2. TypeOK'
    BY <1>3, <1>5 DEF TypeOK, JobUpdateRead
  <2> QED
    BY <1>2, <2>1, <2>2, TableUnchanged DEF IInv
<1>6. ASSUME NEW u \in UserJobs, JobDelete(u)
      PROVE  TypeOK' /\ LastResultWasRun'
  <2>1. table' = [table EXCEPT ![u] = Gone] /\ UNCHANGED <<created, edit>>
    BY <1>6 DEF JobDelete
  <2>2. TypeOK'
    BY <1>3, <2>1 DEF TypeOK
  <2>3. \A v \in UserJobs : table'[v] # Gone => table'[v] = table[v]
    BY <1>3, <2>1
  <2> QED
    BY <1>2, <2>2, <2>3, ResultsKeep DEF IInv
<1>7. ASSUME JobUpdateWrite
      PROVE  TypeOK' /\ LastResultWasRun'
  <2>1. /\ edit # Gone /\ edit' = Gone /\ created' = created
        /\ edit.id \in UserJobs /\ edit.patch \in Patches
    BY <1>3, <1>7 DEF JobUpdateWrite
  <2>2. CASE table[edit.id] = Gone
    <3>1. UNCHANGED table
      BY <1>7, <2>2 DEF JobUpdateWrite
    <3>2. TypeOK'
      BY <1>3, <2>1, <3>1 DEF TypeOK
    <3> QED
      BY <1>2, <3>1, <3>2, TableUnchanged DEF IInv
  <2>3. CASE table[edit.id] # Gone
    <3> DEFINE old == table[edit.id]
               new == [old EXCEPT ![edit.patch.field] = edit.patch.value]
    <3>1. old \in Rows
      BY <1>3, <2>1, <2>3
    <3>2. table' = [table EXCEPT ![edit.id] = new]
      BY <1>7, <2>3 DEF JobUpdateWrite
    <3>3. new \in Rows /\ new.last = old.last
      <4> HIDE DEF old
      <4> QED
        BY <2>1, <3>1 DEF Patches, Rows
    <3> HIDE DEF new
    <3>4. TypeOK'
      BY <1>3, <2>1, <3>2, <3>3 DEF TypeOK
    <3>5. \A v \in UserJobs : table'[v] # Gone =>
            table[v] # Gone /\ table'[v].last = table[v].last
      BY <1>3, <2>1, <2>3, <3>2, <3>3
    <3> QED
      BY <1>2, <3>4, <3>5, ResultsKeep DEF IInv
  <2> QED
    BY <2>2, <2>3
<1> QED
  BY <1>2, <1>4, <1>5, <1>6, <1>7 DEF IInv

\* The worker process starts, enqueues what is due, and ends.
LEMMA WorkerKeeps ==
  ASSUME IInv, WorkerLists \/ WorkerStarts \/ WorkerEnds \/ FireEnds \/ \E u \in UserJobs : Fire(u)
  PROVE  IInv'
<1>1. UNCHANGED <<jobVars, store>>
  BY DEF WorkerLists, WorkerStarts, WorkerEnds, Fire, FireEnds, workerVars
<1>2. boot' \in {"off", "listed", "on"} /\ plan' \in [UserJobs -> Prompts \cup {Gone}]
  <2>1. \A u \in UserJobs : Due(u) => table[u].prompt \in Prompts
    BY DEF Due, IInv, TypeOK, Rows
  <2>2. boot \in {"off", "listed", "on"} /\ plan \in [UserJobs -> Prompts \cup {Gone}]
    BY DEF IInv, TypeOK
  <2> QED
    BY <2>1, <2>2 DEF WorkerLists, WorkerStarts, WorkerEnds, Fire, FireEnds, NoPlan, workerVars
<1>3. QueueInv' /\ RunsAreKept
  <2>1. ASSUME WorkerStarts PROVE QueueInv' /\ RunsAreKept
    <3>1. CASE UNCHANGED queueVars
      BY <3>1, QueueUnchanged DEF IInv
    <3>2. CASE /\ pc' = [pc EXCEPT ![Worker] = "idle"]
               /\ UNCHANGED <<status, task, stamped, ahead, holds, runs, orphans, faults>>
      BY <3>2 DEF IInv, QueueInv, Queue!TypeOK, Queue!PollStates, Queue!Claimed, RowsInv,
                  HeldInv, RunsAreKept
    <3> QED
      BY <2>1, <3>1, <3>2 DEF WorkerStarts
  <2>2. ASSUME NEW u \in UserJobs, Fire(u) PROVE QueueInv' /\ RunsAreKept
    <3>1. [job |-> u, prompt |-> plan[u]] \in Tasks
      BY <2>2 DEF Fire, IInv, TypeOK, Tasks
    <3> QED
      BY <2>2, <3>1, StampKeeps DEF Fire, IInv
  <2>3. WorkerLists => QueueInv' /\ RunsAreKept
    BY QueueUnchanged DEF WorkerLists, IInv
  <2>4. WorkerEnds => QueueInv' /\ RunsAreKept
    BY OutcomeKeeps DEF WorkerEnds, IInv
  <2>5. FireEnds => QueueInv' /\ RunsAreKept
    BY InsertKeeps DEF FireEnds, IInv
  <2> QED
    BY <2>1, <2>2, <2>3, <2>4, <2>5
<1>4. TypeOK'
  BY <1>1, <1>2, <1>3 DEF IInv, TypeOK, QueueInv, jobVars
<1>5. LastResultWasRun'
  BY <1>1, <1>3, TableUnchanged DEF IInv, jobVars
<1> QED
  BY <1>3, <1>4, <1>5 DEF IInv

\* The poll loop; record_run stores the prompt of the row that ran.
LEMMA ServeKeeps ==
  ASSUME IInv, Serve
  PROVE  IInv'
<1>1. QueueInv' /\ RunsAreKept
  BY ClaimKeeps, OutcomeKeeps DEF Serve, Poll, RunLLMTask, IInv
<1>2. UNCHANGED <<created, edit, workerVars>>
  BY DEF Serve, Poll, RunLLMTask, jobVars
<1>3. CASE Poll
  <2>1. UNCHANGED table
    BY <1>3 DEF Poll, jobVars
  <2>2. TypeOK'
    BY <1>1, <1>2, <2>1 DEF IInv, TypeOK, QueueInv, workerVars
  <2> QED
    BY <1>1, <2>1, <2>2, TableUnchanged DEF IInv
<1>4. CASE RunLLMTask
  <2> DEFINE n == holds[Worker]
             t == task[n]
  <2>1. /\ n \in Queue!Jobs /\ t \in Tasks /\ runs[n] > 0
        /\ task' = task /\ runs' = runs
    BY <1>4 DEF RunLLMTask, Queue!JobReturns, Queue!Goto, Queue!enqueues, Queue!Claimed, IInv, QueueInv,
                HeldInv, RowsInv
  <2>2. table' = IF table[t.job] = Gone THEN table ELSE [table EXCEPT ![t.job].last = t.prompt]
    BY <1>4 DEF RunLLMTask
  <2>3. /\ t.job \in UserJobs /\ t.prompt \in Prompts
        /\ t = [job |-> t.job, prompt |-> t.prompt]
        /\ table \in [UserJobs -> Rows \cup {Gone}]
    BY <2>1 DEF Tasks, IInv, TypeOK
  <2> HIDE DEF t, n
  <2>4. CASE table[t.job] = Gone
    <3>1. UNCHANGED table
      BY <2>2, <2>4
    <3>2. TypeOK'
      BY <1>1, <1>2, <3>1 DEF IInv, TypeOK, QueueInv, workerVars
    <3> QED
      BY <1>1, <3>1, <3>2, TableUnchanged DEF IInv
  <2>5. CASE table[t.job] # Gone
    <3> DEFINE old == table[t.job]
               new == [old EXCEPT !.last = t.prompt]
    <3>1. old \in Rows
      BY <2>3, <2>5
    <3>2. table' = [table EXCEPT ![t.job] = new]
      BY <2>2, <2>5
    <3>3. new \in Rows /\ new.last = t.prompt
      <4> HIDE DEF old
      <4> QED
        BY <2>3, <3>1 DEF Rows
    <3> HIDE DEF new
    <3>4. TypeOK'
      <4>1. table' \in [UserJobs -> Rows \cup {Gone}]
        BY <2>3, <3>2, <3>3
      <4> QED
        BY <1>1, <1>2, <4>1 DEF IInv, TypeOK, QueueInv, workerVars
    <3>5. ASSUME NEW u \in UserJobs, table'[u] # Gone
          PROVE  \/ table[u] # Gone /\ table'[u].last = table[u].last
                 \/ \E j \in Queue!Jobs :
                      task'[j] = [job |-> u, prompt |-> table'[u].last] /\ runs'[j] > 0
      <4>1. CASE u = t.job
        <5>1. table'[u].last = t.prompt
          BY <2>3, <3>2, <3>3, <4>1
        <5>2. task'[n] = [job |-> u, prompt |-> table'[u].last] /\ runs'[n] > 0
          BY <2>1, <2>3, <4>1, <5>1 DEF t
        <5> QED
          BY <2>1, <5>2
      <4>2. CASE u # t.job
        BY <2>3, <3>2, <3>5, <4>2
      <4> QED
        BY <4>1, <4>2
    <3> QED
      BY <1>1, <3>4, <3>5, ResultsKeep DEF IInv
  <2> QED
    BY <2>4, <2>5
<1> QED
  BY <1>1, <1>3, <1>4 DEF Serve, IInv

LEMMA NextInv == IInv /\ [Next]_vars => IInv'
<1> SUFFICES ASSUME IInv, [Next]_vars PROVE IInv'
  OBVIOUS
<1>1. CASE UNCHANGED vars
  <2>1. QueueInv' /\ RunsAreKept
    BY <1>1, QueueUnchanged DEF vars, IInv
  <2>2. LastResultWasRun'
    BY <1>1, <2>1, TableUnchanged DEF vars, jobVars, IInv
  <2>3. TypeOK'
    BY <1>1, <2>1 DEF vars, jobVars, workerVars, IInv, TypeOK, QueueInv
  <2> QED
    BY <2>1, <2>2, <2>3 DEF IInv
<1> QED
  BY <1>1, ToolsKeep, WorkerKeeps, ServeKeeps DEF Next

LEMMA Invariant == Spec => []IInv
BY InitInv, NextInv, PTL DEF Spec

-------------------------------------------------------------------------------
(* What the runs check, for all values of the constants *)

\* The scheduled jobs, the update in flight, the closures of the worker and
\* the queue keep their types.
THEOREM TypeCorrect == Spec => []TypeOK
<1>1. IInv => TypeOK
  BY DEF IInv
<1> QED
  BY <1>1, Invariant, PTL

\* record_run only ever stores, for a scheduled job, the result of a queue
\* row that was created for that job with that prompt and was executed,
\* however the job is edited, deleted or the worker killed meanwhile.
THEOREM ResultsWereRun == Spec => []LastResultWasRun
<1>1. IInv => LastResultWasRun
  BY DEF IInv
<1> QED
  BY <1>1, Invariant, PTL

\* No update, run or restart brings a deleted scheduled job back.
THEOREM NothingResurrects == Spec => NoResurrection
<1> DEFINE P == \A u \in created : table[u] = Gone => table'[u] = Gone
<1>1. ASSUME IInv, Next PROVE P
  <2>1. table \in [UserJobs -> Rows \cup {Gone}] /\ created \subseteq UserJobs
    BY <1>1 DEF IInv, TypeOK
  <2>2. UNCHANGED table => P
    OBVIOUS
  <2>3. ASSUME NEW u \in UserJobs,
               \/ \E valid \in BOOLEAN, p \in Prompts : JobCreate(u, valid, p)
               \/ JobDelete(u)
        PROVE  P
    BY <2>1, <2>3 DEF JobCreate, JobDelete
  <2>4. ASSUME JobUpdateWrite PROVE P
    BY <2>1, <2>4 DEF JobUpdateWrite
  <2>5. ASSUME RunLLMTask PROVE P
    BY <2>1, <2>5 DEF RunLLMTask
  <2>6. ASSUME \/ \E u \in UserJobs : Fire(u) \/ \E patch \in Patches : JobUpdateRead(u, patch)
               \/ WorkerLists \/ WorkerStarts \/ WorkerEnds \/ FireEnds \/ Poll
        PROVE  P
    <3>1. UNCHANGED table
      BY <2>6 DEF Fire, FireEnds, JobUpdateRead, WorkerLists, WorkerStarts, WorkerEnds, Poll, jobVars
    <3> QED
      BY <2>2, <3>1
  <2> HIDE DEF P
  <2> QED
    BY <1>1, <2>3, <2>4, <2>5, <2>6 DEF Next, Serve
<1>2. IInv /\ [Next]_vars => [P]_vars
  BY <1>1
<1> QED
  BY <1>2, Invariant, PTL DEF Spec, NoResurrection
===============================================================================
