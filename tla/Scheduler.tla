------------------------------- MODULE Scheduler -------------------------------
(***************************************************************************)
(* User-defined scheduled jobs: the scheduled_jobs table                   *)
(* (scheduler/jobs.py), the job tools that run in the API process          *)
(* (tools/job_tools.py), and the worker process that lists the table when  *)
(* it starts, registers what it finds with APScheduler                     *)
(* (scheduler/engine.py), and serves the job queue, here JobQueue with one *)
(* worker.                                                                 *)
(*                                                                         *)
(* APScheduler itself is external.  Two things about it matter: before     *)
(* start() a job is only remembered, and start() then adds every           *)
(* remembered job to the job store.  The "sqlalchemy" store that engine.py *)
(* configures pickles each job, which raises for a function nested in      *)
(* another one, and _run is such a function; a "memory" store takes it.    *)
(* The API process never starts its scheduler, so what the tools register  *)
(* there has no effect and is not modelled.                                *)
(***************************************************************************)
EXTENDS Naturals

CONSTANTS
  UserJobs,   \* ids of scheduled jobs; bounds the creations
  Prompts,
  Worker,     \* the one worker process
  Stores,     \* job stores to consider: subset of {"sqlalchemy", "memory"}
  MaxJobs,    \* bounds the rows of the queue
  MaxFaults,  \* bounds kills and failed statements
  Gone,       \* no such row
  NoTask

VARIABLES
  table,      \* scheduled_jobs: a row per job, Gone if there is none
  created,    \* ids ever used; uuid4 never repeats one
  edit,       \* the job_update in flight: id and patch, Gone if none
  store,      \* the job store of this deployment
  boot,       \* how far main() of the worker is: "off", "listed" or "on"
  plan,       \* plan[u]: prompt bound in the closure registered for u
  \* the queue's
  status, task, stamped, ahead, pc, holds, runs, orphans, faults

ASSUME SchedulerAssumption ==
  /\ Stores \subseteq {"sqlalchemy", "memory"}
  /\ MaxJobs \in Nat
  /\ MaxFaults \in Nat
  /\ Gone \notin Prompts

Tasks == [job : UserJobs, prompt : Prompts]

Queue == INSTANCE JobQueue WITH
  Workers <- {Worker},
  Raising <- Tasks

jobVars == <<table, created, edit>>
workerVars == <<store, boot, plan>>
queueVars == <<status, task, stamped, ahead, pc, holds, runs, orphans, faults>>
vars == <<jobVars, workerVars, queueVars>>

\* last is the prompt whose result record_run stored, Gone before the first.
Rows == [valid : BOOLEAN, prompt : Prompts, enabled : BOOLEAN,
         last : Prompts \cup {Gone}]

Patches == [field : {"valid", "enabled"}, value : BOOLEAN]
             \cup [field : {"prompt"}, value : Prompts]

NoPlan == [u \in UserJobs |-> Gone]

TypeOK ==
  /\ table \in [UserJobs -> Rows \cup {Gone}]
  /\ created \subseteq UserJobs
  /\ edit \in [id : UserJobs, patch : Patches] \cup {Gone}
  /\ store \in Stores
  /\ boot \in {"off", "listed", "on"}
  /\ plan \in [UserJobs -> Prompts \cup {Gone}]
  /\ Queue!TypeOK

Init ==
  /\ table = [u \in UserJobs |-> Gone]
  /\ created = {}
  /\ edit = Gone
  /\ store \in Stores
  /\ boot = "off"
  /\ plan = NoPlan
  /\ Queue!Init
  /\ pc[Worker] = "idle"

\* An enabled row whose cron expression APScheduler can parse.
Due(u) == table[u] # Gone /\ table[u].enabled /\ table[u].valid

-------------------------------------------------------------------------------
(* The job tools, in the API process. *)

\* create_job stores any cron expression; an invalid one only makes the
\* registration fail, which is ignored.
JobCreate(u, valid, p) ==
  /\ u \notin created
  /\ created' = created \cup {u}
  /\ table' = [table EXCEPT ![u] =
                 [valid |-> valid, prompt |-> p, enabled |-> TRUE, last |-> Gone]]
  /\ UNCHANGED <<edit, workerVars, queueVars>>

\* update_job reads the row first and gives up if there is none.
JobUpdateRead(u, patch) ==
  /\ edit = Gone
  /\ table[u] # Gone
  /\ edit' = [id |-> u, patch |-> patch]
  /\ UNCHANGED <<table, created, workerVars, queueVars>>

\* Faulty JobUpdateWrite: writes the whole row back (INSERT OR REPLACE).
JobUpdateUpsert ==
  /\ edit # Gone
  /\ table' = [table EXCEPT ![edit.id] =
                 [valid |-> TRUE, prompt |-> CHOOSE p \in Prompts : TRUE,
                  enabled |-> TRUE, last |-> Gone]]
  /\ edit' = Gone
  /\ UNCHANGED <<created, workerVars, queueVars>>

\* Faulty JobUpdateWrite: every value lands in the enabled column.
JobUpdateWrongColumn ==
  /\ edit # Gone
  /\ table' = IF table[edit.id] = Gone THEN table
              ELSE [table EXCEPT ![edit.id].enabled = edit.patch.value]
  /\ edit' = Gone
  /\ UNCHANGED <<created, workerVars, queueVars>>

\* UPDATE ... WHERE id = ?: matches nothing if the row was deleted meanwhile.
JobUpdateWrite ==
  /\ edit # Gone
  /\ table' = IF table[edit.id] = Gone THEN table
              ELSE [table EXCEPT ![edit.id][edit.patch.field] = edit.patch.value]
  /\ edit' = Gone
  /\ UNCHANGED <<created, workerVars, queueVars>>

JobDelete(u) ==
  /\ table[u] # Gone
  /\ table' = [table EXCEPT ![u] = Gone]
  /\ UNCHANGED <<created, edit, workerVars, queueVars>>

-------------------------------------------------------------------------------
(* The worker process. *)

\* main() up to list_jobs in _register_scheduled_jobs_from_db: disabled rows
\* are skipped, rows whose cron expression is refused are logged.
WorkerLists ==
  /\ boot = "off"
  /\ pc[Worker] \in {"idle", "down"}
  /\ plan' = [u \in UserJobs |-> IF Due(u) THEN table[u].prompt ELSE Gone]
  /\ boot' = "listed"
  /\ UNCHANGED <<jobVars, store, queueVars>>

\* Faulty WorkerStarts: a start that failed is tried again with what was listed.
WorkerStartsAgain ==
  /\ boot = "listed"
  /\ store = "memory" \/ plan = NoPlan
  /\ boot' = "on"
  /\ pc' = [pc EXCEPT ![Worker] = "idle"]
  /\ UNCHANGED <<jobVars, store, plan, status, task, stamped, ahead, holds, runs,
                 orphans, faults>>

\* start_scheduler() adds the remembered jobs to the store; nothing catches
\* what that raises, the process exits and systemd starts it again.
WorkerStarts ==
  /\ boot = "listed"
  /\ \/ /\ store = "sqlalchemy"
        /\ plan # NoPlan
        /\ boot' = "off"
        /\ plan' = NoPlan
        /\ UNCHANGED queueVars
     \/ /\ store = "memory" \/ plan = NoPlan
        /\ boot' = "on"
        /\ pc' = [pc EXCEPT ![Worker] = "idle"]
        /\ UNCHANGED <<plan, status, task, stamped, ahead, holds, runs, orphans,
                       faults>>
  /\ UNCHANGED <<jobVars, store>>

\* A registered job comes due: its closure enqueues the prompt it captured.
Fire(u) ==
  /\ boot = "on"
  /\ plan[u] # Gone
  /\ Queue!EnqueueStamp(Worker, [job |-> u, prompt |-> plan[u]])
  /\ UNCHANGED <<jobVars, workerVars>>

\* The rest of enqueue, between two steps of the poll loop.
FireEnds ==
  /\ Queue!EnqueueInsert(Worker) \/ Queue!EnqueueRaises(Worker)
  /\ UNCHANGED <<jobVars, workerVars>>

\* Faulty RunLLMTask: the prompt is read from the table when the job runs,
\* not taken from the queue's payload.
RunCurrentPrompt ==
  /\ boot = "on"
  /\ Queue!JobReturns(Worker)
  /\ LET t == task[holds[Worker]] IN
       table' = IF table[t.job] = Gone THEN table
                ELSE [table EXCEPT ![t.job].last = table[t.job].prompt]
  /\ UNCHANGED <<created, edit, workerVars>>

\* _execute_job on an llm_task: the model answers and record_run updates the
\* row, if there still is one.
RunLLMTask ==
  /\ boot = "on"
  /\ Queue!JobReturns(Worker)
  /\ LET t == task[holds[Worker]] IN
       table' = IF table[t.job] = Gone THEN table
                ELSE [table EXCEPT ![t.job].last = t.prompt]
  /\ UNCHANGED <<created, edit, workerVars>>

\* Every other step of the poll loop.
Poll ==
  /\ boot = "on"
  /\ \/ Queue!ClaimSelect(Worker)
     \/ Queue!ClaimUpdate(Worker)
     \/ Queue!ClaimFetch(Worker)
     \/ Queue!JobRaises(Worker)
     \/ Queue!MarkDone(Worker)
     \/ Queue!MarkFailed(Worker)
     \/ Queue!MarkDoneRaises(Worker)
     \/ Queue!StatementRaises(Worker)
  /\ UNCHANGED <<jobVars, workerVars>>

\* The process is killed, or SIGTERM ends the loop between two jobs: what was
\* registered is lost with the process.
WorkerEnds ==
  /\ boot = "on"
  /\ Queue!Kill(Worker) \/ Queue!Stop(Worker)
  /\ boot' = "off"
  /\ plan' = NoPlan
  /\ UNCHANGED <<jobVars, store>>

Serve == Poll \/ RunLLMTask

Next ==
  \/ \E u \in UserJobs :
       \/ \E valid \in BOOLEAN, p \in Prompts : JobCreate(u, valid, p)
       \/ \E patch \in Patches : JobUpdateRead(u, patch)
       \/ JobDelete(u)
       \/ Fire(u)
  \/ JobUpdateWrite
  \/ FireEnds
  \/ WorkerLists
  \/ WorkerStarts
  \/ Serve
  \/ WorkerEnds

(***************************************************************************)
(* systemd starts the worker and starts it again when it exits with an     *)
(* error (Restart=on-failure), the poll loop runs.  Users, cron and faults *)
(* owe nothing.                                                            *)
(***************************************************************************)
Spec ==
  /\ Init
  /\ [][Next]_vars
  /\ WF_vars(WorkerLists)
  /\ WF_vars(WorkerStarts)
  /\ WF_vars(Serve)

-------------------------------------------------------------------------------
(* Properties *)

\* A deleted job stays deleted, whatever update or run of it was under way
\* (jobs.py: update_job reads and writes in two connections, record_run runs
\* in the other process).
NoResurrection ==
  [][\A u \in created : table[u] = Gone => table'[u] = Gone]_vars

\* last_result is the outcome of a prompt that was really queued and run for
\* that job, never of another job or of an edited prompt.
LastResultWasRun ==
  \A u \in UserJobs : table[u] # Gone /\ table[u].last # Gone =>
    \E j \in Queue!Jobs :
      task[j] = [job |-> u, prompt |-> table[u].last] /\ runs[j] > 0

\* A worker that cannot start, because its job store refuses an enabled job,
\* starts once the user has disabled or deleted what is enabled: a failed start
\* leaves nothing behind that would make the next one fail.
WorkerRecovers ==
  <>[](\A u \in UserJobs : ~Due(u)) => []<>(boot = "on" \/ pc[Worker] = "stopped")

\* A job that is and stays enabled is at some time registered in the worker,
\* unless the worker is stopped (worker.py: "Re-register LLM-managed
\* scheduled jobs from the DB after restart").
EnabledJobIsRegistered ==
  \A u \in UserJobs :
    <>[](Due(u) /\ pc[Worker] # "stopped") => <>(boot = "on" /\ plan[u] # Gone)
===============================================================================
