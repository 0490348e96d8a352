------------------------------- MODULE JobQueue -------------------------------
(***************************************************************************)
(* The SQLite job queue (scheduler/queue.py) and the poll loop that serves *)
(* it (worker.py).  claim_next is three statements on one connection:      *)
(* SELECT the oldest pending id, UPDATE it if it is still pending and      *)
(* commit, SELECT the row again.  Other processes may run between them, so *)
(* each is a step here.  A job's number is its rank in created_at, which   *)
(* enqueue takes before it inserts the row: rows may be committed out of   *)
(* that order.  All callers of enqueue are closures that the worker's own  *)
(* scheduler runs between the steps of the poll loop.                      *)
(*                                                                         *)
(* A statement can raise (SQLite reports "database is locked" after its    *)
(* timeout) and the process can be killed at any point; both are counted   *)
(* in faults, which MaxFaults bounds.                                      *)
(***************************************************************************)
EXTENDS Naturals

CONSTANTS
  Workers,    \* processes that run _queue_poll_loop
  MaxJobs,    \* bounds the rows of the jobs table
  Tasks,      \* (type, payload) of a job
  Raising,    \* the tasks whose execution may raise
  NoTask,
  MaxFaults   \* bounds the statements that raise and the kills

ASSUME QueueAssumption ==
  /\ MaxJobs \in Nat
  /\ MaxFaults \in Nat
  /\ Raising \subseteq Tasks
  /\ NoTask \notin Tasks

Jobs == 1..MaxJobs

VARIABLES
  status,     \* status column; "absent" before the row is inserted
  task,       \* type and payload_json columns
  stamped,    \* stamped[w]: the enqueues of w that have created_at and no row
  pc,         \* pc[w]: where the poll loop of w is
  holds,      \* holds[w]: the id claim_next is working on, 0 if none
  runs,       \* history: how often each job was handed to _execute_job
  ahead,      \* history: ahead[j]: the rows there were when j was inserted
  orphans,    \* history: jobs left "running" by a kill or a failed statement
  faults      \* history: kills and failed statements so far

vars == <<status, task, stamped, ahead, pc, holds, runs, orphans, faults>>
enqueues == <<stamped, ahead>>

Statuses == {"absent", "pending", "running", "done", "failed"}

PollStates == {"idle", "selected", "updated", "executing", "returned", "raised",
               "down", "stopped"}

\* A claim of w has committed and w has not yet recorded the outcome.
Claimed == {"updated", "executing", "returned", "raised"}

TypeOK ==
  /\ status \in [Jobs -> Statuses]
  /\ task \in [Jobs -> Tasks \cup {NoTask}]
  /\ stamped \in [Workers -> SUBSET Jobs]
  /\ ahead \in [Jobs -> SUBSET Jobs]
  /\ pc \in [Workers -> PollStates]
  /\ holds \in [Workers -> Jobs \cup {0}]
  /\ runs \in [Jobs -> Nat]
  /\ orphans \subseteq Jobs
  /\ faults \in 0..MaxFaults

Init ==
  /\ status = [j \in Jobs |-> "absent"]
  /\ task = [j \in Jobs |-> NoTask]
  /\ stamped = [w \in Workers |-> {}]
  /\ ahead = [j \in Jobs |-> {}]
  /\ pc = [w \in Workers |-> "idle"]
  /\ holds = [w \in Workers |-> 0]
  /\ runs = [j \in Jobs |-> 0]
  /\ orphans = {}
  /\ faults = 0

Goto(w, from, to) ==
  /\ pc[w] = from
  /\ pc' = [pc EXCEPT ![w] = to]

-------------------------------------------------------------------------------
(* scheduler/queue.py *)

Rows == {j \in Jobs : status[j] # "absent"}
Used == Rows \cup UNION {stamped[w] : w \in Workers}
Alive(w) == pc[w] \notin {"down", "stopped"}

\* enqueue up to _now_iso(): created_at is later than every other in use.
EnqueueStamp(w, t) ==
  /\ Alive(w)
  /\ \E j \in Jobs :
       /\ \A i \in Used : i < j
       /\ j = 1 \/ j - 1 \in Used
       /\ stamped' = [stamped EXCEPT ![w] = @ \cup {j}]
       /\ task' = [task EXCEPT ![j] = t]
  /\ UNCHANGED <<status, ahead, pc, holds, runs, orphans, faults>>

\* INSERT and commit; other rows may have been inserted since the stamp.
EnqueueInsert(w) ==
  \E j \in stamped[w] :
    /\ status' = [status EXCEPT ![j] = "pending"]
    /\ ahead' = [ahead EXCEPT ![j] = Rows]
    /\ stamped' = [stamped EXCEPT ![w] = @ \ {j}]
    /\ UNCHANGED <<task, pc, holds, runs, orphans, faults>>

\* The INSERT raised: the scheduler logs it and the run is lost.
EnqueueRaises(w) ==
  /\ faults < MaxFaults
  /\ faults' = faults + 1
  /\ \E j \in stamped[w] : stamped' = [stamped EXCEPT ![w] = @ \ {j}]
  /\ UNCHANGED <<status, task, ahead, pc, holds, runs, orphans>>

\* Faulty ClaimSelect: ORDER BY created_at DESC.
ClaimSelectNewest(w) ==
  \E j \in Jobs :
    /\ status[j] = "pending"
    /\ \A i \in Jobs : i > j => status[i] # "pending"
    /\ Goto(w, "idle", "selected")
    /\ holds' = [holds EXCEPT ![w] = j]
    /\ UNCHANGED <<status, task, enqueues, runs, orphans, faults>>

\* Faulty ClaimSelect: running rows are picked up again.
ClaimSelectRunning(w) ==
  \E j \in Jobs :
    /\ status[j] \in {"pending", "running"}
    /\ \A i \in Jobs : i < j => status[i] \notin {"pending", "running"}
    /\ Goto(w, "idle", "selected")
    /\ holds' = [holds EXCEPT ![w] = j]
    /\ UNCHANGED <<status, task, enqueues, runs, orphans, faults>>

\* SELECT id ... ORDER BY created_at LIMIT 1; with no row claim_next returns
\* None and the loop sleeps.
ClaimSelect(w) ==
  \E j \in Jobs :
    /\ status[j] = "pending"
    /\ \A i \in Jobs : i < j => status[i] # "pending"
    /\ Goto(w, "idle", "selected")
    /\ holds' = [holds EXCEPT ![w] = j]
    /\ UNCHANGED <<status, task, enqueues, runs, orphans, faults>>

\* UPDATE ... WHERE id = ? AND status = 'pending': no row may match, and
\* nobody looks at the row count.
ClaimUpdate(w) ==
  /\ Goto(w, "selected", "updated")
  /\ status' = IF status[holds[w]] = "pending"
                 THEN [status EXCEPT ![holds[w]] = "running"]
                 ELSE status
  /\ UNCHANGED <<task, enqueues, holds, runs, orphans, faults>>

\* The row is fetched again and returned whatever its status; the loop hands
\* it to _execute_job.
ClaimFetch(w) ==
  /\ Goto(w, "updated", "executing")
  /\ runs' = [runs EXCEPT ![holds[w]] = @ + 1]
  /\ UNCHANGED <<status, task, enqueues, holds, orphans, faults>>

-------------------------------------------------------------------------------
(* worker.py *)

JobReturns(w) ==
  /\ Goto(w, "executing", "returned")
  /\ UNCHANGED <<status, task, enqueues, holds, runs, orphans, faults>>

\* Faulty JobRaises: the loop swallows the exception and polls on.
JobRaisesUnrecorded(w) ==
  /\ Goto(w, "executing", "idle")
  /\ task[holds[w]] \in Raising
  /\ holds' = [holds EXCEPT ![w] = 0]
  /\ UNCHANGED <<status, task, enqueues, runs, orphans, faults>>

JobRaises(w) ==
  /\ Goto(w, "executing", "raised")
  /\ task[holds[w]] \in Raising
  /\ UNCHANGED <<status, task, enqueues, holds, runs, orphans, faults>>

Mark(w, from, outcome) ==
  /\ Goto(w, from, "idle")
  /\ status' = [status EXCEPT ![holds[w]] = outcome]
  /\ holds' = [holds EXCEPT ![w] = 0]
  /\ UNCHANGED <<task, enqueues, runs, orphans, faults>>

MarkDone(w) == Mark(w, "returned", "done")

\* Faulty MarkFailed: a status no reader of the table knows.
MarkErrored(w) == Mark(w, "raised", "error")

\* Faulty MarkFailed: the job is tried again at once, until it succeeds.
RetryAtOnce(w) ==
  /\ Goto(w, "raised", "executing")
  /\ UNCHANGED <<status, task, enqueues, holds, runs, orphans, faults>>

MarkFailed(w) == Mark(w, "raised", "failed")

\* w lets go of its job without recording an outcome.
Release(w, to) ==
  /\ faults < MaxFaults
  /\ faults' = faults + 1
  /\ pc' = [pc EXCEPT ![w] = to]
  /\ holds' = [holds EXCEPT ![w] = 0]
  /\ orphans' = IF pc[w] \in Claimed THEN orphans \cup {holds[w]} ELSE orphans
  /\ UNCHANGED <<status, task, ahead, runs>>

\* mark_done raised inside the inner try: the handler records a failure.
MarkDoneRaises(w) ==
  /\ faults < MaxFaults
  /\ faults' = faults + 1
  /\ Goto(w, "returned", "raised")
  /\ UNCHANGED <<status, task, enqueues, holds, runs, orphans>>

\* A statement of claim_next, or mark_failed, raised: the outer handler logs
\* it and the loop goes on.
StatementRaises(w) ==
  /\ pc[w] \in {"selected", "updated", "raised"}
  /\ Release(w, "idle")
  /\ UNCHANGED stamped

\* What the process had under way is gone.
Kill(w) ==
  /\ Alive(w)
  /\ Release(w, "down")
  /\ stamped' = [stamped EXCEPT ![w] = {}]

\* systemd: Restart=on-failure.
Restart(w) ==
  /\ Goto(w, "down", "idle")
  /\ UNCHANGED <<status, task, enqueues, holds, runs, orphans, faults>>

\* SIGTERM sets _stop_event, which the loop reads between two jobs.
Stop(w) ==
  /\ Goto(w, "idle", "stopped")
  /\ stamped' = [stamped EXCEPT ![w] = {}]
  /\ UNCHANGED <<status, task, ahead, holds, runs, orphans, faults>>

PollStep(w) ==
  \/ ClaimSelect(w)
  \/ ClaimUpdate(w)
  \/ ClaimFetch(w)
  \/ JobReturns(w)
  \/ JobRaises(w)
  \/ MarkDone(w)
  \/ MarkFailed(w)
  \/ Restart(w)

Next ==
  \E w \in Workers :
       \/ \E t \in Tasks : EnqueueStamp(w, t)
       \/ EnqueueInsert(w)
       \/ EnqueueRaises(w)
       \/ PollStep(w)
       \/ MarkDoneRaises(w)
       \/ StatementRaises(w)
       \/ Kill(w)
       \/ Stop(w)

Safety == Init /\ [][Next]_vars

(***************************************************************************)
(* The loop polls every 500 ms, an execution ends, and systemd restarts a  *)
(* killed worker.  Faults and the stop signal are not obliged to happen.   *)
(***************************************************************************)
Spec == Safety /\ \A w \in Workers : WF_vars(PollStep(w))

-------------------------------------------------------------------------------
(* Properties *)

\* A job is handed to _execute_job at most once, whatever fails or is killed
\* in between (queue.py, claim_next: "Atomically claim the next pending job").
AtMostOnce == \A j \in Jobs : runs[j] <= 1

\* A row says "running" only while some worker is at it, or because a kill or
\* a failed statement left it so: no path of the loop forgets a job.
RunningIsOwned ==
  \A j \in Jobs : status[j] = "running" =>
    j \in orphans \/ \E w \in Workers : holds[w] = j /\ pc[w] \in Claimed

\* The table obeys JobBoard: a job is overtaken only by one that has the older
\* created_at or was in the table before it, and its outcome is never
\* rewritten (queue.py: ORDER BY created_at, "pending -> running -> done |
\* failed").
Board == INSTANCE JobBoard

BoardSpec == Board!Spec

\* No pending job waits for ever behind the others while a worker serves.
EveryJobIsTaken ==
  \A j \in Jobs :
    status[j] = "pending" ~>
      \/ status[j] # "pending"
      \/ \A w \in Workers : pc[w] = "stopped"
===============================================================================
