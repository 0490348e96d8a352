--------------------------- MODULE JobQueue_proofs ---------------------------
(***************************************************************************)
(* Theorems about JobQueue, for any number of jobs, tasks and faults.      *)
(*                                                                         *)
(* RunningIsOwned holds for any set of workers.  AtMostOnce and the        *)
(* refinement of JobBoard are proved for one worker (OneWorker), which is  *)
(* what the systemd unit starts; with two they are false, since nothing    *)
(* ties the row that claim_next returns to the row it updated.             *)
(***************************************************************************)
EXTENDS JobQueue, TLAPS

\* No two distinct processes poll the table.
OneWorker == \A v, w \in Workers : v = w

HoldsJob ==
  \A w \in Workers : pc[w] \in Claimed \cup {"selected"} => holds[w] \in Jobs

BaseInv == TypeOK /\ HoldsJob

\* The three ways an enqueue goes on.
Enqueues(w) ==
  (\E t \in Tasks : EnqueueStamp(w, t)) \/ EnqueueInsert(w) \/ EnqueueRaises(w)

LEMMA JobNumbers == \A j \in Jobs : j \in Nat /\ j > 0
  BY QueueAssumption DEF Jobs

LEMMA InitBase == Init => BaseInv
  BY QueueAssumption
     DEF Init, BaseInv, TypeOK, HoldsJob, Statuses, PollStates, Claimed, Jobs

LEMMA NextBase == BaseInv /\ [Next]_vars => BaseInv'
<1> SUFFICES ASSUME BaseInv, [Next]_vars PROVE BaseInv'
  OBVIOUS
<1> USE QueueAssumption, JobNumbers
    DEF BaseInv, TypeOK, HoldsJob, Statuses, PollStates, Claimed, Goto, enqueues
<1>1. ASSUME NEW w \in Workers, Enqueues(w) PROVE BaseInv'
  <2>1. /\ stamped' \in [Workers -> SUBSET Jobs]
        /\ status' \in [Jobs -> Statuses] /\ ahead' \in [Jobs -> SUBSET Jobs]
        /\ task' \in [Jobs -> Tasks \cup {NoTask}]
    BY <1>1 DEF Enqueues, EnqueueStamp, EnqueueInsert, EnqueueRaises, Rows
  <2>2. faults' \in 0..MaxFaults /\ UNCHANGED <<pc, holds, runs, orphans>>
    BY <1>1 DEF Enqueues, EnqueueStamp, EnqueueInsert, EnqueueRaises
  <2> QED
    BY <2>1, <2>2
<1>2. ASSUME NEW w \in Workers, ClaimSelect(w) PROVE BaseInv'
  <2>1. TypeOK'
    BY <1>2 DEF ClaimSelect
  <2>2. HoldsJob'
    BY <1>2 DEF ClaimSelect
  <2> QED
    BY <2>1, <2>2
<1>3. ASSUME NEW w \in Workers, ClaimUpdate(w) PROVE BaseInv'
  <2>1. TypeOK'
    BY <1>3 DEF ClaimUpdate
  <2>2. HoldsJob'
    BY <1>3 DEF ClaimUpdate
  <2> QED
    BY <2>1, <2>2
<1>4. ASSUME NEW w \in Workers, ClaimFetch(w) PROVE BaseInv'
  <2>1. TypeOK'
    <3>1. holds[w] \in Jobs
      BY <1>4 DEF ClaimFetch
    <3>2. runs' = [runs EXCEPT ![holds[w]] = runs[holds[w]] + 1]
      BY <1>4 DEF ClaimFetch
    <3>3. runs[holds[w]] + 1 \in Nat
      BY <3>1
    <3>4. runs' \in [Jobs -> Nat]
      BY <3>1, <3>2, <3>3
    <3> QED
      BY <1>4, <3>4 DEF ClaimFetch
  <2>2. HoldsJob'
    BY <1>4 DEF ClaimFetch
  <2> QED
    BY <2>1, <2>2
<1>5. ASSUME NEW w \in Workers, JobReturns(w) \/ JobRaises(w) PROVE BaseInv'
  <2>1. TypeOK'
    BY <1>5 DEF JobReturns, JobRaises
  <2>2. HoldsJob'
    BY <1>5 DEF JobReturns, JobRaises
  <2> QED
    BY <2>1, <2>2
<1>6. ASSUME NEW w \in Workers, MarkDone(w) \/ MarkFailed(w) PROVE BaseInv'
  <2>1. TypeOK'
    BY <1>6 DEF MarkDone, MarkFailed, Mark
  <2>2. HoldsJob'
    BY <1>6 DEF MarkDone, MarkFailed, Mark
  <2> QED
    BY <2>1, <2>2
<1>7. ASSUME NEW w \in Workers, MarkDoneRaises(w) PROVE BaseInv'
  <2>1. TypeOK'
    BY <1>7 DEF MarkDoneRaises
  <2>2. HoldsJob'
    BY <1>7 DEF MarkDoneRaises
  <2> QED
    BY <2>1, <2>2
<1>8. ASSUME NEW w \in Workers, StatementRaises(w) \/ Kill(w) PROVE BaseInv'
  <2>1. TypeOK'
    <3>1. faults' \in 0..MaxFaults
      BY <1>8 DEF StatementRaises, Kill, Release
    <3>2. orphans' \subseteq Jobs
      BY <1>8 DEF StatementRaises, Kill, Release
    <3>3. /\ pc' \in [Workers -> PollStates]
          /\ holds' \in [Workers -> Jobs \cup {0}]
          /\ UNCHANGED <<status, task, ahead, runs>>
      BY <1>8 DEF StatementRaises, Kill, Release
    <3>4. stamped' \in [Workers -> SUBSET Jobs]
      BY <1>8 DEF StatementRaises, Kill
    <3> QED
      BY <3>1, <3>2, <3>3, <3>4
  <2>2. HoldsJob'
    BY <1>8 DEF StatementRaises, Kill, Release
  <2> QED
    BY <2>1, <2>2
<1>9. ASSUME NEW w \in Workers, Restart(w) \/ Stop(w) PROVE BaseInv'
  <2>1. TypeOK'
    BY <1>9 DEF Restart, Stop
  <2>2. HoldsJob'
    BY <1>9 DEF Restart, Stop
  <2> QED
    BY <2>1, <2>2
<1>10. CASE UNCHANGED vars
  BY <1>10 DEF vars
<1> QED
  BY <1>1, <1>2, <1>3, <1>4, <1>5, <1>6, <1>7, <1>8, <1>9, <1>10
     DEF Next, PollStep, Enqueues

\* Type correctness of the queue, for any workers, jobs and faults.
THEOREM TypeCorrect == Safety => []TypeOK
<1>1. BaseInv => TypeOK
  BY DEF BaseInv
<1> QED
  BY <1>1, InitBase, NextBase, PTL DEF Safety

-------------------------------------------------------------------------------

\* When a single worker w moves, RunningIsOwned survives if w lets go of a
\* running row only by recording an orphan.
LEMMA OneWorkerMoves ==
  ASSUME RunningIsOwned, NEW w \in Workers,
         \A v \in Workers \ {w} : pc'[v] = pc[v] /\ holds'[v] = holds[v],
         orphans \subseteq orphans',
         \A j \in Jobs : status'[j] = "running" =>
           status[j] = "running" \/ (holds'[w] = j /\ pc'[w] \in Claimed),
         pc[w] \in Claimed =>
           \/ holds[w] \in orphans'
           \/ status'[holds[w]] # "running"
           \/ holds'[w] = holds[w] /\ pc'[w] \in Claimed
  PROVE  RunningIsOwned'
<1> SUFFICES ASSUME NEW j \in Jobs, status'[j] = "running", j \notin orphans'
             PROVE  \E v \in Workers : holds'[v] = j /\ pc'[v] \in Claimed
  BY DEF RunningIsOwned, Claimed
<1>1. CASE holds'[w] = j /\ pc'[w] \in Claimed
  BY <1>1
<1>2. CASE ~(holds'[w] = j /\ pc'[w] \in Claimed)
  <2>1. PICK v \in Workers : holds[v] = j /\ pc[v] \in Claimed
    BY <1>2 DEF RunningIsOwned
  <2>2. v # w
    BY <1>2, <2>1
  <2> QED
    BY <2>1, <2>2
<1> QED
  BY <1>1, <1>2

LEMMA NextOwned ==
  ASSUME BaseInv, RunningIsOwned, [Next]_vars
  PROVE  RunningIsOwned'
<1> USE QueueAssumption, JobNumbers
    DEF BaseInv, TypeOK, HoldsJob, Statuses, PollStates, Claimed, Goto, enqueues
<1>1. ASSUME NEW w \in Workers, Enqueues(w) PROVE RunningIsOwned'
  <2>1. \A j \in Jobs : status'[j] = "running" => status[j] = "running"
    BY <1>1 DEF Enqueues, EnqueueStamp, EnqueueInsert, EnqueueRaises
  <2>2. pc' = pc /\ holds' = holds /\ orphans' = orphans
    BY <1>1 DEF Enqueues, EnqueueStamp, EnqueueInsert, EnqueueRaises
  <2> QED
    BY <2>1, <2>2 DEF RunningIsOwned
<1>2. ASSUME NEW w \in Workers, ClaimSelect(w) PROVE RunningIsOwned'
  <2>1. /\ \A v \in Workers \ {w} : pc'[v] = pc[v] /\ holds'[v] = holds[v]
        /\ orphans \subseteq orphans'
    BY <1>2 DEF ClaimSelect
  <2>2. \A j \in Jobs : status'[j] = "running" =>
          status[j] = "running" \/ (holds'[w] = j /\ pc'[w] \in Claimed)
    BY <1>2 DEF ClaimSelect
  <2>3. pc[w] \in Claimed =>
          \/ holds[w] \in orphans'
          \/ status'[holds[w]] # "running"
          \/ holds'[w] = holds[w] /\ pc'[w] \in Claimed
    BY <1>2 DEF ClaimSelect
  <2> QED
    BY <2>1, <2>2, <2>3, OneWorkerMoves
<1>3. ASSUME NEW w \in Workers, ClaimUpdate(w) PROVE RunningIsOwned'
  <2>1. /\ \A v \in Workers \ {w} : pc'[v] = pc[v] /\ holds'[v] = holds[v]
        /\ orphans \subseteq orphans'
    BY <1>3 DEF ClaimUpdate
  <2>2. \A j \in Jobs : status'[j] = "running" =>
          status[j] = "running" \/ (holds'[w] = j /\ pc'[w] \in Claimed)
    BY <1>3 DEF ClaimUpdate
  <2>3. pc[w] \in Claimed =>
          \/ holds[w] \in orphans'
          \/ status'[holds[w]] # "running"
          \/ holds'[w] = holds[w] /\ pc'[w] \in Claimed
    BY <1>3 DEF ClaimUpdate
  <2> QED
    BY <2>1, <2>2, <2>3, OneWorkerMoves
<1>4. ASSUME NEW w \in Workers, ClaimFetch(w) PROVE RunningIsOwned'
  <2>1. /\ \A v \in Workers \ {w} : pc'[v] = pc[v] /\ holds'[v] = holds[v]
        /\ orphans \subseteq orphans'
    BY <1>4 DEF ClaimFetch
  <2>2. \A j \in Jobs : status'[j] = "running" =>
          status[j] = "running" \/ (holds'[w] = j /\ pc'[w] \in Claimed)
    BY <1>4 DEF ClaimFetch
  <2>3. pc[w] \in Claimed =>
          \/ holds[w] \in orphans'
          \/ status'[holds[w]] # "running"
          \/ holds'[w] = holds[w] /\ pc'[w] \in Claimed
    BY <1>4 DEF ClaimFetch
  <2> QED
    BY <2>1, <2>2, <2>3, OneWorkerMoves
<1>5. ASSUME NEW w \in Workers, JobReturns(w) \/ JobRaises(w) PROVE RunningIsOwned'
  <2>1. /\ \A v \in Workers \ {w} : pc'[v] = pc[v] /\ holds'[v] = holds[v]
        /\ orphans \subseteq orphans'
    BY <1>5 DEF JobReturns, JobRaises
  <2>2. \A j \in Jobs : status'[j] = "running" =>
          status[j] = "running" \/ (holds'[w] = j /\ pc'[w] \in Claimed)
    BY <1>5 DEF JobReturns, JobRaises
  <2>3. pc[w] \in Claimed =>
          \/ holds[w] \in orphans'
          \/ status'[holds[w]] # "running"
          \/ holds'[w] = holds[w] /\ pc'[w] \in Claimed
    BY <1>5 DEF JobReturns, JobRaises
  <2> QED
    BY <2>1, <2>2, <2>3, OneWorkerMoves
<1>6. ASSUME NEW w \in Workers, MarkDone(w) \/ MarkFailed(w) PROVE RunningIsOwned'
  <2>1. /\ \A v \in Workers \ {w} : pc'[v] = pc[v] /\ holds'[v] = holds[v]
        /\ orphans \subseteq orphans'
    BY <1>6 DEF MarkDone, MarkFailed, Mark
  <2>2. \A j \in Jobs : status'[j] = "running" =>
          status[j] = "running" \/ (holds'[w] = j /\ pc'[w] \in Claimed)
    BY <1>6 DEF MarkDone, MarkFailed, Mark
  <2>3. pc[w] \in Claimed =>
          \/ holds[w] \in orphans'
          \/ status'[holds[w]] # "running"
          \/ holds'[w] = holds[w] /\ pc'[w] \in Claimed
    BY <1>6 DEF MarkDone, MarkFailed, Mark
  <2> QED
    BY <2>1, <2>2, <2>3, OneWorkerMoves
<1>7. ASSUME NEW w \in Workers, MarkDoneRaises(w) PROVE RunningIsOwned'
  <2>1. /\ \A v \in Workers \ {w} : pc'[v] = pc[v] /\ holds'[v] = holds[v]
        /\ orphans \subseteq orphans'
    BY <1>7 DEF MarkDoneRaises
  <2>2. \A j \in Jobs : status'[j] = "running" =>
          status[j] = "running" \/ (holds'[w] = j /\ pc'[w] \in Claimed)
    BY <1>7 DEF MarkDoneRaises
  <2>3. pc[w] \in Claimed =>
          \/ holds[w] \in orphans'
          \/ status'[holds[w]] # "running"
          \/ holds'[w] = holds[w] /\ pc'[w] \in Claimed
    BY <1>7 DEF MarkDoneRaises
  <2> QED
    BY <2>1, <2>2, <2>3, OneWorkerMoves
<1>8. ASSUME NEW w \in Workers, StatementRaises(w) \/ Kill(w) PROVE RunningIsOwned'
  <2>1. /\ \A v \in Workers \ {w} : pc'[v] = pc[v] /\ holds'[v] = holds[v]
        /\ orphans \subseteq orphans'
    BY <1>8 DEF StatementRaises, Kill, Release
  <2>2. \A j \in Jobs : status'[j] = "running" =>
          status[j] = "running" \/ (holds'[w] = j /\ pc'[w] \in Claimed)
    BY <1>8 DEF StatementRaises, Kill, Release
  <2>3. pc[w] \in Claimed =>
          \/ holds[w] \in orphans'
          \/ status'[holds[w]] # "running"
          \/ holds'[w] = holds[w] /\ pc'[w] \in Claimed
    BY <1>8 DEF StatementRaises, Kill, Release
  <2> QED
    BY <2>1, <2>2, <2>3, OneWorkerMoves
<1>9. ASSUME NEW w \in Workers, Restart(w) \/ Stop(w) PROVE RunningIsOwned'
  <2>1. /\ \A v \in Workers \ {w} : pc'[v] = pc[v] /\ holds'[v] = holds[v]
        /\ orphans \subseteq orphans'
    BY <1>9 DEF Restart, Stop
  <2>2. \A j \in Jobs : status'[j] = "running" =>
          status[j] = "running" \/ (holds'[w] = j /\ pc'[w] \in Claimed)
    BY <1>9 DEF Restart, Stop
  <2>3. pc[w] \in Claimed =>
          \/ holds[w] \in orphans'
          \/ status'[holds[w]] # "running"
          \/ holds'[w] = holds[w] /\ pc'[w] \in Claimed
    BY <1>9 DEF Restart, Stop
  <2> QED
    BY <2>1, <2>2, <2>3, OneWorkerMoves
<1>10. CASE UNCHANGED vars
  BY <1>10 DEF vars, RunningIsOwned
<1> QED
  BY <1>1, <1>2, <1>3, <1>4, <1>5, <1>6, <1>7, <1>8, <1>9, <1>10
     DEF Next, PollStep, Enqueues

\* A row stays "running" without a worker at it only after a kill or a failed
\* statement, for any number of workers (worker.py, _queue_poll_loop).
THEOREM RunningRowsAreOwned == Safety => []RunningIsOwned
<1>1. Init => BaseInv /\ RunningIsOwned
  BY InitBase DEF Init, RunningIsOwned
<1>2. BaseInv /\ RunningIsOwned /\ [Next]_vars => (BaseInv /\ RunningIsOwned)'
  BY NextBase, NextOwned
<1> QED
  BY <1>1, <1>2, PTL DEF Safety

-------------------------------------------------------------------------------
(* One worker.  AtMostOnce is not inductive: it must be known that a row    *)
(* found pending was never run, and that the row between UPDATE and the     *)
(* second SELECT was not run yet either.                                    *)

\* A stamp that is not inserted yet has no row and is no other's.
StampsAreFree ==
  /\ \A w \in Workers : \A j \in stamped[w] : status[j] = "absent"
  /\ \A j \in Jobs : \A i \in ahead[j] : status[i] # "absent"

\* What came before the selected row, in both orders, is not pending.
SelectedIsOldest ==
  \A w \in Workers : pc[w] = "selected" =>
    /\ status[holds[w]] = "pending"
    /\ \A i \in ahead[holds[w]] : i < holds[w] => status[i] # "pending"

ClaimedIsRunning ==
  \A w \in Workers : pc[w] \in Claimed => status[holds[w]] = "running"

RunsCounted ==
  /\ \A j \in Jobs : status[j] \in {"absent", "pending"} => runs[j] = 0
  /\ \A w \in Workers : pc[w] = "updated" => runs[holds[w]] = 0

SoloInv ==
  /\ BaseInv
  /\ StampsAreFree
  /\ SelectedIsOldest
  /\ ClaimedIsRunning
  /\ RunsCounted
  /\ AtMostOnce

LEMMA InitSolo == Init => SoloInv
  BY InitBase, JobNumbers
     DEF Init, SoloInv, StampsAreFree, SelectedIsOldest, ClaimedIsRunning,
         RunsCounted, AtMostOnce, Claimed

LEMMA NextSolo ==
  ASSUME OneWorker, SoloInv, [Next]_vars
  PROVE  SoloInv'
<1>0. BaseInv'
  BY NextBase DEF SoloInv
<1> USE QueueAssumption, JobNumbers, <1>0
    DEF OneWorker, SoloInv, BaseInv, TypeOK, HoldsJob, Statuses, PollStates,
        Claimed, Goto, enqueues
<1>1. ASSUME NEW w \in Workers, Enqueues(w) PROVE SoloInv'
  <2>0. UNCHANGED <<pc, holds, runs>>
    BY <1>1 DEF Enqueues, EnqueueStamp, EnqueueInsert, EnqueueRaises
  <2>1. CASE (\E t \in Tasks : EnqueueStamp(w, t)) \/ EnqueueRaises(w)
    <3>1. UNCHANGED <<status, ahead>>
      BY <2>1 DEF EnqueueStamp, EnqueueRaises
    <3>2. \A j \in stamped'[w] : j \in stamped[w] \/ j \notin Rows
      <4>1. CASE EnqueueRaises(w)
        BY <4>1 DEF EnqueueRaises
      <4>2. ASSUME NEW t \in Tasks, EnqueueStamp(w, t)
            PROVE  \A j \in stamped'[w] : j \in stamped[w] \/ j \notin Rows
        <5>1. PICK n \in Jobs : /\ \A i \in Used : i < n
                               /\ stamped' = [stamped EXCEPT ![w] = @ \cup {n}]
          BY <4>2 DEF EnqueueStamp
        <5>2. n \notin Rows
          BY <5>1 DEF Used
        <5> QED
          BY <5>1, <5>2
      <4> QED
        BY <2>1, <4>1, <4>2
    <3>3. \A v \in Workers \ {w} : stamped'[v] = stamped[v]
      BY <2>1 DEF EnqueueStamp, EnqueueRaises
    <3>4. StampsAreFree'
      BY <3>1, <3>2, <3>3 DEF StampsAreFree, Rows
    <3> QED
      BY <2>0, <3>1, <3>4 DEF SelectedIsOldest, ClaimedIsRunning, RunsCounted, AtMostOnce
  <2>2. CASE EnqueueInsert(w)
    <3>1. PICK k \in stamped[w] :
            /\ status' = [status EXCEPT ![k] = "pending"]
            /\ ahead' = [ahead EXCEPT ![k] = Rows]
            /\ stamped' = [stamped EXCEPT ![w] = @ \ {k}]
      BY <2>2 DEF EnqueueInsert
    <3>2. k \in Jobs /\ status[k] = "absent"
      BY DEF StampsAreFree
    <3>3. StampsAreFree'
      BY <3>1, <3>2 DEF StampsAreFree, Rows
    <3>4. SelectedIsOldest'
      BY <2>0, <3>1, <3>2 DEF SelectedIsOldest, StampsAreFree
    <3>5. ClaimedIsRunning' /\ RunsCounted' /\ AtMostOnce'
      BY <2>0, <3>1, <3>2 DEF ClaimedIsRunning, RunsCounted, AtMostOnce
    <3> QED
      BY <3>3, <3>4, <3>5
  <2> QED
    BY <1>1, <2>1, <2>2 DEF Enqueues
<1>2. ASSUME NEW w \in Workers, ClaimSelect(w) PROVE SoloInv'
  <2>1. StampsAreFree'
    BY <1>2 DEF ClaimSelect, StampsAreFree
  <2>2. SelectedIsOldest'
    BY <1>2 DEF ClaimSelect, SelectedIsOldest
  <2>3. ClaimedIsRunning'
    BY <1>2 DEF ClaimSelect, ClaimedIsRunning, SelectedIsOldest
  <2>4. RunsCounted'
    BY <1>2 DEF ClaimSelect, RunsCounted, ClaimedIsRunning, SelectedIsOldest
  <2>5. AtMostOnce'
    BY <1>2 DEF ClaimSelect, AtMostOnce, RunsCounted
  <2> QED
    BY <2>1, <2>2, <2>3, <2>4, <2>5
<1>3. ASSUME NEW w \in Workers, ClaimUpdate(w) PROVE SoloInv'
  <2>1. StampsAreFree'
    BY <1>3 DEF ClaimUpdate, StampsAreFree
  <2>2. SelectedIsOldest'
    BY <1>3 DEF ClaimUpdate, SelectedIsOldest
  <2>3. ClaimedIsRunning'
    BY <1>3 DEF ClaimUpdate, ClaimedIsRunning, SelectedIsOldest
  <2>4. RunsCounted'
    BY <1>3 DEF ClaimUpdate, RunsCounted, ClaimedIsRunning, SelectedIsOldest
  <2>5. AtMostOnce'
    BY <1>3 DEF ClaimUpdate, AtMostOnce, RunsCounted
  <2> QED
    BY <2>1, <2>2, <2>3, <2>4, <2>5
<1>4. ASSUME NEW w \in Workers, ClaimFetch(w) PROVE SoloInv'
  <2>1. StampsAreFree'
    BY <1>4 DEF ClaimFetch, StampsAreFree
  <2>2. SelectedIsOldest'
    BY <1>4 DEF ClaimFetch, SelectedIsOldest
  <2>3. ClaimedIsRunning'
    BY <1>4 DEF ClaimFetch, ClaimedIsRunning, SelectedIsOldest
  <2>4. RunsCounted'
    BY <1>4 DEF ClaimFetch, RunsCounted, ClaimedIsRunning, SelectedIsOldest
  <2>5. AtMostOnce'
    BY <1>4 DEF ClaimFetch, AtMostOnce, RunsCounted
  <2> QED
    BY <2>1, <2>2, <2>3, <2>4, <2>5
<1>5. ASSUME NEW w \in Workers, JobReturns(w) \/ JobRaises(w) PROVE SoloInv'
  <2>1. StampsAreFree'
    BY <1>5 DEF JobReturns, JobRaises, StampsAreFree
  <2>2. SelectedIsOldest'
    BY <1>5 DEF JobReturns, JobRaises, SelectedIsOldest
  <2>3. ClaimedIsRunning'
    BY <1>5 DEF JobReturns, JobRaises, ClaimedIsRunning, SelectedIsOldest
  <2>4. RunsCounted'
    BY <1>5 DEF JobReturns, JobRaises, RunsCounted, ClaimedIsRunning, SelectedIsOldest
  <2>5. AtMostOnce'
    BY <1>5 DEF JobReturns, JobRaises, AtMostOnce, RunsCounted
  <2> QED
    BY <2>1, <2>2, <2>3, <2>4, <2>5
<1>6. ASSUME NEW w \in Workers, MarkDone(w) \/ MarkFailed(w) PROVE SoloInv'
  <2>1. StampsAreFree'
    <3>1. holds[w] \in Jobs /\ status[holds[w]] = "running"
      BY <1>6 DEF MarkDone, MarkFailed, Mark, ClaimedIsRunning
    <3>2. \A i \in Jobs : status'[i] = "absent" <=> status[i] = "absent"
      BY <1>6, <3>1 DEF MarkDone, MarkFailed, Mark
    <3>3. UNCHANGED <<stamped, ahead>>
      BY <1>6 DEF MarkDone, MarkFailed, Mark
    <3> QED
      BY <3>2, <3>3 DEF StampsAreFree
  <2>2. SelectedIsOldest'
    BY <1>6 DEF MarkDone, MarkFailed, Mark, SelectedIsOldest
  <2>3. ClaimedIsRunning'
    BY <1>6 DEF MarkDone, MarkFailed, Mark, ClaimedIsRunning, SelectedIsOldest
  <2>4. RunsCounted'
    BY <1>6 DEF MarkDone, MarkFailed, Mark, RunsCounted, ClaimedIsRunning, SelectedIsOldest
  <2>5. AtMostOnce'
    BY <1>6 DEF MarkDone, MarkFailed, Mark, AtMostOnce, RunsCounted
  <2> QED
    BY <2>1, <2>2, <2>3, <2>4, <2>5
<1>7. ASSUME NEW w \in Workers, MarkDoneRaises(w) PROVE SoloInv'
  <2>1. StampsAreFree'
    BY <1>7 DEF MarkDoneRaises, StampsAreFree
  <2>2. SelectedIsOldest'
    BY <1>7 DEF MarkDoneRaises, SelectedIsOldest
  <2>3. ClaimedIsRunning'
    BY <1>7 DEF MarkDoneRaises, ClaimedIsRunning, SelectedIsOldest
  <2>4. RunsCounted'
    BY <1>7 DEF MarkDoneRaises, RunsCounted, ClaimedIsRunning, SelectedIsOldest
  <2>5. AtMostOnce'
    BY <1>7 DEF MarkDoneRaises, AtMostOnce, RunsCounted
  <2> QED
    BY <2>1, <2>2, <2>3, <2>4, <2>5
<1>8. ASSUME NEW w \in Workers, StatementRaises(w) \/ Kill(w) PROVE SoloInv'
  <2>1. StampsAreFree'
    BY <1>8 DEF StatementRaises, Kill, Release, StampsAreFree
  <2>2. SelectedIsOldest'
    BY <1>8 DEF StatementRaises, Kill, Release, SelectedIsOldest
  <2>3. ClaimedIsRunning'
    BY <1>8 DEF StatementRaises, Kill, Release, ClaimedIsRunning, SelectedIsOldest
  <2>4. RunsCounted'
    BY <1>8 DEF StatementRaises, Kill, Release, RunsCounted, ClaimedIsRunning, SelectedIsOldest
  <2>5. AtMostOnce'
    BY <1>8 DEF StatementRaises, Kill, Release, AtMostOnce, RunsCounted
  <2> QED
    BY <2>1, <2>2, <2>3, <2>4, <2>5
<1>9. ASSUME NEW w \in Workers, Restart(w) \/ Stop(w) PROVE SoloInv'
  <2>1. StampsAreFree'
    BY <1>9 DEF Restart, Stop, StampsAreFree
  <2>2. SelectedIsOldest'
    BY <1>9 DEF Restart, Stop, SelectedIsOldest
  <2>3. ClaimedIsRunning'
    BY <1>9 DEF Restart, Stop, ClaimedIsRunning, SelectedIsOldest
  <2>4. RunsCounted'
    BY <1>9 DEF Restart, Stop, RunsCounted, ClaimedIsRunning, SelectedIsOldest
  <2>5. AtMostOnce'
    BY <1>9 DEF Restart, Stop, AtMostOnce, RunsCounted
  <2> QED
    BY <2>1, <2>2, <2>3, <2>4, <2>5
<1>10. CASE UNCHANGED vars
  BY <1>10 DEF vars, StampsAreFree, SelectedIsOldest, ClaimedIsRunning,
               RunsCounted, AtMostOnce
<1> QED
  BY <1>1, <1>2, <1>3, <1>4, <1>5, <1>6, <1>7, <1>8, <1>9, <1>10
     DEF Next, PollStep, Enqueues

\* With one worker no job is executed twice, through any kills, failed
\* statements and restarts (queue.py, claim_next).
THEOREM SoloAtMostOnce ==
  ASSUME OneWorker
  PROVE  Safety => []AtMostOnce
<1>1. SoloInv => AtMostOnce
  BY DEF SoloInv
<1>2. SoloInv /\ [Next]_vars => SoloInv'
  BY NextSolo
<1> QED
  BY <1>1, <1>2, InitSolo, PTL DEF Safety

LEMMA SoloStepRefines ==
  ASSUME OneWorker, SoloInv, [Next]_vars
  PROVE  [Board!Next]_<<status, ahead>>
<1> USE DEF enqueues, SoloInv, BaseInv, TypeOK, HoldsJob, SelectedIsOldest, ClaimedIsRunning,
            Claimed, Jobs, Board!Jobs, Goto
<1>1. ASSUME NEW w \in Workers, EnqueueInsert(w)
      PROVE \E j \in Jobs : Board!Post(j)
  BY <1>1 DEF EnqueueInsert, Rows, StampsAreFree, Board!Post, Board!Move
<1>2. ASSUME NEW w \in Workers, ClaimUpdate(w)
      PROVE Board!Claim(holds[w]) /\ holds[w] \in Jobs
  BY <1>2 DEF ClaimUpdate, Board!Claim, Board!Move
<1>3. ASSUME NEW w \in Workers, MarkDone(w) \/ MarkFailed(w)
      PROVE Board!Finish(holds[w]) /\ holds[w] \in Jobs
  BY <1>3 DEF MarkDone, MarkFailed, Mark, Board!Finish, Board!Move
<1>4. ASSUME NEW w \in Workers,
             \/ ClaimSelect(w) \/ ClaimFetch(w) \/ JobReturns(w) \/ JobRaises(w)
             \/ MarkDoneRaises(w) \/ StatementRaises(w) \/ Kill(w)
             \/ Restart(w) \/ Stop(w) \/ EnqueueRaises(w)
             \/ \E t \in Tasks : EnqueueStamp(w, t)
      PROVE UNCHANGED <<status, ahead>>
  BY <1>4 DEF ClaimSelect, ClaimFetch, JobReturns, JobRaises, MarkDoneRaises,
              StatementRaises, Kill, Release, Restart, Stop, EnqueueRaises, EnqueueStamp
<1>5. CASE UNCHANGED vars
  BY <1>5 DEF vars
<1> QED
  BY <1>1, <1>2, <1>3, <1>4, <1>5 DEF Next, PollStep, Board!Next

\* With one worker the table follows JobBoard: no job is overtaken by one that
\* is younger and was inserted later, and outcomes are final.
THEOREM SoloRefinesBoard ==
  ASSUME OneWorker
  PROVE  Safety => BoardSpec
<1>1. Init => Board!Init
  BY DEF Init, Board!Init, Board!Jobs, Jobs
<1>2. SoloInv /\ [Next]_vars => SoloInv'
  BY NextSolo
<1>3. SoloInv /\ [Next]_vars => [Board!Next]_<<status, ahead>>
  BY SoloStepRefines
<1> QED
  BY <1>1, <1>2, <1>3, InitSolo, PTL DEF Safety, BoardSpec, Board!Spec
===============================================================================
