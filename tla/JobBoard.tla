------------------------------- MODULE JobBoard -------------------------------
(***************************************************************************)
(* What scheduler/queue.py promises of its table, without processes:       *)
(* "Status flow: pending -> running -> done | failed", no job is overtaken *)
(* by one that is younger and came later, and an outcome is final.  Jobs   *)
(* are numbered by created_at; rows need not appear in that order.         *)
(***************************************************************************)
EXTENDS Naturals

CONSTANT MaxJobs

Jobs == 1..MaxJobs

VARIABLES
  status,
  ahead     \* the rows a job found in the table when it was posted

Statuses == {"absent", "pending", "running", "done", "failed"}

Init ==
  /\ status = [j \in Jobs |-> "absent"]
  /\ ahead = [j \in Jobs |-> {}]

Move(j, from, to) ==
  /\ status[j] = from
  /\ status' = [status EXCEPT ![j] = to]

Post(j) ==
  /\ Move(j, "absent", "pending")
  /\ ahead' = [ahead EXCEPT ![j] = {i \in Jobs : status[i] # "absent"}]

Claim(j) ==
  /\ \A i \in ahead[j] : i < j => status[i] # "pending"
  /\ Move(j, "pending", "running")
  /\ UNCHANGED ahead

Finish(j) ==
  /\ Move(j, "running", "done") \/ Move(j, "running", "failed")
  /\ UNCHANGED ahead

Next == \E j \in Jobs : Post(j) \/ Claim(j) \/ Finish(j)

Spec == Init /\ [][Next]_<<status, ahead>>
===============================================================================
