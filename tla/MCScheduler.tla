------------------------------ MODULE MCScheduler ------------------------------
(* One scheduled job, two prompts, at most two queue rows and one fault. *)
EXTENDS Scheduler

CONSTANTS u1, u2, p1, p2

MCUserJobs == {u1, u2}
MCOneJob == {u1}
MCPrompts == {p1, p2}
MCBothStores == {"sqlalchemy", "memory"}
MCConfiguredStore == {"sqlalchemy"}
===============================================================================
