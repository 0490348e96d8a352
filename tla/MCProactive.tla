----------------------------- MODULE MCProactive -----------------------------
(* Small worlds: clients and what the worker announces to them, push, two *)
(* directories, two targets.                                              *)
EXTENDS Proactive, TLC

CONSTANTS c1, c2, n1, n2, e1, e2, f1, f2, d1, d2, t1, t2, t3, u1, u2, ok, bad

MCClient == {c1, c2}
MCNote == {n1, n2}
MCEndpoint == {e1, e2}
MCFile == {f1, f2}
MCDir == {d1, d2}
MCDirOf == f1 :> d1 @@ f2 :> d1
MCTarget == {t1, t2, t3}
MCUrlOf == t1 :> u1 @@ t2 :> u2 @@ t3 :> u2
MCExpected == t1 :> ok @@ t2 :> ok @@ t3 :> bad
MCStatus == {ok, bad}
MCEvent == MCNote \cup 1..8
None == [clients |-> {}, notes |-> {}, endpoints |-> {}, reader |-> FALSE, restarts |-> 0,
         dirs |-> {}, files |-> {}, changes |-> 0, starts |-> 0, watchdog |-> {TRUE},
         targets |-> {}, loops |-> 0]
MCScopes ==
  {[None EXCEPT !.clients = {c1}, !.notes = {n1}, !.reader = TRUE],
   [None EXCEPT !.notes = {n1}, !.endpoints = {e1, e2}, !.restarts = 1],
   [None EXCEPT !.notes = {n1, n2}, !.endpoints = {e2}],
   [None EXCEPT !.clients = {c1, c2}, !.dirs = {d1}, !.files = {f1}, !.changes = 1, !.starts = 1],
   [None EXCEPT !.clients = {c1}, !.dirs = {d1}, !.files = {f1}, !.changes = 2, !.starts = 1],
   [None EXCEPT !.dirs = {d1, d2}, !.files = {f1, f2}, !.changes = 2, !.starts = 1,
                !.watchdog = BOOLEAN],
   [None EXCEPT !.dirs = {d1}, !.files = {f1}, !.changes = 2, !.starts = 2,
                !.watchdog = BOOLEAN],
   [None EXCEPT !.targets = {t1}, !.loops = 2],
   [None EXCEPT !.targets = {t2, t3}, !.loops = 1],
   [None EXCEPT !.targets = {t1, t2}, !.loops = 1]}
==============================================================================
