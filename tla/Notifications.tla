---------------------------- MODULE Notifications ----------------------------
(***************************************************************************)
(* The notification bus: proactive/notifications.py and push.py, the jobs  *)
(* of the worker that write to it (heartbeat.py, reflection.py) and the    *)
(* API's endpoints.  Rows and subscriptions are in the database the two    *)
(* processes share; the hub that create_notification broadcasts on is the  *)
(* one of the process that runs it.                                        *)
(***************************************************************************)
EXTENDS Hub

CONSTANTS
  Note,      \* bound: notifications that may be created
  Endpoint   \* push endpoints

Priorities == {"info", "warning", "urgent"}
CpuHighConsecutive == 3   \* _CPU_HIGH_CONSECUTIVE; the count is capped there

VARIABLES
  task,      \* per note: the job of the worker that creates it, and where it is
  rows,      \* the notifications table: per note "none" or what was done to it
  cpuHigh,   \* heartbeat._cpu_high_count
  fact,      \* the note whose text is the day's fact in structured memory
  restarts,
  pushOn,    \* push enabled, VAPID keys set and pywebpush installed
  subs,      \* the push_subscriptions table
  wanted,    \* endpoints whose browser subscribed and did not unsubscribe
  gone,      \* endpoints the push service has dropped: a push never arrives
  mistaken,  \* history: endpoints that were there and were taken for dropped
  pushed     \* per endpoint and note, the pushes it received

noteVars == <<task, rows, cpuHigh, fact, restarts>>
pushVars == <<subs, wanted, gone, mistaken, pushed>>

NoTask == [pc |-> "idle", from |-> "none", prio |-> "info", todo |-> {}, stale |-> {},
           failed |-> {}, since |-> {}, there |-> {}, listed |-> FALSE]

NotesInit ==
  /\ task = [n \in Note |-> NoTask]
  /\ rows = [n \in Note |-> {}]
  /\ cpuHigh = 0 /\ fact = "none" /\ restarts = 0
  /\ pushOn \in BOOLEAN
  /\ subs = {} /\ wanted = {} /\ gone = {} /\ mistaken = {}
  /\ pushed = [ep \in Endpoint |-> [n \in Note |-> 0]]

At(n, pc) == task[n].pc = pc
Goto(n, pc) == task' = [task EXCEPT ![n].pc = pc]

------------------------------------------------------------------------------
(* The worker's jobs *)

\* _check_system_resources and what run_heartbeat makes of it.  A reading
\* that psutil cannot take raises no anomaly and leaves the count alone.
Heartbeat(n) ==
  /\ At(n, "idle")
  /\ \E disk \in {"ok", "above 90", "above 95"}, memory \in {"ok", "above 90"},
        cpu \in {"ok", "above 95", "unread"} :
       LET count == CASE cpu = "above 95" -> IF cpuHigh = CpuHighConsecutive THEN cpuHigh
                                             ELSE cpuHigh + 1
                      [] cpu = "ok"       -> 0
                      [] cpu = "unread"   -> cpuHigh
           anomaly == \/ disk # "ok" \/ memory # "ok"
                      \/ cpu = "above 95" /\ count = CpuHighConsecutive
       IN  /\ cpuHigh' = count
           /\ task' = IF ~anomaly THEN task
                      ELSE [task EXCEPT ![n] = [NoTask EXCEPT
                              !.pc = "asking", !.from = "heartbeat",
                              !.prio = IF disk = "above 95" THEN "urgent" ELSE "warning"]]
  /\ UNCHANGED <<rows, fact, restarts, pushVars, hubVars>>

\* run_daily_reflection, when the audit log of the day is not empty
Reflect(n) ==
  /\ At(n, "idle")
  /\ task' = [task EXCEPT ![n] = [NoTask EXCEPT !.pc = "asking", !.from = "reflection"]]
  /\ UNCHANGED <<rows, cpuHigh, fact, restarts, pushVars, hubVars>>

\* the model's answer: the heartbeat does without, the reflection gives up
Analysed(n) ==
  /\ At(n, "asking")
  /\ \/ Goto(n, "insert")
     \/ task[n].from = "reflection" /\ Goto(n, "failed")
  /\ UNCHANGED <<rows, cpuHigh, fact, restarts, pushVars, hubVars>>

------------------------------------------------------------------------------
(* create_notification *)

Insert(n) ==
  /\ At(n, "insert")
  /\ \/ /\ task' = [task EXCEPT ![n].pc = "cast", ![n].since = subs, ![n].there = hub["api"]]
        /\ rows' = [rows EXCEPT ![n] = {"stored"}]
     \/ Goto(n, "failed") /\ UNCHANGED rows     \* the database is locked
  /\ UNCHANGED <<cpuHigh, fact, restarts, pushVars, hubVars>>

\* every caller runs in the worker
Announce(n) ==
  /\ At(n, "cast") /\ n \notin Begun
  /\ Broadcast(n, "worker")
  /\ UNCHANGED <<token, sock, hub, got, noteVars, pushVars>>

Announced(n) ==
  /\ At(n, "cast") /\ Sent(n)
  /\ Goto(n, IF task[n].prio = "urgent" THEN "list" ELSE "end")
  /\ UNCHANGED <<rows, cpuHigh, fact, restarts, pushVars, hubVars>>

\* send_push_notification: the subscriptions are read once.  It ends there
\* when push is off, and when the table cannot be read: whatever it raises is
\* logged by create_notification, which goes on.
ListSubscriptions(n) ==
  /\ At(n, "list")
  /\ \/ pushOn /\ task' = [task EXCEPT ![n].pc = "push", ![n].todo = subs, ![n].listed = TRUE]
     \/ Goto(n, "end")
  /\ UNCHANGED <<rows, cpuHigh, fact, restarts, pushVars, hubVars>>

\* mutant: the first endpoint that fails ends the loop
PushOneStops(n) ==
  /\ At(n, "push")
  /\ \E ep \in task[n].todo :
       \/ /\ ep \notin gone
          /\ pushed' = [pushed EXCEPT ![ep][n] = @ + 1]
          /\ task' = [task EXCEPT ![n].todo = @ \ {ep}]
          /\ UNCHANGED mistaken
       \/ /\ task' = [task EXCEPT ![n].todo = {}, ![n].failed = @ \cup {ep}]
          /\ UNCHANGED <<pushed, mistaken>>
  /\ UNCHANGED <<rows, cpuHigh, fact, restarts, subs, wanted, gone, hubVars>>

\* one webpush, which holds the worker but not the API.  An endpoint is stale
\* when the text of the exception has a 404 or a 410 anywhere: the text quotes
\* the URL and the answer's body, so that any failure may look like one
PushOne(n) ==
  /\ At(n, "push")
  /\ \E ep \in task[n].todo :
       \/ /\ ep \notin gone
          /\ pushed' = [pushed EXCEPT ![ep][n] = @ + 1]
          /\ task' = [task EXCEPT ![n].todo = @ \ {ep}]
          /\ UNCHANGED mistaken
       \/ \E stale \in BOOLEAN :
            /\ task' = [task EXCEPT ![n].todo = @ \ {ep}, ![n].failed = @ \cup {ep},
                                    ![n].stale = IF stale THEN @ \cup {ep} ELSE @]
            /\ mistaken' = IF stale /\ ep \notin gone THEN mistaken \cup {ep} ELSE mistaken
            /\ UNCHANGED pushed
  /\ UNCHANGED <<rows, cpuHigh, fact, restarts, subs, wanted, gone, hubVars>>

Delete(ep) ==
  subs' = subs \ {ep}

\* the stale endpoints are deleted when all were tried
DeleteStale(n) ==
  /\ At(n, "push") /\ task[n].todo = {}
  /\ \E ep \in task[n].stale :
       /\ Delete(ep)
       /\ task' = [m \in Note |-> [task[m] EXCEPT
                     !.since = @ \ {ep}, !.stale = IF m = n THEN @ \ {ep} ELSE @]]
  /\ UNCHANGED <<rows, cpuHigh, fact, restarts, wanted, gone, mistaken, pushed, hubVars>>

\* a deletion that raises leaves the rest of them
PushEnded(n) ==
  /\ At(n, "push") /\ task[n].todo = {}
  /\ Goto(n, "end")
  /\ UNCHANGED <<rows, cpuHigh, fact, restarts, pushVars, hubVars>>

\* the reflection becomes a fact of the day after it was announced
Created(n) ==
  /\ At(n, "end")
  /\ Goto(n, "done")
  /\ fact' = IF task[n].from = "reflection" THEN n ELSE fact
  /\ UNCHANGED <<rows, cpuHigh, restarts, pushVars, hubVars>>

\* the worker dies: systemd starts a new one, which knows of nothing
WorkerRestart ==
  /\ restarts < scope.restarts
  /\ restarts' = restarts + 1
  /\ cpuHigh' = 0
  /\ task' = [n \in Note |-> IF task[n].pc \in {"idle", "done", "failed"} THEN task[n]
                             ELSE [task[n] EXCEPT !.pc = "lost"]]
  /\ UNCHANGED <<rows, fact, pushVars, hubVars>>

------------------------------------------------------------------------------
(* The API, the browsers and the push service *)

\* dismiss, snooze and mark_read set a column of a row that is there
Mark(n, column) ==
  /\ rows[n] # {} /\ column \notin rows[n]
  /\ rows' = [rows EXCEPT ![n] = @ \cup {column}]
  /\ UNCHANGED <<task, cpuHigh, fact, restarts, pushVars, hubVars>>
Dismiss(n)  == Mark(n, "dismissed")
Snooze(n)   == Mark(n, "snoozed")
MarkRead(n) == Mark(n, "read")

\* save_subscription: an upsert on the endpoint
Subscribe(ep) ==
  /\ subs' = subs \cup {ep} /\ wanted' = wanted \cup {ep}
  /\ UNCHANGED <<gone, mistaken, pushed, noteVars, hubVars>>

Unsubscribe(ep) ==
  /\ Delete(ep) /\ wanted' = wanted \ {ep}
  /\ task' = [n \in Note |-> [task[n] EXCEPT !.since = @ \ {ep}]]
  /\ UNCHANGED <<gone, mistaken, pushed, rows, cpuHigh, fact, restarts, hubVars>>

\* the service forgets an endpoint, for ever
EndpointExpires(ep) ==
  /\ ep \in wanted \ gone
  /\ gone' = gone \cup {ep}
  /\ UNCHANGED <<subs, wanted, mistaken, pushed, noteVars, hubVars>>

NoteStep ==
  \/ \E n \in scope.notes :
       \/ Heartbeat(n) \/ Reflect(n) \/ Analysed(n) \/ Insert(n) \/ Announce(n) \/ Announced(n)
       \/ ListSubscriptions(n) \/ PushOne(n) \/ DeleteStale(n) \/ PushEnded(n) \/ Created(n)
       \/ scope.reader /\ (Dismiss(n) \/ Snooze(n) \/ MarkRead(n))
  \/ WorkerRestart
  \/ \E ep \in scope.endpoints : Subscribe(ep) \/ Unsubscribe(ep) \/ EndpointExpires(ep)
==============================================================================
