-------------------------------- MODULE Uptime --------------------------------
(***************************************************************************)
(* UptimeMonitor of tools/uptime_monitor.py: a loop that checks all the    *)
(* targets at once, then goes through the results in order, and calls the  *)
(* alert callback, which may await, when a URL's state changes.            *)
(***************************************************************************)
EXTENDS Naturals, FiniteSets, Sequences

CONSTANTS
  Target,    \* what may be monitored
  UrlOf,     \* the URL of each target: two may share one
  Expected,  \* the status each target expects
  Status,    \* what a site may answer; "none" when it does not
  Refused,   \* URLs that are never asked: not http, or a private address
  MaxLoops,  \* bound: calls of start()
  MaxRounds, \* bound: rounds of a loop
  MaxFlips   \* bound: changes of a site

Url == {UrlOf[t] : t \in Target}
Loop == 1..MaxLoops

VARIABLES
  site,     \* per URL, what it answers
  flips,    \* history: how often that changed
  targets,  \* UptimeMonitor._targets
  latest,   \* _latest_results: per URL "none", "up" or "down"
  alerting, \* _alert_callback is set
  alerts,   \* history: per URL, how often it was called
  believed,     \* history: per URL, the state that whoever is told believes in
  loop,     \* per loop: [pc, rounds, res, i]
  current   \* the loop of self._task; 0 for none

uptimeVars == <<site, flips, targets, latest, alerting, alerts, believed, loop, current>>

NoLoop == [pc |-> "off", rounds |-> 0, of |-> <<>>, res |-> <<>>, i |-> 0]

UptimeInit ==
  /\ site \in [Url -> Status]
  /\ flips = [u \in Url |-> 0]
  /\ targets = <<>> /\ latest = [u \in Url |-> "none"]
  /\ alerting = FALSE
  /\ alerts = [u \in Url |-> 0] /\ believed = latest
  /\ loop = [l \in Loop |-> NoLoop] /\ current = 0

SiteChanges(u, s) ==
  /\ site[u] # s /\ flips[u] < MaxFlips
  /\ site' = [site EXCEPT ![u] = s] /\ flips' = [flips EXCEPT ![u] = @ + 1]
  /\ UNCHANGED <<targets, latest, alerting, alerts, believed, loop, current>>

AddTarget(t) ==
  /\ \A i \in DOMAIN targets : targets[i] # t
  /\ targets' = Append(targets, t)
  /\ UNCHANGED <<site, flips, latest, alerting, alerts, believed, loop, current>>

SetAlertCallback ==
  /\ ~alerting /\ alerting' = TRUE
  /\ UNCHANGED <<site, flips, targets, latest, alerts, believed, loop, current>>

\* a new loop, whatever became of the one before
Start ==
  /\ current' = current + 1
  /\ loop' = [loop EXCEPT ![current'].pc = "round"]
  /\ UNCHANGED <<site, flips, targets, latest, alerting, alerts, believed>>

\* the cancellation reaches the loop at the await it is in
Stop ==
  /\ current # 0 /\ loop[current].pc # "over"
  /\ loop' = [loop EXCEPT ![current].pc = "over"]
  /\ UNCHANGED <<site, flips, targets, latest, alerting, alerts, believed, current>>

------------------------------------------------------------------------------
(* _loop and _check_all *)

Quiet == UNCHANGED <<site, flips, targets, alerting, current>>

Gather(l) ==
  /\ loop[l].pc = "round" /\ loop[l].rounds < MaxRounds
  /\ loop' = [loop EXCEPT ![l] =
       [pc |-> IF targets = <<>> THEN "round" ELSE "checking", rounds |-> @.rounds + 1,
        of |-> targets, res |-> [k \in DOMAIN targets |-> "none"], i |-> 1]]
  /\ Quiet /\ UNCHANGED <<latest, alerts, believed>>

\* _check_single: no answer counts as down, and so does a URL it refuses
Answer(t) ==
  IF UrlOf[t] \notin Refused /\ site[UrlOf[t]] = Expected[t] THEN "up" ELSE "down"

CheckSingle(l, k) ==
  /\ loop[l].pc = "checking" /\ loop[l].res[k] = "none"
  /\ loop' = [loop EXCEPT ![l].res[k] = Answer(loop[l].of[k])]
  /\ Quiet /\ UNCHANGED <<latest, alerts, believed>>

\* mutant: the first result of a URL counts as a change
StoreAlertsFirst(l) ==
  /\ loop[l].pc = "checking"
  /\ \A k \in DOMAIN loop[l].res : loop[l].res[k] # "none"
  /\ LET i == loop[l].i
         u == UrlOf[loop[l].of[i]]
         new == loop[l].res[i]
         calls == alerting /\ latest[u] # new
     IN  /\ latest' = [latest EXCEPT ![u] = new]
         /\ alerts' = [alerts EXCEPT ![u] = IF calls THEN @ + 1 ELSE @]
         /\ believed' = [believed EXCEPT ![u] = new]
         /\ loop' = [loop EXCEPT ![l].i = i + 1,
              ![l].pc = IF calls THEN "alert"
                        ELSE IF i = Len(loop[l].of) THEN "round" ELSE "checking"]
  /\ Quiet

\* the next result is stored and then compared with the one it replaced
Store(l) ==
  /\ loop[l].pc = "checking"
  /\ \A k \in DOMAIN loop[l].res : loop[l].res[k] # "none"
  /\ LET i == loop[l].i
         u == UrlOf[loop[l].of[i]]
         new == loop[l].res[i]
         calls == alerting /\ latest[u] \notin {"none", new}
     IN  /\ latest' = [latest EXCEPT ![u] = new]
         /\ alerts' = [alerts EXCEPT ![u] = IF calls THEN @ + 1 ELSE @]
         /\ believed' = [believed EXCEPT ![u] =
              IF calls \/ ~alerting \/ latest[u] = "none" THEN new ELSE @]
         /\ loop' = [loop EXCEPT ![l].i = i + 1,
              ![l].pc = IF calls THEN "alert"
                        ELSE IF i = Len(loop[l].of) THEN "round" ELSE "checking"]
  /\ Quiet

\* the callback returns, or raises and takes the rest of the round with it
Alerted(l) ==
  /\ loop[l].pc = "alert"
  /\ \E raised \in BOOLEAN :
       loop' = [loop EXCEPT ![l].pc =
                  IF raised \/ loop[l].i > Len(loop[l].of) THEN "round" ELSE "checking"]
  /\ Quiet /\ UNCHANGED <<latest, alerts, believed>>

LoopStep(l) ==
  \/ Gather(l) \/ Store(l) \/ Alerted(l)
  \/ \E k \in DOMAIN loop[l].res : CheckSingle(l, k)

UptimeStep(active, loops) ==
  /\ active # {}
  /\ \/ \E t \in active : AddTarget(t)
     \/ \E t \in active, s \in Status : SiteChanges(UrlOf[t], s)
     \/ SetAlertCallback \/ (current < loops /\ Start) \/ Stop
     \/ \E l \in Loop : LoopStep(l)
==============================================================================
