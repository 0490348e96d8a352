------------------------------ MODULE Proactive ------------------------------
(***************************************************************************)
(* The proactive side together: the hub and its two writers, the           *)
(* notification bus and the filesystem observer; and the uptime monitor.   *)
(***************************************************************************)
EXTENDS Notifications, Observer, Uptime

CONSTANT Scopes  \* bound: what may take part in one behaviour

ASSUME ProactiveAssumption ==
  /\ Note \subseteq Event /\ Note \cap Nat = {}
  /\ IsFiniteSet(Target) /\ MaxLoops \in Nat
  /\ \A s \in Scopes :
       /\ s.clients \subseteq Client /\ s.notes \subseteq Note
       /\ s.endpoints \subseteq Endpoint /\ s.targets \subseteq Target
       /\ s.loops \in 0..MaxLoops

vars == <<scope, hubVars, noteVars, pushOn, pushVars, fileVars, uptimeVars>>

Init ==
  /\ scope \in Scopes
  /\ HubInit /\ NotesInit /\ ObserverInit /\ UptimeInit

Next ==
  \/ HubStep /\ UNCHANGED <<scope, noteVars, pushOn, pushVars, fileVars, uptimeVars>>
  \/ NoteStep /\ UNCHANGED <<scope, pushOn, fileVars, uptimeVars>>
  \/ ObserverStep /\ UNCHANGED <<scope, hubVars, noteVars, pushOn, pushVars, uptimeVars>>
  \/ OnFileChange /\ UNCHANGED <<scope, noteVars, pushOn, pushVars, uptimeVars>>
  \/ UptimeStep(scope.targets, scope.loops)
       /\ UNCHANGED <<scope, hubVars, noteVars, pushOn, pushVars, fileVars>>

\* the polling thread comes round again and the event loop runs what is queued
Fairness ==
  /\ WF_vars(FirstSnapshot /\ UNCHANGED <<scope, hubVars, noteVars, pushOn, pushVars, uptimeVars>>)
  /\ WF_vars(Poll /\ UNCHANGED <<scope, hubVars, noteVars, pushOn, pushVars, uptimeVars>>)
  /\ WF_vars(OnFileChange /\ UNCHANGED <<scope, noteVars, pushOn, pushVars, uptimeVars>>)

Spec == Init /\ [][Next]_vars /\ Fairness

------------------------------------------------------------------------------
(* Properties *)

\* A client whose endpoint is running and whose peer is there is registered,
\* whatever failed meanwhile; a broadcast that is over reached each client of
\* its snapshot that is still there exactly once, and nobody else.  Clients
\* come, go and are dropped by other broadcasts while it awaits their sends.
BroadcastReachesAll ==
  /\ \A c \in Client : sock[c].phase = "serving" /\ sock[c].alive => c \in hub["api"]
  /\ \A e \in Begun, c \in Client :
       /\ got[c][e] <= IF c \in cast[e].snap THEN 1 ELSE 0
       /\ Sent(e) /\ c \in cast[e].snap /\ sock[c].alive => got[c][e] = 1

\* A browser that subscribed loses its subscription only when the push service
\* dropped the endpoint, or a failure was read as that.  A note is pushed to an
\* endpoint at most once, and to all or none: a creation that read the table
\* and ran to its end pushed it to every endpoint that was subscribed all along
\* and did not fail, and one that fails takes no other along.
UrgentIsPushed ==
  /\ wanted \ subs \subseteq gone \cup mistaken
  /\ \A n \in Note, ep \in Endpoint :
       /\ pushed[ep][n] <= IF task[n].listed THEN 1 ELSE 0
       /\ (At(n, "done") /\ task[n].listed /\ ep \in task[n].since \ task[n].failed)
            => pushed[ep][n] = 1

\* When the files stop changing, the last file.changed event of each file in a
\* directory under watch comes to agree with whether the file is there.
FilesAreTold ==
  <>[](thread = "up" /\ starts = 1 =>
         \A f \in File : DirOf[f] \in covered => told[f] = (disk[f] # 0))

\* Whoever listens to the alerts of the uptime monitor believes of each URL
\* what its latest result says, with loops that overlap and callbacks that
\* await or raise in between.  With one loop and one target per URL no alert
\* is false: the site changed at least as often as the callback was called.
AlertsAreTrue ==
  /\ believed = latest
  /\ \A u \in Url :
       current = 1 /\ Cardinality({t \in Target : UrlOf[t] = u}) = 1 => alerts[u] <= flips[u]

\* What the docstring of create_notification says: "Create and broadcast a new
\* notification."  A client that was connected from the moment the row was
\* written until its creation ended has received it.
NewReachesClients ==
  \A n \in Note, c \in Client :
    At(n, "done") /\ c \in task[n].there /\ sock[c].phase = "serving" /\ sock[c].alive
      => got[c][n] = 1

==============================================================================
