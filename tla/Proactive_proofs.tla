---------------------------- MODULE Proactive_proofs ----------------------------
(***************************************************************************)
(* Theorems about Proactive, for any clients, notifications, endpoints,    *)
(* files and targets and for any scopes.                                   *)
(*                                                                         *)
(* The hub, the notification bus and the uptime monitor each have an       *)
(* inductive invariant of their own.  HubInv follows a client through a    *)
(* broadcast that is under way, NotesInv an endpoint through a push, and   *)
(* UptimeInv counts the alerts that are still to come against the changes  *)
(* of the site that called for them.                                       *)
(***************************************************************************)
EXTENDS Proactive, FiniteSetTheorems, TLAPS

-------------------------------------------------------------------------------
(* The hub *)

Phases == {"new", "accepting", "serving", "over"}
SockType == [phase : Phases, alive : BOOLEAN]
CastType == [proc : Process, snap : SUBSET Client, todo : SUBSET Client,
             dead : SUBSET Client, pc : {"sending", "done"}]

HubType ==
  /\ sock \in [Client -> SockType]
  /\ hub \in [Process -> SUBSET Client]
  /\ Begun \subseteq Event /\ cast \in [Begun -> CastType]
  /\ got \in [Client -> [Event -> Nat]]

\* A client that is served is known to the hub.
ServeInv(c) == sock[c].phase = "serving" /\ sock[c].alive => c \in hub["api"]

\* A client of the snapshot got the event when its turn came, unless it had
\* left, which is for good; only clients that left are dropped.
CastInv(e) ==
  /\ cast[e].todo \subseteq cast[e].snap
  /\ \A c \in cast[e].dead : ~sock[c].alive
  /\ cast[e].pc = "done" => cast[e].todo = {}
  /\ \A c \in cast[e].snap \ cast[e].todo : sock[c].alive => got[c][e] = 1

GotInv(c, e) ==
  /\ got[c][e] <= 1
  /\ e \notin Begun => got[c][e] = 0
  /\ e \in Begun /\ (c \in cast[e].todo \/ c \notin cast[e].snap) => got[c][e] = 0

HubInv ==
  /\ HubType
  /\ \A c \in Client : ServeInv(c)
  /\ \A e \in Begun : CastInv(e)
  /\ \A c \in Client, e \in Event : GotInv(c, e)

\* Broadcasts of file changes are numbered.
EventsInv == events \in Nat /\ \A e \in Begun : e \in Note \/ e \in 1..events

-------------------------------------------------------------------------------
(* Push *)

TaskType ==
  [pc : {"idle", "asking", "insert", "cast", "list", "push", "end", "done", "failed", "lost"},
   from : {"none", "heartbeat", "reflection"}, prio : Priorities,
   todo : SUBSET Endpoint, stale : SUBSET Endpoint, failed : SUBSET Endpoint,
   since : SUBSET Endpoint, there : SUBSET Client, listed : BOOLEAN]

PushType ==
  /\ task \in [Note -> TaskType]
  /\ subs \subseteq Endpoint
  /\ pushed \in [Endpoint -> [Note -> Nat]]

SubsInv == wanted \ subs \subseteq gone \cup mistaken

TaskInv(n) ==
  /\ task[n].stale \subseteq gone \cup mistaken
  /\ task[n].since \subseteq subs
  /\ task[n].pc \notin {"push", "failed", "lost"} => task[n].todo = {}
  /\ task[n].pc \in {"idle", "asking", "insert", "cast", "list"} => ~task[n].listed
  /\ At(n, "push") => task[n].listed

\* The push of a note to an endpoint, before, at and after its turn.
PushInv(n, ep) ==
  /\ pushed[ep][n] <= IF task[n].listed THEN 1 ELSE 0
  /\ At(n, "push") =>
       /\ ep \in task[n].todo => pushed[ep][n] = 0
       /\ ep \in task[n].since \ (task[n].failed \cup task[n].todo) => pushed[ep][n] = 1
  /\ task[n].pc \in {"end", "done"} /\ task[n].listed
       /\ ep \in task[n].since \ task[n].failed => pushed[ep][n] = 1

NotesInv ==
  /\ PushType
  /\ SubsInv
  /\ \A n \in Note : TaskInv(n) /\ \A ep \in Endpoint : PushInv(n, ep)

-------------------------------------------------------------------------------
(* The uptime monitor *)

States == {"none", "up", "down"}
LoopType == [pc : {"off", "round", "checking", "alert", "over"}, rounds : Nat,
             of : Seq(Target), res : Seq(States), i : Nat]

UptimeType ==
  /\ flips \in [Url -> Nat] /\ alerts \in [Url -> Nat]
  /\ targets \in Seq(Target) /\ latest \in [Url -> States] /\ believed \in [Url -> States]
  /\ loop \in [Loop -> LoopType] /\ current \in 0..MaxLoops

\* No target is monitored twice.
Distinct(q) == \A i, j \in DOMAIN q : q[i] = q[j] => i = j

LoopInv(l) ==
  /\ Distinct(loop[l].of) /\ Len(loop[l].res) = Len(loop[l].of)
  /\ loop[l].pc \in {"checking", "alert"} => loop[l].i \in Nat \ {0}
  /\ loop[l].pc = "checking" => loop[l].i <= Len(loop[l].of)
  /\ l > current => loop[l] = NoLoop

\* Whether a state differs from the one before it, and an alert is due.
Differs(a, b) == IF a = "none" \/ a = b THEN 0 ELSE 1

\* A target's result in the round under way that is not stored yet.
Pending(t, r) ==
  /\ loop[1].pc \in {"checking", "alert"}
  /\ \E k \in DOMAIN loop[1].res :
       k >= loop[1].i /\ loop[1].of[k] = t /\ loop[1].res[k] = r /\ r # "none"

Alone(t) == \A s \in Target : UrlOf[s] = UrlOf[t] => s = t

\* Every alert answers a change of the site: those called for, and those that
\* the result at hand and the site as it is now will call for.
AlertInv(t) ==
  LET u == UrlOf[t] IN
  /\ alerts[u] + Differs(latest[u], Answer(t)) <= flips[u]
  /\ \A r \in States : Pending(t, r) =>
       alerts[u] + Differs(latest[u], r) + Differs(r, Answer(t)) <= flips[u]

UptimeInv ==
  /\ UptimeType
  /\ believed = latest
  /\ Distinct(targets)
  /\ \A l \in Loop : LoopInv(l)
  /\ current = 0 => \A u \in Url : alerts[u] = 0 /\ latest[u] = "none"
  /\ current = 1 => \A t \in Target : Alone(t) => AlertInv(t)

IInv == scope \in Scopes /\ HubInv /\ EventsInv /\ NotesInv /\ UptimeInv

-------------------------------------------------------------------------------
(* Steps of the hub *)

LEMMA HubStart == Init => HubInv
<1> SUFFICES ASSUME Init PROVE HubInv
  OBVIOUS
<1>1. /\ sock = [c \in Client |-> [phase |-> "new", alive |-> TRUE]]
      /\ hub = [p \in Process |-> {}] /\ cast = <<>>
      /\ got = [c \in Client |-> [e \in Event |-> 0]]
  BY DEF Init, HubInit
<1>2. Begun = {} /\ cast \in [Begun -> CastType]
  BY <1>1 DEF Begun
<1>3. sock \in [Client -> SockType]
  BY <1>1 DEF SockType, Phases
<1>4. HubType
  BY <1>1, <1>2, <1>3 DEF HubType
<1>5. \A c \in Client : ServeInv(c)
  BY <1>1 DEF ServeInv
<1>6. \A c \in Client, e \in Event : GotInv(c, e)
  BY <1>1, <1>2 DEF GotInv
<1> QED
  BY <1>2, <1>4, <1>5, <1>6 DEF HubInv

\* One client's socket changes; who is served is entered in the hub.
LEMMA SockMoves ==
  ASSUME HubInv, NEW c \in Client, NEW s \in SockType, sock' = [sock EXCEPT ![c] = s],
         s.alive => sock[c].alive, UNCHANGED <<cast, got>>, hub' \in [Process -> SUBSET Client],
         hub["api"] \ {c} \subseteq hub'["api"],
         s.phase = "serving" /\ s.alive => c \in hub'["api"]
  PROVE  HubInv'
<1>1. /\ HubType /\ (\A d \in Client : ServeInv(d)) /\ (\A e \in Begun : CastInv(e))
      /\ \A d \in Client, e \in Event : GotInv(d, e)
  BY DEF HubInv
<1>2. /\ sock' \in [Client -> SockType] /\ sock'[c] = s
      /\ \A d \in Client \ {c} : sock'[d] = sock[d]
  BY <1>1 DEF HubType
<1>3. Begun' = Begun
  BY DEF Begun
<1>4. HubType'
  BY <1>1, <1>2, <1>3 DEF HubType
<1>5. \A d \in Client : ServeInv(d)'
  BY <1>1, <1>2 DEF ServeInv
<1>6. \A d \in Client : sock'[d].alive => sock[d].alive
  BY <1>2
<1>7. ASSUME NEW e \in Begun PROVE CastInv(e)'
  <2>1. CastInv(e) /\ cast[e].dead \subseteq Client /\ cast[e].snap \subseteq Client
    BY <1>1, <1>7 DEF HubType, CastType
  <2> QED
    BY <1>6, <2>1 DEF CastInv
<1>8. \A d \in Client, e \in Event : GotInv(d, e)'
  BY <1>1, <1>3 DEF GotInv
<1> QED
  BY <1>3, <1>4, <1>5, <1>7, <1>8 DEF HubInv

\* A client leaves the table.
LEMMA DropKeeps ==
  ASSUME HubType, NEW S, Drop(S)
  PROVE  hub' \in [Process -> SUBSET Client] /\ hub'["api"] = hub["api"] \ S
BY DEF HubType, Drop, Process

LEMMA ClientKeeps ==
  ASSUME HubInv, NEW c \in Client,
         \/ IssueToken(c) \/ TokenExpires(c) \/ Connect(c) \/ Accepted(c) \/ Leave(c)
         \/ Disconnected(c) \/ BinaryFrame(c) \/ PingFails(c)
  PROVE  HubInv'
<1>1. HubType /\ sock[c] \in SockType /\ sock[c].alive \in BOOLEAN
      /\ hub \in [Process -> SUBSET Client] /\ ServeInv(c)
  BY DEF HubInv, HubType, SockType
<1>2. CASE IssueToken(c) \/ TokenExpires(c)
  <2>1. UNCHANGED <<sock, hub, cast, got>>
    BY <1>2 DEF IssueToken, TokenExpires
  <2>2. sock' = [sock EXCEPT ![c] = sock[c]]
    BY <1>1, <2>1 DEF HubType
  <2> QED
    BY <1>1, <2>1, <2>2, SockMoves DEF ServeInv
<1>3. CASE Connect(c)
  <2> DEFINE s == IF token[c] = "fresh" THEN [phase |-> "accepting", alive |-> TRUE]
                                        ELSE [phase |-> "over", alive |-> FALSE]
  <2>1. s \in SockType /\ s.phase # "serving" /\ sock' = [sock EXCEPT ![c] = s]
    BY <1>3 DEF Connect, SockType, Phases
  <2> HIDE DEF s
  <2> QED
    BY <1>1, <1>3, <2>1, SockMoves DEF Connect
<1>4. CASE Accepted(c)
  <2>1. CASE sock' = [sock EXCEPT ![c].phase = "serving"] /\ hub' = [hub EXCEPT !["api"] = @ \cup {c}]
    <3> DEFINE s == [sock[c] EXCEPT !.phase = "serving"]
    <3>1. s \in SockType /\ s.alive = sock[c].alive /\ sock' = [sock EXCEPT ![c] = s]
      BY <1>1, <2>1 DEF SockType, Phases
    <3>2. hub' \in [Process -> SUBSET Client] /\ hub'["api"] = hub["api"] \cup {c}
      BY <1>1, <2>1 DEF Process
    <3> HIDE DEF s
    <3> QED
      BY <1>1, <1>4, <3>1, <3>2, SockMoves DEF Accepted
  <2>2. CASE sock' = [sock EXCEPT ![c].phase = "over"] /\ UNCHANGED hub
    <3> DEFINE s == [sock[c] EXCEPT !.phase = "over"]
    <3>1. /\ s \in SockType /\ s.alive = sock[c].alive /\ s.phase = "over"
          /\ sock' = [sock EXCEPT ![c] = s]
      BY <1>1, <2>2 DEF SockType, Phases
    <3> HIDE DEF s
    <3> QED
      BY <1>1, <1>4, <2>2, <3>1, SockMoves DEF Accepted
  <2> QED
    BY <1>4, <2>1, <2>2 DEF Accepted
<1>5. CASE Leave(c)
  <2> DEFINE s == [sock[c] EXCEPT !.alive = FALSE]
  <2>1. s \in SockType /\ ~s.alive /\ sock' = [sock EXCEPT ![c] = s]
    BY <1>1, <1>5 DEF SockType, Leave
  <2> HIDE DEF s
  <2> QED
    BY <1>1, <1>5, <2>1, SockMoves DEF Leave
<1>6. CASE Disconnected(c)
  <2> DEFINE s == [sock[c] EXCEPT !.phase = "over"]
  <2>1. /\ s \in SockType /\ s.alive = sock[c].alive /\ s.phase = "over"
        /\ sock' = [sock EXCEPT ![c] = s]
    BY <1>1, <1>6 DEF SockType, Phases, Disconnected
  <2>2. hub' \in [Process -> SUBSET Client] /\ hub'["api"] = hub["api"] \ {c}
    BY <1>1, <1>6, DropKeeps DEF Disconnected
  <2> HIDE DEF s
  <2> QED
    BY <1>1, <1>6, <2>1, <2>2, SockMoves DEF Disconnected
<1>7. CASE BinaryFrame(c)
  <2> DEFINE s == [phase |-> "over", alive |-> FALSE]
  <2>1. s \in SockType /\ ~s.alive /\ sock' = [sock EXCEPT ![c] = s]
    BY <1>7 DEF SockType, Phases, BinaryFrame
  <2> HIDE DEF s
  <2> QED
    BY <1>1, <1>7, <2>1, SockMoves DEF BinaryFrame
<1>8. CASE PingFails(c)
  <2>1. hub' \in [Process -> SUBSET Client] /\ hub'["api"] = hub["api"] \ {c}
    BY <1>1, <1>8, DropKeeps DEF PingFails
  <2>2. sock' = [sock EXCEPT ![c] = sock[c]]
    BY <1>1, <1>8 DEF PingFails, HubType
  <2> QED
    BY <1>1, <1>8, <2>1, <2>2, SockMoves DEF PingFails
<1> QED
  BY <1>2, <1>3, <1>4, <1>5, <1>6, <1>7, <1>8

\* One broadcast goes on: the others are what they were.
LEMMA CastMoves ==
  ASSUME HubInv, NEW e \in Begun, NEW b \in CastType, cast' = [cast EXCEPT ![e] = b],
         UNCHANGED sock, hub' \in [Process -> SUBSET Client],
         got' \in [Client -> [Event -> Nat]],
         \A c \in Client : sock[c].alive /\ c \in hub["api"] => c \in hub'["api"],
         \A c \in Client, f \in Event : f # e => got'[c][f] = got[c][f],
         CastInv(e)', \A c \in Client : GotInv(c, e)'
  PROVE  HubInv'
<1>1. /\ HubType /\ (\A c \in Client : ServeInv(c)) /\ (\A f \in Begun : CastInv(f))
      /\ \A c \in Client, f \in Event : GotInv(c, f)
  BY DEF HubInv
<1>2. /\ Begun' = Begun /\ cast' \in [Begun -> CastType] /\ cast'[e] = b
      /\ \A f \in Begun \ {e} : cast'[f] = cast[f]
  BY <1>1 DEF HubType, Begun
<1>3. HubType'
  BY <1>1, <1>2 DEF HubType
<1>4. \A c \in Client : ServeInv(c)'
  BY <1>1 DEF ServeInv
<1>5. ASSUME NEW f \in Begun PROVE CastInv(f)'
  <2>1. CASE f # e
    <3>1. CastInv(f) /\ cast'[f] = cast[f] /\ cast[f].snap \subseteq Client /\ f \in Event
      BY <1>1, <1>2, <1>5, <2>1 DEF HubType, CastType
    <3>2. \A c \in Client : got'[c][f] = got[c][f]
      BY <2>1, <3>1
    <3> QED
      BY <3>1, <3>2 DEF CastInv
  <2> QED
    BY <2>1
<1>6. ASSUME NEW c \in Client, NEW f \in Event PROVE GotInv(c, f)'
  <2>1. CASE f # e
    BY <1>1, <1>2, <1>6, <2>1 DEF GotInv
  <2> QED
    BY <2>1
<1> QED
  BY <1>2, <1>3, <1>4, <1>5, <1>6 DEF HubInv

LEMMA SendOneKeeps ==
  ASSUME HubInv, NEW e \in Begun, SendOne(e)
  PROVE  HubInv'
<1>1. /\ HubType /\ CastInv(e) /\ e \in Event /\ UNCHANGED <<sock, hub>>
      /\ cast[e] \in CastType /\ cast[e].pc = "sending"
      /\ \A c \in Client : GotInv(c, e)
  BY DEF HubInv, HubType, SendOne
<1>2. PICK c \in cast[e].todo :
        LET failed == [cast EXCEPT ![e].todo = @ \ {c}, ![e].dead = @ \cup {c}]
            sent == [cast EXCEPT ![e].todo = @ \ {c}]
        IN  IF sock[c].alive
            THEN cast' = sent /\ got' = [got EXCEPT ![c][e] = @ + 1]
            ELSE cast' \in {failed, sent} /\ UNCHANGED got
  BY DEF SendOne
<1>3. c \in Client /\ c \in cast[e].snap /\ got[c][e] = 0
  BY <1>1, <1>2 DEF CastType, CastInv, GotInv
<1>4. PICK b \in CastType :
        /\ cast' = [cast EXCEPT ![e] = b]
        /\ b.todo = cast[e].todo \ {c} /\ b.snap = cast[e].snap /\ b.pc = "sending"
        /\ b.dead = cast[e].dead \/ (b.dead = cast[e].dead \cup {c} /\ ~sock[c].alive)
  <2> DEFINE sent == [cast[e] EXCEPT !.todo = @ \ {c}]
             failed == [cast[e] EXCEPT !.todo = @ \ {c}, !.dead = @ \cup {c}]
  <2>1. /\ sent \in CastType /\ sent.todo = cast[e].todo \ {c} /\ sent.snap = cast[e].snap
        /\ sent.pc = "sending" /\ sent.dead = cast[e].dead
    BY <1>1 DEF CastType
  <2>2. /\ failed \in CastType /\ failed.todo = cast[e].todo \ {c}
        /\ failed.snap = cast[e].snap /\ failed.pc = "sending"
        /\ failed.dead = cast[e].dead \cup {c}
    BY <1>1, <1>3 DEF CastType
  <2>3. \/ cast' = [cast EXCEPT ![e] = sent]
        \/ cast' = [cast EXCEPT ![e] = failed] /\ ~sock[c].alive
    BY <1>2
  <2> HIDE DEF sent, failed
  <2> QED
    BY <2>1, <2>2, <2>3
<1>5. /\ got' \in [Client -> [Event -> Nat]]
      /\ \A d \in Client, f \in Event :
           got'[d][f] = IF d = c /\ f = e /\ sock[c].alive THEN 1 ELSE got[d][f]
  <2>1. got \in [Client -> [Event -> Nat]]
    BY <1>1 DEF HubType
  <2>2. CASE ~sock[c].alive
    BY <1>2, <2>1, <2>2
  <2>3. CASE sock[c].alive
    <3>1. got' = [got EXCEPT ![c] = [got[c] EXCEPT ![e] = 1]]
      BY <1>1, <1>2, <1>3, <2>1, <2>3
    <3> QED
      BY <1>1, <1>3, <2>1, <2>3, <3>1
  <2> QED
    BY <2>2, <2>3
<1>6. cast'[e] = b /\ Begun' = Begun
  BY <1>1, <1>4 DEF HubType, Begun
<1>7. CastInv(e)'
  <2>1. \A d \in Client : d \in b.snap \ b.todo /\ sock[d].alive => got'[d][e] = 1
    BY <1>1, <1>4, <1>5 DEF CastInv
  <2>2. b.snap \subseteq Client
    BY DEF CastType
  <2> QED
    BY <1>1, <1>4, <1>6, <2>1, <2>2 DEF CastInv
<1>8. \A d \in Client : GotInv(d, e)'
  BY <1>1, <1>3, <1>4, <1>5, <1>6 DEF GotInv
<1>9. hub' \in [Process -> SUBSET Client]
  BY <1>1 DEF HubType
<1> QED
  BY <1>1, <1>4, <1>5, <1>7, <1>8, <1>9, CastMoves

LEMMA SweptKeeps ==
  ASSUME HubInv, NEW e \in Begun, Swept(e)
  PROVE  HubInv'
<1>1. /\ HubType /\ CastInv(e) /\ e \in Event /\ UNCHANGED <<sock, got>>
      /\ cast[e] \in CastType /\ cast[e].todo = {}
      /\ \A c \in Client : GotInv(c, e)
  BY DEF HubInv, HubType, Swept
<1> DEFINE b == [cast[e] EXCEPT !.pc = "done"]
<1>2. /\ b \in CastType /\ cast' = [cast EXCEPT ![e] = b] /\ b.pc = "done" /\ b.todo = {}
      /\ b.snap = cast[e].snap /\ b.dead = cast[e].dead
  BY <1>1 DEF CastType, Swept
<1> HIDE DEF b
<1>3. cast'[e] = b /\ Begun' = Begun
  BY <1>1, <1>2 DEF HubType, Begun
<1>4. /\ hub' \in [Process -> SUBSET Client]
      /\ hub["api"] \ cast[e].dead \subseteq hub'["api"]
  <2>1. hub \in [Process -> SUBSET Client] /\ cast[e].proc \in Process
    BY <1>1 DEF HubType, CastType
  <2>2. hub' = [hub EXCEPT ![cast[e].proc] = @ \ cast[e].dead]
    BY DEF Swept
  <2> QED
    BY <2>1, <2>2 DEF Process
<1>5. \A c \in Client : sock[c].alive /\ c \in hub["api"] => c \in hub'["api"]
  BY <1>1, <1>4 DEF CastInv
<1>6. CastInv(e)' /\ \A c \in Client : GotInv(c, e)'
  BY <1>1, <1>2, <1>3 DEF CastInv, GotInv
<1>7. got' \in [Client -> [Event -> Nat]]
  BY <1>1 DEF HubType
<1> QED
  BY <1>1, <1>2, <1>4, <1>5, <1>6, <1>7, CastMoves

LEMMA BroadcastKeeps ==
  ASSUME HubInv, NEW e \in Event \ Begun, NEW p \in Process, Broadcast(e, p),
         UNCHANGED <<sock, hub, got>>
  PROVE  HubInv' /\ Begun' = Begun \cup {e}
<1>1. /\ HubType /\ (\A c \in Client : ServeInv(c)) /\ (\A f \in Begun : CastInv(f))
      /\ \A c \in Client, f \in Event : GotInv(c, f)
  BY DEF HubInv
<1> DEFINE b == [proc |-> p, snap |-> hub[p], todo |-> hub[p], dead |-> {}, pc |-> "sending"]
<1>2. b \in CastType /\ b.snap = b.todo /\ b.dead = {} /\ b.pc = "sending"
  BY <1>1 DEF HubType, CastType
<1>3. cast' = [x \in Begun \cup {e} |-> IF x = e THEN b ELSE cast[x]]
  BY DEF Broadcast
<1> HIDE DEF b
<1>4. /\ Begun' = Begun \cup {e} /\ cast'[e] = b /\ \A f \in Begun : cast'[f] = cast[f]
  BY <1>3 DEF Begun
<1>5. HubType'
  <2>1. cast' \in [Begun \cup {e} -> CastType]
    BY <1>1, <1>2, <1>3 DEF HubType
  <2> QED
    BY <1>1, <1>4, <2>1 DEF HubType
<1>6. \A c \in Client : ServeInv(c)'
  BY <1>1 DEF ServeInv
<1>7. \A f \in Begun' : CastInv(f)'
  BY <1>1, <1>2, <1>4 DEF CastInv
<1>8. \A c \in Client, f \in Event : GotInv(c, f)'
  BY <1>1, <1>2, <1>4 DEF GotInv
<1> QED
  BY <1>4, <1>5, <1>6, <1>7, <1>8 DEF HubInv

LEMMA HubUnchanged ==
  ASSUME HubInv, UNCHANGED <<sock, hub, cast, got>>
  PROVE  HubInv' /\ Begun' = Begun
BY DEF HubInv, HubType, ServeInv, CastInv, GotInv, Begun

\* A broadcast that is over has served its snapshot.
LEMMA HubReaches == HubInv => BroadcastReachesAll
<1> SUFFICES ASSUME HubInv PROVE BroadcastReachesAll
  OBVIOUS
<1>1. \A c \in Client : ServeInv(c)
  BY DEF HubInv
<1>2. ASSUME NEW e \in Begun, NEW c \in Client
      PROVE  /\ got[c][e] <= IF c \in cast[e].snap THEN 1 ELSE 0
             /\ Sent(e) /\ c \in cast[e].snap /\ sock[c].alive => got[c][e] = 1
  <2>1. e \in Event /\ CastInv(e) /\ GotInv(c, e) /\ got[c][e] \in Nat
    BY <1>2 DEF HubInv, HubType
  <2> QED
    BY <1>2, <2>1 DEF CastInv, GotInv, Sent
<1> QED
  BY <1>1, <1>2 DEF BroadcastReachesAll, ServeInv

-------------------------------------------------------------------------------
(* Steps of the notification bus *)

LEMMA NotesStart == Init => NotesInv
<1> SUFFICES ASSUME Init PROVE NotesInv
  OBVIOUS
<1>1. /\ task = [n \in Note |-> NoTask] /\ subs = {} /\ wanted = {} /\ gone = {}
      /\ mistaken = {} /\ pushed = [ep \in Endpoint |-> [n \in Note |-> 0]]
  BY DEF Init, NotesInit
<1>2. /\ NoTask \in TaskType /\ NoTask.pc = "idle" /\ NoTask.todo = {} /\ NoTask.stale = {}
      /\ NoTask.since = {} /\ ~NoTask.listed
  BY DEF NoTask, TaskType, Priorities
<1>3. PushType
  BY <1>1, <1>2 DEF PushType
<1>4. \A n \in Note : TaskInv(n) /\ \A ep \in Endpoint : PushInv(n, ep)
  BY <1>1, <1>2 DEF TaskInv, PushInv, At
<1> QED
  BY <1>1, <1>3, <1>4 DEF NotesInv, SubsInv

\* One note's job moves on, without a push.
LEMMA JobMoves ==
  ASSUME NotesInv, NEW n \in Note, NEW r \in TaskType, task' = [task EXCEPT ![n] = r],
         UNCHANGED <<subs, wanted, gone, mistaken, pushed, pushOn>>,
         TaskInv(n)', \A ep \in Endpoint : PushInv(n, ep)'
  PROVE  NotesInv'
<1>1. /\ PushType /\ SubsInv
      /\ \A m \in Note : TaskInv(m) /\ \A ep \in Endpoint : PushInv(m, ep)
  BY DEF NotesInv
<1>2. /\ task' \in [Note -> TaskType] /\ task'[n] = r
      /\ \A m \in Note \ {n} : task'[m] = task[m]
  BY <1>1 DEF PushType
<1>3. PushType' /\ SubsInv'
  BY <1>1, <1>2 DEF PushType, SubsInv
<1>4. ASSUME NEW m \in Note PROVE TaskInv(m)' /\ \A ep \in Endpoint : PushInv(m, ep)'
  <2>1. CASE m = n
    BY <2>1
  <2>2. CASE m # n
    BY <1>1, <1>2, <1>4, <2>2 DEF TaskInv, PushInv, At
  <2> QED
    BY <2>1, <2>2
<1> QED
  BY <1>3, <1>4 DEF NotesInv

\* Goto leaves everything but the place.
LEMMA GotoIs ==
  ASSUME PushType, NEW n \in Note, NEW pc, Goto(n, pc),
         pc \in {"asking", "insert", "cast", "list", "push", "end", "done", "failed", "lost"}
  PROVE  \E r \in TaskType :
           /\ task' = [task EXCEPT ![n] = r] /\ task'[n] = r /\ r.pc = pc
           /\ r.from = task[n].from /\ r.prio = task[n].prio /\ r.todo = task[n].todo
           /\ r.stale = task[n].stale /\ r.failed = task[n].failed /\ r.since = task[n].since
           /\ r.listed = task[n].listed
<1> DEFINE r == [task[n] EXCEPT !.pc = pc]
<1>1. task[n] \in TaskType
  BY DEF PushType
<1>2. /\ r \in TaskType /\ r.pc = pc
      /\ r.from = task[n].from /\ r.prio = task[n].prio /\ r.todo = task[n].todo
      /\ r.stale = task[n].stale /\ r.failed = task[n].failed /\ r.since = task[n].since
      /\ r.listed = task[n].listed
  BY <1>1 DEF TaskType
<1>3. task' = [task EXCEPT ![n] = r]
  BY DEF Goto
<1> HIDE DEF r
<1>4. task'[n] = r
  BY <1>3 DEF PushType
<1> QED
  BY <1>2, <1>3, <1>4

\* A note whose push is not due yet, or never is.
LEMMA GotoKeeps ==
  ASSUME NotesInv, NEW n \in Note, NEW pc, Goto(n, pc),
         UNCHANGED <<subs, wanted, gone, mistaken, pushed, pushOn>>,
         \/ pc = "failed"
         \/ pc = "insert" /\ At(n, "asking")
         \/ pc = "list" /\ At(n, "cast")
         \/ pc = "end" /\ task[n].pc \in {"cast", "list"}
         \/ pc = "end" /\ At(n, "push") /\ task[n].todo = {}
         \/ pc = "done" /\ At(n, "end")
  PROVE  NotesInv'
<1>1. PushType /\ TaskInv(n) /\ \A ep \in Endpoint : PushInv(n, ep)
  BY DEF NotesInv
<1>2. PICK r \in TaskType :
        /\ task' = [task EXCEPT ![n] = r] /\ task'[n] = r /\ r.pc = pc
        /\ r.from = task[n].from /\ r.prio = task[n].prio /\ r.todo = task[n].todo
        /\ r.stale = task[n].stale /\ r.failed = task[n].failed /\ r.since = task[n].since
        /\ r.listed = task[n].listed
  BY <1>1, GotoIs
<1>3. TaskInv(n)'
  BY <1>1, <1>2 DEF TaskInv, At
<1>4. \A ep \in Endpoint : PushInv(n, ep)'
  <2>1. \A ep \in Endpoint : pushed'[ep][n] = pushed[ep][n] /\ pushed[ep][n] \in Nat
    BY <1>1 DEF PushType
  <2>2. ASSUME NEW ep \in Endpoint PROVE PushInv(n, ep)'
    <3>1. PushInv(n, ep) /\ pushed'[ep][n] = pushed[ep][n]
      BY <1>1, <2>1
    <3>2. CASE task[n].pc \in {"cast", "list"} \/ ~task[n].listed
      <4>1. ~task[n].listed
        BY <1>1, <3>2 DEF TaskInv
      <4> QED
        BY <1>2, <3>1, <4>1 DEF PushInv, At
    <3>3. CASE ~(task[n].pc \in {"cast", "list"}) /\ task[n].listed
      BY <1>1, <1>2, <3>1, <3>3 DEF PushInv, TaskInv, At
    <3> QED
      BY <3>2, <3>3
  <2> QED
    BY <2>2
<1> QED
  BY <1>2, <1>3, <1>4, JobMoves

LEMMA AskKeeps ==
  ASSUME NotesInv, NEW n \in Note, Heartbeat(n) \/ Reflect(n), UNCHANGED pushOn
  PROVE  NotesInv'
<1>1. PushType /\ At(n, "idle") /\ \A ep \in Endpoint : PushInv(n, ep)
  BY DEF NotesInv, Heartbeat, Reflect
<1>2. UNCHANGED <<subs, wanted, gone, mistaken, pushed, pushOn>>
  BY DEF Heartbeat, Reflect, pushVars
<1>3. \/ task' = task
      \/ \E r \in TaskType :
           /\ task' = [task EXCEPT ![n] = r] /\ r.pc = "asking" /\ r.todo = {}
           /\ r.stale = {} /\ r.since = {} /\ ~r.listed
  <2>1. CASE Heartbeat(n)
    <3>1. \/ task' = task
          \/ \E prio \in {"urgent", "warning"} :
               task' = [task EXCEPT ![n] = [NoTask EXCEPT !.pc = "asking",
                          !.from = "heartbeat", !.prio = prio]]
      BY <2>1 DEF Heartbeat
    <3>2. ASSUME NEW prio \in {"urgent", "warning"},
                 task' = [task EXCEPT ![n] = [NoTask EXCEPT !.pc = "asking",
                            !.from = "heartbeat", !.prio = prio]]
          PROVE  \E r \in TaskType :
                   /\ task' = [task EXCEPT ![n] = r] /\ r.pc = "asking" /\ r.todo = {}
                   /\ r.stale = {} /\ r.since = {} /\ ~r.listed
      <4> DEFINE r == [NoTask EXCEPT !.pc = "asking", !.from = "heartbeat", !.prio = prio]
      <4>1. r \in TaskType /\ r.pc = "asking" /\ r.todo = {} /\ r.stale = {} /\ r.since = {} /\ ~r.listed
        BY DEF NoTask, TaskType, Priorities
      <4> HIDE DEF r
      <4> QED
        BY <3>2, <4>1 DEF r
    <3> QED
      BY <3>1, <3>2
  <2>2. CASE Reflect(n)
    <3> DEFINE r == [NoTask EXCEPT !.pc = "asking", !.from = "reflection"]
    <3>1. r \in TaskType /\ r.pc = "asking" /\ r.todo = {} /\ r.stale = {} /\ r.since = {} /\ ~r.listed
      BY DEF NoTask, TaskType, Priorities
    <3>2. task' = [task EXCEPT ![n] = r]
      BY <2>2 DEF Reflect
    <3> HIDE DEF r
    <3> QED
      BY <3>1, <3>2
  <2> QED
    BY <2>1, <2>2
<1>4. CASE task' = task
  BY <1>2, <1>4 DEF NotesInv, PushType, SubsInv, TaskInv, PushInv, At
<1>5. CASE \E r \in TaskType :
             /\ task' = [task EXCEPT ![n] = r] /\ r.pc = "asking" /\ r.todo = {}
             /\ r.stale = {} /\ r.since = {} /\ ~r.listed
  <2>1. PICK r \in TaskType :
          /\ task' = [task EXCEPT ![n] = r] /\ r.pc = "asking" /\ r.todo = {}
          /\ r.stale = {} /\ r.since = {} /\ ~r.listed
    BY <1>5
  <2>2. task'[n] = r
    BY <1>1, <2>1 DEF PushType
  <2>3. TaskInv(n)'
    BY <1>1, <1>2, <2>1, <2>2 DEF TaskInv, At
  <2>4. \A ep \in Endpoint : PushInv(n, ep)'
    <3>1. ~task[n].listed /\ \A ep \in Endpoint : pushed'[ep][n] = pushed[ep][n]
      BY <1>1, <1>2 DEF NotesInv, TaskInv, At
    <3> QED
      BY <1>1, <2>1, <2>2, <3>1 DEF PushInv, At
  <2> QED
    BY <1>2, <2>1, <2>3, <2>4, JobMoves
<1> QED
  BY <1>3, <1>4, <1>5

LEMMA InsertKeeps ==
  ASSUME NotesInv, HubType, NEW n \in Note, Insert(n), UNCHANGED pushOn
  PROVE  NotesInv'
<1>1. PushType /\ At(n, "insert") /\ TaskInv(n) /\ \A ep \in Endpoint : PushInv(n, ep)
  BY DEF NotesInv, Insert
<1>2. UNCHANGED <<subs, wanted, gone, mistaken, pushed, pushOn>>
  BY DEF Insert, pushVars
<1>3. CASE Goto(n, "failed")
  BY <1>2, <1>3, GotoKeeps
<1>4. CASE task' = [task EXCEPT ![n].pc = "cast", ![n].since = subs, ![n].there = hub["api"]]
  <2> DEFINE r == [task[n] EXCEPT !.pc = "cast", !.since = subs, !.there = hub["api"]]
  <2>1. task[n] \in TaskType /\ subs \subseteq Endpoint /\ hub["api"] \subseteq Client
    BY <1>1 DEF PushType, HubType, Process
  <2>2. /\ r \in TaskType /\ r.pc = "cast" /\ r.since = subs /\ r.todo = task[n].todo
        /\ r.stale = task[n].stale /\ r.listed = task[n].listed
    BY <2>1 DEF TaskType
  <2>3. task' = [task EXCEPT ![n] = r]
    BY <1>4
  <2> HIDE DEF r
  <2>4. task'[n] = r
    BY <1>1, <2>3 DEF PushType
  <2>5. TaskInv(n)' /\ \A ep \in Endpoint : PushInv(n, ep)'
    BY <1>1, <1>2, <2>2, <2>4 DEF TaskInv, PushInv, At
  <2> QED
    BY <1>2, <2>2, <2>3, <2>5, JobMoves
<1> QED
  BY <1>3, <1>4 DEF Insert

LEMMA ListKeeps ==
  ASSUME NotesInv, NEW n \in Note, ListSubscriptions(n), UNCHANGED pushOn
  PROVE  NotesInv'
<1>1. PushType /\ At(n, "list") /\ TaskInv(n) /\ \A ep \in Endpoint : PushInv(n, ep)
  BY DEF NotesInv, ListSubscriptions
<1>2. UNCHANGED <<subs, wanted, gone, mistaken, pushed, pushOn>>
  BY DEF ListSubscriptions, pushVars
<1>3. CASE Goto(n, "end")
  BY <1>1, <1>2, <1>3, GotoKeeps DEF At
<1>4. CASE task' = [task EXCEPT ![n].pc = "push", ![n].todo = subs, ![n].listed = TRUE]
  <2> DEFINE r == [task[n] EXCEPT !.pc = "push", !.todo = subs, !.listed = TRUE]
  <2>1. task[n] \in TaskType /\ subs \subseteq Endpoint
    BY <1>1 DEF PushType
  <2>2. /\ r \in TaskType /\ r.pc = "push" /\ r.since = task[n].since /\ r.todo = subs
        /\ r.stale = task[n].stale /\ r.listed
    BY <2>1 DEF TaskType
  <2>3. task' = [task EXCEPT ![n] = r]
    BY <1>4
  <2> HIDE DEF r
  <2>4. task'[n] = r
    BY <1>1, <2>3 DEF PushType
  <2>5. TaskInv(n)'
    BY <1>1, <1>2, <2>2, <2>4 DEF TaskInv, At
  <2>6. \A ep \in Endpoint : PushInv(n, ep)'
    <3>1. \A ep \in Endpoint : pushed'[ep][n] = pushed[ep][n] /\ pushed[ep][n] \in Nat
      BY <1>1, <1>2 DEF PushType
    <3>2. task[n].since \subseteq subs /\ ~task[n].listed
      BY <1>1 DEF TaskInv, At
    <3> QED
      BY <1>1, <2>2, <2>4, <3>1, <3>2 DEF PushInv, At
  <2> QED
    BY <1>2, <2>2, <2>3, <2>5, <2>6, JobMoves
<1> QED
  BY <1>3, <1>4 DEF ListSubscriptions

LEMMA PushOneKeeps ==
  ASSUME NotesInv, NEW n \in Note, PushOne(n), UNCHANGED pushOn
  PROVE  NotesInv'
<1>1. /\ PushType /\ SubsInv /\ At(n, "push") /\ task[n] \in TaskType
      /\ \A m \in Note : TaskInv(m) /\ \A x \in Endpoint : PushInv(m, x)
  BY DEF NotesInv, PushOne, PushType
<1>2. UNCHANGED <<subs, wanted, gone, pushOn>> /\ task[n].listed
  BY <1>1 DEF PushOne, TaskInv
<1>3. PICK ep \in task[n].todo :
       \/ /\ ep \notin gone
          /\ pushed' = [pushed EXCEPT ![ep][n] = @ + 1]
          /\ task' = [task EXCEPT ![n].todo = @ \ {ep}]
          /\ UNCHANGED mistaken
       \/ \E stale \in BOOLEAN :
            /\ task' = [task EXCEPT ![n].todo = @ \ {ep}, ![n].failed = @ \cup {ep},
                                    ![n].stale = IF stale THEN @ \cup {ep} ELSE @]
            /\ mistaken' = IF stale /\ ep \notin gone THEN mistaken \cup {ep} ELSE mistaken
            /\ UNCHANGED pushed
  BY DEF PushOne
<1>4. ep \in Endpoint /\ pushed[ep][n] = 0
  BY <1>1, <1>3 DEF TaskType, PushInv
<1>5. \E r \in TaskType :
        /\ task' = [task EXCEPT ![n] = r] /\ r.pc = "push" /\ r.prio = task[n].prio
        /\ r.todo = task[n].todo \ {ep} /\ r.since = task[n].since /\ r.listed
        /\ \/ r.failed = task[n].failed /\ pushed' = [pushed EXCEPT ![ep][n] = 1]
           \/ r.failed = task[n].failed \cup {ep} /\ pushed' = pushed
        /\ r.stale \subseteq gone \cup mistaken'
  <2>1. CASE /\ pushed' = [pushed EXCEPT ![ep][n] = @ + 1] /\ UNCHANGED mistaken
             /\ task' = [task EXCEPT ![n].todo = @ \ {ep}]
    <3> DEFINE r == [task[n] EXCEPT !.todo = @ \ {ep}]
    <3>1. /\ r \in TaskType /\ r.pc = "push" /\ r.prio = task[n].prio
          /\ r.todo = task[n].todo \ {ep} /\ r.since = task[n].since /\ r.listed
          /\ r.failed = task[n].failed /\ r.stale = task[n].stale
      BY <1>1, <1>2 DEF TaskType, At
    <3>2. task' = [task EXCEPT ![n] = r]
      BY <2>1
    <3>3. pushed' = [pushed EXCEPT ![ep][n] = 1]
      BY <1>1, <1>4, <2>1 DEF PushType
    <3> HIDE DEF r
    <3>4. r.stale \subseteq gone \cup mistaken'
      BY <1>1, <2>1, <3>1 DEF TaskInv
    <3> QED
      BY <3>1, <3>2, <3>3, <3>4
  <2>2. ASSUME NEW stale \in BOOLEAN,
               task' = [task EXCEPT ![n].todo = @ \ {ep}, ![n].failed = @ \cup {ep},
                                    ![n].stale = IF stale THEN @ \cup {ep} ELSE @],
               mistaken' = IF stale /\ ep \notin gone THEN mistaken \cup {ep} ELSE mistaken,
               UNCHANGED pushed
        PROVE  \E r \in TaskType :
                 /\ task' = [task EXCEPT ![n] = r] /\ r.pc = "push" /\ r.prio = task[n].prio
                 /\ r.todo = task[n].todo \ {ep} /\ r.since = task[n].since
                 /\ r.listed
                 /\ r.failed = task[n].failed \cup {ep} /\ pushed' = pushed
                 /\ r.stale \subseteq gone \cup mistaken'
    <3> DEFINE st == IF stale THEN task[n].stale \cup {ep} ELSE task[n].stale
               r == [task[n] EXCEPT !.todo = @ \ {ep}, !.failed = @ \cup {ep}, !.stale = st]
    <3>1. task' = [task EXCEPT ![n] = r]
      BY <2>2
    <3>2. st \subseteq gone \cup mistaken' /\ st \subseteq Endpoint
      BY <1>1, <1>4, <2>2 DEF TaskInv, TaskType
    <3> HIDE DEF st
    <3>3. /\ r \in TaskType /\ r.pc = "push" /\ r.prio = task[n].prio
          /\ r.todo = task[n].todo \ {ep} /\ r.since = task[n].since /\ r.listed
          /\ r.failed = task[n].failed \cup {ep} /\ r.stale = st
      BY <1>1, <1>2, <1>4, <3>2 DEF TaskType, At
    <3> HIDE DEF r
    <3> QED
      BY <2>2, <3>1, <3>2, <3>3
  <2> QED
    BY <1>3, <2>1, <2>2
<1>6. PICK r \in TaskType :
        /\ task' = [task EXCEPT ![n] = r] /\ r.pc = "push" /\ r.prio = task[n].prio
        /\ r.todo = task[n].todo \ {ep} /\ r.since = task[n].since /\ r.listed
        /\ \/ r.failed = task[n].failed /\ pushed' = [pushed EXCEPT ![ep][n] = 1]
           \/ r.failed = task[n].failed \cup {ep} /\ pushed' = pushed
        /\ r.stale \subseteq gone \cup mistaken'
  BY <1>5
<1>7. /\ task' \in [Note -> TaskType] /\ task'[n] = r
      /\ \A m \in Note \ {n} : task'[m] = task[m]
  BY <1>1, <1>6 DEF PushType
<1>8. /\ pushed' \in [Endpoint -> [Note -> Nat]]
      /\ \A x \in Endpoint, m \in Note :
           pushed'[x][m] = IF x = ep /\ m = n /\ r.failed = task[n].failed
                              /\ pushed' # pushed THEN 1 ELSE pushed[x][m]
  <2>1. pushed \in [Endpoint -> [Note -> Nat]]
    BY <1>1 DEF PushType
  <2>2. CASE pushed' = pushed
    BY <2>1, <2>2
  <2>3. CASE r.failed = task[n].failed /\ pushed' = [pushed EXCEPT ![ep][n] = 1]
    <3>1. pushed' = [pushed EXCEPT ![ep] = [pushed[ep] EXCEPT ![n] = 1]]
      BY <2>3
    <3>2. pushed' # pushed
      BY <1>4, <2>1, <3>1
    <3> QED
      BY <1>4, <2>1, <2>3, <3>1, <3>2
  <2> QED
    BY <1>6, <2>2, <2>3
<1>9. PushType'
  BY <1>1, <1>2, <1>7, <1>8 DEF PushType
<1>10. SubsInv' /\ mistaken \subseteq mistaken'
  BY <1>1, <1>2, <1>3 DEF SubsInv
<1>11. ASSUME NEW m \in Note PROVE TaskInv(m)' /\ \A x \in Endpoint : PushInv(m, x)'
  <2>1. CASE m # n
    <3>1. TaskInv(m) /\ task'[m] = task[m] /\ \A x \in Endpoint : PushInv(m, x)
      BY <1>1, <1>7, <1>11, <2>1
    <3>2. \A x \in Endpoint : pushed'[x][m] = pushed[x][m]
      BY <1>8, <1>11, <2>1
    <3> QED
      BY <1>2, <1>10, <3>1, <3>2 DEF TaskInv, PushInv, At
  <2>2. CASE m = n
    <3>1. TaskInv(n)'
      BY <1>1, <1>2, <1>6, <1>7 DEF TaskInv, At
    <3>2. ASSUME NEW x \in Endpoint PROVE PushInv(n, x)'
      <4>1. PushInv(n, x)
        BY <1>1, <3>2
      <4>2. CASE x # ep
        BY <1>1, <1>6, <1>7, <1>8, <3>2, <4>1, <4>2 DEF PushInv, At
      <4>3. CASE x = ep
        <5>1. \/ r.failed = task[n].failed /\ pushed'[ep][n] = 1
              \/ ep \in r.failed /\ pushed'[ep][n] = 0
          BY <1>4, <1>6, <1>8
        <5> QED
          BY <1>6, <1>7, <4>3, <5>1 DEF PushInv, At
      <4> QED
        BY <4>2, <4>3
    <3> QED
      BY <2>2, <3>1, <3>2
  <2> QED
    BY <2>1, <2>2
<1> QED
  BY <1>9, <1>10, <1>11 DEF NotesInv

\* An endpoint leaves the table: it is no longer one that was there all along.
LEMMA DeleteKeeps ==
  ASSUME NotesInv, NEW ep, Delete(ep), task' \in [Note -> TaskType],
         UNCHANGED <<gone, mistaken, pushed, pushOn>>,
         wanted' \subseteq wanted, ep \in wanted' => ep \in gone \cup mistaken,
         \A m \in Note :
           /\ task'[m].pc = task[m].pc /\ task'[m].prio = task[m].prio
           /\ task'[m].todo = task[m].todo /\ task'[m].failed = task[m].failed
           /\ task'[m].since = task[m].since \ {ep}
           /\ task'[m].stale \subseteq task[m].stale
           /\ task'[m].listed = task[m].listed
  PROVE  NotesInv'
<1>1. /\ PushType /\ SubsInv /\ subs' = subs \ {ep}
      /\ \A m \in Note : TaskInv(m) /\ \A x \in Endpoint : PushInv(m, x)
  BY DEF NotesInv, Delete
<1>2. PushType' /\ SubsInv'
  BY <1>1 DEF PushType, SubsInv
<1>3. ASSUME NEW m \in Note PROVE TaskInv(m)' /\ \A x \in Endpoint : PushInv(m, x)'
  <2>1. TaskInv(m) /\ \A x \in Endpoint : PushInv(m, x)
    BY <1>1
  <2>2. TaskInv(m)'
    BY <1>1, <2>1 DEF TaskInv, At
  <2>3. \A x \in Endpoint : PushInv(m, x)'
    BY <2>1 DEF PushInv, At
  <2> QED
    BY <2>2, <2>3
<1> QED
  BY <1>2, <1>3 DEF NotesInv

LEMMA DeleteStaleKeeps ==
  ASSUME NotesInv, NEW n \in Note, DeleteStale(n), UNCHANGED pushOn
  PROVE  NotesInv'
<1>1. PushType /\ TaskInv(n) /\ task \in [Note -> TaskType]
  BY DEF NotesInv, PushType
<1>2. PICK ep \in task[n].stale :
        /\ Delete(ep)
        /\ task' = [m \in Note |-> [task[m] EXCEPT
                      !.since = @ \ {ep}, !.stale = IF m = n THEN @ \ {ep} ELSE @]]
  BY DEF DeleteStale
<1>3. ASSUME NEW m \in Note
      PROVE  /\ task'[m] \in TaskType
             /\ task'[m].pc = task[m].pc /\ task'[m].prio = task[m].prio
             /\ task'[m].todo = task[m].todo /\ task'[m].failed = task[m].failed
             /\ task'[m].since = task[m].since \ {ep}
             /\ task'[m].stale \subseteq task[m].stale
             /\ task'[m].listed = task[m].listed
  <2> DEFINE st == IF m = n THEN task[m].stale \ {ep} ELSE task[m].stale
             r == [task[m] EXCEPT !.since = @ \ {ep}, !.stale = st]
  <2>1. task[m] \in TaskType
    BY <1>1
  <2>2. st \subseteq task[m].stale
    OBVIOUS
  <2> HIDE DEF st
  <2>3. /\ r \in TaskType
        /\ r.pc = task[m].pc /\ r.prio = task[m].prio
        /\ r.todo = task[m].todo /\ r.failed = task[m].failed
        /\ r.since = task[m].since \ {ep} /\ r.stale = st /\ r.listed = task[m].listed
    BY <2>1, <2>2 DEF TaskType
  <2>4. task'[m] = r
    BY <1>2 DEF st
  <2> HIDE DEF r
  <2> QED
    BY <2>2, <2>3, <2>4
<1>4. task' \in [Note -> TaskType]
  <2>1. task' = [m \in Note |-> task'[m]]
    BY <1>2
  <2> QED
    BY <1>3, <2>1
<1>5. UNCHANGED <<wanted, gone, mistaken, pushed, pushOn>> /\ ep \in gone \cup mistaken
  BY <1>1, <1>2 DEF DeleteStale, TaskInv
<1> QED
  BY <1>2, <1>3, <1>4, <1>5, DeleteKeeps

LEMMA EndpointKeeps ==
  ASSUME NotesInv, NEW ep \in Endpoint,
         Subscribe(ep) \/ Unsubscribe(ep) \/ EndpointExpires(ep), UNCHANGED pushOn
  PROVE  NotesInv'
<1>1. /\ PushType /\ SubsInv /\ task \in [Note -> TaskType]
      /\ \A m \in Note : TaskInv(m) /\ \A x \in Endpoint : PushInv(m, x)
  BY DEF NotesInv, PushType
<1>2. CASE Subscribe(ep)
  <2>1. PushType' /\ SubsInv'
    BY <1>1, <1>2 DEF Subscribe, noteVars, PushType, SubsInv
  <2>2. \A m \in Note : TaskInv(m)'
    BY <1>1, <1>2 DEF Subscribe, noteVars, TaskInv, At
  <2>3. \A m \in Note : \A x \in Endpoint : PushInv(m, x)'
    BY <1>1, <1>2 DEF Subscribe, noteVars, PushInv, At
  <2> QED
    BY <2>1, <2>2, <2>3 DEF NotesInv
<1>3. CASE EndpointExpires(ep)
  <2>1. PushType' /\ SubsInv'
    BY <1>1, <1>3 DEF EndpointExpires, noteVars, PushType, SubsInv
  <2>2. \A m \in Note : TaskInv(m)'
    BY <1>1, <1>3 DEF EndpointExpires, noteVars, TaskInv, At
  <2>3. \A m \in Note : \A x \in Endpoint : PushInv(m, x)'
    BY <1>1, <1>3 DEF EndpointExpires, noteVars, PushInv, At
  <2> QED
    BY <2>1, <2>2, <2>3 DEF NotesInv
<1>4. CASE Unsubscribe(ep)
  <2>1. ASSUME NEW m \in Note
        PROVE  /\ task'[m] \in TaskType
               /\ task'[m].pc = task[m].pc /\ task'[m].prio = task[m].prio
               /\ task'[m].todo = task[m].todo /\ task'[m].failed = task[m].failed
               /\ task'[m].since = task[m].since \ {ep}
               /\ task'[m].stale \subseteq task[m].stale
               /\ task'[m].listed = task[m].listed
    <3> DEFINE r == [task[m] EXCEPT !.since = @ \ {ep}]
    <3>1. task[m] \in TaskType
      BY <1>1
    <3>2. /\ r \in TaskType
          /\ r.pc = task[m].pc /\ r.prio = task[m].prio
          /\ r.todo = task[m].todo /\ r.failed = task[m].failed
          /\ r.since = task[m].since \ {ep} /\ r.stale = task[m].stale
          /\ r.listed = task[m].listed
      BY <3>1 DEF TaskType
    <3>3. task'[m] = r
      BY <1>4 DEF Unsubscribe
    <3> HIDE DEF r
    <3> QED
      BY <3>2, <3>3
  <2>2. task' \in [Note -> TaskType]
    <3>1. task' = [m \in Note |-> task'[m]]
      BY <1>4 DEF Unsubscribe
    <3> QED
      BY <2>1, <3>1
  <2>3. /\ UNCHANGED <<gone, mistaken, pushed, pushOn>> /\ wanted' = wanted \ {ep}
        /\ Delete(ep)
    BY <1>4 DEF Unsubscribe
  <2> QED
    BY <2>1, <2>2, <2>3, DeleteKeeps
<1> QED
  BY <1>2, <1>3, <1>4

LEMMA RestartKeeps ==
  ASSUME NotesInv, WorkerRestart, UNCHANGED pushOn
  PROVE  NotesInv'
<1>1. /\ PushType /\ SubsInv /\ task \in [Note -> TaskType]
      /\ \A m \in Note : TaskInv(m) /\ \A x \in Endpoint : PushInv(m, x)
  BY DEF NotesInv, PushType
<1>2. /\ UNCHANGED <<subs, wanted, gone, mistaken, pushed, pushOn>>
      /\ task' = [n \in Note |-> IF task[n].pc \in {"idle", "done", "failed"} THEN task[n]
                                 ELSE [task[n] EXCEPT !.pc = "lost"]]
  BY DEF WorkerRestart, pushVars
<1>3. ASSUME NEW m \in Note
      PROVE  /\ task'[m] \in TaskType
             /\ \/ task'[m] = task[m]
                \/ task'[m].pc = "lost" /\ task'[m].stale = task[m].stale
                     /\ task'[m].since = task[m].since /\ task'[m].listed = task[m].listed
  <2> DEFINE r == [task[m] EXCEPT !.pc = "lost"]
  <2>1. task[m] \in TaskType
    BY <1>1
  <2>2. r \in TaskType /\ r.pc = "lost" /\ r.stale = task[m].stale /\ r.since = task[m].since
        /\ r.listed = task[m].listed
    BY <2>1 DEF TaskType
  <2>3. task'[m] = task[m] \/ task'[m] = r
    BY <1>2
  <2> HIDE DEF r
  <2> QED
    BY <2>1, <2>2, <2>3
<1>4. PushType' /\ SubsInv'
  <2>1. task' = [m \in Note |-> task'[m]]
    BY <1>2
  <2> QED
    BY <1>1, <1>2, <1>3, <2>1 DEF PushType, SubsInv
<1>5. \A m \in Note : TaskInv(m)'
  BY <1>1, <1>2, <1>3 DEF TaskInv, At
<1>6. \A m \in Note : \A x \in Endpoint : PushInv(m, x)'
  BY <1>1, <1>2, <1>3 DEF PushInv, At
<1> QED
  BY <1>4, <1>5, <1>6 DEF NotesInv

LEMMA NotesUnchanged ==
  ASSUME NotesInv, UNCHANGED <<task, subs, wanted, gone, mistaken, pushed, pushOn>>
  PROVE  NotesInv'
BY DEF NotesInv, PushType, SubsInv, TaskInv, PushInv, At

LEMMA NoteStepKeeps ==
  ASSUME NotesInv, HubType, NoteStep, UNCHANGED pushOn,
         scope.notes \subseteq Note, scope.endpoints \subseteq Endpoint
  PROVE  NotesInv'
<1>1. ASSUME NEW n \in Note, Analysed(n) PROVE NotesInv'
  BY <1>1, GotoKeeps DEF Analysed, pushVars
<1>2. ASSUME NEW n \in Note, Announce(n) PROVE NotesInv'
  BY <1>2, NotesUnchanged DEF Announce, noteVars, pushVars
<1>3. ASSUME NEW n \in Note, Announced(n) PROVE NotesInv'
  BY <1>3, GotoKeeps DEF Announced, At, pushVars
<1>4. ASSUME NEW n \in Note, PushEnded(n) PROVE NotesInv'
  BY <1>4, GotoKeeps DEF PushEnded, pushVars
<1>5. ASSUME NEW n \in Note, Created(n) PROVE NotesInv'
  BY <1>5, GotoKeeps DEF Created, pushVars
<1>6. ASSUME NEW n \in Note, Dismiss(n) \/ Snooze(n) \/ MarkRead(n) PROVE NotesInv'
  BY <1>6, NotesUnchanged DEF Dismiss, Snooze, MarkRead, Mark, pushVars
<1>7. ASSUME NEW n \in Note,
             \/ Heartbeat(n) \/ Reflect(n) \/ Analysed(n) \/ Insert(n) \/ Announce(n)
             \/ Announced(n) \/ ListSubscriptions(n) \/ PushOne(n) \/ DeleteStale(n)
             \/ PushEnded(n) \/ Created(n) \/ Dismiss(n) \/ Snooze(n) \/ MarkRead(n)
      PROVE  NotesInv'
  BY <1>1, <1>2, <1>3, <1>4, <1>5, <1>6, <1>7, AskKeeps, InsertKeeps, ListKeeps,
     PushOneKeeps, DeleteStaleKeeps
<1>8. CASE \E n \in scope.notes :
             \/ Heartbeat(n) \/ Reflect(n) \/ Analysed(n) \/ Insert(n) \/ Announce(n)
             \/ Announced(n) \/ ListSubscriptions(n) \/ PushOne(n) \/ DeleteStale(n)
             \/ PushEnded(n) \/ Created(n) \/ Dismiss(n) \/ Snooze(n) \/ MarkRead(n)
  BY <1>7, <1>8
<1> QED
  BY <1>8, RestartKeeps, EndpointKeeps DEF NoteStep

\* What an urgent note's push came to, from where its endpoints stand.
LEMMA NotesArePushed == NotesInv => UrgentIsPushed
BY DEF NotesInv, SubsInv, PushInv, UrgentIsPushed, At

-------------------------------------------------------------------------------
(* Steps of the uptime monitor *)

LEMMA UptimeStart == Init => UptimeInv
<1> SUFFICES ASSUME Init PROVE UptimeInv
  OBVIOUS
<1>1. /\ flips = [u \in Url |-> 0] /\ targets = <<>> /\ latest = [u \in Url |-> "none"]
      /\ alerts = [u \in Url |-> 0] /\ believed = latest
      /\ loop = [l \in Loop |-> NoLoop] /\ current = 0
  BY DEF Init, UptimeInit
<1>2. NoLoop \in LoopType
  BY DEF NoLoop, LoopType
<1>3. UptimeType
  BY <1>1, <1>2, ProactiveAssumption DEF UptimeType, States
<1>4. \A l \in Loop : LoopInv(l)
  BY <1>1 DEF LoopInv, NoLoop, Distinct
<1> QED
  BY <1>1, <1>3, <1>4 DEF UptimeInv, Distinct

LEMMA DiffersType == \A a, b : Differs(a, b) \in {0, 1}
BY DEF Differs

\* One loop moves on and stores nothing; a result that comes in is the site's
\* answer of now.
LEMMA LoopMoves ==
  ASSUME UptimeInv, NEW l \in Loop, NEW r \in LoopType, loop' = [loop EXCEPT ![l] = r],
         UNCHANGED <<site, flips, latest, alerts, believed, targets>>,
         current' \in 0..MaxLoops, LoopInv(l)',
         \/ current' = current
         \/ current' = current + 1 /\ l = current' /\ r.pc = "round",
         \A t \in Target : \A q \in States :
           Pending(t, q)' /\ current' = current => Pending(t, q) \/ q = Answer(t)
  PROVE  UptimeInv'
<1>1. /\ UptimeType /\ believed = latest /\ Distinct(targets)
      /\ \A m \in Loop : LoopInv(m)
  BY DEF UptimeInv
<1>2. /\ loop' \in [Loop -> LoopType] /\ loop'[l] = r
      /\ \A m \in Loop \ {l} : loop'[m] = loop[m]
  BY <1>1 DEF UptimeType
<1>3. UptimeType'
  BY <1>1, <1>2 DEF UptimeType
<1>4. ASSUME NEW m \in Loop PROVE LoopInv(m)'
  <2>1. CASE m # l
    BY <1>1, <1>2, <1>4, <2>1 DEF LoopInv, UptimeType, Loop
  <2> QED
    BY <2>1
<1>5. current' = 0 => \A u \in Url : alerts'[u] = 0 /\ latest'[u] = "none"
  BY <1>1 DEF UptimeInv, UptimeType
<1>6. ASSUME current' = 1, NEW t \in Target, Alone(t) PROVE AlertInv(t)'
  <2>1. Answer(t)' = Answer(t) /\ Alone(t)' /\ UrlOf[t] \in Url
    BY <1>6 DEF Answer, Alone, Url
  <2>2. CASE current = 1
    <3>1. AlertInv(t)
      BY <1>6, <2>2 DEF UptimeInv
    <3>2. \A q \in States : Pending(t, q)' => Pending(t, q) \/ q = Answer(t)
      BY <1>6, <2>2
    <3>3. \A q : Differs(q, q) = 0
      BY DEF Differs
    <3>4. /\ alerts[UrlOf[t]] \in Nat /\ flips[UrlOf[t]] \in Nat
          /\ \A a, b : Differs(a, b) \in {0, 1}
      BY <1>1, <2>1, DiffersType DEF UptimeType
    <3> QED
      BY <2>1, <3>1, <3>2, <3>3, <3>4 DEF AlertInv
  <2>3. CASE current = 0
    <3>1. \A q \in States : ~Pending(t, q)'
      <4>1. loop'[1].pc = "round"
        BY <1>2, <1>6, <2>3
      <4> QED
        BY <4>1 DEF Pending
    <3>2. alerts[UrlOf[t]] = 0 /\ latest[UrlOf[t]] = "none" /\ flips[UrlOf[t]] \in Nat
      BY <1>1, <2>1, <2>3 DEF UptimeInv, UptimeType
    <3> QED
      BY <2>1, <3>1, <3>2 DEF AlertInv, Differs
  <2> QED
    BY <1>1, <1>6, <2>2, <2>3 DEF UptimeType
<1>7. \A t \in Target : Alone(t)' => Alone(t)
  BY DEF Alone
<1> QED
  BY <1>1, <1>3, <1>4, <1>5, <1>6, <1>7 DEF UptimeInv

LEMMA SetupKeeps ==
  ASSUME UptimeInv, NEW t \in Target, AddTarget(t) \/ SetAlertCallback
  PROVE  UptimeInv'
<1>1. UNCHANGED <<site, flips, latest, alerts, believed, loop, current>>
  BY DEF AddTarget, SetAlertCallback
<1>2. targets' \in Seq(Target) /\ Distinct(targets)'
  <2>1. targets \in Seq(Target) /\ Distinct(targets)
    BY DEF UptimeInv, UptimeType
  <2>2. CASE SetAlertCallback
    BY <2>1, <2>2 DEF SetAlertCallback, Distinct
  <2>3. CASE AddTarget(t)
    <3>1. targets' = Append(targets, t) /\ \A i \in DOMAIN targets : targets[i] # t
      BY <2>3 DEF AddTarget
    <3>2. /\ targets' \in Seq(Target) /\ DOMAIN targets' = 1..Len(targets) + 1
          /\ \A i \in DOMAIN targets : targets'[i] = targets[i]
          /\ targets'[Len(targets) + 1] = t /\ DOMAIN targets = 1..Len(targets)
          /\ Len(targets) \in Nat
      BY <2>1, <3>1
    <3>3. \A i \in DOMAIN targets' : i \in DOMAIN targets \/ i = Len(targets) + 1
      BY <3>2
    <3> QED
      BY <2>1, <3>1, <3>2, <3>3 DEF Distinct
  <2> QED
    BY <2>2, <2>3
<1>3. UptimeType'
  BY <1>1, <1>2 DEF UptimeInv, UptimeType
<1>4. \A l \in Loop : LoopInv(l)'
  BY <1>1 DEF UptimeInv, LoopInv
<1>5. \A s \in Target : AlertInv(s) => AlertInv(s)'
  BY <1>1 DEF AlertInv, Pending, Answer
<1> QED
  BY <1>1, <1>2, <1>3, <1>4, <1>5 DEF UptimeInv, Alone

LEMMA SiteChangesKeeps ==
  ASSUME UptimeInv, NEW u \in Url, NEW s, SiteChanges(u, s)
  PROVE  UptimeInv'
<1>1. /\ UNCHANGED <<targets, latest, alerting, alerts, believed, loop, current>>
      /\ site' = [site EXCEPT ![u] = s] /\ flips' = [flips EXCEPT ![u] = @ + 1]
      /\ flips \in [Url -> Nat] /\ alerts \in [Url -> Nat]
  BY DEF SiteChanges, UptimeInv, UptimeType
<1>2. /\ flips' \in [Url -> Nat]
      /\ flips'[u] = flips[u] + 1 /\ \A v \in Url \ {u} : flips'[v] = flips[v]
  BY <1>1
<1>3. UptimeType'
  BY <1>1, <1>2 DEF UptimeInv, UptimeType
<1>4. \A l \in Loop : LoopInv(l)'
  BY <1>1 DEF UptimeInv, LoopInv
<1>5. ASSUME NEW t \in Target, AlertInv(t) PROVE AlertInv(t)'
  <2>1. UrlOf[t] \in Url
    BY DEF Url
  <2>2. CASE UrlOf[t] # u
    <3>1. Answer(t)' = Answer(t) /\ flips'[UrlOf[t]] = flips[UrlOf[t]]
      BY <1>1, <1>2, <2>1, <2>2 DEF Answer
    <3> QED
      BY <1>1, <1>5, <3>1 DEF AlertInv, Pending
  <2>3. CASE UrlOf[t] = u
    <3>1. \A a, b, c : Differs(a, b) <= Differs(a, c) + 1
      BY DEF Differs
    <3>2. \A q \in States : Pending(t, q)' => Pending(t, q)
      BY <1>1 DEF Pending
    <3>3. \A a, b : Differs(a, b) \in {0, 1}
      BY DiffersType
    <3>4. alerts'[u] = alerts[u] /\ latest'[u] = latest[u] /\ alerts[u] \in Nat /\ flips[u] \in Nat
      BY <1>1
    <3> DEFINE old == Answer(t)
               new == Answer(t)'
    <3>5. /\ alerts[u] + Differs(latest[u], old) <= flips[u]
          /\ \A q \in States : Pending(t, q) =>
               alerts[u] + Differs(latest[u], q) + Differs(q, old) <= flips[u]
      BY <1>5, <2>3 DEF AlertInv
    <3> HIDE DEF old, new
    <3>6. alerts[u] + Differs(latest[u], new) <= flips[u] + 1
      BY <3>1, <3>3, <3>4, <3>5
    <3>7. \A q \in States : Pending(t, q)' =>
            alerts[u] + Differs(latest[u], q) + Differs(q, new) <= flips[u] + 1
      BY <3>1, <3>2, <3>3, <3>4, <3>5
    <3> QED
      BY <1>2, <2>3, <3>4, <3>6, <3>7 DEF AlertInv, new
  <2> QED
    BY <2>2, <2>3
<1> QED
  BY <1>1, <1>3, <1>4, <1>5 DEF UptimeInv, Alone

LEMMA StartKeeps ==
  ASSUME UptimeInv, Start, current < MaxLoops
  PROVE  UptimeInv'
<1>1. /\ UptimeType /\ current' = current + 1 /\ current \in 0..MaxLoops /\ MaxLoops \in Nat
      /\ \A m \in Loop : LoopInv(m)
      /\ UNCHANGED <<site, flips, targets, latest, alerts, believed>>
  BY ProactiveAssumption DEF Start, UptimeInv, UptimeType
<1>2. current' \in Loop /\ current' \in 0..MaxLoops /\ current' > current
  BY <1>1 DEF Loop
<1>3. PICK l \in Loop : l = current' /\ l = current + 1
  BY <1>1, <1>2
<1> DEFINE r == [loop[l] EXCEPT !.pc = "round"]
<1>4. loop[l] = NoLoop /\ loop[l] \in LoopType
  BY <1>1, <1>2, <1>3 DEF LoopInv, UptimeType
<1>5. r \in LoopType /\ r.pc = "round" /\ r.of = <<>> /\ r.res = <<>>
  <2>1. loop[l].of = <<>> /\ loop[l].res = <<>>
    BY <1>4 DEF NoLoop
  <2> QED
    BY <1>4, <2>1 DEF LoopType
<1>6. loop' = [loop EXCEPT ![l] = r]
  BY <1>3 DEF Start
<1> HIDE DEF r
<1>7. loop'[l] = r
  BY <1>1, <1>6 DEF UptimeType
<1>8. LoopInv(l)'
  BY <1>1, <1>3, <1>5, <1>7 DEF LoopInv, Distinct
<1>9. current' # current
  BY <1>1
<1> QED
  BY <1>1, <1>2, <1>3, <1>5, <1>6, <1>8, <1>9, LoopMoves

\* A loop that leaves its results alone: what is pending was pending.
LEMMA LoopGoesOn ==
  ASSUME UptimeInv, NEW l \in Loop, NEW r \in LoopType, loop' = [loop EXCEPT ![l] = r],
         UNCHANGED <<site, flips, latest, alerts, believed, targets, current>>,
         loop[l].pc # "off", r.of = loop[l].of, r.res = loop[l].res, r.i = loop[l].i,
         \/ r.pc \in {"round", "over"}
         \/ r.pc = "checking" /\ loop[l].pc = "alert" /\ r.i <= Len(r.of)
  PROVE  UptimeInv'
<1>1. UptimeType /\ LoopInv(l) /\ current' \in 0..MaxLoops
  BY DEF UptimeInv, UptimeType
<1>2. loop'[l] = r /\ \A m \in Loop \ {l} : loop'[m] = loop[m]
  BY <1>1 DEF UptimeType
<1>3. ~(l > current)
  BY <1>1 DEF LoopInv, NoLoop
<1>4. LoopInv(l)'
  BY <1>1, <1>2, <1>3 DEF LoopInv
<1>5. \A t \in Target : \A q \in States : Pending(t, q)' => Pending(t, q)
  <2>1. CASE l = 1
    BY <1>2, <2>1 DEF Pending
  <2>2. CASE l # 1
    <3>1. loop'[1] = loop[1]
      <4>1. CASE 1 \in Loop
        BY <1>2, <2>2, <4>1
      <4>2. CASE 1 \notin Loop
        BY <4>2, ProactiveAssumption DEF Loop
      <4> QED
        BY <4>1, <4>2
    <3> QED
      BY <3>1 DEF Pending
  <2> QED
    BY <2>1, <2>2
<1> QED
  BY <1>1, <1>4, <1>5, LoopMoves

LEMMA StopKeeps ==
  ASSUME UptimeInv, Stop
  PROVE  UptimeInv'
<1>1. /\ UptimeType /\ current \in Loop /\ LoopInv(current)
      /\ UNCHANGED <<site, flips, targets, latest, alerts, believed, current>>
  BY ProactiveAssumption DEF Stop, UptimeInv, UptimeType, Loop
<1>2. PICK l \in Loop : l = current
  BY <1>1
<1> DEFINE r == [loop[l] EXCEPT !.pc = "over"]
<1>3. loop[l] \in LoopType
  BY <1>1 DEF UptimeType
<1>4. /\ r \in LoopType /\ r.pc = "over" /\ r.of = loop[l].of /\ r.res = loop[l].res
      /\ r.i = loop[l].i
  BY <1>3 DEF LoopType
<1>5. loop' = [loop EXCEPT ![l] = r] /\ loop'[l] = r
  BY <1>1, <1>2 DEF Stop, UptimeType
<1> HIDE DEF r
<1>6. LoopInv(l)'
  BY <1>1, <1>2, <1>4, <1>5 DEF LoopInv, UptimeType
<1>7. \A t \in Target : \A q \in States : Pending(t, q)' => Pending(t, q)
  <2>1. CASE l = 1
    BY <1>4, <1>5, <2>1 DEF Pending
  <2>2. CASE l # 1
    <3>1. 1 \in Loop /\ loop'[1] = loop[1]
      BY <1>1, <1>5, <2>2, ProactiveAssumption DEF UptimeType, Loop
    <3> QED
      BY <3>1 DEF Pending
  <2> QED
    BY <2>1, <2>2
<1>8. current' \in 0..MaxLoops
  BY <1>1 DEF UptimeType
<1> QED
  BY <1>1, <1>4, <1>5, <1>6, <1>7, <1>8, LoopMoves

LEMMA AlertedKeeps ==
  ASSUME UptimeInv, NEW l \in Loop, Alerted(l)
  PROVE  UptimeInv'
<1>1. /\ loop[l] \in LoopType /\ loop[l].pc = "alert"
      /\ UNCHANGED <<site, flips, targets, latest, alerts, believed, current>>
  BY DEF Alerted, Quiet, UptimeInv, UptimeType
<1>2. PICK pc \in {"round", "checking"} :
        /\ loop' = [loop EXCEPT ![l].pc = pc]
        /\ pc = "checking" => ~(loop[l].i > Len(loop[l].of))
  BY DEF Alerted
<1> DEFINE r == [loop[l] EXCEPT !.pc = pc]
<1>3. /\ r \in LoopType /\ r.pc = pc /\ r.of = loop[l].of /\ r.res = loop[l].res
      /\ r.i = loop[l].i
  BY <1>1 DEF LoopType
<1>4. loop' = [loop EXCEPT ![l] = r]
  BY <1>2
<1> HIDE DEF r
<1>5. loop[l].i \in Nat /\ Len(loop[l].of) \in Nat
  BY <1>1 DEF LoopType
<1>6. pc = "checking" => r.i <= Len(r.of)
  BY <1>2, <1>3, <1>5
<1> QED
  BY <1>1, <1>2, <1>3, <1>4, <1>6, LoopGoesOn

LEMMA GatherKeeps ==
  ASSUME UptimeInv, NEW l \in Loop, Gather(l)
  PROVE  UptimeInv'
<1>1. /\ UptimeType /\ LoopInv(l) /\ Distinct(targets) /\ loop[l].pc = "round"
      /\ UNCHANGED <<site, flips, targets, latest, alerts, believed, current>>
  BY DEF Gather, Quiet, UptimeInv
<1> DEFINE r == [pc |-> IF targets = <<>> THEN "round" ELSE "checking",
                 rounds |-> loop[l].rounds + 1, of |-> targets,
                 res |-> [k \in DOMAIN targets |-> "none"], i |-> 1]
<1>2. loop[l].rounds \in Nat /\ targets \in Seq(Target)
  BY <1>1 DEF UptimeType, LoopType
<1>3. /\ [k \in DOMAIN targets |-> "none"] \in Seq(States)
      /\ Len([k \in DOMAIN targets |-> "none"]) = Len(targets)
      /\ targets # <<>> => 1 <= Len(targets)
  BY <1>2 DEF States
<1>4. /\ r \in LoopType /\ r.of = targets /\ r.res = [k \in DOMAIN targets |-> "none"]
      /\ r.i = 1 /\ r.pc \in {"round", "checking"} /\ (r.pc = "checking" => targets # <<>>)
  BY <1>2, <1>3 DEF LoopType
<1>5. loop' = [loop EXCEPT ![l] = r] /\ loop'[l] = r
  BY <1>1 DEF Gather, UptimeType
<1> HIDE DEF r
<1>6. ~(l > current)
  BY <1>1 DEF LoopInv, NoLoop
<1>7. LoopInv(l)'
  BY <1>1, <1>3, <1>4, <1>5, <1>6 DEF LoopInv
<1>8. \A t \in Target : \A q \in States : Pending(t, q)' => Pending(t, q)
  <2>1. CASE l = 1
    <3>1. \A k \in DOMAIN loop'[1].res : loop'[1].res[k] = "none"
      BY <1>4, <1>5, <2>1
    <3> QED
      BY <3>1 DEF Pending
  <2>2. CASE l # 1
    <3>1. 1 \in Loop /\ loop'[1] = loop[1]
      BY <1>1, <1>5, <2>2, ProactiveAssumption DEF UptimeType, Loop
    <3> QED
      BY <3>1 DEF Pending
  <2> QED
    BY <2>1, <2>2
<1>9. current' \in 0..MaxLoops
  BY <1>1 DEF UptimeType
<1> QED
  BY <1>1, <1>4, <1>5, <1>7, <1>8, <1>9, LoopMoves

LEMMA CheckSingleKeeps ==
  ASSUME UptimeInv, NEW l \in Loop, NEW k \in DOMAIN loop[l].res, CheckSingle(l, k)
  PROVE  UptimeInv'
<1>1. /\ UptimeType /\ LoopInv(l) /\ loop[l] \in LoopType /\ loop[l].pc = "checking"
      /\ UNCHANGED <<site, flips, targets, latest, alerts, believed, current>>
  BY DEF CheckSingle, Quiet, UptimeInv, UptimeType
<1> DEFINE a == Answer(loop[l].of[k])
           res == [loop[l].res EXCEPT ![k] = a]
           r == [loop[l] EXCEPT !.res = res]
<1>2. a \in States /\ a # "none"
  BY DEF Answer, States
<1>3. loop' = [loop EXCEPT ![l] = r]
  BY DEF CheckSingle
<1>4. loop[l].res \in Seq(States)
  BY <1>1 DEF LoopType
<1>5. /\ res \in Seq(States) /\ Len(res) = Len(loop[l].res) /\ DOMAIN res = DOMAIN loop[l].res
      /\ \A j \in DOMAIN res : res[j] = IF j = k THEN a ELSE loop[l].res[j]
  <2> HIDE DEF a
  <2> QED
    BY <1>2, <1>4
<1> HIDE DEF res
<1>6. /\ r \in LoopType /\ r.pc = "checking" /\ r.of = loop[l].of /\ r.res = res
      /\ r.i = loop[l].i
  BY <1>1, <1>5 DEF LoopType
<1> HIDE DEF r
<1>7. loop'[l] = r
  BY <1>1, <1>3 DEF UptimeType
<1>8. ~(l > current)
  BY <1>1 DEF LoopInv, NoLoop
<1>9. LoopInv(l)'
  BY <1>1, <1>5, <1>6, <1>7, <1>8 DEF LoopInv
<1>10. ASSUME NEW t \in Target, NEW q \in States, Pending(t, q)'
       PROVE  Pending(t, q) \/ q = Answer(t)
  <2>1. CASE l = 1
    <3>1. PICK j \in DOMAIN res : j >= loop[1].i /\ loop[1].of[j] = t /\ res[j] = q /\ q # "none"
      BY <1>6, <1>7, <1>10, <2>1 DEF Pending
    <3>2. CASE j = k
      BY <1>5, <2>1, <3>1, <3>2
    <3>3. CASE j # k
      <4>1. loop[1].res[j] = q /\ j \in DOMAIN loop[1].res
        BY <1>5, <2>1, <3>1, <3>3
      <4> QED
        BY <1>1, <2>1, <3>1, <4>1 DEF Pending
    <3> QED
      BY <3>2, <3>3
  <2>2. CASE l # 1
    <3>1. 1 \in Loop /\ loop'[1] = loop[1]
      BY <1>1, <1>3, <2>2, ProactiveAssumption DEF UptimeType, Loop
    <3> QED
      BY <1>10, <3>1 DEF Pending
  <2> QED
    BY <2>1, <2>2
<1>11. current' \in 0..MaxLoops
  BY <1>1 DEF UptimeType
<1> QED
  BY <1>1, <1>3, <1>6, <1>9, <1>10, <1>11, LoopMoves

\* A result that is stored was pending until then; whoever it is news to is
\* alerted.
LEMMA StoreKeeps ==
  ASSUME UptimeInv, NEW l \in Loop, Store(l)
  PROVE  UptimeInv'
<1>1. /\ UptimeType /\ believed = latest /\ Distinct(targets)
      /\ (\A m \in Loop : LoopInv(m)) /\ LoopInv(l)
      /\ loop[l] \in LoopType /\ loop[l].pc = "checking"
      /\ UNCHANGED <<site, flips, targets, alerting, current>>
      /\ \A k \in DOMAIN loop[l].res : loop[l].res[k] # "none"
  BY DEF Store, Quiet, UptimeInv, UptimeType
<1> DEFINE i == loop[l].i
           of == loop[l].of
           new == loop[l].res[i]
           u == UrlOf[of[i]]
           calls == alerting /\ latest[u] \notin {"none", new}
           pc == IF calls THEN "alert" ELSE IF i = Len(of) THEN "round" ELSE "checking"
           r == [loop[l] EXCEPT !.i = i + 1, !.pc = pc]
<1>2. /\ i \in DOMAIN of /\ i \in DOMAIN loop[l].res /\ of[i] \in Target /\ u \in Url
      /\ new \in {"up", "down"} /\ i \in Nat /\ Len(of) \in Nat /\ i >= 1 /\ i <= Len(of)
  <2>1. /\ of \in Seq(Target) /\ loop[l].res \in Seq(States) /\ i \in Nat \ {0} /\ i <= Len(of)
        /\ Len(loop[l].res) = Len(of)
    BY <1>1 DEF LoopType, LoopInv
  <2>2. i \in DOMAIN of /\ i \in DOMAIN loop[l].res
    BY <2>1
  <2>3. of[i] \in Target /\ new \in States /\ new # "none"
    BY <1>1, <2>1, <2>2
  <2> HIDE DEF i, of, new
  <2> QED
    BY <2>1, <2>2, <2>3 DEF States, Url, u
<1>3. /\ latest' = [latest EXCEPT ![u] = new]
      /\ alerts' = [alerts EXCEPT ![u] = IF calls THEN @ + 1 ELSE @]
      /\ believed' = [believed EXCEPT ![u] =
           IF calls \/ ~alerting \/ latest[u] = "none" THEN new ELSE @]
      /\ loop' = [loop EXCEPT ![l] = r]
  BY DEF Store
<1>4. calls => latest[u] # "none" /\ latest[u] # new
  OBVIOUS
<1>5. ~calls => ~alerting \/ latest[u] = "none" \/ latest[u] = new
  OBVIOUS
<1>6. /\ pc \in {"alert", "round", "checking"}
      /\ pc = "checking" => i + 1 <= Len(of)
  <2> HIDE DEF i, of, calls
  <2> QED
    BY <1>2
<1> HIDE DEF pc, calls, u, new
<1>7. /\ r \in LoopType /\ r.pc = pc /\ r.of = of /\ r.res = loop[l].res
      /\ r.i = i + 1
  <2>1. /\ [loop[l] EXCEPT !.i = i + 1, !.pc = pc].of = of
        /\ [loop[l] EXCEPT !.i = i + 1, !.pc = pc].res = loop[l].res
    BY <1>1 DEF LoopType
  <2>2. i + 1 \in Nat /\ pc \in {"off", "round", "checking", "alert", "over"}
    BY <1>2, <1>6
  <2> HIDE DEF i, of
  <2> QED
    BY <1>1, <2>1, <2>2 DEF LoopType
<1> HIDE DEF r
<1>8. loop'[l] = r /\ loop' \in [Loop -> LoopType] /\ \A m \in Loop \ {l} : loop'[m] = loop[m]
  BY <1>1, <1>3, <1>7 DEF UptimeType
<1>9. /\ latest' \in [Url -> States] /\ latest'[u] = new
      /\ \A v \in Url \ {u} : latest'[v] = latest[v]
  BY <1>1, <1>2, <1>3 DEF UptimeType, States
<1>10. /\ alerts' \in [Url -> Nat] /\ alerts'[u] = alerts[u] + (IF calls THEN 1 ELSE 0)
       /\ \A v \in Url \ {u} : alerts'[v] = alerts[v]
  BY <1>1, <1>2, <1>3 DEF UptimeType
<1>11. believed' = latest'
  <2>1. believed \in [Url -> States] /\ latest \in [Url -> States]
    BY <1>1 DEF UptimeType
  <2>2. CASE calls
    BY <1>1, <1>3, <2>1, <2>2
  <2>3. CASE ~calls
    BY <1>1, <1>2, <1>3, <1>5, <2>1, <2>3
  <2> QED
    BY <2>2, <2>3
<1>12. UptimeType'
  BY <1>1, <1>8, <1>9, <1>10, <1>11 DEF UptimeType
<1>13. ~(l > current) /\ current \in 0..MaxLoops /\ l >= 1 /\ l \in Int
  BY <1>1, ProactiveAssumption DEF LoopInv, NoLoop, UptimeType, Loop
<1>14. \A m \in Loop : LoopInv(m)'
  <2>1. LoopInv(l)'
    <3>1. /\ Distinct(of) /\ Len(loop[l].res) = Len(of) /\ i + 1 \in Nat \ {0}
          /\ ~(l > current') /\ (pc = "checking" => i + 1 <= Len(of))
      BY <1>1, <1>2, <1>6, <1>13 DEF LoopInv
    <3>2. /\ Distinct(r.of) /\ Len(r.res) = Len(r.of) /\ r.i \in Nat \ {0}
          /\ (r.pc = "checking" => r.i <= Len(r.of))
      <4> HIDE DEF i, of
      <4> QED
        BY <1>7, <3>1
    <3> QED
      BY <1>8, <3>1, <3>2 DEF LoopInv
  <2>2. ASSUME NEW m \in Loop \ {l} PROVE LoopInv(m)'
    BY <1>1, <1>8, <2>2 DEF LoopInv
  <2> QED
    BY <2>1, <2>2
<1>15. current # 0
  BY <1>13
<1>16. ASSUME current = 1, NEW t \in Target, Alone(t) PROVE AlertInv(t)'
  <2>1. AlertInv(t) /\ l = 1 /\ UrlOf[t] \in Url /\ Answer(t)' = Answer(t)
    BY <1>1, <1>13, <1>16 DEF UptimeInv, Answer, Url
  <2>2. \A q \in States : Pending(t, q)' =>
          \E k \in DOMAIN loop[l].res :
            k >= i + 1 /\ of[k] = t /\ loop[l].res[k] = q /\ q # "none"
    BY <1>7, <1>8, <2>1 DEF Pending
  <2>3. CASE UrlOf[t] # u
    <3>1. \A q \in States : Pending(t, q)' => Pending(t, q)
      <4>1. DOMAIN loop[l].res \subseteq Nat
        BY <1>1 DEF LoopType
      <4>2. \A k \in DOMAIN loop[l].res : k >= i + 1 => k >= i
        BY <1>2, <4>1
      <4> QED
        BY <1>1, <2>1, <2>2, <4>2 DEF Pending
    <3>2. alerts'[UrlOf[t]] = alerts[UrlOf[t]] /\ latest'[UrlOf[t]] = latest[UrlOf[t]]
      BY <1>9, <1>10, <2>1, <2>3
    <3> QED
      BY <1>1, <2>1, <3>1, <3>2 DEF AlertInv
  <2>4. CASE UrlOf[t] = u
    <3>1. of[i] = t
      BY <1>2, <1>16, <2>4 DEF Alone, u
    <3>2. Pending(t, new) /\ new \in States
      <4>1. i >= i
        BY <1>2
      <4> QED
        BY <1>1, <1>2, <2>1, <3>1, <4>1 DEF Pending, States, new
    <3>3. alerts[u] + Differs(latest[u], new) + Differs(new, Answer(t)) <= flips[u]
      BY <2>1, <2>4, <3>2 DEF AlertInv
    <3>4. \A q \in States : ~Pending(t, q)'
      <4>1. \A k \in DOMAIN loop[l].res : k >= i + 1 => of[k] # t
        <5>1. DOMAIN of \subseteq Nat /\ DOMAIN of = DOMAIN loop[l].res
          BY <1>1 DEF LoopType, LoopInv
        <5>2. \A k \in DOMAIN of : k >= i + 1 => k # i
          BY <1>2, <5>1
        <5> QED
          BY <1>1, <1>2, <3>1, <5>1, <5>2 DEF LoopInv, Distinct
      <4> QED
        BY <2>2, <4>1
    <3>5. calls => Differs(latest[u], new) = 1
      BY <1>4 DEF Differs
    <3>6. /\ Differs(latest[u], new) \in {0, 1} /\ Differs(new, Answer(t)) \in {0, 1}
          /\ alerts[u] \in Nat /\ flips[u] \in Nat
      BY <1>1, <1>2, DiffersType DEF UptimeType
    <3>7. alerts'[u] + Differs(new, Answer(t)) <= flips[u]
      BY <1>10, <3>3, <3>5, <3>6
    <3> QED
      BY <1>1, <1>9, <2>1, <2>4, <3>4, <3>7 DEF AlertInv
  <2> QED
    BY <2>3, <2>4
<1> HIDE DEF i, of
<1> QED
  BY <1>1, <1>11, <1>12, <1>14, <1>15, <1>16 DEF UptimeInv, Alone

LEMMA UptimeUnchanged ==
  ASSUME UptimeInv, UNCHANGED uptimeVars
  PROVE  UptimeInv'
<1>1. UNCHANGED <<site, flips, targets, latest, alerting, alerts, believed, loop, current>>
  BY DEF uptimeVars
<1>2. UptimeType' /\ (believed = latest)' /\ Distinct(targets)' /\ \A l \in Loop : LoopInv(l)'
  BY <1>1 DEF UptimeInv, UptimeType, LoopInv
<1>3. \A t \in Target : (AlertInv(t) => AlertInv(t)') /\ (Alone(t)' => Alone(t))
  BY <1>1 DEF AlertInv, Pending, Answer, Alone
<1> QED
  BY <1>1, <1>2, <1>3 DEF UptimeInv

LEMMA UptimeStepKeeps ==
  ASSUME UptimeInv, NEW active \in SUBSET Target, NEW loops \in 0..MaxLoops,
         UptimeStep(active, loops)
  PROVE  UptimeInv'
<1>1. ASSUME NEW t \in active, NEW s, SiteChanges(UrlOf[t], s) PROVE UptimeInv'
  <2>1. UrlOf[t] \in Url
    BY DEF Url
  <2> QED
    BY <1>1, <2>1, SiteChangesKeeps
<1>2. CASE current < loops /\ Start
  <2>1. current < MaxLoops
    BY <1>2, ProactiveAssumption DEF UptimeInv, UptimeType
  <2> QED
    BY <1>2, <2>1, StartKeeps
<1>3. CASE \E l \in Loop : LoopStep(l)
  <2>1. PICK l \in Loop : LoopStep(l)
    BY <1>3
  <2> QED
    BY <2>1, GatherKeeps, StoreKeeps, AlertedKeeps, CheckSingleKeeps DEF LoopStep
<1>4. CASE (\E t \in active : AddTarget(t)) \/ SetAlertCallback
  <2>1. PICK t \in Target : AddTarget(t) \/ SetAlertCallback
    BY <1>4 DEF UptimeStep
  <2> QED
    BY <2>1, SetupKeeps
<1> QED
  BY <1>1, <1>2, <1>3, <1>4, StopKeeps DEF UptimeStep

\* The alerts of a URL that one target has are counted by AlertInv; while no
\* loop was started there are none.
LEMMA AlertsTrue == UptimeInv => AlertsAreTrue
<1> SUFFICES ASSUME UptimeInv, NEW u \in Url, current = 1,
                    Cardinality({t \in Target : UrlOf[t] = u}) = 1
             PROVE  alerts[u] <= flips[u]
  BY DEF AlertsAreTrue, UptimeInv
<1> DEFINE of == {t \in Target : UrlOf[t] = u}
<1>1. PICK t \in Target : of = {t}
  <2>1. IsFiniteSet(of)
    BY ProactiveAssumption, FS_Subset
  <2> HIDE DEF of
  <2>2. PICK t : of = {t}
    <3>1. Cardinality(of) = 1
      BY DEF of
    <3> QED
      BY <2>1, <3>1, FS_Singleton
  <2>3. t \in Target
    BY <2>2 DEF of
  <2> QED
    BY <2>2, <2>3
<1>2. Alone(t) /\ UrlOf[t] = u
  BY <1>1 DEF Alone
<1>3. alerts[u] + Differs(latest[u], Answer(t)) <= flips[u]
  BY <1>2 DEF UptimeInv, AlertInv
<1>4. alerts[u] \in Nat /\ flips[u] \in Nat /\ Differs(latest[u], Answer(t)) \in {0, 1}
  BY DiffersType DEF UptimeInv, UptimeType
<1> QED
  BY <1>3, <1>4

-------------------------------------------------------------------------------
(* Steps of the whole *)

LEMMA InitHolds == Init => IInv
<1> SUFFICES ASSUME Init PROVE IInv
  OBVIOUS
<1>1. scope \in Scopes /\ cast = <<>> /\ events = 0
  BY DEF Init, HubInit, ObserverInit
<1>2. EventsInv
  BY <1>1 DEF EventsInv, Begun
<1> QED
  BY <1>1, <1>2, HubStart, NotesStart, UptimeStart DEF IInv

LEMMA HubStepKeeps ==
  ASSUME HubInv, HubStep, scope.clients \subseteq Client
  PROVE  HubInv' /\ Begun' = Begun
<1>1. ASSUME NEW c \in scope.clients,
             \/ IssueToken(c) \/ TokenExpires(c) \/ Connect(c) \/ Accepted(c) \/ Leave(c)
             \/ Disconnected(c) \/ BinaryFrame(c) \/ PingFails(c)
      PROVE  HubInv' /\ Begun' = Begun
  <2>1. UNCHANGED cast
    BY <1>1 DEF IssueToken, TokenExpires, Connect, Accepted, Leave, Disconnected, BinaryFrame,
                PingFails
  <2> QED
    BY <1>1, <2>1, ClientKeeps DEF Begun
<1>2. ASSUME NEW e \in Begun, SendOne(e) PROVE HubInv' /\ Begun' = Begun
  <2>1. DOMAIN cast' = DOMAIN cast
    BY <1>2 DEF SendOne
  <2> QED
    BY <1>2, <2>1, SendOneKeeps DEF Begun
<1>3. ASSUME NEW e \in Begun, Swept(e) PROVE HubInv' /\ Begun' = Begun
  <2>1. DOMAIN cast' = DOMAIN cast
    BY <1>3 DEF Swept
  <2> QED
    BY <1>3, <2>1, SweptKeeps DEF Begun
<1> QED
  BY <1>1, <1>2, <1>3 DEF HubStep

\* A notification leaves the hub alone but for its broadcast, which no other
\* has made: events of files have numbers.
LEMMA NoteStepOnHub ==
  ASSUME HubInv, NoteStep, scope.notes \subseteq Note
  PROVE  HubInv' /\ \A e \in Begun' : e \in Begun \cup Note
<1>1. CASE UNCHANGED hubVars
  BY <1>1, HubUnchanged DEF hubVars
<1>2. ASSUME NEW n \in scope.notes, Announce(n)
      PROVE  HubInv' /\ \A e \in Begun' : e \in Begun \cup Note
  <2>1. n \in Note /\ n \in Event \ Begun
    BY <1>2, ProactiveAssumption DEF Announce
  <2>2. Broadcast(n, "worker") /\ UNCHANGED <<sock, hub, got>> /\ "worker" \in Process
    BY <1>2 DEF Announce, Process
  <2>3. HubInv' /\ Begun' = Begun \cup {n}
    BY <2>1, <2>2, BroadcastKeeps
  <2> QED
    BY <2>1, <2>3
<1>3. UNCHANGED hubVars \/ \E n \in scope.notes : Announce(n)
  BY DEF NoteStep, Heartbeat, Reflect, Analysed, Insert, Announced, ListSubscriptions, PushOne,
         DeleteStale, PushEnded, Created, Dismiss, Snooze, MarkRead, Mark, WorkerRestart,
         Subscribe, Unsubscribe, EndpointExpires
<1> QED
  BY <1>1, <1>2, <1>3

LEMMA ObserverKeepsEvents ==
  ASSUME ObserverStep
  PROVE  events' = events
BY DEF ObserverStep, Watch, StartObserver, FirstSnapshot, Poll, StopObserver, FileWritten,
       FileDeleted, FileMoved, Change

LEMMA FileChangeKeeps ==
  ASSUME HubInv, EventsInv, OnFileChange
  PROVE  HubInv' /\ EventsInv'
<1>1. /\ events \in Nat /\ events' = events + 1 /\ events + 1 \in Event
      /\ Broadcast(events + 1, "api") /\ UNCHANGED <<sock, hub, got>> /\ "api" \in Process
  BY DEF OnFileChange, EventsInv, Process
<1>2. events + 1 \notin Begun
  BY <1>1, ProactiveAssumption DEF EventsInv
<1>3. PICK e \in Event \ Begun : e = events + 1
  BY <1>1, <1>2
<1>4. Broadcast(e, "api")
  BY <1>1, <1>3
<1>5. HubInv' /\ Begun' = Begun \cup {e}
  BY <1>1, <1>4, BroadcastKeeps
<1>6. events' \in Nat /\ \A x \in Begun' : x \in Note \/ x \in 1..events'
  BY <1>1, <1>3, <1>5 DEF EventsInv
<1> QED
  BY <1>5, <1>6 DEF EventsInv

LEMMA NextKeeps == IInv /\ [Next]_vars => IInv'
<1> SUFFICES ASSUME IInv, [Next]_vars PROVE IInv'
  OBVIOUS
<1>1. /\ scope \in Scopes /\ HubInv /\ EventsInv /\ NotesInv /\ UptimeInv
      /\ scope.clients \subseteq Client /\ scope.notes \subseteq Note
      /\ scope.endpoints \subseteq Endpoint /\ scope.targets \in SUBSET Target
      /\ scope.loops \in 0..MaxLoops
  BY ProactiveAssumption DEF IInv
<1>2. UNCHANGED <<noteVars, pushOn, pushVars>> => NotesInv'
  BY <1>1, NotesUnchanged DEF noteVars, pushVars
<1>3. UNCHANGED hubVars => HubInv' /\ Begun' = Begun
  BY <1>1, HubUnchanged DEF hubVars
<1>4. events' = events /\ Begun' = Begun => EventsInv'
  BY <1>1 DEF EventsInv
<1>5. CASE HubStep /\ UNCHANGED <<scope, noteVars, pushOn, pushVars, fileVars, uptimeVars>>
  <2>1. HubInv' /\ Begun' = Begun /\ events' = events /\ scope' = scope
    BY <1>1, <1>5, HubStepKeeps DEF fileVars
  <2> QED
    BY <1>1, <1>2, <1>4, <1>5, <2>1, UptimeUnchanged DEF IInv
<1>6. CASE NoteStep /\ UNCHANGED <<scope, pushOn, fileVars, uptimeVars>>
  <2>1. HubInv' /\ (\A e \in Begun' : e \in Begun \cup Note) /\ events' = events
        /\ scope' = scope
    BY <1>1, <1>6, NoteStepOnHub DEF fileVars
  <2>2. EventsInv'
    BY <1>1, <2>1 DEF EventsInv
  <2>3. NotesInv'
    BY <1>1, <1>6, NoteStepKeeps DEF HubInv
  <2> QED
    BY <1>1, <1>6, <2>1, <2>2, <2>3, UptimeUnchanged DEF IInv
<1>7. CASE ObserverStep /\ UNCHANGED <<scope, hubVars, noteVars, pushOn, pushVars, uptimeVars>>
  BY <1>1, <1>2, <1>3, <1>4, <1>7, ObserverKeepsEvents, UptimeUnchanged DEF IInv
<1>8. CASE OnFileChange /\ UNCHANGED <<scope, noteVars, pushOn, pushVars, uptimeVars>>
  BY <1>1, <1>2, <1>8, FileChangeKeeps, UptimeUnchanged DEF IInv
<1>9. CASE UptimeStep(scope.targets, scope.loops)
             /\ UNCHANGED <<scope, hubVars, noteVars, pushOn, pushVars, fileVars>>
  <2>1. UptimeInv'
    BY <1>1, <1>9, UptimeStepKeeps
  <2>2. events' = events /\ scope' = scope
    BY <1>9 DEF fileVars
  <2> QED
    BY <1>1, <1>2, <1>3, <1>4, <1>9, <2>1, <2>2 DEF IInv
<1>10. CASE UNCHANGED vars
  <2>1. /\ UNCHANGED <<scope, hubVars, noteVars, pushOn, pushVars, uptimeVars>>
        /\ events' = events
    BY <1>10 DEF vars, fileVars
  <2> QED
    BY <1>1, <1>2, <1>3, <1>4, <2>1, UptimeUnchanged DEF IInv
<1> QED
  BY <1>5, <1>6, <1>7, <1>8, <1>9, <1>10 DEF Next

LEMMA Invariant == Spec => []IInv
BY InitHolds, NextKeeps, PTL DEF Spec

-------------------------------------------------------------------------------
(* Theorems *)

\* ConnectionManager.broadcast: a client that is served and there is in the
\* table, and a broadcast that is over reached every client of its snapshot
\* that is still there once, whoever comes, leaves or fails while it awaits.
THEOREM BroadcastsReach == Spec => []BroadcastReachesAll
BY Invariant, HubReaches, PTL DEF IInv

\* send_push_notification: a note whose creation read the table of endpoints
\* was pushed once to each that was subscribed all along and did not fail, one
\* that could not read it was pushed to none, and a subscription is lost only
\* with its endpoint or by a failure that was misread.
THEOREM UrgentNotesArePushed == Spec => []UrgentIsPushed
BY Invariant, NotesArePushed, PTL DEF IInv

\* UptimeMonitor._check_all: whoever listens believes what the latest result
\* says, and with one loop and one target for a URL no alert is false.
THEOREM AlertsStayTrue == Spec => []AlertsAreTrue
BY Invariant, AlertsTrue, PTL DEF IInv
===============================================================================
