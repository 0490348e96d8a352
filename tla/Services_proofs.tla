--------------------------- MODULE Services_proofs ----------------------------
(***************************************************************************)
(* Theorems about Services: a request that fails has nothing left to try,  *)
(* the connectivity cache is current, get_token tells the truth, and pools *)
(* get their connections back, for any conversations, requests, checks,    *)
(* intervals, accounts, flows, databases and calls.                        *)
(***************************************************************************)
EXTENDS Services, SequenceTheorems, FiniteSetTheorems, TLAPS

-------------------------------------------------------------------------------
(* The router *)

Outcome == {"answer", "refused", "absent", "missing", "typeerror"}

RequestType ==
  [pc : {"idle", "call", "done"}, chat : Seq(SUBSET Signal),
   plan : Side \cup {"none"}, force : Side \cup {"none"},
   tried : Seq([side : Side, got : Outcome]),
   told : Side \cup {"nothing", "cloud failed", "local failed"}]

\* What route decided: the forced side, or the cloud for a secret.
Decided(q) ==
  /\ q.plan \in Side
  /\ q.force # "none" => q.plan = q.force
  /\ q.force = "none" /\ Secret(q) => q.plan = "cloud"

\* A request that is called again failed once, on its plan, and fell back.
Falling(q) ==
  /\ q.force = "none"
  /\ Len(q.tried) = 1
  /\ q.tried[1].side = q.plan
  /\ q.tried[1].got # "answer"

\* What RequestsAreRouted says of one request that has ended.
Settled(q) ==
  LET first == q.tried[1]
      last == q.tried[Len(q.tried)]
  IN
  /\ q.force = "none" /\ Secret(q) => first.side = "cloud"
  /\ first.got = "answer" => Len(q.tried) = 1
  /\ (last.got = "answer") <=> (q.told = last.side)
  /\ Len(q.tried) = 1 \/ (Len(q.tried) = 2 /\ last.side # first.side)
  /\ q.force # "none" => Len(q.tried) = 1 /\ last.side = q.force
  /\ q.force = "none" /\ ~Secret(q)
       /\ (first.got = "absent" \/ first = [side |-> "cloud", got |-> "refused"])
         => Len(q.tried) = 2
  /\ last.side = "local" /\ last.got = "absent" /\ q.force = "none" => q.told = "cloud failed"

RequestOK(q) ==
  /\ q \in RequestType
  /\ q.pc = "idle" => q.tried = <<>>
  /\ q.pc = "call" => Decided(q) /\ (q.tried = <<>> \/ Falling(q))
  /\ q.pc = "done" => Settled(q)

RouterInv ==
  /\ DOMAIN request = Request
  /\ request = [r \in Request |-> request[r]]
  /\ \A r \in Request : RequestOK(request[r])

\* A secret is worth more than all that may be deducted.
LEMMA SensitiveGoesToCloud ==
  ASSUME NEW m, m \subseteq Signal, NEW n \in Nat, "sensitive" \in m
  PROVE  Classify(m, n) = "cloud"
<1>1. Points(m, "sensitive") = 100
  BY DEF Points, Weight
<1>2. \A s \in DOMAIN Weight : Points(m, s) \in Nat
  BY DEF Points, Weight
<1>3. "sensitive" \in DOMAIN Weight
  BY DEF Weight
<1> QED
  BY <1>1, <1>2, <1>3 DEF Classify, Score, Weight

LEMMA RouteDecides ==
  ASSUME RouterInv, NEW r \in Request, NEW chat \in Chats, NEW force \in Side \cup {"none"},
         Route(r, chat, force)
  PROVE  RouterInv'
<1> DEFINE q == request[r]
           plan == IF force # "none" THEN force ELSE Classify(chat[Len(chat)], Len(chat))
           new == [q EXCEPT !.pc = "call", !.chat = chat, !.force = force, !.plan = plan]
<1>1. request' = [request EXCEPT ![r] = new] /\ q.pc = "idle"
  BY DEF Route
<1>2. chat \in Seq(SUBSET Signal) /\ chat # <<>>
  BY RoutingAssumption
<1>3. Len(chat) \in Nat /\ chat[Len(chat)] \subseteq Signal
  BY <1>2
<1>4. plan \in Side
  BY DEF Classify, Side
<1>5. RequestOK(q) /\ q.tried = <<>>
  BY <1>1 DEF RouterInv, RequestOK
<1>6. new \in RequestType
  BY <1>2, <1>4, <1>5 DEF RequestOK, RequestType
<1>7. /\ new.pc = "call" /\ new.tried = <<>> /\ new.chat = chat
      /\ new.force = force /\ new.plan = plan
  BY <1>5 DEF RequestOK, RequestType
<1>8. Decided(new)
  BY <1>3, <1>4, <1>7, SensitiveGoesToCloud DEF Decided, Secret
<1>9. RequestOK(new)
  BY <1>6, <1>7, <1>8 DEF RequestOK
<1> QED
  BY <1>1, <1>9 DEF RouterInv

LEMMA FailedIsNoSide ==
  /\ Failed["cloud"] = "cloud failed" /\ Failed["local"] = "local failed"
  /\ \A side \in Side : Failed[side] \in {"cloud failed", "local failed"}
BY DEF Failed, Side

LEMMA OutcomesOf ==
  /\ Outcomes("cloud") \subseteq {"answer", "refused", "absent", "missing"}
  /\ Outcomes("local") \subseteq {"answer", "refused", "absent", "typeerror"}
BY DEF Outcomes, CloudOutcomes, LocalOutcomes

\* The first call ends: it is settled, or it falls back to the other side.
LEMMA FirstCall ==
  ASSUME NEW q \in RequestType, Decided(q), q.tried = <<>>,
         NEW outcome \in Outcomes(q.plan),
         NEW new \in RequestType,
         new.chat = q.chat, new.plan = q.plan, new.force = q.force,
         new.tried = <<[side |-> q.plan, got |-> outcome]>>,
         \/ outcome = "answer" /\ new.pc = "done" /\ new.told = q.plan
         \/ /\ outcome # "answer" /\ q.force = "none" /\ FallsBack(q.plan, outcome)
            /\ new.pc = "call"
         \/ /\ outcome # "answer" /\ ~(q.force = "none" /\ FallsBack(q.plan, outcome))
            /\ new.pc = "done" /\ new.told = Failed[q.plan]
  PROVE  RequestOK(new)
<1>1. /\ Len(new.tried) = 1 /\ new.tried[1].side = q.plan /\ new.tried[1].got = outcome
      /\ new.tried[Len(new.tried)] = new.tried[1] /\ 1..Len(new.tried) = {1}
  OBVIOUS
<1>2. q.plan \in Side /\ Failed[q.plan] \notin Side
  <2>1. q.plan \in Side
    BY DEF Decided
  <2> QED
    BY <2>1, FailedIsNoSide DEF Side
<1>3. CASE new.pc = "call"
  BY <1>1, <1>3 DEF RequestOK, Decided, Falling, Secret
<1>4. ASSUME new.pc = "done" PROVE Settled(new)
  <2>1. outcome = "answer" <=> new.told = q.plan
    BY <1>2, <1>4
  <2>2. new.force = "none" /\ Secret(new) => q.plan = "cloud"
    BY DEF Decided, Secret
  <2>3. new.force # "none" => q.plan = new.force
    BY DEF Decided
  <2>4. ~(new.force = "none" /\ (outcome = "absent" \/ (q.plan = "cloud" /\ outcome = "refused")))
    BY <1>4, OutcomesOf DEF FallsBack
  <2>5. ~(q.plan = "local" /\ outcome = "absent" /\ new.force = "none")
    BY <1>4 DEF FallsBack
  <2>6. new.tried[1] = [side |-> "cloud", got |-> "refused"]
          => q.plan = "cloud" /\ outcome = "refused"
    BY <1>1
  <2> DEFINE first == new.tried[1]
  <2>7. /\ Len(new.tried) = 1 /\ first.side = q.plan /\ first.got = outcome
        /\ new.tried[Len(new.tried)] = first
    BY <1>1
  <2>8. ~(new.force = "none" /\ (first.got = "absent"
            \/ first = [side |-> "cloud", got |-> "refused"]))
    BY <2>4, <2>6, <2>7
  <2> HIDE DEF first
  <2> QED
    BY <2>1, <2>2, <2>3, <2>5, <2>7, <2>8 DEF Settled, first
<1> QED
  BY <1>3, <1>4 DEF RequestOK

LEMMA AppendToOne ==
  ASSUME NEW S, NEW s \in Seq(S), Len(s) = 1, NEW e \in S
  PROVE  Len(Append(s, e)) = 2 /\ Append(s, e)[1] = s[1] /\ Append(s, e)[2] = e
<1>1. Len(Append(s, e)) = 2 /\ 1 \in 1..Len(s)
  <2>1. Len(Append(s, e)) = Len(s) + 1
    BY AppendProperties
  <2> QED
    BY <2>1
<1>2. Append(s, e)[1] = s[1]
  BY <1>1, AppendProperties
<1>3. Append(s, e)[Len(s) + 1] = e /\ Len(s) + 1 = 2
  BY AppendProperties
<1> QED
  BY <1>1, <1>2, <1>3

LEMMA BothSides ==
  ASSUME NEW plan \in Side
  PROVE  Other(plan) \in Side /\ {plan, Other(plan)} = Side
<1>1. CASE plan = "cloud"
  BY <1>1 DEF Other, Side
<1>2. CASE plan = "local"
  BY <1>2 DEF Other, Side
<1> QED
  BY <1>1, <1>2 DEF Side

\* The second call, of the other side, settles the request.
LEMMA SecondCall ==
  ASSUME NEW q, Decided(q), q.force = "none",
         NEW side, side = Other(q.plan), NEW outcome,
         NEW new \in RequestType,
         new.chat = q.chat, new.plan = q.plan, new.force = q.force,
         Len(new.tried) = 2,
         new.tried[1].side = q.plan, new.tried[1].got # "answer",
         new.tried[2].side = side, new.tried[2].got = outcome,
         new.pc = "done",
         new.told = IF outcome = "answer" THEN side
                    ELSE IF side = "local" /\ outcome = "absent" THEN "cloud failed"
                    ELSE Failed[side]
  PROVE  RequestOK(new)
<1>1. side \in Side /\ {q.plan, side} = Side
  BY BothSides DEF Decided
<1>2. (outcome = "answer") <=> (new.told = side)
  BY <1>1, FailedIsNoSide DEF Side
<1>3. new.force = "none" /\ Secret(new) => new.tried[1].side = "cloud"
  BY DEF Decided, Secret
<1>4. new.tried[2].side # new.tried[1].side
  BY <1>1 DEF Other, Side
<1>5. side = "local" /\ outcome = "absent" => new.told = "cloud failed"
  OBVIOUS
<1>6. Settled(new)
  BY <1>2, <1>3, <1>4, <1>5 DEF Settled
<1> QED
  BY <1>6 DEF RequestOK

\* A call ends, and its request is in order again.
LEMMA CallEnds ==
  ASSUME RouterInv, NEW r \in Request, Call(r)
  PROVE  RouterInv'
<1> DEFINE q == request[r]
           side == Turn(r)
<1>1. /\ q \in RequestType /\ Decided(q) /\ q.pc = "call"
      /\ q.tried = <<>> \/ Falling(q)
  BY DEF RouterInv, RequestOK, Call
<1>2. PICK outcome \in Outcomes(side) :
        LET tried == Append(q.tried, [side |-> side, got |-> outcome])
            first == Len(tried) = 1
        IN
        request' = [request EXCEPT ![r] =
          CASE outcome = "answer" -> [@ EXCEPT !.pc = "done", !.tried = tried, !.told = side]
            [] outcome # "answer" /\ first /\ @.force = "none" /\ FallsBack(side, outcome)
                 -> [@ EXCEPT !.tried = tried]
            [] OTHER -> [@ EXCEPT !.pc = "done", !.tried = tried,
                  !.told = IF ~first /\ side = "local" /\ outcome = "absent"
                             THEN "cloud failed" ELSE Failed[side]]]
  BY DEF Call
<1> DEFINE tried == Append(q.tried, [side |-> side, got |-> outcome])
           falls == Len(tried) = 1 /\ q.force = "none" /\ FallsBack(side, outcome)
           told == IF Len(tried) # 1 /\ side = "local" /\ outcome = "absent"
                     THEN "cloud failed" ELSE Failed[side]
           new == IF outcome = "answer" THEN [q EXCEPT !.pc = "done", !.tried = tried, !.told = side]
                  ELSE IF falls THEN [q EXCEPT !.tried = tried]
                  ELSE [q EXCEPT !.pc = "done", !.tried = tried, !.told = told]
<1>3. request' = [request EXCEPT ![r] = new]
  BY <1>2
<1>4. side \in Side /\ outcome \in Outcome
  <2>1. side \in Side
    BY <1>1, BothSides DEF Turn, Decided
  <2> QED
    BY <2>1, OutcomesOf DEF Side, Outcome
<1>5. [side |-> side, got |-> outcome] \in [side : Side, got : Outcome]
  BY <1>4
<1>6. q.tried \in Seq([side : Side, got : Outcome])
  BY <1>1 DEF RequestType
<1>7. tried \in Seq([side : Side, got : Outcome])
  BY <1>5, <1>6, AppendProperties
<1>8. told \in {"cloud failed", "local failed"}
  BY <1>4, FailedIsNoSide
<1>9. new \in RequestType
  <2> HIDE DEF tried, falls, told, side
  <2> QED
    BY <1>1, <1>4, <1>7, <1>8 DEF RequestType, Side
<1>10. /\ new.chat = q.chat /\ new.plan = q.plan /\ new.force = q.force /\ new.tried = tried
       /\ outcome = "answer" => new.pc = "done" /\ new.told = side
       /\ outcome # "answer" /\ falls => new.pc = "call"
       /\ outcome # "answer" /\ ~falls => new.pc = "done" /\ new.told = told
  <2> HIDE DEF tried, falls, told, side
  <2> QED
    BY <1>1 DEF RequestType
<1>11. ASSUME q.tried = <<>> PROVE RequestOK(new)
  <2>1. side = q.plan
    BY <1>11 DEF Turn
  <2>2. tried = <<[side |-> q.plan, got |-> outcome]>> /\ Len(tried) = 1
    <3> HIDE DEF side
    <3> QED
      BY <1>11, <2>1
  <2>3. told = Failed[q.plan]
    BY <2>1, <2>2
  <2>4. outcome \in Outcomes(q.plan)
    BY <1>2, <2>1
  <2>5. falls <=> q.force = "none" /\ FallsBack(q.plan, outcome)
    BY <2>1, <2>2
  <2> HIDE DEF tried, falls, told, side, new, q
  <2>6. /\ new.chat = q.chat /\ new.plan = q.plan /\ new.force = q.force
        /\ new.tried = <<[side |-> q.plan, got |-> outcome]>>
    BY <1>10, <2>2
  <2>7. \/ outcome = "answer" /\ new.pc = "done" /\ new.told = q.plan
        \/ /\ outcome # "answer" /\ q.force = "none" /\ FallsBack(q.plan, outcome)
           /\ new.pc = "call"
        \/ /\ outcome # "answer" /\ ~(q.force = "none" /\ FallsBack(q.plan, outcome))
           /\ new.pc = "done" /\ new.told = Failed[q.plan]
    BY <1>10, <2>1, <2>3, <2>5, Zenon
  <2> QED
    BY <1>1, <1>9, <1>11, <2>4, <2>6, <2>7, FirstCall, Zenon
<1>12. ASSUME Falling(q) PROVE RequestOK(new)
  <2>1. q.tried # <<>> /\ Len(q.tried) = 1 /\ q.tried[1].side = q.plan /\ q.tried[1].got # "answer"
    BY <1>12 DEF Falling
  <2>2. side = Other(q.plan)
    BY <2>1 DEF Turn
  <2>3. /\ Len(tried) = 2 /\ tried[1] = q.tried[1]
        /\ tried[2] = [side |-> side, got |-> outcome]
    <3> HIDE DEF side, q
    <3> QED
      BY <1>5, <1>6, <2>1, AppendToOne
  <2>4. q.force = "none" /\ ~falls
    BY <1>12, <2>3 DEF Falling
  <2>5. told = IF side = "local" /\ outcome = "absent" THEN "cloud failed" ELSE Failed[side]
    <3> HIDE DEF tried, side
    <3> QED
      BY <2>3
  <2> HIDE DEF tried, falls, told, side, new, q
  <2>6. /\ new.tried[1].side = q.plan /\ new.tried[1].got # "answer"
        /\ new.tried[2].side = side /\ new.tried[2].got = outcome
        /\ Len(new.tried) = 2 /\ new.pc = "done"
    BY <1>10, <2>1, <2>3, <2>4
  <2>7. new.told = IF outcome = "answer" THEN side
                   ELSE IF side = "local" /\ outcome = "absent" THEN "cloud failed"
                   ELSE Failed[side]
    BY <1>10, <2>4, <2>5
  <2> QED
    BY <1>1, <1>9, <1>10, <2>2, <2>4, <2>6, <2>7, SecondCall, Zenon
<1> HIDE DEF tried, falls, told, side, new, q
<1>13. RequestOK(new)
  BY <1>1, <1>11, <1>12
<1> USE DEF q
<1> QED
  BY <1>3, <1>13 DEF RouterInv

\* Whatever part of the services moves, the requests stay in order.
LEMMA NextRouter ==
  ASSUME RouterInv, [Next]_vars
  PROVE  RouterInv'
<1>1. CASE part = "router" /\ RouterStep
  BY <1>1, RouteDecides, CallEnds DEF RouterStep
<1>2. CASE UNCHANGED request
  BY <1>2 DEF RouterInv
<1>3. CASE DetectorStep
  BY <1>2, <1>3 DEF DetectorStep, Tick, ReadCached, StartCheck, ProbeCloud, ProbeLocal,
                    StoreStatus, GiveUp
<1>4. CASE UNCHANGED routeVars
  BY <1>2, <1>4 DEF routeVars
<1> QED
  BY <1>1, <1>3, <1>4 DEF Next, vars

\* LLMRouter.route: a conversation that ends with a secret goes to the cloud
\* first, a request without one falls back from a side that is not there and
\* from a cloud that refuses, and the answer and the error told are the right
\* side's: for any conversations and any number of requests.
THEOREM RequestsReachAModel == Spec => []RequestsAreRouted
<1>1. Init => RouterInv
  BY DEF Init, RoutingInit, NoRequest, RouterInv, RequestOK, RequestType, Side
<1>2. RouterInv => RequestsAreRouted
  BY DEF RouterInv, RequestOK, Settled, RequestsAreRouted
<1> QED
  BY <1>1, <1>2, NextRouter, PTL DEF Spec

-------------------------------------------------------------------------------
(* The connectivity cache *)

CheckType ==
  [pc : {"idle", "cloud", "local", "store", "asleep"},
   by : {"none", "get_status", "wait_for_online"},
   overlap : BOOLEAN, seen : Int, online : BOOLEAN]

DetectorType ==
  /\ clock \in Nat /\ lastCheck \in Int
  /\ cached \in [seen : Int, stored : Int, online : BOOLEAN, overlap : BOOLEAN]
  /\ shown \in [seen : Int, overlap : BOOLEAN, late : BOOLEAN, back : BOOLEAN]
  /\ check \in [Check -> CheckType]

\* The cached status is as new as what was shown, unless its check overlapped.
CacheIsNewer ==
  /\ shown.seen <= clock /\ cached.seen <= clock
  /\ cached # NoStatus => cached.stored = lastCheck
  /\ cached.overlap \/ shown.seen <= cached.seen

\* So is what a check has seen, and it is newer than the cache.
CheckIsNewer(c) ==
  check[c].pc \in {"local", "store"} =>
    /\ check[c].seen <= clock
    /\ check[c].overlap \/ (shown.seen <= check[c].seen /\ cached.seen <= check[c].seen)

OverlapIsMarked ==
  \A c, d \in Check : c # d /\ Running(c) /\ Running(d) => check[c].overlap

DetectorInv ==
  /\ DetectorType /\ StatusIsCurrent /\ CacheIsNewer
  /\ \A c \in Check : CheckIsNewer(c)
  /\ OverlapIsMarked

LEMMA TickKeeps ==
  ASSUME DetectorInv, Tick
  PROVE  DetectorInv'
<1>1. clock' = clock + 1 /\ UNCHANGED <<request, cached, lastCheck, check, shown>>
  BY DEF Tick
<1>2. DetectorType' /\ StatusIsCurrent'
  BY <1>1 DEF DetectorInv, DetectorType, StatusIsCurrent
<1>3. CacheIsNewer'
  BY <1>1 DEF DetectorInv, DetectorType, CacheIsNewer
<1>4. \A c \in Check : CheckIsNewer(c)'
  BY <1>1 DEF DetectorInv, DetectorType, CheckType, CheckIsNewer
<1>5. OverlapIsMarked'
  BY <1>1 DEF DetectorInv, OverlapIsMarked, Running
<1> QED
  BY <1>2, <1>3, <1>4, <1>5 DEF DetectorInv

\* What is shown, of a status stored just now or in the last interval, keeps
\* both promises when it is as new as what was shown, or its check overlapped.
LEMMA ShowKeeps ==
  ASSUME DetectorType, NEW status,
         status \in [seen : Int, stored : Int, online : BOOLEAN, overlap : BOOLEAN],
         NEW stored \in Int, clock - stored < Interval,
         status.overlap \/ shown.seen <= status.seen,
         Show(status, stored)
  PROVE  /\ StatusIsCurrent'
         /\ shown' \in [seen : Int, overlap : BOOLEAN, late : BOOLEAN, back : BOOLEAN]
         /\ shown'.seen = status.seen
<1>1. /\ shown'.seen = status.seen /\ shown'.overlap = status.overlap
      /\ shown'.late = (clock - stored >= Interval)
      /\ shown'.back = (status.seen < shown.seen)
      /\ shown' \in [seen : Int, overlap : BOOLEAN, late : BOOLEAN, back : BOOLEAN]
  BY DEF Show
<1>2. ~(clock - stored >= Interval)
  BY RoutingAssumption DEF DetectorType
<1>3. (status.seen < shown.seen) => status.overlap
  BY DEF DetectorType
<1> QED
  BY <1>1, <1>2, <1>3 DEF StatusIsCurrent

LEMMA ReadCachedKeeps ==
  ASSUME DetectorInv, ReadCached
  PROVE  DetectorInv'
<1>1. /\ ~Stale /\ Show(cached, cached.stored)
      /\ UNCHANGED <<request, cached, lastCheck, check, clock>>
  BY DEF ReadCached
<1>2. clock - cached.stored < Interval
  BY <1>1, RoutingAssumption DEF Stale, DetectorInv, DetectorType, CacheIsNewer
<1>3. /\ StatusIsCurrent'
      /\ shown' \in [seen : Int, overlap : BOOLEAN, late : BOOLEAN, back : BOOLEAN]
      /\ shown'.seen = cached.seen
  BY <1>1, <1>2, ShowKeeps DEF DetectorInv, DetectorType, CacheIsNewer
<1>4. DetectorType'
  BY <1>1, <1>3 DEF DetectorInv, DetectorType
<1>5. CacheIsNewer'
  BY <1>1, <1>3 DEF DetectorInv, DetectorType, CacheIsNewer
<1>6. \A c \in Check : CheckIsNewer(c)'
  BY <1>1, <1>3 DEF DetectorInv, CheckIsNewer
<1>7. OverlapIsMarked'
  BY <1>1 DEF DetectorInv, OverlapIsMarked, Running
<1> QED
  BY <1>3, <1>4, <1>5, <1>6, <1>7 DEF DetectorInv

\* A step that leaves the cache and what was shown alone, and lets no check
\* see more than the clock, keeps the invariant.
LEMMA ChecksKeep ==
  ASSUME DetectorInv, UNCHANGED <<cached, lastCheck, clock, shown>>,
         DetectorType', \A c \in Check : CheckIsNewer(c)', OverlapIsMarked'
  PROVE  DetectorInv'
BY DEF DetectorInv, CacheIsNewer, StatusIsCurrent

LEMMA StartCheckKeeps ==
  ASSUME DetectorInv, NEW c \in Check, NEW by \in {"get_status", "wait_for_online"},
         StartCheck(c, by)
  PROVE  DetectorInv'
<1>1. UNCHANGED <<cached, lastCheck, clock, shown>>
  BY DEF StartCheck
<1> DEFINE others == \E e \in Check : Running(e)
           new(d) == IF d = c THEN [NoCheck EXCEPT !.pc = "cloud", !.by = by, !.overlap = others]
                     ELSE IF Running(d) THEN [check[d] EXCEPT !.overlap = TRUE] ELSE check[d]
<1>2. check' = [d \in Check |-> new(d)]
  BY DEF StartCheck
<1>3. ~Running(c)
  BY DEF StartCheck, Running
<1>4. /\ new(c).pc = "cloud" /\ new(c).overlap = others
      /\ new(c) \in CheckType
  <2>1. others \in BOOLEAN
    OBVIOUS
  <2>2. new(c) = [pc |-> "cloud", by |-> by, overlap |-> others, seen |-> -1, online |-> FALSE]
    <3> HIDE DEF others
    <3> QED
      BY DEF NoCheck
  <2> HIDE DEF others, new
  <2> QED
    BY <2>1, <2>2 DEF CheckType
<1>5. ASSUME NEW d \in Check, d # c
      PROVE  /\ new(d).pc = check[d].pc /\ new(d).seen = check[d].seen
             /\ Running(d) => new(d).overlap
             /\ check[d].overlap => new(d).overlap
             /\ new(d) \in CheckType
  BY <1>5 DEF DetectorInv, DetectorType, CheckType
<1> HIDE DEF new
<1>6. DetectorType'
  BY <1>1, <1>2, <1>4, <1>5 DEF DetectorInv, DetectorType
<1>7. ASSUME NEW d \in Check PROVE CheckIsNewer(d)'
  <2>1. CASE d = c
    BY <1>2, <1>4, <2>1 DEF CheckIsNewer
  <2>2. CASE d # c
    BY <1>1, <1>2, <1>5, <2>2 DEF DetectorInv, CheckIsNewer
  <2> QED
    BY <2>1, <2>2
<1>8. OverlapIsMarked'
  <2> SUFFICES ASSUME NEW d \in Check, NEW e \in Check, d # e, Running(d)', Running(e)'
               PROVE  check'[d].overlap
    BY DEF OverlapIsMarked
  <2>1. CASE d = c
    <3>1. Running(e)
      BY <1>2, <1>5, <2>1 DEF Running
    <3> QED
      BY <1>2, <1>4, <2>1, <3>1
  <2>2. CASE d # c
    <3>1. Running(d)
      BY <1>2, <1>5, <2>2 DEF Running
    <3> QED
      BY <1>2, <1>5, <2>2, <3>1
  <2> QED
    BY <2>1, <2>2
<1> QED
  BY <1>1, <1>6, <1>7, <1>8, ChecksKeep

\* The cloud has answered, or not: what is seen is of now.
LEMMA ProbeCloudKeeps ==
  ASSUME DetectorInv, NEW c \in Check, ProbeCloud(c)
  PROVE  DetectorInv'
<1>1. PICK answers \in BOOLEAN :
        /\ check[c].pc = "cloud"
        /\ check' = [check EXCEPT ![c].pc = "local", ![c].seen = clock, ![c].online = answers]
        /\ UNCHANGED <<cached, lastCheck, clock, shown>>
  BY DEF ProbeCloud
<1>2. /\ check'[c].pc = "local" /\ check'[c].seen = clock
      /\ check'[c].overlap = check[c].overlap
      /\ \A d \in Check \ {c} : check'[d] = check[d]
  BY <1>1 DEF DetectorInv, DetectorType, CheckType
<1>3. DetectorType'
  <2>1. check[c] \in CheckType /\ clock \in Int
    BY DEF DetectorInv, DetectorType
  <2>2. [check[c] EXCEPT !.pc = "local", !.seen = clock, !.online = answers] \in CheckType
    BY <2>1 DEF CheckType
  <2> QED
    BY <1>1, <2>2 DEF DetectorInv, DetectorType
<1>4. ASSUME NEW d \in Check PROVE CheckIsNewer(d)'
  <2>1. CASE d = c
    BY <1>1, <1>2, <2>1 DEF DetectorInv, DetectorType, CacheIsNewer, CheckIsNewer
  <2>2. CASE d # c
    BY <1>1, <1>2, <2>2 DEF DetectorInv, CheckIsNewer
  <2> QED
    BY <2>1, <2>2
<1>5. OverlapIsMarked'
  <2>1. \A d \in Check : (Running(d)' => Running(d)) /\ check'[d].overlap = check[d].overlap
    BY <1>1, <1>2 DEF Running
  <2> QED
    BY <2>1 DEF DetectorInv, OverlapIsMarked
<1> QED
  BY <1>1, <1>3, <1>4, <1>5, ChecksKeep

LEMMA ProbeLocalKeeps ==
  ASSUME DetectorInv, NEW c \in Check, ProbeLocal(c)
  PROVE  DetectorInv'
<1>1. PICK answers \in BOOLEAN :
        /\ check[c].pc = "local"
        /\ check' = [check EXCEPT ![c].pc = "store", ![c].online = check[c].online \/ answers]
        /\ UNCHANGED <<cached, lastCheck, clock, shown>>
  BY DEF ProbeLocal
<1>2. /\ check'[c].pc = "store" /\ check'[c].seen = check[c].seen
      /\ check'[c].overlap = check[c].overlap
      /\ \A d \in Check \ {c} : check'[d] = check[d]
  BY <1>1 DEF DetectorInv, DetectorType, CheckType
<1>3. DetectorType'
  <2>1. PICK k \in CheckType : k = check[c]
    BY DEF DetectorInv, DetectorType
  <2>2. (k.online \/ answers) \in BOOLEAN
    OBVIOUS
  <2> DEFINE r == [k EXCEPT !.pc = "store", !.online = k.online \/ answers]
  <2>3. r \in CheckType
    BY <2>2 DEF CheckType
  <2>4. check' = [check EXCEPT ![c] = r]
    BY <1>1, <2>1
  <2> HIDE DEF r
  <2>5. UNCHANGED <<cached, lastCheck, clock, shown>>
    BY <1>1
  <2>6. check' \in [Check -> CheckType]
    BY <2>3, <2>4 DEF DetectorInv, DetectorType
  <2> QED
    BY <2>5, <2>6 DEF DetectorInv, DetectorType
<1>4. ASSUME NEW d \in Check PROVE CheckIsNewer(d)'
  <2>1. CASE d = c
    BY <1>1, <1>2, <2>1 DEF DetectorInv, CheckIsNewer
  <2>2. CASE d # c
    BY <1>1, <1>2, <2>2 DEF DetectorInv, CheckIsNewer
  <2> QED
    BY <2>1, <2>2
<1>5. OverlapIsMarked'
  <2>1. \A d \in Check : (Running(d)' => Running(d)) /\ check'[d].overlap = check[d].overlap
    BY <1>1, <1>2 DEF Running
  <2> QED
    BY <2>1 DEF DetectorInv, OverlapIsMarked
<1> QED
  BY <1>1, <1>3, <1>4, <1>5, ChecksKeep

LEMMA GiveUpKeeps ==
  ASSUME DetectorInv, NEW c \in Check, GiveUp(c)
  PROVE  DetectorInv'
<1>1. /\ check' = [check EXCEPT ![c] = NoCheck]
      /\ UNCHANGED <<cached, lastCheck, clock, shown>>
  BY DEF GiveUp
<1>2. check'[c].pc = "idle" /\ \A d \in Check \ {c} : check'[d] = check[d]
  BY <1>1 DEF DetectorInv, DetectorType, CheckType, NoCheck
<1>3. DetectorType'
  BY <1>1 DEF DetectorInv, DetectorType, CheckType, NoCheck
<1>4. ASSUME NEW d \in Check PROVE CheckIsNewer(d)'
  BY <1>1, <1>2 DEF DetectorInv, CheckIsNewer
<1>5. OverlapIsMarked'
  <2>1. \A d \in Check : Running(d)' => d # c /\ Running(d)
    BY <1>2 DEF Running
  <2> QED
    BY <1>2, <2>1 DEF DetectorInv, OverlapIsMarked
<1> QED
  BY <1>1, <1>3, <1>4, <1>5, ChecksKeep

\* The status is stored: it is as new as what was shown and cached, or marked,
\* and every other check that runs is marked too.
LEMMA StoreStatusKeeps ==
  ASSUME DetectorInv, NEW c \in Check, StoreStatus(c)
  PROVE  DetectorInv'
<1> DEFINE k == check[c]
           status == [seen |-> k.seen, stored |-> clock, online |-> k.online, overlap |-> k.overlap]
           new == IF k.by = "wait_for_online" /\ ~status.online
                    THEN [NoCheck EXCEPT !.pc = "asleep"] ELSE NoCheck
<1>1. /\ k.pc = "store" /\ cached' = status /\ lastCheck' = clock
      /\ check' = [check EXCEPT ![c] = new]
      /\ IF k.by = "get_status" THEN Show(status, clock) ELSE UNCHANGED shown
      /\ clock' = clock
  BY DEF StoreStatus
<1>2. /\ k \in CheckType /\ clock \in Nat
      /\ k.seen <= clock /\ (k.overlap \/ shown.seen <= k.seen)
  BY <1>1 DEF DetectorInv, DetectorType, CheckIsNewer
<1>3. /\ status \in [seen : Int, stored : Int, online : BOOLEAN, overlap : BOOLEAN]
      /\ status.seen = k.seen /\ status.stored = clock /\ status.overlap = k.overlap
  BY <1>2 DEF CheckType
<1>4. new \in CheckType /\ new.pc \in {"idle", "asleep"}
  <2>1. NoCheck \in CheckType /\ NoCheck.pc = "idle"
    BY DEF NoCheck, CheckType
  <2>2. [NoCheck EXCEPT !.pc = "asleep"] \in CheckType /\ [NoCheck EXCEPT !.pc = "asleep"].pc = "asleep"
    BY <2>1 DEF CheckType
  <2> QED
    BY <2>1, <2>2, Zenon
<1> HIDE DEF k, status, new
<1>5. clock - clock < Interval
  BY <1>2, RoutingAssumption
<1>6. /\ StatusIsCurrent'
      /\ shown' \in [seen : Int, overlap : BOOLEAN, late : BOOLEAN, back : BOOLEAN]
      /\ shown'.seen = k.seen \/ shown' = shown
  <2>1. CASE k.by = "get_status"
    <3>1. Show(status, clock) /\ (status.overlap \/ shown.seen <= status.seen)
      BY <1>1, <1>2, <1>3, <2>1
    <3> QED
      BY <1>2, <1>3, <1>5, <3>1, ShowKeeps DEF DetectorInv
  <2>2. CASE k.by # "get_status"
    BY <1>1, <2>2 DEF DetectorInv, DetectorType, StatusIsCurrent
  <2> QED
    BY <2>1, <2>2
<1>7. check'[c] = new /\ \A d \in Check \ {c} : check'[d] = check[d]
  BY <1>1 DEF DetectorInv, DetectorType
<1>8. DetectorType'
  BY <1>1, <1>2, <1>3, <1>4, <1>6 DEF DetectorInv, DetectorType
<1>9. CacheIsNewer'
  <2>1. shown'.seen <= clock
    BY <1>2, <1>6 DEF DetectorInv, CacheIsNewer
  <2>2. k.overlap \/ shown'.seen <= k.seen
    <3>1. k.seen <= k.seen
      BY <1>2 DEF CheckType
    <3> QED
      BY <1>2, <1>6, <3>1
  <2> QED
    BY <1>1, <1>2, <1>3, <2>1, <2>2 DEF CacheIsNewer
<1>10. ASSUME NEW d \in Check PROVE CheckIsNewer(d)'
  <2>1. CASE d = c
    BY <1>4, <1>7, <2>1 DEF CheckIsNewer
  <2>2. ASSUME d # c, check[d].pc \in {"local", "store"} PROVE CheckIsNewer(d)'
    <3>1. check[d].overlap
      BY <1>1, <2>2 DEF DetectorInv, OverlapIsMarked, Running, k
    <3>2. check[d].seen <= clock
      BY <2>2 DEF DetectorInv, CheckIsNewer
    <3> QED
      BY <1>1, <1>7, <2>2, <3>1, <3>2 DEF CheckIsNewer
  <2>3. CASE d # c /\ check[d].pc \notin {"local", "store"}
    BY <1>7, <2>3 DEF CheckIsNewer
  <2> QED
    BY <2>1, <2>2, <2>3
<1>11. OverlapIsMarked'
  <2>1. \A d \in Check : Running(d)' => d # c /\ Running(d)
    BY <1>4, <1>7 DEF Running
  <2> QED
    BY <1>7, <2>1 DEF DetectorInv, OverlapIsMarked
<1> QED
  BY <1>6, <1>8, <1>9, <1>10, <1>11 DEF DetectorInv

LEMMA NextDetector ==
  ASSUME DetectorInv, [Next]_vars
  PROVE  DetectorInv'
<1>1. CASE DetectorStep
  BY <1>1, TickKeeps, ReadCachedKeeps, StartCheckKeeps, ProbeCloudKeeps, ProbeLocalKeeps,
     StoreStatusKeeps, GiveUpKeeps DEF DetectorStep
<1>2. CASE UNCHANGED <<cached, lastCheck, check, clock, shown>>
  BY <1>2 DEF DetectorInv, DetectorType, StatusIsCurrent, CacheIsNewer, CheckIsNewer,
              OverlapIsMarked, Running
<1>3. CASE RouterStep
  BY <1>2, <1>3 DEF RouterStep, Route, Call
<1>4. CASE UNCHANGED routeVars
  BY <1>2, <1>4 DEF routeVars
<1> QED
  BY <1>1, <1>3, <1>4 DEF Next, vars

\* get_status never returns a status as old as the interval, nor one older
\* than it returned before unless its check overlapped another: for any
\* interval and any number of checks under way.
THEOREM StatusStaysCurrent == Spec => []StatusIsCurrent
<1>1. Init => DetectorInv
  BY DEF Init, RoutingInit, NoStatus, NoCheck, DetectorInv, DetectorType, CheckType,
         StatusIsCurrent, CacheIsNewer, CheckIsNewer, OverlapIsMarked, Running
<1>2. DetectorInv => StatusIsCurrent
  BY DEF DetectorInv
<1> QED
  BY <1>1, <1>2, NextDetector, PTL DEF Spec

-------------------------------------------------------------------------------
(* The tokens *)

TokenIds == DOMAIN issued \cup {NoToken}

TokenType == [account : Account, renews : BOOLEAN, lasting : BOOLEAN]

FlowType ==
  [kind : {"exchange", "refresh"}, p : Provider, account : Account,
   refresh : TokenIds, late : BOOLEAN]

Faults == {"write", "delete", "late", "old refresh", "restart"}

TokensType ==
  /\ \E n \in Nat : issued \in [1..n -> TokenType]
  /\ lapsed \subseteq DOMAIN issued
  /\ ring \in [Provider -> [Entry -> TokenIds]]
  /\ copy \in [Provider -> TokenIds]
  /\ flow \in [Flow -> FlowType \cup {NoFlow}]
  /\ spoilt \in [Provider -> SUBSET Faults]
  /\ DOMAIN owner = Provider /\ owner = [p \in Provider |-> owner[p]]

Broken(p) == spoilt[p] \cap {"write", "delete"} # {}

\* The token that get_token looks at first.
First(p) == IF keyed THEN ring[p].access ELSE copy[p]

\* The entries of the keychain belong together, and the memory copy stands in
\* for them, unless a call failed.
EntriesInv(p) ==
  /\ keyed /\ ring[p].access # ring[p].meta => Broken(p)
  /\ keyed /\ ring[p].access = NoToken /\ copy[p] # NoToken => Broken(p)
  /\ ~keyed => ring[p] = Empty

\* With nothing spoilt every token in reach is the owner's, the refresh tokens
\* and those that are under way included.
OwnerInv(p) ==
  spoilt[p] = {} =>
    /\ First(p) = NoToken => owner[p] = NoOne
    /\ First(p) # NoToken => issued[First(p)].account = owner[p]
    /\ ring[p].refresh # NoToken => issued[ring[p].refresh].account = owner[p]
    /\ \A f \in Flow :
         flow[f].kind = "refresh" /\ flow[f].p = p /\ ~flow[f].late => flow[f].account = owner[p]

TokensInv ==
  TokensType /\ \A p \in Provider : EntriesInv(p) /\ OwnerInv(p)

LEMMA TokensStart == Init => TokensInv
<1> SUFFICES ASSUME Init PROVE TokensInv
  OBVIOUS
<1>1. issued \in [1..0 -> TokenType] /\ DOMAIN issued = {}
  BY DEF Init, TokensInit
<1>2. TokensType
  BY <1>1 DEF Init, TokensInit, TokensType, TokenIds, Empty
<1>3. \A p \in Provider : EntriesInv(p) /\ OwnerInv(p)
  BY DEF Init, TokensInit, EntriesInv, OwnerInv, First, Empty, Entry, NoFlow, NoToken, Broken
<1> QED
  BY <1>2, <1>3 DEF TokensInv

\* A step that leaves the entries of q alone.  It may forget the memory copy
\* of a keychain, and let flows go or start with the owner's token.
LEMMA ProviderKept ==
  ASSUME NEW q \in Provider, TokensType, EntriesInv(q), OwnerInv(q),
         UNCHANGED keyed,
         ring'[q] = ring[q], spoilt'[q] = spoilt[q], owner'[q] = owner[q],
         copy'[q] = copy[q] \/ (keyed /\ copy'[q] = NoToken),
         \A x \in DOMAIN issued : issued'[x] = issued[x],
         \A f \in Flow :
           flow'[f].kind = "refresh" /\ flow'[f].p = q /\ ~flow'[f].late =>
             spoilt[q] # {} \/ flow'[f].account = owner[q]
  PROVE  EntriesInv(q)' /\ OwnerInv(q)'
<1>1. /\ ring[q].access \in TokenIds /\ ring[q].refresh \in TokenIds
      /\ copy[q] \in TokenIds
  BY DEF TokensType, Entry
<1>2. EntriesInv(q)'
  BY DEF EntriesInv, Broken
<1>3. First(q)' = First(q) /\ First(q) \in TokenIds
  BY <1>1 DEF First
<1>4. OwnerInv(q)'
  BY <1>1, <1>3 DEF OwnerInv, TokenIds
<1> QED
  BY <1>2, <1>4

\* The number of the next token is a new one.
LEMMA NextToken ==
  ASSUME TokensType, NEW t, t = Cardinality(DOMAIN issued) + 1
  PROVE  /\ t \in Nat \ {0} /\ t \notin TokenIds
         /\ DOMAIN issued \cup {t} = 1..t
<1>1. PICK n \in Nat : issued \in [1..n -> TokenType]
  BY DEF TokensType
<1>2. DOMAIN issued = 1..n /\ t = n + 1
  <2>1. DOMAIN issued = 1..n
    BY <1>1
  <2>2. Cardinality(1..n) = n
    BY FS_Interval
  <2> QED
    BY <2>1, <2>2
<1> QED
  BY <1>2 DEF TokenIds, NoToken

\* A flow that starts.
LEMMA AskKeeps ==
  ASSUME TokensInv, UNCHANGED keyed,
         \/ \E f \in Flow, p \in Provider, a \in Account : AskExchange(f, p, a)
         \/ \E f \in Flow, p \in Provider : AskRefresh(f, p)
  PROVE  TokensInv'
<1>1. UNCHANGED <<ring, copy, issued, lapsed, owner, spoilt>> /\ TokensType
  BY DEF AskExchange, AskRefresh, TokensInv
<1>2. ASSUME NEW f \in Flow, NEW p \in Provider, NEW a \in Account, AskExchange(f, p, a)
      PROVE  TokensInv'
  <2> DEFINE new == [kind |-> "exchange", p |-> p, account |-> a,
                     refresh |-> NoToken, late |-> FALSE]
  <2>1. flow' = [flow EXCEPT ![f] = new]
    BY <1>2 DEF AskExchange
  <2>2. new \in FlowType /\ new.kind # "refresh"
    BY DEF FlowType, TokenIds
  <2> HIDE DEF new
  <2>3. TokensType'
    BY <1>1, <2>1, <2>2 DEF TokensType, TokenIds, FlowType
  <2>4. ASSUME NEW q \in Provider PROVE EntriesInv(q)' /\ OwnerInv(q)'
    <3>1. \A g \in Flow : flow'[g].kind = "refresh" => flow'[g] = flow[g]
      BY <1>1, <2>1, <2>2 DEF TokensType
    <3>2. EntriesInv(q) /\ OwnerInv(q)
      BY DEF TokensInv
    <3> QED
      BY <1>1, <3>1, <3>2, ProviderKept DEF OwnerInv
  <2> QED
    BY <2>3, <2>4 DEF TokensInv
<1>3. ASSUME NEW f \in Flow, NEW p \in Provider, AskRefresh(f, p)
      PROVE  TokensInv'
  <2>. PICK full \in FullToken(p) :
         /\ full.refresh # NoToken
         /\ flow' = [flow EXCEPT ![f] =
              [kind |-> "refresh", p |-> p, refresh |-> full.refresh,
               account |-> issued[full.refresh].account, late |-> FALSE]]
    BY <1>3 DEF AskRefresh
  <2> DEFINE r == full.refresh
             new == [kind |-> "refresh", p |-> p, refresh |-> r,
                     account |-> issued[r].account, late |-> FALSE]
  <2>1. flow' = [flow EXCEPT ![f] = new] /\ r # NoToken
    OBVIOUS
  <2>2. ring[p] \in [Entry -> TokenIds] /\ copy[p] \in TokenIds
    BY <1>1 DEF TokensType
  <2>3. /\ keyed => First(p) # NoToken /\ r = ring[p].refresh
        /\ ~keyed => First(p) = copy[p] /\ r = First(p)
    BY <2>1, <2>2 DEF FullToken, First, Entry, Empty
  <2> HIDE DEF r
  <2>4. r \in DOMAIN issued
    BY <2>1, <2>2, <2>3 DEF TokenIds, Entry, First
  <2>5. issued[r] \in TokenType
    BY <1>1, <2>4 DEF TokensType
  <2>6. new \in FlowType /\ new.p = p /\ new.account = issued[r].account
    BY <2>4, <2>5 DEF FlowType, TokenIds, TokenType
  <2>7. OwnerInv(p) => spoilt[p] # {} \/ new.account = owner[p]
    BY <2>1, <2>3, <2>6 DEF OwnerInv
  <2> HIDE DEF new
  <2>8. TokensType'
    BY <1>1, <2>1, <2>6 DEF TokensType, TokenIds, FlowType
  <2>9. ASSUME NEW q \in Provider PROVE EntriesInv(q)' /\ OwnerInv(q)'
    <3>1. EntriesInv(q) /\ OwnerInv(q) /\ OwnerInv(p)
      BY DEF TokensInv
    <3>2. \A g \in Flow : g # f => flow'[g] = flow[g]
      BY <1>1, <2>1 DEF TokensType
    <3>3. flow'[f] = new
      BY <1>1, <2>1 DEF TokensType
    <3>4. \A g \in Flow : flow'[g].kind = "refresh" /\ flow'[g].p = q /\ ~flow'[g].late =>
            spoilt[q] # {} \/ flow'[g].account = owner[q]
      BY <2>6, <2>7, <3>1, <3>2, <3>3 DEF OwnerInv
    <3> QED
      BY <1>1, <3>1, <3>4, ProviderKept
  <2> QED
    BY <2>8, <2>9 DEF TokensInv
<1> QED
  BY <1>2, <1>3

\* A flow that ends without an answer, or a token that lapses.
LEMMA FailOrLapseKeeps ==
  ASSUME TokensInv, UNCHANGED keyed,
         (\E f \in Flow : AskFails(f)) \/ (\E t \in DOMAIN issued : Lapse(t))
  PROVE  TokensInv'
<1>1. UNCHANGED <<ring, copy, issued, owner, spoilt>> /\ TokensType
  BY DEF AskFails, Lapse, TokensInv
<1>2. /\ \A g \in Flow : flow'[g] = flow[g] \/ flow'[g] = NoFlow
      /\ flow' \in [Flow -> FlowType \cup {NoFlow}]
  BY <1>1 DEF AskFails, Lapse, TokensType
<1>3. lapsed' \subseteq DOMAIN issued
  BY <1>1 DEF AskFails, Lapse, TokensType
<1>4. TokensType'
  BY <1>1, <1>2, <1>3 DEF TokensType, TokenIds, FlowType
<1>5. ASSUME NEW q \in Provider PROVE EntriesInv(q)' /\ OwnerInv(q)'
  <2>1. EntriesInv(q) /\ OwnerInv(q)
    BY DEF TokensInv
  <2>2. \A g \in Flow : flow'[g].kind = "refresh" => flow'[g] = flow[g]
    BY <1>2 DEF NoFlow
  <2> QED
    BY <1>1, <2>1, <2>2, ProviderKept DEF OwnerInv
<1> QED
  BY <1>4, <1>5 DEF TokensInv

\* A change of owner leaves no refresh of p under way that is not late.
LEMMA AllAreLate ==
  ASSUME TokensType, NEW p \in Provider
  PROVE  /\ Late(p) \in [Flow -> FlowType \cup {NoFlow}]
         /\ \A g \in Flow : Late(p)[g].kind = "refresh" /\ Late(p)[g].p = p => Late(p)[g].late
         /\ \A g \in Flow : Late(p)[g].p # p => Late(p)[g] = flow[g]
<1>1. \A g \in Flow : flow[g] \in FlowType \cup {NoFlow}
  BY DEF TokensType
<1>2. \A x \in FlowType : /\ [x EXCEPT !.late = TRUE] \in FlowType
                          /\ [x EXCEPT !.late = TRUE].late
                          /\ [x EXCEPT !.late = TRUE].p = x.p
  BY DEF FlowType
<1>3. \A g \in Flow : flow[g].kind = "refresh" => flow[g] \in FlowType
  BY <1>1 DEF NoFlow
<1> QED
  BY <1>1, <1>2, <1>3 DEF Late

LEMMA RevokeKeeps ==
  ASSUME TokensInv, UNCHANGED keyed, NEW p \in Provider, Revoke(p)
  PROVE  TokensInv'
<1>1. TokensType /\ UNCHANGED <<issued, lapsed>> /\ flow' = Late(p)
      /\ copy' = [copy EXCEPT ![p] = NoToken] /\ owner' = [owner EXCEPT ![p] = NoOne]
  BY DEF Revoke, TokensInv
<1>2. PICK left \in SUBSET Entry :
        /\ ring' = [ring EXCEPT ![p] =
             [e \in Entry |-> IF keyed /\ e \notin left THEN NoToken ELSE @[e]]]
        /\ ring'[p] # Empty => keyed
        /\ spoilt' = [spoilt EXCEPT ![p] = IF ring'[p] = Empty THEN {} ELSE {"delete"}]
  BY DEF Revoke
<1> DEFINE entries == [e \in Entry |-> IF keyed /\ e \notin left THEN NoToken ELSE ring[p][e]]
<1>3. entries \in [Entry -> TokenIds]
  <2>1. ring[p] \in [Entry -> TokenIds] /\ NoToken \in TokenIds
    BY <1>1 DEF TokensType, TokenIds
  <2> QED
    BY <2>1
<1>4. ring' = [ring EXCEPT ![p] = entries]
  BY <1>2
<1> HIDE DEF entries
<1>5. TokensType'
  <2>1. ring' \in [Provider -> [Entry -> TokenIds]]
    BY <1>1, <1>3, <1>4 DEF TokensType
  <2>2. copy' \in [Provider -> TokenIds]
    BY <1>1 DEF TokensType, TokenIds
  <2>3. spoilt' \in [Provider -> SUBSET Faults]
    BY <1>1, <1>2 DEF TokensType, Faults
  <2>4. flow' \in [Flow -> FlowType \cup {NoFlow}]
    BY <1>1, AllAreLate
  <2>5. DOMAIN owner' = Provider /\ owner' = [q \in Provider |-> owner'[q]]
    BY <1>1 DEF TokensType
  <2> QED
    BY <1>1, <2>1, <2>2, <2>3, <2>4, <2>5 DEF TokensType, TokenIds, FlowType
<1>6. ASSUME NEW q \in Provider PROVE EntriesInv(q)' /\ OwnerInv(q)'
  <2>1. EntriesInv(q) /\ OwnerInv(q)
    BY DEF TokensInv
  <2>2. CASE q # p
    <3>1. \A g \in Flow : flow'[g].p = q => flow'[g] = flow[g]
      BY <1>1, <2>2, AllAreLate
    <3>2. /\ ring'[q] = ring[q] /\ spoilt'[q] = spoilt[q] /\ owner'[q] = owner[q]
          /\ copy'[q] = copy[q]
      BY <1>1, <1>2, <1>4, <2>2 DEF TokensType
    <3> QED
      BY <1>1, <2>1, <3>1, <3>2, ProviderKept DEF OwnerInv
  <2>3. CASE q = p
    <3>1. copy'[p] = NoToken /\ owner'[p] = NoOne
      BY <1>1 DEF TokensType
    <3>2. \A g \in Flow : flow'[g].kind = "refresh" /\ flow'[g].p = p => flow'[g].late
      BY <1>1, AllAreLate
    <3>3. CASE ring'[p] = Empty
      <4>1. ring'[p].access = NoToken /\ ring'[p].meta = NoToken /\ ring'[p].refresh = NoToken
        BY <3>3 DEF Empty, Entry
      <4>2. EntriesInv(p)'
        BY <3>1, <3>3, <4>1 DEF EntriesInv
      <4>3. OwnerInv(p)'
        BY <3>1, <3>2, <4>1 DEF OwnerInv, First
      <4> QED
        BY <2>3, <4>2, <4>3
    <3>4. CASE ring'[p] # Empty
      <4>1. spoilt'[p] = {"delete"} /\ keyed
        BY <1>1, <1>2, <3>4 DEF TokensType
      <4> QED
        BY <2>3, <4>1 DEF EntriesInv, OwnerInv, Broken
    <3> QED
      BY <3>3, <3>4
  <2> QED
    BY <2>2, <2>3
<1> QED
  BY <1>5, <1>6 DEF TokensInv

\* A restart: the flows are gone, and the memory copy that stood in for a
\* keychain.
LEMMA RestartKeeps ==
  ASSUME TokensInv, UNCHANGED keyed, Restart
  PROVE  TokensInv'
<1>1. /\ TokensType /\ UNCHANGED <<ring, issued, lapsed, owner>>
      /\ copy' = [p \in Provider |-> NoToken] /\ flow' = [f \in Flow |-> NoFlow]
      /\ spoilt' = [p \in Provider |-> IF keyed THEN spoilt[p] ELSE spoilt[p] \cup {"restart"}]
  BY DEF Restart, TokensInv
<1>2. TokensType'
  <2>1. spoilt' \in [Provider -> SUBSET Faults]
    BY <1>1 DEF TokensType, Faults
  <2>2. copy' \in [Provider -> TokenIds'] /\ TokenIds' = TokenIds /\ FlowType' = FlowType
    BY <1>1 DEF TokenIds, FlowType
  <2> QED
    BY <1>1, <2>1, <2>2 DEF TokensType
<1>3. ASSUME NEW q \in Provider PROVE EntriesInv(q)' /\ OwnerInv(q)'
  <2>1. EntriesInv(q) /\ OwnerInv(q) /\ copy'[q] = NoToken
    BY <1>1 DEF TokensInv
  <2>2. CASE keyed
    <3>1. spoilt'[q] = spoilt[q] /\ \A f \in Flow : flow'[f].kind # "refresh"
      BY <1>1, <2>2 DEF NoFlow
    <3> QED
      BY <1>1, <2>1, <2>2, <3>1, ProviderKept
  <2>3. CASE ~keyed
    <3>1. "restart" \in spoilt'[q]
      BY <1>1, <2>3
    <3> QED
      BY <1>1, <2>1, <2>3, <3>1 DEF EntriesInv, OwnerInv
  <2> QED
    BY <2>2, <2>3
<1> QED
  BY <1>2, <1>3 DEF TokensInv

\* What store_token writes: with all its writes done, the entries are of one
\* token, but for a refresh token that the answer did not replace.
LEMMA WrittenEntries ==
  ASSUME NEW p \in Provider, ring[p] \in [Entry -> TokenIds], NEW t, NEW n \in 0..3,
         NEW renews \in BOOLEAN, issued'[t].renews = renews
  PROVE  /\ Written(ring[p], t, n) \in [Entry -> TokenIds \cup {t}]
         /\ n = 0 => Written(ring[p], t, n) = ring[p]
         /\ n = (IF renews THEN 3 ELSE 2) =>
              /\ Written(ring[p], t, n).access = t /\ Written(ring[p], t, n).meta = t
              /\ Written(ring[p], t, n).refresh = IF renews THEN t ELSE ring[p].refresh
<1> DEFINE w == IF renews THEN <<"access", "refresh", "meta">> ELSE <<"access", "meta">>
           old == ring[p]
           new == [e \in Entry |-> IF \E i \in 1..n : w[i] = e THEN t ELSE old[e]]
<1>1. Written(ring[p], t, n) = new
  BY DEF Written, Writes
<1>2. old \in [Entry -> TokenIds]
  OBVIOUS
<1> HIDE DEF old
<1>3. new \in [Entry -> TokenIds \cup {t}]
  BY <1>2
<1>4. ASSUME n = 0 PROVE new = old
  <2>1. 1..n = {}
    BY <1>4
  <2> QED
    BY <1>2, <2>1
<1>5. ASSUME n = (IF renews THEN 3 ELSE 2)
      PROVE  new.access = t /\ new.meta = t /\ new.refresh = IF renews THEN t ELSE old.refresh
  <2>1. CASE renews
    <3>1. 1..n = {1, 2, 3} /\ w = <<"access", "refresh", "meta">>
      BY <1>5, <2>1
    <3> QED
      BY <2>1, <3>1 DEF Entry
  <2>2. CASE ~renews
    <3>1. 1..n = {1, 2} /\ w = <<"access", "meta">>
      BY <1>5, <2>2
    <3> QED
      BY <2>2, <3>1 DEF Entry
  <2> QED
    BY <2>1, <2>2
<1> HIDE DEF new
<1> QED
  BY <1>1, <1>3, <1>4, <1>5 DEF old

\* An answer.
LEMMA AnswerKeeps ==
  ASSUME TokensInv, UNCHANGED keyed,
         NEW f \in Flow, NEW renews \in BOOLEAN, NEW lasting \in BOOLEAN,
         NEW end \in {"stored", "raised", "crashed"}, Answered(f, renews, lasting, end)
  PROVE  TokensInv'
<1>p. PICK p \in Provider : p = flow[f].p
  BY DEF Answered, TokensInv, TokensType, FlowType
<1>t. PICK t : t = Cardinality(DOMAIN issued) + 1
  OBVIOUS
<1> DEFINE new == Token(flow[f].account, renews, lasting)
           renewal == flow[f].kind = "refresh"
           kept == IF renewal THEN flow ELSE Late(p)
<1>1. /\ TokensType /\ flow[f] \in FlowType
      /\ renewal => renews
      /\ issued' = [i \in DOMAIN issued \cup {t} |-> IF i = t THEN new ELSE issued[i]]
      /\ UNCHANGED lapsed
  BY <1>t DEF Answered, TokensInv, TokensType
<1>2. PICK done \in 0..3 : StoreToken(f, t, done, end)
  BY <1>t DEF Answered
<1>3. /\ t \in Nat \ {0} /\ t \notin TokenIds /\ DOMAIN issued \cup {t} = 1..t
      /\ new \in TokenType /\ new.account = flow[f].account
      /\ new.renews = renews
  BY <1>1, <1>t, NextToken DEF FlowType, Token, TokenType
<1>4. /\ issued' \in [1..t -> TokenType] /\ issued'[t] = new
      /\ \A x \in DOMAIN issued : issued'[x] = issued[x]
      /\ TokenIds' = TokenIds \cup {t}
  <2> HIDE DEF new
  <2>1. \A x \in DOMAIN issued : issued[x] \in TokenType
    BY <1>1 DEF TokensType
  <2> QED
    BY <1>1, <1>3, <2>1 DEF TokenIds
<1> HIDE DEF new
<1>5. /\ ring' = [ring EXCEPT ![p] = Written(ring[p], t, done)]
      /\ owner' = IF renewal THEN owner ELSE [owner EXCEPT ![p] = flow[f].account]
      /\ end = "stored" => /\ done = IF keyed THEN IF renews THEN 3 ELSE 2 ELSE 0
                           /\ copy' = IF keyed THEN copy ELSE [copy EXCEPT ![p] = t]
      /\ end # "stored" => keyed
      /\ end = "raised" => copy' = [copy EXCEPT ![p] = t]
      /\ end = "crashed" => /\ copy' = [q \in Provider |-> NoToken]
                            /\ flow' = [g \in Flow |-> NoFlow]
      /\ end # "crashed" => flow' = [kept EXCEPT ![f] = NoFlow]
  BY <1>2, <1>3, <1>4, <1>p DEF StoreToken
<1>6. /\ \A q \in Provider \ {p} : spoilt'[q] = spoilt[q]
      /\ spoilt' \in [Provider -> SUBSET Faults]
      /\ end # "stored" => "write" \in spoilt'[p]
      /\ end = "stored" /\ spoilt'[p] = {} =>
           /\ ~flow[f].late /\ (renewal => spoilt[p] = {})
           /\ ~renewal /\ keyed /\ ring[p].refresh # NoToken => renews
  <2> DEFINE why ==
        IF end # "stored" THEN spoilt[p] \cup {"write"}
        ELSE IF flow[f].late THEN spoilt[p] \cup {"late"}
        ELSE IF renewal THEN spoilt[p]
        ELSE IF keyed /\ ring[p].refresh # NoToken /\ ~renews THEN {"old refresh"}
        ELSE {}
  <2>1. spoilt' = [spoilt EXCEPT ![p] = why]
    BY <1>2, <1>3, <1>4, <1>p DEF StoreToken
  <2>2. spoilt \in [Provider -> SUBSET Faults]
    BY <1>1 DEF TokensType
  <2>3. why \subseteq Faults
    BY <2>2 DEF Faults
  <2>4. /\ end # "stored" => "write" \in why
        /\ end = "stored" /\ why = {} =>
             /\ ~flow[f].late /\ (renewal => spoilt[p] = {})
             /\ ~renewal /\ keyed /\ ring[p].refresh # NoToken => renews
    OBVIOUS
  <2> HIDE DEF why
  <2>5. spoilt'[p] = why
    BY <2>1, <2>2
  <2> QED
    BY <2>1, <2>2, <2>3, <2>4, <2>5
<1>7. /\ kept \in [Flow -> FlowType \cup {NoFlow}]
      /\ \A g \in Flow : kept[g].p # p => kept[g] = flow[g]
      /\ ~renewal => \A g \in Flow : kept[g].kind = "refresh" /\ kept[g].p = p => kept[g].late
  BY <1>1, <1>3, AllAreLate DEF TokensType
<1> HIDE DEF kept
<1>8. /\ Written(ring[p], t, done) \in [Entry -> TokenIds \cup {t}]
      /\ done = 0 => Written(ring[p], t, done) = ring[p]
      /\ done = (IF renews THEN 3 ELSE 2) =>
           /\ Written(ring[p], t, done).access = t /\ Written(ring[p], t, done).meta = t
           /\ Written(ring[p], t, done).refresh = IF renews THEN t ELSE ring[p].refresh
  <2>1. ring[p] \in [Entry -> TokenIds]
    BY <1>1, <1>3 DEF TokensType
  <2>2. issued'[t].renews = renews
    BY <1>3, <1>4
  <2> QED
    BY <2>1, <2>2, WrittenEntries
<1>9. TokensType'
  <2>1. ring' \in [Provider -> [Entry -> TokenIds']]
    <3>1. ring \in [Provider -> [Entry -> TokenIds']]
      <4>1. ring \in [Provider -> [Entry -> TokenIds]]
        BY <1>1 DEF TokensType
      <4>2. [Entry -> TokenIds] \subseteq [Entry -> TokenIds']
        BY <1>4
      <4> QED
        BY <4>1, <4>2
    <3> QED
      BY <1>3, <1>4, <1>5, <1>8, <3>1
  <2>2. copy' \in [Provider -> TokenIds']
    <3>1. copy \in [Provider -> TokenIds'] /\ t \in TokenIds' /\ NoToken \in TokenIds'
      BY <1>1, <1>4 DEF TokensType, TokenIds
    <3> QED
      BY <1>3, <1>5, <3>1
  <2>3. flow' \in [Flow -> FlowType' \cup {NoFlow}]
    <3>1. FlowType \subseteq FlowType'
      BY <1>4 DEF FlowType
    <3> QED
      BY <1>5, <1>7, <3>1
  <2>4. spoilt' \in [Provider -> SUBSET Faults]
    BY <1>6
  <2>5. DOMAIN owner' = Provider /\ owner' = [q \in Provider |-> owner'[q]]
    <3>1. DOMAIN owner = Provider /\ owner = [q \in Provider |-> owner[q]]
      BY <1>1 DEF TokensType
    <3>2. CASE owner' = owner
      BY <3>1, <3>2
    <3>3. CASE owner' = [owner EXCEPT ![p] = flow[f].account]
      BY <3>1, <3>3
    <3> QED
      BY <1>5, <3>2, <3>3
  <2>6. lapsed' \subseteq DOMAIN issued'
    BY <1>1 DEF TokensType
  <2> QED
    BY <1>3, <1>4, <2>1, <2>2, <2>3, <2>4, <2>5, <2>6 DEF TokensType
<1>10. ASSUME NEW q \in Provider, q # p PROVE EntriesInv(q)' /\ OwnerInv(q)'
  <2>1. EntriesInv(q) /\ OwnerInv(q)
    BY DEF TokensInv
  <2>2. ring'[q] = ring[q] /\ spoilt'[q] = spoilt[q] /\ owner'[q] = owner[q]
    BY <1>1, <1>5, <1>6, <1>10 DEF TokensType
  <2>3. copy'[q] = copy[q] \/ (keyed /\ copy'[q] = NoToken)
    BY <1>1, <1>3, <1>5, <1>10 DEF TokensType
  <2>4. \A g \in Flow : flow'[g].kind = "refresh" /\ flow'[g].p = q => flow'[g] = flow[g]
    BY <1>5, <1>7, <1>10 DEF NoFlow
  <2>5. \A g \in Flow : flow'[g].kind = "refresh" /\ flow'[g].p = q /\ ~flow'[g].late =>
          spoilt[q] # {} \/ flow'[g].account = owner[q]
    BY <2>1, <2>4 DEF OwnerInv
  <2> QED
    BY <1>1, <1>4, <2>1, <2>2, <2>3, <2>5, ProviderKept
<1>11. EntriesInv(p)' /\ OwnerInv(p)'
  <2>1. CASE end # "stored"
    <3>1. "write" \in spoilt'[p] /\ keyed
      BY <1>5, <1>6, <2>1
    <3> QED
      BY <3>1 DEF EntriesInv, OwnerInv, Broken
  <2>2. CASE end = "stored"
    <3>1. First(p)' = t /\ t # NoToken
      BY <1>1, <1>3, <1>5, <1>8, <2>2 DEF First, TokensType, NoToken
    <3>2. keyed => ring'[p].access = t /\ ring'[p].meta = t
      BY <1>1, <1>3, <1>5, <1>8, <2>2 DEF TokensType
    <3>3. ~keyed => ring'[p] = Empty
      <4>1. ~keyed => ring'[p] = ring[p]
        BY <1>1, <1>3, <1>5, <1>8, <2>2 DEF TokensType
      <4> QED
        BY <1>3, <4>1 DEF TokensInv, EntriesInv
    <3>4. EntriesInv(p)'
      BY <3>1, <3>2, <3>3 DEF EntriesInv
    <3>5. ASSUME spoilt'[p] = {}
          PROVE  /\ owner'[p] = flow[f].account
                 /\ ring'[p].refresh # NoToken => ring'[p].refresh = t
                 /\ \A g \in Flow :
                      flow'[g].kind = "refresh" /\ flow'[g].p = p /\ ~flow'[g].late =>
                        flow'[g].account = owner'[p]
      <4>1. ~flow[f].late
        BY <1>6, <2>2, <3>5
      <4>2. ring'[p].refresh # NoToken => keyed
        BY <3>3 DEF Empty, Entry
      <4>3. keyed => ring'[p].refresh = IF renews THEN t ELSE ring[p].refresh
        BY <1>1, <1>3, <1>5, <1>8, <2>2 DEF TokensType
      <4>4. CASE renewal
        <5>1. spoilt[p] = {} /\ owner' = owner
          BY <1>5, <1>6, <2>2, <3>5, <4>1, <4>4
        <5>2. \A g \in Flow : flow[g].kind = "refresh" /\ flow[g].p = p /\ ~flow[g].late =>
                flow[g].account = owner[p]
          BY <1>3, <5>1 DEF TokensInv, OwnerInv
        <5>3. \A g \in Flow : flow'[g] = flow[g] \/ flow'[g] = NoFlow
          BY <1>5, <1>7, <2>2, <4>4 DEF kept
        <5>4. owner'[p] = flow[f].account
          BY <1>p, <4>1, <4>4, <5>1, <5>2
        <5>5. \A g \in Flow : flow'[g].kind = "refresh" => flow'[g] = flow[g]
          BY <5>3 DEF NoFlow
        <5> QED
          BY <1>1, <4>2, <4>3, <4>4, <5>1, <5>2, <5>4, <5>5
      <4>5. CASE ~renewal
        <5>1. owner'[p] = flow[f].account
          BY <1>1, <1>3, <1>5, <4>5 DEF TokensType
        <5>2. keyed /\ ~renews => ring[p].refresh = NoToken
          BY <1>6, <2>2, <3>5, <4>1, <4>5
        <5>3. \A g \in Flow : flow'[g].kind = "refresh" /\ flow'[g].p = p => flow'[g].late
          BY <1>5, <1>7, <2>2, <4>5 DEF NoFlow
        <5> QED
          BY <4>2, <4>3, <5>1, <5>2, <5>3
      <4> QED
        BY <4>4, <4>5
    <3>6. OwnerInv(p)'
      BY <1>3, <1>4, <3>1, <3>5 DEF OwnerInv
    <3> QED
      BY <3>4, <3>6
  <2> QED
    BY <2>1, <2>2
<1> QED
  BY <1>9, <1>10, <1>11 DEF TokensInv

LEMMA NextTokens == TokensInv /\ [Next]_vars => TokensInv'
<1> SUFFICES ASSUME TokensInv, [Next]_vars PROVE TokensInv'
  OBVIOUS
<1>1. UNCHANGED keyed
  BY DEF Next, vars
<1>2. CASE TokenStep
  BY <1>1, <1>2, AskKeeps, FailOrLapseKeeps, RevokeKeeps, RestartKeeps, AnswerKeeps DEF TokenStep
<1>3. CASE UNCHANGED tokenVars
  <2>1. UNCHANGED <<ring, copy, issued, lapsed, flow, owner, spoilt, keyed>>
    BY <1>1, <1>3 DEF tokenVars
  <2>2. TokensType'
    BY <2>1 DEF TokensInv, TokensType, TokenIds, FlowType
  <2>3. \A p \in Provider : EntriesInv(p)' /\ OwnerInv(p)'
    BY <2>1 DEF TokensInv, EntriesInv, OwnerInv, First, Broken
  <2> QED
    BY <2>2, <2>3 DEF TokensInv
<1> QED
  BY <1>2, <1>3 DEF Next, vars

\* OAuthManager.get_token: what it gives has not passed its expires_at and is
\* of the account that was connected last, and who is connected has a token for
\* as long as it lasts where the keychain can be read, unless a call of the
\* keychain failed, an account was left half replaced, or the process that kept
\* the only copy ended: for any accounts, flows, restarts and faults.
THEOREM TokensStayTrue == Spec => []TokensAreTrue
<1>1. TokensInv => TokensAreTrue
  <2> SUFFICES ASSUME TokensInv, NEW p \in Provider
               PROVE  /\ \A t \in Current(p) \ {NoToken} :
                           /\ t \in lapsed => Broken(p)
                           /\ spoilt[p] = {} => issued[t].account = owner[p]
                      /\ Found(p) = NoToken /\ spoilt[p] = {} /\ owner[p] # NoOne =>
                           \E t \in lapsed : issued[t].account = owner[p]
    BY DEF TokensAreTrue, Broken
  <2>1. EntriesInv(p) /\ OwnerInv(p)
    BY DEF TokensInv
  <2>2. spoilt[p] = {} => ~Broken(p)
    BY DEF Broken
  <2>3. \A t \in Current(p) \ {NoToken} : t = Found(p)
    BY DEF Current
  <2>4. CASE keyed
    BY <2>1, <2>2, <2>3, <2>4 DEF EntriesInv, OwnerInv, First, Found
  <2>5. CASE ~keyed
    BY <2>1, <2>2, <2>3, <2>5 DEF EntriesInv, OwnerInv, First, Found
  <2> QED
    BY <2>4, <2>5
<1> QED
  BY <1>1, TokensStart, NextTokens, PTL DEF Spec

-------------------------------------------------------------------------------
(* The database connections *)

PoolStates == {"open", "closing", "closed"}

PoolType ==
  [provider : Driver, state : PoolStates, out : Int, failed : Nat]

Steps == {"idle", "initialize", "acquire", "execute", "probe", "release", "close", "next",
          "done"}

\* A call is about to have a connection of its pool, or has one.
Uses(t) == task[t].pc \in {"acquire", "execute", "probe", "release"}

DbType ==
  /\ pool \in Seq(PoolType)
  /\ pools \in [Name -> 0..Len(pool)]
  /\ DOMAIN task = Task /\ task = [t \in Task |-> task[t]]
  /\ \A t \in Task :
       DOMAIN task[t] = DOMAIN NoTask /\ task[t].pc \in Steps /\ Mine(t) \in 0..Len(pool)

\* A write has run as often as it was told.
RanRight(t) ==
  task[t].told = "ok" /\ Changes(task[t].query) =>
    task[t].ran = (IF Pooled(Mine(t)) THEN 1 ELSE 0)

\* What a call is doing, where it is.
CallInv(t) ==
  /\ task[t].pc \in {"initialize", "acquire", "execute", "probe", "release", "close"} =>
       Mine(t) # NoPool
  /\ task[t].pc \in {"initialize", "execute", "release", "close"} => task[t].name \in Name
  /\ task[t].pc \in {"idle", "initialize", "probe", "close", "next"} => task[t].op # "query"
  /\ task[t].pc \in {"execute", "release"} => task[t].op = "query"
  /\ At(t, "acquire") /\ task[t].op = "query" => task[t].name \in Name
  /\ At(t, "close") => pool[Mine(t)].provider # "postgresql"
  /\ task[t].pc \in {"release", "done"} /\ task[t].op = "query" =>
       Mine(t) # NoPool /\ RanRight(t)

\* A pool that is being initialized is its call's alone.
FreshInv(t) ==
  At(t, "initialize") =>
    /\ pool[Mine(t)].state = "open"
    /\ \A n \in Name : pools[n] # Mine(t)
    /\ \A u \in Task \ {t} : Mine(u) # Mine(t)

\* The name of a query still stands for the pool it took the connection from,
\* so release finds it, unless that pool is adrift.
NamedInv(t) ==
  task[t].op = "query" /\ Uses(t) /\ Pooled(Mine(t)) =>
    Mine(t) \in adrift \/ pools[task[t].name] = Mine(t)

\* Nobody uses a pool that is closed; asyncpg's never is.
ClosedInv(i) ==
  /\ pool[i].provider = "postgresql" => pool[i].state = "open"
  /\ pool[i].state = "closed" /\ Pooled(i) /\ i \notin adrift =>
       \A t \in Task : Mine(t) = i => ~Uses(t)

CountInv(i) ==
  Pooled(i) /\ i \notin adrift =>
    IsFiniteSet(Holders(i)) /\ pool[i].out = Cardinality(Holders(i)) + pool[i].failed

DbInv ==
  /\ DbType
  /\ \A t \in Task : CallInv(t) /\ FreshInv(t) /\ NamedInv(t)
  /\ \A i \in DOMAIN pool : ClosedInv(i) /\ CountInv(i)

Holds(t, i) == Mine(t) = i /\ task[t].pc \in {"execute", "probe", "release"}

\* The fields that a step writes and those it leaves.
LEMMA Update ==
  ASSUME NEW f, NEW r, DOMAIN r \subseteq DOMAIN f
  PROVE  /\ DOMAIN With(f, r) = DOMAIN f
         /\ \A x \in DOMAIN r : With(f, r)[x] = r[x]
         /\ \A x \in DOMAIN f \ DOMAIN r : With(f, r)[x] = f[x]
BY DEF With

LEMMA PoolNumbers ==
  ASSUME DbType
  PROVE  /\ Len(pool) \in Nat /\ DOMAIN pool = 1..Len(pool)
         /\ \A i \in DOMAIN pool : pool[i] \in PoolType
         /\ \A t \in Task : Mine(t) # NoPool => Mine(t) \in DOMAIN pool
         /\ \A n \in Name : pools[n] # NoPool => pools[n] \in DOMAIN pool
<1>1. pool \in Seq(PoolType)
  BY DEF DbType
<1>2. Len(pool) \in Nat /\ DOMAIN pool = 1..Len(pool)
  BY <1>1
<1>3. \A i \in DOMAIN pool : pool[i] \in PoolType
  BY <1>1
<1> QED
  BY <1>2, <1>3 DEF DbType, NoPool

\* One call moves: what its pool has given out follows.
LEMMA CountMoves ==
  ASSUME NEW t \in Task, NEW i, CountInv(i),
         \A u \in Task \ {t} : task'[u] = task[u],
         pool[i] \in PoolType, pool'[i] \in PoolType,
         pool'[i].provider = pool[i].provider, adrift \subseteq adrift',
         Pooled(i) /\ i \notin adrift' =>
           \/ /\ Holds(t, i)' <=> Holds(t, i)
              /\ pool'[i].out = pool[i].out /\ pool'[i].failed = pool[i].failed
           \/ /\ Holds(t, i)' /\ ~Holds(t, i)
              /\ pool'[i].out = pool[i].out + 1 /\ pool'[i].failed = pool[i].failed
           \/ /\ ~Holds(t, i)' /\ Holds(t, i)
              /\ \/ pool'[i].out = pool[i].out - 1 /\ pool'[i].failed = pool[i].failed
                 \/ pool'[i].out = pool[i].out /\ pool'[i].failed = pool[i].failed + 1
  PROVE  CountInv(i)'
<1> SUFFICES ASSUME Pooled(i)', i \notin adrift'
             PROVE  /\ IsFiniteSet(Holders(i)')
                    /\ pool'[i].out = Cardinality(Holders(i)') + pool'[i].failed
  BY DEF CountInv
<1>1. Pooled(i) /\ i \notin adrift
  BY DEF Pooled
<1>2. IsFiniteSet(Holders(i)) /\ pool[i].out = Cardinality(Holders(i)) + pool[i].failed
  BY <1>1 DEF CountInv
<1>3. Cardinality(Holders(i)) \in Nat /\ pool[i].out \in Int /\ pool[i].failed \in Nat
  BY <1>2, FS_CardinalityType DEF PoolType
<1>4. \A u \in Task : u \in Holders(i) <=> Holds(u, i)
  BY DEF Holders, Holds
<1>5. \A u \in Task : u \in Holders(i)' <=> Holds(u, i)'
  BY DEF Holders, Holds
<1>6. \A u \in Task \ {t} : Holds(u, i)' <=> Holds(u, i)
  BY DEF Holds, Mine
<1>7. Holders(i) \subseteq Task /\ Holders(i)' \subseteq Task
  BY DEF Holders
<1>8. CASE Holds(t, i)' <=> Holds(t, i)
  <2>1. Holders(i)' = Holders(i)
    BY <1>4, <1>5, <1>6, <1>7, <1>8
  <2> QED
    BY <1>1, <1>2, <1>8, <2>1
<1>9. CASE Holds(t, i)' /\ ~Holds(t, i)
  <2>1. Holders(i)' = Holders(i) \cup {t} /\ t \notin Holders(i)
    BY <1>4, <1>5, <1>6, <1>7, <1>9
  <2>2. /\ IsFiniteSet(Holders(i) \cup {t})
        /\ Cardinality(Holders(i) \cup {t}) = Cardinality(Holders(i)) + 1
    BY <1>2, <2>1, FS_AddElement
  <2>3. pool'[i].out = pool[i].out + 1 /\ pool'[i].failed = pool[i].failed
    BY <1>1, <1>9
  <2> QED
    BY <1>2, <1>3, <2>1, <2>2, <2>3
<1>10. CASE ~Holds(t, i)' /\ Holds(t, i)
  <2>1. Holders(i)' = Holders(i) \ {t} /\ t \in Holders(i)
    BY <1>4, <1>5, <1>6, <1>7, <1>10
  <2>2. /\ IsFiniteSet(Holders(i) \ {t})
        /\ Cardinality(Holders(i) \ {t}) = Cardinality(Holders(i)) - 1
    BY <1>2, <2>1, FS_RemoveElement
  <2>3. \/ pool'[i].out = pool[i].out - 1 /\ pool'[i].failed = pool[i].failed
        \/ pool'[i].out = pool[i].out /\ pool'[i].failed = pool[i].failed + 1
    BY <1>1, <1>10
  <2> QED
    BY <1>2, <1>3, <2>1, <2>2, <2>3
<1> QED
  BY <1>8, <1>9, <1>10

\* One call t moves.  A name changes hands only for t's pool or for none, and
\* the pool it stood for is adrift or unused; a pool starts to close only under
\* its name, and is closed only when unused; t turns to a pool that has a name
\* or is new.
LEMMA StepKeeps ==
  ASSUME DbInv, NEW t \in Task, DbType', CallInv(t)', FreshInv(t)', NamedInv(t)',
         \A u \in Task \ {t} : task'[u] = task[u],
         adrift \subseteq adrift', DOMAIN pool \subseteq DOMAIN pool',
         \A n \in Name :
           \/ pools'[n] = pools[n]
           \/ /\ pools'[n] = NoPool \/ pools'[n] = Mine(t)
              /\ \/ pools[n] = NoPool \/ pools[n] \in adrift' \/ ~Pooled(pools[n])
                 \/ \A u \in Task \ {t} : Mine(u) = pools[n] => ~Uses(u),
         \A i \in DOMAIN pool :
           /\ pool'[i].provider = pool[i].provider
           /\ CountInv(i)'
           /\ \/ pool'[i].state = pool[i].state
              \/ /\ pool[i].provider # "postgresql"
                 /\ i = Mine(t) \/ \E n \in Name : pools[n] = i
                 /\ \/ pool'[i].state # "closed"
                    \/ Pooled(i) /\ i \notin adrift' =>
                         \A u \in Task \ {t} : Mine(u) = i => ~Uses(u),
         \A i \in DOMAIN pool' \ DOMAIN pool : ClosedInv(i)' /\ CountInv(i)',
         \/ Mine(t)' = Mine(t)
         \/ Mine(t)' \notin DOMAIN pool
         \/ \E n \in Name : pools[n] = Mine(t)',
         Uses(t)' /\ Pooled(Mine(t))' =>
           \/ pool'[task'[t].pool].state # "closed"
           \/ Uses(t) /\ Mine(t)' = Mine(t) /\ pool'[Mine(t)].state = pool[Mine(t)].state
  PROVE  DbInv'
<1>1. /\ DbType /\ \A u \in Task : CallInv(u) /\ FreshInv(u) /\ NamedInv(u)
      /\ \A i \in DOMAIN pool : ClosedInv(i) /\ CountInv(i)
  BY DEF DbInv
<1>2. /\ \A u \in Task : Mine(u) # NoPool => Mine(u) \in DOMAIN pool
      /\ NoPool \notin DOMAIN pool
      /\ \A u \in Task \ {t} : Mine(u)' = Mine(u) /\ (Uses(u)' <=> Uses(u))
  BY <1>1, PoolNumbers DEF NoPool, Mine, Uses
<1>3. ASSUME NEW u \in Task \ {t} PROVE CallInv(u)'
  BY <1>1, <1>2, <1>3 DEF CallInv, RanRight, Pooled, At, Mine
<1>4. ASSUME NEW u \in Task \ {t} PROVE FreshInv(u)'
  <2> SUFFICES ASSUME At(u, "initialize")
               PROVE  /\ pool'[Mine(u)].state = "open"
                      /\ \A n \in Name : pools'[n] # Mine(u)
                      /\ \A v \in Task \ {u} : Mine(v)' # Mine(u)
    BY <1>2, <1>4 DEF FreshInv, At, Mine
  <2>1. /\ pool[Mine(u)].state = "open" /\ Mine(u) \in DOMAIN pool /\ Mine(u) # NoPool
        /\ \A n \in Name : pools[n] # Mine(u)
        /\ \A v \in Task \ {u} : Mine(v) # Mine(u)
    BY <1>1, <1>2 DEF FreshInv, CallInv, At
  <2>2. pool'[Mine(u)].state = "open"
    BY <1>4, <2>1
  <2>3. \A n \in Name : pools'[n] # Mine(u)
    BY <1>4, <2>1
  <2>4. \A v \in Task \ {u} : Mine(v)' # Mine(u)
    BY <1>2, <1>4, <2>1
  <2> QED
    BY <2>2, <2>3, <2>4
<1>5. ASSUME NEW u \in Task \ {t} PROVE NamedInv(u)'
  <2> SUFFICES ASSUME task[u].op = "query", Uses(u), Pooled(Mine(u))',
                      Mine(u) \notin adrift'
               PROVE  pools'[task[u].name] = Mine(u)
    BY <1>2, <1>5 DEF NamedInv, Mine
  <2>1. Mine(u) \in DOMAIN pool /\ Mine(u) # NoPool /\ task[u].name \in Name
    BY <1>1, <1>2 DEF CallInv, Uses, At
  <2>2. Pooled(Mine(u))
    BY <1>2, <2>1 DEF Pooled
  <2>3. pools[task[u].name] = Mine(u)
    BY <1>1, <2>2 DEF NamedInv
  <2> QED
    BY <1>5, <2>1, <2>2, <2>3
<1>6. ASSUME NEW i \in DOMAIN pool PROVE ClosedInv(i)'
  <2>1. pool'[i].provider = "postgresql" => pool'[i].state = "open"
    BY <1>1 DEF ClosedInv
  <2>2. ASSUME pool'[i].state = "closed", Pooled(i), i \notin adrift',
               NEW u \in Task, Mine(u)' = i
        PROVE  ~Uses(u)'
    <3>1. CASE u # t
      BY <1>1, <1>2, <2>2, <3>1 DEF ClosedInv
    <3>2. CASE u = t
      <4>1. Pooled(Mine(t))'
        BY <2>2, <3>2 DEF Pooled
      <4>2. Uses(t)' => Uses(t) /\ Mine(t) = i /\ pool[i].state = "closed"
        BY <2>2, <3>2, <4>1 DEF Mine
      <4> QED
        BY <1>1, <2>2, <3>2, <4>2 DEF ClosedInv
    <3> QED
      BY <3>1, <3>2
  <2> QED
    BY <2>1, <2>2 DEF ClosedInv, Pooled
<1> QED
  BY <1>3, <1>4, <1>5, <1>6 DEF DbInv

\* What a call's own step does to its record.
LEMMA GoesTo ==
  ASSUME DbType, NEW t \in Task, NEW r, DOMAIN r \subseteq DOMAIN NoTask, Goes(t, r)
  PROVE  /\ DOMAIN task' = Task /\ task' = [u \in Task |-> task'[u]]
         /\ \A u \in Task \ {t} : task'[u] = task[u]
         /\ DOMAIN task'[t] = DOMAIN NoTask
         /\ \A x \in DOMAIN r : task'[t][x] = r[x]
         /\ \A x \in DOMAIN NoTask \ DOMAIN r : task'[t][x] = task[t][x]
<1>1. DOMAIN task = Task /\ task = [u \in Task |-> task[u]] /\ DOMAIN task[t] = DOMAIN NoTask
  BY DEF DbType
<1>2. task' = [task EXCEPT ![t] = With(task[t], r)]
  BY DEF Goes
<1>3. /\ DOMAIN With(task[t], r) = DOMAIN NoTask
      /\ \A x \in DOMAIN r : With(task[t], r)[x] = r[x]
      /\ \A x \in DOMAIN NoTask \ DOMAIN r : With(task[t], r)[x] = task[t][x]
  BY <1>1, Update
<1>4. task'[t] = With(task[t], r) /\ \A u \in Task \ {t} : task'[u] = task[u]
  BY <1>1, <1>2
<1>5. DOMAIN task' = Task /\ task' = [u \in Task |-> task'[u]]
  BY <1>1, <1>2
<1> QED
  BY <1>3, <1>4, <1>5

\* A step of one call that leaves the pools and their names alone.
LEMMA TaskMoves ==
  ASSUME DbInv, NEW t \in Task, NEW r, DOMAIN r \subseteq DOMAIN NoTask, Goes(t, r),
         UNCHANGED <<pools, pool, adrift>>,
         task'[t].pc \in Steps \ {"initialize"}, CallInv(t)', NamedInv(t)',
         Mine(t)' = Mine(t) \/ \E n \in Name : pools[n] = Mine(t)',
         \A i \in DOMAIN pool : Pooled(i) => (Holds(t, i)' <=> Holds(t, i)),
         Uses(t)' /\ Pooled(Mine(t))' =>
           \/ pool[task'[t].pool].state # "closed"
           \/ Uses(t) /\ Mine(t)' = Mine(t)
  PROVE  DbInv'
<1>1. DbType /\ \A i \in DOMAIN pool : CountInv(i)
  BY DEF DbInv
<1>2. /\ DOMAIN task' = Task /\ task' = [u \in Task |-> task'[u]]
      /\ \A u \in Task \ {t} : task'[u] = task[u]
      /\ DOMAIN task'[t] = DOMAIN NoTask
  BY <1>1, GoesTo
<1>3. Mine(t)' \in 0..Len(pool)
  BY <1>1 DEF DbType
<1>4. DbType'
  <2>1. \A u \in Task : /\ DOMAIN task'[u] = DOMAIN NoTask
                        /\ task'[u].pc \in Steps /\ Mine(u)' \in 0..Len(pool)
    BY <1>1, <1>2, <1>3 DEF DbType, Mine
  <2> QED
    BY <1>1, <1>2, <2>1 DEF DbType
<1>5. FreshInv(t)'
  BY DEF FreshInv, At
<1>6. ASSUME NEW i \in DOMAIN pool PROVE CountInv(i)'
  <2>1. CountInv(i) /\ pool[i] \in PoolType
    BY <1>1, <1>6, PoolNumbers
  <2> QED
    BY <1>2, <1>6, <2>1, CountMoves
<1>7. \/ Mine(t)' = Mine(t)
      \/ \E n \in Name : pools[n] = Mine(t)'
  OBVIOUS
<1> QED
  BY <1>2, <1>4, <1>5, <1>6, <1>7, StepKeeps

LEMMA QuietEnd ==
  ASSUME DbInv, NEW t \in Task, NEW told, Ends(t, told), UNCHANGED <<pools, pool, adrift>>,
         task[t].pc \in {"idle", "initialize", "next"}
  PROVE  DbInv'
<1>1. DbType /\ CallInv(t)
  BY DEF DbInv
<1> DEFINE r == [pc |-> "done", told |-> told]
<1>2. /\ Goes(t, r) /\ DOMAIN r = {"pc", "told"} /\ r.pc = "done"
      /\ DOMAIN r \subseteq DOMAIN NoTask
  BY DEF Ends, NoTask
<1> HIDE DEF r
<1>3. /\ \A x \in DOMAIN r : task'[t][x] = r[x]
      /\ \A x \in DOMAIN NoTask \ DOMAIN r : task'[t][x] = task[t][x]
  <2>1. PICK q : q = r
    OBVIOUS
  <2>2. DbType /\ DOMAIN q \subseteq DOMAIN NoTask /\ Goes(t, q)
    BY <1>1, <1>2, <2>1
  <2>3. /\ \A x \in DOMAIN q : task'[t][x] = q[x]
        /\ \A x \in DOMAIN NoTask \ DOMAIN q : task'[t][x] = task[t][x]
    BY <2>2, GoesTo
  <2> QED
    BY <2>1, <2>3
<1>4. task'[t].pc = "done" /\ task'[t].op = task[t].op /\ Mine(t)' = Mine(t)
  BY <1>2, <1>3 DEF NoTask, Mine
<1>5. task[t].op # "query"
  BY <1>1 DEF CallInv
<1>6. CallInv(t)' /\ NamedInv(t)'
  BY <1>4, <1>5 DEF CallInv, NamedInv, At
<1>7. \A i \in DOMAIN pool : Pooled(i) => (Holds(t, i)' <=> Holds(t, i))
  BY <1>4 DEF Holds
<1>8. ~Uses(t)' /\ task'[t].pc \in Steps \ {"initialize"}
  BY <1>4 DEF Uses, Steps
<1> QED
  BY <1>2, <1>4, <1>6, <1>7, <1>8, TaskMoves

LEMMA QueryKeeps ==
  ASSUME DbInv, NEW t \in Task, NEW n \in Name,
         NEW q \in {"select", "insert", "destructive"}, Query(t, n, q)
  PROVE  DbInv'
<1>1. DbType /\ CallInv(t) /\ \A i \in DOMAIN pool : ClosedInv(i)
  BY DEF DbInv
<1>2. CASE Ends(t, "error")
  BY <1>2, QuietEnd DEF Query, Idle
<1> DEFINE r == [pc |-> "acquire", op |-> "query", name |-> n, query |-> q, pool |-> pools[n]]
<1>3. CASE n \in Registered /\ ~Refuses(pools[n]) /\ Goes(t, r)
  <2>1. /\ DOMAIN r \subseteq DOMAIN NoTask
        /\ r.pc = "acquire" /\ r.op = "query" /\ r.name = n /\ r.pool = pools[n]
        /\ DOMAIN r = {"pc", "op", "name", "query", "pool"}
    BY DEF NoTask
  <2> HIDE DEF r
  <2>2. \A x \in DOMAIN r : task'[t][x] = r[x]
    BY <1>1, <1>3, <2>1, GoesTo
  <2>3. /\ task'[t].pc = "acquire" /\ task'[t].op = "query" /\ task'[t].name = n
        /\ Mine(t)' = pools[n]
    BY <2>1, <2>2 DEF Mine
  <2>4. UNCHANGED <<pools, pool, adrift>> /\ task[t].pc = "idle"
    BY DEF Query, Idle
  <2>5. pools[n] # NoPool /\ pools[n] \in DOMAIN pool
    BY <1>1, <1>3, PoolNumbers DEF Registered
  <2>6. CallInv(t)' /\ NamedInv(t)'
    BY <2>3, <2>4, <2>5 DEF CallInv, NamedInv, At
  <2>7. \A i \in DOMAIN pool : Holds(t, i)' <=> Holds(t, i)
    BY <2>3, <2>4 DEF Holds
  <2>8. Pooled(pools[n]) => pool[pools[n]].state # "closed"
    BY <1>1, <1>3, <2>5, PoolNumbers, DatabasesAssumption DEF ClosedInv, Refuses, Pooled, PoolType
  <2>9. task'[t].pc \in Steps \ {"initialize"}
    BY <2>3 DEF Steps
  <2>10. Pooled(Mine(t))' => pool[task'[t].pool].state # "closed"
    BY <2>3, <2>4, <2>8 DEF Pooled, Mine
  <2> QED
    BY <1>3, <2>1, <2>3, <2>4, <2>6, <2>7, <2>9, <2>10, TaskMoves
<1> QED
  BY <1>2, <1>3 DEF Query

LEMMA ExecuteKeeps ==
  ASSUME DbInv, NEW t \in Task, Execute(t)
  PROVE  DbInv'
<1>1. DbType /\ CallInv(t) /\ NamedInv(t) /\ At(t, "execute") /\ UNCHANGED <<pools, pool, adrift>>
  BY DEF DbInv, Execute
<1>2. /\ task[t].op = "query" /\ Mine(t) # NoPool /\ task[t].name \in Name
      /\ pool[Mine(t)] \in PoolType
  BY <1>1, PoolNumbers DEF CallInv, At
<1>3. PICK told, ran :
        /\ Goes(t, [pc |-> "release", told |-> told, ran |-> ran])
        /\ told = "ok" => ran = Ran(pool[Mine(t)].provider, task[t].query)
  <2>1. CASE \E n \in 0..Ran(pool[Mine(t)].provider, task[t].query) :
               Goes(t, [pc |-> "release", told |-> "error", ran |-> n])
    <3>1. PICK n : Goes(t, [pc |-> "release", told |-> "error", ran |-> n])
      BY <2>1
    <3> QED
      <4> WITNESS "error", n
      <4> QED
        BY <3>1
  <2>2. CASE Goes(t, [pc |-> "release", told |-> "ok",
                      ran |-> Ran(pool[Mine(t)].provider, task[t].query)])
    BY <2>2
  <2> QED
    BY <2>1, <2>2 DEF Execute
<1> DEFINE r == [pc |-> "release", told |-> told, ran |-> ran]
<1>4. /\ DOMAIN r \subseteq DOMAIN NoTask /\ Goes(t, r)
      /\ r.pc = "release" /\ r.told = told /\ r.ran = ran
      /\ DOMAIN r = {"pc", "told", "ran"}
  BY <1>3 DEF NoTask
<1> HIDE DEF r
<1>5. /\ \A x \in DOMAIN r : task'[t][x] = r[x]
      /\ \A x \in DOMAIN NoTask \ DOMAIN r : task'[t][x] = task[t][x]
  BY <1>1, <1>4, GoesTo
<1>6. /\ task'[t].pc = "release" /\ task'[t].told = told /\ task'[t].ran = ran
      /\ task'[t].op = "query" /\ task'[t].name = task[t].name
      /\ task'[t].query = task[t].query /\ Mine(t)' = Mine(t)
  BY <1>2, <1>4, <1>5 DEF NoTask, Mine
<1>7. RanRight(t)'
  <2> SUFFICES ASSUME told = "ok", Changes(task[t].query)
               PROVE  ran = (IF Pooled(Mine(t)) THEN 1 ELSE 0)
    BY <1>1, <1>6 DEF RanRight, Pooled
  <2>1. pool[Mine(t)].provider \in {"postgresql", "mysql", "sqlite"}
    BY <1>2, DatabasesAssumption DEF PoolType
  <2> QED
    BY <1>3, <2>1 DEF Ran, Pooled, Changes
<1>8. CallInv(t)' /\ NamedInv(t)'
  BY <1>1, <1>2, <1>6, <1>7 DEF CallInv, NamedInv, At, Uses, Pooled
<1>9. \A i \in DOMAIN pool : Holds(t, i)' <=> Holds(t, i)
  BY <1>1, <1>6 DEF Holds, At
<1>10. task'[t].pc \in Steps \ {"initialize"} /\ Uses(t)
  BY <1>1, <1>6 DEF Steps, Uses, At
<1> QED
  BY <1>1, <1>4, <1>6, <1>8, <1>9, <1>10, TaskMoves

LEMMA AllKeeps ==
  ASSUME DbInv, NEW t \in Task, NEW op, op # "query", All(t, op)
  PROVE  DbInv'
<1>1. DbType /\ Idle(t) /\ UNCHANGED <<pools, pool, adrift>>
  BY DEF DbInv, All
<1> DEFINE r == [pc |-> "next", op |-> op, left |-> Name, size |-> Cardinality(Registered)]
<1>2. /\ DOMAIN r \subseteq DOMAIN NoTask /\ Goes(t, r) /\ r.pc = "next" /\ r.op = op
      /\ DOMAIN r = {"pc", "op", "left", "size"}
  BY DEF NoTask, All
<1> HIDE DEF r
<1>3. /\ \A x \in DOMAIN r : task'[t][x] = r[x]
      /\ \A x \in DOMAIN NoTask \ DOMAIN r : task'[t][x] = task[t][x]
  <2>1. PICK q : q = r
    OBVIOUS
  <2>2. DbType /\ DOMAIN q \subseteq DOMAIN NoTask /\ Goes(t, q)
    BY <1>1, <1>2, <2>1
  <2>3. /\ \A x \in DOMAIN q : task'[t][x] = q[x]
        /\ \A x \in DOMAIN NoTask \ DOMAIN q : task'[t][x] = task[t][x]
    BY <2>2, GoesTo
  <2> QED
    BY <2>1, <2>3
<1>4. task'[t].pc = "next" /\ task'[t].op = op /\ Mine(t)' = Mine(t)
  BY <1>2, <1>3 DEF NoTask, Mine
<1>5. CallInv(t)' /\ NamedInv(t)' /\ ~Uses(t)' /\ task'[t].pc \in Steps \ {"initialize"}
  BY <1>4 DEF CallInv, NamedInv, At, Uses, Steps
<1>6. \A i \in DOMAIN pool : Holds(t, i)' <=> Holds(t, i)
  BY <1>1, <1>4 DEF Holds, Idle
<1> QED
  BY <1>1, <1>2, <1>4, <1>5, <1>6, TaskMoves

LEMMA TestNextKeeps ==
  ASSUME DbInv, NEW t \in Task, NEW n \in Name, TestNext(t, n)
  PROVE  DbInv'
<1>1. /\ DbType /\ At(t, "next") /\ task[t].op = "test all" /\ n \in Registered
      /\ UNCHANGED <<pools, pool, adrift>> /\ \A i \in DOMAIN pool : ClosedInv(i)
  BY DEF DbInv, TestNext
<1> DEFINE pc == IF Refuses(pools[n]) THEN "next" ELSE "acquire"
           r == [pc |-> pc, pool |-> pools[n], left |-> task[t].left \ {n}]
<1>2. /\ DOMAIN r \subseteq DOMAIN NoTask /\ Goes(t, r) /\ r.pc = pc /\ r.pool = pools[n]
      /\ DOMAIN r = {"pc", "pool", "left"}
  BY DEF NoTask, TestNext
<1> HIDE DEF pc, r
<1>3. /\ \A x \in DOMAIN r : task'[t][x] = r[x]
      /\ \A x \in DOMAIN NoTask \ DOMAIN r : task'[t][x] = task[t][x]
  <2>1. PICK q : q = r
    OBVIOUS
  <2>2. DbType /\ DOMAIN q \subseteq DOMAIN NoTask /\ Goes(t, q)
    BY <1>1, <1>2, <2>1
  <2>3. /\ \A x \in DOMAIN q : task'[t][x] = q[x]
        /\ \A x \in DOMAIN NoTask \ DOMAIN q : task'[t][x] = task[t][x]
    BY <2>2, GoesTo
  <2> QED
    BY <2>1, <2>3
<1>4. task'[t].pc = pc /\ task'[t].op = "test all" /\ Mine(t)' = pools[n]
  BY <1>1, <1>2, <1>3 DEF NoTask, Mine
<1>5. pools[n] # NoPool /\ pools[n] \in DOMAIN pool
  BY <1>1, PoolNumbers DEF Registered
<1>6. CallInv(t)' /\ NamedInv(t)' /\ task'[t].pc \in Steps \ {"initialize"}
  BY <1>4, <1>5 DEF pc, CallInv, NamedInv, At, Steps
<1>7. \A i \in DOMAIN pool : Holds(t, i)' <=> Holds(t, i)
  BY <1>1, <1>4 DEF pc, Holds, At
<1>8. pc = "acquire" /\ Pooled(pools[n]) => pool[pools[n]].state # "closed"
  BY <1>1, <1>5, PoolNumbers, DatabasesAssumption DEF pc, ClosedInv, Refuses, Pooled, PoolType
<1>9. Uses(t)' /\ Pooled(Mine(t))' => pool[task'[t].pool].state # "closed"
  BY <1>1, <1>4, <1>8 DEF pc, Uses, Pooled, Mine
<1> QED
  BY <1>1, <1>2, <1>4, <1>6, <1>7, <1>9, TaskMoves

\* A field of one pool changes.
LEMMA OutChanges ==
  ASSUME DbType, NEW i \in DOMAIN pool, NEW e \in Int, pool' = [pool EXCEPT ![i].out = e]
  PROVE  /\ pool' \in Seq(PoolType) /\ Len(pool') = Len(pool)
         /\ \A j \in DOMAIN pool :
              /\ pool'[j].provider = pool[j].provider /\ pool'[j].state = pool[j].state
              /\ pool'[j].failed = pool[j].failed
              /\ pool'[j].out = IF j = i THEN e ELSE pool[j].out
<1> DEFINE p == [pool[i] EXCEPT !.out = e]
<1>1. pool \in Seq(PoolType) /\ pool[i] \in PoolType
  BY PoolNumbers DEF DbType
<1>2. /\ p \in PoolType /\ p.provider = pool[i].provider
      /\ p.state = pool[i].state /\ p.failed = pool[i].failed /\ p.out = e
  BY <1>1 DEF PoolType
<1>3. pool' = [pool EXCEPT ![i] = p]
  OBVIOUS
<1> HIDE DEF p
<1>4. pool' \in Seq(PoolType) /\ Len(pool') = Len(pool)
  BY <1>1, <1>2, <1>3
<1>5. \A j \in DOMAIN pool : pool'[j] = IF j = i THEN p ELSE pool[j]
  BY <1>3
<1> QED
  BY <1>2, <1>4, <1>5

LEMMA FailedChanges ==
  ASSUME DbType, NEW i \in DOMAIN pool, NEW e \in Nat, pool' = [pool EXCEPT ![i].failed = e]
  PROVE  /\ pool' \in Seq(PoolType) /\ Len(pool') = Len(pool)
         /\ \A j \in DOMAIN pool :
              /\ pool'[j].provider = pool[j].provider /\ pool'[j].state = pool[j].state
              /\ pool'[j].out = pool[j].out
              /\ pool'[j].failed = IF j = i THEN e ELSE pool[j].failed
<1> DEFINE p == [pool[i] EXCEPT !.failed = e]
<1>1. pool \in Seq(PoolType) /\ pool[i] \in PoolType
  BY PoolNumbers DEF DbType
<1>2. /\ p \in PoolType /\ p.provider = pool[i].provider
      /\ p.state = pool[i].state /\ p.out = pool[i].out /\ p.failed = e
  BY <1>1 DEF PoolType
<1>3. pool' = [pool EXCEPT ![i] = p]
  OBVIOUS
<1> HIDE DEF p
<1>4. pool' \in Seq(PoolType) /\ Len(pool') = Len(pool)
  BY <1>1, <1>2, <1>3
<1>5. \A j \in DOMAIN pool : pool'[j] = IF j = i THEN p ELSE pool[j]
  BY <1>3
<1> QED
  BY <1>2, <1>4, <1>5

LEMMA StateChanges ==
  ASSUME DbType, NEW i \in DOMAIN pool, NEW e \in PoolStates,
         pool' = [pool EXCEPT ![i].state = e]
  PROVE  /\ pool' \in Seq(PoolType) /\ Len(pool') = Len(pool)
         /\ \A j \in DOMAIN pool :
              /\ pool'[j].provider = pool[j].provider /\ pool'[j].out = pool[j].out
              /\ pool'[j].failed = pool[j].failed
              /\ pool'[j].state = IF j = i THEN e ELSE pool[j].state
<1> DEFINE p == [pool[i] EXCEPT !.state = e]
<1>1. pool \in Seq(PoolType) /\ pool[i] \in PoolType
  BY PoolNumbers DEF DbType
<1>2. /\ p \in PoolType /\ p.provider = pool[i].provider
      /\ p.failed = pool[i].failed /\ p.out = pool[i].out /\ p.state = e
  BY <1>1 DEF PoolType, PoolStates
<1>3. pool' = [pool EXCEPT ![i] = p]
  OBVIOUS
<1> HIDE DEF p
<1>4. pool' \in Seq(PoolType) /\ Len(pool') = Len(pool)
  BY <1>1, <1>2, <1>3
<1>5. \A j \in DOMAIN pool : pool'[j] = IF j = i THEN p ELSE pool[j]
  BY <1>3
<1> QED
  BY <1>2, <1>4, <1>5

\* A step of one call that touches one pool and no name.
LEMMA PoolMoves ==
  ASSUME DbInv, NEW t \in Task, NEW r, DOMAIN r \subseteq DOMAIN NoTask, Goes(t, r),
         UNCHANGED <<pools, adrift>>, pool' \in Seq(PoolType), Len(pool') = Len(pool),
         task'[t].pc \in Steps \ {"initialize"}, CallInv(t)', NamedInv(t)',
         Mine(t)' = Mine(t) \/ \E n \in Name : pools[n] = Mine(t)',
         \A j \in DOMAIN pool :
           /\ pool'[j].provider = pool[j].provider
           /\ \/ pool'[j].state = pool[j].state
              \/ /\ pool[j].provider # "postgresql" /\ pool'[j].state # "closed"
                 /\ j = Mine(t) \/ \E n \in Name : pools[n] = j
           /\ Pooled(j) /\ j \notin adrift =>
                \/ /\ Holds(t, j)' <=> Holds(t, j)
                   /\ pool'[j].out = pool[j].out /\ pool'[j].failed = pool[j].failed
                \/ /\ Holds(t, j)' /\ ~Holds(t, j)
                   /\ pool'[j].out = pool[j].out + 1 /\ pool'[j].failed = pool[j].failed
                \/ /\ ~Holds(t, j)' /\ Holds(t, j)
                   /\ \/ pool'[j].out = pool[j].out - 1 /\ pool'[j].failed = pool[j].failed
                      \/ pool'[j].out = pool[j].out /\ pool'[j].failed = pool[j].failed + 1,
         Uses(t)' =>
           Uses(t) /\ Mine(t)' = Mine(t) /\ pool'[Mine(t)].state = pool[Mine(t)].state
  PROVE  DbInv'
<1>1. DbType /\ \A j \in DOMAIN pool : CountInv(j)
  BY DEF DbInv
<1>2. /\ DOMAIN task' = Task /\ task' = [u \in Task |-> task'[u]]
      /\ \A u \in Task \ {t} : task'[u] = task[u]
      /\ DOMAIN task'[t] = DOMAIN NoTask
  BY <1>1, GoesTo
<1>3. Mine(t)' \in 0..Len(pool)
  BY <1>1 DEF DbType
<1>4. DbType'
  <2>1. \A u \in Task : /\ DOMAIN task'[u] = DOMAIN NoTask
                        /\ task'[u].pc \in Steps /\ Mine(u)' \in 0..Len(pool)
    BY <1>1, <1>2, <1>3 DEF DbType, Mine
  <2> QED
    BY <1>1, <1>2, <2>1 DEF DbType
<1>5. DOMAIN pool' = DOMAIN pool /\ \A j \in DOMAIN pool : pool'[j] \in PoolType
  <2>1. DOMAIN pool' = 1..Len(pool') /\ \A j \in 1..Len(pool') : pool'[j] \in PoolType
    OBVIOUS
  <2> QED
    BY <1>1, <2>1, PoolNumbers
<1>6. FreshInv(t)'
  BY DEF FreshInv, At
<1>7. ASSUME NEW j \in DOMAIN pool PROVE CountInv(j)'
  <2>1. CountInv(j) /\ pool[j] \in PoolType /\ pool'[j] \in PoolType
    BY <1>1, <1>5, <1>7, PoolNumbers
  <2> QED
    BY <1>2, <1>7, <2>1, CountMoves
<1> QED
  BY <1>2, <1>4, <1>5, <1>6, <1>7, StepKeeps

LEMMA AcquiredKeeps ==
  ASSUME DbInv, NEW t \in Task, Acquired(t)
  PROVE  DbInv'
<1>1. /\ DbType /\ CallInv(t) /\ NamedInv(t) /\ At(t, "acquire")
      /\ UNCHANGED <<pools, adrift>>
  BY DEF DbInv, Acquired
<1>2. Mine(t) # NoPool /\ Mine(t) \in DOMAIN pool /\ (task[t].op = "query" => task[t].name \in Name)
  BY <1>1, PoolNumbers DEF CallInv, At
<1> DEFINE pc == IF task[t].op = "query" THEN "execute" ELSE "probe"
           r == [pc |-> pc]
<1>3. DOMAIN r \subseteq DOMAIN NoTask /\ Goes(t, r) /\ r.pc = pc /\ DOMAIN r = {"pc"}
  BY DEF NoTask, Acquired
<1> HIDE DEF r
<1>4. /\ \A x \in DOMAIN r : task'[t][x] = r[x]
      /\ \A x \in DOMAIN NoTask \ DOMAIN r : task'[t][x] = task[t][x]
  BY <1>1, <1>3, GoesTo
<1>5. /\ task'[t].pc = pc /\ task'[t].op = task[t].op /\ task'[t].name = task[t].name
      /\ Mine(t)' = Mine(t)
  BY <1>3, <1>4 DEF NoTask, Mine
<1>6. /\ pool' \in Seq(PoolType) /\ Len(pool') = Len(pool)
      /\ \A j \in DOMAIN pool :
           /\ pool'[j].provider = pool[j].provider /\ pool'[j].state = pool[j].state
           /\ pool'[j].failed = pool[j].failed
           /\ Pooled(j) => pool'[j].out = pool[j].out + (IF j = Mine(t) THEN 1 ELSE 0)
  <2>1. \A j \in DOMAIN pool : pool[j] \in PoolType
    BY <1>1, PoolNumbers
  <2>2. CASE Pooled(Mine(t))
    <3>1. pool[Mine(t)].out \in Int /\ pool[Mine(t)].out + 1 \in Int
      BY <1>2, <2>1 DEF PoolType
    <3>2. pool' = [pool EXCEPT ![Mine(t)].out = pool[Mine(t)].out + 1]
      BY <2>2 DEF Acquired
    <3>3. \A j \in DOMAIN pool : pool[j].out \in Int
      BY <2>1 DEF PoolType
    <3>4. /\ pool' \in Seq(PoolType) /\ Len(pool') = Len(pool)
          /\ \A j \in DOMAIN pool :
               /\ pool'[j].provider = pool[j].provider /\ pool'[j].state = pool[j].state
               /\ pool'[j].failed = pool[j].failed
               /\ pool'[j].out = IF j = Mine(t) THEN pool[Mine(t)].out + 1 ELSE pool[j].out
      BY <1>1, <1>2, <3>1, <3>2, OutChanges
    <3> QED
      BY <3>3, <3>4
  <2>3. CASE ~Pooled(Mine(t))
    <3>1. pool' = pool
      BY <2>3 DEF Acquired
    <3>2. \A j \in DOMAIN pool : pool[j].out \in Int
      BY <2>1 DEF PoolType
    <3> QED
      BY <1>1, <2>3, <3>1, <3>2 DEF DbType
  <2> QED
    BY <2>2, <2>3
<1>7. CallInv(t)' /\ NamedInv(t)'
  BY <1>1, <1>2, <1>5, <1>6 DEF CallInv, NamedInv, At, Uses, Pooled
<1>8. Uses(t) /\ task'[t].pc \in Steps \ {"initialize"}
  BY <1>1, <1>5 DEF At, Uses, Steps
<1>9. ASSUME NEW j \in DOMAIN pool, Pooled(j), j \notin adrift
      PROVE  \/ /\ Holds(t, j)' <=> Holds(t, j)
                /\ pool'[j].out = pool[j].out /\ pool'[j].failed = pool[j].failed
             \/ /\ Holds(t, j)' /\ ~Holds(t, j)
                /\ pool'[j].out = pool[j].out + 1 /\ pool'[j].failed = pool[j].failed
  <2>1. CASE j = Mine(t)
    <3>1. ~Holds(t, j) /\ Holds(t, j)'
      BY <1>1, <1>5, <2>1 DEF Holds, At
    <3> QED
      BY <1>6, <1>9, <2>1, <3>1
  <2>2. CASE j # Mine(t)
    <3>1. ~Holds(t, j) /\ ~Holds(t, j)'
      BY <1>5, <2>2 DEF Holds
    <3>2. pool[j].out \in Int
      BY <1>1, PoolNumbers DEF PoolType
    <3> QED
      BY <1>6, <1>9, <2>2, <3>1, <3>2
  <2> QED
    BY <2>1, <2>2
<1> HIDE DEF pc
<1> QED
  BY <1>1, <1>2, <1>3, <1>5, <1>6, <1>7, <1>8, <1>9, PoolMoves

\* A connection goes back to its pool, or is counted as lost.
LEMMA GivesBack ==
  ASSUME DbInv, NEW t \in Task, NEW r, DOMAIN r \subseteq DOMAIN NoTask, Goes(t, r),
         UNCHANGED <<pools, adrift>>, At(t, "release") \/ At(t, "probe"),
         task'[t].pc \in {"done", "next"}, Mine(t)' = Mine(t), CallInv(t)',
         \/ pool' = pool /\ (~Pooled(Mine(t)) \/ Mine(t) \in adrift)
         \/ pool' = [pool EXCEPT ![Mine(t)].out = @ - 1]
         \/ pool' = [pool EXCEPT ![Mine(t)].failed = @ + 1]
  PROVE  DbInv'
<1>1. DbType /\ CallInv(t)
  BY DEF DbInv
<1>2. /\ Mine(t) \in DOMAIN pool
      /\ \A j \in DOMAIN pool : pool[j].out \in Int /\ pool[j].failed \in Nat
  BY <1>1, PoolNumbers DEF CallInv, At, PoolType
<1>3. /\ pool' \in Seq(PoolType) /\ Len(pool') = Len(pool)
      /\ \A j \in DOMAIN pool :
           /\ pool'[j].provider = pool[j].provider /\ pool'[j].state = pool[j].state
           /\ \/ j = Mine(t) /\ (~Pooled(j) \/ j \in adrift)
              \/ j # Mine(t) /\ pool'[j].out = pool[j].out /\ pool'[j].failed = pool[j].failed
              \/ /\ j = Mine(t)
                 /\ \/ pool'[j].out = pool[j].out - 1 /\ pool'[j].failed = pool[j].failed
                    \/ pool'[j].out = pool[j].out /\ pool'[j].failed = pool[j].failed + 1
  <2>1. CASE pool' = pool /\ (~Pooled(Mine(t)) \/ Mine(t) \in adrift)
    BY <1>1, <2>1 DEF DbType
  <2>2. CASE pool' = [pool EXCEPT ![Mine(t)].out = @ - 1]
    <3>1. pool[Mine(t)].out - 1 \in Int
      BY <1>2
    <3>2. /\ pool' \in Seq(PoolType) /\ Len(pool') = Len(pool)
          /\ \A j \in DOMAIN pool :
               /\ pool'[j].provider = pool[j].provider /\ pool'[j].state = pool[j].state
               /\ pool'[j].failed = pool[j].failed
               /\ pool'[j].out = IF j = Mine(t) THEN pool[Mine(t)].out - 1 ELSE pool[j].out
      <4>1. PICK i \in DOMAIN pool, e \in Int : i = Mine(t) /\ e = pool[Mine(t)].out - 1
        BY <1>2, <3>1
      <4>2. pool' = [pool EXCEPT ![i].out = e]
        BY <2>2, <4>1
      <4>3. /\ pool' \in Seq(PoolType) /\ Len(pool') = Len(pool)
            /\ \A j \in DOMAIN pool :
                 /\ pool'[j].provider = pool[j].provider /\ pool'[j].state = pool[j].state
                 /\ pool'[j].failed = pool[j].failed
                 /\ pool'[j].out = IF j = i THEN e ELSE pool[j].out
        BY <1>1, <4>2, OutChanges
      <4> QED
        BY <4>1, <4>3
    <3> QED
      BY <3>2
  <2>3. CASE pool' = [pool EXCEPT ![Mine(t)].failed = @ + 1]
    <3>1. pool[Mine(t)].failed + 1 \in Nat
      BY <1>2
    <3>2. /\ pool' \in Seq(PoolType) /\ Len(pool') = Len(pool)
          /\ \A j \in DOMAIN pool :
               /\ pool'[j].provider = pool[j].provider /\ pool'[j].state = pool[j].state
               /\ pool'[j].out = pool[j].out
               /\ pool'[j].failed =
                    IF j = Mine(t) THEN pool[Mine(t)].failed + 1 ELSE pool[j].failed
      <4>1. PICK i \in DOMAIN pool, e \in Nat : i = Mine(t) /\ e = pool[Mine(t)].failed + 1
        BY <1>2, <3>1
      <4>2. pool' = [pool EXCEPT ![i].failed = e]
        BY <2>3, <4>1
      <4>3. /\ pool' \in Seq(PoolType) /\ Len(pool') = Len(pool)
            /\ \A j \in DOMAIN pool :
                 /\ pool'[j].provider = pool[j].provider /\ pool'[j].state = pool[j].state
                 /\ pool'[j].out = pool[j].out
                 /\ pool'[j].failed = IF j = i THEN e ELSE pool[j].failed
        BY <1>1, <4>2, FailedChanges
      <4> QED
        BY <4>1, <4>3
    <3> QED
      BY <3>2
  <2> QED
    BY <2>1, <2>2, <2>3
<1>4. ~Uses(t)' /\ NamedInv(t)' /\ task'[t].pc \in Steps \ {"initialize"}
  BY DEF NamedInv, Uses, Steps
<1>5. ASSUME NEW j \in DOMAIN pool, Pooled(j), j \notin adrift
      PROVE  \/ /\ Holds(t, j)' <=> Holds(t, j)
                /\ pool'[j].out = pool[j].out /\ pool'[j].failed = pool[j].failed
             \/ /\ ~Holds(t, j)' /\ Holds(t, j)
                /\ \/ pool'[j].out = pool[j].out - 1 /\ pool'[j].failed = pool[j].failed
                   \/ pool'[j].out = pool[j].out /\ pool'[j].failed = pool[j].failed + 1
  <2>1. ~Holds(t, j)' /\ (Holds(t, j) <=> Mine(t) = j)
    BY DEF Holds, At
  <2> QED
    BY <1>3, <1>5, <2>1
<1> QED
  BY <1>3, <1>4, <1>5, PoolMoves

LEMMA ReleaseKeeps ==
  ASSUME DbInv, NEW t \in Task, Release(t)
  PROVE  DbInv'
<1>1. /\ DbType /\ CallInv(t) /\ NamedInv(t) /\ At(t, "release")
      /\ UNCHANGED <<pools, adrift>>
  BY DEF DbInv, Release
<1>2. /\ task[t].op = "query" /\ Mine(t) # NoPool /\ task[t].name \in Name /\ RanRight(t)
      /\ Uses(t)
  BY <1>1 DEF CallInv, At, Uses
<1>3. PICK told : Ends(t, told) /\ (told = task[t].told \/ told = "error")
  BY DEF Release
<1> DEFINE r == [pc |-> "done", told |-> told]
<1>4. /\ Goes(t, r) /\ DOMAIN r = {"pc", "told"} /\ r.pc = "done" /\ r.told = told
      /\ DOMAIN r \subseteq DOMAIN NoTask
  BY <1>3 DEF Ends, NoTask
<1> HIDE DEF r
<1>5. /\ \A x \in DOMAIN r : task'[t][x] = r[x]
      /\ \A x \in DOMAIN NoTask \ DOMAIN r : task'[t][x] = task[t][x]
  BY <1>1, <1>4, GoesTo
<1>6. /\ task'[t].pc = "done" /\ task'[t].told = told /\ task'[t].op = "query"
      /\ task'[t].query = task[t].query /\ task'[t].ran = task[t].ran /\ Mine(t)' = Mine(t)
  BY <1>2, <1>4, <1>5 DEF NoTask, Mine
<1>7. /\ \/ pool' = pool /\ (~Pooled(Mine(t)) \/ Mine(t) \in adrift)
         \/ pool' = [pool EXCEPT ![Mine(t)].out = @ - 1]
      /\ Pooled(Mine(t)) <=> Pooled(Mine(t))'
  <2>1. CASE Pooled(Mine(t)) /\ pools[task[t].name] = Mine(t)
    <3>1. pool' = [pool EXCEPT ![Mine(t)].out = @ - 1]
      BY <2>1 DEF Release, Back
    <3>2. Mine(t) \in DOMAIN pool /\ pool[Mine(t)].out - 1 \in Int
      BY <1>1, <1>2, PoolNumbers DEF PoolType
    <3>3. \A j \in DOMAIN pool : pool'[j].provider = pool[j].provider
      BY <1>1, <3>1, <3>2, OutChanges
    <3> QED
      BY <1>6, <3>1, <3>2, <3>3 DEF Pooled
  <2>2. CASE ~Pooled(Mine(t))
    BY <1>6, <2>2 DEF Release, Back, Pooled
  <2>3. CASE Pooled(Mine(t)) /\ pools[task[t].name] # Mine(t)
    <3>1. pool' = pool
      BY <2>3 DEF Release
    <3>2. Mine(t) \in adrift
      BY <1>1, <1>2, <2>3 DEF NamedInv
    <3> QED
      BY <1>6, <3>1, <3>2 DEF Pooled
  <2> QED
    BY <2>1, <2>2, <2>3
<1>8. CallInv(t)'
  <2>1. RanRight(t)'
    BY <1>2, <1>3, <1>6, <1>7 DEF RanRight, Pooled
  <2> QED
    BY <1>2, <1>6, <2>1 DEF CallInv, At
<1> QED
  BY <1>1, <1>4, <1>6, <1>7, <1>8, GivesBack

LEMMA ProbeKeeps ==
  ASSUME DbInv, NEW t \in Task, Probe(t)
  PROVE  DbInv'
<1>1. DbType /\ CallInv(t) /\ At(t, "probe") /\ UNCHANGED <<pools, adrift>>
  BY DEF DbInv, Probe
<1>2. task[t].op # "query" /\ Mine(t) # NoPool
  BY <1>1 DEF CallInv, At
<1>3. \/ pool' = pool /\ (~Pooled(Mine(t)) \/ Mine(t) \in adrift)
      \/ pool' = [pool EXCEPT ![Mine(t)].out = @ - 1]
      \/ pool' = [pool EXCEPT ![Mine(t)].failed = @ + 1]
  BY DEF Probe, Back
<1>4. CASE Goes(t, [pc |-> "next"])
  <2> DEFINE r == [pc |-> "next"]
  <2>1. /\ Goes(t, r) /\ DOMAIN r = {"pc"} /\ r.pc = "next"
        /\ DOMAIN r \subseteq DOMAIN NoTask
    BY <1>4 DEF NoTask
  <2> HIDE DEF r
  <2>2. /\ \A x \in DOMAIN r : task'[t][x] = r[x]
        /\ \A x \in DOMAIN NoTask \ DOMAIN r : task'[t][x] = task[t][x]
    BY <1>1, <2>1, GoesTo
  <2>3. task'[t].pc = "next" /\ task'[t].op = task[t].op /\ Mine(t)' = Mine(t)
    BY <2>1, <2>2 DEF NoTask, Mine
  <2>4. CallInv(t)'
    BY <1>2, <2>3 DEF CallInv, At
  <2> QED
    BY <1>1, <1>3, <2>1, <2>3, <2>4, GivesBack
<1>5. ASSUME NEW told, Ends(t, told) PROVE DbInv'
  <2> DEFINE r == [pc |-> "done", told |-> told]
  <2>1. /\ Goes(t, r) /\ DOMAIN r = {"pc", "told"} /\ r.pc = "done"
        /\ DOMAIN r \subseteq DOMAIN NoTask
    BY <1>5 DEF NoTask, Ends
  <2> HIDE DEF r
  <2>2. /\ \A x \in DOMAIN r : task'[t][x] = r[x]
        /\ \A x \in DOMAIN NoTask \ DOMAIN r : task'[t][x] = task[t][x]
    BY <1>1, <2>1, GoesTo
  <2>3. task'[t].pc = "done" /\ task'[t].op = task[t].op /\ Mine(t)' = Mine(t)
    BY <2>1, <2>2 DEF NoTask, Mine
  <2>4. CallInv(t)'
    BY <1>2, <2>3 DEF CallInv, At
  <2> QED
    BY <1>1, <1>3, <2>1, <2>3, <2>4, GivesBack
<1>6. Goes(t, [pc |-> "next"]) \/ \E told : Ends(t, told)
  BY DEF Probe
<1> QED
  BY <1>4, <1>5, <1>6

LEMMA CloseKeeps ==
  ASSUME DbInv, NEW t \in Task, NEW n \in Registered, NEW r, Close(t, n, r),
         UNCHANGED <<pools, adrift>>, task[t].pc \in {"idle", "next"},
         DOMAIN r \subseteq {"op", "left"}, "op" \in DOMAIN r => r["op"] = "remove"
  PROVE  DbInv'
<1>1. DbType /\ CallInv(t)
  BY DEF DbInv
<1>2. CASE Ends(t, "error") /\ UNCHANGED pool
  BY <1>2, QuietEnd
<1> DEFINE c == With([pc |-> "close", name |-> n, pool |-> pools[n]], r)
<1>3. CASE /\ Goes(t, c) /\ pool[pools[n]].provider # "postgresql"
           /\ pool' = [pool EXCEPT ![pools[n]].state = IF @ = "closed" THEN @ ELSE "closing"]
  <2>1. n \in Name /\ pools[n] # NoPool /\ pools[n] \in DOMAIN pool
    BY <1>1, PoolNumbers DEF Registered
  <2>2. /\ DOMAIN c = {"pc", "name", "pool"} \cup DOMAIN r
        /\ c["pc"] = "close" /\ c["name"] = n /\ c["pool"] = pools[n]
        /\ "op" \in DOMAIN c => c["op"] = "remove"
    <3> DEFINE b == [pc |-> "close", name |-> n, pool |-> pools[n]]
    <3>1. /\ DOMAIN b = {"pc", "name", "pool"}
          /\ b["pc"] = "close" /\ b["name"] = n /\ b["pool"] = pools[n]
      OBVIOUS
    <3>2. c = With(b, r)
      OBVIOUS
    <3> HIDE DEF b, c
    <3> QED
      BY <3>1, <3>2 DEF With
  <2>3. DOMAIN c \subseteq DOMAIN NoTask
    BY <2>2 DEF NoTask
  <2> HIDE DEF c
  <2>4. /\ \A x \in DOMAIN c : task'[t][x] = c[x]
        /\ \A x \in DOMAIN NoTask \ DOMAIN c : task'[t][x] = task[t][x]
    BY <1>1, <1>3, <2>3, GoesTo
  <2>5. task'[t].pc = "close" /\ task'[t].name = n /\ Mine(t)' = pools[n]
    BY <2>2, <2>4 DEF Mine
  <2>6. task'[t].op # "query"
    <3>1. "op" \in DOMAIN NoTask
      BY DEF NoTask
    <3>2. task[t].op # "query"
      BY <1>1 DEF CallInv
    <3> QED
      BY <2>2, <2>4, <3>1, <3>2
  <2>7. PICK e \in {"closing", "closed"} :
          /\ pool' = [pool EXCEPT ![pools[n]].state = e]
          /\ e = "closed" <=> pool[pools[n]].state = "closed"
    BY <1>3
  <2>8. e \in PoolStates
    BY DEF PoolStates
  <2>9. /\ pool' \in Seq(PoolType) /\ Len(pool') = Len(pool)
        /\ \A j \in DOMAIN pool :
             /\ pool'[j].provider = pool[j].provider /\ pool'[j].out = pool[j].out
             /\ pool'[j].failed = pool[j].failed
             /\ pool'[j].state = IF j = pools[n] THEN e ELSE pool[j].state
    <3>1. PICK i \in DOMAIN pool : i = pools[n]
      BY <2>1
    <3>2. pool' = [pool EXCEPT ![i].state = e]
      BY <2>7, <3>1
    <3>3. /\ pool' \in Seq(PoolType) /\ Len(pool') = Len(pool)
          /\ \A j \in DOMAIN pool :
               /\ pool'[j].provider = pool[j].provider /\ pool'[j].out = pool[j].out
               /\ pool'[j].failed = pool[j].failed
               /\ pool'[j].state = IF j = i THEN e ELSE pool[j].state
      BY <1>1, <2>8, <3>2, StateChanges
    <3> QED
      BY <3>1, <3>3
  <2>10. CallInv(t)' /\ NamedInv(t)' /\ ~Uses(t)' /\ task'[t].pc \in Steps \ {"initialize"}
    BY <1>3, <2>1, <2>5, <2>6, <2>9 DEF CallInv, NamedInv, At, Uses, Steps
  <2>11. \A j \in DOMAIN pool : Holds(t, j)' <=> Holds(t, j)
    BY <2>5 DEF Holds
  <2>12. ASSUME NEW j \in DOMAIN pool
         PROVE  \/ pool'[j].state = pool[j].state
                \/ /\ pool[j].provider # "postgresql" /\ pool'[j].state # "closed"
                   /\ \E m \in Name : pools[m] = j
    BY <1>3, <2>1, <2>7, <2>9, <2>12
  <2> QED
    BY <1>3, <2>1, <2>3, <2>5, <2>9, <2>10, <2>11, <2>12, PoolMoves
<1> QED
  BY <1>2, <1>3 DEF Close

LEMMA RemoveDatabaseKeeps ==
  ASSUME DbInv, NEW t \in Task, NEW n \in Name, RemoveDatabase(t, n)
  PROVE  DbInv'
<1>1. CASE n \in Registered
  <2> DEFINE r == [op |-> "remove"]
  <2>1. DOMAIN r \subseteq {"op", "left"} /\ r["op"] = "remove"
    OBVIOUS
  <2>2. Close(t, n, r)
    BY <1>1 DEF RemoveDatabase
  <2> HIDE DEF r
  <2> QED
    BY <1>1, <2>1, <2>2, CloseKeeps DEF RemoveDatabase, Idle
<1>2. CASE n \notin Registered
  BY <1>2, QuietEnd DEF RemoveDatabase, Idle
<1> QED
  BY <1>1, <1>2

LEMMA CloseNextKeeps ==
  ASSUME DbInv, NEW t \in Task, NEW n \in Name, CloseNext(t, n)
  PROVE  DbInv'
<1> DEFINE r == [left |-> task[t].left \ {n}]
<1>1. DOMAIN r = {"left"} /\ Close(t, n, r)
  BY DEF CloseNext
<1> HIDE DEF r
<1>2. DOMAIN r \subseteq {"op", "left"} /\ "op" \notin DOMAIN r
  BY <1>1
<1> QED
  BY <1>1, <1>2, CloseKeeps DEF CloseNext, At

\* A pool that waited for its connections before it closed is nobody's.
LEMMA NobodyUsesClosed ==
  ASSUME DbInv, NEW t \in Task, Closed(t), Pooled(Mine(t)), Mine(t) \notin adrift, NEW u \in Task,
         Mine(u) = Mine(t)
  PROVE  ~Uses(u)
<1>1. DbType /\ CallInv(t) /\ At(t, "close") /\ \A i \in DOMAIN pool : CountInv(i)
  BY DEF DbInv, Closed
<1>2. Mine(t) \in DOMAIN pool /\ pool[Mine(t)] \in PoolType
  BY <1>1, PoolNumbers DEF CallInv, At
<1>3. /\ IsFiniteSet(Holders(Mine(t)))
      /\ pool[Mine(t)].out = Cardinality(Holders(Mine(t))) + pool[Mine(t)].failed
  BY <1>1, <1>2 DEF CountInv
<1>4. Cardinality(Holders(Mine(t))) \in Nat /\ pool[Mine(t)].failed \in Nat
  BY <1>2, <1>3, FS_CardinalityType DEF PoolType
<1>5. pool[Mine(t)].out = 0 /\ ~(At(u, "acquire") /\ Mine(u) = Mine(t))
  BY DEF Closed
<1>6. Cardinality(Holders(Mine(t))) = 0
  BY <1>3, <1>4, <1>5
<1>7. Holders(Mine(t)) = {}
  BY <1>3, <1>6, FS_EmptySet
<1>8. task[u].pc \notin {"execute", "probe", "release"}
  BY <1>7 DEF Holders
<1> QED
  BY <1>5, <1>8 DEF Uses, At

LEMMA ClosedKeeps ==
  ASSUME DbInv, NEW t \in Task, Closed(t)
  PROVE  DbInv'
<1>1. /\ DbType /\ CallInv(t) /\ At(t, "close")
      /\ \A i \in DOMAIN pool : ClosedInv(i) /\ CountInv(i)
  BY DEF DbInv, Closed
<1>2. /\ Mine(t) # NoPool /\ task[t].name \in Name /\ task[t].op # "query"
      /\ pool[Mine(t)].provider # "postgresql" /\ Mine(t) \in DOMAIN pool
  BY <1>1, PoolNumbers DEF CallInv, At
<1>3. pool' = [pool EXCEPT ![Mine(t)].state = "closed"]
  BY DEF Closed
<1>4. /\ pool' \in Seq(PoolType) /\ Len(pool') = Len(pool)
      /\ \A j \in DOMAIN pool :
           /\ pool'[j].provider = pool[j].provider /\ pool'[j].out = pool[j].out
           /\ pool'[j].failed = pool[j].failed
           /\ pool'[j].state = IF j = Mine(t) THEN "closed" ELSE pool[j].state
  <2>1. "closed" \in PoolStates
    BY DEF PoolStates
  <2> QED
    BY <1>1, <1>2, <1>3, <2>1, StateChanges
<1>5. DOMAIN pool' = DOMAIN pool /\ \A j \in DOMAIN pool : pool'[j] \in PoolType
  <2>1. DOMAIN pool' = 1..Len(pool') /\ \A j \in 1..Len(pool') : pool'[j] \in PoolType
    BY <1>4
  <2> QED
    BY <1>1, <1>4, <2>1, PoolNumbers
<1>6. PICK r :
        /\ Goes(t, r) /\ DOMAIN r \subseteq DOMAIN NoTask
        /\ DOMAIN r \subseteq {"pc", "told"} /\ "pc" \in DOMAIN r /\ r["pc"] \in {"done", "next"}
  <2>1. CASE Goes(t, [pc |-> "next"])
    <3> DEFINE c == [pc |-> "next"]
    <3>1. DOMAIN c = {"pc"} /\ c["pc"] = "next" /\ Goes(t, c)
      BY <2>1
    <3> HIDE DEF c
    <3> QED
      BY <3>1 DEF NoTask
  <2>2. ASSUME NEW told, Ends(t, told)
        PROVE  \E r : /\ Goes(t, r) /\ DOMAIN r \subseteq DOMAIN NoTask
                      /\ DOMAIN r \subseteq {"pc", "told"} /\ "pc" \in DOMAIN r
                      /\ r["pc"] \in {"done", "next"}
    <3> DEFINE c == [pc |-> "done", told |-> told]
    <3>1. DOMAIN c = {"pc", "told"} /\ c["pc"] = "done" /\ Goes(t, c)
      BY <2>2 DEF Ends
    <3> HIDE DEF c
    <3> QED
      BY <3>1 DEF NoTask
  <2>3. Goes(t, [pc |-> "next"]) \/ \E told : Ends(t, told)
    BY DEF Closed
  <2> QED
    BY <2>1, <2>2, <2>3
<1>7. /\ DOMAIN task' = Task /\ task' = [u \in Task |-> task'[u]]
      /\ \A u \in Task \ {t} : task'[u] = task[u]
      /\ DOMAIN task'[t] = DOMAIN NoTask
      /\ \A x \in DOMAIN r : task'[t][x] = r[x]
      /\ \A x \in DOMAIN NoTask \ DOMAIN r : task'[t][x] = task[t][x]
  BY <1>1, <1>6, GoesTo
<1>8. task'[t].pc \in {"done", "next"} /\ task'[t].op # "query" /\ Mine(t)' = Mine(t)
  BY <1>2, <1>6, <1>7 DEF NoTask, Mine
<1>9. pools' \in [Name -> 0..Len(pool)] /\ adrift \subseteq adrift'
  <2>1. pools' = pools \/ pools' = [pools EXCEPT ![task[t].name] = 0]
    BY DEF Closed, NoPool
  <2>2. pools \in [Name -> 0..Len(pool)] /\ 0 \in 0..Len(pool)
    BY <1>1, PoolNumbers DEF DbType
  <2>3. adrift \subseteq adrift'
    BY DEF Closed
  <2> QED
    BY <2>1, <2>2, <2>3
<1>10. DbType'
  <2>1. \A u \in Task : /\ DOMAIN task'[u] = DOMAIN NoTask
                        /\ task'[u].pc \in Steps /\ Mine(u)' \in 0..Len(pool)
    BY <1>1, <1>7, <1>8 DEF DbType, Mine, Steps
  <2> QED
    BY <1>4, <1>7, <1>9, <2>1 DEF DbType
<1>11. CallInv(t)' /\ FreshInv(t)' /\ NamedInv(t)' /\ ~Uses(t)'
  BY <1>8 DEF CallInv, FreshInv, NamedInv, At, Uses
<1>12. ASSUME NEW i \in DOMAIN pool PROVE CountInv(i)'
  <2>1. CountInv(i) /\ pool[i] \in PoolType /\ pool'[i] \in PoolType
    BY <1>1, <1>5, <1>12, PoolNumbers
  <2>2. Holds(t, i)' <=> Holds(t, i)
    BY <1>1, <1>8 DEF Holds, At
  <2> QED
    BY <1>4, <1>7, <1>9, <2>1, <2>2, CountMoves
<1>13. ASSUME NEW i \in DOMAIN pool, Pooled(i), i \notin adrift',
              pool'[i].state = "closed", NEW u \in Task, Mine(u) = i
       PROVE  ~Uses(u)
  <2>1. i \notin adrift
    BY <1>9, <1>13
  <2>2. CASE i = Mine(t)
    BY <1>13, <2>1, <2>2, NobodyUsesClosed
  <2>3. CASE i # Mine(t)
    BY <1>1, <1>4, <1>13, <2>1, <2>3 DEF ClosedInv
  <2> QED
    BY <2>2, <2>3
<1>14. ASSUME NEW n \in Name
       PROVE  \/ pools'[n] = pools[n]
              \/ /\ pools'[n] = NoPool
                 /\ \/ pools[n] = NoPool \/ pools[n] \in adrift' \/ ~Pooled(pools[n])
                    \/ \A u \in Task \ {t} : Mine(u) = pools[n] => ~Uses(u)
  <2>1. \/ pools'[n] = pools[n]
        \/ /\ pools'[n] = NoPool
           /\ pools[n] \notin adrift' => pool'[pools[n]].state = "closed"
    BY <1>1, <1>14 DEF Closed, DbType
  <2>2. pools[n] = NoPool \/ pools[n] \in DOMAIN pool
    BY <1>1, <1>14, PoolNumbers
  <2>3. CASE pools[n] \in DOMAIN pool \ adrift' /\ Pooled(pools[n])
    BY <1>13, <2>1, <2>3
  <2> QED
    BY <2>1, <2>2, <2>3
<1>15. ASSUME NEW i \in DOMAIN pool
       PROVE  \/ pool'[i].state = pool[i].state
              \/ /\ pool[i].provider # "postgresql" /\ i = Mine(t)
                 /\ Pooled(i) /\ i \notin adrift' =>
                      \A u \in Task \ {t} : Mine(u) = i => ~Uses(u)
  BY <1>2, <1>4, <1>13, <1>15
<1> QED
  BY <1>4, <1>5, <1>7, <1>8, <1>9, <1>10, <1>11, <1>12, <1>14, <1>15, StepKeeps

LEMMA AllDoneKeeps ==
  ASSUME DbInv, NEW t \in Task, AllDone(t)
  PROVE  DbInv'
<1>1. /\ DbType /\ CallInv(t) /\ At(t, "next") /\ UNCHANGED pool
      /\ \A i \in DOMAIN pool : ClosedInv(i) /\ CountInv(i)
  BY DEF DbInv, AllDone
<1> DEFINE r == [pc |-> "done", told |-> "ok"]
<1>2. /\ Goes(t, r) /\ DOMAIN r = {"pc", "told"} /\ r.pc = "done"
      /\ DOMAIN r \subseteq DOMAIN NoTask
  BY DEF AllDone, Ends, NoTask
<1> HIDE DEF r
<1>3. /\ DOMAIN task' = Task /\ task' = [u \in Task |-> task'[u]]
      /\ \A u \in Task \ {t} : task'[u] = task[u]
      /\ DOMAIN task'[t] = DOMAIN NoTask
      /\ \A x \in DOMAIN r : task'[t][x] = r[x]
      /\ \A x \in DOMAIN NoTask \ DOMAIN r : task'[t][x] = task[t][x]
  BY <1>1, <1>2, GoesTo
<1>4. task'[t].pc = "done" /\ task'[t].op # "query" /\ Mine(t)' = Mine(t)
  BY <1>1, <1>2, <1>3 DEF NoTask, Mine, CallInv, At
<1>5. adrift \subseteq adrift'
  BY DEF AllDone
<1>6. ASSUME NEW n \in Name
      PROVE  /\ pools'[n] = pools[n] \/ pools'[n] = 0
             /\ \/ pools'[n] = pools[n] \/ pools[n] = NoPool \/ pools[n] \in adrift'
                \/ pool[pools[n]].state = "closed"
  <2>1. CASE pools' = pools
    BY <2>1
  <2>2. CASE /\ pools' = [m \in Name |-> NoPool]
             /\ adrift' = adrift \cup
                  {pools[m] : m \in {o \in Registered : pool[pools[o]].state # "closed"}}
    <3>1. pools'[n] = 0
      BY <2>2 DEF NoPool
    <3>2. CASE pools[n] # NoPool /\ pool[pools[n]].state # "closed"
      <4>1. n \in {o \in Registered : pool[pools[o]].state # "closed"}
        BY <3>2 DEF Registered
      <4> QED
        BY <2>2, <3>1, <4>1
    <3> QED
      BY <3>1, <3>2
  <2> QED
    BY <2>1, <2>2 DEF AllDone
<1>7. DbType'
  <2>1. \A u \in Task : /\ DOMAIN task'[u] = DOMAIN NoTask
                        /\ task'[u].pc \in Steps /\ Mine(u)' \in 0..Len(pool)
    BY <1>1, <1>3, <1>4 DEF DbType, Mine, Steps
  <2>2. pools' = pools \/ pools' = [m \in Name |-> 0]
    BY DEF AllDone, NoPool
  <2>3. pools \in [Name -> 0..Len(pool)] /\ 0 \in 0..Len(pool)
    BY <1>1, PoolNumbers DEF DbType
  <2>4. pools' \in [Name -> 0..Len(pool)]
    BY <2>2, <2>3
  <2> QED
    BY <1>1, <1>3, <2>1, <2>4 DEF DbType
<1>8. CallInv(t)' /\ FreshInv(t)' /\ NamedInv(t)' /\ ~Uses(t)'
  BY <1>4 DEF CallInv, FreshInv, NamedInv, At, Uses
<1>9. ASSUME NEW i \in DOMAIN pool PROVE CountInv(i)'
  <2>1. CountInv(i) /\ pool[i] \in PoolType /\ pool' = pool
    BY <1>1, <1>9, PoolNumbers
  <2>2. Holds(t, i)' <=> Holds(t, i)
    BY <1>1, <1>4 DEF Holds, At
  <2> QED
    BY <1>3, <1>5, <2>1, <2>2, CountMoves
<1>10. ASSUME NEW n \in Name
       PROVE  \/ pools'[n] = pools[n]
              \/ /\ pools'[n] = NoPool
                 /\ \/ pools[n] = NoPool \/ pools[n] \in adrift' \/ ~Pooled(pools[n])
                    \/ \A u \in Task \ {t} : Mine(u) = pools[n] => ~Uses(u)
  <2>1. pools[n] = NoPool \/ pools[n] \in DOMAIN pool
    BY <1>1, <1>10, PoolNumbers
  <2>2. CASE pools[n] \in DOMAIN pool \ adrift' /\ pool[pools[n]].state = "closed"
    BY <1>1, <1>5, <1>6, <1>10, <2>2 DEF ClosedInv, NoPool
  <2> QED
    BY <1>6, <1>10, <2>1, <2>2 DEF NoPool
<1> QED
  BY <1>1, <1>3, <1>4, <1>5, <1>7, <1>8, <1>9, <1>10, StepKeeps

LEMMA InitializedKeeps ==
  ASSUME DbInv, NEW t \in Task, Initialized(t)
  PROVE  DbInv'
<1>1. /\ DbType /\ CallInv(t) /\ FreshInv(t) /\ At(t, "initialize") /\ UNCHANGED pool
      /\ \A i \in DOMAIN pool : CountInv(i)
  BY DEF DbInv, Initialized
<1>2. /\ Mine(t) # NoPool /\ task[t].name \in Name /\ task[t].op # "query"
      /\ Mine(t) \in DOMAIN pool /\ pool[Mine(t)].state = "open"
  BY <1>1, PoolNumbers DEF CallInv, FreshInv, At
<1> DEFINE r == [pc |-> "acquire"]
<1>3. /\ Goes(t, r) /\ DOMAIN r = {"pc"} /\ r.pc = "acquire"
      /\ DOMAIN r \subseteq DOMAIN NoTask
  BY DEF Initialized, NoTask
<1> HIDE DEF r
<1>4. /\ DOMAIN task' = Task /\ task' = [u \in Task |-> task'[u]]
      /\ \A u \in Task \ {t} : task'[u] = task[u]
      /\ DOMAIN task'[t] = DOMAIN NoTask
      /\ \A x \in DOMAIN r : task'[t][x] = r[x]
      /\ \A x \in DOMAIN NoTask \ DOMAIN r : task'[t][x] = task[t][x]
  BY <1>1, <1>3, GoesTo
<1>5. task'[t].pc = "acquire" /\ task'[t].op # "query" /\ Mine(t)' = Mine(t)
  BY <1>2, <1>3, <1>4 DEF NoTask, Mine
<1>6. /\ pools' = [pools EXCEPT ![task[t].name] = Mine(t)]
      /\ adrift' = adrift \cup ({pools[task[t].name]} \ {NoPool})
  BY DEF Initialized
<1>7. pools \in [Name -> 0..Len(pool)] /\ Mine(t) \in 0..Len(pool)
  BY <1>1 DEF DbType
<1>8. DbType'
  <2>1. \A u \in Task : /\ DOMAIN task'[u] = DOMAIN NoTask
                        /\ task'[u].pc \in Steps /\ Mine(u)' \in 0..Len(pool)
    BY <1>1, <1>4, <1>5 DEF DbType, Mine, Steps
  <2>2. pools' \in [Name -> 0..Len(pool)]
    BY <1>6, <1>7
  <2> QED
    BY <1>1, <1>4, <2>1, <2>2 DEF DbType
<1>9. CallInv(t)' /\ FreshInv(t)' /\ NamedInv(t)'
  BY <1>2, <1>5 DEF CallInv, FreshInv, NamedInv, At
<1>10. ASSUME NEW i \in DOMAIN pool PROVE CountInv(i)'
  <2>1. CountInv(i) /\ pool[i] \in PoolType /\ pool' = pool /\ adrift \subseteq adrift'
    BY <1>1, <1>6, <1>10, PoolNumbers
  <2>2. Holds(t, i)' <=> Holds(t, i)
    BY <1>1, <1>5 DEF Holds, At
  <2> QED
    BY <1>4, <2>1, <2>2, CountMoves
<1>11. ASSUME NEW n \in Name
       PROVE  \/ pools'[n] = pools[n]
              \/ /\ pools'[n] = Mine(t)
                 /\ pools[n] = NoPool \/ pools[n] \in adrift'
  BY <1>6, <1>7, <1>11
<1>12. pool'[task'[t].pool].state # "closed"
  BY <1>1, <1>2, <1>5 DEF Mine
<1> QED
  BY <1>1, <1>4, <1>5, <1>6, <1>8, <1>9, <1>10, <1>11, <1>12, StepKeeps

LEMMA AddDatabaseKeeps ==
  ASSUME DbInv, NEW t \in Task, NEW n \in Name, NEW p \in Driver, AddDatabase(t, n, p)
  PROVE  DbInv'
<1>1. /\ DbType /\ CallInv(t) /\ Idle(t) /\ UNCHANGED <<pools, adrift>>
      /\ \A i \in DOMAIN pool : CountInv(i)
  BY DEF DbInv, AddDatabase
<1>2. CASE Ends(t, "ok") /\ UNCHANGED pool
  BY <1>1, <1>2, QuietEnd DEF Idle
<1> DEFINE new == [provider |-> p, state |-> "open", out |-> 0, failed |-> 0]
           k == Len(pool) + 1
           r == [pc |-> "initialize", op |-> "add", name |-> n, pool |-> Len(pool')]
<1>3. CASE pool' = Append(pool, new) /\ Goes(t, r)
  <2>1. /\ new \in PoolType /\ new.provider = p /\ new.state = "open"
        /\ new.out = 0 /\ new.failed = 0
    BY DEF PoolType, PoolStates
  <2>2. pool \in Seq(PoolType) /\ Len(pool) \in Nat /\ DOMAIN pool = 1..Len(pool)
    BY <1>1, PoolNumbers DEF DbType
  <2> HIDE DEF new
  <2>3. /\ pool' \in Seq(PoolType) /\ Len(pool') = k /\ DOMAIN pool' = 1..k
        /\ pool'[k] = new /\ \A i \in DOMAIN pool : pool'[i] = pool[i]
    BY <1>3, <2>1, <2>2
  <2>4. /\ DOMAIN r = {"pc", "op", "name", "pool"} /\ r.pc = "initialize" /\ r.op = "add"
        /\ r.name = n /\ r.pool = k /\ DOMAIN r \subseteq DOMAIN NoTask
    BY <2>3 DEF NoTask
  <2> HIDE DEF r
  <2>5. /\ DOMAIN task' = Task /\ task' = [u \in Task |-> task'[u]]
        /\ \A u \in Task \ {t} : task'[u] = task[u]
        /\ DOMAIN task'[t] = DOMAIN NoTask
        /\ \A x \in DOMAIN r : task'[t][x] = r[x]
    BY <1>1, <1>3, <2>4, GoesTo
  <2>6. /\ task'[t].pc = "initialize" /\ task'[t].op = "add" /\ task'[t].name = n
        /\ Mine(t)' = k
    BY <2>4, <2>5 DEF Mine
  <2>7. /\ pools \in [Name -> 0..Len(pool)] /\ k \notin 0..Len(pool) /\ 0..Len(pool) \subseteq 0..k
        /\ \A u \in Task : Mine(u) \in 0..Len(pool)
        /\ k \in 0..k /\ k # 0
    BY <1>1, <2>2 DEF DbType
  <2>8. \A u \in Task \ {t} : Mine(u)' = Mine(u)
    BY <2>5 DEF Mine
  <2> HIDE DEF k
  <2>9. DbType'
    <3>1. \A u \in Task : /\ DOMAIN task'[u] = DOMAIN NoTask
                          /\ task'[u].pc \in Steps /\ Mine(u)' \in 0..k
      BY <1>1, <2>5, <2>6, <2>7, <2>8 DEF DbType, Steps
    <3>2. pools' \in [Name -> 0..k]
      BY <1>1, <2>7
    <3> QED
      BY <2>3, <2>5, <3>1, <3>2 DEF DbType
  <2>10. CallInv(t)' /\ NamedInv(t)' /\ ~Uses(t)'
    BY <2>6, <2>7 DEF CallInv, NamedInv, At, Uses, NoPool
  <2>11. FreshInv(t)'
    <3>1. pool'[k].state = "open" /\ \A m \in Name : pools'[m] # k
      BY <1>1, <2>1, <2>3, <2>7
    <3>2. \A u \in Task \ {t} : Mine(u)' # k
      BY <2>7, <2>8
    <3> QED
      BY <2>6, <3>1, <3>2 DEF FreshInv, Mine
  <2>12. ASSUME NEW i \in DOMAIN pool
         PROVE  CountInv(i)' /\ pool'[i].provider = pool[i].provider
                /\ pool'[i].state = pool[i].state
    <3>1. CountInv(i) /\ pool[i] \in PoolType /\ pool'[i] = pool[i]
      BY <1>1, <2>3, <2>12, PoolNumbers
    <3>2. Holds(t, i)' <=> Holds(t, i)
      BY <1>1, <2>6 DEF Holds, Idle
    <3> QED
      BY <1>1, <2>5, <3>1, <3>2, CountMoves
  <2>13. ASSUME NEW i, i = k PROVE ClosedInv(i)' /\ CountInv(i)'
    <3>1. /\ i = Mine(t)' /\ pool'[i].state = "open" /\ pool'[i].out = 0 /\ pool'[i].failed = 0
      BY <2>1, <2>3, <2>6, <2>13
    <3>2. {u \in Task : Mine(u)' = i /\ task'[u].pc \in {"execute", "probe", "release"}} = {}
      BY <2>6, <2>7, <2>8, <2>13
    <3>3. Holders(i)' = {}
      BY <3>2 DEF Holders
    <3>4. IsFiniteSet({}) /\ Cardinality({}) = 0
      BY FS_EmptySet
    <3>5. CountInv(i)'
      BY <3>1, <3>3, <3>4 DEF CountInv
    <3> QED
      BY <3>1, <3>5 DEF ClosedInv
  <2>14. DOMAIN pool \subseteq DOMAIN pool' /\ DOMAIN pool' \ DOMAIN pool \subseteq {k}
         /\ k \notin DOMAIN pool
    BY <2>2, <2>3, <2>7 DEF k
  <2>15. \A i \in DOMAIN pool' \ DOMAIN pool : ClosedInv(i)' /\ CountInv(i)'
    BY <2>13, <2>14
  <2> QED
    BY <1>1, <2>5, <2>6, <2>9, <2>10, <2>11, <2>12, <2>14, <2>15, StepKeeps
<1> QED
  BY <1>2, <1>3 DEF AddDatabase

LEMMA DatabasesStart == Init => DbInv
<1> SUFFICES ASSUME Init PROVE DbInv
  OBVIOUS
<1>1. /\ pools = [n \in Name |-> 0] /\ pool = <<>> /\ task = [t \in Task |-> NoTask]
      /\ adrift = {}
  BY DEF Init, DbInit, NoPool
<1>2. pool \in Seq(PoolType) /\ Len(pool) = 0 /\ DOMAIN pool = {} /\ 0 \in 0..Len(pool)
  BY <1>1
<1>3. \A t \in Task : /\ task[t] = NoTask /\ task[t].pc = "idle" /\ task[t].op = "none"
                      /\ task[t].told = "nothing" /\ Mine(t) = 0
  BY <1>1 DEF NoTask, NoPool, Mine
<1>4. DbType
  <2>1. pools \in [Name -> 0..Len(pool)]
    BY <1>1, <1>2
  <2>2. DOMAIN task = Task /\ task = [t \in Task |-> task[t]]
    BY <1>1
  <2> QED
    BY <1>2, <1>3, <2>1, <2>2 DEF DbType, Steps
<1>5. \A t \in Task : CallInv(t) /\ FreshInv(t) /\ NamedInv(t)
  BY <1>3 DEF CallInv, FreshInv, NamedInv, At
<1> QED
  BY <1>2, <1>4, <1>5 DEF DbInv

LEMMA NextDatabases == DbInv /\ [Next]_vars => DbInv'
<1> SUFFICES ASSUME DbInv, [Next]_vars PROVE DbInv'
  OBVIOUS
<1>1. CASE UNCHANGED dbVars
  <2>1. UNCHANGED <<pools, pool, task, adrift>>
    BY <1>1 DEF dbVars
  <2>2. DbType <=> DbType'
    BY <2>1 DEF DbType, Mine
  <2>3. ASSUME NEW t \in Task PROVE CallInv(t)' /\ FreshInv(t)' /\ NamedInv(t)'
    <3>1. CallInv(t) /\ FreshInv(t) /\ NamedInv(t)
      BY DEF DbInv
    <3> QED
      BY <2>1, <3>1 DEF CallInv, RanRight, FreshInv, NamedInv, Uses, Pooled, Mine, At
  <2>4. ASSUME NEW i \in DOMAIN pool PROVE ClosedInv(i)' /\ CountInv(i)'
    <3>1. ClosedInv(i) /\ CountInv(i)
      BY DEF DbInv
    <3>2. Holders(i)' = Holders(i)
      BY <2>1 DEF Holders, Mine
    <3> QED
      BY <2>1, <3>1, <3>2 DEF ClosedInv, CountInv, Uses, Pooled, Mine
  <2> QED
    BY <2>1, <2>2, <2>3, <2>4 DEF DbInv
<1>2. ASSUME NEW t \in Task, NEW n \in Name,
             \/ \E p \in Driver : AddDatabase(t, n, p)
             \/ \E q \in {"select", "insert", "destructive"} : Query(t, n, q)
             \/ RemoveDatabase(t, n) \/ TestNext(t, n) \/ CloseNext(t, n)
      PROVE  DbInv'
  BY <1>2, AddDatabaseKeeps, QueryKeeps, RemoveDatabaseKeeps, TestNextKeeps, CloseNextKeeps
<1>3. ASSUME NEW t \in Task, InitializeFails(t) \/ TableChanged(t)
      PROVE  DbInv'
  BY <1>3, QuietEnd DEF InitializeFails, TableChanged, At
<1>4. ASSUME NEW t \in Task,
             \/ Initialized(t) \/ Acquired(t) \/ Execute(t) \/ Release(t) \/ Probe(t)
             \/ Closed(t) \/ AllDone(t) \/ All(t, "test all") \/ All(t, "close all")
      PROVE  DbInv'
  BY <1>4, InitializedKeeps, AcquiredKeeps, ExecuteKeeps, ReleaseKeeps, ProbeKeeps,
     ClosedKeeps, AllDoneKeeps, AllKeeps
<1>5. CASE DbStep
  <2>1. PICK t \in Task :
          \/ \E n \in Name :
               \/ \E p \in Driver : AddDatabase(t, n, p)
               \/ \E q \in {"select", "insert", "destructive"} : Query(t, n, q)
               \/ RemoveDatabase(t, n) \/ TestNext(t, n) \/ CloseNext(t, n)
          \/ InitializeFails(t) \/ Initialized(t) \/ Acquired(t) \/ Execute(t) \/ Release(t)
          \/ Probe(t) \/ Closed(t) \/ TableChanged(t) \/ AllDone(t)
          \/ All(t, "test all") \/ All(t, "close all")
    BY <1>5 DEF DbStep
  <2> QED
    BY <1>2, <1>3, <1>4, <2>1
<1> QED
  BY <1>1, <1>5 DEF Next, vars

\* Every connection that a pool gave out is held by a call that will give it
\* back, or was lost to a failed test, unless the pool left the table of names
\* before it closed; and a write told as done has run once, or on SQLite not
\* for good: for any names, calls, pools and sizes.
THEOREM ConnectionsReturn == Spec => []ConnectionsComeBack
<1>1. DbInv => ConnectionsComeBack
  <2> SUFFICES ASSUME DbInv PROVE ConnectionsComeBack
    OBVIOUS
  <2>1. \A i \in DOMAIN pool : CountInv(i)
    BY DEF DbInv
  <2>2. \A t \in Task : CallInv(t)
    BY DEF DbInv
  <2> QED
    BY <2>1, <2>2 DEF ConnectionsComeBack, CountInv, CallInv, RanRight, At
<1> QED
  BY <1>1, DatabasesStart, NextDatabases, PTL DEF Spec
===============================================================================
