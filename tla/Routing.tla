------------------------------- MODULE Routing -------------------------------
(***************************************************************************)
(* Which model answers: the router (llm/router.py) with its classifier     *)
(* (llm/query_classifier.py) and the Ollama client (llm/ollama_client.py), *)
(* and the connectivity cache (llm/offline.py).                            *)
(*                                                                         *)
(* A message is the set of the classifier's signals it carries; the cloud  *)
(* score is in hundredths.  A request awaits the local model, and blocks   *)
(* the event loop while the cloud answers.                                 *)
(***************************************************************************)
EXTENDS Integers, Sequences, FiniteSets

CONSTANTS
  Request,   \* requests to the router
  Chats,     \* conversations: the signals of each message, the user's last
  Check,     \* connectivity checks under way
  Interval,  \* check_interval_seconds, in ticks
  MaxTime    \* bound: ticks

VARIABLES
  wire,     \* which HTTP client there is ("httpx" or "urllib"), and anthropic
  request,  \* Request -> what it has tried
  cached,   \* _cached_status, with when its facts were seen
  lastCheck,\* _last_check_time
  check,    \* Check -> its progress
  clock,
  shown     \* history: when the status get_status returned last was seen, whether
            \* it is over time, or older than the one returned before

routeVars == <<request, cached, lastCheck, check, clock, shown>>

Side == {"cloud", "local"}
NoRequest == [pc |-> "idle", chat |-> <<>>, plan |-> "none", force |-> "none", tried |-> <<>>, told |-> "nothing"]
NoStatus == [seen |-> -1, stored |-> -1, online |-> TRUE, overlap |-> FALSE]
NoCheck == [pc |-> "idle", by |-> "none", overlap |-> FALSE, seen |-> -1, online |-> FALSE]

RoutingInit ==
  /\ wire \in [http : {"httpx", "urllib"}, anthropic : BOOLEAN]
  /\ request = [r \in Request |-> NoRequest]
  /\ cached = NoStatus /\ lastCheck = 0
  /\ check = [c \in Check |-> NoCheck]
  /\ clock = 0
  /\ shown = [seen |-> -1, overlap |-> FALSE, late |-> FALSE, back |-> FALSE]

------------------------------------------------------------------------------
(* The classifier *)

Weight == [sensitive |-> 100, long |-> 50, code |-> 40, complex |-> 35, current |-> 30, tool |-> 25]
Signal == DOMAIN Weight \cup {"short", "factual"}

ASSUME RoutingAssumption ==
  /\ Chats \subseteq Seq(SUBSET Signal) \ {<<>>}
  /\ Interval \in Nat \ {0}
  /\ MaxTime \in Nat

ContextLongCount == 3  \* _CONTEXT_LONG_COUNT

\* the score of a message in a conversation of n messages, the assistant's
\* among them: its signals, the long context, short only where nothing else
\* speaks, and factual
Points(m, s) == IF s \in m THEN Weight[s] ELSE 0
Score(m, n) ==
  Points(m, "sensitive") + Points(m, "long") + Points(m, "code") + Points(m, "complex")
    + Points(m, "current") + Points(m, "tool")
    + (IF n > ContextLongCount THEN 20 ELSE 0)
    - (IF "short" \in m /\ m \cap DOMAIN Weight = {} /\ n <= ContextLongCount THEN 30 ELSE 0)
    - (IF "factual" \in m THEN 30 ELSE 0)

\* 0.4 + 0.2 - 0.3 is above 0.3 in binary floating point, and it is the only
\* sum of these weights that is not on the side of 0.3 it should be
Classify(m, n) ==
  IF \/ Score(m, n) > 30
     \/ m \cap DOMAIN Weight = {"code"} /\ n > ContextLongCount /\ "factual" \in m
    THEN "cloud" ELSE "local"

------------------------------------------------------------------------------
(* The router *)

Other(side) == IF side = "cloud" THEN "local" ELSE "cloud"

\* route: what it is forced to, or what the last user message asks for
Route(r, chat, force) ==
  /\ request[r].pc = "idle"
  /\ request' = [request EXCEPT ![r] =
       [@ EXCEPT !.pc = "call", !.chat = chat, !.force = force,
                 !.plan = IF force # "none" THEN force
                          ELSE Classify(chat[Len(chat)], Len(chat))]]
  /\ UNCHANGED <<cached, lastCheck, check, clock, shown>>

\* the side a request calls next
Turn(r) == IF request[r].tried = <<>> THEN request[r].plan ELSE Other(request[r].plan)

\* what a call of it may come to: an answer, not there, refused by a server
\* that is, or no such library
CloudOutcomes == IF wire.anthropic THEN {"answer", "refused", "absent"} ELSE {"missing"}
\* chat needs a POST, and the client without httpx forgets its payload, which
\* raises a TypeError; an HTTP error of Ollama is no OllamaUnavailableError
LocalOutcomes == IF wire.http = "urllib" THEN {"typeerror"} ELSE {"answer", "refused", "absent"}
Outcomes(side) == IF side = "cloud" THEN CloudOutcomes ELSE LocalOutcomes

\* mutant: only a side that is not there is given up for the other
FallsBackFromAbsent(side, outcome) == outcome = "absent"

\* OllamaUnavailableError falls back to the cloud, any error of the cloud but
\* ImportError to the local model, and nothing where the side was forced
FallsBack(side, outcome) ==
  IF side = "local" THEN outcome = "absent" ELSE outcome # "missing"

Failed == [cloud |-> "cloud failed", local |-> "local failed"]

\* _call_cloud or _call_local ends
Call(r) ==
  LET side == Turn(r) IN
  /\ request[r].pc = "call"
  /\ \E outcome \in Outcomes(side) :
       LET tried == Append(request[r].tried, [side |-> side, got |-> outcome])
           first == Len(tried) = 1
       IN
       request' = [request EXCEPT ![r] =
         CASE outcome = "answer" -> [@ EXCEPT !.pc = "done", !.tried = tried, !.told = side]
           [] outcome # "answer" /\ first /\ @.force = "none" /\ FallsBack(side, outcome)
                -> [@ EXCEPT !.tried = tried]
           \* both failed: the cloud's error is raised again, unless the local
           \* model's was no OllamaUnavailableError
           [] OTHER -> [@ EXCEPT !.pc = "done", !.tried = tried,
                 !.told = IF ~first /\ side = "local" /\ outcome = "absent"
                            THEN "cloud failed" ELSE Failed[side]]]
  /\ UNCHANGED <<cached, lastCheck, check, clock, shown>>

------------------------------------------------------------------------------
(* The connectivity cache *)

Tick ==
  /\ clock < MaxTime /\ clock' = clock + 1
  /\ UNCHANGED <<request, cached, lastCheck, check, shown>>

\* get_status returns a status that was stored at the time `stored`
Show(status, stored) ==
  shown' = [seen |-> status.seen, overlap |-> status.overlap,
            late |-> clock - stored >= Interval, back |-> status.seen < shown.seen]

Stale == cached = NoStatus \/ clock - lastCheck >= Interval

\* get_status has a status that is recent enough
ReadCached ==
  /\ ~Stale /\ Show(cached, cached.stored)
  /\ UNCHANGED <<request, cached, lastCheck, check, clock>>

Running(c) == check[c].pc \in {"cloud", "local", "store"}

\* mutant: the time of the last check is set before the check, not after
StartCheckInTime(c, by) ==
  /\ check[c].pc = "idle" /\ (by = "get_status" => Stale)
  /\ lastCheck' = clock
  /\ check' = [check EXCEPT ![c] = [NoCheck EXCEPT !.pc = "cloud", !.by = by,
                                    !.overlap = \E d \in Check : Running(d)]]
  /\ UNCHANGED <<request, cached, clock, shown>>

\* check, for a get_status that finds its status stale or for wait_for_online,
\* which comes back after a sleep
StartCheck(c, by) ==
  /\ \/ check[c].pc = "idle" /\ (by = "get_status" => Stale)
     \/ check[c].pc = "asleep" /\ by = "wait_for_online"
  /\ check' = [d \in Check |->
       IF d = c THEN [NoCheck EXCEPT !.pc = "cloud", !.by = by,
                                     !.overlap = \E e \in Check : Running(e)]
       ELSE IF Running(d) THEN [check[d] EXCEPT !.overlap = TRUE] ELSE check[d]]
  /\ UNCHANGED <<request, cached, lastCheck, clock, shown>>

\* the cloud's URL first, then Ollama, each in an await of its own
ProbeCloud(c) ==
  /\ check[c].pc = "cloud"
  /\ \E answers \in BOOLEAN :
       check' = [check EXCEPT ![c].pc = "local", ![c].seen = clock, ![c].online = answers]
  /\ UNCHANGED <<request, cached, lastCheck, clock, shown>>

\* is_available takes every error for Ollama not being there
ProbeLocal(c) ==
  /\ check[c].pc = "local"
  /\ \E answers \in BOOLEAN :
       check' = [check EXCEPT ![c].pc = "store", ![c].online = @ \/ answers]
  /\ UNCHANGED <<request, cached, lastCheck, clock, shown>>

\* the status is stored, and returned to the caller; wait_for_online goes on
\* until something is reachable
StoreStatus(c) ==
  LET status == [seen |-> check[c].seen, stored |-> clock, online |-> check[c].online,
                 overlap |-> check[c].overlap] IN
  /\ check[c].pc = "store"
  /\ cached' = status /\ lastCheck' = clock
  /\ check' = [check EXCEPT ![c] =
       IF @.by = "wait_for_online" /\ ~status.online THEN [NoCheck EXCEPT !.pc = "asleep"] ELSE NoCheck]
  /\ IF check[c].by = "get_status" THEN Show(status, clock) ELSE UNCHANGED shown
  /\ UNCHANGED <<request, clock>>

\* wait_for_online's timeout
GiveUp(c) ==
  /\ check[c].pc = "asleep" /\ check' = [check EXCEPT ![c] = NoCheck]
  /\ UNCHANGED <<request, cached, lastCheck, clock, shown>>

RouterStep ==
  \/ \E r \in Request, chat \in Chats, force \in Side \cup {"none"} : Route(r, chat, force)
  \/ \E r \in Request : Call(r)

DetectorStep ==
  \/ Tick \/ ReadCached
  \/ \E c \in Check, by \in {"get_status", "wait_for_online"} : StartCheck(c, by)
  \/ \E c \in Check : ProbeCloud(c) \/ ProbeLocal(c) \/ StoreStatus(c) \/ GiveUp(c)
==============================================================================
