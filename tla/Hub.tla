--------------------------------- MODULE Hub ---------------------------------
(***************************************************************************)
(* ws/hub.py and the WebSocket endpoint of main.py.  The API and the       *)
(* worker are two processes, and each imports a ws_hub of its own: sockets *)
(* are only ever accepted by the API's.  broadcast() walks over a snapshot *)
(* of the table and awaits one socket after the other, while clients come  *)
(* and go.                                                                 *)
(***************************************************************************)
EXTENDS Naturals, FiniteSets, Sequences

CONSTANTS
  Client,  \* connections: each gets a client_id of its own (uuid4)
  Event    \* broadcasts that may be made: each is made once

Process == {"api", "worker"}

VARIABLES
  scope,   \* bound: who takes part in this behaviour, and how often
  token,   \* per client: "none", "fresh" or "old" (expired, or not ours)
  sock,    \* per client: [phase, alive], what its endpoint does and the peer
  hub,     \* per process: ConnectionManager._connections
  cast,    \* broadcasts begun: [proc, snap, todo, dead, pc]
  got      \* per client, what it received: how often each event

hubVars == <<token, sock, hub, cast, got>>

Begun == DOMAIN cast

\* a fresh ConnectionManager in each process
HubInit ==
  /\ token = [c \in Client |-> "none"]
  /\ sock = [c \in Client |-> [phase |-> "new", alive |-> TRUE]]
  /\ hub = [p \in Process |-> {}]
  /\ cast = <<>>
  /\ got = [c \in Client |-> [e \in Event |-> 0]]

IssueToken(c) ==
  /\ token[c] = "none" /\ token' = [token EXCEPT ![c] = "fresh"]
  /\ UNCHANGED <<sock, hub, cast, got>>

\* it is valid for ws_token_ttl_minutes, which matters only until connect
TokenExpires(c) ==
  /\ token[c] = "fresh" /\ sock[c].phase = "new"
  /\ token' = [token EXCEPT ![c] = "old"]
  /\ UNCHANGED <<sock, hub, cast, got>>

\* connect: the token is checked once, before the handshake is awaited
Connect(c) ==
  /\ sock[c].phase = "new" /\ token[c] # "none" /\ sock[c].alive
  /\ sock' = [sock EXCEPT ![c] =
       IF token[c] = "fresh" THEN [phase |-> "accepting", alive |-> TRUE]
                             ELSE [phase |-> "over", alive |-> FALSE]]
  /\ UNCHANGED <<token, hub, cast, got>>

\* the handshake is sent and the client registered; with the peer already
\* gone, accept() may raise instead
Accepted(c) ==
  /\ sock[c].phase = "accepting"
  /\ \/ /\ sock' = [sock EXCEPT ![c].phase = "serving"]
        /\ hub' = [hub EXCEPT !["api"] = @ \cup {c}]
     \/ /\ ~sock[c].alive
        /\ sock' = [sock EXCEPT ![c].phase = "over"]
        /\ UNCHANGED hub
  /\ UNCHANGED <<token, cast, got>>

\* the peer goes away; nothing on this side has noticed
Leave(c) ==
  /\ sock[c].phase \in {"accepting", "serving"} /\ sock[c].alive
  /\ sock' = [sock EXCEPT ![c].alive = FALSE]
  /\ UNCHANGED <<token, hub, cast, got>>

\* disconnect(client_id)
Drop(S) == hub' = [hub EXCEPT !["api"] = @ \ S]

\* receive_text raises WebSocketDisconnect
Disconnected(c) ==
  /\ sock[c].phase = "serving" /\ ~sock[c].alive
  /\ sock' = [sock EXCEPT ![c].phase = "over"]
  /\ Drop({c})
  /\ UNCHANGED <<token, cast, got>>

\* a frame that holds no text ends the endpoint with a KeyError, which only
\* closes the socket: the hub keeps the client
BinaryFrame(c) ==
  /\ sock[c].phase = "serving" /\ sock[c].alive
  /\ sock' = [sock EXCEPT ![c] = [phase |-> "over", alive |-> FALSE]]
  /\ UNCHANGED <<token, hub, cast, got>>

\* "ping" is answered with "pong"; a send that fails drops the client
PingFails(c) ==
  /\ sock[c].phase = "serving" /\ ~sock[c].alive /\ c \in hub["api"]
  /\ Drop({c})
  /\ UNCHANGED <<token, sock, cast, got>>

------------------------------------------------------------------------------
(* broadcast *)

Broadcast(e, p) ==
  cast' = [x \in Begun \cup {e} |->
    IF x = e THEN [proc |-> p, snap |-> hub[p], todo |-> hub[p], dead |-> {}, pc |-> "sending"]
             ELSE cast[x]]

\* mutant: the table itself is walked, and raises when it has changed
SendOneLive(e) ==
  /\ cast[e].pc = "sending"
  /\ IF hub[cast[e].proc] # cast[e].snap
     THEN cast' = [cast EXCEPT ![e].pc = "done"] /\ UNCHANGED got
     ELSE \E c \in cast[e].todo :
            /\ cast' = [cast EXCEPT ![e].todo = @ \ {c}]
            /\ got' = IF sock[c].alive THEN [got EXCEPT ![c][e] = @ + 1] ELSE got
  /\ UNCHANGED <<token, sock, hub>>

\* one send_text: it reaches a peer that is there; one that is not makes it
\* raise, unless that has not been noticed yet
SendOne(e) ==
  /\ cast[e].pc = "sending"
  /\ \E c \in cast[e].todo :
       LET failed == [cast EXCEPT ![e].todo = @ \ {c}, ![e].dead = @ \cup {c}]
           sent == [cast EXCEPT ![e].todo = @ \ {c}]
       IN  IF sock[c].alive
           THEN cast' = sent /\ got' = [got EXCEPT ![c][e] = @ + 1]
           ELSE cast' \in {failed, sent} /\ UNCHANGED got
  /\ UNCHANGED <<token, sock, hub>>

\* the clients that failed are dropped when all the others were served
Swept(e) ==
  /\ cast[e].pc = "sending" /\ cast[e].todo = {}
  /\ cast' = [cast EXCEPT ![e].pc = "done"]
  /\ hub' = [hub EXCEPT ![cast[e].proc] = @ \ cast[e].dead]
  /\ UNCHANGED <<token, sock, got>>

Sent(e) == e \in Begun /\ cast[e].pc = "done"

HubStep ==
  \/ \E c \in scope.clients :
       \/ IssueToken(c) \/ TokenExpires(c) \/ Connect(c) \/ Accepted(c) \/ Leave(c)
       \/ Disconnected(c) \/ BinaryFrame(c) \/ PingFails(c)
  \/ \E e \in Begun : SendOne(e) \/ Swept(e)
==============================================================================
