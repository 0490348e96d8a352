----------------------------- MODULE Conversations -----------------------------
(***************************************************************************)
(* The conversation store (memory/conversation.py), the turn that POST     *)
(* /api/chat makes of a user's message (main.py), and the chat page that   *)
(* sends it (frontend/app/page.tsx).                                       *)
(*                                                                         *)
(* create_conversation() takes a title and draws its own uuid, so a        *)
(* conversation that is found missing is answered with a row for another   *)
(* id.  The check and the creation are one step: an id that has no row     *)
(* never gets one, because every uuid is new, so nothing can happen in     *)
(* between.  A message's timestamp is taken before the connection that     *)
(* inserts it is opened: two steps, and readers sort by timestamp.  What   *)
(* the model says, and the tool calls in it, are in ToolApproval.          *)
(***************************************************************************)
EXTENDS Naturals, FiniteSets

CONSTANTS
  Pages,      \* open chat pages (browser tabs)
  Turns,      \* messages the users send; bounds the model
  Limit,      \* the limit of get_recent_messages_for_llm, 20 in chat()
  Existing,   \* conversations the table has at first
  MaxMoves,   \* bounds the changes of conversation on a page
  NoTurn

ASSUME ConversationsAssumption ==
  /\ Limit \in Nat \ {0}
  /\ Existing \in Nat
  /\ MaxMoves \in Nat
  /\ NoTurn \notin Turns

VARIABLES
  ids,        \* uuids drawn so far: 1..ids
  listed,     \* ids that have a row in conversations
  messages,   \* rows of messages
  clock,      \* the last timestamp taken
  pc,         \* pc[t]: how far the turn is
  conv,       \* conv[t]: conv_id of the turn, 0 before it has one
  stamp,      \* stamp[t]: timestamp of the message being inserted
  seen,       \* seen[t]: the history handed to the model
  convId,     \* convId[p]: the page's conversation, 0 for null
  shown,      \* shown[p]: conversations whose messages are displayed
  loads,      \* loads[p]: getConversation requests under way
  flight,     \* flight[p]: the turn whose stream the page reads
  captured,   \* captured[p]: convId in the closure that reads the stream
  parted,     \* history: pages that may send elsewhere than they show
  moves       \* history: changes of conversation so far

store == <<ids, listed, messages, clock>>
turn == <<pc, conv, stamp, seen>>
page == <<convId, shown, loads, flight, captured, parted, moves>>
vars == <<store, turn, page>>

TurnStates == {"unsent", "received", "stamping", "stored", "replying",
               "closing", "done", "lost"}

Roles == {"user", "assistant"}

TypeOK ==
  /\ ids \in Nat
  /\ listed \subseteq 1..ids
  /\ messages \subseteq
       [turn : Turns, conv : 1..ids, role : Roles, at : 1..clock]
  /\ clock \in Nat
  /\ pc \in [Turns -> TurnStates]
  /\ conv \in [Turns -> 0..ids]
  /\ stamp \in [Turns -> 0..clock]
  /\ seen \in [Turns -> SUBSET messages]
  /\ convId \in [Pages -> 0..ids]
  /\ shown \in [Pages -> SUBSET (1..ids)]
  /\ loads \in [Pages -> SUBSET (1..ids)]
  /\ flight \in [Pages -> Turns \cup {NoTurn}]
  /\ captured \in [Pages -> 0..ids]
  /\ parted \subseteq Pages
  /\ moves \in 0..MaxMoves

Init ==
  /\ ids = Existing
  /\ listed = 1..Existing
  /\ messages = {}
  /\ clock = 0
  /\ pc = [t \in Turns |-> "unsent"]
  /\ conv = [t \in Turns |-> 0]
  /\ stamp = [t \in Turns |-> 0]
  /\ seen = [t \in Turns |-> {}]
  /\ convId = [p \in Pages |-> 0]
  /\ shown = [p \in Pages |-> {}]
  /\ loads = [p \in Pages |-> {}]
  /\ flight = [p \in Pages |-> NoTurn]
  /\ captured = [p \in Pages |-> 0]
  /\ parted = {}
  /\ moves = 0

Goto(t, from, to) ==
  /\ pc[t] = from
  /\ pc' = [pc EXCEPT ![t] = to]

MessagesOf(c) == {m \in messages : m.conv = c}

\* The first n of a set of messages, in the order of their timestamps.
Oldest(M, n) == {m \in M : Cardinality({o \in M : o.at < m.at}) < n}

\* "Ensure conversation exists", with drawn ids taken: the row that is
\* created for a missing conversation has a new id.
Ensure(c, drawn) ==
  IF c \in listed
    THEN ids' = drawn /\ UNCHANGED listed
    ELSE ids' = drawn + 1 /\ listed' = listed \cup {drawn + 1}

-------------------------------------------------------------------------------
(* chat() *)

\* Faulty Receive: a chat without an id is filed under no conversation.
ReceiveWithoutId(p, t) ==
  /\ flight[p] = NoTurn
  /\ Goto(t, "unsent", "received")
  /\ conv' = [conv EXCEPT ![t] = convId[p]]
  /\ Ensure(convId[p], ids)
  /\ flight' = [flight EXCEPT ![p] = t]
  /\ captured' = [captured EXCEPT ![p] = convId[p]]
  /\ UNCHANGED <<messages, clock, stamp, seen, convId, shown, loads, parted,
                 moves>>

\* submit() posts the page's convId; chat() keeps it or draws one, and checks
\* that the conversation exists.
Receive(p, t) ==
  LET drawn == IF convId[p] = 0 THEN ids + 1 ELSE ids
      c == IF convId[p] = 0 THEN drawn ELSE convId[p]
  IN
  /\ flight[p] = NoTurn
  /\ Goto(t, "unsent", "received")
  /\ conv' = [conv EXCEPT ![t] = c]
  /\ Ensure(c, drawn)
  /\ flight' = [flight EXCEPT ![p] = t]
  /\ captured' = [captured EXCEPT ![p] = convId[p]]
  /\ shown' = [shown EXCEPT ![p] = @ \cup {c}]
  /\ UNCHANGED <<messages, clock, stamp, seen, convId, loads, parted, moves>>

\* add_message up to its timestamp.
Stamp(t, from, to) ==
  /\ Goto(t, from, to)
  /\ Ensure(conv[t], ids)
  /\ clock' = clock + 1
  /\ stamp' = [stamp EXCEPT ![t] = clock']
  /\ UNCHANGED <<messages, conv, seen, page>>

\* add_message's INSERT.
Insert(t, from, to, role) ==
  /\ Goto(t, from, to)
  /\ messages' = messages \cup
       {[turn |-> t, conv |-> conv[t], role |-> role, at |-> stamp[t]]}
  /\ UNCHANGED <<ids, listed, clock, conv, stamp, seen, page>>

StampQuestion(t) == Stamp(t, "received", "stamping")

InsertQuestion(t) == Insert(t, "stamping", "stored", "user")

\* Faulty ReadHistory: reads before the question is inserted.
ReadHistoryFirst(t) ==
  /\ \/ Goto(t, "stored", "replying")
     \/ Goto(t, "stamping", "replying")
  /\ seen' = [seen EXCEPT ![t] = Oldest(MessagesOf(conv[t]), Limit)]
  /\ UNCHANGED <<store, conv, stamp, page>>

\* get_recent_messages_for_llm: ORDER BY timestamp ASC LIMIT limit.
ReadHistory(t) ==
  /\ Goto(t, "stored", "replying")
  /\ seen' = [seen EXCEPT ![t] = Oldest(MessagesOf(conv[t]), Limit)]
  /\ UNCHANGED <<store, conv, stamp, page>>

\* Faulty StampAnswer: the answer carries the time the turn was received.
StampAnswerEarly(t) ==
  /\ Goto(t, "replying", "closing")
  /\ Ensure(conv[t], ids)
  /\ UNCHANGED <<messages, clock, stamp, conv, seen, page>>

StampAnswer(t) == Stamp(t, "replying", "closing")

InsertAnswer(t) == Insert(t, "closing", "done", "assistant")

\* A statement raises, the model's stream raises, or the client goes away; an
\* answer that was already inserted stays.
Lose(t) ==
  /\ pc[t] \notin {"unsent", "lost"}
  /\ \E p \in Pages : flight[p] = t
  /\ pc' = [pc EXCEPT ![t] = "lost"]
  /\ UNCHANGED <<store, conv, stamp, seen, page>>

-------------------------------------------------------------------------------
(* The chat page *)

\* Faulty DoneArrives: follows the answer wherever the page is.
DoneAlwaysMoves(p) ==
  LET t == flight[p] IN
  /\ t # NoTurn
  /\ pc[t] = "done"
  /\ convId' = [convId EXCEPT ![p] = conv[t]]
  /\ flight' = [flight EXCEPT ![p] = NoTurn]
  /\ UNCHANGED <<store, turn, shown, loads, captured, parted, moves>>

\* The done block: a page that had no conversation when it sent takes the
\* turn's.  captured, not convId, is what the reading closure tests.
DoneArrives(p) ==
  LET t == flight[p] IN
  /\ t # NoTurn
  /\ pc[t] = "done"
  /\ convId' = IF captured[p] = 0 THEN [convId EXCEPT ![p] = conv[t]]
                                  ELSE convId
  /\ flight' = [flight EXCEPT ![p] = NoTurn]
  /\ UNCHANGED <<store, turn, shown, loads, captured, parted, moves>>

\* The stream failed: a new chat goes on showing its messages, but the page
\* never learnt its id.
StreamFails(p) ==
  /\ flight[p] # NoTurn
  /\ pc[flight[p]] = "lost"
  /\ flight' = [flight EXCEPT ![p] = NoTurn]
  /\ parted' = IF captured[p] = 0 THEN parted \cup {p} ELSE parted
  /\ UNCHANGED <<store, turn, convId, shown, loads, captured, moves>>

\* newChat (c = 0) or selectConversation of a row the sidebar lists.  Neither
\* is disabled while a stream or a load is under way.
Select(p, c) ==
  LET newChatStreams == flight[p] # NoTurn /\ captured[p] = 0
      otherLoads == loads[p] \ {c} # {}
  IN
  /\ c \in listed \cup {0}
  /\ moves < MaxMoves
  /\ moves' = moves + 1
  /\ convId' = [convId EXCEPT ![p] = c]
  /\ shown' = [shown EXCEPT ![p] = {}]
  /\ loads' = [loads EXCEPT ![p] = @ \cup ({c} \ {0})]
  /\ parted' = IF newChatStreams \/ otherLoads THEN parted \cup {p}
                                               ELSE parted \ {p}
  /\ UNCHANGED <<store, turn, flight, captured>>

\* getConversation answered: its messages replace what is displayed.
LoadArrives(p, c) ==
  /\ c \in loads[p]
  /\ loads' = [loads EXCEPT ![p] = @ \ {c}]
  /\ shown' = [shown EXCEPT ![p] = {c}]
  /\ UNCHANGED <<store, turn, convId, flight, captured, parted, moves>>

Next ==
  \/ \E t \in Turns :
       \/ \E p \in Pages : Receive(p, t)
       \/ StampQuestion(t)
       \/ InsertQuestion(t)
       \/ ReadHistory(t)
       \/ StampAnswer(t)
       \/ InsertAnswer(t)
       \/ Lose(t)
  \/ \E p \in Pages :
       \/ DoneArrives(p)
       \/ StreamFails(p)
       \/ \E c \in listed \cup {0} : Select(p, c)
       \/ \E c \in loads[p] : LoadArrives(p, c)

Spec == Init /\ [][Next]_vars

-------------------------------------------------------------------------------
(* Properties *)

Read == {"replying", "closing", "done"}

\* As long as a conversation fits in the window the model sees the question
\* it is to answer (main.py, chat: the user's message is stored before the
\* history is loaded).
SeesQuestionInWindow ==
  \A t \in Turns : pc[t] \in Read /\ Cardinality(MessagesOf(conv[t])) <= Limit =>
    \E m \in seen[t] : m.turn = t

\* Sorted by timestamp an answer comes after its question and after every
\* message the model had seen, however turns of one conversation overlap.
AnswersComeLast ==
  \A a \in messages : a.role = "assistant" =>
    /\ \E q \in messages :
         q.turn = a.turn /\ q.conv = a.conv /\ q.role = "user" /\ q.at < a.at
    /\ \A m \in seen[a.turn] : m.conv = a.conv /\ m.at < a.at

\* A page that may send displays no conversation but the one it sends to
\* (page.tsx, submit), unless a new chat's stream failed, or its user moved
\* while a new chat was streaming or another conversation was loading.
SendsWhereShown ==
  \A p \in Pages : flight[p] = NoTurn /\ p \notin parted =>
    shown[p] \subseteq {convId[p]}

\* conversation.py, get_recent_messages_for_llm: "Return last `limit`
\* messages".  The question is the last message of its conversation when one
\* page at a time is used, so the model must see it.
SeesQuestion ==
  \A t \in Turns : pc[t] \in Read => \E m \in seen[t] : m.turn = t
===============================================================================
