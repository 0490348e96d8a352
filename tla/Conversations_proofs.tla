------------------------- MODULE Conversations_proofs -------------------------
(***************************************************************************)
(* Theorems about Conversations, for any number of pages, turns and moves, *)
(* and any window.                                                         *)
(*                                                                         *)
(* IInv follows a turn from its question to its answer (TurnInv), says     *)
(* where the rows of messages come from (MessagesInv), and what a page     *)
(* that has not parted displays and loads while a stream is read and while *)
(* none is (PageInv).                                                      *)
(***************************************************************************)
EXTENDS Conversations, FiniteSetTheorems, TLAPS

\* The question of t is in the table, before the answer's timestamp.
QuestionIsStored(t) ==
  \E q \in messages :
    /\ q.turn = t /\ q.conv = conv[t] /\ q.role = "user"
    /\ pc[t] = "closing" => q.at < stamp[t]

TurnInv ==
  \A t \in Turns :
    /\ pc[t] # "unsent" => conv[t] \in 1..ids
    /\ pc[t] \in {"stamping", "closing"} => stamp[t] \in 1..clock
    /\ pc[t] \in Read \cup {"stored"} => QuestionIsStored(t)
    /\ pc[t] \in Read =>
         \A m \in seen[t] : m.conv = conv[t] /\ (pc[t] = "closing" => m.at < stamp[t])

MessagesInv ==
  /\ IsFiniteSet(messages)
  /\ \A m \in messages :
       /\ m.conv = conv[m.turn] /\ pc[m.turn] # "unsent"
       /\ m.role = "assistant" => pc[m.turn] \in {"done", "lost"}

\* A page that has not parted displays the conversation it sends to, or that
\* of the new chat whose stream it reads; and loads nothing else.
PageInv ==
  \A p \in Pages :
    /\ flight[p] # NoTurn => pc[flight[p]] # "unsent"
    /\ p \notin parted =>
         IF flight[p] # NoTurn /\ captured[p] = 0
           THEN shown[p] \subseteq {conv[flight[p]]} /\ loads[p] = {}
           ELSE shown[p] \subseteq {convId[p]} /\ loads[p] \subseteq {convId[p]}

IInv ==
  TypeOK /\ TurnInv /\ MessagesInv /\ PageInv /\ SeesQuestionInWindow /\ AnswersComeLast

-------------------------------------------------------------------------------
(* Types *)

\* What was well typed stays so when the store grows.
LEMMA TypeGrows ==
  ASSUME TypeOK, ids' \in Nat, ids <= ids', clock' \in Nat, clock <= clock',
         messages \subseteq messages'
  PROVE  /\ messages \subseteq [turn : Turns, conv : 1..ids', role : Roles, at : 1..clock']
         /\ conv \in [Turns -> 0..ids'] /\ stamp \in [Turns -> 0..clock']
         /\ seen \in [Turns -> SUBSET messages']
         /\ convId \in [Pages -> 0..ids'] /\ captured \in [Pages -> 0..ids']
         /\ shown \in [Pages -> SUBSET (1..ids')] /\ loads \in [Pages -> SUBSET (1..ids')]
<1>1. 1..ids \subseteq 1..ids' /\ 0..ids \subseteq 0..ids'
  BY DEF TypeOK
<1>2. 1..clock \subseteq 1..clock' /\ 0..clock \subseteq 0..clock'
  BY DEF TypeOK
<1> QED
  BY <1>1, <1>2 DEF TypeOK

\* A conversation that is there, or a new one, when it is ensured.
LEMMA EnsureGrows ==
  ASSUME TypeOK, NEW c, NEW drawn \in {ids, ids + 1}, Ensure(c, drawn)
  PROVE  ids' \in Nat /\ ids <= ids' /\ drawn <= ids' /\ listed' \subseteq 1..ids'
<1>1. ids \in Nat /\ drawn \in Nat /\ ids <= drawn /\ listed \subseteq 1..drawn
  BY DEF TypeOK
<1>2. CASE c \in listed
  <2>1. ids' = drawn /\ listed' = listed
    BY <1>2 DEF Ensure
  <2> QED
    BY <1>1, <2>1
<1>3. CASE c \notin listed
  <2>1. ids' = drawn + 1 /\ listed' = listed \cup {drawn + 1}
    BY <1>3 DEF Ensure
  <2> QED
    BY <1>1, <2>1
<1> QED
  BY <1>2, <1>3

LEMMA ReceiveType ==
  ASSUME TypeOK, NEW p \in Pages, NEW t \in Turns, Receive(p, t)
  PROVE  TypeOK'
<1> DEFINE drawn == IF convId[p] = 0 THEN ids + 1 ELSE ids
           c == IF convId[p] = 0 THEN drawn ELSE convId[p]
<1>1. /\ pc' = [pc EXCEPT ![t] = "received"] /\ conv' = [conv EXCEPT ![t] = c]
      /\ flight' = [flight EXCEPT ![p] = t]
      /\ captured' = [captured EXCEPT ![p] = convId[p]]
      /\ shown' = [shown EXCEPT ![p] = shown[p] \cup {c}]
      /\ Ensure(c, drawn)
      /\ UNCHANGED <<messages, clock, stamp, seen, convId, loads, parted, moves>>
  BY DEF Receive, Goto
<1>2. drawn \in {ids, ids + 1}
  OBVIOUS
<1>3. ids' \in Nat /\ ids <= ids' /\ drawn <= ids' /\ listed' \subseteq 1..ids'
  BY <1>1, <1>2, EnsureGrows
<1>4. c \in 1..ids'
  BY <1>3 DEF TypeOK
<1>5. clock' \in Nat /\ clock <= clock' /\ messages \subseteq messages'
  BY <1>1 DEF TypeOK
<1> HIDE DEF drawn, c
<1> QED
  BY <1>1, <1>3, <1>4, <1>5, TypeGrows DEF TypeOK, TurnStates

LEMMA StampType ==
  ASSUME TypeOK, NEW t \in Turns, NEW from, NEW to \in TurnStates, Stamp(t, from, to)
  PROVE  TypeOK'
<1>1. ids' \in Nat /\ ids <= ids' /\ listed' \subseteq 1..ids'
  BY EnsureGrows DEF Stamp
<1>2. clock' = clock + 1 /\ clock' \in Nat /\ clock <= clock' /\ messages' = messages
  BY DEF Stamp, TypeOK
<1>3. stamp' \in [Turns -> 0..clock']
  BY <1>1, <1>2, TypeGrows DEF Stamp
<1> QED
  BY <1>1, <1>2, <1>3, TypeGrows DEF TypeOK, Stamp, Goto, page

LEMMA InsertType ==
  ASSUME TypeOK, NEW t \in Turns, NEW from, NEW to \in TurnStates, NEW role \in Roles,
         conv[t] \in 1..ids, stamp[t] \in 1..clock,
         Insert(t, from, to, role)
  PROVE  TypeOK'
<1>1. /\ messages' = messages \cup {[turn |-> t, conv |-> conv[t], role |-> role, at |-> stamp[t]]}
      /\ UNCHANGED <<ids, listed, clock, conv, stamp, seen, page>>
      /\ pc' = [pc EXCEPT ![t] = to]
  BY DEF Insert, Goto
<1>2. messages' \subseteq [turn : Turns, conv : 1..ids, role : Roles, at : 1..clock]
  BY <1>1 DEF TypeOK
<1>3. seen' \in [Turns -> SUBSET messages']
  BY <1>1 DEF TypeOK
<1> QED
  BY <1>1, <1>2, <1>3 DEF TypeOK, page

LEMMA ReadHistoryType ==
  ASSUME TypeOK, NEW t \in Turns, ReadHistory(t)
  PROVE  TypeOK'
<1>1. Oldest(MessagesOf(conv[t]), Limit) \subseteq messages
  BY DEF Oldest, MessagesOf
<1> QED
  BY <1>1 DEF ReadHistory, Goto, store, page, TypeOK, TurnStates

LEMMA LoseType ==
  ASSUME TypeOK, NEW t \in Turns, Lose(t)
  PROVE  TypeOK'
BY DEF Lose, store, page, TypeOK, TurnStates

LEMMA PageType ==
  ASSUME TypeOK, NEW p \in Pages,
         \/ DoneArrives(p) \/ StreamFails(p)
         \/ \E c \in listed \cup {0} : Select(p, c)
         \/ \E c \in loads[p] : LoadArrives(p, c)
  PROVE  TypeOK'
<1> USE DEF TypeOK, store, turn
<1>1. CASE DoneArrives(p)
  BY <1>1 DEF DoneArrives
<1>2. CASE StreamFails(p)
  BY <1>2 DEF StreamFails
<1>3. ASSUME NEW c \in listed \cup {0}, Select(p, c) PROVE TypeOK'
  BY <1>3, ConversationsAssumption DEF Select
<1>4. ASSUME NEW c \in loads[p], LoadArrives(p, c) PROVE TypeOK'
  BY <1>4 DEF LoadArrives
<1> QED
  BY <1>1, <1>2, <1>3, <1>4

-------------------------------------------------------------------------------
(* Turns *)

\* A page's step, or an empty one, leaves every turn and every row alone.
LEMMA TurnsUnchanged ==
  ASSUME IInv, UNCHANGED <<store, turn>>
  PROVE  /\ TurnInv' /\ MessagesInv' /\ SeesQuestionInWindow' /\ AnswersComeLast'
BY DEF IInv, store, turn, TurnInv, QuestionIsStored, MessagesInv, SeesQuestionInWindow,
       AnswersComeLast, MessagesOf

\* Nothing that is said of a turn changes while its own state does not and the
\* store only grows.
LEMMA OtherTurns ==
  ASSUME IInv, NEW t \in Turns,
         ids' \in Nat, ids <= ids', clock' \in Nat, clock <= clock', messages \subseteq messages',
         pc'[t] = pc[t], conv'[t] = conv[t], stamp'[t] = stamp[t], seen'[t] = seen[t]
  PROVE  /\ pc'[t] # "unsent" => conv'[t] \in 1..ids'
         /\ pc'[t] \in {"stamping", "closing"} => stamp'[t] \in 1..clock'
         /\ pc'[t] \in Read \cup {"stored"} => QuestionIsStored(t)'
         /\ pc'[t] \in Read =>
              \A m \in seen'[t] : m.conv = conv'[t] /\ (pc'[t] = "closing" => m.at < stamp'[t])
<1>1. ids \in Nat /\ clock \in Nat
  BY DEF IInv, TypeOK
<1>2. pc[t] # "unsent" => conv[t] \in 1..ids'
  BY <1>1 DEF IInv, TurnInv
<1>3. pc[t] \in {"stamping", "closing"} => stamp[t] \in 1..clock'
  BY <1>1 DEF IInv, TurnInv
<1>4. pc[t] \in Read \cup {"stored"} => QuestionIsStored(t)'
  BY DEF IInv, TurnInv, QuestionIsStored
<1>5. pc[t] \in Read =>
        \A m \in seen[t] : m.conv = conv[t] /\ (pc[t] = "closing" => m.at < stamp[t])
  BY DEF IInv, TurnInv
<1> QED
  BY <1>2, <1>3, <1>4, <1>5

\* The table of messages is as it was: what was true of its rows still is when
\* no turn that has a row is sent again or leaves its end.
LEMMA RowsUnchanged ==
  ASSUME IInv, UNCHANGED messages,
         \A t \in Turns : pc[t] # "unsent" =>
           /\ conv'[t] = conv[t] /\ pc'[t] # "unsent"
           /\ pc[t] \in {"done", "lost"} => pc'[t] \in {"done", "lost"} /\ seen'[t] = seen[t]
  PROVE  MessagesInv' /\ AnswersComeLast'
<1>1. \A m \in messages : m.turn \in Turns
  BY DEF IInv, TypeOK
<1>2. MessagesInv'
  BY <1>1 DEF IInv, MessagesInv
<1>3. AnswersComeLast'
  BY <1>1 DEF IInv, MessagesInv, AnswersComeLast
<1> QED
  BY <1>2, <1>3

\* So is what the model saw, for the turns that had seen it.
LEMMA WindowUnchanged ==
  ASSUME IInv, UNCHANGED messages, NEW t \in Turns, UNCHANGED <<conv[t], seen[t]>>,
         pc'[t] \in Read => pc[t] \in Read,
         pc'[t] \in Read, Cardinality(MessagesOf(conv[t]))' <= Limit
  PROVE  \E m \in seen'[t] : m.turn = t
BY DEF IInv, SeesQuestionInWindow, MessagesOf

LEMMA ReceiveTurns ==
  ASSUME IInv, NEW p \in Pages, NEW t \in Turns, Receive(p, t)
  PROVE  TurnInv' /\ MessagesInv' /\ SeesQuestionInWindow' /\ AnswersComeLast'
<1>1. /\ pc[t] = "unsent" /\ pc' = [pc EXCEPT ![t] = "received"]
      /\ \A u \in Turns \ {t} : conv'[u] = conv[u] /\ pc'[u] = pc[u]
      /\ pc'[t] = "received"
      /\ UNCHANGED <<messages, clock, stamp, seen>>
  BY DEF Receive, Goto, IInv, TypeOK
<1>2. TypeOK'
  BY ReceiveType DEF IInv
<1>3. conv'[t] \in 1..ids' /\ ids <= ids'
  <2> DEFINE drawn == IF convId[p] = 0 THEN ids + 1 ELSE ids
             c == IF convId[p] = 0 THEN drawn ELSE convId[p]
  <2>1. Ensure(c, drawn) /\ conv' = [conv EXCEPT ![t] = c]
    BY DEF Receive
  <2>2. drawn \in {ids, ids + 1}
    OBVIOUS
  <2>3. ids' \in Nat /\ ids <= ids' /\ drawn <= ids'
    BY <2>1, <2>2, EnsureGrows DEF IInv
  <2>4. c \in 1..ids' /\ conv'[t] = c
    BY <2>1, <2>3 DEF IInv, TypeOK
  <2> QED
    BY <2>3, <2>4
<1>4. TurnInv'
  <2>1. ASSUME NEW u \in Turns, u # t
        PROVE  /\ pc'[u] # "unsent" => conv'[u] \in 1..ids'
               /\ pc'[u] \in {"stamping", "closing"} => stamp'[u] \in 1..clock'
               /\ pc'[u] \in Read \cup {"stored"} => QuestionIsStored(u)'
               /\ pc'[u] \in Read =>
                    \A m \in seen'[u] : m.conv = conv'[u] /\ (pc'[u] = "closing" => m.at < stamp'[u])
    BY <1>1, <1>2, <1>3, <2>1, OtherTurns DEF IInv, TypeOK
  <2> QED
    BY <1>1, <1>3, <2>1 DEF TurnInv, Read
<1>5. MessagesInv' /\ AnswersComeLast'
  BY <1>1, RowsUnchanged
<1>6. SeesQuestionInWindow'
  BY <1>1, WindowUnchanged DEF SeesQuestionInWindow, Read
<1> QED
  BY <1>4, <1>5, <1>6

\* What TurnInv says of t, to be shown of the turn that steps.
TurnIsSound(t) ==
  /\ pc[t] # "unsent" => conv[t] \in 1..ids
  /\ pc[t] \in {"stamping", "closing"} => stamp[t] \in 1..clock
  /\ pc[t] \in Read \cup {"stored"} => QuestionIsStored(t)
  /\ pc[t] \in Read =>
       \A m \in seen[t] : m.conv = conv[t] /\ (pc[t] = "closing" => m.at < stamp[t])

\* A step of t alone keeps TurnInv if it keeps t sound.
LEMMA OneTurn ==
  ASSUME IInv, NEW t \in Turns, TypeOK', ids <= ids', clock <= clock', messages \subseteq messages',
         \A u \in Turns \ {t} :
           pc'[u] = pc[u] /\ conv'[u] = conv[u] /\ stamp'[u] = stamp[u] /\ seen'[u] = seen[u],
         TurnIsSound(t)'
  PROVE  TurnInv'
<1>1. ids' \in Nat /\ clock' \in Nat
  BY DEF TypeOK
<1>2. ASSUME NEW u \in Turns \ {t} PROVE TurnIsSound(u)'
  BY <1>1, <1>2, OtherTurns DEF TurnIsSound
<1> QED
  BY <1>2 DEF TurnInv, TurnIsSound

LEMMA StampTurns ==
  ASSUME IInv, NEW t \in Turns,
         \/ Stamp(t, "received", "stamping") \/ Stamp(t, "replying", "closing")
  PROVE  TurnInv' /\ MessagesInv' /\ SeesQuestionInWindow' /\ AnswersComeLast'
<1>1. /\ \/ pc[t] = "received" /\ pc'[t] = "stamping"
         \/ pc[t] = "replying" /\ pc'[t] = "closing"
      /\ \A u \in Turns \ {t} : pc'[u] = pc[u] /\ stamp'[u] = stamp[u]
      /\ clock' = clock + 1 /\ stamp'[t] = clock + 1
      /\ UNCHANGED <<messages, conv, seen>>
  BY DEF Stamp, Goto, IInv, TypeOK
<1>2. TypeOK'
  BY StampType DEF IInv, TurnStates
<1>3. ids \in Nat /\ ids' \in Nat /\ ids <= ids' /\ clock \in Nat
  BY EnsureGrows DEF Stamp, IInv, TypeOK
<1>4. TurnIsSound(t)'
  <2>1. conv'[t] \in 1..ids' /\ stamp'[t] \in 1..clock'
    BY <1>1, <1>3 DEF IInv, TurnInv
  <2>2. ASSUME pc[t] = "replying", pc'[t] = "closing" PROVE QuestionIsStored(t)'
    <3>1. PICK q \in messages : q.turn = t /\ q.conv = conv[t] /\ q.role = "user"
      BY <2>2 DEF IInv, TurnInv, QuestionIsStored, Read
    <3>2. q.at \in 1..clock
      BY DEF IInv, TypeOK
    <3> QED
      BY <1>1, <1>3, <3>1, <3>2 DEF QuestionIsStored
  <2>3. ASSUME pc[t] = "replying", NEW m \in seen[t]
        PROVE  m.conv = conv[t] /\ m.at < clock + 1
    <3>1. m.conv = conv[t] /\ m \in messages
      BY <2>3 DEF IInv, TypeOK, TurnInv, Read
    <3>2. m.at \in 1..clock
      BY <3>1 DEF IInv, TypeOK
    <3> QED
      BY <1>3, <3>1, <3>2
  <2> QED
    BY <1>1, <2>1, <2>2, <2>3 DEF TurnIsSound, Read
<1>5. TurnInv'
  <2>1. clock <= clock' /\ messages \subseteq messages'
    BY <1>1, <1>3
  <2> QED
    BY <1>1, <1>2, <1>3, <1>4, <2>1, OneTurn
<1>6. MessagesInv' /\ AnswersComeLast'
  BY <1>1, RowsUnchanged
<1>7. SeesQuestionInWindow'
  BY <1>1, WindowUnchanged DEF SeesQuestionInWindow, Read
<1> QED
  BY <1>5, <1>6, <1>7

LEMMA InsertTurns ==
  ASSUME IInv, NEW t \in Turns,
         \/ Insert(t, "stamping", "stored", "user") \/ Insert(t, "closing", "done", "assistant")
  PROVE  TurnInv' /\ MessagesInv' /\ SeesQuestionInWindow' /\ AnswersComeLast' /\ TypeOK'
<1>1. PICK role \in Roles :
        /\ \/ pc[t] = "stamping" /\ pc'[t] = "stored" /\ role = "user"
           \/ pc[t] = "closing" /\ pc'[t] = "done" /\ role = "assistant"
        /\ \A u \in Turns \ {t} : pc'[u] = pc[u]
        /\ messages' = messages \cup {[turn |-> t, conv |-> conv[t], role |-> role, at |-> stamp[t]]}
        /\ UNCHANGED <<ids, clock, conv, stamp, seen>>
        /\ Insert(t, pc[t], pc'[t], role)
  BY DEF Insert, Goto, Roles, IInv, TypeOK
<1> DEFINE new == [turn |-> t, conv |-> conv[t], role |-> role, at |-> stamp[t]]
<1>2. conv[t] \in 1..ids /\ stamp[t] \in 1..clock /\ conv[t] \in Nat /\ stamp[t] \in Nat
  BY <1>1 DEF IInv, TurnInv, TypeOK
<1>3. TypeOK'
  BY <1>1, <1>2, InsertType DEF IInv, TurnStates
<1>4. /\ new.turn = t /\ new.conv = conv[t] /\ new.role = role /\ new.at = stamp[t]
      /\ new \in messages' /\ messages \subseteq messages'
      /\ \A m \in messages' : m \in messages \/ m = new
  BY <1>1
<1> HIDE DEF new
<1>5. TurnInv'
  <2>1. TurnIsSound(t)'
    <3>1. QuestionIsStored(t)'
      <4>1. CASE role = "user"
        BY <1>1, <1>4, <4>1 DEF QuestionIsStored
      <4>2. CASE role = "assistant"
        BY <1>1, <1>4, <4>2 DEF QuestionIsStored, IInv, TurnInv, Read
      <4> QED
        BY <4>1, <4>2 DEF Roles
    <3>2. pc'[t] \in Read => \A m \in seen'[t] : m.conv = conv'[t]
      BY <1>1 DEF IInv, TurnInv, Read
    <3> QED
      BY <1>1, <1>2, <3>1, <3>2 DEF TurnIsSound
  <2>2. ids <= ids' /\ clock <= clock'
    BY <1>1 DEF IInv, TypeOK
  <2> QED
    BY <1>1, <1>3, <1>4, <2>1, <2>2, OneTurn
<1>6. MessagesInv'
  <2>1. IsFiniteSet(messages')
    BY <1>1, FS_AddElement DEF IInv, MessagesInv
  <2>2. \A m \in messages' :
          /\ m.conv = conv'[m.turn] /\ pc'[m.turn] # "unsent"
          /\ m.role = "assistant" => pc'[m.turn] \in {"done", "lost"}
    <3> SUFFICES ASSUME NEW m \in messages'
                 PROVE  /\ m.conv = conv'[m.turn] /\ pc'[m.turn] # "unsent"
                        /\ m.role = "assistant" => pc'[m.turn] \in {"done", "lost"}
      OBVIOUS
    <3>1. CASE m = new
      BY <1>1, <1>4, <3>1
    <3>2. CASE m \in messages
      <4>1. /\ m.turn \in Turns /\ m.conv = conv[m.turn] /\ pc[m.turn] # "unsent"
            /\ m.role = "assistant" => pc[m.turn] \in {"done", "lost"}
        BY <3>2 DEF IInv, TypeOK, MessagesInv
      <4> QED
        BY <1>1, <4>1
    <3> QED
      BY <1>4, <3>1, <3>2
  <2> QED
    BY <2>1, <2>2 DEF MessagesInv
<1>7. SeesQuestionInWindow'
  <2> SUFFICES ASSUME NEW u \in Turns, pc'[u] \in Read,
                      Cardinality(MessagesOf(conv[u])') <= Limit
               PROVE  \E m \in seen'[u] : m.turn = u
    BY <1>1 DEF SeesQuestionInWindow
  <2>1. pc[u] \in Read
    BY <1>1 DEF Read
  <2>2. IsFiniteSet(messages) /\ IsFiniteSet(messages')
    BY <1>6 DEF IInv, MessagesInv
  <2>3. Cardinality(MessagesOf(conv[u])) <= Cardinality(MessagesOf(conv[u])')
    <3>1. /\ MessagesOf(conv[u]) \subseteq MessagesOf(conv[u])'
          /\ MessagesOf(conv[u])' \subseteq messages'
      BY <1>1, <1>4 DEF MessagesOf
    <3>2. IsFiniteSet(MessagesOf(conv[u])')
      BY <2>2, <3>1, FS_Subset
    <3> QED
      BY <3>1, <3>2, FS_Subset
  <2>4. Cardinality(MessagesOf(conv[u])) \in Nat /\ Cardinality(MessagesOf(conv[u])') \in Nat
    BY <2>2, FS_Subset, FS_CardinalityType DEF MessagesOf
  <2>5. Cardinality(MessagesOf(conv[u])) <= Limit
    BY <2>3, <2>4, ConversationsAssumption
  <2> QED
    BY <1>1, <2>1, <2>5 DEF IInv, SeesQuestionInWindow
<1>8. AnswersComeLast'
  <2> SUFFICES ASSUME NEW a \in messages', a.role = "assistant"
               PROVE  /\ \E q \in messages' :
                           q.turn = a.turn /\ q.conv = a.conv /\ q.role = "user" /\ q.at < a.at
                      /\ \A m \in seen'[a.turn] : m.conv = a.conv /\ m.at < a.at
    BY DEF AnswersComeLast
  <2>1. CASE a \in messages
    BY <1>1, <1>4, <2>1 DEF IInv, AnswersComeLast
  <2>2. CASE a = new
    <3>1. pc[t] = "closing"
      BY <1>1, <1>4, <2>2
    <3> QED
      BY <1>1, <1>4, <2>2, <3>1 DEF IInv, TurnInv, QuestionIsStored, Read
  <2> QED
    BY <1>4, <2>1, <2>2
<1> QED
  BY <1>3, <1>5, <1>6, <1>7, <1>8

\* In a window that is large enough every row of the conversation is among
\* the oldest.
LEMMA OldestHasAll ==
  ASSUME NEW M, IsFiniteSet(M), NEW n \in Nat, Cardinality(M) <= n, NEW m \in M, m.at \in Nat
  PROVE  m \in Oldest(M, n)
<1> DEFINE before == {o \in M : o.at < m.at}
<1>1. before \subseteq M \ {m}
  OBVIOUS
<1>2. IsFiniteSet(M \ {m}) /\ Cardinality(M \ {m}) = Cardinality(M) - 1
  BY FS_RemoveElement
<1>3. Cardinality(before) <= Cardinality(M) - 1 /\ IsFiniteSet(before)
  BY <1>1, <1>2, FS_Subset
<1>4. Cardinality(before) \in Nat /\ Cardinality(M) \in Nat
  BY <1>3, FS_CardinalityType
<1>5. Cardinality(before) < n
  BY <1>3, <1>4
<1> QED
  BY <1>5 DEF Oldest

LEMMA ReadHistoryTurns ==
  ASSUME IInv, NEW t \in Turns, ReadHistory(t)
  PROVE  TurnInv' /\ MessagesInv' /\ SeesQuestionInWindow' /\ AnswersComeLast'
<1>1. /\ pc[t] = "stored" /\ pc'[t] = "replying"
      /\ \A u \in Turns \ {t} : pc'[u] = pc[u] /\ seen'[u] = seen[u]
      /\ seen'[t] = Oldest(MessagesOf(conv[t]), Limit)
      /\ UNCHANGED <<ids, listed, messages, clock, conv, stamp>>
  BY DEF ReadHistory, Goto, store, IInv, TypeOK
<1>2. TypeOK'
  BY ReadHistoryType DEF IInv
<1>3. TurnInv'
  <2>1. TurnIsSound(t)'
    <3>1. \A m \in seen'[t] : m.conv = conv'[t]
      BY <1>1 DEF Oldest, MessagesOf
    <3>2. QuestionIsStored(t)'
      BY <1>1 DEF IInv, TurnInv, QuestionIsStored
    <3> QED
      BY <1>1, <3>1, <3>2 DEF TurnIsSound, IInv, TurnInv
  <2>2. ids <= ids' /\ clock <= clock' /\ messages \subseteq messages'
    BY <1>1 DEF IInv, TypeOK
  <2> QED
    BY <1>1, <1>2, <2>1, <2>2, OneTurn
<1>4. MessagesInv' /\ AnswersComeLast'
  BY <1>1, RowsUnchanged
<1>5. SeesQuestionInWindow'
  <2> SUFFICES ASSUME NEW u \in Turns, pc'[u] \in Read,
                      Cardinality(MessagesOf(conv[u])') <= Limit
               PROVE  \E m \in seen'[u] : m.turn = u
    BY <1>1 DEF SeesQuestionInWindow
  <2>1. CASE u # t
    BY <1>1, <2>1, WindowUnchanged
  <2>2. CASE u = t
    <3>1. PICK q \in messages : q.turn = t /\ q.conv = conv[t]
      BY <1>1 DEF IInv, TurnInv, QuestionIsStored
    <3>2. MessagesOf(conv[t])' = MessagesOf(conv[t]) /\ q \in MessagesOf(conv[t])
      BY <1>1, <3>1 DEF MessagesOf
    <3>3. q.at \in Nat
      BY DEF IInv, TypeOK
    <3>4. IsFiniteSet(MessagesOf(conv[t]))
      BY FS_Subset DEF IInv, MessagesInv, MessagesOf
    <3>5. Cardinality(MessagesOf(conv[t])) <= Limit /\ Limit \in Nat
      BY <2>2, <3>2, ConversationsAssumption
    <3>6. q \in seen'[t]
      BY <1>1, <3>2, <3>3, <3>4, <3>5, OldestHasAll
    <3> QED
      BY <2>2, <3>1, <3>6
  <2> QED
    BY <2>1, <2>2
<1> QED
  BY <1>3, <1>4, <1>5

LEMMA LoseTurns ==
  ASSUME IInv, NEW t \in Turns, Lose(t)
  PROVE  TurnInv' /\ MessagesInv' /\ SeesQuestionInWindow' /\ AnswersComeLast'
<1>1. /\ pc[t] # "unsent" /\ pc'[t] = "lost"
      /\ \A u \in Turns \ {t} : pc'[u] = pc[u]
      /\ UNCHANGED <<ids, listed, messages, clock, conv, stamp, seen>>
  BY DEF Lose, store, IInv, TypeOK
<1>2. TypeOK'
  BY LoseType DEF IInv
<1>3. TurnInv'
  <2>1. TurnIsSound(t)'
    BY <1>1 DEF TurnIsSound, IInv, TurnInv, Read
  <2>2. ids <= ids' /\ clock <= clock' /\ messages \subseteq messages'
    BY <1>1 DEF IInv, TypeOK
  <2> QED
    BY <1>1, <1>2, <2>1, <2>2, OneTurn
<1>4. MessagesInv' /\ AnswersComeLast'
  BY <1>1, RowsUnchanged
<1>5. SeesQuestionInWindow'
  BY <1>1, WindowUnchanged DEF SeesQuestionInWindow, Read
<1> QED
  BY <1>3, <1>4, <1>5

-------------------------------------------------------------------------------
(* Pages *)

\* A turn's own step does not move the pages.
LEMMA PagesUnchanged ==
  ASSUME IInv, UNCHANGED <<conv, page>>,
         \A t \in Turns : pc[t] # "unsent" => pc'[t] # "unsent"
  PROVE  PageInv'
BY DEF IInv, TypeOK, PageInv, page

LEMMA ReceivePages ==
  ASSUME IInv, NEW p \in Pages, NEW t \in Turns, Receive(p, t)
  PROVE  PageInv'
<1> DEFINE c == IF convId[p] = 0 THEN ids + 1 ELSE convId[p]
<1>1. /\ flight[p] = NoTurn /\ pc[t] = "unsent"
      /\ pc' = [pc EXCEPT ![t] = "received"] /\ conv' = [conv EXCEPT ![t] = c]
      /\ flight' = [flight EXCEPT ![p] = t]
      /\ captured' = [captured EXCEPT ![p] = convId[p]]
      /\ shown' = [shown EXCEPT ![p] = shown[p] \cup {c}]
      /\ UNCHANGED <<convId, loads, parted>>
  BY DEF Receive, Goto
<1>2. /\ pc'[t] = "received" /\ conv'[t] = c
      /\ \A u \in Turns \ {t} : pc'[u] = pc[u] /\ conv'[u] = conv[u]
  BY <1>1 DEF IInv, TypeOK
<1>3. t # NoTurn
  BY ConversationsAssumption
<1> HIDE DEF c
<1> SUFFICES ASSUME NEW q \in Pages
             PROVE  /\ flight'[q] # NoTurn => pc'[flight'[q]] # "unsent"
                    /\ q \notin parted' =>
                         IF flight'[q] # NoTurn /\ captured'[q] = 0
                           THEN shown'[q] \subseteq {conv'[flight'[q]]} /\ loads'[q] = {}
                           ELSE shown'[q] \subseteq {convId'[q]} /\ loads'[q] \subseteq {convId'[q]}
  BY DEF PageInv
<1>4. CASE q # p
  <2>1. /\ flight'[q] = flight[q] /\ captured'[q] = captured[q] /\ shown'[q] = shown[q]
        /\ loads'[q] = loads[q] /\ convId'[q] = convId[q]
        /\ flight[q] # NoTurn => flight[q] \in Turns \ {t}
    BY <1>1, <1>4 DEF IInv, TypeOK, PageInv
  <2> QED
    BY <1>1, <1>2, <2>1 DEF IInv, PageInv
<1>5. CASE q = p
  <2>1. /\ flight'[p] = t /\ captured'[p] = convId[p] /\ shown'[p] = shown[p] \cup {c}
        /\ loads'[p] = loads[p] /\ convId'[p] = convId[p] /\ parted' = parted
    BY <1>1 DEF IInv, TypeOK
  <2>2. p \notin parted => shown[p] \subseteq {convId[p]} /\ loads[p] \subseteq {convId[p]}
    BY <1>1 DEF IInv, PageInv
  <2>3. 0 \notin shown[p] /\ 0 \notin loads[p]
    BY DEF IInv, TypeOK
  <2>4. convId[p] # 0 => c = convId[p]
    BY DEF c
  <2> QED
    BY <1>2, <1>3, <1>5, <2>1, <2>2, <2>3, <2>4
<1> QED
  BY <1>4, <1>5

LEMMA OwnPages ==
  ASSUME IInv, NEW p \in Pages,
         \/ DoneArrives(p) \/ StreamFails(p)
         \/ \E c \in listed \cup {0} : Select(p, c)
         \/ \E c \in loads[p] : LoadArrives(p, c)
  PROVE  PageInv'
<1>1. PageInv /\ TypeOK
  BY DEF IInv
<1>2. CASE DoneArrives(p)
  BY <1>1, <1>2, ConversationsAssumption DEF DoneArrives, TypeOK, PageInv, turn
<1>3. CASE StreamFails(p)
  BY <1>1, <1>3, ConversationsAssumption DEF StreamFails, TypeOK, PageInv, turn
<1>4. ASSUME NEW c \in listed \cup {0}, Select(p, c) PROVE PageInv'
  BY <1>1, <1>4 DEF Select, TypeOK, PageInv, turn
<1>5. ASSUME NEW c \in loads[p], LoadArrives(p, c) PROVE PageInv'
  BY <1>1, <1>5 DEF LoadArrives, TypeOK, PageInv, turn
<1> QED
  BY <1>2, <1>3, <1>4, <1>5

-------------------------------------------------------------------------------

LEMMA InitInv == Init => IInv
<1> SUFFICES ASSUME Init PROVE IInv
  OBVIOUS
<1>1. TypeOK
  BY ConversationsAssumption DEF Init, TypeOK, TurnStates
<1>2. TurnInv /\ PageInv
  BY DEF Init, TurnInv, PageInv, Read
<1>3. MessagesInv
  BY FS_EmptySet DEF Init, MessagesInv
<1>4. SeesQuestionInWindow /\ AnswersComeLast
  BY DEF Init, SeesQuestionInWindow, AnswersComeLast, Read
<1> QED
  BY <1>1, <1>2, <1>3, <1>4 DEF IInv

LEMMA NextInv == IInv /\ [Next]_vars => IInv'
<1> SUFFICES ASSUME IInv, [Next]_vars PROVE IInv'
  OBVIOUS
<1>1. ASSUME NEW p \in Pages, NEW t \in Turns, Receive(p, t) PROVE IInv'
  BY <1>1, ReceiveType, ReceiveTurns, ReceivePages DEF IInv
<1>2. ASSUME NEW t \in Turns, StampQuestion(t) \/ StampAnswer(t) PROVE IInv'
  <2>1. TypeOK'
    BY <1>2, StampType DEF IInv, StampQuestion, StampAnswer, TurnStates
  <2>2. TurnInv' /\ MessagesInv' /\ SeesQuestionInWindow' /\ AnswersComeLast'
    BY <1>2, StampTurns DEF StampQuestion, StampAnswer
  <2>3. PageInv'
    BY <1>2, PagesUnchanged DEF StampQuestion, StampAnswer, Stamp, Goto, IInv, TypeOK
  <2> QED
    BY <2>1, <2>2, <2>3 DEF IInv
<1>3. ASSUME NEW t \in Turns, InsertQuestion(t) \/ InsertAnswer(t) PROVE IInv'
  <2>1. TurnInv' /\ MessagesInv' /\ SeesQuestionInWindow' /\ AnswersComeLast' /\ TypeOK'
    BY <1>3, InsertTurns DEF InsertQuestion, InsertAnswer
  <2>2. PageInv'
    BY <1>3, PagesUnchanged DEF InsertQuestion, InsertAnswer, Insert, Goto, IInv, TypeOK
  <2> QED
    BY <2>1, <2>2 DEF IInv
<1>4. ASSUME NEW t \in Turns, ReadHistory(t) PROVE IInv'
  <2>1. PageInv'
    BY <1>4, PagesUnchanged DEF ReadHistory, Goto, IInv, TypeOK
  <2> QED
    BY <1>4, <2>1, ReadHistoryType, ReadHistoryTurns DEF IInv
<1>5. ASSUME NEW t \in Turns, Lose(t) PROVE IInv'
  <2>1. PageInv'
    BY <1>5, PagesUnchanged DEF Lose, IInv, TypeOK
  <2> QED
    BY <1>5, <2>1, LoseType, LoseTurns DEF IInv
<1>6. ASSUME NEW p \in Pages,
             \/ DoneArrives(p) \/ StreamFails(p)
             \/ \E c \in listed \cup {0} : Select(p, c)
             \/ \E c \in loads[p] : LoadArrives(p, c)
      PROVE  IInv'
  <2>1. UNCHANGED <<store, turn>>
    BY <1>6 DEF DoneArrives, StreamFails, Select, LoadArrives
  <2> QED
    BY <1>6, <2>1, PageType, TurnsUnchanged, OwnPages DEF IInv
<1>7. CASE UNCHANGED vars
  <2>1. TypeOK' /\ PageInv'
    BY <1>7 DEF IInv, TypeOK, PageInv, vars, store, turn, page
  <2> QED
    BY <1>7, <2>1, TurnsUnchanged DEF IInv, vars
<1> QED
  BY <1>1, <1>2, <1>3, <1>4, <1>5, <1>6, <1>7 DEF Next

LEMMA Invariant == Spec => []IInv
  BY InitInv, NextInv, PTL DEF Spec

\* Type correctness of the store, the turns and the pages.
THEOREM TypeCorrect == Spec => []TypeOK
<1>1. IInv => TypeOK
  BY DEF IInv
<1> QED
  BY <1>1, Invariant, PTL

\* However the turns of a conversation overlap, the model sees the question it
\* answers as long as the conversation fits in the window.
THEOREM QuestionIsSeen == Spec => []SeesQuestionInWindow
<1>1. IInv => SeesQuestionInWindow
  BY DEF IInv
<1> QED
  BY <1>1, Invariant, PTL

\* Answers are stamped after their question and all that the model had seen.
THEOREM AnswersAreLast == Spec => []AnswersComeLast
<1>1. IInv => AnswersComeLast
  BY DEF IInv
<1> QED
  BY <1>1, Invariant, PTL

\* A page that may send displays the conversation it sends to.
THEOREM PagesSendWhereShown == Spec => []SendsWhereShown
<1>1. IInv => SendsWhereShown
  BY DEF IInv, PageInv, SendsWhereShown
<1> QED
  BY <1>1, Invariant, PTL
===============================================================================
