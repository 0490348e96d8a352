------------------------- MODULE CloudStorage_proofs -------------------------
(***************************************************************************)
(* Theorems about CloudStorage, for any clients, requests, layouts and     *)
(* stores.                                                                 *)
(*                                                                         *)
(* WholeFiles needs that a call whose answer counts has ended              *)
(* (EmptyIsOpened).  OneFilePerPath is not inductive: in Drive it rests on *)
(* what a call has found out on its walk and still holds when it acts, as  *)
(* long as no other call is under way (Walk, QuietIsAlone).                *)
(***************************************************************************)
EXTENDS CloudStorage, FunctionTheorems, FiniteSetTheorems, SequenceTheorems, TLAPS

Fields == DOMAIN Fresh

\* What a call is made of.
CallsOK ==
  /\ call = [c \in Client |-> call[c]]
  /\ \A c \in Client :
       /\ DOMAIN call[c] = Fields
       /\ call[c].op \in Ops \cup {"none"}
       /\ (call[c].pc = "idle") <=> (call[c].op = "none")
       /\ call[c].pc # "idle" => call[c].src \in Paths /\ call[c].dst \in Paths
       /\ call[c].res \in {"none", "ok", "error"}
       /\ call[c].got \in Data \cup {Idle}
       /\ call[c].pc = "save" => call[c].got \in Data
       /\ call[c].at \in Nat /\ call[c].i \in Nat /\ call[c].file \in Nat

HistoryOK ==
  /\ host \in [Client -> Data \cup {Idle}]
  /\ quiet \in [Client -> BOOLEAN]
  /\ before = [c \in Client |-> before[c]]

\* An item is in a folder that was made before the next identity was due,
\* and no two items share an identity.
ItemsOK ==
  /\ next \in Nat \ {0}
  /\ \A x \in items :
       /\ DOMAIN x = {"id", "name", "parent", "data"}
       /\ x.id \in 1..next - 1 /\ x.parent \in 0..next - 1
       /\ x.data \in Data \cup {Folder}
  /\ \A x, y \in items : x.id = y.id => x = y

\* In Drive a walk stands in a folder that has been made.
AtKnown == kind = "gdrive" => \A c \in Client : call[c].at < next

\* An empty file has its writer, or the writer failed, or it was cloud_upload's
\* to local://.
Opened(c, id) ==
  /\ call[c].op \in {"upload", "put", "append"} /\ call[c].file = id
  /\ \/ call[c].pc = "flush"
     \/ call[c].pc = "done" /\ (call[c].res = "error" \/ call[c].op = "put")
EmptyIsOpened ==
  \A x \in items : x.data = Empty =>
    kind \in {"local", "sftp"} /\ \E c \in Client : Opened(c, x.id)

\* A call that nothing overlapped is the only one under way.
QuietIsAlone ==
  \A c, d \in Client : Active(c) /\ Active(d) /\ quiet[c] => c = d

\* How far a walk through Drive has come, while nobody disturbed it.
Same(c) == \A p \in Paths : Seen(p) = before[c][p]
Walking(c) ==
  LET w == Walked(c) IN
  /\ Same(c) /\ call[c].i < Len(w)
  /\ IF call[c].i = 0 THEN call[c].at = Root
     ELSE \E x \in Children(Root, w[1]) : call[c].at = x.id
Ensuring(c) ==
  LET d == call[c].dst IN
  /\ call[c].op \in {"upload", "move"} /\ At(d) = {} /\ call[c].i < Len(d)
  /\ call[c].i = 0 => call[c].at = Root /\ Same(c)
  /\ call[c].i + 1 = Len(d) => Children(call[c].at, Last(d)) = {}
Making(c) ==
  LET d == call[c].dst IN
  call[c].i = 0 /\ Len(d) = 2 /\ \A x \in Children(Root, d[1]) : x.data # Folder
Placing(c) == Children(call[c].at, Last(call[c].dst)) = {}
Walk(c) ==
  /\ call[c].pc = "go" => Same(c) /\ call[c].i = 0 /\ call[c].at = Root
  /\ call[c].pc = "walk" => Walking(c)
  /\ call[c].pc \in {"ensure", "mkdir"} => Ensuring(c)
  /\ call[c].pc = "mkdir" => Making(c)
  /\ call[c].pc \in {"post", "meta", "place"} => Placing(c)

Calm == \A c \in Client : ~Disturbed(c)
OnePath ==
  /\ kind # "gdrive" => Unique
  /\ kind = "gdrive" /\ Calm => Unique /\ \A c \in Client : Walk(c)

IInv == kind \in Kinds /\ session \in {"none", "up", "dead"}
        /\ CallsOK /\ HistoryOK /\ ItemsOK /\ AtKnown /\ EmptyIsOpened /\ QuietIsAlone /\ OnePath

------------------------------------------------------------------------------
(* Paths *)

LEMMA NamedShape ==
  ASSUME NEW q \in Named
  PROVE  /\ q \in Seq({q[i] : i \in DOMAIN q})
         /\ Len(q) = 1 \/ Len(q) = 2
         /\ DOMAIN q = 1..Len(q)
         /\ q = [i \in 1..Len(q) |-> q[i]]
<1>1. q \in Seq({q[i] : i \in DOMAIN q}) /\ Len(q) \in 1..MaxDepth
  BY StorageAssumption
<1> QED
  BY <1>1 DEF MaxDepth

LEMMA FrontIsOne ==
  ASSUME NEW S, NEW q \in Seq(S), Len(q) = 2
  PROVE  /\ Len(Front(q)) = 1 /\ DOMAIN Front(q) = 1..1
         /\ Front(q) = [i \in 1..1 |-> Front(q)[i]] /\ Front(q)[1] = q[1]
<1>1. SubSeq(q, 1, 1) \in Seq(S) /\ Len(SubSeq(q, 1, 1)) = 1
  OBVIOUS
<1>2. SubSeq(q, 1, 1)[1] = q[1]
  OBVIOUS
<1>3. Front(q) = SubSeq(q, 1, 1)
  BY DEF Front
<1> QED
  BY <1>1, <1>2, <1>3

LEMMA FrontOfTwo ==
  ASSUME NEW q \in Named, Len(q) > 1
  PROVE  /\ Len(q) = 2 /\ Len(Front(q)) = 1 /\ DOMAIN Front(q) = 1..1
         /\ Front(q) = [i \in 1..1 |-> Front(q)[i]] /\ Front(q)[1] = q[1]
<1>1. Len(q) = 2
  <2>1. Len(q) = 1 \/ Len(q) = 2
    BY NamedShape, Zenon
  <2> QED
    BY <2>1
<1>2. q \in Seq({q[i] : i \in DOMAIN q})
  BY NamedShape, Zenon
<1> QED
  BY <1>1, <1>2, FrontIsOne, Zenon

LEMMA PathShape ==
  ASSUME NEW p \in Paths
  PROVE  /\ Len(p) = 1 \/ Len(p) = 2
         /\ DOMAIN p = 1..Len(p)
         /\ p = [i \in 1..Len(p) |-> p[i]]
<1>1. CASE p \in Named
  BY <1>1, NamedShape
<1>2. ASSUME NEW q \in Named, Len(q) > 1, p = Front(q)
      PROVE  Len(p) = 1 /\ DOMAIN p = 1..Len(p) /\ p = [i \in 1..Len(p) |-> p[i]]
  BY <1>2, FrontOfTwo
<1> QED
  BY <1>1, <1>2 DEF Paths

LEMMA FrontShape ==
  ASSUME NEW p \in Paths, Len(p) = 2
  PROVE  /\ Front(p) \in Paths /\ Len(Front(p)) = 1 /\ Front(p)[1] = p[1]
         /\ Last(p) = p[2]
<1>1. p \in Named
  BY FrontOfTwo DEF Paths
<1>2. Len(p) > 1
  OBVIOUS
<1>3. Front(p) \in Paths
  BY <1>1, <1>2 DEF Paths
<1> QED
  BY <1>1, <1>2, <1>3, FrontOfTwo DEF Last

LEMMA LastOfOne == ASSUME NEW p, Len(p) = 1 PROVE Last(p) = p[1]
BY DEF Last

------------------------------------------------------------------------------
(* What a step may do to the items *)

\* Nothing was emptied.
Pale == \A y \in items' : y.data = Empty => \E x \in items : x.id = y.id /\ x.data = Empty
Tidy == ItemsOK' /\ Pale /\ (Unique => Unique')

LEMMA StillIsTidy == ASSUME ItemsOK, Still PROVE Tidy
BY DEF ItemsOK, Still, store, Tidy, Pale, Unique

LEMMA ShrinkIsTidy ==
  ASSUME ItemsOK, items' \subseteq items, next' = next
  PROVE  Tidy
BY DEF ItemsOK, Tidy, Pale, Unique

LEMMA RewrittenItems ==
  ASSUME ItemsOK, NEW id, NEW v \in Data \cup {Folder}, items' = Rewritten(id, v), next' = next
  PROVE  /\ ItemsOK' /\ (Unique => Unique')
         /\ \A y \in items' : \E x \in items :
              /\ y.id = x.id /\ y.name = x.name /\ y.parent = x.parent
              /\ y.data = IF x.id = id THEN v ELSE x.data
<1>1. \A y \in items' : \E x \in items : y = IF x.id = id THEN [x EXCEPT !.data = v] ELSE x
  BY DEF Rewritten
<1>2. ASSUME NEW x \in items, NEW y, y = IF x.id = id THEN [x EXCEPT !.data = v] ELSE x
      PROVE  /\ y.id = x.id /\ y.name = x.name /\ y.parent = x.parent
             /\ y.data = IF x.id = id THEN v ELSE x.data
             /\ DOMAIN y = {"id", "name", "parent", "data"}
  BY <1>2 DEF ItemsOK
<1>3. \A y \in items' : \E x \in items :
        /\ y = IF x.id = id THEN [x EXCEPT !.data = v] ELSE x
        /\ y.id = x.id /\ y.name = x.name /\ y.parent = x.parent
        /\ y.data = IF x.id = id THEN v ELSE x.data
        /\ DOMAIN y = {"id", "name", "parent", "data"}
  BY <1>1, <1>2
<1>4. ItemsOK'
  BY <1>3 DEF ItemsOK
<1>5. Unique => Unique'
  BY <1>3 DEF Unique
<1> QED
  BY <1>3, <1>4, <1>5

LEMMA RewriteIsTidy ==
  ASSUME ItemsOK, NEW id, NEW c \in Client, items' = Rewritten(id, c), next' = next
  PROVE  Tidy
<1>1. c \in Data /\ c # Empty
  BY StorageAssumption DEF Data
<1> QED
  BY <1>1, RewrittenItems DEF Tidy, Pale

\* one new item, in a folder where no other has its name
LEMMA AddItem ==
  ASSUME ItemsOK, NEW n, NEW h \in 0..next - 1, NEW v \in Data \cup {Folder},
         items' = items \cup {[id |-> next, name |-> n, parent |-> h, data |-> v]},
         next' = next + 1
  PROVE  /\ ItemsOK'
         /\ v # Empty => Pale
         /\ Children(h, n) = {} => (Unique => Unique')
<1> DEFINE z == [id |-> next, name |-> n, parent |-> h, data |-> v]
<1>1. /\ z.id = next /\ z.name = n /\ z.parent = h /\ z.data = v
      /\ DOMAIN z = {"id", "name", "parent", "data"}
  OBVIOUS
<1>2. \A y \in items' : y \in items \/ y = z
  OBVIOUS
<1> HIDE DEF z
<1>3. ItemsOK'
  BY <1>1, <1>2 DEF ItemsOK
<1>4. v # Empty => Pale
  BY <1>1, <1>2 DEF Pale
<1>5. Children(h, n) = {} => (Unique => Unique')
  BY <1>1, <1>2 DEF Unique, Children
<1> QED
  BY <1>3, <1>4, <1>5

\* a new folder at the top, and a new item in it
LEMMA AddInFolder ==
  ASSUME ItemsOK, NEW f, NEW n, NEW v \in Data \cup {Folder}, NEW rest, rest \subseteq items,
         items' = rest \cup {[id |-> next, name |-> f, parent |-> Root, data |-> Folder],
                             [id |-> next + 1, name |-> n, parent |-> next, data |-> v]},
         next' = next + 2
  PROVE  /\ ItemsOK'
         /\ v # Empty => Pale
         /\ Children(Root, f) = {} => (Unique => Unique')
<1> DEFINE y1 == [id |-> next, name |-> f, parent |-> Root, data |-> Folder]
<1> DEFINE z == [id |-> next + 1, name |-> n, parent |-> next, data |-> v]
<1>1. /\ z.id = next + 1 /\ z.name = n /\ z.parent = next /\ z.data = v
      /\ DOMAIN z = {"id", "name", "parent", "data"}
      /\ y1.id = next /\ y1.name = f /\ y1.parent = Root /\ y1.data = Folder
      /\ DOMAIN y1 = {"id", "name", "parent", "data"}
  OBVIOUS
<1>2. \A y \in items' : y \in items \/ y = z \/ y = y1
  OBVIOUS
<1> HIDE DEF z, y1
<1>3. ItemsOK'
  BY <1>1, <1>2 DEF ItemsOK, Root
<1>4. v # Empty => Pale
  BY <1>1, <1>2 DEF Pale, Empty, Folder
<1>5. Children(Root, f) = {} => (Unique => Unique')
  BY <1>1, <1>2 DEF Unique, Children, ItemsOK, Root
<1> QED
  BY <1>3, <1>4, <1>5

------------------------------------------------------------------------------
(* Where a path leads *)

LEMMA AtOne ==
  ASSUME NEW p, kind # "s3", Len(p) = 1
  PROVE  At(p) = Children(Root, p[1])
BY DEF At

LEMMA AtTwo ==
  ASSUME NEW p, kind # "s3", Len(p) = 2
  PROVE  /\ \A x \in Children(Root, p[1]) : Children(x.id, p[2]) \subseteq At(p)
         /\ \A y \in At(p) : \E x \in Children(Root, p[1]) : y \in Children(x.id, p[2])
BY DEF At

LEMMA AtItems == ASSUME NEW p PROVE At(p) \subseteq items
BY DEF At, Children

\* a folder that a path's last component may be put in, and what has its name
LEMMA HomeOf ==
  ASSUME ItemsOK, NEW p \in Paths, NEW h \in Homes(p)
  PROVE  h \in 0..next - 1 /\ Children(h, NameOf(p)) \subseteq At(p)
<1>0. Len(p) = 1 \/ Len(p) = 2
  BY PathShape
<1>1. CASE kind = "s3"
  BY <1>1 DEF Homes, NameOf, At, ItemsOK, Root
<1>2. CASE kind # "s3" /\ Len(p) = 1
  BY <1>2, AtOne, LastOfOne DEF Homes, NameOf, ItemsOK, Root
<1>3. CASE kind # "s3" /\ Len(p) = 2
  <2>1. /\ Len(Front(p)) = 1 /\ Front(p)[1] = p[1] /\ Last(p) = p[2]
    BY <1>3, FrontShape
  <2>2. At(Front(p)) = Children(Root, p[1])
    BY <1>3, <2>1, AtOne
  <2>3. PICK x \in Children(Root, p[1]) : h = x.id
    BY <1>3, <2>2 DEF Homes
  <2>4. x \in items
    BY <2>3 DEF Children
  <2> QED
    BY <1>3, <2>1, <2>3, <2>4, AtTwo DEF NameOf, ItemsOK
<1> QED
  BY <1>0, <1>1, <1>2, <1>3

LEMMA NoHome ==
  ASSUME NEW p \in Paths, Homes(p) = {}, ~Barred(p)
  PROVE  kind # "s3" /\ Len(p) = 2 /\ Children(Root, p[1]) = {}
<1>1. kind # "s3" /\ Len(p) = 2
  BY PathShape DEF Homes
<1>2. At(Front(p)) = {}
  BY DEF Barred
<1> QED
  BY <1>1, <1>2, FrontShape, AtOne

\* what LocalMoveCheck makes: the folder of a path that has none
LEMMA FrontIsFree ==
  ASSUME NEW p \in Paths, Homes(p) = {}, ~Barred(p)
  PROVE  Front(p) \in Paths /\ At(Front(p)) = {} /\ ~Barred(Front(p))
BY NoHome, FrontShape, AtOne DEF Barred, Homes

LEMMA CreateKeeps ==
  ASSUME ItemsOK, NEW p \in Paths, NEW v \in Data \cup {Folder},
         At(p) = {}, ~Barred(p), Create(p, v)
  PROVE  ItemsOK' /\ (v # Empty => Pale) /\ (Unique => Unique')
<1>1. CASE Homes(p) # {}
  <2>1. PICK h \in Homes(p) :
          /\ items' = items \cup {[id |-> next, name |-> NameOf(p), parent |-> h, data |-> v]}
          /\ next' = next + 1
    BY <1>1 DEF Create
  <2>2. h \in 0..next - 1 /\ Children(h, NameOf(p)) = {}
    BY HomeOf
  <2> QED
    BY <2>1, <2>2, AddItem
<1>2. CASE Homes(p) = {}
  <2>1. Children(Root, p[1]) = {}
    BY <1>2, NoHome
  <2>2. /\ items' = items \cup
             {[id |-> next, name |-> p[1], parent |-> Root, data |-> Folder],
              [id |-> next + 1, name |-> Last(p), parent |-> next, data |-> v]}
        /\ next' = next + 2
    BY <1>2 DEF Create
  <2> QED
    BY <2>1, <2>2, AddInFolder
<1> QED
  BY <1>1, <1>2

LEMMA MovedIsTidy ==
  ASSUME ItemsOK, NEW p \in Paths, NEW x \in items, NEW h \in Homes(p),
         Moved(x, p, h), next' = next
  PROVE  Tidy
<1> DEFINE z == [x EXCEPT !.name = NameOf(p), !.parent = h]
<1>1. h \in 0..next - 1 /\ Children(h, NameOf(p)) \subseteq At(p)
  BY HomeOf
<1>2. /\ z.id = x.id /\ z.name = NameOf(p) /\ z.parent = h /\ z.data = x.data
      /\ DOMAIN z = {"id", "name", "parent", "data"}
  BY DEF ItemsOK
<1>3. \A y \in items' : (y \in items /\ y # x /\ y \notin At(p)) \/ y = z
  BY DEF Moved
<1> HIDE DEF z
<1>4. ItemsOK'
  BY <1>1, <1>2, <1>3 DEF ItemsOK
<1>5. Pale
  BY <1>2, <1>3 DEF Pale
<1>6. Unique => Unique'
  BY <1>1, <1>2, <1>3 DEF Unique, Children
<1> QED
  BY <1>4, <1>5, <1>6 DEF Tidy

\* an item given another folder and name, both in a store addressed by id
\* and by a move that makes the folder
LEMMA MovedToNew ==
  ASSUME ItemsOK, NEW x \in items, NEW f, NEW n, Children(Root, f) = {},
         items' = (items \ {x}) \cup
           {[id |-> next, name |-> f, parent |-> Root, data |-> Folder],
            [x EXCEPT !.name = n, !.parent = next]},
         next' = next + 1
  PROVE  Tidy
<1> DEFINE z == [x EXCEPT !.name = n, !.parent = next]
<1> DEFINE w == [id |-> next, name |-> f, parent |-> Root, data |-> Folder]
<1>1. /\ z.id = x.id /\ z.name = n /\ z.parent = next /\ z.data = x.data
      /\ DOMAIN z = {"id", "name", "parent", "data"}
  BY DEF ItemsOK
<1>2. /\ w.id = next /\ w.name = f /\ w.parent = Root /\ w.data = Folder
      /\ DOMAIN w = {"id", "name", "parent", "data"}
  OBVIOUS
<1>3. \A y \in items' : (y \in items /\ y # x) \/ y = z \/ y = w
  OBVIOUS
<1> HIDE DEF z, w
<1>4. ItemsOK'
  BY <1>1, <1>2, <1>3 DEF ItemsOK, Root
<1>5. Pale
  BY <1>1, <1>2, <1>3 DEF Pale, Empty, Folder
<1>6. Unique => Unique'
  BY <1>1, <1>2, <1>3 DEF Unique, Children, ItemsOK, Root
<1> QED
  BY <1>4, <1>5, <1>6 DEF Tidy

LEMMA PlacedItems ==
  ASSUME ItemsOK, NEW id, NEW n, NEW h \in 0..next - 1,
         items' = Placed(id, n, h), next' = next
  PROVE  ItemsOK' /\ Pale /\ (Children(h, n) = {} => (Unique => Unique'))
<1> DEFINE g(x) == IF x.id = id THEN [x EXCEPT !.name = n, !.parent = h] ELSE x
<1>1. ASSUME NEW x \in items
      PROVE  /\ g(x).id = x.id /\ g(x).data = x.data
             /\ g(x).name = (IF x.id = id THEN n ELSE x.name)
             /\ g(x).parent = (IF x.id = id THEN h ELSE x.parent)
             /\ DOMAIN g(x) = {"id", "name", "parent", "data"}
  BY <1>1 DEF ItemsOK
<1>2. \A y \in items' : \E x \in items : y = g(x)
  BY DEF Placed
<1> HIDE DEF g
<1>3. ItemsOK'
  BY <1>1, <1>2 DEF ItemsOK
<1>4. Pale
  BY <1>1, <1>2 DEF Pale
<1>5. Children(h, n) = {} => (Unique => Unique')
  <2> SUFFICES ASSUME Children(h, n) = {}, Unique, NEW x \in items, NEW y \in items,
                      g(x).parent = g(y).parent, g(x).name = g(y).name
               PROVE  g(x) = g(y)
    BY <1>2 DEF Unique
  <2>1. ~(x.id = id /\ y.id # id) /\ ~(x.id # id /\ y.id = id)
    BY <1>1 DEF Children
  <2>2. CASE x.id = id /\ y.id = id
    BY <2>2 DEF ItemsOK
  <2>3. CASE x.id # id /\ y.id # id
    BY <1>1, <2>3 DEF Unique
  <2> QED
    BY <2>1, <2>2, <2>3
<1> QED
  BY <1>3, <1>4, <1>5

------------------------------------------------------------------------------
(* What a step may do to the calls *)

Sessions == {"none", "up", "dead"}
Base == session \in Sessions /\ CallsOK /\ ItemsOK /\ EmptyIsOpened

\* The step is one of c's.
Only(c) ==
  /\ \A d \in Client : d # c => call'[d] = call[d]
  /\ call'[c].op = call[c].op /\ call'[c].src = call[c].src /\ call'[c].dst = call[c].dst
  /\ call'[c].pc # "idle"

\* A step of a call under way that leaves what every kind of store needs.
Sound(c) ==
  /\ Active(c) /\ session' \in Sessions
  /\ CallsOK' /\ Only(c) /\ ItemsOK' /\ EmptyIsOpened' /\ (Unique => Unique')

LEMMA Goes ==
  ASSUME CallsOK, NEW c \in Client, Active(c), NEW q, q \notin {"idle", "save"}, Go(c, q)
  PROVE  /\ CallsOK' /\ Only(c) /\ call'[c].pc = q
         /\ \A f \in Fields \ {"pc"} : call'[c][f] = call[c][f]
BY DEF CallsOK, Go, Only, Active, Fields, Fresh

LEMMA Ends ==
  ASSUME CallsOK, NEW c \in Client, Active(c), NEW res \in {"ok", "error"}, End(c, res)
  PROVE  /\ CallsOK' /\ Only(c) /\ call'[c].pc = "done" /\ call'[c].res = res
         /\ call'[c].file = call[c].file
BY DEF CallsOK, End, Only, Active, Fields, Fresh

LEMMA Answers ==
  ASSUME CallsOK, NEW c \in Client, Active(c), NEW n, Answer(c, n)
  PROVE  CallsOK' /\ Only(c) /\ call'[c].pc = "done"
BY DEF CallsOK, Answer, Only, Active, Fields, Fresh

LEMMA Gets ==
  ASSUME CallsOK, NEW c \in Client, Active(c), NEW v \in Data, Got(c, v)
  PROVE  CallsOK' /\ Only(c) /\ call'[c].pc \in {"save", "done"}
BY DEF CallsOK, Got, Only, Active, Fields, Fresh

\* the writers of the empty files are still there
LEMMA StillOpened ==
  ASSUME CallsOK, EmptyIsOpened, NEW c \in Client, Active(c), Only(c), Pale, kind' = kind,
         call[c].pc = "flush" =>
           /\ call'[c].pc = "done" /\ call'[c].file = call[c].file
           /\ call'[c].res = "error" \/ call[c].op = "put"
  PROVE  EmptyIsOpened'
<1> SUFFICES ASSUME NEW y \in items', y.data = Empty
             PROVE  kind \in {"local", "sftp"} /\ \E d \in Client : Opened(d, y.id)'
  BY DEF EmptyIsOpened
<1>1. PICK x \in items : x.id = y.id /\ x.data = Empty
  BY DEF Pale
<1>2. kind \in {"local", "sftp"} /\ \E d \in Client : Opened(d, x.id)
  BY <1>1 DEF EmptyIsOpened
<1>3. PICK d \in Client : Opened(d, x.id)
  BY <1>2
<1>4. CASE d = c
  BY <1>1, <1>2, <1>3, <1>4 DEF Opened, Only, Active
<1>5. CASE d # c
  BY <1>1, <1>2, <1>3, <1>5 DEF Opened, Only
<1> QED
  BY <1>2, <1>4, <1>5

LEMMA TidySound ==
  ASSUME Base, NEW c \in Client, Active(c), CallsOK', Only(c), Tidy, Apart,
         session' \in Sessions,
         call[c].pc = "flush" =>
           /\ call'[c].pc = "done" /\ call'[c].file = call[c].file
           /\ call'[c].res = "error" \/ call[c].op = "put"
  PROVE  Sound(c)
BY StillOpened DEF Sound, Base, Tidy, Apart

LEMMA RefuseSound ==
  ASSUME Base, NEW c \in Client, Active(c), Refuse(c)
  PROVE  Sound(c)
BY StillIsTidy, Ends, TidySound DEF Refuse, Keep, Do, Base

LEMMA AnswerSound ==
  ASSUME Base, NEW c \in Client, Active(c), call[c].pc # "flush", NEW n, Answer(c, n), Keep
  PROVE  Sound(c)
BY StillIsTidy, Answers, TidySound DEF Keep, Do, Base

LEMMA ToldSound ==
  ASSUME Base, NEW c \in Client, Active(c), call[c].pc # "flush", NEW S,
         Told(c, S) \/ Stated(c, S)
  PROVE  Sound(c)
BY AnswerSound, RefuseSound DEF Told, Stated

LEMMA ReadAtSound ==
  ASSUME Base, NEW c \in Client, Active(c), call[c].pc # "flush", NEW p, ReadAt(c, p)
  PROVE  Sound(c)
<1>1. CASE Refuse(c)
  BY <1>1, RefuseSound
<1>2. ASSUME NEW x \in At(p), x.data # Folder, Got(c, x.data), Keep
      PROVE  Sound(c)
  <2>1. x.data \in Data
    BY <1>2, AtItems DEF Base, ItemsOK
  <2> QED
    BY <1>2, <2>1, StillIsTidy, Gets, TidySound DEF Keep, Do, Base
<1> QED
  BY <1>1, <1>2 DEF ReadAt

LEMMA GoSound ==
  ASSUME Base, NEW c \in Client, Active(c), call[c].pc # "flush",
         NEW q, q \notin {"idle", "save"}, Go(c, q), Tidy, Do
  PROVE  Sound(c)
BY Goes, TidySound DEF Do, Base

LEMMA EndSound ==
  ASSUME Base, NEW c \in Client, Active(c), call[c].pc # "flush",
         Settle(c) \/ End(c, "ok") \/ End(c, "error"), Tidy, Do
  PROVE  Sound(c)
BY Ends, TidySound DEF Settle, Do, Base

\* a file is opened and perhaps emptied, and c is to write it
LEMMA OpenSound ==
  ASSUME Base, NEW c \in Client, Active(c), call[c].pc # "flush",
         kind \in {"local", "sftp"}, call[c].op \in {"upload", "put", "append"},
         NEW p \in Paths, ~Barred(p), NEW v \in Data, OpenFor(c, p, v), Do
  PROVE  Sound(c)
<1> USE DEF Base
<1>1. PICK id \in Nat :
        /\ call' = [call EXCEPT ![c].pc = "flush", ![c].file = id]
        /\ ItemsOK' /\ (Unique => Unique')
        /\ \A y \in items' : y.id # id /\ y.data = Empty =>
             \E x \in items : x.id = y.id /\ x.data = Empty
  <2>1. CASE At(p) # {}
    <3>1. PICK x \in At(p) :
            /\ items' = Rewritten(x.id, v) /\ next' = next
            /\ call' = [call EXCEPT ![c].pc = "flush", ![c].file = x.id]
      BY <2>1 DEF OpenFor
    <3>2. x.id \in Nat
      BY AtItems DEF ItemsOK
    <3>3. /\ ItemsOK' /\ (Unique => Unique')
          /\ \A y \in items' : \E z \in items :
               y.id = z.id /\ y.data = IF z.id = x.id THEN v ELSE z.data
      BY <3>1, RewrittenItems
    <3>4. \A y \in items' : y.id # x.id /\ y.data = Empty =>
             \E z \in items : z.id = y.id /\ z.data = Empty
      BY <3>3
    <3> QED
      BY <3>1, <3>2, <3>3, <3>4
  <2>2. CASE At(p) = {}
    <3>1. /\ Create(p, v)
          /\ call' = [call EXCEPT ![c].pc = "flush", ![c].file = next' - 1]
      BY <2>2 DEF OpenFor
    <3>2. ItemsOK' /\ (Unique => Unique')
      BY <2>2, <3>1, CreateKeeps
    <3>3. next' - 1 \in Nat
      <4>1. next' \in Nat \ {0}
        BY <3>2, Zenon DEF ItemsOK
      <4>2. \A n \in Nat \ {0} : n - 1 \in Nat
        OBVIOUS
      <4> QED
        BY <4>1, <4>2, Zenon
    <3>4. \A y \in items' : y.id # next' - 1 /\ y.data = Empty =>
             \E x \in items : x.id = y.id /\ x.data = Empty
      BY <3>1 DEF Create, ItemsOK, Folder, Empty
    <3> QED
      BY <3>1, <3>2, <3>3, <3>4
  <2> QED
    BY <2>1, <2>2
<1>2. CallsOK' /\ Only(c) /\ call'[c].pc = "flush" /\ call'[c].file = id
  BY <1>1 DEF CallsOK, Only, Active, Fields, Fresh
<1>3. EmptyIsOpened'
  <2> SUFFICES ASSUME NEW y \in items', y.data = Empty
               PROVE  kind' \in {"local", "sftp"} /\ \E d \in Client : Opened(d, y.id)'
    BY DEF EmptyIsOpened
  <2>1. kind' \in {"local", "sftp"}
    BY DEF Do, Apart
  <2>2. CASE y.id = id
    BY <1>2, <2>1, <2>2 DEF Opened, Only
  <2>3. CASE y.id # id
    <3>1. PICK x \in items : x.id = y.id /\ x.data = Empty
      BY <1>1, <2>3
    <3>2. PICK d \in Client : Opened(d, x.id)
      BY <3>1 DEF EmptyIsOpened
    <3>3. d # c
      BY <3>2 DEF Opened, Active
    <3> QED
      BY <1>2, <2>1, <3>1, <3>2, <3>3 DEF Opened, Only
  <2> QED
    BY <2>2, <2>3
<1> QED
  BY <1>1, <1>2, <1>3 DEF Sound, Do

\* the data goes to the file that was opened
LEMMA FlushSound ==
  ASSUME Base, NEW c \in Client, Flush(c), Settle(c) \/ End(c, "ok")
  PROVE  Sound(c)
<1> USE DEF Base
<1>1. /\ Active(c) /\ call[c].pc = "flush" /\ kind' = kind /\ session' = session
      /\ items' = Rewritten(call[c].file, c) /\ next' = next
  BY DEF Flush, Active, Do, Apart
<1>2. CallsOK' /\ Only(c)
  BY <1>1, Ends DEF Settle
<1>3. c \in Data /\ c # Empty
  BY StorageAssumption DEF Data
<1>4. /\ ItemsOK' /\ (Unique => Unique')
      /\ \A y \in items' : \E x \in items :
           y.id = x.id /\ y.data = IF x.id = call[c].file THEN c ELSE x.data
  BY <1>1, <1>3, RewrittenItems
<1>5. EmptyIsOpened'
  <2> SUFFICES ASSUME NEW y \in items', y.data = Empty
               PROVE  kind' \in {"local", "sftp"} /\ \E d \in Client : Opened(d, y.id)'
    BY DEF EmptyIsOpened
  <2>1. PICK x \in items : y.id = x.id /\ x.id # call[c].file /\ x.data = Empty
    BY <1>3, <1>4
  <2>2. PICK d \in Client : Opened(d, x.id)
    BY <2>1 DEF EmptyIsOpened
  <2>3. d # c /\ kind \in {"local", "sftp"}
    BY <2>1, <2>2 DEF Opened, EmptyIsOpened
  <2> QED
    BY <1>1, <1>2, <2>1, <2>2, <2>3 DEF Opened, Only
<1> QED
  BY <1>1, <1>2, <1>4, <1>5 DEF Sound

------------------------------------------------------------------------------
(* The stores that are addressed by path *)

LEMMA Asked ==
  ASSUME CallsOK, NEW c \in Client, Active(c)
  PROVE  call[c].src \in Paths /\ call[c].dst \in Paths
BY DEF CallsOK, Active

LEMMA LocalSound ==
  ASSUME Base, NEW c \in Client,
         \/ LocalParents(c) \/ LocalOpen(c) \/ LocalWriteText(c) \/ LocalPut(c)
         \/ LocalAppendText(c) \/ LocalMkdir(c)
         \/ LocalRead(c) \/ LocalList(c) \/ LocalFind(c) \/ LocalStat(c) \/ LocalExists(c)
         \/ LocalDeleteCheck(c) \/ LocalDelete(c) \/ LocalMoveCheck(c) \/ LocalRename(c)
  PROVE  Sound(c) /\ kind = "local" /\ Apart
<1> DEFINE d == call[c].dst
           s == call[c].src
<1> USE DEF Local, Doing
\* the parents of a file, which LocalMoveCheck makes as well
<1>p. ASSUME Active(c), call[c].pc # "flush", d \in Paths, NEW q, q \notin {"idle", "save"},
             Parents(c, q)
      PROVE  Sound(c) /\ Apart
  <2>2. CASE Refuse(c)
    BY <1>p, <2>2, RefuseSound DEF Refuse, Keep, Do
  <2>3. CASE ~Refuse(c)
    <3>1. /\ ~Barred(d) /\ Go(c, q) /\ Do
          /\ IF Homes(d) = {} THEN Create(Front(d), Folder) ELSE Still
      BY <1>p, <2>3 DEF Parents
    <3>2. Folder # Empty /\ Folder \in Data \cup {Folder}
      BY DEF Folder, Empty
    <3>3. Tidy
      <4>1. CASE Homes(d) = {}
        BY <1>p, <3>1, <3>2, <4>1, FrontIsFree, CreateKeeps DEF Tidy, Base
      <4>2. CASE Homes(d) # {}
        BY <3>1, <4>2, StillIsTidy DEF Base
      <4> QED
        BY <4>1, <4>2
    <3> QED
      BY <1>p, <3>1, <3>3, GoSound DEF Do
  <2> QED
    BY <2>2, <2>3
<1>q. CASE LocalParents(c)
  <2>1. Active(c) /\ call[c].pc # "flush" /\ kind = "local" /\ d \in Paths
    BY <1>q, Asked DEF LocalParents, Active, Base
  <2> QED
    BY <1>p, <1>q, <2>1 DEF LocalParents
<1>1. CASE LocalOpen(c)
  <2>1. /\ Active(c) /\ call[c].pc # "flush" /\ kind = "local"
        /\ call[c].op \in {"upload", "put"} /\ d \in Paths
    BY <1>1, Asked DEF LocalOpen, Active, Base
  <2>2. Empty \in Data
    BY DEF Data
  <2>3. CASE Refuse(c)
    BY <2>1, <2>3, RefuseSound DEF Refuse, Keep, Do
  <2>4. CASE ~Barred(d) /\ OpenFor(c, d, Empty) /\ Do
    BY <2>1, <2>2, <2>4, OpenSound DEF Do
  <2> QED
    BY <1>1, <2>3, <2>4 DEF LocalOpen, Closed, Barred
<1>2. CASE LocalWriteText(c)
  BY <1>2, FlushSound DEF LocalWriteText, Flush, Do
<1>w. CASE LocalPut(c)
  <2>1. /\ Active(c) /\ kind = "local" /\ call[c].op = "put"
        /\ End(c, "ok") /\ Keep
    BY <1>w DEF LocalPut, Active
  <2>2. CallsOK' /\ Only(c) /\ call'[c].pc = "done" /\ call'[c].file = call[c].file
    BY <2>1, Ends DEF Base
  <2> QED
    BY <2>1, <2>2, StillIsTidy, TidySound DEF Keep, Do, Base
<1>3. CASE LocalAppendText(c)
  <2>1. CASE Local(c, "append", "flush") /\ Flush(c) /\ End(c, "ok")
    BY <2>1, FlushSound DEF Flush, Do
  <2>2. CASE Local(c, "append", "open")
    <3> DEFINE v == IF At(d) = {} THEN Empty ELSE (CHOOSE x \in At(d) : TRUE).data
    <3>1. /\ Active(c) /\ call[c].pc # "flush"
          /\ kind = "local" /\ call[c].op = "append" /\ d \in Paths
      BY <2>2, Asked DEF Active, Base
    <3>2. CASE Refuse(c)
      BY <3>1, <3>2, RefuseSound DEF Refuse, Keep, Do
    <3>3. CASE ~IsFolder(d) /\ ~Barred(d) /\ OpenFor(c, d, v) /\ Do
      <4>1. v \in Data
        <5>1. CASE At(d) = {}
          BY <5>1 DEF Data
        <5>2. CASE At(d) # {}
          <6>1. (CHOOSE x \in At(d) : TRUE) \in At(d)
            BY <5>2
          <6>2. \A x \in At(d) : x.data \in Data
            BY <3>3, AtItems DEF IsFolder, Seen, Base, ItemsOK
          <6> QED
            BY <5>2, <6>1, <6>2
        <5> QED
          BY <5>1, <5>2
      <4> HIDE DEF v
      <4> QED
        BY <3>1, <3>3, <4>1, OpenSound DEF Do
    <3> QED
      BY <1>3, <2>2, <3>2, <3>3 DEF LocalAppendText, Closed, Barred
  <2> QED
    BY <1>3, <2>1, <2>2 DEF LocalAppendText
<1>4. CASE LocalMkdir(c)
  <2>1. Active(c) /\ call[c].pc # "flush" /\ kind = "local" /\ d \in Paths
    BY <1>4, Asked DEF LocalMkdir, Active, Base
  <2>2. CASE At(d) = {} /\ ~Barred(d) /\ Create(d, Folder) /\ End(c, "ok") /\ Do
    <3>1. Folder # Empty /\ Folder \in Data \cup {Folder}
      BY DEF Folder, Empty
    <3>2. Tidy
      BY <2>1, <2>2, <3>1, CreateKeeps DEF Tidy, Base
    <3> QED
      BY <2>1, <2>2, <3>2, EndSound DEF Do
  <2>3. CASE (End(c, "ok") \/ End(c, "error")) /\ Keep
    BY <2>1, <2>3, EndSound, StillIsTidy DEF Keep, Do, Base
  <2> QED
    BY <1>4, <2>2, <2>3 DEF LocalMkdir
<1>5. CASE LocalRead(c)
  BY <1>5, ReadAtSound, RefuseSound DEF LocalRead, Active, ReadAt, Refuse, Keep, Do
<1>6. CASE LocalList(c) \/ LocalFind(c)
  BY <1>6, AnswerSound, RefuseSound DEF LocalList, LocalFind, Active, Refuse, Keep, Do
<1>7. CASE LocalStat(c) \/ LocalExists(c)
  BY <1>7, ToldSound DEF LocalStat, LocalExists, Active, Told, Stated, Refuse, Keep, Do
<1>8. CASE LocalDeleteCheck(c)
  <2>1. Active(c) /\ call[c].pc # "flush" /\ kind = "local"
    BY <1>8 DEF LocalDeleteCheck, Active
  <2>2. CASE Refuse(c)
    BY <2>1, <2>2, RefuseSound DEF Refuse, Keep, Do
  <2>3. CASE (Go(c, "rmdir") \/ Go(c, "remove")) /\ Keep
    BY <2>1, <2>3, GoSound, StillIsTidy DEF Keep, Do, Base
  <2> QED
    BY <1>8, <2>2, <2>3 DEF LocalDeleteCheck
<1>9. CASE LocalDelete(c)
  <2>1. Active(c) /\ call[c].pc # "flush" /\ kind = "local"
    BY <1>9 DEF LocalDelete, Active
  <2>2. CASE Refuse(c)
    BY <2>1, <2>2, RefuseSound DEF Refuse, Keep, Do
  <2>3. ASSUME NEW x, items' = items \ {x}, next' = next, End(c, "ok"), Do
        PROVE  Sound(c) /\ Apart
    BY <2>1, <2>3, EndSound, ShrinkIsTidy DEF Do, Base
  <2> QED
    BY <1>9, <2>1, <2>2, <2>3 DEF LocalDelete
<1>10. CASE LocalMoveCheck(c)
  <2>1. Active(c) /\ call[c].pc # "flush" /\ kind = "local" /\ d \in Paths
    BY <1>10, Asked DEF LocalMoveCheck, Active, Base
  <2>2. CASE Refuse(c)
    BY <2>1, <2>2, RefuseSound DEF Refuse, Keep, Do
  <2>3. CASE Parents(c, "rename")
    BY <1>p, <2>1, <2>3
  <2> QED
    BY <1>10, <2>2, <2>3 DEF LocalMoveCheck
<1>11. CASE LocalRename(c)
  <2>1. Active(c) /\ call[c].pc # "flush" /\ kind = "local" /\ d \in Paths
    BY <1>11, Asked DEF LocalRename, Active, Base
  <2>2. CASE Refuse(c)
    BY <2>1, <2>2, RefuseSound DEF Refuse, Keep, Do
  <2>3. ASSUME NEW x \in At(s), NEW h \in Homes(d), Moved(x, d, h), next' = next, End(c, "ok"), Do
        PROVE  Sound(c) /\ Apart
    <3>1. x \in items
      BY AtItems
    <3> QED
      BY <2>1, <2>3, <3>1, EndSound, MovedIsTidy DEF Do, Base
  <2> QED
    BY <1>11, <2>1, <2>2, <2>3 DEF LocalRename
<1> QED
  BY <1>q, <1>1, <1>2, <1>w, <1>3, <1>4, <1>5, <1>6, <1>7, <1>8, <1>9, <1>10, <1>11
     DEF LocalParents, LocalOpen, LocalWriteText, LocalPut, LocalAppendText, LocalMkdir, LocalRead,
         LocalList, LocalFind, LocalStat, LocalExists, LocalDeleteCheck, LocalDelete,
         LocalMoveCheck, LocalRename

LEMMA DropboxSound ==
  ASSUME Base, NEW c \in Client,
         \/ DropboxUpload(c) \/ DropboxRead(c) \/ DropboxList(c) \/ DropboxStat(c)
         \/ DropboxExists(c) \/ DropboxDelete(c) \/ DropboxMove(c)
  PROVE  Sound(c) /\ kind = "dropbox" /\ Apart
<1> DEFINE d == call[c].dst
           s == call[c].src
<1> USE DEF Dropbox, Doing
<1>a. Active(c) /\ call[c].pc # "flush" /\ kind = "dropbox"
  BY DEF DropboxUpload, DropboxRead, DropboxList, DropboxStat, DropboxExists, DropboxDelete,
         DropboxMove, Active
<1>p. d \in Paths /\ s \in Paths
  BY <1>a, Asked DEF Base
<1>r. ASSUME Refuse(c) PROVE Sound(c) /\ Apart
  BY <1>a, <1>r, RefuseSound DEF Refuse, Keep, Do
<1>t. ASSUME Tidy, Settle(c), Do PROVE Sound(c) /\ Apart
  BY <1>a, <1>t, EndSound DEF Do
<1>c. c \in Data \cup {Folder} /\ c # Empty
  BY StorageAssumption DEF Data
<1>1. CASE DropboxUpload(c)
  <2>1. CASE ~Barred(d) /\ At(d) = {} /\ Create(d, c) /\ Settle(c) /\ Do
    <3>1. Tidy
      BY <1>c, <1>p, <2>1, CreateKeeps DEF Tidy, Base
    <3> QED
      BY <1>a, <1>t, <2>1, <3>1
  <2>2. ASSUME NEW x \in At(d), items' = Rewritten(x.id, c), next' = next, Settle(c), Do
        PROVE  Sound(c) /\ Apart
    BY <1>t, <2>2, RewriteIsTidy DEF Base
  <2> QED
    BY <1>1, <1>r, <2>1, <2>2 DEF DropboxUpload
<1>2. CASE DropboxRead(c)
  BY <1>2, <1>a, ReadAtSound DEF DropboxRead, ReadAt, Refuse, Keep, Do
<1>3. CASE DropboxList(c)
  BY <1>3, <1>a, <1>r, AnswerSound DEF DropboxList, Keep, Do
<1>4. CASE DropboxStat(c) \/ DropboxExists(c)
  BY <1>4, <1>a, ToldSound DEF DropboxStat, DropboxExists, Told, Stated, Refuse, Keep, Do
<1>5. CASE DropboxDelete(c)
  <2>1. CASE items' = items \ UNION {Below(x) : x \in At(s)} /\ next' = next /\ Settle(c) /\ Do
    BY <1>a, <1>t, <2>1, ShrinkIsTidy DEF Base
  <2> QED
    BY <1>5, <1>r, <2>1 DEF DropboxDelete
<1>6. CASE DropboxMove(c)
  <2>1. ASSUME NEW x \in At(s), NEW h \in Homes(d), Moved(x, d, h), next' = next, Settle(c), Do
        PROVE  Sound(c) /\ Apart
    <3>1. x \in items
      BY AtItems
    <3> QED
      BY <1>p, <1>t, <2>1, <3>1, MovedIsTidy DEF Base
  <2>2. ASSUME NEW x \in At(s), ~Barred(d), Homes(d) = {}, next' = next + 1,
               items' = (items \ {x}) \cup
                 {[id |-> next, name |-> d[1], parent |-> Root, data |-> Folder],
                  [x EXCEPT !.name = Last(d), !.parent = next]},
               Settle(c), Do
        PROVE  Sound(c) /\ Apart
    <3>1. x \in items /\ Children(Root, d[1]) = {}
      BY <1>p, <2>2, AtItems, NoHome
    <3>2. Tidy
      BY <2>2, <3>1, MovedToNew, Zenon DEF Base
    <3> QED
      BY <1>t, <2>2, <3>2
  <2> QED
    BY <1>6, <1>r, <2>1, <2>2, Zenon DEF DropboxMove
<1> QED
  BY <1>a, <1>1, <1>2, <1>3, <1>4, <1>5, <1>6

LEMMA S3Sound ==
  ASSUME Base, NEW c \in Client,
         \/ S3Write(c) \/ S3Read(c) \/ S3List(c) \/ S3Stat(c) \/ S3Exists(c)
         \/ S3Delete(c) \/ S3Copy(c) \/ S3Drop(c)
  PROVE  Sound(c) /\ kind = "s3" /\ Apart
<1> DEFINE d == call[c].dst
           s == call[c].src
<1> USE DEF S3, Doing
<1>a. Active(c) /\ call[c].pc # "flush" /\ kind = "s3"
  BY DEF S3Write, S3Read, S3List, S3Stat, S3Exists, S3Delete, S3Copy, S3Drop, Active
<1>p. d \in Paths /\ s \in Paths
  BY <1>a, Asked DEF Base
<1>r. ASSUME Refuse(c) PROVE Sound(c) /\ Apart
  BY <1>a, <1>r, RefuseSound DEF Refuse, Keep, Do
<1>t. ASSUME Tidy, Settle(c) \/ End(c, "error"), Do PROVE Sound(c) /\ Apart
  BY <1>a, <1>t, EndSound DEF Do
\* no object is empty, whoever's content it is
<1>n. ASSUME NEW v \in Data \cup {Folder}, v # Empty, PutObject(d, v) PROVE Tidy
  <2>1. Homes(d) # {}
    BY <1>a DEF Homes
  <2>2. CASE At(d) = {}
    BY <1>n, <1>p, <2>1, <2>2, CreateKeeps DEF PutObject, Barred, Tidy, Base
  <2>3. CASE At(d) # {}
    BY <1>n, <2>3, RewrittenItems DEF PutObject, Tidy, Pale, Base
  <2> QED
    BY <2>2, <2>3
<1>1. CASE S3Write(c)
  <2>1. c \in Data \cup {Folder} /\ c # Empty
    BY StorageAssumption DEF Data
  <2> QED
    BY <1>1, <1>a, <1>n, <1>t, <2>1 DEF S3Write
<1>2. CASE S3Read(c)
  BY <1>2, <1>a, ReadAtSound DEF S3Read, ReadAt, Refuse, Keep, Do
<1>3. CASE S3List(c)
  BY <1>3, <1>a, AnswerSound DEF S3List, Keep, Do
<1>4. CASE S3Stat(c) \/ S3Exists(c)
  BY <1>4, <1>a, ToldSound DEF S3Stat, S3Exists, Told, Stated, Refuse, Keep, Do
<1>5. CASE S3Delete(c) \/ S3Drop(c)
  <2>1. items' \subseteq items /\ next' = next /\ Settle(c) /\ Do
    BY <1>5 DEF S3Delete, S3Drop
  <2> QED
    BY <1>a, <1>t, <2>1, ShrinkIsTidy DEF Base
<1>6. CASE S3Copy(c)
  <2>1. ASSUME NEW x \in At(s), PutObject(d, x.data), Go(c, "drop") \/ End(c, "error"), Do
        PROVE  Sound(c) /\ Apart
    <3>1. x \in items
      BY AtItems
    <3>2. x.data \in Data \cup {Folder} /\ x.data # Empty
      BY <1>a, <3>1 DEF Base, ItemsOK, EmptyIsOpened
    <3>3. Tidy
      BY <1>n, <2>1, <3>2
    <3>4. CASE Go(c, "drop")
      BY <1>a, <2>1, <3>3, <3>4, GoSound DEF Do
    <3>5. CASE End(c, "error")
      BY <1>t, <2>1, <3>3, <3>5
    <3> QED
      BY <2>1, <3>4, <3>5
  <2> QED
    BY <1>6, <1>a, <1>r, <2>1 DEF S3Copy
<1> QED
  BY <1>a, <1>1, <1>2, <1>3, <1>4, <1>5, <1>6

LEMMA SftpSound ==
  ASSUME Base, NEW c \in Client,
         \/ SftpConnect(c) \/ SftpNoSession(c) \/ SftpOpen(c) \/ SftpWrite(c) \/ SftpRead(c)
         \/ SftpList(c) \/ SftpStat(c) \/ SftpExists(c) \/ SftpDelete(c) \/ SftpRmdir(c)
         \/ SftpMove(c)
  PROVE  Sound(c) /\ kind = "sftp" /\ Apart
<1> DEFINE d == call[c].dst
           s == call[c].src
<1> USE DEF Sftp, Doing
<1>a. Active(c) /\ kind = "sftp"
  BY DEF SftpConnect, SftpNoSession, SftpOpen, SftpWrite, SftpRead, SftpList, SftpStat,
         SftpExists, SftpDelete, SftpRmdir, SftpMove, Active
<1>p. d \in Paths /\ s \in Paths
  BY <1>a, Asked DEF Base
<1>r. ASSUME Refuse(c) PROVE Sound(c) /\ Apart
  BY <1>a, <1>r, RefuseSound DEF Refuse, Keep, Do
<1>t. ASSUME call[c].pc # "flush", Tidy, Settle(c), Do PROVE Sound(c) /\ Apart
  BY <1>a, <1>t, EndSound DEF Do
<1>1. CASE SftpConnect(c)
  <2>1. session' \in Sessions
    BY <1>1 DEF SftpConnect, Base, Sessions
  <2> QED
    BY <1>1, <1>a, <2>1, Goes, StillIsTidy, TidySound DEF SftpConnect, Base
<1>2. CASE SftpNoSession(c)
  BY <1>2, <1>a, <1>r DEF SftpNoSession
<1>3. CASE SftpOpen(c)
  <2>1. CASE Homes(d) # {} /\ OpenFor(c, d, Empty) /\ Do
    <3>1. Empty \in Data /\ ~Barred(d) /\ call[c].op = "upload" /\ call[c].pc # "flush"
      BY <1>3, <2>1 DEF Data, Barred, SftpOpen
    <3> QED
      BY <1>a, <1>p, <2>1, <3>1, OpenSound DEF Do
  <2> QED
    BY <1>3, <1>a, <1>r, <2>1 DEF SftpOpen
<1>4. CASE SftpWrite(c)
  BY <1>4, <1>a, FlushSound DEF SftpWrite, Flush, Do
<1>5. CASE SftpRead(c)
  BY <1>5, <1>a, ReadAtSound DEF SftpRead, ReadAt, Refuse, Keep, Do
<1>6. CASE SftpList(c)
  BY <1>6, <1>a, <1>r, AnswerSound DEF SftpList, Keep, Do
<1>7. CASE SftpStat(c) \/ SftpExists(c)
  BY <1>7, <1>a, ToldSound DEF SftpStat, SftpExists, Told, Stated, Refuse, Keep, Do
<1>8. CASE SftpDelete(c)
  <2>1. call[c].pc # "flush"
    BY <1>8 DEF SftpDelete
  <2>2. CASE items' \subseteq items /\ next' = next /\ Settle(c) /\ Do
    BY <1>a, <1>t, <2>1, <2>2, ShrinkIsTidy DEF Base
  <2>3. CASE Go(c, "rmdir") /\ Keep
    BY <1>a, <2>1, <2>3, GoSound, StillIsTidy DEF Keep, Do, Base
  <2> QED
    BY <1>8, <1>r, <2>2, <2>3 DEF SftpDelete
<1>9. CASE SftpRmdir(c)
  <2>1. call[c].pc # "flush"
    BY <1>9 DEF SftpRmdir
  <2>2. CASE items' \subseteq items /\ next' = next /\ Settle(c) /\ Do
    BY <1>a, <1>t, <2>1, <2>2, ShrinkIsTidy DEF Base
  <2> QED
    BY <1>9, <1>a, <1>r, <2>2 DEF SftpRmdir
<1>10. CASE SftpMove(c)
  <2>1. ASSUME NEW x \in At(s), NEW h \in Homes(d), Moved(x, d, h), next' = next, Settle(c), Do
        PROVE  Sound(c) /\ Apart
    <3>1. x \in items /\ call[c].pc # "flush"
      BY <1>10, AtItems DEF SftpMove
    <3> QED
      BY <1>p, <1>t, <2>1, <3>1, MovedIsTidy DEF Base
  <2> QED
    BY <1>10, <1>a, <1>r, <2>1 DEF SftpMove
<1> QED
  BY <1>1, <1>2, <1>3, <1>4, <1>5, <1>6, <1>7, <1>8, <1>9, <1>10

LEMMA PathSound ==
  ASSUME Base, NEW c \in Client, PathStep(c)
  PROVE  Sound(c) /\ kind # "gdrive" /\ Apart
BY LocalSound, DropboxSound, S3Sound, SftpSound DEF PathStep

------------------------------------------------------------------------------
(* Google Drive *)

\* What a step of Drive leaves, but for the names.
DriveGood(c) ==
  /\ Active(c) /\ session' \in Sessions
  /\ CallsOK' /\ Only(c) /\ ItemsOK' /\ AtKnown' /\ EmptyIsOpened'

LEMMA DriveHasNoEmpty ==
  ASSUME EmptyIsOpened, kind = "gdrive", Pale, kind' = kind
  PROVE  EmptyIsOpened'
BY DEF EmptyIsOpened, Pale

LEMMA DriveEffect ==
  ASSUME Base, AtKnown, NEW c \in Client, kind = "gdrive", Active(c), Do,
         CallsOK', Only(c), ItemsOK', Pale, next <= next', call'[c].at < next'
  PROVE  DriveGood(c)
<1>1. AtKnown'
  BY DEF AtKnown, Only, Base, ItemsOK, CallsOK
<1> QED
  BY <1>1, DriveHasNoEmpty DEF Base, Do, Apart, DriveGood

LEMMA DriveKeeps ==
  ASSUME Base, AtKnown, NEW c \in Client, DriveStep(c)
  PROVE  DriveGood(c) /\ kind = "gdrive" /\ Apart
<1> USE DEF Drive
<1>a. Active(c) /\ kind = "gdrive" /\ Do
  BY DEF DriveStep, DriveGo, DriveWalk, DriveEnsure, DriveMkdir, DrivePost, DrivePatch, DriveRead,
         DriveList, DriveStat, DriveExists, DriveDelete, DriveParents, DriveMove, Active, Keep
<1>c. CallsOK /\ ItemsOK /\ next \in Nat /\ call[c].at \in 0..next - 1
  BY <1>a DEF Base, CallsOK, ItemsOK, AtKnown
<1>g. ASSUME CallsOK', Only(c), ItemsOK', Pale, next <= next', call'[c].at < next'
      PROVE  DriveGood(c)
  BY <1>a, <1>g, DriveEffect
<1>s. ASSUME Still, CallsOK', Only(c), call'[c].at \in 0..next - 1 PROVE DriveGood(c)
  <2>1. next' = next /\ next <= next' /\ call'[c].at < next'
    BY <1>c, <1>s DEF Still, store
  <2> QED
    BY <1>c, <1>s, <1>g, <2>1, StillIsTidy DEF Tidy
<1>e. ASSUME Settle(c) \/ End(c, "error") PROVE CallsOK' /\ Only(c) /\ call'[c].at = call[c].at
  <2>1. CallsOK' /\ Only(c)
    BY <1>a, <1>c, <1>e, Ends DEF Settle
  <2> QED
    BY <1>c, <1>e, <2>1 DEF Settle, End, CallsOK, Fields, Fresh
<1>r. ASSUME End(c, "error"), Still PROVE DriveGood(c)
  BY <1>c, <1>e, <1>r, <1>s
<1>q. ASSUME NEW q \in {"walk", "ensure", "mkdir", "meta", "post", "place"}, Go(c, q), Still
      PROVE  DriveGood(c)
  <2>1. CallsOK' /\ Only(c)
    BY <1>a, <1>c, <1>q, Goes
  <2>2. call'[c].at = call[c].at
    BY <1>c, <1>q DEF Go, CallsOK, Fields, Fresh
  <2> QED
    BY <1>c, <1>q, <1>s, <2>1, <2>2
<1>1. CASE DriveGo(c)
  BY <1>1, <1>a, <1>q DEF DriveGo, Keep, Do
<1>2. CASE DriveWalk(c)
  <2> DEFINE n == Walked(c)[call[c].i + 1]
             there == Children(call[c].at, n)
             done == call[c].i + 1 = Len(Walked(c))
  <2>1. ASSUME NEW x \in there,
               call' = [call EXCEPT ![c].at = IF done /\ call[c].op = "move" THEN Root ELSE x.id,
                                    ![c].i = IF done THEN 0 ELSE @ + 1,
                                    ![c].file = IF done THEN x.id ELSE Root,
                                    ![c].pc = IF done THEN Found(call[c].op) ELSE "walk"]
        PROVE  CallsOK' /\ Only(c) /\ call'[c].at \in 0..next - 1
    <3>1. x.id \in 0..next - 1 /\ x.id \in Nat /\ Root \in 0..next - 1
      BY <1>c DEF ItemsOK, Children, Root
    <3>2. Found(call[c].op) \in {"patch", "ensure", "say", "use", "walk"}
      BY DEF Found
    <3>3. call[c].i + 1 \in Nat
      BY <1>c DEF CallsOK
    <3> HIDE DEF done, there
    <3>4. ASSUME NEW a \in 0..next - 1, NEW i \in Nat, NEW f \in Nat,
                 NEW q \in {"patch", "ensure", "say", "use", "walk"},
                 call' = [call EXCEPT ![c].at = a, ![c].i = i, ![c].file = f, ![c].pc = q]
          PROVE  CallsOK' /\ Only(c) /\ call'[c].at \in 0..next - 1
      BY <1>a, <1>c, <3>4 DEF CallsOK, Only, Active, Fields, Fresh
    <3>5. CASE done /\ call[c].op = "move"
      <4>1. call' = [call EXCEPT ![c].at = Root, ![c].i = 0, ![c].file = x.id,
                                 ![c].pc = Found(call[c].op)]
        BY <2>1, <3>5
      <4> QED
        BY <3>1, <3>2, <3>4, <4>1
    <3>6. CASE done /\ call[c].op # "move"
      <4>1. call' = [call EXCEPT ![c].at = x.id, ![c].i = 0, ![c].file = x.id,
                                 ![c].pc = Found(call[c].op)]
        BY <2>1, <3>6
      <4> QED
        BY <3>1, <3>2, <3>4, <4>1
    <3>7. CASE ~done
      <4>1. call' = [call EXCEPT ![c].at = x.id, ![c].i = call[c].i + 1, ![c].file = Root,
                                 ![c].pc = "walk"]
        BY <2>1, <3>7
      <4> QED
        BY <3>1, <3>3, <3>4, <4>1 DEF Root
    <3> QED
      BY <3>5, <3>6, <3>7
  <2>2. ASSUME call' = [call EXCEPT ![c].at = Root, ![c].i = 0,
                          ![c].pc = CASE call[c].op = "upload" -> "ensure"
                                      [] call[c].op = "exists" -> "say"
                                      [] OTHER -> "done",
                          ![c].res = IF call[c].op \in {"upload", "exists"}
                                     THEN "none" ELSE "error"]
        PROVE  CallsOK' /\ Only(c) /\ call'[c].at \in 0..next - 1
    BY <1>a, <1>c, <2>2 DEF CallsOK, Only, Active, Fields, Fresh, Root
  <2> QED
    BY <1>2, <1>a, <1>s, <2>1, <2>2 DEF DriveWalk, Keep, Do
<1>3. CASE DriveEnsure(c)
  <2>1. ASSUME NEW x \in items, call' = [call EXCEPT ![c].at = x.id, ![c].i = @ + 1]
        PROVE  CallsOK' /\ Only(c) /\ call'[c].at \in 0..next - 1
    <3>1. x.id \in 0..next - 1 /\ call[c].i + 1 \in Nat
      BY <1>c DEF ItemsOK, CallsOK
    <3>2. PICK a \in 0..next - 1, i \in Nat : call' = [call EXCEPT ![c].at = a, ![c].i = i]
      BY <2>1, <3>1
    <3> QED
      BY <1>a, <1>c, <3>2 DEF CallsOK, Only, Active, Fields, Fresh
  <2> QED
    BY <1>3, <1>a, <1>s, <1>q, <2>1 DEF DriveEnsure, Keep, Do, Children
<1>4. CASE DriveMkdir(c)
  <2>f. Folder # Empty /\ Folder \in Data \cup {Folder}
    BY DEF Folder, Empty
  <2>n. next' = next + 1 /\ next <= next'
    BY <1>4, <1>c DEF DriveMkdir
  <2>i. items' = items \cup {[id |-> next, name |-> call[c].dst[call[c].i + 1],
                              parent |-> call[c].at, data |-> Folder]}
    BY <1>4 DEF DriveMkdir
  <2>1. next' = next + 1 /\ next <= next' /\ ItemsOK' /\ Pale
    BY <1>c, <2>f, <2>n, <2>i, AddItem
  <2>2. CASE call' = [call EXCEPT ![c].at = next, ![c].i = @ + 1, ![c].pc = "ensure"]
    <3>1. CallsOK' /\ Only(c) /\ call'[c].at < next'
      BY <1>a, <1>c, <2>1, <2>2 DEF CallsOK, Only, Active, Fields, Fresh
    <3> QED
      BY <1>g, <1>a, <2>1, <3>1 DEF Do
  <2>3. CASE End(c, "error")
    <3>1. CallsOK' /\ Only(c) /\ call'[c].at < next'
      BY <1>c, <1>e, <2>1, <2>3
    <3> QED
      BY <1>g, <1>a, <2>1, <3>1 DEF Do
  <2> QED
    BY <1>4, <2>2, <2>3 DEF DriveMkdir
<1>5. CASE DrivePost(c)
  <2>1. CASE Still /\ End(c, "error")
    BY <1>a, <1>r, <2>1 DEF Do
  <2>2. CASE /\ items' = items \cup {[id |-> next, name |-> Last(call[c].dst),
                                      parent |-> call[c].at, data |-> c]}
             /\ next' = next + 1 /\ Settle(c)
    <3>1. c \in Data \cup {Folder} /\ c # Empty
      BY StorageAssumption DEF Data
    <3>n. next <= next'
      BY <1>c, <2>2
    <3>i. ItemsOK' /\ Pale
      BY <1>c, <2>2, <3>1, AddItem
    <3>2. next <= next' /\ ItemsOK' /\ Pale
      BY <3>n, <3>i
    <3>3. CallsOK' /\ Only(c) /\ call'[c].at < next'
      BY <1>c, <1>e, <2>2
    <3> QED
      BY <1>g, <1>a, <3>2, <3>3 DEF Do
  <2> QED
    BY <1>5, <2>1, <2>2 DEF DrivePost
\* changes that number nothing
<1>t. ASSUME ItemsOK', Pale, next' = next, Settle(c) \/ End(c, "error")
      PROVE  DriveGood(c)
  <2>1. next <= next' /\ CallsOK' /\ Only(c) /\ call'[c].at < next'
    BY <1>c, <1>e, <1>t
  <2> QED
    BY <1>g, <1>t, <2>1
<1>6. CASE DrivePatch(c)
  <2>1. CASE items' = Rewritten(call[c].file, c) /\ next' = next /\ Settle(c)
    BY <1>a, <1>c, <1>t, <2>1, RewriteIsTidy DEF Tidy, Do
  <2>2. CASE UNCHANGED <<items, next>> /\ End(c, "error")
    BY <1>a, <1>r, <2>2 DEF Still, store, Do
  <2> QED
    BY <1>6, <2>1, <2>2 DEF DrivePatch
<1>7. CASE DriveRead(c)
  <2>1. ASSUME NEW x \in items, x.data # Folder, Got(c, x.data), Still
        PROVE  DriveGood(c)
    <3>1. x.data \in Data
      BY <1>c, <2>1 DEF ItemsOK
    <3>2. CallsOK' /\ Only(c)
      BY <1>a, <1>c, <2>1, <3>1, Gets
    <3>3. call'[c].at = call[c].at
      BY <1>c, <2>1 DEF Got, CallsOK, Fields, Fresh
    <3> QED
      BY <1>c, <1>s, <2>1, <3>2, <3>3
  <2> QED
    BY <1>7, <1>a, <1>r, <2>1 DEF DriveRead, Held, Keep, Do
<1>8. CASE DriveList(c) \/ DriveStat(c) \/ DriveExists(c)
  <2>1. ASSUME NEW n, Answer(c, n), Still PROVE DriveGood(c)
    <3>1. CallsOK' /\ Only(c)
      BY <1>a, <1>c, <2>1, Answers
    <3>2. call'[c].at = call[c].at
      BY <1>c, <2>1 DEF Answer, CallsOK, Fields, Fresh
    <3> QED
      BY <1>c, <1>s, <2>1, <3>1, <3>2
  <2> QED
    BY <1>8, <1>a, <1>r, <2>1 DEF DriveList, DriveStat, DriveExists, Keep, Do
<1>9. CASE DriveDelete(c)
  <2>1. CASE items' \subseteq items /\ next' = next /\ (Settle(c) \/ End(c, "error"))
    BY <1>a, <1>c, <1>t, <2>1, ShrinkIsTidy DEF Tidy, Do
  <2> QED
    BY <1>9, <2>1 DEF DriveDelete
<1>10. CASE DriveParents(c)
  BY <1>10, <1>a, <1>q, <1>r DEF DriveParents, Keep, Do
<1>11. CASE DriveMove(c)
  <2>1. CASE /\ items' = Placed(call[c].file, Last(call[c].dst), call[c].at)
             /\ next' = next /\ Settle(c)
    BY <1>a, <1>c, <1>t, <2>1, PlacedItems DEF Do
  <2>2. CASE UNCHANGED <<items, next>> /\ End(c, "error")
    BY <1>a, <1>r, <2>2 DEF Still, store, Do
  <2> QED
    BY <1>11, <2>1, <2>2 DEF DriveMove
<1> QED
  BY <1>a, <1>1, <1>2, <1>3, <1>4, <1>5, <1>6, <1>7, <1>8, <1>9, <1>10, <1>11 DEF DriveStep, Do

------------------------------------------------------------------------------
(* An undisturbed walk *)

LEMMA StillPlaces ==
  ASSUME UNCHANGED <<items, kind, before>>
  PROVE  /\ \A id, n : Children(id, n)' = Children(id, n)
         /\ \A p : At(p)' = At(p)
         /\ \A c : Same(c)' <=> Same(c)
<1>1. \A id, n : Children(id, n)' = Children(id, n)
  BY DEF Children
<1>2. \A p : At(p)' = At(p)
  BY DEF At, Children
<1>3. \A c : Same(c)' <=> Same(c)
  BY DEF Same, Seen, At, Children
<1> QED
  BY <1>1, <1>2, <1>3

LEMMA WalkedPath ==
  ASSUME CallsOK, NEW c \in Client, Active(c)
  PROVE  Walked(c) \in Paths /\ (call[c].op = "upload" => Walked(c) = call[c].dst)
BY Asked DEF Walked

\* a path that was walked to its end without finding it leads nowhere
LEMMA NotFound ==
  ASSUME kind = "gdrive", Unique, NEW c \in Client, Walking(c), Walked(c) \in Paths,
         call[c].i \in Nat, Children(call[c].at, Walked(c)[call[c].i + 1]) = {}
  PROVE  At(Walked(c)) = {}
<1> DEFINE w == Walked(c)
<1>0. Len(w) = 1 \/ Len(w) = 2
  BY PathShape
<1>1. CASE call[c].i = 0
  <2>1. Children(Root, w[1]) = {}
    BY <1>1 DEF Walking
  <2> QED
    BY <1>0, <2>1, AtOne, AtTwo
<1>2. CASE call[c].i # 0
  <2>1. Len(w) = 2 /\ call[c].i = 1
    BY <1>0, <1>2 DEF Walking
  <2>2. PICK x \in Children(Root, w[1]) : call[c].at = x.id
    BY <1>2 DEF Walking
  <2>3. \A y \in Children(Root, w[1]) : y = x
    BY <2>2 DEF Children, Unique
  <2>4. Children(x.id, w[2]) = {}
    BY <2>1, <2>2
  <2> QED
    BY <2>1, <2>3, <2>4, AtTwo
<1> QED
  BY <1>1, <1>2

\* a move whose target was free finds it free
LEMMA TargetIsFree ==
  ASSUME NEW c \in Client, Same(c), ~Disturbed(c), call[c].op = "move", call[c].dst \in Paths
  PROVE  At(call[c].dst) = {}
<1>1. before[c][call[c].dst] = {}
  BY DEF Disturbed
<1>2. Seen(call[c].dst) = {}
  BY <1>1 DEF Same
<1> QED
  BY <1>2 DEF Seen

\* What stands where a folder is to be made: nothing
LEMMA NothingInTheWay ==
  ASSUME kind = "gdrive", NEW c \in Client, CallsOK, Active(c), Ensuring(c), Making(c),
         ~Disturbed(c)
  PROVE  Children(Root, call[c].dst[1]) = {}
<1> DEFINE d == call[c].dst
<1>1. d \in Paths /\ Len(d) = 2
  BY Asked DEF Making
<1>2. Front(d) \in Paths /\ At(Front(d)) = Children(Root, d[1])
  BY <1>1, FrontShape, AtOne
<1>3. before[c][Front(d)] \subseteq {Folder}
  BY <1>1 DEF Disturbed, Ensuring
<1>4. Seen(Front(d)) = before[c][Front(d)]
  BY <1>2 DEF Ensuring, Making, Same
<1>5. \A x \in Children(Root, d[1]) : x.data = Folder
  BY <1>2, <1>3, <1>4 DEF Seen
<1> QED
  BY <1>5 DEF Making

\* where a file may be put when its path leads nowhere
LEMMA EnsuringThere ==
  ASSUME kind' = "gdrive", NEW c \in Client, Same(c)', NEW d \in Paths, At(d)' = {},
         call'[c].op \in {"upload", "move"}, call'[c].dst = d, call'[c].i = 0,
         call'[c].at = Root
  PROVE  Ensuring(c)'
<1>0. Len(d) = 1 \/ Len(d) = 2
  BY PathShape
<1>1. ASSUME Len(d) = 1 PROVE Children(Root, Last(d))' = {}
  <2>1. Children(Root, d[1])' = {}
    BY <1>1 DEF At
  <2> QED
    BY <1>1, <2>1, LastOfOne
<1>2. ASSUME Len(d) = 1 PROVE Children(call[c].at, Last(call[c].dst))' = {}
  BY <1>1, <1>2
<1>3. 0 < Len(d) /\ (0 + 1 = Len(d) => Len(d) = 1)
  BY <1>0
<1> QED
  BY <1>2, <1>3 DEF Ensuring

LEMMA EnsuringIn ==
  ASSUME NEW c \in Client, NEW d, NEW a, NEW i, call'[c].op \in {"upload", "move"},
         call'[c].dst = d, call'[c].at = a, call'[c].i = i, At(d)' = {}, i < Len(d),
         i = 0 => a = Root /\ Same(c)', i + 1 = Len(d) => Children(a, Last(d))' = {}
  PROVE  Ensuring(c)'
<1>1. At(call[c].dst)' = {}
  BY Zenon
<1>2. i + 1 = Len(d) => Children(call[c].at, Last(call[c].dst))' = {}
  BY Zenon
<1> QED
  BY <1>1, <1>2, Zenon DEF Ensuring

\* how far a path of at most two components may have been walked
LEMMA HowFar ==
  ASSUME NEW i \in Nat, NEW n, n = 1 \/ n = 2, i < n
  PROVE  (i = 0 \/ (i = 1 /\ n = 2)) /\ (i + 1 # n => i = 0 /\ n = 2)
OBVIOUS

LEMMA DriveWalks ==
  ASSUME Base, AtKnown, NEW c \in Client, DriveStep(c), Unique, Walk(c), ~Disturbed(c)
  PROVE  Unique' /\ Walk(c)'
<1> USE DEF Drive
<1>a. /\ Active(c) /\ kind = "gdrive" /\ CallsOK /\ CallsOK' /\ Only(c) /\ ItemsOK
      /\ kind' = kind /\ before' = before
  BY DriveKeeps DEF DriveGood, Base, Apart
<1>p. /\ call[c].dst \in Paths /\ Walked(c) \in Paths
      /\ call[c].i \in Nat /\ call[c].at \in 0..next - 1
  BY <1>a, Asked, WalkedPath DEF CallsOK, ItemsOK, AtKnown
<1>f. call'[c].op = call[c].op /\ call'[c].src = call[c].src /\ call'[c].dst = call[c].dst
  BY <1>a DEF Only
<1>d. PICK d \in Paths : d = call[c].dst /\ d = call'[c].dst
  BY <1>p, <1>f
<1>l. Len(d) = 1 \/ Len(d) = 2
  BY PathShape
\* a call that ends walks no more
<1>e. ASSUME call'[c].pc \in {"done", "save", "patch", "use", "say"} PROVE Walk(c)'
  BY <1>e DEF Walk
<1>n. ASSUME Settle(c) \/ End(c, "error") PROVE call'[c].pc = "done"
  BY <1>a, <1>n, Ends DEF Settle
<1>s. ASSUME Still
      PROVE  /\ Unique' /\ (Same(c)' <=> Same(c)) /\ At(d)' = At(d)
             /\ \A id, n : Children(id, n)' = Children(id, n)
  <2>1. UNCHANGED <<items, kind, before>>
    BY <1>a, <1>s DEF Still, store
  <2>2. Unique'
    BY <2>1 DEF Unique
  <2> QED
    BY <2>1, <2>2, StillPlaces, Zenon
<1>1. CASE DriveGo(c)
  <2>1. /\ call'[c].pc = "walk" /\ call'[c].i = call[c].i /\ call'[c].at = call[c].at
        /\ Still
    BY <1>1, <1>a, Goes DEF DriveGo, Keep, Fields, Fresh
  <2>2. Same(c) /\ call[c].i = 0 /\ call[c].at = Root
    BY <1>1 DEF Walk, DriveGo
  <2>w. Walked(c)' = Walked(c)
    BY <1>a DEF Walked, Only
  <2>l. Len(Walked(c)) = 1 \/ Len(Walked(c)) = 2
    BY <1>p, PathShape
  <2>3. Walked(c)' = Walked(c) /\ 0 < Len(Walked(c))
    BY <2>w, <2>l
  <2>4. Walking(c)'
    BY <1>s, <2>1, <2>2, <2>3 DEF Walking
  <2> QED
    BY <1>s, <2>1, <2>4 DEF Walk
<1>2. CASE DriveWalk(c)
  <2>w. PICK w \in Paths : w = Walked(c) /\ w = Walked(c)'
    BY <1>p, <1>f DEF Walked
  <2> DEFINE there == Children(call[c].at, w[call[c].i + 1])
             done == call[c].i + 1 = Len(w)
  <2>0. Walking(c) /\ Still /\ (Len(w) = 1 \/ Len(w) = 2)
    BY <1>2, PathShape DEF Walk, DriveWalk, Keep
  <2>1. ASSUME NEW x \in there, ~done,
               call' = [call EXCEPT ![c].at = x.id, ![c].i = call[c].i + 1,
                                    ![c].file = Root, ![c].pc = "walk"]
        PROVE  Walk(c)'
    <3>1. call[c].i = 0 /\ Len(w) = 2 /\ call[c].at = Root
      <4>1. call[c].i < Len(w) /\ (call[c].i = 0 => call[c].at = Root)
        BY <2>0, <2>w DEF Walking
      <4>2. call[c].i + 1 # Len(w)
        BY <2>1
      <4> HIDE DEF done, there
      <4>3. call[c].i \in Nat /\ (Len(w) = 1 \/ Len(w) = 2)
        BY <1>p, <2>0
      <4>4. call[c].i = 0 /\ Len(w) = 2
        BY <4>1, <4>2, <4>3, HowFar
      <4> QED
        BY <4>1, <4>4
    <3>2. call'[c].pc = "walk" /\ call'[c].i = 1 /\ call'[c].at = x.id
      BY <1>a, <2>1, <3>1 DEF CallsOK, Fields, Fresh
    <3>3. x \in Children(Root, w[1])'
      BY <1>s, <2>w, <2>0, <2>1, <3>1
    <3>4. Walking(c)'
      BY <1>s, <2>w, <2>0, <3>1, <3>2, <3>3 DEF Walking
    <3> QED
      BY <3>2, <3>4 DEF Walk
  <2>2. ASSUME NEW x \in there, done, call[c].op = "move",
               call' = [call EXCEPT ![c].at = Root, ![c].i = 0, ![c].file = x.id,
                                    ![c].pc = Found(call[c].op)]
        PROVE  Walk(c)'
    <3>1. call'[c].pc = "ensure" /\ call'[c].i = 0 /\ call'[c].at = Root
      BY <1>a, <2>2 DEF CallsOK, Fields, Fresh, Found
    <3>2. Same(c) /\ At(d) = {}
      BY <1>d, <1>p, <2>w, <2>0, <2>2, TargetIsFree DEF Walking
    <3>3. Ensuring(c)'
      BY <1>d, <1>a, <1>f, <1>p, <1>s, <2>w, <2>0, <2>2, <3>1, <3>2, EnsuringThere
    <3> QED
      BY <3>1, <3>3 DEF Walk
  <2>3. ASSUME NEW x \in there, done, call[c].op # "move",
               call' = [call EXCEPT ![c].at = x.id, ![c].i = 0, ![c].file = x.id,
                                    ![c].pc = Found(call[c].op)]
        PROVE  Walk(c)'
    <3>1. call'[c].pc \in {"patch", "say", "use"}
      BY <1>a, <2>3 DEF CallsOK, Fields, Fresh, Found
    <3> QED
      BY <1>e, <3>1
  <2>4. ASSUME there = {}, call[c].op = "upload",
               call' = [call EXCEPT ![c].at = Root, ![c].i = 0, ![c].pc = "ensure",
                                    ![c].res = "none"]
        PROVE  Walk(c)'
    <3>1. call'[c].pc = "ensure" /\ call'[c].i = 0 /\ call'[c].at = Root
      BY <1>a, <2>4 DEF CallsOK, Fields, Fresh
    <3>2. Same(c) /\ At(d) = {}
      BY <1>d, <1>a, <1>p, <2>w, <2>0, <2>4, NotFound DEF Walking, Walked
    <3>3. Ensuring(c)'
      BY <1>d, <1>a, <1>f, <1>p, <1>s, <2>w, <2>0, <2>4, <3>1, <3>2, EnsuringThere
    <3> QED
      BY <3>1, <3>3 DEF Walk
  <2>5. ASSUME there = {}, call[c].op # "upload",
               NEW q \in {"say", "done"}, NEW res,
               call' = [call EXCEPT ![c].at = Root, ![c].i = 0, ![c].pc = q, ![c].res = res]
        PROVE  Walk(c)'
    BY <1>a, <1>e, <2>5 DEF CallsOK, Fields, Fresh
  <2>6. ASSUME NEW x \in there,
               call' = [call EXCEPT ![c].at = IF done /\ call[c].op = "move" THEN Root ELSE x.id,
                                    ![c].i = IF done THEN 0 ELSE @ + 1,
                                    ![c].file = IF done THEN x.id ELSE Root,
                                    ![c].pc = IF done THEN Found(call[c].op) ELSE "walk"]
        PROVE  Walk(c)'
    <3>1. CASE ~done
      BY <2>1, <2>6, <3>1
    <3>2. CASE done /\ call[c].op = "move"
      BY <2>2, <2>6, <3>2
    <3>3. CASE done /\ call[c].op # "move"
      BY <2>3, <2>6, <3>3
    <3> QED
      BY <3>1, <3>2, <3>3
  <2>7. ASSUME there = {},
               call' = [call EXCEPT ![c].at = Root, ![c].i = 0,
                          ![c].pc = CASE call[c].op = "upload" -> "ensure"
                                      [] call[c].op = "exists" -> "say"
                                      [] OTHER -> "done",
                          ![c].res = IF call[c].op \in {"upload", "exists"}
                                     THEN "none" ELSE "error"]
        PROVE  Walk(c)'
    <3>1. CASE call[c].op = "upload"
      BY <2>4, <2>7, <3>1
    <3>2. CASE call[c].op = "exists"
      BY <2>5, <2>7, <3>2
    <3>3. CASE call[c].op \notin {"upload", "exists"}
      BY <2>5, <2>7, <3>3
    <3> QED
      BY <3>1, <3>2, <3>3
  <2> QED
    BY <1>2, <1>s, <2>w, <2>0, <2>6, <2>7 DEF DriveWalk
<1>3. CASE DriveEnsure(c)
  <2>0. Ensuring(c) /\ Still /\ call[c].pc = "ensure"
    BY <1>3 DEF Walk, DriveEnsure, Keep
  <2>1. /\ call[c].op \in {"upload", "move"} /\ At(d) = {}
        /\ call[c].i = 0 \/ (call[c].i = 1 /\ Len(d) = 2)
        /\ call[c].i = 0 => call[c].at = Root /\ Same(c)
        /\ call[c].i + 1 # Len(d) => call[c].i = 0 /\ Len(d) = 2
        /\ call[c].i + 1 = Len(d) => Children(call[c].at, Last(d)) = {}
    <3>1. /\ call[c].op \in {"upload", "move"} /\ At(d) = {} /\ call[c].i < Len(d)
          /\ call[c].i = 0 => call[c].at = Root /\ Same(c)
          /\ call[c].i + 1 = Len(d) => Children(call[c].at, Last(d)) = {}
      BY <1>d, <2>0, Zenon DEF Ensuring
    <3>2. /\ call[c].i = 0 \/ (call[c].i = 1 /\ Len(d) = 2)
          /\ call[c].i + 1 # Len(d) => call[c].i = 0 /\ Len(d) = 2
      BY <1>l, <1>p, <3>1, HowFar
    <3> QED
      BY <3>1, <3>2, Zenon
  <2>2. ASSUME call[c].i + 1 = Len(d), NEW q \in {"meta", "post"}, Go(c, q) PROVE Walk(c)'
    <3>1. call'[c].pc = q /\ call'[c].at = call[c].at
      BY <1>a, <2>2, Goes DEF Fields, Fresh
    <3>2. Children(call[c].at, Last(d))' = {}
      BY <1>s, <2>0, <2>1, <2>2, <3>1
    <3>3. Placing(c)'
      BY <1>d, <3>2 DEF Placing
    <3> QED
      BY <3>1, <3>3 DEF Walk
  <2>3. ASSUME call[c].i + 1 # Len(d), NEW x \in Children(call[c].at, d[call[c].i + 1]),
               call' = [call EXCEPT ![c].at = x.id, ![c].i = call[c].i + 1]
        PROVE  Walk(c)'
    <3>1. call[c].i = 0 /\ call[c].at = Root /\ Len(d) = 2
      BY <2>1, <2>3, Zenon
    <3>2. x \in Children(Root, d[1]) /\ Last(d) = d[2]
      BY <2>3, <3>1 DEF Last
    <3>3. Children(x.id, Last(d)) = {}
      BY <1>a, <2>1, <3>1, <3>2, AtTwo
    <3>4. call'[c].pc = "ensure" /\ call'[c].i = 1 /\ call'[c].at = x.id
      BY <1>a, <2>0, <2>3, <3>1, 0 + 1 = 1 DEF CallsOK, Fields, Fresh
    <3>5. At(d)' = {} /\ Children(x.id, Last(d))' = {}
      BY <1>s, <2>0, <2>1, <3>3
    <3>n. 1 < Len(d) /\ 1 # 0
      BY <3>1
    <3>o. call'[c].op \in {"upload", "move"}
      BY <1>f, <2>1
    <3>6. Ensuring(c)'
      BY <1>d, <3>4, <3>5, <3>n, <3>o, EnsuringIn
    <3> QED
      BY <3>4, <3>6 DEF Walk
  <2>4. ASSUME call[c].i + 1 # Len(d), Go(c, "mkdir"),
               \A x \in Children(call[c].at, d[call[c].i + 1]) : x.data # Folder
        PROVE  Walk(c)'
    <3>1. call[c].i = 0 /\ call[c].at = Root /\ Len(d) = 2 /\ Same(c)
      BY <2>1, <2>4, Zenon
    <3>2. call'[c].pc = "mkdir" /\ call'[c].i = 0 /\ call'[c].at = Root
      BY <1>a, <2>4, <3>1, Goes DEF Fields, Fresh
    <3>3. At(d)' = {} /\ Same(c)' /\ Children(Root, d[1])' = Children(Root, d[1])
      BY <1>s, <2>0, <2>1, <3>1
    <3>4. Making(c)'
      BY <1>d, <2>4, <3>1, <3>2, <3>3 DEF Making
    <3>n. PICK a, i : /\ a = Root /\ i = 0 /\ i < Len(d) /\ a = call'[c].at /\ i = call'[c].i
                     /\ i + 1 # Len(d)
      BY <3>1, <3>2
    <3>o. call'[c].op \in {"upload", "move"}
      BY <1>f, <2>1
    <3>m. /\ call'[c].dst = d /\ At(d)' = {} /\ (i = 0 => a = Root /\ Same(c)')
          /\ (i + 1 = Len(d) => Children(a, Last(d))' = {})
      BY <1>d, <3>3, <3>n
    <3>p. At(call[c].dst)' = {}
      BY <3>m, Zenon
    <3>q. (call[c].i < Len(call[c].dst))' /\ (call[c].i + 1 # Len(call[c].dst))'
      BY <3>m, <3>n, Zenon
    <3>r. (call[c].i = 0)' => (call[c].at = Root)' /\ Same(c)'
      BY <3>m, <3>n, Zenon
    <3>5. Ensuring(c)'
      BY <3>o, <3>p, <3>q, <3>r, Zenon DEF Ensuring
    <3> QED
      BY <3>2, <3>4, <3>5 DEF Walk
  <2>5. Walk(c)'
    <3>1. CASE call[c].i + 1 = Len(d)
      BY <1>3, <1>d, <2>2, <3>1 DEF DriveEnsure
    <3>2. CASE call[c].i + 1 # Len(d)
      BY <1>3, <1>d, <2>3, <2>4, <3>2 DEF DriveEnsure
    <3> QED
      BY <3>1, <3>2
  <2> QED
    BY <1>s, <2>0, <2>5
<1>4. CASE DriveMkdir(c)
  <2>0. Ensuring(c) /\ Making(c)
    BY <1>4 DEF Walk, DriveMkdir
  <2>1. /\ call[c].op \in {"upload", "move"} /\ call[c].i = 0 /\ call[c].at = Root /\ Len(d) = 2
    BY <1>d, <2>0 DEF Ensuring, Making
  <2>2. Children(Root, d[1]) = {}
    BY <1>a, <1>d, <2>0, NothingInTheWay
  <2>n. next' = next + 1
    BY <1>4 DEF DriveMkdir
  <2>i. items' = items \cup {[id |-> next, name |-> d[1], parent |-> Root, data |-> Folder]}
    BY <1>4, <1>d, <2>1 DEF DriveMkdir
  <2>r. Root \in 0..next - 1 /\ Folder \in Data \cup {Folder}
    BY <1>a DEF Root, ItemsOK
  <2>3. Unique'
    BY <1>a, <2>2, <2>n, <2>i, <2>r, AddItem
  <2>4. ASSUME call' = [call EXCEPT ![c].at = next, ![c].i = call[c].i + 1, ![c].pc = "ensure"]
        PROVE  Walk(c)'
    <3>1. call'[c].pc = "ensure" /\ call'[c].i = 1 /\ call'[c].at = next
      BY <1>a, <2>1, <2>4 DEF CallsOK, Fields, Fresh
    <3>2. \A y \in items' : y.parent # next
      BY <1>a, <2>i DEF ItemsOK, Root
    <3>3. \A x \in items' : x.parent = Root /\ x.name = d[1] => x.id = next
      BY <2>2, <2>i DEF Children
    <3>4. At(d)' = {}
      BY <1>a, <2>1, <3>2, <3>3 DEF At, Children
    <3>5. PICK a : a = next
      OBVIOUS
    <3>6. Children(a, Last(d))' = {}
      BY <3>2, <3>5 DEF Children
    <3>n. 1 < Len(d) /\ 1 # 0
      BY <2>1
    <3>o. call'[c].op \in {"upload", "move"} /\ call'[c].at = a
      BY <1>f, <2>1, <3>1, <3>5
    <3>7. Ensuring(c)'
      BY <1>d, <3>1, <3>4, <3>6, <3>n, <3>o, EnsuringIn
    <3> QED
      BY <3>1, <3>7 DEF Walk
  <2>5. Walk(c)'
    BY <1>4, <1>e, <1>n, <2>4 DEF DriveMkdir
  <2> QED
    BY <2>3, <2>5
<1>5. CASE DrivePost(c)
  <2>1. CASE Still /\ End(c, "error")
    BY <1>e, <1>n, <1>s, <2>1
  <2>2. CASE /\ items' = items \cup {[id |-> next, name |-> Last(call[c].dst),
                                      parent |-> call[c].at, data |-> c]}
             /\ next' = next + 1 /\ Settle(c)
    <3>1. c \in Data \cup {Folder} /\ Children(call[c].at, Last(call[c].dst)) = {}
      BY <1>5 DEF Data, Walk, Placing, DrivePost
    <3>2. Unique'
      BY <1>a, <1>p, <2>2, <3>1, AddItem
    <3> QED
      BY <1>e, <1>n, <2>2, <3>2
  <2> QED
    BY <1>5, <2>1, <2>2 DEF DrivePost
<1>6. CASE DrivePatch(c)
  <2>1. CASE items' = Rewritten(call[c].file, c) /\ next' = next /\ Settle(c)
    BY <1>a, <1>e, <1>n, <2>1, RewriteIsTidy DEF Tidy
  <2>2. CASE UNCHANGED <<items, next>> /\ End(c, "error")
    BY <1>e, <1>n, <1>s, <2>2 DEF Still, store
  <2> QED
    BY <1>6, <2>1, <2>2 DEF DrivePatch
<1>7. CASE DriveRead(c)
  <2>1. ASSUME NEW x \in items, x.data # Folder, Got(c, x.data)
        PROVE  call'[c].pc \in {"done", "save"}
    BY <1>a, <2>1, Gets DEF ItemsOK
  <2> QED
    BY <1>7, <1>e, <1>n, <1>s, <2>1 DEF DriveRead, Held, Keep
<1>8. CASE DriveList(c) \/ DriveStat(c) \/ DriveExists(c)
  <2>1. ASSUME NEW n, Answer(c, n) PROVE call'[c].pc = "done"
    BY <1>a, <2>1, Answers
  <2> QED
    BY <1>8, <1>e, <1>n, <1>s, <2>1 DEF DriveList, DriveStat, DriveExists, Keep
<1>9. CASE DriveDelete(c)
  <2>1. CASE items' \subseteq items /\ next' = next /\ (Settle(c) \/ End(c, "error"))
    BY <1>a, <1>e, <1>n, <2>1, ShrinkIsTidy DEF Tidy
  <2> QED
    BY <1>9, <2>1 DEF DriveDelete
<1>10. CASE DriveParents(c)
  <2>1. ASSUME Go(c, "place"), Still PROVE Walk(c)'
    <3>1. call'[c].pc = "place" /\ call'[c].at = call[c].at
      BY <1>a, <2>1, Goes DEF Fields, Fresh
    <3>2. Children(call[c].at, Last(d)) = {}
      BY <1>10, <1>d DEF Walk, Placing, DriveParents
    <3>3. Placing(c)'
      BY <1>d, <1>s, <2>1, <3>1, <3>2 DEF Placing
    <3> QED
      BY <3>1, <3>3 DEF Walk
  <2> QED
    BY <1>10, <1>e, <1>n, <1>s, <2>1 DEF DriveParents, Keep
<1>11. CASE DriveMove(c)
  <2>1. CASE /\ items' = Placed(call[c].file, Last(call[c].dst), call[c].at)
             /\ next' = next /\ Settle(c)
    <3>1. Children(call[c].at, Last(call[c].dst)) = {}
      BY <1>11 DEF Walk, Placing, DriveMove
    <3> QED
      BY <1>a, <1>e, <1>n, <1>p, <2>1, <3>1, PlacedItems
  <2>2. CASE UNCHANGED <<items, next>> /\ End(c, "error")
    BY <1>e, <1>n, <1>s, <2>2 DEF Still, store
  <2> QED
    BY <1>11, <2>1, <2>2 DEF DriveMove
<1> QED
  BY <1>1, <1>2, <1>3, <1>4, <1>5, <1>6, <1>7, <1>8, <1>9, <1>10, <1>11 DEF DriveStep

------------------------------------------------------------------------------
(* Every step keeps the invariant *)

\* a step of c's that leaves the calls overlapping as they were
LEMMA Onward ==
  ASSUME IInv, NEW c \in Client, DriveGood(c), UNCHANGED <<kind, quiet, before>>, HistoryOK',
         kind # "gdrive" /\ Unique => Unique',
         kind = "gdrive" /\ Unique /\ Walk(c) /\ ~Disturbed(c) => Unique' /\ Walk(c)'
  PROVE  IInv'
<1>1. \A x \in Client : call'[x].op = call[x].op /\ call'[x].dst = call[x].dst
  BY DEF DriveGood, Only
<1>2. \A x \in Client : Active(x)' => Active(x)
  BY DEF DriveGood, Only, Active
<1>3. QuietIsAlone'
  BY <1>2 DEF IInv, QuietIsAlone
<1>4. Unique => (kind' # "gdrive" => Unique')
  OBVIOUS
<1>5. ASSUME kind' = "gdrive", Calm' PROVE Unique' /\ \A x \in Client : Walk(x)'
  <2>1. \A x \in Client : ~Disturbed(x)
    BY <1>1, <1>5 DEF Calm, Disturbed
  <2>2. kind = "gdrive" /\ Unique /\ \A x \in Client : Walk(x)
    BY <1>5, <2>1 DEF Calm, OnePath, IInv
  <2>3. Unique' /\ Walk(c)'
    BY <2>1, <2>2
  <2>4. Active(c) /\ call[c].op # "none"
    BY DEF DriveGood, IInv, CallsOK, Active
  <2>5. quiet[c]
    BY <2>1, <2>4 DEF Disturbed
  <2>6. ASSUME NEW x \in Client, x # c PROVE Walk(x)'
    <3>1. ~Active(x)
      BY <2>4, <2>5, <2>6 DEF IInv, QuietIsAlone
    <3>2. call'[x].pc \in {"idle", "done"}
      BY <2>6, <3>1 DEF DriveGood, Only, Active
    <3> QED
      BY <3>2 DEF Walk
  <2> QED
    BY <2>3, <2>6
<1>6. OnePath'
  BY <1>4, <1>5 DEF OnePath, IInv
<1> QED
  BY <1>3, <1>6 DEF DriveGood, Sessions, IInv

LEMMA BeginKeeps ==
  ASSUME IInv, NEW c \in Client, NEW op, Begin(c, op)
  PROVE  IInv'
<1>1. PICK r \in Requests :
        /\ r.op = op
        /\ call' = [call EXCEPT ![c] =
             [op |-> op, src |-> r.src, dst |-> r.dst,
              pc |-> IF Routed(r) THEN "go" ELSE "done",
              res |-> IF Routed(r) THEN "none" ELSE "error",
              at |-> Root, i |-> 0, file |-> Root, got |-> Idle, names |-> {},
              known |-> r.known]]
  BY DEF Begin
<1>2. op \in Ops /\ op # "none" /\ r.src \in Paths /\ r.dst \in Paths
  <2>1. op \in Ops
    BY <1>1, StorageAssumption
  <2>2. r.src \in Named /\ r.dst \in Named
    <3>1. {r.src, r.dst} \in {{q.src, q.dst} : q \in Requests}
      OBVIOUS
    <3>2. {r.src, r.dst} \subseteq Named
      BY <3>1, Zenon DEF Named
    <3> QED
      BY <3>2
  <2> QED
    BY <2>1, <2>2 DEF Paths, Ops
<1>3. /\ UNCHANGED <<kind, items, next, session, host>> /\ call[c].pc = "idle"
      /\ quiet' = [x \in Client |-> IF x = c THEN ~\E y \in Client \ {c} : Active(y)
                                    ELSE quiet[x] /\ ~Active(x)]
      /\ before' = [before EXCEPT ![c] = [p \in Paths |-> Seen(p)]]
  BY DEF Begin
<1>4. /\ CallsOK' /\ \A x \in Client : x # c => call'[x] = call[x]
      /\ call'[c].pc \in {"go", "done"} /\ call'[c].i = 0 /\ call'[c].at = Root
  BY <1>1, <1>2 DEF IInv, CallsOK, Fields, Fresh, Root
<1>5. HistoryOK'
  <2>1. quiet' \in [Client -> BOOLEAN]
    BY <1>3 DEF IInv, HistoryOK
  <2>2. before' = [x \in Client |-> before'[x]]
    BY <1>3 DEF IInv, HistoryOK
  <2> QED
    BY <1>3, <2>1, <2>2 DEF IInv, HistoryOK
<1>6. ItemsOK' /\ (Unique' <=> Unique)
  BY <1>3 DEF IInv, ItemsOK, Unique
<1>7. AtKnown'
  BY <1>3, <1>4 DEF IInv, AtKnown, ItemsOK, Root
<1>8. EmptyIsOpened'
  <2> SUFFICES ASSUME NEW y \in items, y.data = Empty
               PROVE  kind \in {"local", "sftp"} /\ \E d \in Client : Opened(d, y.id)'
    BY <1>3 DEF EmptyIsOpened
  <2>1. PICK d \in Client : Opened(d, y.id)
    BY DEF IInv, EmptyIsOpened
  <2>2. d # c
    BY <1>3, <2>1 DEF Opened
  <2>3. Opened(d, y.id)'
    BY <1>4, <2>1, <2>2 DEF Opened
  <2> QED
    BY <2>3 DEF IInv, EmptyIsOpened
<1>9. \A x \in Client : x # c => (Active(x)' <=> Active(x))
  BY <1>4 DEF Active
<1>10. QuietIsAlone'
  BY <1>3, <1>9 DEF QuietIsAlone
<1>11. ASSUME kind = "gdrive", Calm' PROVE Unique' /\ \A x \in Client : Walk(x)'
  <2>1. ASSUME NEW x \in Client, x # c PROVE ~Disturbed(x) /\ (call[x].op # "none" => ~Active(x))
    <3>1. call'[x] = call[x] /\ before'[x] = before[x] /\ quiet'[x] = (quiet[x] /\ ~Active(x))
      BY <1>3, <1>4, <2>1 DEF IInv, HistoryOK
    <3>2. ~Disturbed(x)'
      BY <1>11 DEF Calm
    <3> QED
      BY <3>1, <3>2 DEF Disturbed
  <2>2. call[c].op = "none"
    BY <1>3 DEF IInv, CallsOK
  <2>3. Calm
    BY <2>1, <2>2 DEF Calm, Disturbed
  <2>4. Unique'
    BY <1>6, <1>11, <2>3 DEF IInv, OnePath
  <2>5. ASSUME NEW x \in Client, x # c PROVE Walk(x)'
    <3>1. call'[x].pc \in {"idle", "done"}
      BY <1>4, <2>1, <2>5 DEF IInv, CallsOK, Active
    <3> QED
      BY <3>1 DEF Walk
  <2>6. Walk(c)'
    <3>1. \A p \in Paths : before'[c][p] = Seen(p)
      BY <1>3 DEF IInv, HistoryOK
    <3>2. \A p \in Paths : Seen(p)' = Seen(p)
      BY <1>3 DEF Seen, At, Children
    <3>3. Same(c)'
      BY <3>1, <3>2 DEF Same
    <3> QED
      BY <1>4, <3>3 DEF Walk
  <2> QED
    BY <2>4, <2>5, <2>6
<1>12. OnePath'
  BY <1>3, <1>6, <1>11 DEF IInv, OnePath
<1> QED
  BY <1>3, <1>4, <1>5, <1>6, <1>7, <1>8, <1>10, <1>12 DEF IInv

LEMMA ToolKeeps ==
  ASSUME IInv, NEW c \in Client, ToolStep(c)
  PROVE  IInv'
<1>1. ASSUME NEW op, Begin(c, op) PROVE IInv'
  BY <1>1, BeginKeeps
<1>b. Base
  BY DEF IInv, Base, Sessions
\* a call that is refused
<1>2. ASSUME Active(c), Refuse(c) PROVE IInv'
  <2>1. Sound(c) /\ UNCHANGED <<kind, quiet, before, items, next>>
    BY <1>2, <1>b, RefuseSound DEF Refuse, Keep, Do, Apart, Still, store
  <2>2. HistoryOK'
    BY <1>2 DEF Refuse, Keep, Do, Apart, IInv, HistoryOK
  <2>3. call'[c].pc = "done" /\ call'[c].at = call[c].at
    BY <1>2 DEF Refuse, End, IInv, CallsOK, Fields, Fresh
  <2>4. AtKnown'
    BY <2>1, <2>3 DEF Sound, Only, IInv, AtKnown
  <2>5. Walk(c)' /\ (Unique => Unique')
    BY <2>1, <2>3 DEF Walk, Sound
  <2> QED
    BY <2>1, <2>2, <2>4, <2>5, Onward DEF Sound, DriveGood
<1>3. CASE BackupRun(c)
  BY <1>2, <1>3 DEF BackupRun, Active, Refuse, Keep, Do
<1>4. CASE Fail(c)
  BY <1>2, <1>4 DEF Fail, Refuse, Keep, Do
<1>5. CASE SaveDownload(c)
  <2>1. /\ Active(c) /\ call[c].pc # "flush" /\ End(c, "ok") /\ Still
        /\ UNCHANGED <<kind, session, quiet, before>>
        /\ call[c].got \in Data /\ host' = [host EXCEPT ![c] = call[c].got]
    BY <1>5 DEF SaveDownload, Active, IInv, CallsOK
  <2>2. CallsOK' /\ Only(c) /\ call'[c].pc = "done"
    BY <2>1, Ends DEF IInv
  <2>3. Tidy
    BY <2>1, StillIsTidy DEF IInv
  <2>4. EmptyIsOpened'
    BY <1>b, <2>1, <2>2, <2>3, StillOpened DEF Tidy, Base
  <2>5. Sound(c)
    BY <1>b, <2>1, <2>2, <2>3, <2>4 DEF Sound, Base, Tidy
  <2>6. HistoryOK'
    <3>1. host' \in [Client -> Data \cup {Idle}]
      BY <2>1 DEF IInv, HistoryOK
    <3> QED
      BY <2>1, <3>1 DEF IInv, HistoryOK
  <2>7. AtKnown'
    <3>1. call'[c].at = call[c].at
      BY <2>1 DEF End, IInv, CallsOK, Fields, Fresh
    <3> QED
      BY <2>1, <2>2, <3>1 DEF Only, IInv, AtKnown, Still, store
  <2>8. Walk(c)'
    BY <2>2 DEF Walk
  <2> QED
    BY <2>1, <2>3, <2>5, <2>6, <2>7, <2>8, Onward DEF Tidy, Sound, DriveGood
<1> QED
  BY <1>1, <1>3, <1>4, <1>5
     DEF ToolStep, CloudList, CloudRead, CloudUpload, CloudDownload, CloudDelete, CloudMove,
         ReadFile, ListDirectory, WriteFile, AppendFile, CreateDirectory, DeleteFile, MoveFile,
         FindFiles, Exists, Stat, Backup

LEMMA IdleKeeps ==
  ASSUME IInv, session' \in Sessions, UNCHANGED <<kind, items, next, call, host, quiet, before>>
  PROVE  IInv'
<1>1. CallsOK' /\ HistoryOK' /\ ItemsOK' /\ AtKnown' /\ EmptyIsOpened' /\ QuietIsAlone'
  BY DEF IInv, CallsOK, HistoryOK, ItemsOK, AtKnown, EmptyIsOpened, Opened, QuietIsAlone, Active
<1>2. \A c : /\ Disturbed(c)' <=> Disturbed(c)
             /\ Same(c)' <=> Same(c)
  BY DEF Disturbed, Same, Seen, At, Children
<1>3. \A c : Walk(c)' <=> Walk(c)
  <2>1. \A id, n : Children(id, n)' = Children(id, n)
    BY DEF Children
  <2>2. \A p : At(p)' = At(p)
    BY DEF At, Children
  <2>3. \A c : Walking(c)' <=> Walking(c)
    BY <1>2 DEF Walking, Walked, Children
  <2>4. \A c : Ensuring(c)' <=> Ensuring(c)
    BY <1>2 DEF Ensuring, At, Children
  <2>5. \A c : (Making(c)' <=> Making(c)) /\ (Placing(c)' <=> Placing(c))
    BY DEF Making, Placing, Children
  <2> QED
    BY <1>2, <2>3, <2>4, <2>5 DEF Walk
<1>4. OnePath'
  BY <1>2, <1>3 DEF IInv, OnePath, Unique, Calm
<1> QED
  BY <1>1, <1>4 DEF IInv, Sessions

LEMMA StepKeeps == ASSUME IInv, [Next]_vars PROVE IInv'
<1>b. Base
  BY DEF IInv, Base, Sessions
<1>h. ASSUME Apart PROVE UNCHANGED <<kind, quiet, before>> /\ HistoryOK'
  BY <1>h DEF Apart, IInv, HistoryOK
<1>1. ASSUME NEW c \in Client, ToolStep(c) PROVE IInv'
  BY <1>1, ToolKeeps
<1>2. ASSUME NEW c \in Client, PathStep(c) PROVE IInv'
  <2>1. Sound(c) /\ kind # "gdrive" /\ Apart
    BY <1>2, <1>b, PathSound
  <2>2. AtKnown'
    BY <2>1 DEF AtKnown, Apart
  <2> QED
    BY <1>h, <2>1, <2>2, Onward DEF Sound, DriveGood
<1>3. ASSUME NEW c \in Client, DriveStep(c) PROVE IInv'
  <2>1. DriveGood(c) /\ kind = "gdrive" /\ Apart
    BY <1>3, <1>b, DriveKeeps DEF IInv
  <2>2. Unique /\ Walk(c) /\ ~Disturbed(c) => Unique' /\ Walk(c)'
    BY <1>3, <1>b, DriveWalks DEF IInv
  <2> QED
    BY <1>h, <2>1, <2>2, Onward
<1>4. CASE SftpDropped \/ SftpClose
  <2>1. /\ session' \in Sessions
        /\ UNCHANGED <<kind, items, next, call, host, quiet, before>>
    BY <1>4 DEF SftpDropped, SftpClose, Still, store, Apart, Sessions
  <2> QED
    BY <2>1, IdleKeeps
<1>5. CASE UNCHANGED vars
  BY <1>5, IdleKeeps DEF vars, IInv, Sessions
<1> QED
  BY <1>1, <1>2, <1>3, <1>4, <1>5 DEF Next, Step

------------------------------------------------------------------------------
(* The initial stores *)

\* the items of a layout can be numbered
LEMMA Numbering ==
  ASSUME NEW S, IsFiniteSet(S)
  PROVE  /\ Cardinality(S) \in Nat
         /\ \E f \in [S -> 1..Cardinality(S)] : \A p, q \in S : f[p] = f[q] => p = q
<1>1. Cardinality(S) \in Nat /\ ExistsBijection(1..Cardinality(S), S)
  BY FS_CardinalityType
<1>2. ExistsBijection(S, 1..Cardinality(S))
  BY <1>1, Fun_ExistsBijSymmetric
<1>3. PICK f : f \in Bijection(S, 1..Cardinality(S))
  BY <1>2 DEF ExistsBijection
<1> QED
  BY <1>1, <1>3 DEF Bijection, Injection, IsInjective

LEMMA LaidNamed ==
  ASSUME NEW l \in Layouts, NEW p \in DOMAIN l
  PROVE  p \in Named
<1>1. DOMAIN l \in {DOMAIN k : k \in Layouts}
  OBVIOUS
<1>2. p \in UNION {DOMAIN k : k \in Layouts}
  BY <1>1, Zenon
<1> QED
  BY <1>2, Zenon DEF Named

\* two paths that put the same name into the same folder are one
LEMMA SamePath ==
  ASSUME NEW l \in Layouts, NEW p \in DOMAIN l, NEW q \in DOMAIN l, Len(p) = Len(q),
         Last(p) = Last(q), Len(p) > 1 => Front(p) = Front(q)
  PROVE  p = q
<1>1. p \in Named /\ q \in Named
  BY LaidNamed
<1>2. /\ Len(p) = 1 \/ Len(p) = 2
      /\ p = [i \in 1..Len(p) |-> p[i]] /\ q = [i \in 1..Len(q) |-> q[i]]
  BY <1>1, NamedShape
<1>3. CASE Len(p) = 1
  <2>1. p[1] = q[1]
    BY <1>3 DEF Last
  <2>2. \A i \in 1..Len(p) : p[i] = q[i]
    BY <1>3, <2>1
  <2> QED
    BY <1>2, <2>2
<1>4. CASE Len(p) = 2
  <2>0. Len(p) > 1 /\ Len(q) > 1
    BY <1>4
  <2>1. p[1] = q[1]
    BY <1>1, <2>0, FrontOfTwo
  <2>2. p[2] = q[2]
    BY <1>4 DEF Last
  <2>3. \A i \in 1..Len(p) : p[i] = q[i]
    BY <1>4, <2>1, <2>2
  <2> QED
    BY <1>2, <2>3
<1> QED
  BY <1>2, <1>3, <1>4

LEMMA LaidOut ==
  ASSUME NEW l \in Layouts, items = Laid(kind, l), next = Cardinality(DOMAIN l) + 1
  PROVE  ItemsOK /\ Unique /\ \A x \in items : x.data # Empty
<1> DEFINE P == DOMAIN l
           card == Cardinality(DOMAIN l)
           num == CHOOSE f \in [DOMAIN l -> 1..Cardinality(DOMAIN l)] :
                    \A p, q \in DOMAIN l : f[p] = f[q] => p = q
           item(p) == [id |-> num[p],
                       name |-> IF kind = "s3" THEN p ELSE Last(p),
                       parent |-> IF Len(p) = 1 \/ kind = "s3" THEN Root ELSE num[Front(p)],
                       data |-> l[p]]
<1>1. card \in Nat /\ \E f \in [P -> 1..card] : \A p, q \in P : f[p] = f[q] => p = q
  BY StorageAssumption, Numbering
<1>2. num \in [P -> 1..card] /\ \A p, q \in P : num[p] = num[q] => p = q
  BY <1>1
<1>3. \A x \in items : \E p \in P : x = item(p)
  BY DEF Laid
<1>4. \A p \in P : /\ p \in Named /\ (Len(p) = 1 \/ Len(p) = 2)
                   /\ l[p] \in {Old, Folder}
                   /\ Len(p) = 2 => Front(p) \in P
  <2> SUFFICES ASSUME NEW p \in P
               PROVE  /\ p \in Named /\ (Len(p) = 1 \/ Len(p) = 2)
                      /\ l[p] \in {Old, Folder}
                      /\ Len(p) = 2 => Front(p) \in P
    OBVIOUS
  <2>1. p \in Named
    BY LaidNamed
  <2>2. Len(p) = 1 \/ Len(p) = 2
    BY <2>1, NamedShape, Zenon
  <2>3. l[p] \in {Old, Folder} /\ (Len(p) > 1 => Front(p) \in P)
    BY StorageAssumption
  <2>4. Len(p) = 2 => Len(p) > 1
    OBVIOUS
  <2> QED
    BY <2>1, <2>2, <2>3, <2>4, Zenon
<1> HIDE DEF num, P, card
<1>5. ASSUME NEW p \in P
      PROVE  /\ item(p).id = num[p] /\ num[p] \in 1..card
             /\ item(p).name = (IF kind = "s3" THEN p ELSE Last(p))
             /\ item(p).parent = (IF Len(p) = 1 \/ kind = "s3" THEN Root ELSE num[Front(p)])
             /\ item(p).parent \in 0..card
             /\ item(p).data = l[p]
             /\ DOMAIN item(p) = {"id", "name", "parent", "data"}
  BY <1>1, <1>2, <1>4 DEF Root
<1> HIDE DEF item
<1>6. next - 1 = card /\ next \in Nat \ {0}
  BY <1>1 DEF card
<1>7. ItemsOK
  <2>1. \A p \in P : item(p).data \in Data \cup {Folder}
    BY <1>4, <1>5 DEF Data
  <2>2. \A p, q \in P : item(p).id = item(q).id => item(p) = item(q)
    BY <1>2, <1>5
  <2> QED
    BY <1>3, <1>5, <1>6, <2>1, <2>2 DEF ItemsOK
<1>8. Unique
  <2> SUFFICES ASSUME NEW p \in P, NEW q \in P, item(p).parent = item(q).parent,
                      item(p).name = item(q).name
               PROVE  p = q
    BY <1>3 DEF Unique
  <2>1. CASE kind = "s3"
    BY <1>5, <2>1
  <2>2. CASE kind # "s3"
    <3>1. Last(p) = Last(q)
      BY <1>5, <2>2
    <3>2. CASE Len(p) = 1 /\ Len(q) = 1
      <4>1. Len(p) = Len(q) /\ ~(Len(p) > 1)
        BY <3>2
      <4> QED
        BY <3>1, <4>1, SamePath DEF P
    <3>3. CASE Len(p) = 2 /\ Len(q) = 2
      <4>1. num[Front(p)] = num[Front(q)]
        BY <1>5, <2>2, <3>3
      <4>2. Front(p) = Front(q)
        BY <1>2, <1>4, <3>3, <4>1
      <4> QED
        BY <3>1, <3>3, <4>2, SamePath DEF P
    <3>4. ASSUME NEW a \in P, Len(a) = 2 PROVE item(a).parent # Root
      <4>0. item(a).parent = num[Front(a)]
        BY <1>5, <2>2, <3>4
      <4>1. Front(a) \in P /\ item(a).parent = num[Front(a)]
        BY <1>4, <3>4, <4>0, Zenon
      <4>2. num[Front(a)] \in 1..card
        BY <1>2, <4>1
      <4> QED
        BY <1>1, <4>1, <4>2 DEF Root
    <3>5. ASSUME NEW a \in P, Len(a) = 1 PROVE item(a).parent = Root
      BY <1>5, <3>5
    <3> QED
      BY <1>4, <3>2, <3>3, <3>4, <3>5
  <2> QED
    BY <2>1, <2>2
<1>9. \A x \in items : x.data # Empty
  <2>1. Old # Empty /\ Folder # Empty
    BY StorageAssumption DEF Folder, Empty
  <2> QED
    BY <1>3, <1>4, <1>5, <2>1
<1> QED
  BY <1>7, <1>8, <1>9

LEMMA InitKeeps == ASSUME Init PROVE IInv
<1>1. PICK l \in Layouts : items = Laid(kind, l) /\ next = Cardinality(DOMAIN l) + 1
  BY DEF Init
<1>2. ItemsOK /\ Unique /\ \A x \in items : x.data # Empty
  BY <1>1, LaidOut
<1>3. \A c \in Client : call[c] = Fresh
  BY DEF Init
<1>4. CallsOK
  <2>1. call = [c \in Client |-> call[c]]
    BY DEF Init
  <2> QED
    BY <1>3, <2>1 DEF CallsOK, Fields, Fresh, Root
<1>5. HistoryOK
  BY DEF Init, HistoryOK
<1>6. AtKnown /\ QuietIsAlone
  BY <1>2, <1>3 DEF AtKnown, QuietIsAlone, Active, Fresh, ItemsOK, Root
<1>7. EmptyIsOpened
  BY <1>2 DEF EmptyIsOpened
<1>8. \A c \in Client : call[c].pc = "idle"
  BY <1>3 DEF Fresh
<1>9. OnePath
  BY <1>2, <1>8 DEF OnePath, Walk
<1> QED
  BY <1>2, <1>4, <1>5, <1>6, <1>7, <1>9 DEF Init, IInv

LEMMA AlwaysIInv == Spec => []IInv
BY InitKeeps, StepKeeps, PTL DEF Spec

\* No cloud ever shows half a file; on a disk or over SFTP an empty one is there
\* only while its own writer is at it, or after that writer failed and said so, or
\* as the work of a cloud_upload to local://, which does not await its write.
THEOREM FilesAreWhole == Spec => []WholeFiles
<1>1. IInv => WholeFiles
  BY DEF IInv, EmptyIsOpened, Opened, WholeFiles, Writes, Reported
<1> QED
  BY <1>1, AlwaysIInv, PTL

\* A path names one file: always in the stores addressed by path, and in Drive as
\* long as no two calls overlapped, no move went onto a path that was taken and no
\* file had the name of a folder to be made (gdrive.py looks up before it uploads).
THEOREM OneFileEach == Spec => []OneFilePerPath
<1>1. IInv => OneFilePerPath
  BY DEF IInv, OnePath, Calm, OneFilePerPath
<1> QED
  BY <1>1, AlwaysIInv, PTL
===============================================================================
