--------------------------------- MODULE Dedupe ---------------------------------
(***************************************************************************)
(* The episodic collection (memory/episodic.py) and deduplicate(), which   *)
(* scrolls one page of points, searches the neighbours of each point not   *)
(* yet seen, and deletes what it collected at the end.  It never awaits,   *)
(* so no other operation of the process runs between its steps.            *)
(*                                                                         *)
(* Vectors are abstracted to the relation alike, "score at least           *)
(* similarity_threshold": reflexive and symmetric, not transitive.  The    *)
(* order of the scroll is that of the md5 point ids, so any order; which   *)
(* of more than Top neighbours a search returns is up to Qdrant.           *)
(***************************************************************************)
EXTENDS Naturals, FiniteSets

CONSTANTS
  Points,     \* points that may be stored; bounds the model
  Page,       \* limit of the scroll, 1000
  Top         \* limit of the search, 10

VARIABLES
  alike,      \* pairs of points within the threshold
  stored,     \* the collection
  deduping,   \* deduplicate() is running
  todo,       \* points of the page not yet visited
  seen,       \* seen_ids
  doomed      \* to_delete

scan == <<deduping, todo, seen, doomed>>
vars == <<alike, stored, scan>>

TypeOK ==
  /\ alike \subseteq Points \X Points
  /\ stored \subseteq Points
  /\ deduping \in BOOLEAN
  /\ todo \subseteq stored
  /\ seen \subseteq stored
  /\ doomed \subseteq stored

Init ==
  /\ alike \in SUBSET (Points \X Points)
  /\ \A p \in Points : <<p, p>> \in alike
  /\ \A p, q \in Points : <<p, q>> \in alike => <<q, p>> \in alike
  /\ stored = {}
  /\ deduping = FALSE
  /\ todo = {}
  /\ seen = {}
  /\ doomed = {}

Neighbours(p) == {q \in stored : <<p, q>> \in alike}

\* The results of a query with limit n over the points of S.
Limited(S, n) ==
  {R \in SUBSET S : IF Cardinality(S) <= n THEN R = S ELSE Cardinality(R) = n}

\* store_summary: upsert of a point.
Store(p) ==
  /\ ~deduping
  /\ stored' = stored \cup {p}
  /\ UNCHANGED <<alike, scan>>

\* delete_summary
Delete(p) ==
  /\ ~deduping
  /\ p \in stored
  /\ stored' = stored \ {p}
  /\ UNCHANGED <<alike, scan>>

Scroll ==
  /\ ~deduping
  /\ deduping' = TRUE
  /\ todo' \in Limited(stored, Page)
  /\ seen' = {}
  /\ doomed' = {}
  /\ UNCHANGED <<alike, stored>>

\* Faulty Visit: a point already marked for deletion is searched as well.
VisitDoomed(p) ==
  /\ deduping
  /\ p \in todo
  /\ todo' = todo \ {p}
  /\ \E R \in Limited(Neighbours(p), Top) :
       /\ seen' = seen \cup R \cup {p}
       /\ doomed' = doomed \cup (R \ {p})
  /\ UNCHANGED <<alike, stored, deduping>>

\* Faulty Visit: looks at one neighbour only, which may be p itself.
VisitOneNeighbour(p) ==
  /\ deduping
  /\ p \in todo
  /\ todo' = todo \ {p}
  /\ IF p \in seen THEN UNCHANGED <<seen, doomed>>
     ELSE \E R \in Limited(Neighbours(p), 1) :
       /\ seen' = seen \cup R \cup {p}
       /\ doomed' = doomed \cup (R \ (seen \cup {p}))
  /\ UNCHANGED <<alike, stored, deduping>>

Visit(p) ==
  /\ deduping
  /\ p \in todo
  /\ todo' = todo \ {p}
  /\ IF p \in seen THEN UNCHANGED <<seen, doomed>>
     ELSE \E R \in Limited(Neighbours(p), Top) :
       /\ seen' = seen \cup R \cup {p}
       /\ doomed' = doomed \cup (R \ (seen \cup {p}))
  /\ UNCHANGED <<alike, stored, deduping>>

\* Faulty Purge: what was collected stays for the next run.
PurgeKeepsSeen ==
  /\ deduping
  /\ todo = {}
  /\ deduping' = FALSE
  /\ stored' = stored \ doomed
  /\ UNCHANGED <<alike, todo, seen, doomed>>

Purge ==
  /\ deduping
  /\ todo = {}
  /\ deduping' = FALSE
  /\ stored' = stored \ doomed
  /\ seen' = {}
  /\ doomed' = {}
  /\ UNCHANGED <<alike, todo>>

\* The process ends, or Qdrant raises, before anything was deleted.
GiveUp ==
  /\ deduping
  /\ deduping' = FALSE
  /\ todo' = {}
  /\ seen' = {}
  /\ doomed' = {}
  /\ UNCHANGED <<alike, stored>>

Next ==
  \/ \E p \in Points : Store(p) \/ Delete(p) \/ Visit(p)
  \/ Scroll
  \/ Purge
  \/ GiveUp

Spec == Init /\ [][Next]_vars

-------------------------------------------------------------------------------
(* Properties *)

\* No summary is deleted without a near-duplicate of it being kept, although
\* likeness is not transitive: a point that is going does not take others
\* with it (episodic.py, deduplicate).
KeepsATwin ==
  \A d \in doomed : \E k \in seen \ doomed : <<k, d>> \in alike

\* A collection that fits in the page and the search limit has no two
\* near-duplicates left when deduplicate has deleted what it found.
LeavesNoTwins ==
  [][deduping /\ ~deduping' /\ todo = {} /\ Cardinality(stored) <= Page
       /\ Cardinality(stored) <= Top /\ stored' = stored \ doomed =>
         \A p, q \in stored' : p # q => <<p, q>> \notin alike]_vars
===============================================================================
