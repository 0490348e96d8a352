------------------------- MODULE Consolidation_proofs -------------------------
(***************************************************************************)
(* Theorems about Consolidation and the deduplication of the episodic      *)
(* memory it calls, for any facts, summaries and limits.                   *)
(*                                                                         *)
(* ScanInv says that outside a scan nothing is collected, that what is     *)
(* doomed was seen, and that a scan whose page and searches hold the whole *)
(* collection has still to visit what it has not seen, and has doomed      *)
(* every neighbour of what it has seen and keeps.  Of the decisions        *)
(* nothing is assumed: they may name any ids.                              *)
(***************************************************************************)
EXTENDS Consolidation, FiniteSetTheorems, SequenceTheorems, TLAPS

Alike == \A p, q \in Points : <<p, q>> \in alike => <<q, p>> \in alike

\* The page and the searches of this scan hold the whole collection.
HoldsAll == deduping /\ Cardinality(stored) <= Page /\ Cardinality(stored) <= Top

ScanInv ==
  /\ Alike /\ IsFiniteSet(stored)
  /\ ~deduping => todo = {} /\ seen = {} /\ doomed = {}
  /\ doomed \subseteq seen
  /\ HoldsAll =>
       /\ stored \subseteq todo \cup seen
       /\ \A p \in seen \ doomed : \A q \in stored \ {p} : <<p, q>> \in alike => q \in doomed

EpisodesInv == Episodes!TypeOK /\ ScanInv /\ KeepsATwin

IInv == TypeOK /\ EpisodesInv

-------------------------------------------------------------------------------
(* The deduplication *)

LEMMA EpisodesStart == Episodes!Init => EpisodesInv
<1> SUFFICES ASSUME Episodes!Init PROVE EpisodesInv
  OBVIOUS
<1>1. Episodes!TypeOK /\ KeepsATwin
  BY DEF Episodes!Init, Episodes!TypeOK, KeepsATwin, Episodes!KeepsATwin
<1>2. ScanInv
  BY FS_EmptySet DEF Episodes!Init, ScanInv, Alike, HoldsAll
<1> QED
  BY <1>1, <1>2 DEF EpisodesInv

LEMMA EpisodesUnchanged ==
  ASSUME EpisodesInv, UNCHANGED episodeVars
  PROVE  EpisodesInv'
BY DEF EpisodesInv, episodeVars, Episodes!TypeOK, ScanInv, Alike, HoldsAll, KeepsATwin,
       Episodes!KeepsATwin

\* store_summary and delete_summary run outside a scan.
LEMMA ChangeKeeps ==
  ASSUME EpisodesInv, NEW p \in Points, Episodes!Store(p) \/ Episodes!Delete(p)
  PROVE  EpisodesInv'
<1>1. /\ ~deduping /\ UNCHANGED <<alike, deduping, todo, seen, doomed>>
      /\ stored' = stored \cup {p} \/ stored' = stored \ {p}
  BY DEF Episodes!Store, Episodes!Delete, Episodes!scan
<1>2. todo = {} /\ seen = {} /\ doomed = {} /\ IsFiniteSet(stored')
  <2>1. IsFiniteSet(stored)
    BY DEF EpisodesInv, ScanInv
  <2>2. IsFiniteSet(stored \cup {p}) /\ IsFiniteSet(stored \ {p})
    BY <2>1, FS_AddElement, FS_RemoveElement
  <2> QED
    BY <1>1, <2>2 DEF EpisodesInv, ScanInv
<1>3. Episodes!TypeOK' /\ KeepsATwin'
  BY <1>1, <1>2 DEF EpisodesInv, Episodes!TypeOK, KeepsATwin, Episodes!KeepsATwin
<1>4. ScanInv'
  BY <1>1, <1>2 DEF EpisodesInv, ScanInv, Alike, HoldsAll
<1> QED
  BY <1>3, <1>4 DEF EpisodesInv

LEMMA SameCardinality ==
  ASSUME NEW S PROVE Episodes!Cardinality(S) = Cardinality(S)
BY DEF Cardinality, Episodes!Cardinality

\* A query whose limit is not reached returns all there is.
LEMMA LimitedHasAll ==
  ASSUME NEW S, NEW n, NEW R \in Episodes!Limited(S, n)
  PROVE  R \subseteq S /\ (Cardinality(S) <= n => R = S)
<1>1. R \in SUBSET S /\ (IF Cardinality(S) <= n THEN R = S ELSE Cardinality(R) = n)
  BY SameCardinality DEF Episodes!Limited
<1> QED
  BY <1>1

LEMMA ScrollKeeps ==
  ASSUME EpisodesInv, Episodes!Scroll
  PROVE  EpisodesInv'
<1>1. /\ deduping' = TRUE /\ seen' = {} /\ doomed' = {} /\ UNCHANGED <<alike, stored>>
      /\ todo' \subseteq stored
      /\ Cardinality(stored) <= Page => todo' = stored
  BY LimitedHasAll DEF Episodes!Scroll
<1>2. Episodes!TypeOK' /\ KeepsATwin'
  BY <1>1 DEF EpisodesInv, Episodes!TypeOK, KeepsATwin, Episodes!KeepsATwin
<1>3. ScanInv'
  BY <1>1 DEF EpisodesInv, ScanInv, Alike, HoldsAll
<1> QED
  BY <1>2, <1>3 DEF EpisodesInv

\* A point is visited.  The point that is searched is new, so it stays; what
\* it takes with it was never seen, so no point that was kept goes.
LEMMA VisitKeeps ==
  ASSUME EpisodesInv, NEW p \in Points, Episodes!Visit(p)
  PROVE  EpisodesInv'
<1>1. p \in todo /\ todo' = todo \ {p} /\ deduping /\ UNCHANGED <<alike, stored, deduping>>
  BY DEF Episodes!Visit
<1>2. p \in stored /\ doomed \subseteq seen
  BY <1>1 DEF EpisodesInv, ScanInv, Episodes!TypeOK
<1>3. CASE p \in seen
  <2>1. UNCHANGED <<seen, doomed>>
    BY <1>3 DEF Episodes!Visit
  <2>2. Episodes!TypeOK' /\ KeepsATwin'
    BY <1>1, <2>1 DEF EpisodesInv, Episodes!TypeOK, KeepsATwin, Episodes!KeepsATwin
  <2>3. ScanInv'
    BY <1>1, <1>3, <2>1 DEF EpisodesInv, ScanInv, Alike, HoldsAll
  <2> QED
    BY <2>2, <2>3 DEF EpisodesInv
<1>4. CASE p \notin seen
  <2>1. PICK R \in Episodes!Limited(Episodes!Neighbours(p), Top) :
          seen' = seen \cup R \cup {p} /\ doomed' = doomed \cup (R \ (seen \cup {p}))
    BY <1>4 DEF Episodes!Visit
  <2>2. R \subseteq Episodes!Neighbours(p) /\ R \subseteq stored
    <3>1. R \subseteq Episodes!Neighbours(p)
      BY LimitedHasAll
    <3> QED
      BY <3>1 DEF Episodes!Neighbours
  <2>3. Episodes!TypeOK'
    BY <1>1, <1>2, <2>1, <2>2 DEF EpisodesInv, Episodes!TypeOK
  <2>4. KeepsATwin'
    <3> SUFFICES ASSUME NEW d \in doomed' PROVE \E k \in seen' \ doomed' : <<k, d>> \in alike
      BY <1>1 DEF KeepsATwin, Episodes!KeepsATwin
    <3>1. CASE d \in doomed
      <4>1. PICK k \in seen \ doomed : <<k, d>> \in alike
        BY <3>1 DEF EpisodesInv, KeepsATwin, Episodes!KeepsATwin
      <4> QED
        BY <2>1, <4>1
    <3>2. CASE d \in R \ (seen \cup {p})
      <4>1. <<p, d>> \in alike
        BY <2>2, <3>2 DEF Episodes!Neighbours
      <4>2. p \in seen' \ doomed'
        BY <1>2, <1>4, <2>1
      <4> QED
        BY <4>1, <4>2
    <3> QED
      BY <2>1, <3>1, <3>2
  <2>5. ScanInv'
    <3>1. Alike' /\ IsFiniteSet(stored)'
      BY <1>1 DEF EpisodesInv, ScanInv, Alike
    <3>2. doomed' \subseteq seen'
      BY <1>2, <2>1
    <3>3. ASSUME HoldsAll' PROVE stored' \subseteq todo' \cup seen'
      BY <1>1, <2>1, <3>3 DEF EpisodesInv, ScanInv, HoldsAll
    <3>4. ASSUME HoldsAll', NEW k \in seen' \ doomed', NEW q \in stored' \ {k}, <<k, q>> \in alike'
          PROVE  q \in doomed'
      <4>1. HoldsAll
        BY <1>1, <3>4 DEF HoldsAll
      <4>2. ASSUME NEW x \in seen \ doomed, NEW y \in stored \ {x}, <<x, y>> \in alike
            PROVE  y \in doomed
        BY <4>1, <4>2 DEF EpisodesInv, ScanInv
      <4>3. k \in Points /\ q \in Points
        BY <1>1, <2>3, <3>4 DEF Episodes!TypeOK
      <4>4. <<q, k>> \in alike
        BY <1>1, <3>4, <4>3 DEF EpisodesInv, ScanInv, Alike
      <4>5. CASE k \in seen
        BY <1>1, <2>1, <3>4, <4>2, <4>5
      <4>6. CASE k = p
        <5>1. Episodes!Neighbours(p) \subseteq stored /\ q \in Episodes!Neighbours(p)
          BY <1>1, <3>4, <4>6 DEF Episodes!Neighbours
        <5>2. Cardinality(Episodes!Neighbours(p)) <= Top
          <6>1. /\ Cardinality(Episodes!Neighbours(p)) <= Cardinality(stored)
                /\ IsFiniteSet(Episodes!Neighbours(p)) /\ IsFiniteSet(stored)
            BY <5>1, FS_Subset DEF EpisodesInv, ScanInv
          <6>2. /\ Cardinality(Episodes!Neighbours(p)) \in Nat /\ Cardinality(stored) \in Nat
                /\ Cardinality(stored) <= Top
            BY <4>1, <6>1, FS_CardinalityType DEF HoldsAll
          <6> QED
            BY <6>1, <6>2, ConsolidationAssumption
        <5>3. q \in R
          BY <5>1, <5>2, LimitedHasAll
        <5>4. q \in seen => q \in doomed
          BY <1>1, <1>2, <1>4, <3>4, <4>2, <4>4, <4>6
        <5> QED
          BY <2>1, <3>4, <4>6, <5>3, <5>4
      <4>7. k \in R => k \in seen \/ k = p
        BY <2>1, <3>4
      <4> QED
        BY <2>1, <4>5, <4>6, <4>7
    <3> QED
      BY <1>1, <3>1, <3>2, <3>3, <3>4 DEF ScanInv
  <2> QED
    BY <2>3, <2>4, <2>5 DEF EpisodesInv
<1> QED
  BY <1>3, <1>4

\* The scan ends.
LEMMA EndKeeps ==
  ASSUME EpisodesInv, Episodes!Purge \/ Episodes!GiveUp
  PROVE  EpisodesInv'
<1>1. /\ ~deduping' /\ todo' = {} /\ seen' = {} /\ doomed' = {} /\ alike' = alike
      /\ stored' \subseteq stored
  BY DEF Episodes!Purge, Episodes!GiveUp
<1>2. IsFiniteSet(stored')
  BY <1>1, FS_Subset DEF EpisodesInv, ScanInv
<1>3. Episodes!TypeOK' /\ KeepsATwin'
  <2>1. deduping' \in BOOLEAN
    BY DEF Episodes!Purge, Episodes!GiveUp
  <2> QED
    BY <1>1, <2>1 DEF EpisodesInv, Episodes!TypeOK, KeepsATwin, Episodes!KeepsATwin
<1>4. ScanInv'
  BY <1>1, <1>2 DEF EpisodesInv, ScanInv, Alike, HoldsAll
<1> QED
  BY <1>3, <1>4 DEF EpisodesInv

-------------------------------------------------------------------------------
(* The facts *)

\* What a statement on the row with id i may make of the table: every row is
\* as it was, has been given another confidence, or is gone.
Lesser(facts2) ==
  /\ facts2 \in [Keys -> Rows \cup {NoFact}]
  /\ \A k \in Keys : facts[k] = NoFact => facts2[k] = NoFact

LEMMA NoFactIsNoRow == NoFact \notin Rows
BY ConsolidationAssumption DEF Rows, Ids

LEMMA StatementsLessen ==
  ASSUME facts \in [Keys -> Rows \cup {NoFact}], NEW i
  PROVE  Lesser(Without(i)) /\ \A doubtful \in BOOLEAN : Lesser(WithDoubt(i, doubtful))
<1>1. Lesser(Without(i))
  BY DEF Lesser, Without, Holders
<1>2. ASSUME NEW doubtful \in BOOLEAN PROVE Lesser(WithDoubt(i, doubtful))
  <2>1. ASSUME NEW k \in Keys, facts[k] # NoFact
        PROVE  [facts[k] EXCEPT !.doubtful = doubtful] \in Rows
    BY <2>1 DEF Rows
  <2>2. \A k \in Holders(i) : k \in Keys /\ facts[k] # NoFact
    BY DEF Holders
  <2> QED
    BY <2>1, <2>2 DEF Lesser, WithDoubt
<1> QED
  BY <1>1, <1>2

\* A merge less, or with one twin less, the decisions are still decisions.
LEMMA DecisionsShrink ==
  ASSUME decided \in Decisions, NEW i
  PROVE  /\ [decided EXCEPT !.keep = @ \ {i}] \in Decisions
         /\ [decided EXCEPT !.drop = @ \ {i}] \in Decisions
         /\ Merging => /\ [decided EXCEPT !.merges[1].twins = @ \ {i}] \in Decisions
                       /\ [decided EXCEPT !.merges = Tail(@)] \in Decisions
<1>1. PICK n \in 0..MaxMerges : decided.merges \in [1..n -> Merges]
  BY DEF Decisions
<1>2. MaxMerges \in Nat /\ n \in Nat
  BY ConsolidationAssumption
<1>3. [decided EXCEPT !.keep = @ \ {i}] \in Decisions /\ [decided EXCEPT !.drop = @ \ {i}] \in Decisions
  BY DEF Decisions
<1>4. ASSUME Merging
      PROVE  /\ [decided EXCEPT !.merges[1].twins = @ \ {i}] \in Decisions
             /\ [decided EXCEPT !.merges = Tail(@)] \in Decisions
  <2>1. n \in 1..MaxMerges /\ n - 1 \in 0..MaxMerges
    BY <1>1, <1>2, <1>4 DEF Merging
  <2>2. [decided.merges EXCEPT ![1].twins = @ \ {i}] \in [1..n -> Merges]
    BY <1>1, <2>1 DEF Merges
  <2>3. Tail(decided.merges) \in [1..(n - 1) -> Merges]
    <3>1. decided.merges \in Seq(Merges) /\ Len(decided.merges) = n
      BY <1>1, <1>2
    <3>2. Tail(decided.merges) \in Seq(Merges) /\ Len(Tail(decided.merges)) = n - 1
      BY <2>1, <3>1
    <3> QED
      BY <3>2, LenProperties
  <2>4. ASSUME NEW m \in 0..MaxMerges, NEW f \in [1..m -> Merges]
        PROVE  [decided EXCEPT !.merges = f] \in Decisions
    BY DEF Decisions
  <2>5. [decided EXCEPT !.merges[1].twins = @ \ {i}]
          = [decided EXCEPT !.merges = [decided.merges EXCEPT ![1].twins = @ \ {i}]]
    BY DEF Decisions
  <2>6. [decided EXCEPT !.merges = Tail(@)] = [decided EXCEPT !.merges = Tail(decided.merges)]
    BY DEF Decisions
  <2> QED
    BY <2>1, <2>2, <2>3, <2>4, <2>5, <2>6
<1> QED
  BY <1>3, <1>4

\* The steps of the run that apply a decision, and what each makes of the
\* table, the decisions and the rest.
Applies ==
  \/ \E i \in Ids : \/ \E doubtful \in BOOLEAN : KeepFact(i, doubtful)
                   \/ DropFact(i) \/ DropTwin(i)
  \/ MergeFact

LEMMA AppliesDecision ==
  ASSUME IInv, Applies
  PROVE  /\ Lesser(facts')
         /\ UNCHANGED <<ids, phase, reviewed, episodeVars>>
         /\ decided' \in Decisions
<1>1. decided \in Decisions /\ facts \in [Keys -> Rows \cup {NoFact}]
  BY DEF IInv, TypeOK
<1>2. UNCHANGED <<ids, phase, reviewed, episodeVars>>
  BY DEF Applies, KeepFact, DropFact, DropTwin, MergeFact, Apply
<1>3. Lesser(facts')
  BY <1>1, StatementsLessen DEF Applies, KeepFact, DropFact, DropTwin, MergeFact, Apply
<1>4. decided' \in Decisions
  BY <1>1, DecisionsShrink DEF Applies, KeepFact, DropFact, DropTwin, MergeFact
<1> QED
  BY <1>2, <1>3, <1>4

-------------------------------------------------------------------------------
(* The inductive invariant *)

LEMMA NothingIsDecided == Nothing \in Decisions
<1>1. MaxMerges \in Nat /\ <<>> \in [1..0 -> Merges]
  BY ConsolidationAssumption
<1> QED
  BY <1>1 DEF Nothing, Decisions

LEMMA InitInv == Init => IInv
<1> SUFFICES ASSUME Init PROVE IInv
  OBVIOUS
<1>1. EpisodesInv
  BY EpisodesStart DEF Init
<1>2. TypeOK
  BY <1>1, NothingIsDecided, ConsolidationAssumption
  DEF Init, TypeOK, EpisodesInv, Ids, Rows
<1> QED
  BY <1>1, <1>2 DEF IInv

\* The facts and the run are as they were.
LEMMA TableAndRunUnchanged ==
  ASSUME IInv, EpisodesInv', UNCHANGED <<tableVars, runVars>>
  PROVE  IInv'
BY DEF IInv, TypeOK, EpisodesInv, tableVars, runVars

\* The tools, the endpoints and the reflection write to the table.
LEMMA TableKeeps ==
  ASSUME IInv,
         \/ \E k \in Keys, doubtful \in BOOLEAN : UpsertFact(k, doubtful)
         \/ \E i \in Ids : DeleteFact(i)
  PROVE  IInv'
<1>1. UNCHANGED <<runVars, episodeVars>>
  BY DEF UpsertFact, DeleteFact
<1>2. EpisodesInv'
  BY <1>1, EpisodesUnchanged DEF IInv
<1>3. facts' \in [Keys -> Rows \cup {NoFact}] /\ ids' \in 0..MaxIds
  <2>1. ASSUME NEW k \in Keys, NEW doubtful \in BOOLEAN, UpsertFact(k, doubtful)
        PROVE  facts' \in [Keys -> Rows \cup {NoFact}] /\ ids' \in 0..MaxIds
    <3>1. CASE facts[k] = NoFact
      <4>1. ids' \in Ids /\ ids' \in 0..MaxIds
        BY <2>1, <3>1, ConsolidationAssumption DEF UpsertFact, IInv, TypeOK, Ids
      <4>2. [id |-> ids', doubtful |-> doubtful] \in Rows
        BY <4>1 DEF Rows
      <4> QED
        BY <2>1, <3>1, <4>1, <4>2 DEF UpsertFact, IInv, TypeOK
    <3>2. CASE facts[k] # NoFact
      <4>1. facts[k] \in Rows
        BY <3>2 DEF IInv, TypeOK
      <4>2. [facts[k] EXCEPT !.doubtful = doubtful] \in Rows
        BY <4>1 DEF Rows
      <4> QED
        BY <2>1, <3>2, <4>2 DEF UpsertFact, IInv, TypeOK
    <3> QED
      BY <3>1, <3>2
  <2>2. ASSUME NEW i \in Ids, DeleteFact(i)
        PROVE  facts' \in [Keys -> Rows \cup {NoFact}] /\ ids' \in 0..MaxIds
    BY <2>2 DEF DeleteFact, IInv, TypeOK
  <2> QED
    BY <2>1, <2>2
<1> QED
  BY <1>1, <1>2, <1>3 DEF IInv, TypeOK, EpisodesInv, runVars

\* A run starts.
LEMMA StartKeeps ==
  ASSUME IInv, Review \/ NothingToReview
  PROVE  IInv'
<1>1. UNCHANGED <<tableVars, decided>> /\ phase' \in {"asking", "deduping"}
  BY DEF Review, NothingToReview
<1>2. EpisodesInv'
  BY EpisodesUnchanged, ScrollKeeps DEF IInv, Review, NothingToReview
<1>3. reviewed' \subseteq [id : Ids, key : Keys]
  <2>1. ASSUME NEW k \in Doubtful PROVE [id |-> facts[k].id, key |-> k] \in [id : Ids, key : Keys]
    <3>1. facts[k] \in Rows /\ k \in Keys
      BY <2>1 DEF Doubtful, IInv, TypeOK
    <3> QED
      BY <3>1 DEF Rows
  <2> QED
    BY <2>1 DEF Review, NothingToReview
<1> QED
  BY <1>1, <1>2, <1>3 DEF IInv, TypeOK, EpisodesInv, tableVars

\* The model answers, the run breaks off, or an id is passed over.
LEMMA AnswerKeeps ==
  ASSUME IInv, Answer \/ BreakOff \/ \E i \in Ids : SkipDelete(i)
  PROVE  IInv'
<1>1. UNCHANGED <<tableVars, reviewed, episodeVars>> /\ phase' \in {"idle", "deciding"}
  BY DEF Answer, BreakOff, SkipDelete, Merging, Goto
<1>2. decided' \in Decisions
  <2>1. ASSUME NEW i, SkipDelete(i) PROVE decided' \in Decisions
    <3>1. decided \in Decisions
      BY DEF IInv, TypeOK
    <3> QED
      BY <2>1, <3>1, DecisionsShrink DEF SkipDelete
  <2> QED
    BY <2>1, NothingIsDecided DEF Answer, BreakOff
<1>3. EpisodesInv'
  BY <1>1, EpisodesUnchanged DEF IInv
<1> QED
  BY <1>1, <1>2, <1>3 DEF IInv, TypeOK, EpisodesInv, tableVars

LEMMA ApplyKeeps ==
  ASSUME IInv, Applies
  PROVE  IInv'
<1>1. /\ facts' \in [Keys -> Rows \cup {NoFact}]
      /\ UNCHANGED <<ids, phase, reviewed, episodeVars>>
      /\ decided' \in Decisions
  BY AppliesDecision DEF Lesser
<1>2. EpisodesInv'
  BY <1>1, EpisodesUnchanged DEF IInv
<1> QED
  BY <1>1, <1>2 DEF IInv, TypeOK, EpisodesInv

\* The deduplication starts and ends.
LEMMA DedupeKeeps ==
  ASSUME IInv, Deduplicate \/ Finish
  PROVE  IInv'
<1>1. UNCHANGED <<tableVars, reviewed, decided>> /\ phase' \in {"deduping", "idle"}
  BY DEF Deduplicate, Finish, Goto
<1>2. EpisodesInv'
  BY ScrollKeeps, EndKeeps DEF IInv, Deduplicate, Finish
<1> QED
  BY <1>1, <1>2 DEF IInv, TypeOK, EpisodesInv, tableVars

LEMMA NextInv == IInv /\ [Next]_vars => IInv'
<1> SUFFICES ASSUME IInv, [Next]_vars PROVE IInv'
  OBVIOUS
<1>1. CASE \/ \E k \in Keys, doubtful \in BOOLEAN : UpsertFact(k, doubtful)
           \/ \E i \in Ids : DeleteFact(i)
  BY <1>1, TableKeeps
<1>2. CASE EpisodesChange
  <2>1. EpisodesInv'
    BY <1>2, ChangeKeeps DEF EpisodesChange, IInv
  <2> QED
    BY <1>2, <2>1, TableAndRunUnchanged DEF EpisodesChange
<1>3. CASE Review \/ NothingToReview
  BY <1>3, StartKeeps
<1>4. CASE Answer \/ BreakOff \/ \E i \in Ids : SkipDelete(i)
  BY <1>4, AnswerKeeps
<1>5. CASE Applies
  BY <1>5, ApplyKeeps
<1>6. CASE Deduplicate \/ Finish
  BY <1>6, DedupeKeeps
<1>7. CASE \E p \in Points : VisitEpisode(p)
  <2>1. EpisodesInv' /\ UNCHANGED <<tableVars, runVars>>
    BY <1>7, VisitKeeps DEF VisitEpisode, IInv
  <2> QED
    BY <2>1, TableAndRunUnchanged
<1>8. CASE UNCHANGED vars
  <2>1. EpisodesInv'
    BY <1>8, EpisodesUnchanged DEF vars, IInv
  <2> QED
    BY <1>8, <2>1, TableAndRunUnchanged DEF vars
<1> QED
  BY <1>1, <1>2, <1>3, <1>4, <1>5, <1>6, <1>7, <1>8 DEF Next, RunStep, Applies

LEMMA Invariant == Spec => []IInv
BY InitInv, NextInv, PTL DEF Spec

-------------------------------------------------------------------------------
(* What the runs check, for all values of the constants *)

\* The facts, the decisions and the scan keep their types; the scan visits
\* and collects stored points only.
THEOREM TypeCorrect == Spec => []TypeOK
<1>1. IInv => TypeOK
  BY DEF IInv
<1> QED
  BY <1>1, Invariant, PTL

\* deduplicate keeps a near-duplicate of every point it deletes, even when
\* the page and the search cut their results short.
THEOREM ATwinIsKept == Spec => []KeepsATwin
<1>1. IInv => KeepsATwin
  BY DEF IInv, EpisodesInv
<1> QED
  BY <1>1, Invariant, PTL

\* A row comes into the table through upsert_fact only, with a new id: no
\* statement of the run brings a deleted fact back.
THEOREM NothingResurrects == Spec => NoResurrection
<1> DEFINE P == \A k \in Keys : facts[k] = NoFact /\ facts'[k] # NoFact =>
                  facts'[k].id > ids
<1>1. ASSUME IInv, Next PROVE P
  <2>1. ids \in Nat /\ facts \in [Keys -> Rows \cup {NoFact}]
    BY <1>1 DEF IInv, TypeOK
  <2>2. ASSUME NEW l \in Keys, NEW doubtful \in BOOLEAN, UpsertFact(l, doubtful)
        PROVE  P
    <3>1. CASE facts[l] = NoFact
      <4>1. facts' = [facts EXCEPT ![l] = [id |-> ids + 1, doubtful |-> doubtful]]
        BY <2>2, <3>1 DEF UpsertFact
      <4> QED
        BY <2>1, <4>1
    <3>2. CASE facts[l] # NoFact
      <4>1. facts' = [facts EXCEPT ![l].doubtful = doubtful]
        BY <2>2, <3>2 DEF UpsertFact
      <4> QED
        BY <2>1, <3>2, <4>1
    <3> QED
      BY <3>1, <3>2
  <2>3. ASSUME NEW i \in Ids, DeleteFact(i) PROVE P
    BY <2>3 DEF DeleteFact
  <2>4. ASSUME Applies PROVE P
    BY <1>1, <2>4, AppliesDecision DEF Lesser
  <2>5. ASSUME facts' = facts PROVE P
    BY <2>5
  <2>6. CASE EpisodesChange
    BY <2>5, <2>6 DEF EpisodesChange, tableVars
  <2>7. CASE RunStep
    <3>1. CASE Applies
      BY <2>4, <3>1
    <3>2. CASE \E i \in Ids : SkipDelete(i)
      BY <2>5, <3>2 DEF SkipDelete, tableVars
    <3>3. CASE Review \/ NothingToReview \/ Answer \/ Deduplicate \/ BreakOff \/ Finish
      BY <2>5, <3>3 DEF Review, NothingToReview, Answer, Deduplicate, BreakOff, Finish,
                        tableVars
    <3>4. CASE \E p \in Points : VisitEpisode(p)
      BY <2>5, <3>4 DEF VisitEpisode, tableVars
    <3> HIDE DEF P
    <3> QED
      BY <2>7, <3>1, <3>2, <3>3, <3>4 DEF RunStep, Applies
  <2> HIDE DEF P
  <2> QED
    BY <1>1, <2>2, <2>3, <2>6, <2>7 DEF Next
<1>2. IInv /\ [Next]_vars => [P]_vars
  BY <1>1
<1> QED
  BY <1>2, Invariant, PTL DEF Spec, NoResurrection

\* A step of the scan that deletes what was collected, when the limits were
\* not reached, leaves no two near-duplicates: each of a pair was seen, so
\* one of them was kept and the other doomed as its neighbour.
LEMMA EndLeavesNoTwins ==
  ASSUME EpisodesInv, deduping, todo = {},
         Cardinality(stored) <= Page, Cardinality(stored) <= Top,
         NEW p \in stored \ doomed, NEW q \in stored \ doomed, p # q
  PROVE  <<p, q>> \notin alike
<1>1. HoldsAll /\ p \in seen
  BY DEF HoldsAll, EpisodesInv, ScanInv
<1>2. ASSUME <<p, q>> \in alike PROVE q \in doomed
  BY <1>1, <1>2 DEF EpisodesInv, ScanInv
<1> QED
  BY <1>2

\* With a collection that fits in one page and in the limit of a search, the
\* nightly deduplication removes every near-duplicate.
THEOREM NoTwinsAreLeft == Spec => LeavesNoTwins
<1> DEFINE P == deduping /\ ~deduping' /\ todo = {} /\ Episodes!Cardinality(stored) <= Page
                /\ Episodes!Cardinality(stored) <= Top /\ stored' = stored \ doomed =>
                  \A p, q \in stored' : p # q => <<p, q>> \notin alike
<1>1. IInv => P
  BY EndLeavesNoTwins, SameCardinality DEF IInv
<1>2. IInv => [P]_(Episodes!vars)
  BY <1>1
<1> QED
  BY <1>2, Invariant, PTL DEF LeavesNoTwins, Episodes!LeavesNoTwins
===============================================================================
