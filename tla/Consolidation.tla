----------------------------- MODULE Consolidation -----------------------------
(***************************************************************************)
(* The facts table (memory/structured.py) and the nightly run over it      *)
(* (memory/consolidation.py), followed by the deduplication of the         *)
(* episodic memory (Dedupe).  The run reads the doubtful facts, waits for  *)
(* the model's decisions, and applies them one statement at a time, while  *)
(* the memory tools, the memory endpoints and the daily reflection go on   *)
(* writing to the table.                                                   *)
(*                                                                         *)
(* A fact is kept by its (subject, predicate), here a key.  Of its         *)
(* confidence only "below the threshold" matters.  The code checks none of *)
(* the ids the model answers with, so the decisions are any ids: reviewed  *)
(* or not, repeated, or of no row at all.                                  *)
(***************************************************************************)
EXTENDS Naturals, FiniteSets, Sequences

CONSTANTS
  Keys,       \* (subject, predicate) pairs
  MaxIds,     \* bounds the ids drawn
  MaxMerges,  \* bounds the merges of one answer
  NoFact,
  Points, Page, Top   \* of Dedupe

ASSUME ConsolidationAssumption ==
  /\ MaxIds \in Nat /\ MaxMerges \in Nat /\ Page \in Nat \ {0} /\ Top \in Nat \ {0}
  /\ NoFact \notin [id : 1..MaxIds, doubtful : BOOLEAN]

VARIABLES
  facts,      \* facts[k]: the row of k, NoFact if there is none
  ids,        \* ids drawn for rows that were inserted: 1..ids
  phase,      \* where run_consolidation is
  reviewed,   \* ids and keys of the facts the model was shown
  decided,    \* the decisions not yet applied
  \* of Dedupe
  alike, stored, deduping, todo, seen, doomed

Episodes == INSTANCE Dedupe

tableVars == <<facts, ids>>
runVars == <<phase, reviewed, decided>>
episodeVars == <<alike, stored, deduping, todo, seen, doomed>>
vars == <<tableVars, runVars, episodeVars>>

Ids == 1..MaxIds

Rows == [id : Ids, doubtful : BOOLEAN]

\* delete_ids and keep_id, 0 when the merge names none or no object.
Merges == [twins : SUBSET Ids, into : Ids \cup {0}]

Decisions ==
  [keep : SUBSET Ids, drop : SUBSET Ids,
   merges : UNION {[1..n -> Merges] : n \in 0..MaxMerges}]

Nothing == [keep |-> {}, drop |-> {}, merges |-> <<>>]

TypeOK ==
  /\ facts \in [Keys -> Rows \cup {NoFact}]
  /\ ids \in 0..MaxIds
  /\ phase \in {"idle", "asking", "deciding", "deduping"}
  /\ reviewed \subseteq [id : Ids, key : Keys]
  /\ decided \in Decisions
  /\ Episodes!TypeOK

Init ==
  /\ facts = [k \in Keys |-> NoFact]
  /\ ids = 0
  /\ phase = "idle"
  /\ reviewed = {}
  /\ decided = Nothing
  /\ Episodes!Init

Goto(from, to) == phase = from /\ phase' = to

\* The keys whose row has id i: one or none.
Holders(i) == {k \in Keys : facts[k] # NoFact /\ facts[k].id = i}

-------------------------------------------------------------------------------
(* memory/structured.py *)

\* upsert_fact: a conflict keeps the id of the row that is there.
UpsertFact(k, doubtful) ==
  /\ IF facts[k] = NoFact
       THEN /\ ids < MaxIds
            /\ ids' = ids + 1
            /\ facts' = [facts EXCEPT ![k] = [id |-> ids', doubtful |-> doubtful]]
       ELSE /\ facts' = [facts EXCEPT ![k].doubtful = doubtful]
            /\ UNCHANGED ids
  /\ UNCHANGED <<runVars, episodeVars>>

\* delete_fact, with an id that was listed at some time.
DeleteFact(i) ==
  /\ i \in 1..ids
  /\ facts' = [k \in Keys |-> IF k \in Holders(i) THEN NoFact ELSE facts[k]]
  /\ UNCHANGED <<ids, runVars, episodeVars>>

-------------------------------------------------------------------------------
(* memory/consolidation.py *)

Doubtful == {k \in Keys : facts[k] # NoFact /\ facts[k].doubtful}

\* get_low_confidence_facts; with none to review the model is not asked.
Review ==
  /\ phase = "idle"
  /\ Doubtful # {}
  /\ phase' = "asking"
  /\ reviewed' = {[id |-> facts[k].id, key |-> k] : k \in Doubtful}
  /\ UNCHANGED <<tableVars, decided, episodeVars>>

NothingToReview ==
  /\ phase = "idle"
  /\ Doubtful = {}
  /\ phase' = "deduping"
  /\ reviewed' = {}
  /\ Episodes!Scroll
  /\ UNCHANGED <<tableVars, decided>>

\* The model answers; what cannot be parsed counts as no decision.
Answer ==
  /\ Goto("asking", "deciding")
  /\ decided' \in Decisions
  /\ UNCHANGED <<tableVars, reviewed, episodeVars>>

\* A statement of the run on the table.
Apply(facts2) ==
  /\ facts' = facts2
  /\ UNCHANGED <<ids, phase, reviewed, episodeVars>>

WithDoubt(i, doubtful) ==
  [k \in Keys |-> IF k \in Holders(i) THEN [facts[k] EXCEPT !.doubtful = doubtful]
                                      ELSE facts[k]]

Without(i) == [k \in Keys |-> IF k \in Holders(i) THEN NoFact ELSE facts[k]]

\* Faulty KeepFact: writes the reviewed row back (INSERT OR REPLACE).
KeepFactUpserts(i, doubtful) ==
  /\ phase = "deciding"
  /\ i \in decided.keep
  /\ decided' = [decided EXCEPT !.keep = @ \ {i}]
  /\ Apply([k \in Keys |-> IF [id |-> i, key |-> k] \in reviewed
                             THEN [id |-> i, doubtful |-> doubtful]
                             ELSE facts[k]])

\* UPDATE facts SET confidence = ? WHERE id = ?: whatever the model says, 0.7
\* if it says nothing.
KeepFact(i, doubtful) ==
  /\ phase = "deciding"
  /\ i \in decided.keep
  /\ decided' = [decided EXCEPT !.keep = @ \ {i}]
  /\ Apply(WithDoubt(i, doubtful))

DropFact(i) ==
  /\ phase = "deciding"
  /\ decided.keep = {}
  /\ i \in decided.drop
  /\ decided' = [decided EXCEPT !.drop = @ \ {i}]
  /\ Apply(Without(i))

\* The merge to be applied now: the merges come last, in their order.
Merging == phase = "deciding" /\ decided.keep = {} /\ decided.drop = {} /\ decided.merges # <<>>

\* The facts merged into another are deleted first ...
DropTwin(i) ==
  /\ Merging
  /\ i \in Head(decided.merges).twins
  /\ decided' = [decided EXCEPT !.merges[1].twins = @ \ {i}]
  /\ Apply(Without(i))

\* delete_fact raised: the run notes it, or passes over it, and goes on.
SkipDelete(i) ==
  /\ \/ /\ phase = "deciding" /\ decided.keep = {}
        /\ i \in decided.drop
        /\ decided' = [decided EXCEPT !.drop = @ \ {i}]
     \/ /\ Merging
        /\ i \in Head(decided.merges).twins
        /\ decided' = [decided EXCEPT !.merges[1].twins = @ \ {i}]
  /\ UNCHANGED <<tableVars, phase, reviewed, episodeVars>>

\* ... and the one that stays, if it was not among them, gets the merged
\* object and confidence 0.8.
MergeFact ==
  /\ Merging
  /\ Head(decided.merges).twins = {}
  /\ decided' = [decided EXCEPT !.merges = Tail(@)]
  /\ Apply(WithDoubt(Head(decided.merges).into, FALSE))

Deduplicate ==
  /\ Goto("deciding", "deduping")
  /\ decided = Nothing
  /\ Episodes!Scroll
  /\ UNCHANGED <<tableVars, reviewed, decided>>

\* The model's call, an item of the decisions or a statement raises, or the
\* worker is killed: what was applied stays, the rest and the deduplication
\* are dropped until the next night.
BreakOff ==
  /\ phase \in {"asking", "deciding"}
  /\ phase' = "idle"
  /\ decided' = Nothing
  /\ UNCHANGED <<tableVars, reviewed, episodeVars>>

VisitEpisode(p) ==
  /\ phase = "deduping"
  /\ Episodes!Visit(p)
  /\ UNCHANGED <<tableVars, runVars>>

Finish ==
  /\ Goto("deduping", "idle")
  /\ Episodes!Purge \/ Episodes!GiveUp
  /\ UNCHANGED <<tableVars, reviewed, decided>>

\* store_summary and delete_summary
EpisodesChange ==
  /\ \E p \in Points : Episodes!Store(p) \/ Episodes!Delete(p)
  /\ UNCHANGED <<tableVars, runVars>>

RunStep ==
  \/ Review
  \/ NothingToReview
  \/ Answer
  \/ \E i \in Ids :
       \/ \E doubtful \in BOOLEAN : KeepFact(i, doubtful)
       \/ DropFact(i)
       \/ DropTwin(i)
       \/ SkipDelete(i)
  \/ MergeFact
  \/ Deduplicate
  \/ BreakOff
  \/ \E p \in Points : VisitEpisode(p)
  \/ Finish

Next ==
  \/ \E k \in Keys, doubtful \in BOOLEAN : UpsertFact(k, doubtful)
  \/ \E i \in Ids : DeleteFact(i)
  \/ EpisodesChange
  \/ RunStep

Spec == Init /\ [][Next]_vars

-------------------------------------------------------------------------------
(* Properties *)

\* A fact that was deleted comes back only because somebody stores it again,
\* as a new row, never through a decision taken before it was deleted.
NoResurrection ==
  [][\A k \in Keys : facts[k] = NoFact /\ facts'[k] # NoFact =>
       facts'[k].id > ids]_vars

\* Dedupe's properties, in the nightly run that calls it.
KeepsATwin == Episodes!KeepsATwin

LeavesNoTwins == Episodes!LeavesNoTwins
===============================================================================
