---------------------------- MODULE MCConsolidation ----------------------------
(* Two facts, two row ids, three summaries. *)
EXTENDS Consolidation, TLC

CONSTANTS k1, k2, e1, e2, e3

MCKeys == {k1, k2}
MCPoints == {e1, e2, e3}
MCSymmetry == Permutations(MCKeys) \cup Permutations(MCPoints)
===============================================================================
