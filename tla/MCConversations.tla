---------------------------- MODULE MCConversations ----------------------------
(* Two chat pages that send three messages between them. *)
EXTENDS Conversations, TLC

CONSTANTS p1, p2, t1, t2, t3

MCTwoPages == {p1, p2}
MCOnePage == {p1}
MCTwoTurns == {t1, t2}
MCThreeTurns == {t1, t2, t3}
MCTurnSymmetry == Permutations(MCThreeTurns)
MCSymmetry == Permutations(MCTwoTurns) \cup Permutations(MCTwoPages)
===============================================================================
