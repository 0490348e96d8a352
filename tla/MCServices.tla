----------------------------- MODULE MCServices ------------------------------
(* Two accounts of one provider, three calls on two databases, conversations *)
(* that carry every set of signals, two connectivity checks.                 *)
EXTENDS Services, TLC

CONSTANTS gdrive, ann, bob, f1, f2, k1, k2, k3, db1, db2, r1, x1, x2

MCParts == {"tokens", "databases", "router", "detector"}

MCProvider == {gdrive}
MCAccount == {ann, bob}
MCFlow == {f1, f2}
MCName == {db1, db2}
MCDrivers == {"postgresql", "mysql", "sqlite"}
MCTask == {k1, k2, k3}
MCRequest == {r1}
MCCheck == {x1, x2}

\* a message is short or long or neither; what the earlier ones say does not
\* matter, but how many there are does
Messages == {s \in SUBSET Signal : ~({"short", "long"} \subseteq s)}
MCChats == {<<s>> : s \in Messages} \cup {<<{"sensitive"}, {"short"}>>}
             \cup {<<{}, {"sensitive"}, {}, s>> : s \in Messages}

Symmetry == Permutations(MCAccount)
==============================================================================
