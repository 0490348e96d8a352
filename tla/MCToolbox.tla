------------------------------ MODULE MCToolbox ------------------------------
(* Two calls on a small tree, a file at the top and a file in a folder; a    *)
(* reversible and a destructive tool, contents of four characters with pairs *)
(* of secrets, and placeholders of two characters.                           *)
EXTENDS Toolbox, TLC

CONSTANTS c1, c2, old, idle, write_file, delete_file

MCParts == {"stores", "pipeline"}
MCStores == {"stores"}

F == <<"f">>
D == <<"d">>
G == <<"d", "g">>
K == <<"k">>

R(op, src, dst, known) == [op |-> op, src |-> src, dst |-> dst, known |-> known]
MCClient == {c1, c2}
MCKinds == {"local", "gdrive", "dropbox", "s3", "sftp"}
MCBlocked == {K}
MCRequests ==
  {R(op, p, p, TRUE) : op \in {"upload", "put", "delete"}, p \in {F, G}}
  \cup {R("move", F, G, TRUE), R("move", G, F, TRUE), R("delete", D, D, TRUE),
        R("append", F, F, TRUE), R("mkdir", D, D, TRUE), R("read", F, F, TRUE),
        R("download", G, G, TRUE), R("list", D, D, TRUE), R("find", D, D, TRUE),
        R("exists", G, G, TRUE), R("stat", F, F, TRUE), R("backup", F, F, TRUE),
        R("move", F, G, FALSE), R("upload", K, K, TRUE), R("read", K, K, TRUE)}
MCLayouts ==
  {F :> old, D :> "folder" @@ G :> old, F :> old @@ D :> "folder" @@ G :> old,
   F :> old @@ D :> old, K :> old}

MCTools == {write_file, delete_file}
MCTables == [t \in MCTools |-> IF t = write_file THEN 2 ELSE 3]

First == [start |-> 0, end |-> 1]
Wide == [start |-> 0, end |-> 3]
Later == [start |-> 1, end |-> 4]
Match(m, k) == [start |-> m.start, end |-> m.end, type |-> k]

\* secrets that are the same, one in the other, touch, and cross
Pairs == {m \in {First, Wide, Later} \X {First, Wide, Later} : m[1] # m[2] \/ m[1] = First}

MCContents ==
  {[patterns |-> p, matches |-> <<>>] : p \in {{}, {1}, {2}, {1, 3}}}
    \cup {[patterns |-> {}, matches |-> <<Match(m[1], 1), Match(m[2], 2)>>] : m \in Pairs}

Configured(mode, firewall, scrubber, tagger) ==
  [mode |-> mode, firewall |-> firewall, scrubber |-> scrubber, tagger |-> tagger]

MCConfigs ==
  {Configured("balanced", {}, {}, {}),
   Configured("strict", {write_file}, {}, {write_file}),
   Configured("permissive", {}, {write_file}, {delete_file})}

MCSources == {"local_filesystem", "external_web"}
MCForces == {None, 1, Bad}

Symmetry == Permutations(MCClient)
==============================================================================
