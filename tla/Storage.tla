------------------------------- MODULE Storage -------------------------------
(***************************************************************************)
(* What the file stores of backend/storage have in common, and the tools   *)
(* that call them.  One store is in use; its kind is chosen at the start.  *)
(* A file is an item with an identity of its own (a Drive id, an inode), a *)
(* name and a parent, since Drive lets two items share a name and a file   *)
(* that is renamed while it is written takes the writer along.  Paths have *)
(* one or two components (MaxDepth).  S3 has no folders: there the name of *)
(* an item is its whole key.                                               *)
(*                                                                         *)
(* Each client makes one call and goes through the awaits of its code one  *)
(* step at a time.  A file's content is named by the client that wrote it. *)
(***************************************************************************)
EXTENDS Naturals, FiniteSets, Sequences

CONSTANTS
  Client,     \* tool calls in flight: each makes one
  Kinds,      \* the stores to consider, among the five of the code
  Requests,   \* what a call may ask: [op, src, dst, known] records
  Layouts,    \* initial stores: functions from paths to Old or Folder
  Blocked,    \* paths that local.py never opens (_HARD_BLOCKED_PATTERNS)
  Old,        \* the content of the files that exist at the start
  Idle        \* what a call holds before it has read anything

Folder == "folder"   \* the content of a folder
Empty == "empty"     \* a file truncated and not yet written
Root == 0            \* the parent of what lies at the top
MaxDepth == 2        \* bound: components of a path

VARIABLES
  kind,      \* the store in use
  items,     \* what it holds: [id, name, parent, data]
  next,      \* the next identity it hands out
  session,   \* SFTPFileSystem._sftp: "none", "up", or "dead" (set, but dropped)
  call,      \* per client: the request, where its code is and what came of it
  host,      \* the files that downloads left on the host
  quiet,     \* history: no other call overlapped this one
  before     \* history: what every path held when the call started

vars == <<kind, items, next, session, call, host, quiet, before>>
store == <<items, next>>

Front(p) == SubSeq(p, 1, Len(p) - 1)
Last(p) == p[Len(p)]

\* the paths that calls and layouts name, and the folders on the way to them
Named == (UNION {{r.src, r.dst} : r \in Requests}) \cup (UNION {DOMAIN l : l \in Layouts})
Paths == Named \cup {Front(p) : p \in {q \in Named : Len(q) > 1}}
Data == Client \cup {Old, Empty}
Ops == {"upload", "put", "append", "read", "download", "list", "find", "exists", "stat",
        "delete", "move", "mkdir", "backup"}

ASSUME StorageAssumption ==
  /\ Folder \notin Data /\ Empty \notin Client \cup {Old} /\ Idle \notin Data
  /\ \A r \in Requests : r.op \in Ops /\ r.known \in BOOLEAN
  /\ \A p \in Named : p \in Seq({p[i] : i \in DOMAIN p}) /\ Len(p) \in 1..MaxDepth
  /\ \A l \in Layouts :
       /\ IsFiniteSet(DOMAIN l)
       /\ \A p \in DOMAIN l :
            /\ l[p] \in {Old, Folder}
            /\ Len(p) > 1 => Front(p) \in DOMAIN l /\ l[Front(p)] = Folder

\* the items named n in a folder, and the items a path leads to
Children(id, n) == {x \in items : x.parent = id /\ x.name = n}
At(p) ==
  IF kind = "s3" THEN Children(Root, p)
  ELSE IF Len(p) = 1 THEN Children(Root, p[1])
  ELSE UNION {Children(x.id, p[2]) : x \in Children(Root, p[1])}

Seen(p) == {x.data : x \in At(p)}
IsFolder(p) == Folder \in Seen(p)

\* the folders a path's last component may be put in
Homes(p) ==
  IF Len(p) = 1 \/ kind = "s3" THEN {Root}
  ELSE {x.id : x \in {y \in At(Front(p)) : y.data = Folder}}

NameOf(p) == IF kind = "s3" THEN p ELSE Last(p)

\* an item and everything below it
Below(x) == {y \in items : y = x \/ y.parent = x.id}

\* items with the content of one of them replaced, if it is still there
Rewritten(id, v) ==
  {IF x.id = id THEN [x EXCEPT !.data = v] ELSE x : x \in items}

\* a new item in the folder a path leads to, which is made if it is missing
Create(p, v) ==
  IF Homes(p) # {}
  THEN \E h \in Homes(p) :
         /\ items' = items \cup {[id |-> next, name |-> NameOf(p), parent |-> h, data |-> v]}
         /\ next' = next + 1
  ELSE /\ items' = items \cup
             {[id |-> next, name |-> p[1], parent |-> Root, data |-> Folder],
              [id |-> next + 1, name |-> Last(p), parent |-> next, data |-> v]}
       /\ next' = next + 2

------------------------------------------------------------------------------
(* Calls *)

Active(c) == call[c].pc \notin {"idle", "done"}
Doing(c, k, op, pc) ==
  kind = k /\ call[c].op = op /\ call[c].pc = pc
Go(c, pc) == call' = [call EXCEPT ![c].pc = pc]
End(c, res) == call' = [call EXCEPT ![c].pc = "done", ![c].res = res]
Answer(c, names) ==
  call' = [call EXCEPT ![c].pc = "done", ![c].res = "ok", ![c].names = names]
Still == UNCHANGED store
Apart == UNCHANGED <<kind, host, quiet, before>>
Do == Apart /\ UNCHANGED session
Keep == Still /\ Do
Refuse(c) == End(c, "error") /\ Keep

\* a change the store has made is reported, unless the answer is lost
Settle(c) == \E res \in {"ok", "error"} : End(c, res)

\* what was read is handed to the tool; download still has to save it
Got(c, v) ==
  call' = [call EXCEPT ![c].pc = IF call[c].op = "download" THEN "save" ELSE "done",
                       ![c].res = IF call[c].op = "download" THEN "none" ELSE "ok",
                       ![c].got = v]

\* FileSystemRouter.resolve (abstract.py, the router the tools use): the scheme
\* of the URI chooses the backend, none stands for local; an unknown one, or a
\* move between two backends, is refused before any await
Routed(r) == r.known

Begin(c, op) ==
  /\ call[c].pc = "idle"
  /\ \E r \in Requests :
       /\ r.op = op
       /\ call' = [call EXCEPT ![c] =
            [op |-> op, src |-> r.src, dst |-> r.dst,
             pc |-> IF Routed(r) THEN "go" ELSE "done",
             res |-> IF Routed(r) THEN "none" ELSE "error",
             at |-> Root, i |-> 0, file |-> Root, got |-> Idle, names |-> {},
             known |-> r.known]]
  /\ quiet' = [x \in Client |->
        IF x = c THEN ~\E y \in Client \ {c} : Active(y)
        ELSE quiet[x] /\ ~Active(x)]
  /\ before' = [before EXCEPT ![c] = [p \in Paths |-> Seen(p)]]
  /\ UNCHANGED <<kind, items, next, session, host>>

\* the cloud tools, which reach every registered store.  cloud_upload writes
\* with a plain call where the local store wants an await: "put" is that upload
CloudList(c)     == Begin(c, "list")
CloudRead(c)     == Begin(c, "read")
CloudUpload(c)   == Begin(c, IF kind = "local" THEN "put" ELSE "upload")
CloudDownload(c) == Begin(c, "download")
CloudDelete(c)   == Begin(c, "delete")
CloudMove(c)     == Begin(c, "move")

\* the file tools, which call local_fs itself
ReadFile(c)        == kind = "local" /\ Begin(c, "read")
ListDirectory(c)   == kind = "local" /\ Begin(c, "list")
WriteFile(c)       == kind = "local" /\ Begin(c, "upload")
AppendFile(c)      == kind = "local" /\ Begin(c, "append")
CreateDirectory(c) == kind = "local" /\ Begin(c, "mkdir")
DeleteFile(c)      == kind = "local" /\ Begin(c, "delete")
MoveFile(c)        == kind = "local" /\ Begin(c, "move")
FindFiles(c)       == kind = "local" /\ Begin(c, "find")

\* the router's exists and stat, which no tool calls
Exists(c) == Begin(c, "exists")
Stat(c) == Begin(c, "stat")

\* AssistantBackupJob.run: it awaits the context manager that write returns,
\* which every store's write refuses with a TypeError
Backup(c) == Begin(c, "backup")
BackupRun(c) ==
  /\ call[c].op = "backup" /\ call[c].pc = "go"
  /\ End(c, "error") /\ Still /\ Apart /\ UNCHANGED session

\* the second half of cloud_download: the file is written in one go
SaveDownload(c) ==
  /\ call[c].pc = "save"
  /\ host' = [host EXCEPT ![c] = call[c].got]
  /\ End(c, "ok")
  /\ Still /\ UNCHANGED <<kind, session, quiet, before>>

\* any await may raise: no token, no network, a bad status, a cancelled call.
\* The tools report it; what was done stays done
Fail(c) ==
  /\ Active(c)
  /\ End(c, "error")
  /\ Still /\ Apart /\ UNCHANGED session

ToolStep(c) ==
  \/ CloudList(c) \/ CloudRead(c) \/ CloudUpload(c) \/ CloudDownload(c)
  \/ CloudDelete(c) \/ CloudMove(c)
  \/ ReadFile(c) \/ ListDirectory(c) \/ WriteFile(c) \/ AppendFile(c) \/ CreateDirectory(c) \/ DeleteFile(c)
  \/ MoveFile(c) \/ FindFiles(c)
  \/ Exists(c) \/ Stat(c) \/ Backup(c) \/ BackupRun(c) \/ SaveDownload(c) \/ Fail(c)
==============================================================================
