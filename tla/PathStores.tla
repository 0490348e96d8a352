------------------------------ MODULE PathStores ------------------------------
(***************************************************************************)
(* The stores that are addressed by path: LocalFileSystem (local.py),      *)
(* DropboxFileSystem (dropbox_backend.py), S3FileSystem (s3.py) and        *)
(* SFTPFileSystem (sftp.py).  What the operating system or the service     *)
(* does within one request is one step.                                    *)
(***************************************************************************)
EXTENDS Storage

\* files are opened one by one; a read returns what the file holds now
ReadAt(c, p) ==
  \/ \E x \in At(p) : x.data # Folder /\ Got(c, x.data) /\ Keep
  \/ (\A x \in At(p) : x.data = Folder) /\ Refuse(c)

NamesIn(p) == UNION {{y.name : y \in Below(x) \ {x}} : x \in At(p)}

\* stat of what is not there raises; exists says so
Told(c, S) == Answer(c, {"yes" : x \in S}) /\ Keep
Stated(c, S) == IF S = {} THEN Refuse(c) ELSE Told(c, S)

\* open(.., "wb") truncates; what existed keeps its identity
OpenFor(c, p, v) ==
  IF At(p) # {}
  THEN \E x \in At(p) :
         /\ items' = Rewritten(x.id, v)
         /\ next' = next
         /\ call' = [call EXCEPT ![c].pc = "flush", ![c].file = x.id]
  ELSE /\ Create(p, v)
       /\ call' = [call EXCEPT ![c].pc = "flush", ![c].file = next' - 1]

\* ... and the data goes to the file that was opened, wherever it is by now
Flush(c) ==
  /\ call[c].pc = "flush"
  /\ items' = Rewritten(call[c].file, c) /\ next' = next
  /\ Do

\* what stands at a path gives way to an item that is moved there
Moved(x, p, home) ==
  items' = (items \ (At(p) \cup {x})) \cup {[x EXCEPT !.name = NameOf(p), !.parent = home]}

------------------------------------------------------------------------------
(* local.py: each await hands the loop to other calls, so the checks and the *)
(* file operation after them may see different trees                         *)

Local(c, op, pc) == Doing(c, "local", op, pc)
IsBlocked(p) == p \in Blocked

\* a file stands where the folder would have to be: it is not replaced
Barred(p) == Homes(p) = {} /\ At(Front(p)) # {}

\* before a file is written or moved its parent folder is made
Parents(c, pc) ==
  IF IsBlocked(call[c].dst) \/ Barred(call[c].dst) THEN Refuse(c)
  ELSE /\ Go(c, pc)
       /\ IF Homes(call[c].dst) = {} THEN Create(Front(call[c].dst), Folder) ELSE Still
       /\ Do

\* write, write_text and append_text: the check and the parents ...
LocalParents(c) ==
  /\ \E op \in {"upload", "put", "append"} : Local(c, op, "go")
  /\ Parents(c, "open")

\* nothing can be opened at a path
Closed(p) == IsFolder(p) \/ Homes(p) = {}

\* ... after an await open, and after another the data
LocalOpen(c) ==
  /\ \E op \in {"upload", "put"} : Local(c, op, "open")
  /\ IF Closed(call[c].dst) THEN Refuse(c) ELSE OpenFor(c, call[c].dst, Empty) /\ Do
LocalWriteText(c) == Local(c, "upload", "flush") /\ Flush(c) /\ End(c, "ok")

\* cloud_upload calls the file's write and drops the coroutine it returns: the
\* file is closed as it was opened, and nothing raises
LocalPut(c) == Local(c, "put", "flush") /\ End(c, "ok") /\ Keep

\* append_text: a missing file is made, an existing one is not truncated
LocalAppendText(c) ==
  \/ /\ Local(c, "append", "open")
     /\ IF Closed(call[c].dst) THEN Refuse(c)
        ELSE /\ OpenFor(c, call[c].dst,
                        IF At(call[c].dst) = {} THEN Empty
                        ELSE (CHOOSE x \in At(call[c].dst) : TRUE).data)
             /\ Do
  \/ Local(c, "append", "flush") /\ Flush(c) /\ End(c, "ok")

LocalMkdir(c) ==
  /\ Local(c, "mkdir", "go")
  /\ IF At(call[c].dst) = {} /\ ~Barred(call[c].dst)
     THEN Create(call[c].dst, Folder) /\ End(c, "ok") /\ Do
     ELSE End(c, IF IsFolder(call[c].dst) THEN "ok" ELSE "error") /\ Keep

LocalRead(c) ==
  /\ \E op \in {"read", "download"} : Local(c, op, "go")
  /\ IF IsBlocked(call[c].src) THEN Refuse(c) ELSE ReadAt(c, call[c].src)

LocalList(c) ==
  /\ Local(c, "list", "go")
  /\ IF IsFolder(call[c].src) THEN Answer(c, NamesIn(call[c].src)) /\ Keep ELSE Refuse(c)

\* find_files: every name below the root that matches, folders walked through
LocalFind(c) ==
  /\ Local(c, "find", "go")
  /\ IF At(call[c].src) # {}
     THEN Answer(c, {y.name : y \in {z \in items :
                      z.data # Folder /\ \E x \in At(call[c].src) : z.parent = x.id}}) /\ Keep
     ELSE Refuse(c)

LocalExists(c) == Local(c, "exists", "go") /\ Told(c, At(call[c].src))
LocalStat(c) == Local(c, "stat", "go") /\ Stated(c, At(call[c].src))

\* delete: the checks; then, after an await, remove or rmdir
LocalDeleteCheck(c) ==
  /\ Local(c, "delete", "go")
  /\ IF IsBlocked(call[c].src) \/ At(call[c].src) = {} THEN Refuse(c)
     ELSE Go(c, IF IsFolder(call[c].src) THEN "rmdir" ELSE "remove") /\ Keep
LocalDelete(c) ==
  /\ \E pc \in {"rmdir", "remove"} : Local(c, "delete", pc)
  /\ \/ \E x \in At(call[c].src) :
          /\ IF call[c].pc = "rmdir" THEN x.data = Folder /\ Below(x) = {x} ELSE x.data # Folder
          /\ items' = items \ {x} /\ next' = next /\ End(c, "ok") /\ Do
     \/ /\ \A x \in At(call[c].src) :
             IF call[c].pc = "rmdir" THEN x.data # Folder \/ Below(x) # {x} ELSE x.data = Folder
        /\ Refuse(c)

\* move: the checks and the parent folder; then, after an await, rename,
\* which replaces a file that is there
LocalMoveCheck(c) ==
  /\ Local(c, "move", "go")
  /\ IF IsBlocked(call[c].src) \/ At(call[c].src) = {} THEN Refuse(c) ELSE Parents(c, "rename")
LocalRename(c) ==
  /\ Local(c, "move", "rename")
  /\ \/ \E x \in At(call[c].src), h \in Homes(call[c].dst) :
          /\ ~IsFolder(call[c].dst) /\ Moved(x, call[c].dst, h)
          /\ next' = next /\ End(c, "ok") /\ Do
     \/ /\ At(call[c].src) = {} \/ Homes(call[c].dst) = {} \/ IsFolder(call[c].dst)
        /\ Refuse(c)

------------------------------------------------------------------------------
(* dropbox_backend.py: one request per call *)

Dropbox(c, op) == Doing(c, "dropbox", op, "go")

DropboxUpload(c) ==
  /\ Dropbox(c, "upload")
  /\ IF IsFolder(call[c].dst) \/ Barred(call[c].dst) THEN Refuse(c)
     ELSE /\ IF At(call[c].dst) = {} THEN Create(call[c].dst, c)
             ELSE (\E x \in At(call[c].dst) : items' = Rewritten(x.id, c)) /\ next' = next
          /\ Settle(c) /\ Do
DropboxRead(c) == (Dropbox(c, "read") \/ Dropbox(c, "download")) /\ ReadAt(c, call[c].src)
DropboxList(c) ==
  /\ Dropbox(c, "list")
  /\ IF IsFolder(call[c].src) THEN Answer(c, NamesIn(call[c].src)) /\ Keep ELSE Refuse(c)
DropboxStat(c) == Dropbox(c, "stat") /\ Stated(c, At(call[c].src))
DropboxExists(c) == Dropbox(c, "exists") /\ Told(c, At(call[c].src))
DropboxDelete(c) ==
  /\ Dropbox(c, "delete")
  /\ IF At(call[c].src) = {} THEN Refuse(c)
     ELSE /\ items' = items \ UNION {Below(x) : x \in At(call[c].src)}
          /\ next' = next /\ Settle(c) /\ Do
\* a target that exists is a conflict
DropboxMove(c) ==
  /\ Dropbox(c, "move")
  /\ IF At(call[c].src) = {} \/ At(call[c].dst) # {} \/ Barred(call[c].dst) THEN Refuse(c)
     ELSE /\ \E x \in At(call[c].src) :
               IF Homes(call[c].dst) # {}
               THEN (\E h \in Homes(call[c].dst) : Moved(x, call[c].dst, h)) /\ next' = next
               ELSE /\ next' = next + 1
                    /\ items' = (items \ {x}) \cup
                         {[id |-> next, name |-> call[c].dst[1], parent |-> Root, data |-> Folder],
                          [x EXCEPT !.name = Last(call[c].dst), !.parent = next]}
          /\ Settle(c) /\ Do

------------------------------------------------------------------------------
(* s3.py: objects under keys; a folder is what keys have in common *)

S3(c, op, pc) == Doing(c, "s3", op, pc)
Under(p) == {x \in items : Len(x.name) > Len(p) /\ SubSeq(x.name, 1, Len(p)) = p}

PutObject(p, v) ==
  IF At(p) = {} THEN Create(p, v)
  ELSE (\E x \in At(p) : items' = Rewritten(x.id, v)) /\ next' = next

S3Write(c) == S3(c, "upload", "go") /\ PutObject(call[c].dst, c) /\ Settle(c) /\ Do
S3Read(c) == (S3(c, "read", "go") \/ S3(c, "download", "go")) /\ ReadAt(c, call[c].src)
S3List(c) ==
  /\ S3(c, "list", "go")
  /\ Answer(c, {x.name[Len(call[c].src) + 1] : x \in Under(call[c].src)}) /\ Keep
S3Stat(c) == S3(c, "stat", "go") /\ Stated(c, At(call[c].src) \cup Under(call[c].src))
S3Exists(c) == S3(c, "exists", "go") /\ Told(c, At(call[c].src) \cup Under(call[c].src))
\* deleting a key that is not there succeeds as well
S3Delete(c) ==
  /\ S3(c, "delete", "go")
  /\ items' = items \ At(call[c].src) /\ next' = next /\ Settle(c) /\ Do
\* move: copy, then delete; whoever wrote the source in between is not asked
\* mutant: the source is deleted before it is copied
S3DeleteFirst(c) ==
  /\ S3(c, "move", "go") /\ At(call[c].src) # {}
  /\ items' = items \ At(call[c].src) /\ next' = next /\ Go(c, "drop") /\ Do
S3Copy(c) ==
  /\ S3(c, "move", "go")
  /\ \/ \E x \in At(call[c].src) :
          PutObject(call[c].dst, x.data) /\ (Go(c, "drop") \/ End(c, "error")) /\ Do
     \/ At(call[c].src) = {} /\ Refuse(c)
S3Drop(c) ==
  /\ S3(c, "move", "drop")
  /\ items' = items \ At(call[c].src) /\ next' = next /\ Settle(c) /\ Do

------------------------------------------------------------------------------
(* sftp.py: one session for all calls, opened by the first *)

Sftp(c, op, pc) == Doing(c, "sftp", op, pc)
Live == session = "up"

\* _ensure_connected, under the lock: a session that is set is taken as it is
SftpConnect(c) ==
  /\ kind = "sftp" /\ call[c].pc = "go" /\ call[c].op # "backup"
  /\ session' = IF session = "none" THEN "up" ELSE session
  /\ Go(c, "use") /\ Still /\ Apart

\* the server, or the network, ends the session; close() clears it
SftpDropped == session = "up" /\ session' = "dead" /\ UNCHANGED call /\ Still /\ Apart
SftpClose == kind = "sftp" /\ session # "none" /\ session' = "none" /\ UNCHANGED call /\ Still /\ Apart

\* mutant: a write that fails is logged and not raised
SftpNoSessionSwallows(c) ==
  /\ kind = "sftp" /\ call[c].pc \in {"use", "flush", "rmdir"} /\ ~Live
  /\ End(c, IF call[c].pc = "flush" THEN "ok" ELSE "error") /\ Keep

\* with no session, or a dead one, the request raises
SftpNoSession(c) ==
  kind = "sftp" /\ call[c].pc \in {"use", "flush", "rmdir"} /\ ~Live /\ Refuse(c)

\* write: the data is buffered, the file opened (and truncated), then written
SftpOpen(c) ==
  /\ Sftp(c, "upload", "use") /\ Live
  /\ IF Homes(call[c].dst) = {} \/ IsFolder(call[c].dst) THEN Refuse(c)
     ELSE OpenFor(c, call[c].dst, Empty) /\ Do
SftpWrite(c) == Sftp(c, "upload", "flush") /\ Live /\ Flush(c) /\ Settle(c)
SftpRead(c) ==
  (Sftp(c, "read", "use") \/ Sftp(c, "download", "use")) /\ Live /\ ReadAt(c, call[c].src)
SftpList(c) ==
  /\ Sftp(c, "list", "use") /\ Live
  /\ IF IsFolder(call[c].src) THEN Answer(c, NamesIn(call[c].src)) /\ Keep ELSE Refuse(c)
SftpStat(c) == Sftp(c, "stat", "use") /\ Live /\ Stated(c, At(call[c].src))
\* the code knows the library's error by the name of its class, SFTPError; what
\* the library raises may be a subclass, and then exists raises, and a delete
\* does not go on to rmdir
SftpExists(c) ==
  /\ Sftp(c, "exists", "use") /\ Live
  /\ Told(c, At(call[c].src)) \/ Stated(c, At(call[c].src))
\* delete: remove; if that is refused, rmdir, for an empty folder
SftpDelete(c) ==
  /\ Sftp(c, "delete", "use") /\ Live
  /\ \/ \E x \in At(call[c].src) :
          x.data # Folder /\ items' = items \ {x} /\ next' = next /\ Settle(c) /\ Do
     \/ /\ \A x \in At(call[c].src) : x.data = Folder
        /\ (Go(c, "rmdir") /\ Keep) \/ Refuse(c)
SftpRmdir(c) ==
  /\ Sftp(c, "delete", "rmdir") /\ Live
  /\ \/ \E x \in At(call[c].src) :
          /\ x.data = Folder /\ Below(x) = {x}
          /\ items' = items \ {x} /\ next' = next /\ Settle(c) /\ Do
     \/ (\A x \in At(call[c].src) : x.data # Folder \/ Below(x) # {x}) /\ Refuse(c)
\* rename refuses a target that exists and a folder that does not
SftpMove(c) ==
  /\ Sftp(c, "move", "use") /\ Live
  /\ IF At(call[c].src) = {} \/ At(call[c].dst) # {} \/ Homes(call[c].dst) = {} THEN Refuse(c)
     ELSE /\ \E x \in At(call[c].src), h \in Homes(call[c].dst) : Moved(x, call[c].dst, h)
          /\ next' = next /\ Settle(c) /\ Do

PathStep(c) ==
  \/ LocalParents(c) \/ LocalOpen(c) \/ LocalWriteText(c) \/ LocalPut(c) \/ LocalAppendText(c) \/ LocalMkdir(c)
  \/ LocalRead(c) \/ LocalList(c) \/ LocalFind(c) \/ LocalStat(c) \/ LocalExists(c)
  \/ LocalDeleteCheck(c) \/ LocalDelete(c) \/ LocalMoveCheck(c) \/ LocalRename(c)
  \/ DropboxUpload(c) \/ DropboxRead(c) \/ DropboxList(c) \/ DropboxStat(c) \/ DropboxExists(c)
  \/ DropboxDelete(c) \/ DropboxMove(c)
  \/ S3Write(c) \/ S3Read(c) \/ S3List(c) \/ S3Stat(c) \/ S3Exists(c) \/ S3Delete(c) \/ S3Copy(c) \/ S3Drop(c)
  \/ SftpConnect(c) \/ SftpNoSession(c) \/ SftpOpen(c) \/ SftpWrite(c) \/ SftpRead(c)
  \/ SftpList(c) \/ SftpStat(c) \/ SftpExists(c) \/ SftpDelete(c) \/ SftpRmdir(c) \/ SftpMove(c)
==============================================================================
