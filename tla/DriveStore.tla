------------------------------ MODULE DriveStore ------------------------------
(***************************************************************************)
(* GoogleDriveFileSystem (storage/gdrive.py).  Drive addresses files by    *)
(* id, so every call first walks its path, one query per component, and    *)
(* then works on the id it found.  Between two requests other calls run:   *)
(* the id may be gone by then, and what was missing may exist.             *)
(***************************************************************************)
EXTENDS Storage

Drive(c, pc) == kind = "gdrive" /\ call[c].pc = pc

\* the path the call walks first: a move walks its source, a write its target
Walked(c) == IF call[c].op = "upload" THEN call[c].dst ELSE call[c].src

\* what follows once the whole path was found
Found(op) ==
  CASE op = "upload" -> "patch"
    [] op = "move"   -> "ensure"
    [] op = "exists" -> "say"
    [] OTHER         -> "use"

\* mutant: write uploads without asking whether the file exists
DriveGoBlind(c) ==
  /\ Drive(c, "go") /\ call[c].op # "backup"
  /\ Go(c, IF call[c].op = "upload" THEN "ensure" ELSE "walk") /\ Keep

\* _get_headers and the choice of what to do with the path
DriveGo(c) ==
  /\ Drive(c, "go") /\ call[c].op # "backup"
  /\ Go(c, "walk") /\ Keep

\* _resolve_path_to_id: one component; among items of one name any may come
\* first.  A missing one raises, which write and exists catch
DriveWalk(c) ==
  /\ Drive(c, "walk")
  /\ LET n == Walked(c)[call[c].i + 1]
         there == Children(call[c].at, n)
         done == call[c].i + 1 = Len(Walked(c))
     IN  \/ \E x \in there :
              call' = [call EXCEPT ![c].at = IF done /\ call[c].op = "move" THEN Root ELSE x.id,
                                   ![c].i = IF done THEN 0 ELSE @ + 1,
                                   ![c].file = IF done THEN x.id ELSE Root,
                                   ![c].pc = IF done THEN Found(call[c].op) ELSE "walk"]
         \/ /\ there = {}
            /\ call' = [call EXCEPT ![c].at = Root, ![c].i = 0,
                          ![c].pc = CASE call[c].op = "upload" -> "ensure"
                                      [] call[c].op = "exists" -> "say"
                                      [] OTHER -> "done",
                          ![c].res = IF call[c].op \in {"upload", "exists"}
                                     THEN "none" ELSE "error"]
  /\ Keep

\* what a request about an id meets
Held(c) == {x \in items : x.id = call[c].file}

\* _ensure_parent_folders: look for the folder, or go and make it
DriveEnsure(c) ==
  /\ Drive(c, "ensure")
  /\ LET done == call[c].i + 1 = Len(call[c].dst)
         folders == {x \in Children(call[c].at, call[c].dst[call[c].i + 1]) : x.data = Folder}
     IN  \/ done /\ Go(c, IF call[c].op = "move" THEN "meta" ELSE "post")
         \/ /\ ~done
            /\ \E x \in folders :
                 call' = [call EXCEPT ![c].at = x.id, ![c].i = @ + 1]
         \/ ~done /\ folders = {} /\ Go(c, "mkdir")
  /\ Keep

DriveMkdir(c) ==
  /\ Drive(c, "mkdir")
  /\ items' = items \cup {[id |-> next, name |-> call[c].dst[call[c].i + 1],
                           parent |-> call[c].at, data |-> Folder]}
  /\ next' = next + 1
  /\ \/ call' = [call EXCEPT ![c].at = next, ![c].i = @ + 1, ![c].pc = "ensure"]
     \/ End(c, "error")
  /\ Do

\* a new file may only go into a folder that is still there
Alive(id) == id = Root \/ \E x \in items : x.id = id

\* write, of a new file: POST with the parent that was found or made
DrivePost(c) ==
  /\ Drive(c, "post")
  /\ IF Alive(call[c].at)
     THEN /\ items' = items \cup {[id |-> next, name |-> Last(call[c].dst),
                                   parent |-> call[c].at, data |-> c]}
          /\ next' = next + 1
          /\ Settle(c)
     ELSE End(c, "error") /\ Still
  /\ Do

\* write, of a file that was found: PATCH of its id
DrivePatch(c) ==
  /\ Drive(c, "patch")
  /\ IF \E x \in Held(c) : x.data # Folder
     THEN /\ items' = Rewritten(call[c].file, c)
          /\ Settle(c)
     ELSE End(c, "error") /\ UNCHANGED items
  /\ UNCHANGED next /\ Do

\* read, list and stat of the id that was found; _list_folder gathers the pages
DriveRead(c) ==
  /\ Drive(c, "use") /\ call[c].op \in {"read", "download"}
  /\ \/ \E x \in Held(c) : x.data # Folder /\ Got(c, x.data)
     \/ (\A x \in Held(c) : x.data = Folder) /\ End(c, "error")
  /\ Keep

\* _list_folder gathers all pages
Listed(id) == {x.name : x \in {y \in items : y.parent = id}}
DriveList(c) ==
  /\ Drive(c, "use") /\ call[c].op = "list"
  /\ Answer(c, Listed(call[c].file))
  /\ Keep

DriveStat(c) ==
  /\ Drive(c, "use") /\ call[c].op = "stat"
  /\ IF Held(c) # {} THEN Answer(c, {"yes"}) ELSE End(c, "error")
  /\ Keep

DriveExists(c) ==
  /\ Drive(c, "say")
  /\ Answer(c, IF call[c].file = Root THEN {} ELSE {"yes"})
  /\ Keep

\* delete: the id that was found, with all that is below it
DriveDelete(c) ==
  /\ Drive(c, "use") /\ call[c].op = "delete"
  /\ IF Held(c) # {}
     THEN items' = items \ UNION {Below(x) : x \in Held(c)} /\ Settle(c)
     ELSE End(c, "error") /\ UNCHANGED items
  /\ UNCHANGED next /\ Do

\* move: read the present parents, then one PATCH of parent and name
DriveParents(c) ==
  /\ Drive(c, "meta")
  /\ IF Held(c) # {} THEN Go(c, "place") ELSE End(c, "error")
  /\ Keep

\* items with one of them given another name and folder
Placed(id, n, h) ==
  {IF x.id = id THEN [x EXCEPT !.name = n, !.parent = h] ELSE x : x \in items}

DriveMove(c) ==
  /\ Drive(c, "place")
  /\ IF Held(c) # {} /\ Alive(call[c].at)
     THEN items' = Placed(call[c].file, Last(call[c].dst), call[c].at) /\ Settle(c)
     ELSE End(c, "error") /\ UNCHANGED items
  /\ UNCHANGED next /\ Do

DriveStep(c) ==
  \/ DriveGo(c) \/ DriveWalk(c) \/ DriveEnsure(c) \/ DriveMkdir(c)
  \/ DrivePost(c) \/ DrivePatch(c) \/ DriveRead(c) \/ DriveList(c)
  \/ DriveStat(c) \/ DriveExists(c) \/ DriveDelete(c) \/ DriveParents(c) \/ DriveMove(c)
==============================================================================
