----------------------------- MODULE CloudStorage -----------------------------
(***************************************************************************)
(* The tools and the stores together, and what a call may promise.         *)
(***************************************************************************)
EXTENDS DriveStore, PathStores

Fresh == [op |-> "none", src |-> <<>>, dst |-> <<>>, pc |-> "idle", res |-> "none",
          at |-> Root, i |-> 0, file |-> Root, got |-> Idle, names |-> {}, known |-> FALSE]

\* the items of a layout: numbered, each below the folder that holds it
Laid(k, l) ==
  LET num == CHOOSE f \in [DOMAIN l -> 1..Cardinality(DOMAIN l)] :
               \A p, q \in DOMAIN l : f[p] = f[q] => p = q
      held == {p \in DOMAIN l : k # "s3" \/ l[p] # Folder}
  IN  {[id |-> num[p],
        name |-> IF k = "s3" THEN p ELSE Last(p),
        parent |-> IF Len(p) = 1 \/ k = "s3" THEN Root ELSE num[Front(p)],
        data |-> l[p]] : p \in held}

Init ==
  /\ kind \in Kinds
  /\ \E l \in Layouts : items = Laid(kind, l) /\ next = Cardinality(DOMAIN l) + 1
  /\ session = "none"
  /\ call = [c \in Client |-> Fresh]
  /\ host = [c \in Client |-> Idle]
  /\ quiet = [c \in Client |-> FALSE]
  /\ before = [c \in Client |-> [p \in Paths |-> {}]]

Step(c) == ToolStep(c) \/ DriveStep(c) \/ PathStep(c)
Next == (\E c \in Client : Step(c)) \/ SftpDropped \/ SftpClose
Spec == Init /\ [][Next]_vars

------------------------------------------------------------------------------
(* Properties *)

\* A file that was truncated and not written is the trace of a write to a local
\* or an SFTP file, by a call that is still at it or has reported an error.  No
\* cloud store shows one: the buffer is uploaded whole when the caller is done
\* with it.  The one exception is cloud_upload to local://, which awaits nothing.
Writes(c, x) == call[c].op \in {"upload", "put", "append"} /\ call[c].file = x.id
Reported(c) == call[c].pc = "flush" \/ call[c].res = "error"
WholeFiles ==
  \A x \in items : x.data = Empty =>
    /\ kind \in {"local", "sftp"}
    /\ \E c \in Client : Writes(c, x) /\ (Reported(c) \/ call[c].op = "put")

\* What the tools say, "Uploaded {local_path} to {cloud_uri}" among them, of every
\* store they can be given: a file written by one call, which succeeded, holds what
\* that call sent.  Refuted by cloud_upload to local://, where the handle is
\* aiofiles' and the write is not awaited.
UploadsArrive ==
  \A c \in Client, x \in items :
    /\ Writes(c, x) /\ call[c].pc = "done" /\ call[c].res = "ok"
    /\ \A d \in Client \ {c} : ~Writes(d, x)
    => x.data = c

\* In every store but Drive a path names one file whatever the interleaving.
\* In Drive it does as long as no two calls overlapped, nothing was moved onto
\* a path that was taken and no file had the name of a folder to be made: the
\* lookup before the upload is what keeps it.
Unique == \A x, y \in items : x.parent = y.parent /\ x.name = y.name => x = y
Disturbed(c) ==
  /\ call[c].op # "none"
  /\ \/ ~quiet[c]
     \/ call[c].op = "move" /\ before[c][call[c].dst] # {}
     \/ /\ call[c].op \in {"upload", "move"} /\ Len(call[c].dst) > 1
        /\ ~before[c][Front(call[c].dst)] \subseteq {Folder}
OneFilePerPath == Unique \/ (kind = "gdrive" /\ \E c \in Client : Disturbed(c))

\* what a call that no other overlapped may have done to the store
Untouched(c, S) == \A p \in Paths \ S : Seen(p) = before[c][p]
Kept(c, p) == before[c][p] \subseteq Seen(p)
Single == \A p \in Paths : Cardinality(At(p)) <= 1

UploadDone(c) ==
  LET d == call[c].dst IN
  /\ Untouched(c, {d, Front(d)})
  /\ Len(d) = 1 \/ Kept(c, Front(d))
  /\ call[c].res = "ok" => Seen(d) = {IF call[c].op = "put" THEN Empty ELSE c}
  /\ call[c].res = "error" => \/ Seen(d) \in {before[c][d], {c}}
                              \/ Seen(d) = {Empty} /\ kind \in {"local", "sftp"}
DeleteDone(c) ==
  LET s == call[c].src IN
  /\ call[c].res = "ok" => Seen(s) = {}
  /\ \/ Untouched(c, {s})
     \/ kind \in {"gdrive", "dropbox"} /\ Folder \in before[c][s]
MoveDone(c) ==
  LET s == call[c].src  d == call[c].dst IN
  /\ call[c].res = "ok" => Seen(s) = {} /\ before[c][s] \subseteq Seen(d)
  /\ before[c][s] \subseteq Seen(s) \cup Seen(d)
  /\ Seen(s) \subseteq before[c][s]
ReadDone(c) ==
  /\ Untouched(c, {})
  /\ call[c].got # Idle => call[c].got \in before[c][call[c].src]
  /\ call[c].op \in {"exists", "stat"} /\ call[c].res = "ok" /\ kind # "s3" =>
       (call[c].names = {} <=> before[c][call[c].src] = {})
  /\ call[c].op = "download" /\ call[c].res = "ok" => host[c] = call[c].got

Outcome(c) ==
  CASE call[c].op \in {"upload", "put"}      -> UploadDone(c)
    [] call[c].op = "delete"                -> DeleteDone(c)
    [] call[c].op = "move"                  -> MoveDone(c)
    [] call[c].op \in {"read", "download", "list", "find", "exists", "stat"} -> ReadDone(c)
    [] OTHER                                -> TRUE

\* A call that no other overlapped tells the truth: success means the file is
\* where it was sent (cloud_upload to local:// excepted), gone, or moved; an
\* error never loses a file that was to be moved nor leaves half a file in a
\* cloud; nothing else changes, save that Drive and Dropbox delete a folder
\* with what it holds.
OutcomeIsTrue ==
  [][\A c \in Client :
       call[c].pc \notin {"idle", "done"} /\ call'[c].pc = "done" /\ quiet[c] /\ Single
         => Outcome(c)']_vars
==============================================================================
