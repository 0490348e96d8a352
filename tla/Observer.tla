------------------------------- MODULE Observer -------------------------------
(***************************************************************************)
(* proactive/observers.py and the callback that main.py gives it: changes  *)
(* below the watched directories are broadcast as file.changed.  watchdog  *)
(* reports each change as it happens; without it a thread compares         *)
(* snapshots.  Either hands its events to the event loop of the API, whose *)
(* queue keeps their order.                                                *)
(***************************************************************************)
EXTENDS Hub

CONSTANTS
  File,       \* files that may come and go
  Dir,        \* directories that may be watched
  DirOf,      \* the directory of each file
  MaxGlitches \* bound: files that a snapshot cannot stat

VARIABLES
  watchdog,  \* HAS_WATCHDOG
  disk,      \* per file its version: 0 when it is not there
  changes, glitches,
  watched,   \* FilesystemObserver._watched_paths
  covered,   \* the directories its backend was given
  thread,    \* the backend: "off", "starting" or "up"
  starts,
  snap,      \* _PollingObserver._snapshots
  queue,     \* events handed to the loop: [kind, file, dest]
  told,      \* per file, whether the last event broadcast leaves it there
  events     \* broadcasts made of them

fileVars == <<watchdog, disk, changes, glitches, watched, covered, thread, starts, snap,
              queue, told, events>>

ObserverInit ==
  /\ watchdog \in scope.watchdog
  /\ disk = [f \in File |-> 0] /\ changes = 0 /\ glitches = 0
  /\ watched = {} /\ covered = {} /\ thread = "off" /\ starts = 0
  /\ snap = disk /\ queue = <<>> /\ told = [f \in File |-> FALSE] /\ events = 0

There(v) == [f \in File |-> v[f] # 0]
Ev(kind, f, dest) == [kind |-> kind, file |-> f, dest |-> dest]
Seen(f) == watchdog /\ thread = "up" /\ DirOf[f] \in covered

\* what watchdog hands over for a change
Notice(f, kind, dest) ==
  queue' = IF Seen(f) THEN Append(queue, Ev(kind, f, dest)) ELSE queue

Watch(d) ==
  /\ watched' = watched \cup {d}
  /\ UNCHANGED <<watchdog, disk, changes, glitches, covered, thread, starts, snap, queue,
                 told, events>>

\* the paths registered by now are the ones it will watch, until it is
\* stopped and started again.  watchdog raises for a directory it cannot
\* watch: start_observer logs that, and nothing is watched.
StartObserver ==
  /\ thread = "off" /\ watched # {} /\ starts < scope.starts
  /\ starts' = starts + 1
  /\ \/ /\ covered' = watched
        /\ thread' = IF watchdog THEN "up" ELSE "starting"
        /\ told' = There(disk)
     \/ watchdog /\ UNCHANGED <<covered, thread, told>>
  /\ UNCHANGED <<watchdog, disk, changes, glitches, watched, snap, queue, events>>

------------------------------------------------------------------------------
(* _PollingObserver.run *)

\* _snapshot leaves out what it cannot stat
Scan(unread) ==
  [f \in File |-> IF DirOf[f] \in covered /\ f \notin unread THEN disk[f] ELSE 0]

FirstSnapshot ==
  /\ thread = "starting"
  /\ thread' = "up"
  /\ snap' = Scan({})
  /\ told' = There(disk)
  /\ UNCHANGED <<watchdog, disk, changes, glitches, watched, covered, starts, queue, events>>

\* the events of a set of files, in any order
Orders(S) == {q \in [1..Cardinality(S) -> S] : \A i, j \in DOMAIN q : q[i] = q[j] => i = j}
Each(S, kind) ==
  {[i \in DOMAIN q |-> Ev(kind, q[i], q[i])] : q \in Orders(S)}

\* mutant: files that went away are not looked for
CompareNewOnly(new) ==
  \E a \in Each({f \in File : snap[f] = 0 /\ new[f] # 0}, "created"),
     c \in Each({f \in File : snap[f] # new[f] /\ snap[f] # 0 /\ new[f] # 0}, "modified") :
    queue' = queue \o a \o c

\* what two snapshots differ in
Compare(new) ==
  LET came == {f \in File : snap[f] = 0 /\ new[f] # 0}
      went == {f \in File : snap[f] # 0 /\ new[f] = 0}
      grew == {f \in File : snap[f] # 0 /\ new[f] # 0 /\ snap[f] # new[f]}
  IN  \E a \in Each(came, "created"), b \in Each(went, "deleted"), c \in Each(grew, "modified") :
        queue' = queue \o a \o b \o c

Poll ==
  /\ thread = "up" /\ ~watchdog
  /\ \E unread \in SUBSET File :
       /\ glitches + Cardinality(unread) <= MaxGlitches
       /\ glitches' = glitches + Cardinality(unread)
       /\ snap' = Scan(unread)
       /\ Compare(Scan(unread))
  /\ UNCHANGED <<watchdog, disk, changes, watched, covered, thread, starts, told, events>>

\* watchdog's thread is joined; a poll that is under way still ends
StopObserver ==
  /\ thread # "off"
  /\ thread' = "off"
  /\ \/ UNCHANGED <<snap, queue>>
     \/ thread = "up" /\ ~watchdog /\ snap' = Scan({}) /\ Compare(Scan({}))
  /\ UNCHANGED <<watchdog, disk, changes, glitches, watched, covered, starts, told, events>>

------------------------------------------------------------------------------
(* The event loop: one callback, however many directories it was given for *)

After(e) ==
  [f \in File |-> CASE e.kind = "moved" /\ f = e.dest -> TRUE
                    [] f = e.file -> e.kind \in {"created", "modified"}
                    [] OTHER -> told[f]]

OnFileChange ==
  /\ queue # <<>> /\ events + 1 \in Event
  /\ queue' = Tail(queue)
  /\ told' = After(Head(queue))
  /\ events' = events + 1
  /\ Broadcast(events + 1, "api")
  /\ UNCHANGED <<watchdog, disk, changes, glitches, watched, covered, thread, starts, snap>>
  /\ UNCHANGED <<token, sock, hub, got>>

------------------------------------------------------------------------------
(* What happens to the files *)

Change(f, v) ==
  /\ changes < scope.changes
  /\ changes' = changes + 1
  /\ disk' = [disk EXCEPT ![f] = v]
  /\ UNCHANGED <<watchdog, glitches, watched, covered, thread, starts, snap, told, events>>

FileWritten(f) ==
  /\ Change(f, disk[f] + 1)
  /\ Notice(f, IF disk[f] = 0 THEN "created" ELSE "modified", f)

FileDeleted(f) ==
  /\ disk[f] # 0 /\ Change(f, 0)
  /\ Notice(f, "deleted", f)

\* a rename within a directory
FileMoved(f, g) ==
  /\ f # g /\ DirOf[f] = DirOf[g] /\ disk[f] # 0
  /\ changes < scope.changes /\ changes' = changes + 1
  /\ disk' = [disk EXCEPT ![f] = 0, ![g] = disk[f]]
  /\ Notice(f, "moved", g)
  /\ UNCHANGED <<watchdog, glitches, watched, covered, thread, starts, snap, told, events>>

\* all but the loop's step, which is the only one that touches the hub
ObserverStep ==
  \/ \E d \in scope.dirs : Watch(d)
  \/ StartObserver \/ FirstSnapshot \/ Poll \/ StopObserver
  \/ \E f \in scope.files : FileWritten(f) \/ FileDeleted(f)
  \/ \E f, g \in scope.files : FileMoved(f, g)
==============================================================================
