------------------------------ MODULE Watcher ------------------------------
(***************************************************************************)
(* The watcher of the local folders (supysonic/watcher.py): the disk       *)
(* changes, watchdog tells the handler, the handler puts an event into the *)
(* processing queue, which merges it with what is queued for the same      *)
(* file, and after a delay without events a thread takes the entries to    *)
(* the scanner (supysonic/scanner.py), one by one.                         *)
(*                                                                         *)
(* A file is a path, and the library a set of paths.  Covers, and files    *)
(* whose tags cannot be read, are left out.                                *)
(***************************************************************************)
EXTENDS Integers, FiniteSets, Sequences

CONSTANTS
    Path,
    NoPath,
    MaxOps      \* bound: changes of the disk

VARIABLES
    disk,        \* paths with a file
    told,        \* changes that watchdog has still to tell, in order
    queue,       \* __queue: entries by the time of their last event
    ripe,        \* how many of them, from the first, have waited the delay
    timer,       \* __timer: "none", "ticking", or "fired" and waiting for the lock
    loose,       \* a timer __timer does not know any more: "no", "early", or the
                 \* one of the last put, "last"
    thread,      \* where the processing thread is
    item,        \* the entry it has taken, or NoItem
    running,     \* __running
    lib,         \* paths with a row
    ops,
    missed,      \* history: the thread was notified while it was between two passes
    astray       \* history: paths whose last events were merged, or came, out of
                 \* order, or never came

world == <<disk, told, ops>>
timers == <<timer, loose>>
vars == <<world, queue, ripe, timers, thread, item, running, lib, missed, astray>>

Flag == {"scan", "remove", "move", "create"}
Entry == [path : Path, op : SUBSET Flag, src : Path \cup {NoPath}]
NoItem == [path |-> NoPath, op |-> {}, src |-> NoPath]

TypeOK ==
    /\ disk \subseteq Path /\ lib \subseteq Path /\ astray \subseteq Path
    /\ told \in Seq(Entry) /\ queue \in Seq(Entry)
    /\ \A i, j \in DOMAIN queue : queue[i].path = queue[j].path => i = j
    /\ \A i \in DOMAIN queue : ~ {"scan", "remove"} \subseteq queue[i].op
    /\ ripe \in 0..Len(queue)
    /\ timer \in {"none", "ticking", "fired"} /\ loose \in {"no", "early", "last"}
    /\ thread \in {"sleep", "wait", "woken", "pass", "close", "ended"}
    /\ item \in Entry \cup {NoItem} /\ (item # NoItem => thread = "pass")
    /\ running \in BOOLEAN /\ missed \in BOOLEAN
    /\ ops \in 0..MaxOps

\* A scanned library, and a watcher that has just been started.
Init ==
    /\ disk \in SUBSET Path /\ lib = disk
    /\ told = <<>> /\ queue = <<>> /\ ripe = 0
    /\ timer = "none" /\ loose = "no"
    /\ thread = "sleep" /\ item = NoItem /\ running = TRUE
    /\ ops = 0 /\ missed = FALSE /\ astray = {}

-----------------------------------------------------------------------------
\* The disk, and what watchdog makes of it.  A file that comes from outside the
\* folders is created, also over another; one that leaves them is deleted.
Changes(p, op, src) ==
    /\ running /\ ops < MaxOps
    /\ ops' = ops + 1
    /\ told' = Append(told, [path |-> p, op |-> op, src |-> src])
    /\ UNCHANGED <<queue, ripe, timers, thread, item, running, lib, missed, astray>>

Created(p) == disk' = disk \cup {p} /\ Changes(p, {"scan", "create"}, NoPath)
Modified(p) == p \in disk /\ UNCHANGED disk /\ Changes(p, {"scan"}, NoPath)
Deleted(p) == p \in disk /\ disk' = disk \ {p} /\ Changes(p, {"remove"}, NoPath)
Moved(s, p) ==
    /\ s \in disk /\ s # p
    /\ disk' = (disk \ {s}) \cup {p}
    /\ Changes(p, {"move"}, s)

-----------------------------------------------------------------------------
\* The processing queue.

\* The entries by path, as in the dict: where one is, the queue without it, and
\* how many of the first `r` are left then.
Has(q, p) == \E i \in DOMAIN q : q[i].path = p
Place(q, p) == CHOOSE i \in DOMAIN q : q[i].path = p
RemoveAt(q, i) == SubSeq(q, 1, i - 1) \o SubSeq(q, i + 1, Len(q))
Without(q, p) == IF Has(q, p) THEN RemoveAt(q, Place(q, p)) ELSE q
RipeWithout(q, r, p) == IF Has(q, p) /\ Place(q, p) <= r THEN r - 1 ELSE r

Queued(p) == Has(queue, p)
At(p) == queue[Place(queue, p)]

\* Slip: a file that is there again keeps its removal.
UndoesNoRemoval(op) ==
    {f \in Flag : \/ f = "scan" /\ "remove" \in op
                  \/ f = "move" /\ "create" \in op}

\* What an event takes out of an older one for its file (Event.set).
Undoes(op) ==
    {f \in Flag : \/ f = "remove" /\ "scan" \in op
                  \/ f = "scan" /\ "remove" \in op
                  \/ f = "move" /\ "create" \in op}

Merged(e, op, src) ==
    [e EXCEPT !.op = (@ \ Undoes(op)) \cup op, !.src = IF src = NoPath THEN @ ELSE src]

\* The event of n's path with n set, then with what is queued for the path that
\* n moves from.
Own(n) == IF Queued(n.path) THEN Merged(At(n.path), n.op, n.src) ELSE n
Whole(n) == IF Queued(n.src) THEN Merged(Own(n), At(n.src).op, At(n.src).src) ELSE Own(n)

\* The entry takes its file away from the path.
Leaves(e, p) == "move" \in e.op /\ e.src = p /\ e.path # p

\* Merging forgets the order of events: a move onto a path with events of its own;
\* a file created over the one that a move is to bring; a move put behind events at
\* the path it left; one that does not take along the file the library has; and
\* what comes from a path where that happened.
Spoilt(n) ==
    LET old == IF Queued(n.path) THEN {At(n.path)} ELSE {}
        left == IF Queued(n.src) THEN {At(n.src)} ELSE {}
    IN (UNION ({IF "move" \in n.op THEN {n.path, n.src, e.src} ELSE {} : e \in old}
          \cup {IF "create" \in n.op THEN {e.src} ELSE {} : e \in old}
          \cup {IF "move" \in e.op /\ Queued(e.src) THEN {e.src} ELSE {} : e \in old \cup left}
          \cup {IF Leaves(Whole(n), e.path) THEN {} ELSE {e.path} \cap (lib \cup {item.path})
                  : e \in left}
          \cup {IF n.src \in astray THEN {n.path} ELSE {}})) \ {NoPath}

\* put, called by the handler: the entry goes last, and the timer starts again.
\* An event that scans or removes a path says all there is to say of it.
Put ==
    /\ told # <<>>
    /\ LET n == Head(told)
           rest == Without(queue, n.path)
       IN /\ queue' = Append(Without(rest, n.src), Whole(n))
          /\ ripe' = RipeWithout(rest, RipeWithout(queue, ripe, n.path), n.src)
          /\ astray' = (IF "move" \in n.op THEN astray ELSE astray \ {n.path}) \cup Spoilt(n)
    /\ told' = Tail(told)
    /\ timer' = "ticking"
    /\ loose' = IF timer = "fired" \/ loose # "no" THEN "early" ELSE "no"
    /\ UNCHANGED <<disk, ops, thread, item, running, lib, missed>>

\* An entry has waited the delay; the last put's timer fires when all have.
Ripens ==
    /\ ripe < Len(queue)
    /\ ripe' = ripe + 1
    /\ UNCHANGED <<world, queue, timers, thread, item, running, lib, missed, astray>>

Fire ==
    /\ timer = "ticking" /\ ripe = Len(queue)
    /\ timer' = "fired"
    /\ UNCHANGED <<world, queue, ripe, loose, thread, item, running, lib, missed, astray>>

\* notify() reaches a thread that waits, and is nothing to one that does not.
\* `deaf`: the places from where the thread goes on to wait, or ends.
Notify(deaf) ==
    /\ thread' = IF thread = "wait" THEN "woken" ELSE thread
    /\ missed' = (missed \/ (thread \in deaf /\ queue # <<>>))

\* __wakeup, of the timer put knows or of one it does not.
Wakeup ==
    /\ timer = "fired"
    /\ timer' = "none"
    /\ Notify({"close", "sleep"})
    /\ UNCHANGED <<world, queue, ripe, loose, item, running, lib, astray>>

WakeupLoose ==
    /\ loose = "early" \/ (loose = "last" /\ ripe = Len(queue))
    /\ timer' = "none"
    /\ loose' = IF timer = "none" THEN "no" ELSE "last"
    /\ Notify({"close", "sleep"})
    /\ UNCHANGED <<world, queue, ripe, item, running, lib, astray>>

\* stop(), with watchdog stopped before it: what it has not told by then is never
\* told.  The sleep is looked at again after ("See issue #263").
Stop ==
    /\ running /\ running' = FALSE
    /\ told' = <<>>
    /\ astray' = astray \cup {p \in Path : \E k \in DOMAIN told : p = told[k].path \/ p = told[k].src}
    /\ Notify({"close"})
    /\ UNCHANGED <<disk, ops, queue, ripe, timers, item, lib>>

-----------------------------------------------------------------------------
\* The processing thread.

Goes(from, to) ==
    /\ thread = from /\ thread' = to
    /\ missed' = (missed /\ to # "pass")
    /\ UNCHANGED <<world, queue, ripe, timers, item, running, lib, astray>>

Loop == Goes("close", IF running THEN "sleep" ELSE "ended")
Slept == Goes("sleep", IF running THEN "wait" ELSE IF queue = <<>> THEN "ended" ELSE "pass")
Woken == Goes("woken", IF queue = <<>> THEN "close" ELSE "pass")

\* __next_item: the oldest entry, when it is ripe or the queue is stopped.
Ready == queue # <<>> /\ (ripe > 0 \/ ~running)

Take ==
    /\ thread = "pass" /\ item = NoItem /\ Ready
    /\ item' = Head(queue)
    /\ queue' = Tail(queue)
    /\ ripe' = IF ripe > 0 THEN ripe - 1 ELSE 0
    /\ UNCHANGED <<world, timers, thread, running, lib, missed, astray>>

\* No entry: prune, and the connection is closed.
PassEnds == item = NoItem /\ ~Ready /\ Goes("pass", "close")

\* __process_regular_item: move_file, scan_file, remove_file.  A row that is
\* not there is not moved; a file that is not there is not scanned.
Process ==
    /\ item # NoItem
    /\ LET p == item.path
           known == "move" \in item.op /\ item.src \in lib
           moved == IF known THEN (lib \ {item.src}) \cup {p} ELSE lib
           scanned == IF "scan" \in item.op /\ p \in disk THEN moved \cup {p} ELSE moved
       IN /\ lib' = IF "remove" \in item.op THEN scanned \ {p} ELSE scanned
          /\ astray' = IF item.op \cap {"scan", "remove"} = {} /\ ~known
                       THEN astray \cup {p} ELSE astray
    /\ item' = NoItem
    /\ UNCHANGED <<world, queue, ripe, timers, thread, running, missed>>

Next ==
    \/ \E p \in Path : Created(p) \/ Modified(p) \/ Deleted(p) \/ \E s \in Path : Moved(s, p)
    \/ Put \/ Ripens \/ Fire \/ Wakeup \/ WakeupLoose \/ Stop
    \/ Loop \/ Slept \/ Woken \/ Take \/ PassEnds \/ Process

Spec == Init /\ [][Next]_vars

-----------------------------------------------------------------------------
\* Nothing moves any more but the disk.
Quiet ==
    /\ told = <<>>
    /\ \/ thread = "wait" /\ timer = "none" /\ loose = "no"
       \/ thread = "ended"

\* Whenever the watcher has come to rest, or was stopped, nothing is left in the
\* queue and the library has a row for exactly the files on the disk, however
\* the events were merged, delayed and overtaken by later changes; except for
\* a notification that found the thread between two passes, and for the paths
\* whose moves were merged out of order or came too late for the library, or of
\* which watchdog had something left to tell when it was stopped.
LibraryFollows ==
    Quiet => missed \/ (queue = <<>> /\ \A p \in Path \ astray : p \in lib <=> p \in disk)
=============================================================================
