----------------------------- MODULE FileCache -----------------------------
(***************************************************************************)
(* The size-bounded cache of files on disk (supysonic/cache.py) that keeps *)
(* transcodes, covers and party chunks.  Server threads put, get and       *)
(* delete under its lock, but ask has() without it, and has() forgets an   *)
(* entry whose file is gone.  The button that empties the cache            *)
(* (_empty in supysonic/webui/storage.py) writes entries without it too.   *)
(* Every change of _size loads it and stores it later, with or without the *)
(* lock, and the two are steps of their own.                               *)
(*                                                                         *)
(* Entries are in the order of their last use.  Writing the temporary file *)
(* of a put changes nothing the others see, and is left out.               *)
(***************************************************************************)
EXTENDS Sequences, FiniteSets, Functions

CONSTANTS
    Key, Thread,
    MaxSize,     \* max_size
    MaxPiece     \* bound: size of one file

VARIABLES
    files,       \* _files: entries, oldest first
    size,        \* _size
    disk,        \* the folder: per key, the size of its file, or 0
    holder,      \* who holds the lock, or Nobody
    thread,      \* per thread: what it is in the middle of
    raced        \* history: two changes of _size overlapped, one of them without
                 \* the lock; or an entry was forgotten or written without it,
                 \* after another thread had changed its file or the entry

vars == <<files, size, disk, holder, thread, raced>>

Nobody == "nobody"
Piece == 1..MaxPiece
\* `fresh`: min_time has not passed since the entry was used.
Entry == [key : Key, size : Piece, fresh : BOOLEAN]
Idle == [at |-> "idle"]
\* Under the lock: make space down to `target`, replace the file, record it.
Put(k, n, target) == [at |-> "put", key |-> k, new |-> n, target |-> target]
Record(k, n) == [at |-> "record", key |-> k, new |-> n]
Adding(k, n, loaded) == [at |-> "adding", key |-> k, new |-> n, size |-> loaded]
\* self._size -= self._files.pop(key).size, and what comes after it: before its
\* load, before its pop, and before its store, of `left`.
Forget(k, op) == [at |-> "forget", key |-> k, then |-> op]
Taking(k, op, loaded) == [at |-> "taking", key |-> k, then |-> op, size |-> loaded]
Taken(op, left) == [at |-> "taken", then |-> op, size |-> left]
Copied(k, n) == [at |-> "copied", key |-> k, size |-> n]
Expired(k) == [at |-> "expired", key |-> k]
Puts == [at : {"put"}, key : Key, new : Piece, target : Int]
Then == {Idle} \cup Puts
Doing == Then \cup [at : {"record"}, key : Key, new : Piece]
              \cup [at : {"adding"}, key : Key, new : Piece, size : Int]
              \cup [at : {"forget"}, key : Key, then : Then]
              \cup [at : {"taking"}, key : Key, then : Then, size : Int]
              \cup [at : {"taken"}, then : Then, size : Int]
              \cup [at : {"copied"}, key : Key, size : Piece]
              \cup [at : {"expired"}, key : Key]

Known(k) == \E i \in DOMAIN files : files[i].key = k
PlaceOf(k) == CHOOSE i \in DOMAIN files : files[i].key = k
EntryOf(k) == files[PlaceOf(k)]
SizeOf(k) == IF Known(k) THEN EntryOf(k).size ELSE 0
\* An assignment to the ordered dictionary keeps the place of its key.
Filed(e) == IF Known(e.key) THEN [files EXCEPT ![PlaceOf(e.key)] = e] ELSE Append(files, e)
RemoveAt(s, i) == SubSeq(s, 1, i - 1) \o SubSeq(s, i + 1, Len(s))
Without(k) == IF Known(k) THEN RemoveAt(files, PlaceOf(k)) ELSE files
OnDisk == {k \in Key : disk[k] > 0}
Total(s) == LET sums[n \in 0..Len(s)] == IF n = 0 THEN 0 ELSE sums[n - 1] + s[n].size
            IN sums[Len(s)]
At(t, places) == thread[t].at \in places
Does(t, op) == thread' = [thread EXCEPT ![t] = op]
\* Goes on with `op`; whoever is done lets go of the lock, if it is his.
Resumes(t, op) == /\ Does(t, op)
                  /\ holder' = IF op = Idle /\ holder = t THEN Nobody ELSE holder
\* Between the load of _size and its store; and between the new file and its entry.
Updating(t) == At(t, {"taking", "taken", "adding"})
Recording(t, k) == At(t, {"record", "adding"}) /\ thread[t].key = k

TypeOK ==
    /\ files \in Seq(Entry) /\ IsInjective([i \in DOMAIN files |-> files[i].key])
    /\ size \in Int
    /\ disk \in [Key -> 0..MaxPiece]
    /\ holder \in Thread \cup {Nobody}
    /\ thread \in [Thread -> Doing]
    /\ \A t \in Thread : At(t, {"put", "record", "adding"}) => holder = t
    /\ raced \in BOOLEAN

Init ==
    /\ files = <<>> /\ size = 0 /\ disk = [k \in Key |-> 0]
    /\ holder = Nobody
    /\ thread = [t \in Thread |-> Idle]
    /\ raced = FALSE

-----------------------------------------------------------------------------
\* Bound: after a race, only what is under way goes on, until a restart.
Free(t) == thread[t] = Idle /\ ~raced

\* set_fileobj takes the lock with its file written.  _make_space: the target
\* counts the entry that will be replaced.
StartPut(t, k, n) ==
    /\ Free(t) /\ holder = Nobody
    /\ holder' = t /\ Does(t, Put(k, n, MaxSize - n + SizeOf(k)))
    /\ UNCHANGED <<files, size, disk, raced>>

Prunable == {i \in DOMAIN files : ~files[i].fresh}
Oldest == CHOOSE i \in Prunable : \A j \in Prunable : i <= j

\* delete of the oldest entry that is not protected: its file first, which may
\* be gone.
RemoveFile(t) ==
    /\ At(t, {"put"})
    /\ size > thread[t].target /\ Prunable # {}
    /\ LET k == files[Oldest].key
       IN disk' = [disk EXCEPT ![k] = 0] /\ Does(t, Forget(k, thread[t]))
    /\ UNCHANGED <<files, size, holder, raced>>

\* os.replace
Replace(t) ==
    /\ At(t, {"put"})
    /\ size <= thread[t].target \/ Prunable = {}
    /\ disk' = [disk EXCEPT ![thread[t].key] = thread[t].new]
    /\ Does(t, Record(thread[t].key, thread[t].new))
    /\ UNCHANGED <<files, size, holder, raced>>

\* A file or an entry that went meanwhile fails the delete, a full disk the
\* replace: the put is over.  _empty goes on.
Fails(t) ==
    /\ At(t, {"put", "expired"})
    /\ Resumes(t, Idle)
    /\ UNCHANGED <<files, size, disk, raced>>

\* _size is loaded, to be added to or taken from.
Loads(t) ==
    /\ At(t, {"forget", "record"})
    /\ LET op == thread[t]
       IN Does(t, IF op.at = "forget" THEN Taking(op.key, op.then, size)
                                      ELSE Adding(op.key, op.new, size))
    /\ raced' = (raced \/ \E u \in Thread \ {t} : Updating(u))
    /\ UNCHANGED <<files, size, disk, holder>>

\* Slip: _record_file adds the whole size of a file that replaces another.
AddsWhole(t) ==
    /\ At(t, {"adding"})
    /\ LET op == thread[t]
       IN /\ size' = op.size + op.new
          /\ files' = Filed([key |-> op.key, size |-> op.new, fresh |-> TRUE])
    /\ Resumes(t, Idle)
    /\ UNCHANGED <<disk, raced>>

\* _record_file: the difference is stored, and the entry written.
Adds(t) ==
    /\ At(t, {"adding"})
    /\ LET op == thread[t]
       IN /\ size' = op.size + op.new - SizeOf(op.key)
          /\ files' = Filed([key |-> op.key, size |-> op.new, fresh |-> TRUE])
    /\ Resumes(t, Idle)
    /\ UNCHANGED <<disk, raced>>

\* The entry is popped.  Another may have forgotten it meanwhile: the KeyError
\* ends a put, too.  has(), without the lock, may forget one whose file is back.
Pops(t) ==
    /\ At(t, {"taking"})
    /\ LET op == thread[t]
       IN IF Known(op.key)
          THEN /\ files' = Without(op.key)
               /\ Does(t, Taken(op.then, op.size - SizeOf(op.key)))
               /\ raced' = (raced \/ (holder # t /\ op.key \in OnDisk))
               /\ UNCHANGED holder
          ELSE Resumes(t, Idle) /\ UNCHANGED <<files, raced>>
    /\ UNCHANGED <<size, disk>>

\* What is left is stored.
Takes(t) ==
    /\ At(t, {"taken"})
    /\ size' = thread[t].size
    /\ Resumes(t, thread[t].then)
    /\ UNCHANGED <<files, disk, raced>>

\* get and touch, under the lock: freshened and last in order, or forgotten
\* when the file is gone.
Touch(t, k) ==
    /\ Free(t) /\ holder = Nobody /\ Known(k)
    /\ IF k \in OnDisk
       THEN /\ files' = Append(Without(k), [EntryOf(k) EXCEPT !.fresh = TRUE])
            /\ UNCHANGED <<holder, thread>>
       ELSE holder' = t /\ Does(t, Forget(k, Idle)) /\ UNCHANGED files
    /\ UNCHANGED <<size, disk, raced>>

\* has() from outside, without the lock: the file of an entry is not there.
Has(t, k) ==
    /\ Free(t) /\ Known(k) /\ k \notin OnDisk
    /\ Does(t, Forget(k, Idle))
    /\ UNCHANGED <<files, size, disk, holder, raced>>

\* _empty, which makes an entry expire by hand: it copies the entry, writes it
\* back, also when it is gone by then,
EmptyCopies(t, k) ==
    /\ Free(t) /\ Known(k)
    /\ Does(t, Copied(k, SizeOf(k)))
    /\ UNCHANGED <<files, size, disk, holder, raced>>

EmptyExpires(t) ==
    /\ At(t, {"copied"})
    /\ LET k == thread[t].key
           e == [key |-> k, size |-> thread[t].size, fresh |-> FALSE]
       IN /\ files' = Filed(e)
          /\ raced' = (raced \/ SizeOf(k) # e.size)
          /\ Does(t, Expired(k))
    /\ UNCHANGED <<size, disk, holder>>

\* and deletes the entry, under the lock, unless it is in use again.
EmptyDeletes(t) ==
    /\ At(t, {"expired"}) /\ holder = Nobody
    /\ LET k == thread[t].key
       IN IF Known(k) /\ (k \in OnDisk => ~EntryOf(k).fresh)
          THEN disk' = [disk EXCEPT ![k] = 0] /\ holder' = t /\ Does(t, Forget(k, Idle))
          ELSE Does(t, Idle) /\ UNCHANGED <<disk, holder>>
    /\ UNCHANGED <<files, size, raced>>

\* min_time passes; somebody empties the folder by hand.
Ages(i) ==
    /\ files[i].fresh
    /\ files' = [files EXCEPT ![i].fresh = FALSE]
    /\ UNCHANGED <<size, disk, holder, thread, raced>>

Vanishes(k) ==
    /\ k \in OnDisk
    /\ disk' = [disk EXCEPT ![k] = 0]
    /\ UNCHANGED <<files, size, holder, thread, raced>>

\* The process restarts: _files is rebuilt from the folder in the order of the
\* files' times, which may be any, and min_time counts from the last use of each
\* file, as long ago as that may be (Ages).
Restart ==
    /\ thread' = [t \in Thread |-> Idle] /\ holder' = Nobody
    /\ \E order \in Bijection(1..Cardinality(OnDisk), OnDisk) :
         files' = [i \in DOMAIN order |->
                     [key |-> order[i], size |-> disk[order[i]], fresh |-> TRUE]]
    /\ size' = Total(files')
    /\ raced' = FALSE
    /\ UNCHANGED disk

Next ==
    \/ \E t \in Thread :
        \/ \E k \in Key : Touch(t, k) \/ Has(t, k) \/ EmptyCopies(t, k)
        \/ \E k \in Key, n \in Piece : StartPut(t, k, n)
        \/ RemoveFile(t) \/ Replace(t) \/ Fails(t)
        \/ Loads(t) \/ Adds(t) \/ Pops(t) \/ Takes(t)
        \/ EmptyExpires(t) \/ EmptyDeletes(t)
    \/ \E i \in DOMAIN files : Ages(i)
    \/ \E k \in Key : Vanishes(k)
    \/ Restart

Spec == Init /\ [][Next]_vars

\* "The current amount of data cached" (Cache.size): the sum of the entries,
\* but for one that is being taken out; and every file in the folder has its
\* entry, or is getting it, so that it can be pruned.  The lock keeps this, until
\* has() or _empty, which do without it, come across another.
Accounted ==
    raced \/ /\ (\A t \in Thread : ~At(t, {"taken"})) => size = Total(files)
             /\ \A k \in OnDisk : Known(k) \/ \E t \in Thread : Recording(t, k)
=============================================================================
