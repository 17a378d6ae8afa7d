--------------------------- MODULE PrefetchQueue ---------------------------
(***************************************************************************)
(* The look-ahead queue of DeezerPrefetcher (deezer/prefetch.py): enqueue, *)
(* called by any request thread, and _worker.  A track is queued at most   *)
(* once: its id is in _seen from before it is queued until a worker is     *)
(* done with it.  _lock protects _seen alone; the queue has its own lock,  *)
(* so enqueue is three steps and other threads run between them.           *)
(***************************************************************************)
EXTENDS Naturals, SequencesExt

CONSTANTS
    Track,      \* tracks that have a deezer_id
    Requester,  \* request threads that call enqueue
    Worker,     \* the prefetch workers
    Nothing,    \* no track
    MaxQueue    \* max_queue

ASSUME TrackAssumption == Nothing \notin Track
ASSUME QueueAssumption == MaxQueue \in Nat

VARIABLES
    seen,    \* _seen
    queue,   \* _queue
    adding,  \* per requester: the track it is adding, and how far it is
    hand,    \* per worker: the track it holds
    file     \* the tracks that are on disk

vars == <<seen, queue, adding, hand, file>>

Idle == [track |-> Nothing, at |-> "idle"]
Queued == Range(queue)
Held == {hand[w] : w \in Worker}

Init ==
    /\ seen = {}
    /\ queue = <<>>
    /\ adding = [r \in Requester |-> Idle]
    /\ hand = [w \in Worker |-> Nothing]
    /\ file = {}

-----------------------------------------------------------------------------
\* enqueue: the file is not there.  When it is, nothing changes.
Want(r, t) ==
    /\ adding[r] = Idle
    /\ t \notin file
    /\ adding' = [adding EXCEPT ![r] = [track |-> t, at |-> "mark"]]
    /\ UNCHANGED <<seen, queue, hand, file>>

\* Slip: _seen is looked at in one locked block and added to in another.
MarkBlindly(r) ==
    /\ adding[r].at = "mark"
    /\ seen' = seen \cup {adding[r].track}
    /\ adding' = [adding EXCEPT ![r].at = "put"]
    /\ UNCHANGED <<queue, hand, file>>

\* enqueue: under _lock, leave if the track is in _seen, else add it.
Mark(r) ==
    /\ adding[r].at = "mark"
    /\ IF adding[r].track \in seen
       THEN adding' = [adding EXCEPT ![r] = Idle] /\ UNCHANGED seen
       ELSE /\ seen' = seen \cup {adding[r].track}
            /\ adding' = [adding EXCEPT ![r].at = "put"]
    /\ UNCHANGED <<queue, hand, file>>

\* Slip: a full queue drops the track, and nobody takes it out of _seen.
PutForgetful(r) ==
    /\ adding[r].at = "put"
    /\ queue' = IF Len(queue) < MaxQueue THEN Append(queue, adding[r].track) ELSE queue
    /\ adding' = [adding EXCEPT ![r] = Idle]
    /\ UNCHANGED <<seen, hand, file>>

\* Slip: the queue is off by one.
PutOneMore(r) ==
    /\ adding[r].at = "put"
    /\ IF Len(queue) <= MaxQueue
       THEN /\ queue' = Append(queue, adding[r].track)
            /\ adding' = [adding EXCEPT ![r] = Idle]
       ELSE /\ adding' = [adding EXCEPT ![r].at = "unmark"]
            /\ UNCHANGED queue
    /\ UNCHANGED <<seen, hand, file>>

\* enqueue: put_nowait, or queue.Full.
Put(r) ==
    /\ adding[r].at = "put"
    /\ IF Len(queue) < MaxQueue
       THEN /\ queue' = Append(queue, adding[r].track)
            /\ adding' = [adding EXCEPT ![r] = Idle]
       ELSE /\ adding' = [adding EXCEPT ![r].at = "unmark"]
            /\ UNCHANGED queue
    /\ UNCHANGED <<seen, hand, file>>

\* enqueue: the queue was full, and the track leaves _seen.
Unmark(r) ==
    /\ adding[r].at = "unmark"
    /\ seen' = seen \ {adding[r].track}
    /\ adding' = [adding EXCEPT ![r] = Idle]
    /\ UNCHANGED <<queue, hand, file>>

\* _worker: _queue.get().
Take(w) ==
    /\ hand[w] = Nothing
    /\ queue # <<>>
    /\ hand' = [hand EXCEPT ![w] = Head(queue)]
    /\ queue' = Tail(queue)
    /\ UNCHANGED <<seen, adding, file>>

\* _worker: ensure_archived put the file on disk.  When it raises, the
\* worker goes on to Forget without this step.
Archive(w) ==
    /\ hand[w] # Nothing
    /\ file' = file \cup {hand[w]}
    /\ UNCHANGED <<seen, queue, adding, hand>>

\* Slip: the id leaves _seen only when the archive succeeded.
ForgetArchived(w) ==
    /\ hand[w] # Nothing
    /\ seen' = IF hand[w] \in file THEN seen \ {hand[w]} ELSE seen
    /\ hand' = [hand EXCEPT ![w] = Nothing]
    /\ UNCHANGED <<queue, adding, file>>

\* _worker: the finally clause; task_done and the next get() change nothing
\* that enqueue sees.
Forget(w) ==
    /\ hand[w] # Nothing
    /\ seen' = seen \ {hand[w]}
    /\ hand' = [hand EXCEPT ![w] = Nothing]
    /\ UNCHANGED <<queue, adding, file>>

\* The cleanup removes a file (module Archive); it can be wanted again.
Sweep(t) ==
    /\ t \in file
    /\ file' = file \ {t}
    /\ UNCHANGED <<seen, queue, adding, hand>>

Adding(r) == Mark(r) \/ Put(r) \/ Unmark(r)

Next ==
    \/ \E r \in Requester : Adding(r) \/ \E t \in Track : Want(r, t)
    \/ \E w \in Worker : Take(w) \/ Archive(w) \/ Forget(w)
    \/ \E t \in Track : Sweep(t)

Spec == Init /\ [][Next]_vars

\* A thread that is inside enqueue goes on; a worker takes the next track
\* and ends its attempt (every request it makes carries a timeout).
Fairness ==
    /\ \A r \in Requester : WF_vars(Adding(r))
    /\ \A w \in Worker : WF_vars(Take(w)) /\ WF_vars(Forget(w))

FairSpec == Spec /\ Fairness

-----------------------------------------------------------------------------
\* Types, and the bound of the queue.
TypeOK ==
    /\ seen \subseteq Track
    /\ queue \in Seq(Track)
    /\ Len(queue) <= MaxQueue
    /\ adding \in [Requester -> [track : Track, at : {"mark", "put", "unmark"}] \cup {Idle}]
    /\ hand \in [Worker -> Track \cup {Nothing}]
    /\ file \subseteq Track

\* An id is in _seen exactly while somebody answers for it: a thread that
\* will queue it or take it out, the queue, or a worker.  An id left behind
\* would never be prefetched again until the server restarts.
Answered ==
    Queued \cup (Held \ {Nothing})
      \cup {adding[r].track : r \in {q \in Requester : adding[q].at \in {"put", "unmark"}}}
SeenIsAnsweredFor == seen = Answered

\* The queue implements TaskPool: without looking at the queue, enqueue never
\* adds a track that is waiting, or that a worker holds.
Pool == INSTANCE TaskPool WITH
    Task <- Track, Capacity <- MaxQueue, waiting <- Queued
IsTaskPool == Pool!Spec

\* A track that was marked can be wanted again later, whether it was
\* archived, failed or found the queue full.
SeenIsReleased == \A t \in Track : t \in seen ~> t \notin seen
=============================================================================
