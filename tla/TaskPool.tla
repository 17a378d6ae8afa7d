------------------------------ MODULE TaskPool ------------------------------
(***************************************************************************)
(* What both queues of DeezerPrefetcher (deezer/prefetch.py) promise: a    *)
(* pool of workers behind a bounded queue.  An entry that was accepted is  *)
(* waiting or in the hand of exactly one worker until that worker is done  *)
(* with it; it is not accepted again before; and no more than Capacity     *)
(* entries wait.  In which order they are taken, and how long a worker     *)
(* keeps one, is the business of the queue that implements this.           *)
(***************************************************************************)
EXTENDS Naturals, FiniteSets

CONSTANTS
    Task,      \* entries: a name is used again once its entry is done
    Worker,    \* worker threads
    Nothing,   \* the hand of an idle worker, not an entry
    Capacity   \* maxsize of the queue

VARIABLES waiting, hand

Held == {hand[w] : w \in Worker}

Init ==
    /\ waiting = {}
    /\ hand = [w \in Worker |-> Nothing]

Accept(t) ==
    /\ t \notin waiting \cup Held
    /\ Cardinality(waiting) < Capacity
    /\ waiting' = waiting \cup {t}
    /\ UNCHANGED hand

Take(w, t) ==
    /\ hand[w] = Nothing
    /\ t \in waiting
    /\ waiting' = waiting \ {t}
    /\ hand' = [hand EXCEPT ![w] = t]

Finish(w) ==
    /\ hand[w] # Nothing
    /\ hand' = [hand EXCEPT ![w] = Nothing]
    /\ UNCHANGED waiting

Next ==
    \/ \E t \in Task : Accept(t)
    \/ \E w \in Worker : Finish(w) \/ \E t \in Task : Take(w, t)

Spec == Init /\ [][Next]_<<waiting, hand>>
=============================================================================
