---------------------------- MODULE EnrichQueue ----------------------------
(***************************************************************************)
(* The enrichment queue (supysonic/enrich/queue.py): request threads put   *)
(* tracks, and one worker thread takes them, ends after 30 s of nothing,   *)
(* and is started again by the next track put.  What the worker does to a  *)
(* track is not modelled; tracks are told apart by nothing but their place *)
(* in the queue.                                                           *)
(***************************************************************************)
EXTENDS Naturals

CONSTANTS
    Producer,
    Cap          \* maxsize of the queue (512)

VARIABLES
    waiting,     \* tracks in the queue
    worker,      \* the worker thread; "leaving" has seen Empty and is still alive
    putting,     \* producers between their put and _ensure_worker
    late         \* history: the puts since the worker saw Empty, until it ends

vars == <<waiting, worker, putting, late>>

TypeOK ==
    /\ waiting \in 0..Cap
    /\ worker \in {"never", "getting", "working", "leaving", "ended"}
    /\ putting \subseteq Producer
    /\ late \in 0..Cap

Init == waiting = 0 /\ worker = "never" /\ putting = {} /\ late = 0

\* queue_track.  A full queue drops the track, and looks no further.
QueueTrack(p) ==
    /\ p \notin putting
    /\ waiting < Cap
    /\ waiting' = waiting + 1
    /\ putting' = putting \cup {p}
    /\ late' = IF worker = "leaving" THEN late + 1 ELSE late
    /\ UNCHANGED worker

\* Slip: a worker that has ended still counts as one.
EnsureOnce(p) ==
    /\ p \in putting
    /\ putting' = putting \ {p}
    /\ worker' = IF worker = "never" THEN "getting" ELSE worker
    /\ UNCHANGED <<waiting, late>>

\* _ensure_worker
EnsureWorker(p) ==
    /\ p \in putting
    /\ putting' = putting \ {p}
    /\ worker' = IF worker \in {"never", "ended"} THEN "getting" ELSE worker
    /\ UNCHANGED <<waiting, late>>

\* _drain
Take ==
    /\ worker = "getting" /\ waiting > 0
    /\ waiting' = waiting - 1 /\ worker' = "working"
    /\ UNCHANGED <<putting, late>>

\* Enriched, or failed: every exception is logged.
Enriched ==
    /\ worker = "working"
    /\ worker' = "getting"
    /\ UNCHANGED <<waiting, putting, late>>

TimesOut ==
    /\ worker = "getting" /\ waiting = 0
    /\ worker' = "leaving" /\ late' = 0
    /\ UNCHANGED <<waiting, putting>>

Ends ==
    /\ worker = "leaving"
    /\ worker' = "ended"
    /\ UNCHANGED <<waiting, putting, late>>

Next ==
    \/ \E p \in Producer : QueueTrack(p) \/ EnsureWorker(p)
    \/ Take \/ Enriched \/ TimesOut \/ Ends

\* Threads run.
Fairness ==
    /\ \A p \in Producer : WF_vars(EnsureWorker(p))
    /\ WF_vars(Take) /\ WF_vars(Enriched) /\ WF_vars(Ends)

Spec == Init /\ [][Next]_vars /\ Fairness

\* As long as tracks come, put or refused by a full queue, tracks are taken:
\* one put while the worker was leaving waits for the next put, and no longer.
\* A queue that was filled while the worker was leaving has no worker, and
\* refuses the put that would start one.
TracksTaken ==
    /\ (\E p \in Producer : []<><<QueueTrack(p)>>_vars) \/ []<>(waiting = Cap)
    /\ [](late < Cap)
    => []<>(worker = "working")
=============================================================================
