--------------------------- MODULE PlayerSession ---------------------------
(***************************************************************************)
(* How the web client resumes (webapp/src/lib/stores.js, createPlayer and  *)
(* readSession).  The queue is a big localStorage key, written when the    *)
(* page is idle; the position tick is a small one, written at once.  A     *)
(* page killed at any moment leaves two keys that may disagree, and the    *)
(* saved queue is a window of the live one, at an offset that moves.       *)
(* What the user does to the queue is in PlayerQueue; here any change of   *)
(* the queue and of the place in it may happen.                            *)
(*                                                                         *)
(* Positions are counted from 1 and 0 is "nothing" (-1 in the code).  An   *)
(* entry of the queue is its trackKey.  The clock is left out but for      *)
(* which key is the fresher; it is taken not to run backwards.             *)
(***************************************************************************)
EXTENDS Integers, Sequences, FiniteSetsExt

CONSTANTS
    Track,       \* track keys
    NoTrack,     \* the key of no track
    SessionCap,  \* SESSION_CAP: tracks kept in the saved queue
    TightCap,    \* SESSION_CAP_MIN: tracks kept when the quota is exceeded
    MaxQueue     \* bound: length of the queue

VARIABLES
    queue, index, playing,
    saved,     \* SESSION_KEY: the queue and the place in it
    offset,    \* savedOffset: where the saved window starts in the queue
    tick,      \* POS_KEY: position in the saved window, and the track there
    fresh,     \* the tick is not older than the saved queue
    saving     \* saveIdle: a write of the queue is scheduled

live == <<queue, index, playing>>
vars == <<live, saved, offset, tick, fresh, saving>>

Queues == UNION {[1..n -> Track] : n \in 0..MaxQueue}
At(q, i) == IF i \in DOMAIN q THEN q[i] ELSE NoTrack
Current == At(queue, index)

TypeOK ==
    /\ queue \in Queues /\ index \in 0..Len(queue) /\ playing \in BOOLEAN
    /\ saved.queue \in Queues /\ saved.index \in 0..Len(saved.queue)
    /\ offset \in 0..MaxQueue
    /\ tick.i \in -MaxQueue..MaxQueue /\ tick.id \in Track \cup {NoTrack}
    /\ fresh \in BOOLEAN /\ saving \in BOOLEAN

\* createPlayer on an empty storage; its subscriber runs once.
Init ==
    /\ queue = <<>> /\ index = 0 /\ playing = FALSE
    /\ saved = [queue |-> <<>>, index |-> 0]
    /\ offset = 0
    /\ tick = [i |-> 0, id |-> NoTrack]
    /\ fresh = TRUE /\ saving = TRUE

-----------------------------------------------------------------------------
\* savePos
SavePos ==
    /\ tick' = [i |-> index' - offset, id |-> At(queue', index')]
    /\ fresh' = TRUE

\* Slip: only a new queue is worth a tick.
UpdateTickingQueue(q, i, on) ==
    /\ queue' = q /\ index' = i /\ playing' = on
    /\ IF queue' # queue THEN SavePos ELSE UNCHANGED <<tick, fresh>>
    /\ saving' = (saving \/ queue' # queue)
    /\ UNCHANGED <<saved, offset>>

\* Any update of the store, and the subscriber that runs in it: a changed
\* queue or place is ticked at once, a changed queue is saved when idle.
Update(q, i, on) ==
    /\ queue' = q /\ index' = i /\ playing' = on
    /\ IF queue' # queue \/ index' # index \/ playing' # playing
       THEN SavePos
       ELSE UNCHANGED <<tick, fresh>>
    /\ saving' = (saving \/ queue' # queue)
    /\ UNCHANGED <<saved, offset>>

\* The tick written about every two seconds while the position moves.
Progress ==
    /\ playing
    /\ UNCHANGED <<live, saved, offset, saving>>
    /\ SavePos

\* snapshot: a long queue is saved as a window around the playing track.
Start(cap) == IF Len(queue) > cap
              THEN Min({Max({0, index - 1 - (cap \div 2)}), Len(queue) - cap})
              ELSE 0
Snapshot(cap) ==
    [queue |-> SubSeq(queue, Start(cap) + 1, Min({Start(cap) + cap, Len(queue)})),
     index |-> index - Start(cap)]

\* save.  The quota may refuse the whole window, and then the tight one as
\* well.  `was` says whether the tick was fresh before: one written in the
\* same millisecond still counts as fresh.
Save(was) ==
    /\ \/ \E cap \in {SessionCap, TightCap} :
            /\ saved' = Snapshot(cap)
            /\ offset' = Start(cap)
            /\ fresh' \in {FALSE, was}
       \/ offset' = Start(TightCap) /\ fresh' = was /\ UNCHANGED saved
    /\ saving' = FALSE

IdleSave ==
    /\ saving
    /\ Save(fresh)
    /\ UNCHANGED <<live, tick>>

\* flushSession, when the page is hidden, frozen or left: the tick, then the
\* queue, which moves the window.
Flush ==
    /\ tick' = [i |-> index - offset, id |-> Current]
    /\ Save(TRUE)
    /\ UNCHANGED live

\* Slip: a tick that does not line up with the saved queue is dropped.
ResumeAtStrict ==
    IF fresh /\ tick.id # NoTrack /\ At(saved.queue, tick.i) = tick.id
    THEN tick.i ELSE saved.index

\* readSession: the place to resume at.  A tick whose place does not hold its
\* track is looked for elsewhere; past the end of what was saved, the last
\* track saved is the nearest.
ResumeAt ==
    LET q == saved.queue
        found == {k \in DOMAIN q : q[k] = tick.id}
    IN IF ~fresh THEN saved.index
       ELSE IF tick.id # NoTrack /\ At(q, tick.i) = tick.id THEN tick.i
       ELSE IF Cardinality(found) = 1 THEN CHOOSE k \in found : TRUE
       ELSE IF found = {} /\ q # <<>> /\ tick.i > Len(q) THEN Len(q)
       ELSE saved.index

\* The page is killed or reloaded at any moment: createPlayer restores what
\* the two keys hold, paused, and its subscriber runs once.
Reload ==
    /\ queue' = saved.queue
    /\ index' = ResumeAt
    /\ playing' = FALSE
    /\ offset' = 0
    /\ tick' = [i |-> index', id |-> At(queue', index')]
    /\ fresh' = TRUE /\ saving' = TRUE
    /\ UNCHANGED saved

Next ==
    \/ \E q \in Queues, on \in BOOLEAN : \E i \in 0..Len(q) : Update(q, i, on)
    \/ Progress \/ IdleSave \/ Flush \/ Reload

Spec == Init /\ [][Next]_vars

-----------------------------------------------------------------------------
\* A reload resumes on the track that was playing, wherever the page was
\* killed between the tick and the write of the queue, whatever window was
\* saved and however the queue was edited since: as long as the saved queue
\* holds that track once.  (readSession; "coming back to the app jumps several
\* tracks back".)
ResumesWhereHeard ==
    [][Reload /\ Current # NoTrack
         /\ Cardinality({k \in DOMAIN saved.queue : saved.queue[k] = Current}) = 1
       => Current' = Current]_vars
=============================================================================
