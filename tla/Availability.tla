---------------------------- MODULE Availability ----------------------------
(***************************************************************************)
(* The verdict on one Deezer track: Track.unavailable, a date.  It is      *)
(* written by whoever asks Deezer for the track (mark_unavailable and      *)
(* clear_unavailable in supysonic/deezer/library.py): the probe of the web *)
(* player (supysonic/webui/availability.py) and the threads that archive   *)
(* it (_resolve_or_flag in supysonic/deezer/archive.py).  Each of them     *)
(* looks at the row as it read it before it asked.  Two more write it and  *)
(* ask nobody, saving every column of a row: an archive that has landed    *)
(* (_finalize_archive), which voids the verdict, and a play that is        *)
(* counted (supysonic/api/media.py), which puts back the verdict it read.  *)
(***************************************************************************)
EXTENDS Naturals

CONSTANTS
    Thread,
    MaxTurn      \* bound: how often Deezer's rights turn

VARIABLES
    deezer,      \* whether Deezer has a source
    turns,
    file,        \* the archived file is on disk
    verdict,     \* Track.unavailable: "none", or "fresh", or "stale" (VERDICT_TTL)
    thread,      \* per thread: what it does next, the verdict in its copy of
                 \* the row, and whether it archives for a Subsonic play
    settled      \* environment: rights and files stay, and the database writes

vars == <<deezer, turns, file, verdict, thread, settled>>

Verdict == {"none", "fresh", "stale"}
Idle == [at |-> "idle", read |-> "none", plays |-> FALSE]

TypeOK ==
    /\ deezer \in BOOLEAN /\ turns \in 0..MaxTurn
    /\ file \in BOOLEAN
    /\ verdict \in Verdict
    /\ thread \in [Thread -> [at : {"idle", "probe", "archive", "mark", "clear", "write", "store",
                                    "final", "save"},
                              read : Verdict, plays : BOOLEAN]]
    /\ settled \in BOOLEAN

Init ==
    /\ deezer = TRUE /\ turns = 0 /\ file = FALSE
    /\ verdict = "none"
    /\ thread = [t \in Thread |-> Idle]
    /\ settled = FALSE

-----------------------------------------------------------------------------
At(t, at) == thread[t].at = at
Goes(t, at) == thread' = [thread EXCEPT ![t].at = at]
Done(t) == thread' = [thread EXCEPT ![t] = Idle]
Turns(t, at, read, plays) ==
    thread' = [thread EXCEPT ![t] = [at |-> at, read |-> read, plays |-> plays]]

\* A write of the one column; one that fails is swallowed.
Writes(v) == verdict' = v \/ (~settled /\ UNCHANGED verdict)

\* Slip: a verdict is never tested again.
ProbeOnce(t) ==
    /\ At(t, "idle")
    /\ file \/ verdict = "none"
    /\ Turns(t, IF file THEN "clear" ELSE "probe", verdict, FALSE)
    /\ UNCHANGED <<deezer, turns, file, verdict, settled>>

\* probe_track: a file plays whatever the verdict; a fresh verdict answers.
Probe(t) ==
    /\ At(t, "idle")
    /\ file \/ verdict # "fresh"
    /\ Turns(t, IF file THEN "clear" ELSE "probe", verdict, FALSE)
    /\ UNCHANGED <<deezer, turns, file, verdict, settled>>

\* An archiver, the download queue or a stream, that finds no file.  `plays'
\* is a Subsonic stream, which counts its play in the end.
Archive(t, plays) ==
    /\ At(t, "idle") /\ ~file
    /\ Turns(t, "archive", verdict, plays)
    /\ UNCHANGED <<deezer, turns, file, verdict, settled>>

\* A Subsonic stream of a track whose file is there: it asks nobody.
Play(t) ==
    /\ At(t, "idle") /\ file
    /\ Turns(t, "save", verdict, TRUE)
    /\ UNCHANGED <<deezer, turns, file, verdict, settled>>

\* The looks of ensure_archived find a file that came since.
Found(t) ==
    /\ At(t, "archive") /\ file
    /\ IF thread[t].plays THEN Goes(t, "save") ELSE Done(t)
    /\ UNCHANGED <<deezer, turns, file, verdict, settled>>

\* provider.resolve: Deezer's answer, or none (the network, the session).
Resolve(t) ==
    /\ thread[t].at \in {"probe", "archive"}
    /\ \/ Goes(t, IF ~deezer THEN "mark" ELSE IF At(t, "archive") THEN "write" ELSE "clear")
       \/ ~settled /\ Done(t)
    /\ UNCHANGED <<deezer, turns, file, verdict, settled>>

\* mark_unavailable: whatever happened since the answer.
Mark(t) ==
    /\ At(t, "mark")
    /\ Writes("fresh")
    /\ Done(t)
    /\ UNCHANGED <<deezer, turns, file, settled>>

\* clear_unavailable of the row as it was read.  An archiver then downloads.
Cleared(t) == IF thread[t].read = "none" THEN verdict ELSE "none"

Clear(t) ==
    /\ At(t, "clear")
    /\ Writes(Cleared(t))
    /\ Done(t)
    /\ UNCHANGED <<deezer, turns, file, settled>>

ClearAndFetch(t) ==
    /\ At(t, "write")
    /\ Writes(Cleared(t))
    /\ Goes(t, "store")
    /\ UNCHANGED <<deezer, turns, file, settled>>

\* The download lands, and voids the verdict in this thread's copy.
Store(t) ==
    /\ At(t, "store")
    /\ settled => file
    /\ file' = TRUE
    /\ Turns(t, "final", "none", thread[t].plays)
    /\ UNCHANGED <<deezer, turns, verdict, settled>>

\* It fails, or a live stream finds the file published by another.
Lost(t) ==
    /\ At(t, "store")
    /\ Done(t)
    /\ UNCHANGED <<deezer, turns, file, verdict, settled>>

\* _finalize_archive saves the copy.  A play goes on with it.
Finalize(t) ==
    /\ At(t, "final")
    /\ verdict' = thread[t].read
    /\ IF thread[t].plays THEN Goes(t, "save") ELSE Done(t)
    /\ UNCHANGED <<deezer, turns, file, settled>>

\* stream_media saves the copy it has: the verdict of when it was read.
Saves(t) ==
    /\ At(t, "save")
    /\ verdict' = thread[t].read
    /\ Done(t)
    /\ UNCHANGED <<deezer, turns, file, settled>>

\* Neither comes to its save: the database, or the transcoder, refuses.
Unsaved(t) ==
    /\ thread[t].at \in {"final", "save"}
    /\ Done(t)
    /\ UNCHANGED <<deezer, turns, file, verdict, settled>>

\* VERDICT_TTL passes.
Ages ==
    /\ verdict = "fresh"
    /\ verdict' = "stale"
    /\ UNCHANGED <<deezer, turns, file, thread, settled>>

Turn ==
    /\ ~settled /\ turns < MaxTurn
    /\ turns' = turns + 1 /\ deezer' = ~deezer
    /\ UNCHANGED <<file, verdict, thread, settled>>

\* The cleanup frees the file.
Freed ==
    /\ ~settled /\ file
    /\ file' = FALSE
    /\ UNCHANGED <<deezer, turns, verdict, thread, settled>>

Settle ==
    /\ ~settled
    /\ settled' = TRUE
    /\ UNCHANGED <<deezer, turns, file, verdict, thread>>

Next ==
    \/ \E t \in Thread :
        \/ Probe(t) \/ (\E plays \in BOOLEAN : Archive(t, plays)) \/ Play(t) \/ Found(t)
        \/ Resolve(t) \/ Mark(t) \/ Clear(t) \/ ClearAndFetch(t)
        \/ Store(t) \/ Lost(t) \/ Finalize(t) \/ Saves(t) \/ Unsaved(t)
    \/ Ages \/ Turn \/ Freed \/ Settle

\* What a thread that holds a copy of the row does next.
GoesOn(t) ==
    \/ Found(t) \/ Resolve(t) \/ Mark(t) \/ Clear(t) \/ ClearAndFetch(t)
    \/ Store(t) \/ Lost(t) \/ Finalize(t) \/ Saves(t) \/ Unsaved(t)

\* Threads run, and time passes.
Fairness ==
    /\ WF_vars(Ages)
    /\ \A t \in Thread : WF_vars(GoesOn(t))

Spec == Init /\ [][Next]_vars /\ Fairness

Probed == \E t \in Thread : Probe(t)

\* The verdict says what is.
Right == verdict = "none" <=> (file \/ deezer)

PlaysOnRight == \A t \in Thread : Play(t) => Right

\* What this thread will save of the verdict, when it saves what it read.
Keeps(t) == At(t, "save") \/ At(t, "final") \/ (At(t, "archive") /\ thread[t].plays /\ file)

\* The verdict says what is, and no thread is about to write another.
Mended ==
    /\ settled
    /\ Right
    /\ \A t \in Thread :
        /\ At(t, "mark") => ~file /\ ~deezer
        /\ At(t, "probe") \/ At(t, "archive") => deezer \/ ~file
        /\ At(t, "clear") \/ At(t, "write") => file \/ deezer \/ thread[t].read = "none"
        /\ Keeps(t) => (thread[t].read = "none" <=> (file \/ deezer))

\* A verdict that crossed an archive, a clear that crossed a verdict, a play
\* that saved the verdict it had read, rights that came back: none of them
\* lasts.  Once the world is settled, as long as the player probes the track
\* whenever a probe would look, and unless plays begin for ever on a wrong
\* verdict, each to put it back, the verdict comes to say what is.
VerdictMends ==
    WF_vars(Probed) /\ <>[][PlaysOnRight]_vars => (settled ~> []Mended)
=============================================================================
