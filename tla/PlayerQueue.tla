---------------------------- MODULE PlayerQueue ----------------------------
(***************************************************************************)
(* The queue of the web client's player (webapp/src/lib/stores.js,         *)
(* createPlayer): its place, its shuffled order, every operation of the    *)
(* user, and the radio's continuations (components/Player.svelte), which   *)
(* are network calls whose answers arrive after the user has done          *)
(* something else.  How the queue survives a reload is in PlayerSession.   *)
(*                                                                         *)
(* Positions are counted from 1 and 0 is "nothing" (-1 in the code).  An   *)
(* entry of the queue is its trackKey.  The clock and the repeat mode are  *)
(* left out: prev() may find the playhead past 3 s or not, and a branch    *)
(* that the mode selects may be taken at any time.                         *)
(***************************************************************************)
EXTENDS Integers, FiniteSets, SequencesExt

CONSTANTS
    Track,       \* track keys
    NoTrack,     \* the key of no track, and of a hole in the queue
    Cap,         \* SESSION_CAP: tracks a reload keeps
    Ahead,       \* the radio tops the queue up from this many tracks on (3)
    MaxQueue     \* bound: length of the queue

VARIABLES
    queue, index, playing,     \* what plays
    seq,                       \* seq % 2: deliberate navigations
    shuffle, orig,             \* _orig: the order before the shuffle, <<>> for null
    autoplay,
    topup,     \* `extending`: ensureUpcoming waits for the radio
    ended      \* onEnded waits for the radio

order == <<shuffle, orig>>
store == <<queue, index, playing, seq, shuffle, orig, autoplay>>
asked == <<topup, ended>>
vars == <<store, asked>>

At(q, i) == IF i \in DOMAIN q THEN q[i] ELSE NoTrack
Current == At(queue, index)
Order(q) == q \in Seq(Track \cup {NoTrack}) /\ Len(q) <= MaxQueue

\* What the API and the user hand over, already through clean() and the
\* offline filter: never empty.
Lists == {<<t>> : t \in Track} \cup {<<t, u>> : t, u \in Track}

\* shuffled(arr)
Shuffles(q) == {[i \in DOMAIN q |-> q[p[i]]] : p \in Bijection(DOMAIN q, DOMAIN q)}

\* The tracks of a list that a queue has not, in their order: what the filter
\* has kept after n of them.
Unheard(list, q) ==
    LET kept[n \in 0..Len(list)] ==
          IF n = 0 THEN <<>>
          ELSE IF list[n] \in ToSet(q) THEN kept[n - 1]
          ELSE Append(kept[n - 1], list[n])
    IN kept[Len(list)]

TypeOK ==
    /\ Order(queue) /\ Order(orig)
    /\ index \in 0..Len(queue)
    /\ playing \in BOOLEAN /\ (playing => index > 0)
    /\ seq \in {0, 1}
    /\ shuffle \in BOOLEAN
    /\ autoplay \in BOOLEAN
    /\ topup \in BOOLEAN /\ ended \in BOOLEAN

\* createPlayer on an empty storage.
Init ==
    /\ queue = <<>> /\ index = 0 /\ playing = FALSE /\ seq = 0
    /\ shuffle = FALSE /\ orig = <<>> /\ autoplay = TRUE
    /\ topup = FALSE /\ ended = FALSE

-----------------------------------------------------------------------------
\* The user's hand, here or through the remote control.

Navigate(i) == index' = i /\ playing' = TRUE /\ seq' = 1 - seq

\* playQueue and playTrack: `list` is what clean() and the filter leave, `i`
\* where the tapped track is in it.
PlayQueue(list, i) ==
    /\ autoplay' = TRUE
    /\ IF shuffle
       THEN /\ orig' = list
            /\ \E rest \in Shuffles(RemoveAt(list, i)) : queue' = <<list[i]>> \o rest
            /\ Navigate(1)
       ELSE queue' = list /\ orig' = <<>> /\ Navigate(i)
    /\ UNCHANGED <<shuffle, asked>>

ShufflePlay(list) ==
    /\ shuffle' = TRUE /\ autoplay' = TRUE
    /\ orig' = list
    /\ queue' \in Shuffles(list)
    /\ Navigate(1)
    /\ UNCHANGED asked

\* What addToQueue and playNext do when nothing was playing.
Begin ==
    /\ index' = IF index = 0 THEN 1 ELSE index
    /\ playing' = (playing \/ index = 0)

\* Tracks at the end, of the order before the shuffle as well.  Both stay
\* within the bound.
Longer(list) ==
    /\ Len(queue) + Len(list) <= MaxQueue /\ Len(orig) + Len(list) <= MaxQueue
    /\ queue' = queue \o list
    /\ orig' = IF orig = <<>> THEN <<>> ELSE orig \o list

AddToQueue(list) ==
    /\ Longer(list)
    /\ Begin
    /\ UNCHANGED <<seq, shuffle, autoplay, asked>>

\* playNext: the shuffled run alone gets the tracks, _orig does not.
PlayNext(list) ==
    /\ Len(queue) + Len(list) <= MaxQueue
    /\ queue' = SubSeq(queue, 1, index) \o list \o SubSeq(queue, index + 1, Len(queue))
    /\ Begin
    /\ UNCHANGED <<seq, shuffle, orig, autoplay, asked>>

\* Slip: the last track removed while it plays leaves the place past the end.
RemoveTrackUnclamped(i) ==
    /\ queue' = RemoveAt(queue, i)
    /\ index' = IF queue' = <<>> THEN 0 ELSE IF i < index THEN index - 1 ELSE index
    /\ playing' = (playing /\ queue' # <<>>)
    /\ UNCHANGED <<seq, shuffle, orig, autoplay, asked>>

\* removeAt: _orig keeps the track.  Emptying the queue stops the player.
RemoveTrack(i) ==
    /\ queue' = RemoveAt(queue, i)
    /\ index' = IF queue' = <<>> THEN 0
                ELSE IF i < index THEN index - 1
                ELSE IF i = index THEN Min({index, Len(queue')})
                ELSE index
    /\ playing' = (playing /\ queue' # <<>>)
    /\ UNCHANGED <<seq, shuffle, orig, autoplay, asked>>

\* Slip: a row that passes over the playing one does not shift it.
MoveUnshifted(from, to) ==
    /\ from # to
    /\ queue' = InsertAt(RemoveAt(queue, from), to, queue[from])
    /\ index' = IF from = index THEN to ELSE index
    /\ UNCHANGED <<playing, seq, shuffle, orig, autoplay, asked>>

\* move: the playing track keeps playing, its index follows.
Move(from, to) ==
    /\ from # to
    /\ queue' = InsertAt(RemoveAt(queue, from), to, queue[from])
    /\ index' = IF from = index THEN to
                ELSE IF from < index /\ to >= index THEN index - 1
                ELSE IF from > index /\ to <= index THEN index + 1
                ELSE index
    /\ UNCHANGED <<playing, seq, shuffle, orig, autoplay, asked>>

ClearUpcoming ==
    /\ queue' = SubSeq(queue, 1, index)
    /\ orig' = <<>> /\ autoplay' = FALSE
    /\ UNCHANGED <<index, playing, seq, shuffle, asked>>

\* replaceUpcoming: the Flow re-tuned.  What was heard and the playing track
\* stay.
ReplaceUpcoming(list) ==
    /\ index > 0
    /\ LET before == SubSeq(queue, 1, index)
       IN queue' = before \o Unheard(list, before)
    /\ Len(queue') <= MaxQueue
    /\ orig' = IF orig = <<>> THEN <<>> ELSE queue'
    /\ UNCHANGED <<index, playing, seq, shuffle, autoplay, asked>>

\* toggleShuffle.  Un-shuffled, the playing track is looked for in the old
\* order by the identity of its object, then by its key; objects are not told
\* apart after a reload, so any place of the key may be the one.
ToggleShuffle ==
    /\ shuffle' = ~shuffle
    /\ IF queue = <<>> THEN UNCHANGED <<queue, index, orig>>
       ELSE IF shuffle'
       THEN /\ orig' = queue
            /\ \E rest \in Shuffles(IF index = 0 THEN queue ELSE RemoveAt(queue, index)) :
                 queue' = <<Current>> \o rest
            /\ index' = 1
       ELSE /\ queue' = IF orig = <<>> THEN queue ELSE orig
            /\ orig' = <<>>
            /\ LET found == {k \in DOMAIN queue' : queue'[k] = Current}
               IN index' \in IF found = {} THEN {1} ELSE found
    /\ Len(queue') <= MaxQueue
    /\ UNCHANGED <<playing, seq, autoplay, asked>>

Jump(i) ==
    /\ Navigate(i)
    /\ UNCHANGED <<queue, order, autoplay, asked>>

Stop == playing' = FALSE /\ UNCHANGED <<index, seq>>

\* next(): at the end of the queue, around (repeat all), on to the title that
\* the Flow holds in reserve, or to a stop.
NextTrack ==
    /\ IF index < Len(queue) THEN Navigate(index + 1) /\ UNCHANGED <<queue, orig>>
       ELSE \/ queue # <<>> /\ Navigate(1) /\ UNCHANGED <<queue, orig>>
            \/ \E t \in Track : Longer(<<t>>) /\ Navigate(index + 1)
            \/ Stop /\ UNCHANGED <<queue, orig>>
    /\ UNCHANGED <<shuffle, autoplay, asked>>

\* prev(): past 3 s or on the first track it restarts the track.
PrevTrack ==
    /\ \/ seq' = 1 - seq /\ UNCHANGED <<index, playing>>
       \/ index > 1 /\ Navigate(index - 1)
    /\ UNCHANGED <<queue, order, autoplay, asked>>

\* toggle, play, pause
SetPlaying(on) ==
    /\ on => index > 0
    /\ playing' = on
    /\ UNCHANGED <<queue, index, seq, order, autoplay, asked>>

User ==
    \/ \E list \in Lists : \E i \in DOMAIN list : PlayQueue(list, i)
    \/ \E list \in Lists :
        ShufflePlay(list) \/ AddToQueue(list) \/ PlayNext(list) \/ ReplaceUpcoming(list)
    \/ \E i \in DOMAIN queue : RemoveTrack(i) \/ Jump(i)
    \/ \E i, j \in DOMAIN queue : Move(i, j)
    \/ ClearUpcoming \/ ToggleShuffle
    \/ NextTrack \/ PrevTrack
    \/ \E on \in BOOLEAN : SetPlaying(on)

-----------------------------------------------------------------------------
\* The end of a track, and the radio's continuations.

\* advancePaused: a sleep timer set to the end of the track.  Repeating one
\* track, or on the last one, it only stops.
AdvancePaused ==
    /\ playing
    /\ playing' = FALSE
    /\ \/ index < Len(queue) /\ index' = index + 1 /\ seq' = 1 - seq
       \/ UNCHANGED <<index, seq>>
    /\ UNCHANGED <<queue, order, autoplay, asked>>

\* onEnded: the next track, or around, or the radio is asked for more.
\* Repeating one track changes nothing here.
Ended ==
    /\ playing /\ ~ended
    /\ IF index < Len(queue) THEN Navigate(index + 1) /\ UNCHANGED ended
       ELSE \/ Navigate(1) /\ UNCHANGED ended
            \/ IF autoplay /\ Current # NoTrack
               THEN ended' = TRUE /\ UNCHANGED <<index, playing, seq>>
               ELSE Stop /\ UNCHANGED ended
    /\ UNCHANGED <<queue, order, autoplay, topup>>

\* autoExtend with the radio's answer, whatever the queue is by then.
EndedMore(list) ==
    /\ ended
    /\ Longer(list)
    /\ Navigate(index + 1)
    /\ ended' = FALSE
    /\ UNCHANGED <<shuffle, autoplay, topup>>

\* The radio had nothing, or could not be reached.
EndedNothing ==
    /\ ended
    /\ ended' = FALSE
    /\ Stop
    /\ UNCHANGED <<queue, order, autoplay, topup>>

\* ensureUpcoming: fewer than Ahead tracks to come.
AskTopUp ==
    /\ autoplay /\ index > 0 /\ index >= Len(queue) - Ahead
    /\ ~topup
    /\ topup' = TRUE
    /\ UNCHANGED <<store, ended>>

\* extend: the answer, less what is queued by then.
TopUp(list) ==
    /\ topup
    /\ topup' = FALSE
    /\ LET add == Unheard(list, queue)
       IN IF add = <<>> THEN UNCHANGED <<queue, orig>> ELSE Longer(add)
    /\ UNCHANGED <<index, playing, seq, shuffle, autoplay, ended>>

TopUpFails ==
    /\ topup
    /\ topup' = FALSE
    /\ UNCHANGED <<store, ended>>

Radio == \/ Ended \/ EndedNothing \/ AdvancePaused \/ AskTopUp \/ TopUpFails
         \/ \E list \in Lists : EndedMore(list) \/ TopUp(list)

\* A reload restores a window of the queue, the head of the old order, and
\* nothing of the requests.  The radio goes on again, cleared queue or not.
Reload ==
    /\ \E first, last \in DOMAIN queue :
         /\ last - first < Cap
         /\ queue' = SubSeq(queue, first, last)
         /\ index' \in DOMAIN queue'
    /\ orig' = SubSeq(orig, 1, Min({Cap, Len(orig)}))
    /\ playing' = FALSE /\ seq' = 0 /\ autoplay' = TRUE
    /\ topup' = FALSE /\ ended' = FALSE
    /\ UNCHANGED shuffle

Next == User \/ Radio \/ Reload

Spec == Init /\ [][Next]_vars

-----------------------------------------------------------------------------
\* Nothing but a deliberate navigation (seq), a reload or the removal of the
\* playing track changes what plays: not the edits around it, not the radio's
\* answers, not shuffling back and forth.  One exception: a track that playNext
\* put into the shuffled run is not in the order that un-shuffling goes back to.
KeepsPlaying ==
    [][/\ seq' = seq /\ ~Reload
       /\ Current # NoTrack
       /\ queue' # RemoveAt(queue, index)
       /\ ~(shuffle /\ ~shuffle' /\ orig # <<>> /\ Current \notin ToSet(orig))
       => Current' = Current]_vars

\* "On until the user clears the queue (clearUpcoming), off until they start a
\* new one": the radio adds nothing to a queue that was cleared.
ClearedStaysClear ==
    [][topup /\ ~topup' /\ ~autoplay /\ ~autoplay' => queue' = queue]_vars
=============================================================================
