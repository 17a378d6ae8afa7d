----------------------------- MODULE PartySeat -----------------------------
(***************************************************************************)
(* One guest of a listen party (webapp/src/lib/party/guest.js) and what    *)
(* the server knows of it (supysonic/webui/party.py): the seat it listens  *)
(* on, and the timeline it polls for.  The host's side, which decides what *)
(* timeline the server holds, is in Party; here it changes at any time.    *)
(*                                                                         *)
(* poll() schedules itself again.  A page that becomes visible asks at     *)
(* once, also while a poll is in flight: from then on two loops run.       *)
(***************************************************************************)
EXTENDS Naturals, FiniteSets

CONSTANTS
    Poll,       \* the poll loops that may run
    MaxLine,    \* bound: timelines published
    MaxSeat     \* bound: seats taken

VARIABLES
    line,        \* server: the timeline it holds, or Gone when it has no party
    seats,       \* server: party.listeners
    taken,       \* server: the ids it has given
    phase,       \* guest: "live", or "over" after end()
    lid, heard,  \* guest: its seat, and the timeline its engine plays
    timer,       \* guest: the loop whose timeout is in pollTimer, or NoTimer
    loop,        \* guest: per loop, what it waits for
    join,        \* guest: takeSeat() in flight
    calm         \* environment

vars == <<line, seats, taken, phase, lid, heard, timer, loop, join, calm>>

Gone == MaxLine + 1
NoSeat == 0
NoTimer == "none"
Me == {"none", "yes", "no"}
Idle == [at |-> "idle"]
Waiting == [at |-> "timer"]
Joining == [at |-> "ask"]
Lost == [at |-> "lost"]
Asked == [at : {"ask"}, l : 0..MaxSeat]
Answered == [at : {"answer"}, line : 0..Gone, me : Me]

TypeOK ==
    /\ line \in 0..Gone
    /\ seats \subseteq 1..taken /\ taken \in 0..MaxSeat
    /\ phase \in {"live", "over"}
    /\ lid \in 0..taken
    /\ heard \in 0..MaxLine
    /\ timer \in Poll \cup {NoTimer}
    /\ loop \in [Poll -> {Idle, Waiting, Lost} \cup Asked \cup Answered]
    /\ join \in {Idle, Joining, Lost} \cup [at : {"answer"}, l : 1..MaxSeat]
    /\ calm \in BOOLEAN

\* joinParty() on a fresh page: it takes a seat and polls.
Init ==
    /\ line = 0 /\ seats = {} /\ taken = 0
    /\ phase = "live" /\ lid = NoSeat /\ heard = 0
    /\ timer = NoTimer
    /\ LET first == CHOOSE p \in Poll : TRUE
       IN loop = [p \in Poll |-> IF p = first THEN [at |-> "ask", l |-> NoSeat] ELSE Idle]
    /\ join = Joining
    /\ calm = FALSE

-----------------------------------------------------------------------------
(* The server.                                                              *)

\* A timeline is published; the party is forgotten (a restart), or taken back
\* under its id by its host, without its listeners.
Publish ==
    /\ ~calm /\ line < MaxLine
    /\ line' = line + 1
    /\ UNCHANGED <<seats, taken, phase, lid, heard, timer, loop, join, calm>>

Forget ==
    /\ ~calm /\ line # Gone
    /\ line' = Gone /\ seats' = {}
    /\ UNCHANGED <<taken, phase, lid, heard, timer, loop, join, calm>>

Resume ==
    /\ line = Gone
    /\ line' = MaxLine
    /\ UNCHANGED <<seats, taken, phase, lid, heard, timer, loop, join, calm>>

\* prune_listeners: a seat nobody polls for, or one whose page was frozen.
Drop(l) ==
    /\ l \in seats
    /\ \/ ~calm
       \/ l # lid /\ \A p \in Poll : loop[p].at = "ask" => loop[p].l # l
    /\ seats' = seats \ {l}
    /\ UNCHANGED <<line, taken, phase, lid, heard, timer, loop, join, calm>>

\* party_state
ServePoll(p) ==
    /\ loop[p].at = "ask"
    /\ loop' = [loop EXCEPT ![p] =
         [at |-> "answer", line |-> line,
          me |-> IF loop[p].l = NoSeat THEN "none"
                 ELSE IF loop[p].l \in seats THEN "yes" ELSE "no"]]
    /\ UNCHANGED <<line, seats, taken, phase, lid, heard, timer, join, calm>>

\* party_join: the seat goes to the party as it was found, gone or not.
ServeJoin ==
    /\ join = Joining
    /\ IF line = Gone
       THEN join' = Lost /\ UNCHANGED <<seats, taken>>
       ELSE /\ taken < MaxSeat
            /\ taken' = taken + 1
            /\ seats' = seats \cup {taken + 1}
            /\ join' = [at |-> "answer", l |-> taken + 1]
    /\ UNCHANGED <<line, phase, lid, heard, timer, loop, calm>>

-----------------------------------------------------------------------------
(* The guest.                                                               *)

\* The start of a loop's poll.
Asks(p) == [loop EXCEPT ![p] = [at |-> "ask", l |-> lid]]

\* takeSeat(true), unless one is in flight.
TakeSeat == IF join = Idle THEN join' = Joining /\ lid' = NoSeat ELSE UNCHANGED <<join, lid>>

\* Slip: a guest the server does not know any more keeps its old seat.
PolledSeated(p) ==
    /\ phase = "live" /\ loop[p].at \in {"answer", "lost"}
    /\ IF loop[p].at = "answer" /\ loop[p].line = Gone
       THEN /\ phase' = "over" /\ timer' = NoTimer
            /\ loop' = [loop EXCEPT ![p] = Idle]
            /\ UNCHANGED <<lid, heard, join>>
       ELSE /\ heard' = IF loop[p].at = "answer" THEN loop[p].line ELSE heard
            /\ loop' = [loop EXCEPT ![p] = Waiting] /\ timer' = p
            /\ UNCHANGED <<phase, lid, join>>
    /\ UNCHANGED <<line, seats, taken, calm>>

\* poll() gets its answer, whichever loop asked and whenever it asked: the
\* timeline is applied as it comes.
Polled(p) ==
    /\ phase = "live" /\ loop[p].at \in {"answer", "lost"}
    /\ IF loop[p].at = "answer" /\ loop[p].line = Gone
       THEN /\ phase' = "over" /\ timer' = NoTimer
            /\ loop' = [loop EXCEPT ![p] = Idle]
            /\ UNCHANGED <<lid, heard, join>>
       ELSE /\ heard' = IF loop[p].at = "answer" THEN loop[p].line ELSE heard
            /\ loop' = [loop EXCEPT ![p] = Waiting] /\ timer' = p
            /\ IF loop[p].at = "answer" /\ lid # NoSeat /\ loop[p].me = "no"
               THEN TakeSeat
               ELSE UNCHANGED <<lid, join>>
            /\ UNCHANGED phase
    /\ UNCHANGED <<line, seats, taken, calm>>

Again(p) ==
    /\ phase = "live" /\ loop[p] = Waiting
    /\ loop' = Asks(p)
    /\ timer' = IF timer = p THEN NoTimer ELSE timer
    /\ UNCHANGED <<line, seats, taken, phase, lid, heard, join, calm>>

\* onVisible: the timeout in pollTimer is cleared and a poll leaves at once,
\* in a loop of its own when another is in flight.
Visible ==
    /\ ~calm /\ phase = "live"
    /\ \/ /\ timer # NoTimer /\ loop[timer] = Waiting
          /\ loop' = Asks(timer)
       \/ /\ timer = NoTimer
          /\ \E p \in Poll : loop[p] = Idle /\ loop' = Asks(p)
    /\ timer' = NoTimer
    /\ UNCHANGED <<line, seats, taken, phase, lid, heard, join, calm>>

\* takeSeat() gets its answer; "listening works without a seat".
Joined ==
    /\ join.at \in {"answer", "lost"}
    /\ lid' = IF join = Lost THEN lid ELSE join.l
    /\ join' = Idle
    /\ UNCHANGED <<line, seats, taken, phase, heard, timer, loop, calm>>

-----------------------------------------------------------------------------
LosePoll(p) ==
    /\ ~calm /\ loop[p].at \in {"ask", "answer"}
    /\ loop' = [loop EXCEPT ![p] = Lost]
    /\ UNCHANGED <<line, seats, taken, phase, lid, heard, timer, join, calm>>

LoseJoin ==
    /\ ~calm /\ join.at \in {"ask", "answer"}
    /\ join' = Lost
    /\ UNCHANGED <<line, seats, taken, phase, lid, heard, timer, loop, calm>>

\* From here on the network works and the host plays on.
CalmDown ==
    /\ ~calm
    /\ calm' = TRUE
    /\ UNCHANGED <<line, seats, taken, phase, lid, heard, timer, loop, join>>

Next ==
    \/ Publish \/ Forget \/ Resume \/ ServeJoin \/ Visible \/ Joined
    \/ LoseJoin \/ CalmDown
    \/ \E l \in 1..MaxSeat : Drop(l)
    \/ \E p \in Poll : ServePoll(p) \/ Polled(p) \/ Again(p) \/ LosePoll(p)

\* The server answers, timers fire, continuations run, silent seats are
\* pruned, and the host takes its party back.
Fairness ==
    /\ WF_vars(Resume) /\ WF_vars(ServeJoin) /\ WF_vars(Joined)
    /\ \A l \in 1..MaxSeat : WF_vars(Drop(l))
    /\ \A p \in Poll : WF_vars(ServePoll(p)) /\ WF_vars(Polled(p)) /\ WF_vars(Again(p))

Spec == Init /\ [][Next]_vars /\ Fairness

\* The guest plays what the server holds and is listed on the seat it has, and
\* no poll in flight carries an older timeline, or news of an older seat.
Hears ==
    /\ calm /\ line # Gone /\ heard = line
    /\ seats = {lid} \ {NoSeat} /\ join \in {Idle, Lost}
    /\ \A p \in Poll :
        /\ loop[p].at = "ask" => loop[p].l \in {lid, NoSeat}
        /\ loop[p].at = "answer" => loop[p].line = line /\ (loop[p].me = "no" => lid = NoSeat)

AtRest == phase = "over" \/ taken = MaxSeat \/ Hears

\* A guest that was not told the party is over ends up playing what the server
\* holds, however its polls overlapped, and in the list of listeners once at
\* most: on the seat it has.
GuestHears == calm ~> []AtRest
=============================================================================
