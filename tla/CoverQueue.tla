----------------------------- MODULE CoverQueue -----------------------------
(***************************************************************************)
(* Which artwork to fetch first (webapp/src/lib/coverqueue.js): the covers *)
(* of the page ask for a turn, a few are in flight at once, and each slot  *)
(* that frees goes to the waiting cover nearest to the screen.             *)
(*                                                                         *)
(* Nothing runs for its own sake: who waits is looked at again only in an  *)
(* animation frame that somebody scheduled, or when the recheck timer      *)
(* fires.  The distance of a cover is the place it is in; which of several *)
(* covers in the same place comes first is left open.                      *)
(***************************************************************************)
EXTENDS Integers, FiniteSets

CONSTANTS
    Cover,
    MAX_INFLIGHT,
    AHEAD_SLOTS     \* of those, for covers that are not on screen

VARIABLES
    place,      \* where a cover is: see Place
    pending,    \* covers that wait for a turn
    started,    \* covers that had theirs, and have not settled
    counted,    \* those of them that hold a slot
    stall,      \* covers whose stall timer runs
    inflight,
    frame,      \* an animation frame is scheduled
    recheck     \* the recheck timer runs

vars == <<place, pending, started, counted, stall, inflight, frame, recheck>>

\* Not built yet, on screen, within the horizon, beyond it, out of the page.
Place == {"unbuilt", "screen", "near", "far", "gone"}

TypeOK ==
    /\ place \in [Cover -> Place]
    /\ pending \subseteq Cover /\ started \subseteq Cover /\ pending \cap started = {}
    /\ counted \subseteq started /\ stall \subseteq counted
    /\ inflight \in 0..MAX_INFLIGHT
    /\ frame \in BOOLEAN /\ recheck \in BOOLEAN

Init ==
    /\ place = [c \in Cover |-> "unbuilt"]
    /\ pending = {} /\ started = {} /\ counted = {} /\ stall = {}
    /\ inflight = 0 /\ frame = FALSE /\ recheck = FALSE

-----------------------------------------------------------------------------
\* schedule, for the covers that wait after the step.
Schedule == frame' = (frame \/ pending' # {})

\* admit, of some covers.
Admit(covers) ==
    /\ started' = started \cup covers
    /\ counted' = counted \cup covers
    /\ stall' = stall \cup covers
    /\ inflight' = inflight + Cardinality(covers)

\* requestCover: straight to the network when on screen and there is room.
Request(c) ==
    /\ c \notin pending \cup started /\ place[c] # "gone"
    /\ IF inflight < MAX_INFLIGHT /\ place[c] = "screen"
         THEN Admit({c}) /\ UNCHANGED <<pending, frame>>
         ELSE pending' = pending \cup {c} /\ Schedule
              /\ UNCHANGED <<started, counted, stall, inflight>>
    /\ UNCHANGED <<place, recheck>>

\* The tile is built, or the page moves under it without a scroll.
Shift(c) ==
    /\ \E p \in Place \ {"unbuilt"} : place' = [place EXCEPT ![c] = p]
    /\ place[c] # "gone"
    /\ UNCHANGED <<pending, started, counted, stall, inflight, frame, recheck>>

\* A row is recycled, or its page shown again.
Rebuild(c) ==
    /\ place[c] = "gone" /\ c \notin pending \cup started
    /\ place' = [place EXCEPT ![c] = "unbuilt"]
    /\ UNCHANGED <<pending, started, counted, stall, inflight, frame, recheck>>

\* onScroll, and a resize: the covers that are built come to other places.
Scroll ==
    /\ \E p \in [Cover -> {"screen", "near", "far"}] :
          place' = [c \in Cover |-> IF place[c] \in {"unbuilt", "gone"} THEN place[c] ELSE p[c]]
    /\ UNCHANGED pending
    /\ Schedule
    /\ UNCHANGED <<started, counted, stall, inflight, recheck>>

-----------------------------------------------------------------------------
Least(m, n) == IF m < n THEN m ELSE n

\* The covers a pump lets through: those on screen while there is a slot, then
\* the others while fewer than AHEAD_SLOTS are taken.
Turns(waiting) ==
    LET onScreen == {c \in waiting : place[c] = "screen"}
        others == {c \in waiting : place[c] \in {"near", "unbuilt"}}
        seen == Least(Cardinality(onScreen), MAX_INFLIGHT - inflight)
        ahead == IF AHEAD_SLOTS > inflight + seen
                   THEN Least(Cardinality(others), AHEAD_SLOTS - inflight - seen) ELSE 0
    IN {covers \in SUBSET (onScreen \cup others) :
           Cardinality(covers \cap onScreen) = seen /\ Cardinality(covers \cap others) = ahead}

\* Slip: the next look is left to the slots that free.
PumpOnce ==
    /\ frame /\ frame' = FALSE
    /\ LET waiting == {c \in pending : place[c] # "gone"}
       IN \E covers \in Turns(waiting) : Admit(covers) /\ pending' = waiting \ covers
    /\ UNCHANGED <<place, recheck>>

Pump ==
    /\ frame
    /\ LET waiting == {c \in pending : place[c] # "gone"}
           unmeasured == \E c \in waiting : place[c] = "unbuilt"
       IN /\ \E covers \in Turns(waiting) : Admit(covers) /\ pending' = waiting \ covers
          /\ frame' = (pending' # {} /\ unmeasured /\ inflight' < MAX_INFLIGHT)
          /\ recheck' = (recheck \/ (pending' # {} /\ ~unmeasured /\ inflight' < MAX_INFLIGHT))
    /\ UNCHANGED place

Recheck ==
    /\ recheck
    /\ recheck' = FALSE
    /\ UNCHANGED pending /\ Schedule
    /\ UNCHANGED <<place, started, counted, stall, inflight>>

-----------------------------------------------------------------------------
\* free: the slot goes back, once.
Free(c) ==
    /\ counted' = counted \ {c}
    /\ inflight' = IF c \in counted /\ inflight > 0 THEN inflight - 1 ELSE inflight

\* STALL_MS are over: the image goes on loading without a slot.
Stall(c) ==
    /\ c \in stall
    /\ stall' = stall \ {c}
    /\ Free(c)
    /\ UNCHANGED pending /\ Schedule
    /\ UNCHANGED <<place, started, recheck>>

\* release: the image settled, or its cover went away or changed its source.
Release(c) ==
    /\ c \in pending \cup started
    /\ pending' = pending \ {c}
    /\ started' = started \ {c}
    /\ stall' = stall \ {c}
    /\ Free(c)
    /\ IF c \in started \ counted THEN UNCHANGED frame ELSE Schedule
    /\ UNCHANGED <<place, recheck>>

Next ==
    \/ \E c \in Cover : Request(c) \/ Shift(c) \/ Rebuild(c) \/ Stall(c) \/ Release(c)
    \/ Scroll \/ Pump \/ Recheck

Spec == Init /\ [][Next]_vars

-----------------------------------------------------------------------------
\* No picture is lost, and no slot: while a cover waits, a frame or the recheck
\* will look at it again, or every slot is taken; a slot is held by one cover
\* that counts, and its stall timer runs, so that it comes back even if the
\* network never answers.
Attended ==
    /\ pending # {} => frame \/ recheck \/ inflight = MAX_INFLIGHT
    /\ inflight = Cardinality(counted)
    /\ counted = stall
=============================================================================
