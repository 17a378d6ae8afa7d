------------------------------ MODULE MCMends -------------------------------
(***************************************************************************)
(* Five parts that promise to come right again in the end: the host and a  *)
(* guest of a listen party, the links of the remote control, the verdict   *)
(* on a track, the enrichment queue.  They do not meet: each behaviour of  *)
(* this module is one of the part it focuses on, and one run checks them   *)
(* all.  The links are extended and not instantiated, so that their        *)
(* invariant here is the one MendsProofs is about.                         *)
(***************************************************************************)
EXTENDS RemoteLinks

CONSTANTS MaxLine, MaxForget, Poll, SeatLines, MaxSeat, MaxTurn, Producer, Cap

VARIABLES
    focus,
    line, ready, hosting, s, resume, beat, ending, party, forgets, calm,
    timeline, seats, taken, phase, lid, heard, timer, loop, join, quiet,
    deezer, turns, file, verdict, asking, settled,
    waiting, worker, putting, late

Host == INSTANCE Party
Seat == INSTANCE PartySeat WITH line <- timeline, calm <- quiet, MaxLine <- SeatLines
Rights == INSTANCE Availability WITH thread <- asking
Enrich == INSTANCE EnrichQueue

ofHost == <<line, ready, hosting, s, resume, beat, ending, party, forgets, calm>>
ofSeat == <<timeline, seats, taken, phase, lid, heard, timer, loop, join, quiet>>
ofLinks == vars
ofRights == <<deezer, turns, file, verdict, asking, settled>>
ofEnrich == <<waiting, worker, putting, late>>
allVars == <<focus, ofHost, ofSeat, ofLinks, ofRights, ofEnrich>>

MendsInit ==
    /\ focus \in {"host", "seat", "links", "rights", "enrich"}
    /\ Host!Init /\ Seat!Init /\ Init /\ Rights!Init /\ Enrich!Init
    /\ focus # "links" => uid = "nobody"

MendsNext ==
    /\ UNCHANGED focus
    /\ \/ focus = "host" /\ Host!Next /\ UNCHANGED <<ofSeat, ofLinks, ofRights, ofEnrich>>
       \/ focus = "seat" /\ Seat!Next /\ UNCHANGED <<ofHost, ofLinks, ofRights, ofEnrich>>
       \/ focus = "links" /\ Next /\ UNCHANGED <<ofHost, ofSeat, ofRights, ofEnrich>>
       \/ focus = "rights" /\ Rights!Next /\ UNCHANGED <<ofHost, ofSeat, ofLinks, ofEnrich>>
       \/ focus = "enrich" /\ Enrich!Next /\ UNCHANGED <<ofHost, ofSeat, ofLinks, ofRights>>

\* The fairness of each part, in the behaviours that are its own.
HostFairness ==
    /\ WF_ofHost(focus = "host" /\ Host!Ready) /\ WF_ofHost(focus = "host" /\ Host!Measure)
    /\ WF_ofHost(focus = "host" /\ Host!Published) /\ WF_ofHost(focus = "host" /\ Host!Beaten)
    /\ WF_ofHost(focus = "host" /\ Host!Heartbeat) /\ WF_ofHost(focus = "host" /\ Host!ServePublish)
    /\ WF_ofHost(focus = "host" /\ Host!ServeBeat) /\ WF_ofHost(focus = "host" /\ Host!ServeEnd)
    /\ WF_ofHost(focus = "host" /\ Host!Expire)
    /\ \A c \in Host!Caller : /\ WF_ofHost(focus = "host" /\ Host!Recovered(c))
                              /\ WF_ofHost(focus = "host" /\ Host!ServeResume(c))

SeatFairness ==
    /\ WF_ofSeat(focus = "seat" /\ Seat!Resume) /\ WF_ofSeat(focus = "seat" /\ Seat!ServeJoin)
    /\ WF_ofSeat(focus = "seat" /\ Seat!Joined)
    /\ \A l \in 1..MaxSeat : WF_ofSeat(focus = "seat" /\ Seat!Drop(l))
    /\ \A p \in Poll : /\ WF_ofSeat(focus = "seat" /\ Seat!ServePoll(p))
                       /\ WF_ofSeat(focus = "seat" /\ Seat!Polled(p))
                       /\ WF_ofSeat(focus = "seat" /\ Seat!Again(p))

LinksFairness ==
    /\ \A l \in Link : /\ WF_ofLinks(focus = "links" /\ CacheExpires(l))
                       /\ WF_ofLinks(focus = "links" /\ CommandExpires(l))
    /\ \A t \in Thread : /\ WF_ofLinks(focus = "links" /\ Fetch(t))
                         /\ WF_ofLinks(focus = "links" /\ Fill(t))
                         /\ WF_ofLinks(focus = "links" /\ Command(t))
                         /\ WF_ofLinks(focus = "links" /\ Forget(t))
                         /\ WF_ofLinks(focus = "links" /\ Purge(t))

RightsFairness ==
    /\ WF_ofRights(focus = "rights" /\ Rights!Ages)
    /\ \A t \in Thread : WF_ofRights(focus = "rights" /\ Rights!GoesOn(t))

EnrichFairness ==
    /\ \A p \in Producer : WF_ofEnrich(focus = "enrich" /\ Enrich!EnsureWorker(p))
    /\ WF_ofEnrich(focus = "enrich" /\ Enrich!Take) /\ WF_ofEnrich(focus = "enrich" /\ Enrich!Enriched)
    /\ WF_ofEnrich(focus = "enrich" /\ Enrich!Ends)

MendsSpec == /\ MendsInit /\ [][MendsNext]_allVars
             /\ HostFairness /\ SeatFairness /\ LinksFairness /\ RightsFairness /\ EnrichFairness

-----------------------------------------------------------------------------
MendsTypeOK == Host!TypeOK /\ Seat!TypeOK /\ TypeOK /\ Rights!TypeOK /\ Enrich!TypeOK

\* The party ends up on the line its host plays, unless the page went silent
\* (host.js).
GuestsFollow == Host!GuestsFollow

\* A guest ends up playing what the server holds, on one seat (guest.js).
GuestHears == Seat!GuestHears

\* The verdict on a track comes to say what is (mark_unavailable,
\* clear_unavailable).
VerdictMends == Rights!VerdictMends

\* Queued tracks are taken, however often the worker ends, unless the queue is
\* filled while it does (queue_track, _drain).
TracksTaken == Enrich!TracksTaken
=============================================================================
