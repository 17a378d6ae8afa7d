------------------------------- MODULE Party -------------------------------
(***************************************************************************)
(* The host's side of a listen party: the page that plays                  *)
(* (webapp/src/lib/party/host.js) publishes its timeline to the registry   *)
(* the server keeps in memory (supysonic/webui/party.py).                  *)
(*                                                                         *)
(* A timeline is a number: it grows whenever the player's line changes (a  *)
(* skip, a pause, a seek, a drift).  The page's continuations run to their *)
(* next await without interruption; requests and their answers are delayed *)
(* and lost, the server forgets the party when it restarts, and the user   *)
(* may end it at any time.  One tab hosts, so the only party of this user  *)
(* is this one.  The guests are in PartySeat.                              *)
(***************************************************************************)
EXTENDS Naturals

CONSTANTS
    MaxLine,    \* bound: changes of the player's line
    MaxForget   \* bound: how often the server loses the party

VARIABLES
    line, ready,    \* the player: its line, and whether measure() can read it
    hosting,        \* `session` is this one
    s,              \* the session: what flush() and send() share
    resume,         \* recover() in flight, for flush() and for heartbeat()
    beat,           \* heartbeat() in flight
    ending,         \* the DELETE of endParty() in flight
    party,          \* server: the line the party holds, or Gone
    forgets, calm   \* environment

vars == <<line, ready, hosting, s, resume, beat, ending, party, forgets, calm>>

Blank == 0               \* the state of a new Party: nothing plays
Lines == 1..MaxLine
NoLine == MaxLine + 1    \* pub: null
Gone == MaxLine + 2
Caller == {"flush", "beat"}
Answers == {"ok", "gone", "lost"}

\* `post` is the publish flush() waits for: "no", "ask", or its answer; it
\* carries the line `sent`.  `unsaid` is history: a recover() failed, and no
\* publish left since.
Session == [pub : Lines \cup {NoLine}, sent : {Blank} \cup Lines, inflight : BOOLEAN,
            dirty : BOOLEAN, retry : BOOLEAN, post : {"no", "ask"} \cup Answers,
            unsaid : BOOLEAN]

TypeOK ==
    /\ line \in Lines /\ ready \in BOOLEAN
    /\ hosting \in BOOLEAN
    /\ s \in Session
    /\ s.post # "no" => s.inflight
    /\ resume \in [Caller -> {"no", "ask", "ok", "lost"}]
    /\ resume["flush"] # "no" => s.inflight
    /\ beat \in {"no", "ask"} \cup Answers
    /\ ending \in BOOLEAN
    /\ party \in {Blank, Gone} \cup Lines
    /\ forgets \in 0..MaxForget /\ calm \in BOOLEAN

\* begin(): the party has just been opened.
Init ==
    /\ line = 1 /\ ready = FALSE
    /\ hosting = TRUE
    /\ s = [pub |-> NoLine, sent |-> Blank, inflight |-> FALSE, dirty |-> FALSE,
            retry |-> FALSE, post |-> "no", unsaid |-> FALSE]
    /\ resume = [c \in Caller |-> "no"]
    /\ beat = "no" /\ ending = FALSE
    /\ party = Blank
    /\ forgets = 0 /\ calm = FALSE

-----------------------------------------------------------------------------
(* The page.                                                                *)

\* The start of flush().  Without a line it throws before it asks anything,
\* inflight already set.
Flushed(h) ==
    LET n == [h EXCEPT !.inflight = TRUE, !.dirty = FALSE]
    IN IF h.pub = NoLine THEN n ELSE [n EXCEPT !.post = "ask", !.sent = h.pub, !.unsaid = FALSE]

\* Slip: what is sent during a publish does not mark the session dirty.
SentClean(h) ==
    LET n == [h EXCEPT !.pub = line, !.retry = FALSE]
    IN IF h.inflight THEN n ELSE Flushed(n)

\* send() of the line that plays.
Sent(h) ==
    LET n == [h EXCEPT !.pub = line, !.retry = FALSE]
    IN IF h.inflight THEN [n EXCEPT !.dirty = TRUE] ELSE Flushed(n)

\* measure(): nothing while the line is too young to be read or on hold.
Measured(h) == IF ready /\ (h.retry \/ h.pub # line) THEN Sent(h) ELSE h

\* The end of flush().
Finished(h) ==
    LET n == [h EXCEPT !.inflight = FALSE, !.post = "no"]
    IN IF hosting /\ n.dirty THEN Flushed(n) ELSE n

\* The player's line changes; a new line takes a few readings.
Move ==
    /\ ~calm /\ line < MaxLine
    /\ line' = line + 1
    /\ ready' \in BOOLEAN
    /\ UNCHANGED <<hosting, s, resume, beat, ending, party, forgets, calm>>

Ready ==
    /\ ~ready
    /\ ready' = TRUE
    /\ UNCHANGED <<line, hosting, s, resume, beat, ending, party, forgets, calm>>

\* The measuring timer.
Measure ==
    /\ hosting /\ Measured(s) # s
    /\ s' = Measured(s)
    /\ UNCHANGED <<line, ready, hosting, resume, beat, ending, party, forgets, calm>>

\* Slip: a publish that did not arrive is not said again.
PublishedNoRetry ==
    /\ s.post \in Answers
    /\ IF s.post = "gone" /\ hosting
       THEN /\ resume' = [resume EXCEPT !["flush"] = "ask"]
            /\ s' = [s EXCEPT !.post = "no"]
       ELSE s' = Finished(s) /\ UNCHANGED resume
    /\ UNCHANGED <<line, ready, hosting, beat, ending, party, forgets, calm>>

\* flush() gets the answer to its publish.
Published ==
    /\ s.post \in Answers
    /\ IF s.post = "gone" /\ hosting
       THEN /\ resume' = [resume EXCEPT !["flush"] = "ask"]
            /\ s' = [s EXCEPT !.post = "no"]
       ELSE /\ s' = Finished([s EXCEPT !.retry = @ \/ (s.post = "lost" /\ hosting)])
            /\ UNCHANGED resume
    /\ UNCHANGED <<line, ready, hosting, beat, ending, party, forgets, calm>>

Heartbeat ==
    /\ hosting /\ beat = "no" /\ resume["beat"] = "no"
    /\ beat' = "ask"
    /\ UNCHANGED <<line, ready, hosting, s, resume, ending, party, forgets, calm>>

\* heartbeat() recovers even when the session has ended meanwhile.
Beaten ==
    /\ beat \in Answers
    /\ resume' = IF beat = "gone" THEN [resume EXCEPT !["beat"] = "ask"] ELSE resume
    /\ beat' = "no"
    /\ UNCHANGED <<line, ready, hosting, s, ending, party, forgets, calm>>

\* recover() gets its answer: look at once, from nothing.
Recovered(c) ==
    /\ resume[c] \in {"ok", "lost"}
    /\ LET blank == [s EXCEPT !.pub = NoLine]
           seen == IF hosting THEN Measured(blank) ELSE blank
           n == IF resume[c] = "ok" THEN seen ELSE [s EXCEPT !.unsaid = TRUE]
       IN s' = IF c = "flush" THEN Finished(n) ELSE n
    /\ resume' = [resume EXCEPT ![c] = "no"]
    /\ UNCHANGED <<line, ready, hosting, beat, ending, party, forgets, calm>>

EndParty ==
    /\ ~calm /\ hosting
    /\ hosting' = FALSE /\ ending' = TRUE
    /\ UNCHANGED <<line, ready, s, resume, beat, party, forgets, calm>>

-----------------------------------------------------------------------------
(* The server.                                                              *)

\* party_publish: a timeline.
ServePublish ==
    /\ s.post = "ask"
    /\ s' = [s EXCEPT !.post = IF party = Gone THEN "gone" ELSE "ok"]
    /\ party' = IF party = Gone THEN Gone ELSE s.sent
    /\ UNCHANGED <<line, ready, hosting, resume, beat, ending, forgets, calm>>

\* party_publish: a heartbeat.
ServeBeat ==
    /\ beat = "ask"
    /\ beat' = IF party = Gone THEN "gone" ELSE "ok"
    /\ UNCHANGED <<line, ready, hosting, s, resume, ending, party, forgets, calm>>

\* party_create with the id to resume: the party, or a new one of that id.
ServeResume(c) ==
    /\ resume[c] = "ask"
    /\ resume' = [resume EXCEPT ![c] = "ok"]
    /\ party' = IF party = Gone THEN Blank ELSE party
    /\ UNCHANGED <<line, ready, hosting, s, beat, ending, forgets, calm>>

\* party_end
ServeEnd ==
    /\ ending
    /\ ending' = FALSE /\ party' = Gone
    /\ UNCHANGED <<line, ready, hosting, s, resume, beat, forgets, calm>>

\* _prune_parties: nobody has spoken for the party in PARTY_TTL.
Expire ==
    /\ ~hosting /\ party # Gone
    /\ s.post # "ask" /\ beat # "ask" /\ \A c \in Caller : resume[c] # "ask"
    /\ party' = Gone
    /\ UNCHANGED <<line, ready, hosting, s, resume, beat, ending, forgets, calm>>

\* The server restarts, or the host's machine sleeps past PARTY_TTL.
Forget ==
    /\ ~calm /\ forgets < MaxForget /\ party # Gone
    /\ forgets' = forgets + 1
    /\ party' = Gone
    /\ UNCHANGED <<line, ready, hosting, s, resume, beat, ending, calm>>

-----------------------------------------------------------------------------
(* The network loses a request or its answer.                               *)

LosePublish ==
    /\ ~calm /\ s.post \in {"ask", "ok", "gone"}
    /\ s' = [s EXCEPT !.post = "lost"]
    /\ UNCHANGED <<line, ready, hosting, resume, beat, ending, party, forgets, calm>>

LoseBeat ==
    /\ ~calm /\ beat \in {"ask", "ok", "gone"}
    /\ beat' = "lost"
    /\ UNCHANGED <<line, ready, hosting, s, resume, ending, party, forgets, calm>>

LoseResume(c) ==
    /\ ~calm /\ resume[c] \in {"ask", "ok"}
    /\ resume' = [resume EXCEPT ![c] = "lost"]
    /\ UNCHANGED <<line, ready, hosting, s, beat, ending, party, forgets, calm>>

LoseEnd ==
    /\ ~calm /\ ending
    /\ ending' = FALSE
    /\ UNCHANGED <<line, ready, hosting, s, resume, beat, party, forgets, calm>>

\* From here on the player plays on, and the network and the server work.
CalmDown ==
    /\ ~calm
    /\ calm' = TRUE
    /\ UNCHANGED <<line, ready, hosting, s, resume, beat, ending, party, forgets>>

-----------------------------------------------------------------------------
Next ==
    \/ Move \/ Ready \/ Measure \/ Published \/ Heartbeat \/ Beaten
    \/ \E c \in Caller : Recovered(c) \/ ServeResume(c) \/ LoseResume(c)
    \/ EndParty \/ ServePublish \/ ServeBeat \/ ServeEnd \/ Expire \/ Forget
    \/ LosePublish \/ LoseBeat \/ LoseEnd \/ CalmDown

\* The page's timers tick, its continuations run, the server answers, and a
\* line that plays is readable after a few readings.
Fairness ==
    /\ WF_vars(Ready) /\ WF_vars(Measure)
    /\ WF_vars(Published) /\ WF_vars(Beaten) /\ WF_vars(Heartbeat)
    /\ WF_vars(ServePublish) /\ WF_vars(ServeBeat) /\ WF_vars(ServeEnd)
    /\ WF_vars(Expire)
    /\ \A c \in Caller : WF_vars(Recovered(c)) /\ WF_vars(ServeResume(c))

Spec == Init /\ [][Next]_vars /\ Fairness

\* flush() died: inflight stays set with nothing in flight.
Frozen == s.inflight /\ s.post = "no" /\ resume["flush"] = "no"

\* A recover() whose answer was lost left the server with a blank party, and the
\* page with a line it takes for said: nothing under way says it again.
Silent ==
    /\ s.unsaid /\ s.pub = line /\ ~s.inflight /\ ~s.retry
    /\ party # Gone /\ beat # "gone" /\ \A c \in Caller : resume[c] = "no"

\* The party holds the line, and no older one is on its way.
Told == party = line /\ s.pub \in {line, NoLine} /\ (s.post = "ask" => s.sent = line)

\* The party is gone, and nothing under way brings it back.
Over ==
    /\ party = Gone /\ s.post # "ask" /\ beat \notin {"ask", "gone"}
    /\ \A c \in Caller : resume[c] # "ask"

Followed == calm /\ IF hosting THEN Told \/ Frozen \/ Silent ELSE Over

\* Whatever was lost, reordered or forgotten before, the party ends up holding
\* the line the host plays, and the one the host ended ends up gone, but for
\* two ways the page goes silent: flush() has died, or its line is unsaid.
GuestsFollow == calm ~> []Followed

\* "The server forgot the party (it restarted): take the same id back, so the
\* guests' link keeps working, and republish everything" (recover in host.js).
Republished == calm ~> [](hosting => party = line)
=============================================================================
