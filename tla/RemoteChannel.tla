--------------------------- MODULE RemoteChannel ---------------------------
(***************************************************************************)
(* The command channel of a remote control.  A controller posts commands   *)
(* to the server (remote_cmd in webui/remote.py); the controlled player    *)
(* (webapp/src/lib/remote/host.js) polls for them, runs them, and says how *)
(* far it is when it publishes its state.                                  *)
(*                                                                         *)
(* The channel lives in the server's memory: a restart, or an eviction,    *)
(* builds a new one, with new numbers.  Requests and answers are delayed   *)
(* and lost; the player's page is reloaded, and keeps its cursor.  A poll  *)
(* can be sent while another is in flight: the page coming back to the     *)
(* foreground, or on line, asks at once.                                   *)
(*                                                                         *)
(* A command is known by the channel it was posted to and its number.      *)
(* What it does to the player is not modelled.                             *)
(***************************************************************************)
EXTENDS Naturals

CONSTANTS
    Poll,      \* the polls that can be in flight at the same time
    MaxBoot,   \* bound: channels built after the first one
    MaxSeq     \* bound: commands posted to the first channel; each channel
               \* after it gets one less

ASSUME BoundAssumption == MaxBoot \in Nat /\ MaxSeq \in Nat

VARIABLES
    boot, seq, ack,   \* server: _Channel, and its numbers
    cmds,             \* server: the numbers of the commands it still serves
    online,           \* server: the player was heard of lately
    chan,             \* player: the channel it knows, or NoChannel
    since, applied,   \* player: its cursor in that channel
    poll,             \* per poll: what is in flight
    publish,          \* the publish in flight: its ack, or Nothing
    calm,             \* environment: nothing is lost or restarted any more
    ran,              \* history: how often each command was run, up to 2
    overlap           \* history: whether two polls were ever in flight

server == <<boot, seq, ack, cmds, online>>
player == <<chan, since, applied>>
history == <<ran, overlap>>
vars == <<server, player, poll, publish, calm, history>>

Boot == 0..MaxBoot
Seq0 == 0..MaxSeq
Command == Boot \X (1..MaxSeq)

NoChannel == MaxBoot + 1
Nothing == MaxSeq + 1
Free == [type |-> "none"]
Ask == [type : {"ask"}, since : Seq0, chan : Boot \cup {NoChannel}]
Answer == [type : {"answer"}, chan : Boot, reset : BOOLEAN, seq : Seq0,
           cmds : SUBSET (1..MaxSeq)]

Larger(a, b) == IF a >= b THEN a ELSE b
Smaller(a, b) == IF a <= b THEN a ELSE b

Init ==
    /\ boot = 0 /\ seq = 0 /\ ack = 0
    /\ cmds = {}
    /\ online = "no"
    /\ chan = NoChannel /\ since = 0 /\ applied = 0
    /\ poll = [p \in Poll |-> Free]
    /\ publish = Nothing
    /\ calm = "no"
    /\ ran = [c \in Command |-> 0]
    /\ overlap = "never"

-----------------------------------------------------------------------------
(* The server.                                                              *)

\* remote_cmd: refused while the player is off line.
Post ==
    /\ online = "yes"
    /\ seq + boot < MaxSeq
    /\ seq' = seq + 1
    /\ cmds' = cmds \cup {seq + 1}
    /\ UNCHANGED <<boot, ack, online, player, poll, publish, history, calm>>

\* A command is not served any more: it is older than CMD_TTL, its link was
\* cut (_revoke), or 64 newer ones pushed it out.
Expire(s) ==
    /\ s \in cmds
    /\ cmds' = cmds \ {s}
    /\ UNCHANGED <<boot, seq, ack, online, player, poll, publish, history, calm>>

\* Slip: a player that does not know the channel is served from its cursor.
ServePollSince(p) ==
    /\ poll[p].type = "ask"
    /\ online' = "yes"
    /\ poll' = [poll EXCEPT ![p] =
         [type |-> "answer", chan |-> boot, reset |-> poll[p].chan # boot,
          seq |-> seq, cmds |-> {s \in cmds : s > poll[p].since}]]
    /\ UNCHANGED <<boot, seq, ack, cmds, player, publish, history, calm>>

\* remote_host_poll: a player that does not know this channel is served
\* everything that is fresh.
ServePoll(p) ==
    /\ poll[p].type = "ask"
    /\ online' = "yes"
    /\ LET reset == poll[p].chan # boot
           from == IF reset THEN 0 ELSE poll[p].since
       IN poll' = [poll EXCEPT ![p] =
            [type |-> "answer", chan |-> boot, reset |-> reset, seq |-> seq,
             cmds |-> {s \in cmds : s > from}]]
    /\ UNCHANGED <<boot, seq, ack, cmds, player, publish, history, calm>>

\* Slip: the ack is how far the player was served, not how far it ran.
ServePublishSeq ==
    /\ publish # Nothing
    /\ online' = "yes"
    /\ ack' = seq
    /\ publish' = Nothing
    /\ UNCHANGED <<boot, seq, cmds, player, poll, history, calm>>

\* Slip: an ack of another channel is not cut down to this one's numbers.
ServePublishUncut ==
    /\ publish # Nothing
    /\ online' = "yes"
    /\ ack' = Larger(ack, publish)
    /\ publish' = Nothing
    /\ UNCHANGED <<boot, seq, cmds, player, poll, history, calm>>

\* remote_host_publish, whichever channel the player believes it is on.
ServePublish ==
    /\ publish # Nothing
    /\ online' = "yes"
    /\ ack' = Larger(ack, Smaller(publish, seq))
    /\ publish' = Nothing
    /\ UNCHANGED <<boot, seq, cmds, player, poll, history, calm>>

\* Nothing was heard of the player for HOST_ONLINE.
GoOffline ==
    /\ online' = "no"
    /\ UNCHANGED <<boot, seq, ack, cmds, player, poll, publish, history, calm>>

\* A restart of the server, the eviction of the channel, or the last link cut
\* and another one made: the channel is built anew.
Restart ==
    /\ calm = "no"
    /\ boot < MaxBoot
    /\ boot' = boot + 1
    /\ seq' = 0
    /\ ack' = 0
    /\ cmds' = {}
    /\ online' = "no"
    /\ UNCHANGED <<player, poll, publish, history, calm>>

-----------------------------------------------------------------------------
(* The player's page.                                                       *)

InFlight == {p \in Poll : poll[p] # Free}

\* poll: the request goes out.
SendPoll(p) ==
    /\ poll[p] = Free
    /\ poll' = [poll EXCEPT ![p] = [type |-> "ask", since |-> since, chan |-> chan]]
    /\ overlap' = IF InFlight # {} THEN "once" ELSE overlap
    /\ UNCHANGED <<server, player, publish, ran, calm>>

\* What poll makes of an answer: the commands above the cursor are run, in
\* order, and the cursor is saved, without anything in between.
RunAbove(a, from) ==
    LET todo == {s \in a.cmds : s > from}
        last == IF todo = {} THEN from ELSE CHOOSE s \in todo : \A u \in todo : u <= s
    IN /\ ran' = [c \in Command |->
                    IF c[1] = a.chan /\ c[2] \in todo /\ ran[c] < 2
                    THEN ran[c] + 1 ELSE ran[c]]
       /\ applied' = last

\* Slip: what is served, and not what was run before, decides what is run.
ReceiveForgetful(p) ==
    LET a == poll[p] IN
    /\ a.type = "answer"
    /\ RunAbove(a, 0)
    /\ since' = applied'
    /\ chan' = a.chan
    /\ poll' = [poll EXCEPT ![p] = Free]
    /\ UNCHANGED <<server, publish, overlap, calm>>

\* poll: the answer arrives.
Receive(p) ==
    LET a == poll[p]
        new == a.reset \/ a.chan # chan
    IN
    /\ a.type = "answer"
    /\ chan' = a.chan
    /\ RunAbove(a, IF new THEN 0 ELSE applied)
    /\ since' = Larger(IF new THEN 0 ELSE since, Larger(a.seq, applied'))
    /\ poll' = [poll EXCEPT ![p] = Free]
    /\ UNCHANGED <<server, publish, overlap, calm>>

\* The poll, or its answer, is lost: the request times out.
LosePoll(p) ==
    /\ calm = "no"
    /\ poll[p] # Free
    /\ poll' = [poll EXCEPT ![p] = Free]
    /\ UNCHANGED <<server, player, publish, history, calm>>

\* publish, one at a time; nothing the model keeps changes with its answer.
SendPublish ==
    /\ publish = Nothing
    /\ publish' = applied
    /\ UNCHANGED <<server, player, poll, history, calm>>
LosePublish ==
    /\ publish # Nothing
    /\ publish' = Nothing
    /\ UNCHANGED <<server, player, poll, history, calm>>

\* The page is reloaded: what was in flight is gone, the cursor is loaded.
Reload ==
    /\ calm = "no"
    /\ since' = applied
    /\ poll' = [p \in Poll |-> Free]
    /\ publish' = Nothing
    /\ UNCHANGED <<server, chan, applied, history, calm>>

\* From here on the server, the page and the network between them hold.  It
\* may never come to this.
Calm ==
    /\ calm = "no"
    /\ calm' = "yes"
    /\ UNCHANGED <<server, player, poll, publish, history>>

-----------------------------------------------------------------------------
Turn(p) == ServePoll(p) \/ Receive(p)

Next ==
    \/ Post \/ \E s \in 1..MaxSeq : Expire(s)
    \/ ServePublish \/ GoOffline \/ Restart
    \/ \E p \in Poll : SendPoll(p) \/ Turn(p) \/ LosePoll(p)
    \/ SendPublish \/ LosePublish \/ Reload \/ Calm

Spec == Init /\ [][Next]_vars

\* The poll loop asks again and again, and some poll in flight gets on,
\* unless all are lost.
Fairness ==
    /\ WF_vars(\E p \in Poll : SendPoll(p))
    /\ WF_vars(\E p \in Poll : Turn(p))

FairSpec == Spec /\ Fairness

-----------------------------------------------------------------------------
TypeOK ==
    /\ boot \in Boot /\ seq \in Seq0 /\ ack \in 0..seq
    /\ cmds \subseteq 1..seq
    /\ online \in {"yes", "no"}
    /\ chan \in Boot \cup {NoChannel}
    /\ since \in Seq0 /\ applied \in 0..since
    /\ poll \in [Poll -> Ask \cup Answer \cup {Free}]
    /\ publish \in Seq0 \cup {Nothing}
    /\ calm \in {"no", "yes"}
    /\ ran \in [Command -> 0..2]
    /\ overlap \in {"never", "once"}

\* While polls are sent one at a time, commands are run in the order of posting
\* and none is run twice: across lost answers, reloads of the page and restarts
\* of the server.
RunOnceInOrder ==
    [][overlap = "never" =>
         \A c, d \in Command :
            c[1] = d[1] /\ c[2] <= d[2] /\ ran[d] > 0 => ran'[c] = ran[c]]_vars

\* On its first channel, a command that is still served and acknowledged has
\* been run: whatever was lost, reloaded or polled twice, the controller does
\* not drop its view of a tap that has not landed.
AckedWasRun ==
    boot = 0 => \A s \in cmds : s <= ack => ran[<<boot, s>>] > 0

\* Once the messages get through again and the page and the server stay up,
\* the player catches up with every command that is still fresh: also one
\* posted while it was reconnecting to a channel it did not know.
CommandLands ==
    (calm = "yes") ~> (\A s \in cmds : ran[<<boot, s>>] > 0)

-----------------------------------------------------------------------------
(* What the comments say and the code does not do (see README, findings).   *)

\* "Without it a reload ... would be handed the same "next" again ... and skip
\* twice": no command is run twice.
NeverTwice == \A c \in Command : ran[c] <= 1
=============================================================================
