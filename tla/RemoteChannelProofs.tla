------------------------ MODULE RemoteChannelProofs ------------------------
(***************************************************************************)
(* For every set of polls, number of channels and number of commands: the  *)
(* channel's types; that commands are run once and in order while polls    *)
(* are sent one at a time; and that what is acknowledged was run.          *)
(*                                                                         *)
(* Neither of the last two is inductive.  The first needs that the poll in *)
(* flight knows the channel the player knows, so that its answer says      *)
(* "reset" exactly when the channel is another, and a later one; the       *)
(* second that everything a number stands for, wherever it is (the cursor, *)
(* an ask, a publish, the ack), was run, and that an answer carries what   *)
(* was not.                                                                *)
(***************************************************************************)
EXTENDS RemoteChannel, WellFoundedInduction, TLAPS

-----------------------------------------------------------------------------
(* Running what is served.                                                  *)

\* A set of numbers up to a bound has a largest one.
LEMMA LargestExists ==
    ASSUME NEW n \in Nat, NEW S, S \subseteq 0..n, S # {}
    PROVE  \E s \in S : \A u \in S : u <= s
<1> DEFINE T == {n - s : s \in S}
           R == OpToRel(<, Nat)
<1>1. T # {} /\ \A s \in S : n - s \in T
  OBVIOUS
<1>2. T \subseteq Nat
  <2>1. \A s \in S : s \in Nat /\ n - s \in Nat
    OBVIOUS
  <2> QED
    BY <2>1
<1>3. \A x, y \in Nat : x < y => <<x, y>> \in R
  BY DEF OpToRel
<1>4. IsWellFoundedOn(R, Nat)
  BY NatLessThanWellFounded
<1>5. \A m \in T : \E s \in S : m = n - s
  OBVIOUS
<1> HIDE DEF T, R
<1>6. PICK m \in T : \A k \in T : ~ (<<k, m>> \in R)
  BY <1>1, <1>2, <1>4, WFMin
<1>7. PICK s \in S : m = n - s
  BY <1>5
<1>8. ASSUME NEW u \in S PROVE u <= s
  <2>1. ~ (n - u < m)
    BY <1>1, <1>2, <1>3, <1>6
  <2>2. u \in 0..n /\ s \in 0..n
    OBVIOUS
  <2> QED
    BY <1>7, <2>1, <2>2
<1> QED
  BY <1>8

LEMMA RunAboveDoes ==
    ASSUME MaxBoot \in Nat, MaxSeq \in Nat, ran \in [Command -> 0..2],
           NEW a \in Answer, NEW from \in Seq0, RunAbove(a, from)
    PROVE  /\ ran' \in [Command -> 0..2]
           /\ \A c \in Command :
                 /\ ran[c] > 0 => ran'[c] > 0
                 /\ c[1] = a.chan /\ c[2] \in a.cmds /\ c[2] > from => ran'[c] > 0
                 /\ ran'[c] # ran[c] =>
                      c[1] = a.chan /\ c[2] > from /\ c[2] <= applied'
           /\ applied' \in Seq0 /\ from <= applied'
           /\ applied' = from \/ applied' \in a.cmds
<1> DEFINE todo == {s \in a.cmds : s > from}
           last == IF todo = {} THEN from
                   ELSE CHOOSE s \in todo : \A u \in todo : u <= s
<1>1. ran' = [c \in Command |-> IF c[1] = a.chan /\ c[2] \in todo /\ ran[c] < 2
                                THEN ran[c] + 1 ELSE ran[c]]
  BY DEF RunAbove
<1>2. applied' = last
  BY DEF RunAbove
<1>3. a.cmds \in SUBSET (1..MaxSeq)
  BY DEF Answer
<1>4. todo \in SUBSET (0..MaxSeq)
  BY <1>3
<1>5. (todo = {} /\ last = from) \/ (last \in todo /\ \A u \in todo : u <= last)
  <2>1. CASE todo = {}
    BY <2>1
  <2>2. CASE todo # {}
    <3> HIDE DEF todo
    <3>1. \E s \in todo : \A u \in todo : u <= s
      BY <1>4, <2>2, LargestExists
    <3> QED
      BY <3>1, <2>2
  <2> QED
    BY <2>1, <2>2
<1> HIDE DEF last
<1>6. applied' \in Seq0 /\ from <= applied' /\ (applied' = from \/ applied' \in a.cmds)
  BY <1>2, <1>3, <1>5 DEF Seq0
<1>7. ran' \in [Command -> 0..2]
  BY <1>1
<1>8. ASSUME NEW c \in Command
      PROVE  /\ ran[c] > 0 => ran'[c] > 0
             /\ c[1] = a.chan /\ c[2] \in a.cmds /\ c[2] > from => ran'[c] > 0
             /\ ran'[c] # ran[c] =>
                  c[1] = a.chan /\ c[2] > from /\ c[2] <= applied'
  <2>1. ran[c] \in 0..2
    OBVIOUS
  <2>2. ran'[c] = IF c[1] = a.chan /\ c[2] \in todo /\ ran[c] < 2
                  THEN ran[c] + 1 ELSE ran[c]
    BY <1>1
  <2>3. c[2] \in todo => c[2] <= last
    BY <1>5
  <2> QED
    BY <1>2, <2>1, <2>2, <2>3
<1> QED
  BY <1>6, <1>7, <1>8

-----------------------------------------------------------------------------
(* Types.                                                                   *)

InAir == Ask \cup Answer \cup {Free}

LEMMA AskIs == ASSUME NEW m \in InAir, m.type = "ask" PROVE m \in Ask
  BY DEF InAir, Ask, Answer, Free
LEMMA AnswerIs == ASSUME NEW m \in InAir, m.type = "answer" PROVE m \in Answer
  BY DEF InAir, Ask, Answer, Free
LEMMA FreeIs == Free \in InAir /\ Free.type = "none"
  BY DEF InAir, Free

\* What a poll says, and what it is answered.
LEMMA AskTyped ==
    ASSUME NEW n \in Seq0, NEW k \in Boot \cup {NoChannel}
    PROVE  [type |-> "ask", since |-> n, chan |-> k] \in InAir
  BY DEF InAir, Ask
LEMMA AnswerTyped ==
    ASSUME NEW k \in Boot, NEW r \in BOOLEAN, NEW n \in Seq0,
           NEW S \in SUBSET (1..MaxSeq)
    PROVE  [type |-> "answer", chan |-> k, reset |-> r, seq |-> n, cmds |-> S] \in InAir
  BY DEF InAir, Answer

\* The answer of a poll that is served.
Reply(p) ==
    [type |-> "answer", chan |-> boot, reset |-> poll[p].chan # boot, seq |-> seq,
     cmds |-> {s \in cmds : s > IF poll[p].chan # boot THEN 0 ELSE poll[p].since}]

LEMMA ServeIs ==
    ASSUME NEW p \in Poll, ServePoll(p)
    PROVE  /\ poll[p].type = "ask"
           /\ poll' = [poll EXCEPT ![p] = Reply(p)]
           /\ UNCHANGED <<boot, seq, ack, cmds, chan, since, applied, publish, ran,
                          overlap, calm>>
           /\ online' = "yes"
  BY DEF ServePoll, Reply, player, history

LEMMA ReplyTyped ==
    ASSUME MaxBoot \in Nat, MaxSeq \in Nat, TypeOK, NEW p \in Poll
    PROVE  Reply(p) \in InAir
<1>1. {s \in cmds : s > IF poll[p].chan # boot THEN 0 ELSE poll[p].since}
        \in SUBSET (1..MaxSeq)
  <2>1. cmds \subseteq 1..MaxSeq
    BY DEF TypeOK, Seq0
  <2> QED
    BY <2>1
<1>2. boot \in Boot /\ seq \in Seq0
  BY DEF TypeOK
<1>3. (poll[p].chan # boot) \in BOOLEAN
  OBVIOUS
<1> QED
  BY <1>1, <1>2, <1>3, AnswerTyped DEF Reply

\* What a player does with an answer, told apart from how it finds the last
\* command.
From(p) == IF poll[p].reset \/ poll[p].chan # chan THEN 0 ELSE applied

LEMMA ReceiveIs ==
    ASSUME NEW p \in Poll, Receive(p)
    PROVE  /\ poll[p].type = "answer"
           /\ chan' = poll[p].chan
           /\ RunAbove(poll[p], From(p))
           /\ since' = Larger(IF poll[p].reset \/ poll[p].chan # chan THEN 0 ELSE since,
                              Larger(poll[p].seq, applied'))
           /\ poll' = [poll EXCEPT ![p] = Free]
           /\ UNCHANGED <<boot, seq, ack, cmds, online, publish, overlap, calm>>
  BY DEF Receive, From, server

LEMMA FromTyped ==
    ASSUME MaxSeq \in Nat, TypeOK, NEW p \in Poll
    PROVE  From(p) \in Seq0 /\ (From(p) = 0 \/ From(p) = applied)
  BY DEF TypeOK, From, Seq0

LEMMA TypeInit == MaxBoot \in Nat /\ MaxSeq \in Nat /\ Init => TypeOK
<1> SUFFICES ASSUME MaxBoot \in Nat, MaxSeq \in Nat, Init PROVE TypeOK
  OBVIOUS
<1>1. poll \in [Poll -> InAir]
  BY FreeIs DEF Init
<1>2. ran \in [Command -> 0..2]
  BY DEF Init
<1> QED
  BY <1>1, <1>2 DEF Init, TypeOK, InAir, Boot, Seq0, NoChannel, Nothing

LEMMA TypeServer ==
    ASSUME MaxBoot \in Nat, MaxSeq \in Nat, TypeOK,
           Post \/ (\E s \in 1..MaxSeq : Expire(s)) \/ ServePublish \/ GoOffline \/ Restart
    PROVE  TypeOK'
<1>1. UNCHANGED <<player, poll, history, calm>>
  BY DEF Post, Expire, ServePublish, GoOffline, Restart
<1>2. UNCHANGED <<chan, since, applied, poll, ran, overlap, calm>>
  BY <1>1 DEF player, history
<1>3. /\ boot' \in Boot /\ seq' \in Seq0 /\ ack' \in 0..seq' /\ cmds' \subseteq 1..seq'
      /\ online' \in {"yes", "no"} /\ publish' \in Seq0 \cup {Nothing}
  <2> USE DEF TypeOK, Boot, Seq0, Nothing
  <2>1. CASE Post
    BY <2>1 DEF Post
  <2>2. CASE \E s \in 1..MaxSeq : Expire(s)
    BY <2>2 DEF Expire
  <2>3. CASE ServePublish
    BY <2>3 DEF ServePublish, Larger, Smaller
  <2>4. CASE GoOffline
    BY <2>4 DEF GoOffline
  <2>5. CASE Restart
    BY <2>5 DEF Restart
  <2> QED
    BY <2>1, <2>2, <2>3, <2>4, <2>5
<1> QED
  BY <1>2, <1>3 DEF TypeOK

LEMMA TypePlayer ==
    ASSUME MaxBoot \in Nat, MaxSeq \in Nat, TypeOK,
           SendPublish \/ LosePublish \/ Reload \/ Calm
           \/ (\E p \in Poll : SendPoll(p) \/ LosePoll(p) \/ ServePoll(p))
    PROVE  TypeOK'
<1>1. poll \in [Poll -> InAir]
  BY DEF TypeOK, InAir
<1>2. UNCHANGED <<boot, seq, ack, cmds, chan, applied, ran>>
  BY DEF SendPublish, LosePublish, Reload, Calm, SendPoll, LosePoll, ServePoll,
         server, player, history
<1>3. /\ online' \in {"yes", "no"} /\ calm' \in {"no", "yes"}
      /\ overlap' \in {"never", "once"}
  BY DEF SendPublish, LosePublish, Reload, Calm, SendPoll, LosePoll, ServePoll,
         server, player, history, TypeOK
<1>4. since' = since \/ since' = applied
  BY DEF SendPublish, LosePublish, Reload, Calm, SendPoll, LosePoll, ServePoll, player
<1>5. publish' \in Seq0 \cup {Nothing}
  <2>1. applied \in Seq0
    BY DEF TypeOK, Seq0
  <2>2. publish' \in {publish, applied, Nothing}
    BY DEF SendPublish, LosePublish, Reload, Calm, SendPoll, LosePoll, ServePoll
  <2> QED
    BY <2>1, <2>2 DEF TypeOK
<1>6. poll' \in [Poll -> InAir]
  <2>1. CASE SendPublish \/ LosePublish \/ Calm
    BY <1>1, <2>1 DEF SendPublish, LosePublish, Calm
  <2>2. CASE Reload
    BY <2>2, FreeIs DEF Reload
  <2>3. ASSUME NEW p \in Poll, SendPoll(p) PROVE poll' \in [Poll -> InAir]
    <3>1. [type |-> "ask", since |-> since, chan |-> chan] \in InAir
      BY AskTyped DEF TypeOK
    <3> QED
      BY <1>1, <2>3, <3>1 DEF SendPoll
  <2>4. ASSUME NEW p \in Poll, LosePoll(p) PROVE poll' \in [Poll -> InAir]
    BY <1>1, <2>4, FreeIs DEF LosePoll
  <2>5. ASSUME NEW p \in Poll, ServePoll(p) PROVE poll' \in [Poll -> InAir]
    BY <1>1, <2>5, ServeIs, ReplyTyped
  <2> QED
    BY <2>1, <2>2, <2>3, <2>4, <2>5
<1>7. since' \in Seq0 /\ applied' \in 0..since'
  BY <1>2, <1>4 DEF TypeOK, Seq0
<1> QED
  BY <1>2, <1>3, <1>5, <1>6, <1>7 DEF TypeOK, InAir

LEMMA TypeReceive ==
    ASSUME MaxBoot \in Nat, MaxSeq \in Nat, TypeOK, NEW p \in Poll, Receive(p)
    PROVE  TypeOK'
<1>1. poll \in [Poll -> InAir]
  BY DEF TypeOK, InAir
<1>2. poll[p] \in Answer
  BY <1>1, ReceiveIs, AnswerIs
<1>3. ran' \in [Command -> 0..2] /\ applied' \in Seq0
  BY <1>2, ReceiveIs, FromTyped, RunAboveDoes DEF TypeOK
<1>4. poll[p].seq \in Seq0 /\ poll[p].chan \in Boot
  BY <1>2 DEF Answer
<1>5. PICK n \in Seq0 : since' = Larger(n, Larger(poll[p].seq, applied'))
  BY ReceiveIs DEF TypeOK, Seq0
<1>6. since' \in Seq0 /\ applied' \in 0..since'
  BY <1>3, <1>4, <1>5 DEF Larger, Seq0
<1>7. poll' \in [Poll -> InAir]
  BY <1>1, ReceiveIs, FreeIs
<1> QED
  BY <1>3, <1>4, <1>6, <1>7, ReceiveIs DEF TypeOK, InAir

LEMMA TypeNext ==
    ASSUME MaxBoot \in Nat, MaxSeq \in Nat PROVE TypeOK /\ [Next]_vars => TypeOK'
<1> SUFFICES ASSUME TypeOK, [Next]_vars PROVE TypeOK'
  OBVIOUS
<1>1. CASE UNCHANGED vars
  BY <1>1 DEF vars, server, player, history, TypeOK
<1> QED
  BY <1>1, TypeServer, TypePlayer, TypeReceive DEF Next, Turn

LEMMA Typed ==
    ASSUME MaxBoot \in Nat, MaxSeq \in Nat PROVE Spec => []TypeOK
<1>1. Init => TypeOK
  BY TypeInit
<1>2. TypeOK /\ [Next]_vars => TypeOK'
  BY TypeNext
<1> QED
  BY <1>1, <1>2, PTL DEF Spec

-----------------------------------------------------------------------------
(* One poll at a time.                                                      *)

\* No player knows a channel that was not built yet.
Known ==
    /\ chan = NoChannel \/ chan <= boot
    /\ \A p \in Poll : poll[p].type = "answer" => poll[p].chan <= boot

\* The poll in flight knows the channel the player knows; what it is answered
\* is of that channel, or resets to a later one; what was run is behind the
\* cursor.
Alone ==
    /\ \A p, q \in Poll : poll[p].type # "none" /\ poll[q].type # "none" => p = q
    /\ \A p \in Poll :
        /\ poll[p].type = "ask" => poll[p].chan = chan
        /\ poll[p].type = "answer" =>
             /\ poll[p].reset => poll[p].chan # chan
             /\ chan = NoChannel \/ chan <= poll[p].chan
    /\ \A c \in Command : ran[c] > 0 =>
        /\ chan # NoChannel
        /\ c[1] < chan \/ (c[1] = chan /\ c[2] <= applied)

OnceInv == TypeOK /\ Known /\ (overlap = "never" => Alone)

LEMMA OnceInit == MaxBoot \in Nat /\ MaxSeq \in Nat /\ Init => OnceInv
<1> SUFFICES ASSUME MaxBoot \in Nat, MaxSeq \in Nat, Init PROVE OnceInv
  OBVIOUS
<1>1. \A p \in Poll : poll[p].type = "none"
  BY FreeIs DEF Init
<1>2. \A c \in Command : ~ (ran[c] > 0)
  BY DEF Init
<1> QED
  BY <1>1, <1>2, TypeInit DEF Init, OnceInv, Known, Alone

\* Steps that leave what the player knows and what is in flight, or forget a
\* poll or all of them.
LEMMA OnceQuiet ==
    ASSUME MaxBoot \in Nat, OnceInv, TypeOK', UNCHANGED <<chan, applied, ran, overlap>>,
           boot <= boot', \A p \in Poll : poll'[p] = poll[p] \/ poll'[p].type = "none"
    PROVE  OnceInv'
<1>1. boot \in Nat /\ boot' \in Nat /\ \A p \in Poll : poll[p] \in InAir
  BY DEF OnceInv, TypeOK, Boot, InAir
<1>2. chan' = NoChannel \/ chan' <= boot'
  BY <1>1 DEF OnceInv, Known, TypeOK, Boot
<1>3. ASSUME NEW p \in Poll, poll'[p].type = "answer" PROVE poll'[p].chan <= boot'
  <2>1. poll'[p] = poll[p]
    BY <1>3
  <2>2. poll[p].chan <= boot
    BY <1>3, <2>1 DEF OnceInv, Known
  <2>3. poll[p].chan \in Nat
    BY <1>1, <1>3, <2>1, AnswerIs DEF Answer, Boot
  <2> QED
    BY <1>1, <2>1, <2>2, <2>3
<1>4. Alone => Alone'
  BY DEF Alone
<1> QED
  BY <1>2, <1>3, <1>4 DEF OnceInv, Known

LEMMA OnceSend ==
    ASSUME OnceInv, TypeOK', NEW p \in Poll, SendPoll(p)
    PROVE  OnceInv'
<1> DEFINE m == [type |-> "ask", since |-> since, chan |-> chan]
<1>1. poll' = [poll EXCEPT ![p] = m] /\ poll \in [Poll -> InAir]
  BY DEF SendPoll, OnceInv, TypeOK, InAir
<1>2. UNCHANGED <<boot, chan, applied, ran>>
  BY DEF SendPoll, server, player
<1>3. m.type = "ask" /\ m.chan = chan
  OBVIOUS
<1> HIDE DEF m
<1>4. poll'[p] = m /\ \A q \in Poll : q # p => poll'[q] = poll[q]
  BY <1>1
<1>5. Known'
  BY <1>2, <1>3, <1>4 DEF OnceInv, Known
<1>6. ASSUME overlap' = "never" PROVE Alone'
  <2>1. overlap = "never" /\ \A q \in Poll : poll[q].type = "none"
    BY <1>6, FreeIs DEF SendPoll, InFlight
  <2>2. Alone
    BY <2>1 DEF OnceInv
  <2> QED
    BY <1>2, <1>3, <1>4, <2>1, <2>2 DEF Alone
<1> QED
  BY <1>5, <1>6 DEF OnceInv

LEMMA OnceServe ==
    ASSUME MaxBoot \in Nat, OnceInv, TypeOK', NEW p \in Poll, ServePoll(p)
    PROVE  OnceInv'
<1>1. poll' = [poll EXCEPT ![p] = Reply(p)] /\ poll \in [Poll -> InAir]
      /\ poll[p].type = "ask"
  BY ServeIs DEF OnceInv, TypeOK, InAir
<1>2. UNCHANGED <<boot, chan, applied, ran, overlap>>
  BY ServeIs
<1>3. /\ Reply(p).type = "answer" /\ Reply(p).chan = boot
      /\ Reply(p).reset => poll[p].chan # boot
  BY DEF Reply
<1>4. poll'[p] = Reply(p) /\ \A q \in Poll : q # p => poll'[q] = poll[q]
  BY <1>1
<1>5. boot <= boot
  BY DEF OnceInv, TypeOK, Boot
<1>6. Known'
  BY <1>2, <1>3, <1>4, <1>5 DEF OnceInv, Known
<1>7. ASSUME Alone PROVE Alone'
  <2>1. poll[p].chan = chan
    BY <1>1, <1>7 DEF Alone
  <2>2. /\ Reply(p).reset => Reply(p).chan # chan
        /\ chan = NoChannel \/ chan <= Reply(p).chan
    BY <1>3, <2>1 DEF OnceInv, Known
  <2> QED
    BY <1>1, <1>2, <1>3, <1>4, <1>7, <2>2 DEF Alone
<1> QED
  BY <1>2, <1>6, <1>7 DEF OnceInv

\* What an answer makes run, when it was asked for alone.
LEMMA OnceReceive ==
    ASSUME MaxBoot \in Nat, MaxSeq \in Nat, OnceInv, TypeOK', NEW p \in Poll, Receive(p)
    PROVE  /\ OnceInv'
           /\ overlap = "never" =>
                \A c, d \in Command :
                    c[1] = d[1] /\ c[2] <= d[2] /\ ran[d] > 0 => ran'[c] = ran[c]
<1>1. poll' = [poll EXCEPT ![p] = Free] /\ poll \in [Poll -> InAir]
      /\ poll[p].type = "answer" /\ UNCHANGED <<boot, overlap>> /\ chan' = poll[p].chan
  BY ReceiveIs DEF OnceInv, TypeOK, InAir
<1>2. poll[p] \in Answer
  BY <1>1, AnswerIs
<1>3. /\ \A c \in Command : ran'[c] # ran[c] =>
            c[1] = poll[p].chan /\ c[2] > From(p) /\ c[2] <= applied'
      /\ applied' \in Seq0 /\ From(p) <= applied'
  BY <1>2, ReceiveIs, FromTyped, RunAboveDoes DEF OnceInv, TypeOK
<1>4. poll'[p] = Free /\ \A q \in Poll : q # p => poll'[q] = poll[q]
  BY <1>1
<1>5. Known'
  BY <1>1, <1>4, FreeIs DEF OnceInv, Known
<1>6. poll[p].chan \in Boot /\ chan \in Boot \cup {NoChannel} /\ applied \in Nat
      /\ poll[p].chan # NoChannel
  BY <1>2 DEF Answer, OnceInv, TypeOK, Seq0, Boot, NoChannel
<1>7. \A c \in Command : c[1] \in Boot /\ c[2] \in 1..MaxSeq
  BY DEF Command
<1>8. CASE overlap = "never"
  <2>1. Alone
    BY <1>8 DEF OnceInv
  <2>2. /\ poll[p].chan = chan => From(p) = applied
        /\ chan = NoChannel \/ chan <= poll[p].chan
    BY <1>1, <2>1 DEF Alone, From
  <2>3. ASSUME NEW c \in Command, NEW d \in Command,
               c[1] = d[1], c[2] <= d[2], ran[d] > 0
        PROVE  ran'[c] = ran[c]
    <3>1. chan # NoChannel /\ (d[1] < chan \/ (d[1] = chan /\ d[2] <= applied))
      BY <2>1, <2>3 DEF Alone
    <3>2. c[1] \in Boot /\ d[1] \in Boot /\ c[2] \in 1..MaxSeq /\ d[2] \in 1..MaxSeq
      BY <1>7
    <3>3. ASSUME c[1] = poll[p].chan, c[2] > From(p) PROVE FALSE
      BY <1>6, <2>2, <2>3, <3>1, <3>2, <3>3 DEF Boot
    <3> QED
      BY <1>3, <3>3
  <2>4. ASSUME NEW c \in Command, ran'[c] > 0
        PROVE  /\ chan' # NoChannel
               /\ c[1] < chan' \/ (c[1] = chan' /\ c[2] <= applied')
    <3>1. c[1] \in Boot /\ c[2] \in 1..MaxSeq
      BY <1>7
    <3>2. CASE ran'[c] # ran[c]
      BY <1>1, <1>3, <1>6, <3>2
    <3>3. CASE ran'[c] = ran[c]
      <4>1. chan # NoChannel /\ (c[1] < chan \/ (c[1] = chan /\ c[2] <= applied))
        BY <2>1, <2>4, <3>3 DEF Alone
      <4> QED
        BY <1>1, <1>3, <1>6, <2>2, <3>1, <4>1 DEF Boot, Seq0
    <3> QED
      BY <3>2, <3>3
  <2>5. \A q \in Poll : poll'[q].type = "none"
    BY <1>1, <1>4, <2>1, FreeIs DEF Alone
  <2>6. Alone'
    BY <2>4, <2>5 DEF Alone
  <2> QED
    BY <1>5, <2>3, <2>6 DEF OnceInv
<1> QED
  BY <1>1, <1>5, <1>8 DEF OnceInv

\* The steps that are none of the three above.
Apart ==
    \/ Post \/ \E s \in 1..MaxSeq : Expire(s)
    \/ ServePublish \/ GoOffline \/ Restart
    \/ \E p \in Poll : LosePoll(p)
    \/ SendPublish \/ LosePublish \/ Reload \/ Calm

LEMMA OnceApart ==
    ASSUME MaxBoot \in Nat, OnceInv, TypeOK', Apart
    PROVE  OnceInv' /\ UNCHANGED ran
<1>1. UNCHANGED <<chan, applied, ran, overlap>>
  BY DEF Apart, Post, Expire, ServePublish, GoOffline, Restart, LosePoll,
         SendPublish, LosePublish, Reload, Calm, player, history
<1>2. boot' = boot \/ boot' = boot + 1
  BY DEF Apart, Post, Expire, ServePublish, GoOffline, Restart, LosePoll,
         SendPublish, LosePublish, Reload, Calm, server
<1>3. boot <= boot'
  BY <1>2 DEF OnceInv, TypeOK, Boot
<1>4. \A p \in Poll : poll'[p] = poll[p] \/ poll'[p].type = "none"
  <2>1. CASE Reload
    BY <2>1, FreeIs DEF Reload
  <2>2. CASE \E p \in Poll : LosePoll(p)
    BY <2>2, FreeIs DEF LosePoll, OnceInv, TypeOK
  <2>3. CASE UNCHANGED poll
    BY <2>3
  <2> QED
    BY <2>1, <2>2, <2>3 DEF Apart, Post, Expire, ServePublish, GoOffline, Restart,
       SendPublish, LosePublish, Calm
<1> QED
  BY <1>1, <1>3, <1>4, OnceQuiet

LEMMA OnceNext ==
    ASSUME MaxBoot \in Nat, MaxSeq \in Nat, OnceInv, [Next]_vars
    PROVE  /\ OnceInv'
           /\ overlap = "never" =>
                \A c, d \in Command :
                    c[1] = d[1] /\ c[2] <= d[2] /\ ran[d] > 0 => ran'[c] = ran[c]
<1>1. TypeOK'
  BY TypeNext DEF OnceInv
<1>2. CASE UNCHANGED vars
  BY <1>2 DEF vars, server, player, history, OnceInv, TypeOK, Known, Alone
<1>3. CASE Apart
  BY <1>1, <1>3, OnceApart
<1>4. CASE \E p \in Poll : SendPoll(p)
  BY <1>1, <1>4, OnceSend DEF SendPoll
<1>5. CASE \E p \in Poll : ServePoll(p)
  <2>1. PICK p \in Poll : ServePoll(p)
    BY <1>5
  <2>2. UNCHANGED ran
    BY <2>1, ServeIs
  <2> QED
    BY <1>1, <2>1, <2>2, OnceServe
<1>6. CASE \E p \in Poll : Receive(p)
  BY <1>1, <1>6, OnceReceive
<1> QED
  BY <1>2, <1>3, <1>4, <1>5, <1>6 DEF Next, Turn, Apart

-----------------------------------------------------------------------------
(* The first channel: what a number stands for was run.                     *)

\* Every command still served, up to n, was run.
Landed(n) == \A s \in cmds : s <= n => ran[<<0, s>>] > 0

\* An answer carries what it stands for and was not run.
Carries(a) == \A s \in cmds : s <= a.seq => s \in a.cmds \/ ran[<<0, s>>] > 0

Landing ==
    /\ since <= seq /\ Landed(since) /\ Landed(ack)
    /\ publish # Nothing => publish <= seq /\ Landed(publish)
    /\ \A p \in Poll :
        /\ poll[p].type = "ask" => poll[p].since <= seq /\ Landed(poll[p].since)
        /\ poll[p].type = "answer" =>
             /\ poll[p].seq <= seq /\ poll[p].cmds \subseteq 1..poll[p].seq
             /\ Carries(poll[p])

LandInv == TypeOK /\ Known /\ (boot = 0 => Landing)

LEMMA Numbers ==
    ASSUME MaxBoot \in Nat, MaxSeq \in Nat, TypeOK
    PROVE  /\ boot \in Nat /\ seq \in 0..MaxSeq /\ ack \in 0..seq
           /\ since \in 0..MaxSeq /\ applied \in 0..since
           /\ \A s \in cmds : s \in 1..seq /\ <<0, s>> \in Command
           /\ \A p \in Poll : poll[p] \in InAir
  BY DEF TypeOK, Boot, Seq0, Command, InAir

LEMMA Served ==
    ASSUME MaxBoot \in Nat, MaxSeq \in Nat, TypeOK
    PROVE  seq <= seq /\ cmds \subseteq 1..seq /\ \A s \in cmds : s \in Nat /\ s > 0
<1>1. seq \in Nat
  BY Numbers
<1>2. cmds \subseteq 1..seq
  BY DEF TypeOK
<1> QED
  BY <1>1, <1>2

LEMMA LandInit == MaxBoot \in Nat /\ MaxSeq \in Nat /\ Init => LandInv
<1> SUFFICES ASSUME MaxBoot \in Nat, MaxSeq \in Nat, Init PROVE LandInv
  OBVIOUS
<1>1. \A p \in Poll : poll[p].type = "none"
  BY FreeIs DEF Init
<1>2. Known
  BY <1>1 DEF Init, Known
<1>3. Landing
  BY <1>1 DEF Init, Landing, Landed
<1> QED
  BY <1>2, <1>3, TypeInit DEF LandInv

\* Steps of the server that run nothing and leave the messages.
LEMMA LandServer ==
    ASSUME MaxBoot \in Nat, MaxSeq \in Nat, LandInv, boot = 0, boot' = 0,
           Post \/ (\E s \in 1..MaxSeq : Expire(s)) \/ ServePublish \/ GoOffline \/ Restart
    PROVE  Landing'
<1>1. Landing /\ TypeOK
  BY DEF LandInv
<1>2. UNCHANGED <<since, poll, ran>>
  BY DEF Post, Expire, ServePublish, GoOffline, Restart, player, history
<1>3. \A p \in Poll :
        /\ poll[p].type = "ask" => poll[p].since \in Nat
        /\ poll[p].type = "answer" => poll[p].seq \in Nat
  BY Numbers, AskIs, AnswerIs, <1>1 DEF Ask, Answer, Seq0
<1>4. publish \in Nat
  BY <1>1 DEF TypeOK, Seq0, Nothing
<1>5. CASE Post
  <2>1. seq' = seq + 1 /\ cmds' = cmds \cup {seq + 1} /\ UNCHANGED <<ack, publish>>
    BY <1>5 DEF Post
  <2>2. ASSUME NEW n \in Nat, n <= seq, Landed(n) PROVE n <= seq' /\ Landed(n)'
    BY <1>1, <1>2, <2>1, <2>2, Numbers DEF Landed
  <2>3. ASSUME NEW p \in Poll, poll[p].type = "answer"
        PROVE  poll[p].seq <= seq' /\ Carries(poll[p])'
    <3>1. poll[p].seq \in Nat /\ poll[p].seq <= seq /\ Carries(poll[p])
      BY <1>1, <1>3, <2>3 DEF Landing
    <3> QED
      BY <1>1, <1>2, <2>1, <3>1, Numbers DEF Carries
  <2>4. ack <= seq /\ since \in Nat /\ ack \in Nat
    BY <1>1, Numbers
  <2>5. since' <= seq' /\ Landed(since)' /\ Landed(ack)'
    BY <1>1, <1>2, <2>1, <2>2, <2>4 DEF Landing, Landed
  <2>6. publish' # Nothing => publish' <= seq' /\ Landed(publish)'
    BY <1>1, <1>2, <1>4, <2>1, <2>2 DEF Landing, Landed
  <2>7. ASSUME NEW p \in Poll, poll[p].type = "ask"
        PROVE  poll'[p].since <= seq' /\ Landed(poll[p].since)'
    BY <1>1, <1>2, <1>3, <2>2, <2>7 DEF Landing, Landed
  <2> QED
    BY <1>1, <1>2, <2>3, <2>5, <2>6, <2>7 DEF Landing, Carries
<1>6. CASE (\E s \in 1..MaxSeq : Expire(s)) \/ GoOffline
  <2>1. cmds' \subseteq cmds /\ UNCHANGED <<seq, ack, publish>>
    BY <1>6 DEF Expire, GoOffline
  <2>2. \A n : Landed(n) => Landed(n)'
    BY <1>2, <2>1 DEF Landed
  <2> QED
    BY <1>1, <1>2, <2>1, <2>2 DEF Landing, Landed, Carries
<1>7. CASE ServePublish
  <2>1. ack' = Larger(ack, Smaller(publish, seq)) /\ publish' = Nothing
        /\ UNCHANGED <<seq, cmds>> /\ publish # Nothing
    BY <1>7 DEF ServePublish
  <2>2. ack' = ack \/ ack' = publish
    BY <1>1, <2>1 DEF Larger, Smaller, Landing
  <2>3. Landed(ack)'
    BY <1>1, <1>2, <2>1, <2>2 DEF Landed, Landing
  <2> QED
    BY <1>1, <1>2, <2>1, <2>3 DEF Landing, Landed, Carries
<1>8. ~ Restart
  BY Numbers, <1>1 DEF Restart
<1> QED
  BY <1>5, <1>6, <1>7, <1>8

\* Steps of the player and of the network that run nothing.
LEMMA LandPlayer ==
    ASSUME MaxBoot \in Nat, MaxSeq \in Nat, LandInv, boot = 0,
           SendPublish \/ LosePublish \/ Reload \/ Calm
           \/ (\E p \in Poll : SendPoll(p) \/ LosePoll(p) \/ ServePoll(p))
    PROVE  Landing'
<1>1. Landing /\ TypeOK
  BY DEF LandInv
<1>2. UNCHANGED <<seq, ack, cmds, ran>>
  BY DEF SendPublish, LosePublish, Reload, Calm, SendPoll, LosePoll, ServePoll,
         server, history
<1>3. Landed(applied) /\ applied <= seq
  BY <1>1, Numbers DEF Landing, Landed
<1>4. since' \in {since, applied} /\ publish' \in {publish, applied, Nothing}
  BY DEF SendPublish, LosePublish, Reload, Calm, SendPoll, LosePoll, ServePoll, player
<1>5. since' <= seq' /\ Landed(since)'
  BY <1>1, <1>2, <1>3, <1>4 DEF Landing, Landed
<1>6. Landed(ack)'
  BY <1>1, <1>2 DEF Landing, Landed
<1>7. publish' # Nothing => publish' <= seq' /\ Landed(publish)'
  BY <1>1, <1>2, <1>3, <1>4 DEF Landing, Landed
<1>8. poll \in [Poll -> InAir]
  BY <1>1 DEF TypeOK, InAir
<1>9. ASSUME NEW q \in Poll
      PROVE  /\ poll'[q].type = "ask" => poll'[q].since <= seq /\ Landed(poll'[q].since)
             /\ poll'[q].type = "answer" =>
                  /\ poll'[q].seq <= seq /\ poll'[q].cmds \subseteq 1..poll'[q].seq
                  /\ Carries(poll'[q])
  <2>1. CASE poll'[q] = poll[q]
    BY <1>1, <2>1 DEF Landing
  <2>2. CASE poll'[q].type = "none"
    BY <2>2
  <2>3. CASE SendPoll(q)
    <3> DEFINE m == [type |-> "ask", since |-> since, chan |-> chan]
    <3>1. poll'[q] = m
      BY <1>8, <2>3 DEF SendPoll
    <3>2. m.type = "ask" /\ m.since = since
      OBVIOUS
    <3> HIDE DEF m
    <3> QED
      BY <1>1, <3>1, <3>2 DEF Landing
  <2>4. CASE ServePoll(q)
    <3>1. poll'[q] = Reply(q) /\ poll[q].type = "ask"
      BY <1>8, <2>4, ServeIs
    <3>2. /\ Reply(q).type = "answer" /\ Reply(q).seq = seq
          /\ Reply(q).cmds = {s \in cmds : s > IF poll[q].chan # boot THEN 0
                                               ELSE poll[q].since}
      BY DEF Reply
    <3>3. seq <= seq /\ cmds \subseteq 1..seq
      BY <1>1, Served
    <3>4. Landed(poll[q].since) /\ poll[q].since \in Nat
      BY <1>1, <1>8, <3>1, AskIs DEF Landing, Ask, Seq0
    <3>5. ASSUME NEW s \in cmds PROVE s \in Reply(q).cmds \/ ran[<<0, s>>] > 0
      <4>1. s \in 1..seq
        BY <3>3
      <4> QED
        BY <3>2, <3>4, <4>1 DEF Landed
    <3>6. Reply(q).cmds \subseteq 1..seq
      BY <3>2, <3>3
    <3> QED
      BY <3>1, <3>2, <3>3, <3>5, <3>6 DEF Carries
  <2>5. poll'[q] = poll[q] \/ poll'[q].type = "none" \/ SendPoll(q) \/ ServePoll(q)
    BY <1>8, FreeIs DEF SendPublish, LosePublish, Reload, Calm, SendPoll, LosePoll, ServePoll
  <2> QED
    BY <2>1, <2>2, <2>3, <2>4, <2>5
<1>10. \A n : Landed(n) => Landed(n)'
  BY <1>2 DEF Landed
<1> QED
  BY <1>2, <1>5, <1>6, <1>7, <1>9 DEF Landing, Landed, Carries

LEMMA LandReceive ==
    ASSUME MaxBoot \in Nat, MaxSeq \in Nat, LandInv, boot = 0, NEW p \in Poll, Receive(p)
    PROVE  Landing'
<1>1. Landing /\ TypeOK
  BY DEF LandInv
<1>2. /\ poll[p].type = "answer"
      /\ poll' = [poll EXCEPT ![p] = Free]
      /\ UNCHANGED <<boot, seq, ack, cmds, publish>>
  BY ReceiveIs
<1>3. poll[p] \in Answer /\ poll \in [Poll -> InAir]
  BY <1>1, <1>2, AnswerIs DEF TypeOK, InAir
<1>4. poll[p].chan = 0 /\ poll[p].seq \in Nat
  BY <1>2, <1>3 DEF LandInv, Known, Answer, Boot, Seq0
<1>5. /\ \A c \in Command :
            /\ ran[c] > 0 => ran'[c] > 0
            /\ c[1] = poll[p].chan /\ c[2] \in poll[p].cmds /\ c[2] > From(p) => ran'[c] > 0
      /\ applied' \in Seq0 /\ (applied' = From(p) \/ applied' \in poll[p].cmds)
  BY <1>1, <1>3, ReceiveIs, FromTyped, RunAboveDoes DEF TypeOK
<1>6. ASSUME NEW s \in cmds
      PROVE  /\ ran[<<0, s>>] > 0 => ran'[<<0, s>>] > 0
             /\ s \in poll[p].cmds /\ s > From(p) => ran'[<<0, s>>] > 0
  <2>1. <<0, s>> \in Command /\ <<0, s>>[1] = 0 /\ <<0, s>>[2] = s
    BY <1>1, Numbers
  <2> QED
    BY <1>4, <1>5, <2>1
<1>7. \A n : Landed(n) => Landed(n)'
  BY <1>2, <1>6 DEF Landed
<1>8. poll[p].seq <= seq /\ poll[p].cmds \subseteq 1..poll[p].seq /\ Carries(poll[p])
  BY <1>1, <1>2 DEF Landing
<1>9. since' <= seq /\ Landed(since)'
  <2>1. /\ applied \in Nat /\ since \in Nat /\ applied <= since /\ seq \in Nat
        /\ Landed(since) /\ since <= seq /\ applied' \in Nat
    BY <1>1, <1>5, Numbers DEF Landing, Seq0
  <2>2. \A s \in cmds : s \in Nat /\ s > 0
    BY <1>1, Served
  <2>3. CASE poll[p].reset \/ poll[p].chan # chan
    <3>1. From(p) = 0
      BY <2>3 DEF From
    <3>2. since' = Larger(0, Larger(poll[p].seq, applied')) /\ applied' <= poll[p].seq
      BY <1>4, <1>5, <1>8, <2>3, <3>1, ReceiveIs
    <3>3. since' = poll[p].seq
      BY <1>4, <2>1, <3>2 DEF Larger
    <3>4. \A s \in cmds : s <= poll[p].seq => ran'[<<0, s>>] > 0
      BY <1>6, <1>8, <2>2, <3>1 DEF Carries
    <3> QED
      BY <1>2, <1>8, <3>3, <3>4 DEF Landed
  <2>4. CASE ~ (poll[p].reset \/ poll[p].chan # chan)
    <3>1. From(p) = applied
      BY <2>4 DEF From
    <3>2. since' = Larger(since, Larger(poll[p].seq, applied'))
      BY <2>4, ReceiveIs
    <3>3. since' = since \/ since' = poll[p].seq
      <4>1. applied' = applied \/ applied' <= poll[p].seq
        BY <1>4, <1>5, <1>8, <3>1
      <4> QED
        BY <1>4, <2>1, <3>2, <4>1 DEF Larger
    <3>4. ASSUME NEW s \in cmds, s <= poll[p].seq PROVE ran'[<<0, s>>] > 0
      <4>1. CASE s <= applied
        <5>1. s <= since
          BY <2>1, <2>2, <4>1
        <5> QED
          BY <1>6, <2>1, <5>1 DEF Landed
      <4>2. CASE s > applied
        BY <1>6, <1>8, <3>1, <3>4, <4>2 DEF Carries
      <4> QED
        BY <2>1, <2>2, <4>1, <4>2
    <3>5. CASE since' = since
      BY <1>7, <2>1, <3>5 DEF Landed
    <3>6. CASE since' = poll[p].seq
      BY <1>2, <1>8, <3>4, <3>6 DEF Landed
    <3> QED
      BY <3>3, <3>5, <3>6
  <2> QED
    BY <2>3, <2>4
<1>10. ASSUME NEW q \in Poll
       PROVE  /\ poll'[q].type = "ask" =>
                   /\ poll'[q].since <= seq
                   /\ \A s \in cmds : s <= poll'[q].since => ran'[<<0, s>>] > 0
              /\ poll'[q].type = "answer" =>
                   /\ poll'[q].seq <= seq /\ poll'[q].cmds \subseteq 1..poll'[q].seq
                   /\ \A s \in cmds : s <= poll'[q].seq =>
                        s \in poll'[q].cmds \/ ran'[<<0, s>>] > 0
  <2>1. CASE q = p
    BY <1>2, <1>3, <2>1, FreeIs
  <2>2. CASE q # p
    <3>1. poll'[q] = poll[q]
      BY <1>2, <1>3, <2>2
    <3>2. /\ poll[q].type = "ask" => poll[q].since <= seq /\ Landed(poll[q].since)
          /\ poll[q].type = "answer" =>
               /\ poll[q].seq <= seq /\ poll[q].cmds \subseteq 1..poll[q].seq
               /\ Carries(poll[q])
      BY <1>1 DEF Landing
    <3>3. ASSUME NEW s \in cmds, ran[<<0, s>>] > 0 PROVE ran'[<<0, s>>] > 0
      BY <1>6, <3>3
    <3>4. ASSUME poll[q].type = "ask", NEW s \in cmds, s <= poll[q].since
          PROVE  ran'[<<0, s>>] > 0
      BY <3>2, <3>3, <3>4 DEF Landed
    <3>5. ASSUME poll[q].type = "answer", NEW s \in cmds, s <= poll[q].seq
          PROVE  s \in poll[q].cmds \/ ran'[<<0, s>>] > 0
      BY <3>2, <3>3, <3>5 DEF Carries
    <3> QED
      BY <3>1, <3>2, <3>4, <3>5
  <2> QED
    BY <2>1, <2>2
<1>11. Landed(ack)' /\ (publish' # Nothing => publish' <= seq' /\ Landed(publish)')
  BY <1>1, <1>2, <1>7 DEF Landing, Landed
<1> QED
  BY <1>2, <1>9, <1>10, <1>11 DEF Landing, Landed, Carries

LEMMA LandNext ==
    ASSUME MaxBoot \in Nat, MaxSeq \in Nat PROVE OnceInv /\ LandInv /\ [Next]_vars => LandInv'
<1> SUFFICES ASSUME OnceInv, LandInv, [Next]_vars PROVE LandInv'
  OBVIOUS
<1>1. OnceInv'
  BY OnceNext
<1>2. boot' = boot \/ boot' = boot + 1
  BY DEF Next, Turn, vars, Post, Expire, ServePublish, GoOffline, Restart, SendPoll, LosePoll,
         ServePoll, Receive, SendPublish, LosePublish, Reload, Calm, server
<1>3. ASSUME boot' = 0 PROVE Landing'
  <2>1. boot = 0
    BY <1>2, <1>3, Numbers DEF LandInv
  <2>2. CASE UNCHANGED vars
    BY <2>1, <2>2 DEF vars, server, player, history, LandInv, Landing, Landed, Carries
  <2> QED
    BY <1>3, <2>1, <2>2, LandServer, LandPlayer, LandReceive DEF Next, Turn
<1> QED
  BY <1>1, <1>3 DEF OnceInv, LandInv

-----------------------------------------------------------------------------
(* The theorems.                                                            *)

LEMMA Invariant ==
    ASSUME MaxBoot \in Nat, MaxSeq \in Nat PROVE Spec => [](OnceInv /\ LandInv)
<1>1. Init => OnceInv /\ LandInv
  BY OnceInit, LandInit
<1>2. OnceInv /\ LandInv /\ [Next]_vars => OnceInv' /\ LandInv'
  BY OnceNext, LandNext
<1> QED
  BY <1>1, <1>2, PTL DEF Spec

\* Type correctness of the channel, of the player's cursor and of what is in
\* flight between remote.py and host.js, for every number of polls, channels
\* and commands.
THEOREM TypeCorrect ==
    ASSUME MaxBoot \in Nat, MaxSeq \in Nat PROVE Spec => []TypeOK
<1>1. OnceInv => TypeOK
  BY DEF OnceInv
<1> QED
  BY <1>1, Invariant, PTL

\* While host.js sends its polls one at a time, it runs the commands of a
\* channel in the order of posting and none twice: across lost and late
\* answers, reloads of the page and restarts of the server.
THEOREM OnceInOrder ==
    ASSUME MaxBoot \in Nat, MaxSeq \in Nat PROVE Spec => RunOnceInOrder
<1>1. OnceInv /\ [Next]_vars =>
        [overlap = "never" =>
           \A c, d \in Command :
              c[1] = d[1] /\ c[2] <= d[2] /\ ran[d] > 0 => ran'[c] = ran[c]]_vars
  BY OnceNext
<1> QED
  BY <1>1, Invariant, PTL DEF Spec, RunOnceInOrder

\* On the first channel of remote.py, a command that is still served and that
\* the ack covers was run, however polls and publishes overlap or are lost.
THEOREM AckMeansRun ==
    ASSUME MaxBoot \in Nat, MaxSeq \in Nat PROVE Spec => []AckedWasRun
<1>1. LandInv => AckedWasRun
  BY DEF LandInv, Landing, Landed, AckedWasRun
<1> QED
  BY <1>1, Invariant, PTL
=============================================================================
