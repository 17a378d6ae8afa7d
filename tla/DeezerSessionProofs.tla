------------------------ MODULE DeezerSessionProofs ------------------------
(***************************************************************************)
(* Theorems about DeezerSession, for every set of threads and tracks and   *)
(* whichever of the tracks Deezer has a source for.                        *)
(***************************************************************************)
EXTENDS DeezerSession, Integers, TLAPS

\* Nobody has dropped the session since t began.
Alone(t) == t \notin disturbed

\* The token of a thread that is alone is of the session in use, and there is
\* a session.
OwnToken ==
    \A t \in Thread : Alone(t) /\ pc[t] \in {"asked", "url"} =>
        token[t] = "current" /\ session # "none"

\* A licence does not expire in the trust window, nor on a second attempt.
LicenceLasts ==
    session = "expired" =>
        /\ window = "closed"
        /\ \A t \in Thread : try[t] = 1 /\ pc[t] \notin {"relogin", "again"}

\* A playable track that seems gone to a thread that is alone, does so because
\* the licence has expired.
GoneIsExpired ==
    \A t \in Thread :
        Alone(t) /\ pc[t] = "judge" /\ failed[t] = "gone" /\ want[t] \in Playable
            => session = "expired"

\* A thread re-opens the session once.
FirstTry == \A t \in Thread : pc[t] \in {"drop", "relogin", "again"} => try[t] = 1

IInv == TypeOK /\ FirstTry /\ OwnToken /\ LicenceLasts /\ GoneIsExpired

-----------------------------------------------------------------------------
\* Every step of a thread keeps the types.
LEMMA StepType == ASSUME TypeOK, FirstTry, NEW t \in Thread, Step(t) PROVE TypeOK'
<1> USE DEF TypeOK, Tokens, Goto
<1>1. CASE InfoLogin(t)
  <2>1. CASE Opened /\ Asking(t)  BY <1>1, <2>1 DEF InfoLogin, Opened, Asking
  <2>2. CASE LoginFails("network") /\ End(t)  BY <1>1, <2>2 DEF InfoLogin, LoginFails, End
  <2>3. CASE LoginFails("network") /\ Raise(t, "error")
    BY <1>1, <2>3 DEF InfoLogin, LoginFails, Raise
  <2>4. CASE LoginFails("arl") /\ Raise(t, "error")
    BY <1>1, <2>4 DEF InfoLogin, LoginFails, Raise
  <2> QED  BY <1>1, <2>1, <2>2, <2>3, <2>4 DEF InfoLogin
<1>2. CASE InfoMemo(t)  BY <1>2 DEF InfoMemo, account
<1>3. CASE InfoAsk(t)  BY <1>3 DEF InfoAsk, Asking, account
<1>4. CASE InfoAnswer(t)
  <2>1. memo' \in [Track -> Tokens]  BY <1>4 DEF InfoAnswer
  <2>2. CASE Goto(t, "url") /\ UNCHANGED <<want, token, try, failed>>
    BY <1>4, <2>1, <2>2 DEF InfoAnswer
  <2>3. CASE Raise(t, "error")  BY <1>4, <2>1, <2>3 DEF InfoAnswer, Raise
  <2>4. CASE End(t)  BY <1>4, <2>1, <2>4 DEF InfoAnswer, End
  <2> QED  BY <1>4, <2>2, <2>3, <2>4 DEF InfoAnswer
<1>5. CASE Url(t)
  <2>1. CASE End(t)  BY <1>5, <2>1 DEF Url, End, account
  <2>2. CASE Raise(t, "gone")  BY <1>5, <2>2 DEF Url, Raise, account
  <2> QED  BY <1>5, <2>1, <2>2 DEF Url
<1>6. CASE UrlLogin(t)
  <2>1. CASE Opened /\ Raise(t, "gone")  BY <1>6, <2>1 DEF UrlLogin, Opened, Raise
  <2>2. CASE Opened /\ End(t)  BY <1>6, <2>2 DEF UrlLogin, Opened, End
  <2>3. CASE \E e \in {"network", "arl"} : LoginFails(e) /\ Raise(t, "gone")
    BY <1>6, <2>3 DEF UrlLogin, LoginFails, Raise
  <2> QED  BY <1>6, <2>1, <2>2, <2>3 DEF UrlLogin
<1>7. CASE Judge(t)
  <2>1. CASE End(t)  BY <1>7, <2>1 DEF Judge, End, account
  <2>2. CASE Goto(t, "drop") /\ UNCHANGED <<want, token, try, failed>>
    BY <1>7, <2>2 DEF Judge, account
  <2> QED  BY <1>7, <2>1, <2>2 DEF Judge
<1>8. CASE Drop(t)  BY <1>8 DEF Drop, Dropped, Outdated, Resolving
<1>9. CASE Relogin(t)
  <2>1. CASE /\ IF session = "none" THEN Opened ELSE UNCHANGED account
             /\ Goto(t, "again") /\ UNCHANGED <<want, token, try, failed>>
    BY <1>9, <2>1 DEF Relogin, Opened, account
  <2>2. CASE (\E e \in {"network", "arl"} : LoginFails(e)) /\ End(t)
    BY <1>9, <2>2 DEF Relogin, LoginFails, End
  <2> QED  BY <1>9, <2>1, <2>2 DEF Relogin
<1>10. CASE Again(t)
  <2>1. try[t] = 1  BY <1>10 DEF Again, FirstTry
  <2>2. try' \in [Thread -> 1..2]  BY <1>10, <2>1 DEF Again
  <2> QED  BY <1>10, <2>2 DEF Again
<1> QED
  BY <1>1, <1>2, <1>3, <1>4, <1>5, <1>6, <1>7, <1>8, <1>9, <1>10 DEF Step

\* The steps that are no thread's resolve.
Others == CheckDrops \/ SetArl \/ Check \/ NetChanges \/ WindowCloses \/ BackoffEnds \/ Expire

LEMMA OthersType == TypeOK /\ Others => TypeOK'
<1> SUFFICES ASSUME TypeOK, Others PROVE TypeOK'  OBVIOUS
<1> USE DEF TypeOK, Tokens, local, account
<1>1. CASE CheckDrops  BY <1>1 DEF CheckDrops, Dropped, Outdated, Resolving
<1>2. CASE SetArl  BY <1>2 DEF SetArl, Dropped, Outdated, Resolving
<1>3. CASE Check  BY <1>3 DEF Check, Opened, LoginFails
<1>4. CASE NetChanges  BY <1>4 DEF NetChanges
<1>5. CASE WindowCloses  BY <1>5 DEF WindowCloses
<1>6. CASE BackoffEnds  BY <1>6 DEF BackoffEnds
<1>7. CASE Expire  BY <1>7 DEF Expire
<1> QED  BY <1>1, <1>2, <1>3, <1>4, <1>5, <1>6, <1>7 DEF Others

-----------------------------------------------------------------------------
\* Every step of a thread keeps what is known of it and of the others.
LEMMA StepInv == ASSUME IInv, NEW t \in Thread, Step(t) PROVE IInv'
<1>0. TypeOK'  BY StepType DEF IInv
<1>a. TypeOK  BY DEF IInv
<1> USE <1>0, <1>a DEF IInv, TypeOK, Tokens, FirstTry, OwnToken, LicenceLasts, GoneIsExpired, Alone, Goto
<1>1. CASE InfoLogin(t)
  <2>1. CASE Opened /\ Asking(t)  BY <1>1, <2>1 DEF InfoLogin, Opened, Asking
  <2>2. CASE LoginFails("network") /\ End(t)  BY <1>1, <2>2 DEF InfoLogin, LoginFails, End
  <2>3. CASE \E e \in {"network", "arl"} : LoginFails(e) /\ Raise(t, "error")
    BY <1>1, <2>3 DEF InfoLogin, LoginFails, Raise
  <2> QED  BY <1>1, <2>1, <2>2, <2>3 DEF InfoLogin
<1>2. CASE InfoMemo(t)  BY <1>2 DEF InfoMemo, account
<1>3. CASE InfoAsk(t)  BY <1>3 DEF InfoAsk, Asking, account
<1>4. CASE InfoAnswer(t)
  <2>2. CASE Goto(t, "url") /\ UNCHANGED <<want, token, try, failed>>
    BY <1>4, <2>2 DEF InfoAnswer
  <2>3. CASE Raise(t, "error")  BY <1>4, <2>3 DEF InfoAnswer, Raise
  <2>4. CASE End(t)  BY <1>4, <2>4 DEF InfoAnswer, End
  <2> QED  BY <1>4, <2>2, <2>3, <2>4 DEF InfoAnswer
<1>5. CASE Url(t)
  <2>1. CASE End(t)  BY <1>5, <2>1 DEF Url, End, account
  <2>2. CASE Raise(t, "gone")
    <3>1. t \notin disturbed /\ want[t] \in Playable => session = "expired"
      BY <1>5, <2>2 DEF Url, Raise, End
    <3> QED  BY <1>5, <2>2, <3>1 DEF Url, Raise, account
  <2> QED  BY <1>5, <2>1, <2>2 DEF Url
<1>6. CASE UrlLogin(t)
  <2>0. t \in disturbed  BY <1>6 DEF UrlLogin
  <2>1. CASE Opened /\ Raise(t, "gone")  BY <1>6, <2>0, <2>1 DEF UrlLogin, Opened, Raise
  <2>2. CASE Opened /\ End(t)  BY <1>6, <2>2 DEF UrlLogin, Opened, End
  <2>3. CASE \E e \in {"network", "arl"} : LoginFails(e) /\ Raise(t, "gone")
    BY <1>6, <2>0, <2>3 DEF UrlLogin, LoginFails, Raise
  <2> QED  BY <1>6, <2>1, <2>2, <2>3 DEF UrlLogin
<1>7. CASE Judge(t)
  <2>1. CASE End(t)  BY <1>7, <2>1 DEF Judge, End, account
  <2>2. CASE try[t] # 2 /\ Goto(t, "drop") /\ UNCHANGED <<want, token, try, failed>>
    BY <1>7, <2>2 DEF Judge, account
  <2> QED  BY <1>7, <2>1, <2>2 DEF Judge
<1>8. CASE Drop(t)  BY <1>8 DEF Drop, Dropped, Outdated, Resolving
<1>9. CASE Relogin(t)
  <2>1. CASE /\ IF session = "none" THEN Opened ELSE UNCHANGED account
             /\ Goto(t, "again") /\ UNCHANGED <<want, token, try, failed>>
    BY <1>9, <2>1 DEF Relogin, Opened, account
  <2>2. CASE (\E e \in {"network", "arl"} : LoginFails(e)) /\ End(t)
    BY <1>9, <2>2 DEF Relogin, LoginFails, End
  <2> QED  BY <1>9, <2>1, <2>2 DEF Relogin
<1>10. CASE Again(t)  BY <1>10 DEF Again
<1> QED
  BY <1>1, <1>2, <1>3, <1>4, <1>5, <1>6, <1>7, <1>8, <1>9, <1>10 DEF Step

\* A new resolve begins alone.
LEMMA ResolveInv == ASSUME IInv, NEW t \in Thread, NEW k \in Track, Resolve(t, k) PROVE IInv'
  BY DEF Resolve, IInv, TypeOK, Tokens, FirstTry, OwnToken, LicenceLasts, GoneIsExpired, Alone,
         Goto, account

LEMMA OthersInv == ASSUME IInv, Others PROVE IInv'
<1>0. TypeOK'  BY OthersType DEF IInv
<1> USE <1>0 DEF IInv, TypeOK, FirstTry, OwnToken, LicenceLasts, GoneIsExpired, Alone, local, account
<1>1. CASE CheckDrops  BY <1>1 DEF CheckDrops, Dropped, Outdated, Resolving
<1>2. CASE SetArl  BY <1>2 DEF SetArl, Dropped, Outdated, Resolving
<1>3. CASE Check  BY <1>3 DEF Check, Opened, LoginFails
<1>4. CASE NetChanges  BY <1>4 DEF NetChanges
<1>5. CASE WindowCloses  BY <1>5 DEF WindowCloses
<1>6. CASE BackoffEnds  BY <1>6 DEF BackoffEnds
<1>7. CASE Expire  BY <1>7 DEF Expire
<1> QED  BY <1>1, <1>2, <1>3, <1>4, <1>5, <1>6, <1>7 DEF Others

LEMMA InvHolds == Spec => []IInv
<1>1. Init => IInv
  BY DEF Init, IInv, TypeOK, Tokens, FirstTry, OwnToken, LicenceLasts, GoneIsExpired, Alone
<1>2. IInv /\ [Next]_vars => IInv'
  <2> SUFFICES ASSUME IInv, [Next]_vars PROVE IInv'  OBVIOUS
  <2>1. CASE UNCHANGED vars
    BY <2>1 DEF vars, account, local, IInv, TypeOK, FirstTry, OwnToken, LicenceLasts,
                GoneIsExpired, Alone
  <2>2. CASE Next  BY <2>2, StepInv, ResolveInv, OthersInv DEF Next, Others
  <2> QED  BY <2>1, <2>2
<1> QED  BY <1>1, <1>2, PTL DEF Spec

\* The account and the threads that resolve on it keep their types.
THEOREM TypeCorrect == Spec => []TypeOK
<1>1. IInv => TypeOK  BY DEF IInv
<1> QED  BY <1>1, InvHolds, PTL

\* provider.py, resolve: no expired licence, memo, outage or failed login
\* condemns a playable track; it takes another thread that drops the session in
\* the middle of the resolve.
THEOREM RacesAloneCondemn == Spec => OnlyRacesCondemn
<1>1. ASSUME IInv, Next, NEW t \in Thread, Condemns(t), want[t] \in Playable
      PROVE  t \in disturbed
  <2>1. Judge(t)
    <3>1. \A u \in Thread : u # t /\ Step(u) => pc'[t] = pc[t]
      BY <1>1 DEF IInv, TypeOK, Step, InfoLogin, InfoMemo, InfoAsk, InfoAnswer, Url, UrlLogin, Judge,
           Drop, Relogin, Again, Asking, End, Raise, Goto
    <3>2. \A u \in Thread, k \in Track : Resolve(u, k) => pc'[t] # "idle" \/ pc[t] # "judge"
      BY <1>1 DEF IInv, TypeOK, Resolve, Goto
    <3>3. Others => pc' = pc
      BY DEF Others, CheckDrops, SetArl, Check, NetChanges, WindowCloses, BackoffEnds, Expire, local
    <3>4. Step(t)  BY <1>1, <3>1, <3>2, <3>3 DEF Next, Others, Condemns
    <3> QED  BY <1>1, <3>4 DEF Step, Condemns, InfoLogin, InfoMemo, InfoAsk, InfoAnswer, Url, UrlLogin,
                  Drop, Relogin, Again
  <2>2. try[t] = 2 \/ window = "open"
    BY <1>1, <2>1 DEF Judge, Goto, Condemns, IInv, TypeOK
  <2>3. session # "expired"  BY <1>1, <2>2 DEF IInv, LicenceLasts
  <2> QED  BY <1>1, <2>3 DEF IInv, GoneIsExpired, Condemns, Alone
<1>2. ASSUME IInv, [Next]_vars
      PROVE  [\A t \in Thread : Condemns(t) /\ want[t] \in Playable => t \in disturbed]_vars
  BY <1>1, <1>2
<1>3. IInv /\ [Next]_vars =>
        [\A t \in Thread : Condemns(t) /\ want[t] \in Playable => t \in disturbed]_vars
  BY <1>2
<1> QED  BY <1>3, InvHolds, PTL DEF Spec, OnlyRacesCondemn
-----------------------------------------------------------------------------
(* What ResolveEnds rests on besides fairness.                              *)

\* The steps a resolve still has before it, at most: seven of the first
\* attempt, a re-login included, then four of the second.
Place(l) ==
    CASE l = "info"    -> 4
      [] l = "asked"   -> 3
      [] l = "url"     -> 2
      [] l = "judge"   -> 1
      [] l = "drop"    -> 0
      [] l = "relogin" -> -1
      [] l = "again"   -> -2
      [] OTHER         -> 0
Left(l, n) == IF l = "idle" THEN 0 ELSE IF n = 1 THEN Place(l) + 7 ELSE Place(l)

\* A re-login takes the first attempt's places after "judge", and the second
\* attempt begins where they end.
LEMMA LeftBounds ==
    ASSUME NEW l \in {"idle", "info", "asked", "url", "judge", "drop", "relogin", "again"},
           NEW n \in 1..2, l \in {"drop", "relogin", "again"} => n = 1
    PROVE  Left(l, n) \in 0..11 /\ (Left(l, n) = 0 <=> l = "idle")
<1>1. CASE l = "idle"  BY <1>1 DEF Left
<1>2. CASE l \in {"info", "asked", "url", "judge"}
  <2>1. Place(l) \in 1..4  BY <1>2 DEF Place
  <2> QED  BY <1>2, <2>1 DEF Left
<1>3. CASE l \in {"drop", "relogin", "again"}
  <2>1. Place(l) \in {-2, -1, 0}  BY <1>3 DEF Place
  <2> QED  BY <1>3, <2>1 DEF Left
<1> QED  BY <1>1, <1>2, <1>3

\* A step of a resolve ends it, goes on in the same attempt, or begins the
\* second one.
Onward(t) ==
    \/ pc'[t] = "idle"
    \/ try'[t] = try[t] /\ <<pc[t], pc'[t]>> \in
          {<<"info", "asked">>, <<"info", "url">>, <<"info", "judge">>, <<"asked", "url">>,
           <<"asked", "judge">>, <<"url", "judge">>, <<"drop", "relogin">>, <<"relogin", "again">>}
    \/ try'[t] = try[t] /\ try[t] = 1 /\ pc[t] = "judge" /\ pc'[t] = "drop"
    \/ try[t] = 1 /\ try'[t] = 2 /\ pc[t] = "again" /\ pc'[t] = "info"

LEMMA StepIsOnward ==
    ASSUME IInv, NEW t \in Thread, Step(t)
    PROVE  /\ pc[t] # "idle" /\ Onward(t)
           /\ \A u \in Thread \ {t} : pc'[u] = pc[u] /\ try'[u] = try[u]
<1> USE DEF IInv, TypeOK, FirstTry, Onward, Goto
<1>1. CASE InfoLogin(t)
  <2>1. CASE Asking(t)  BY <1>1, <2>1 DEF InfoLogin, Asking
  <2>2. CASE End(t)  BY <1>1, <2>2 DEF InfoLogin, End
  <2>3. CASE Raise(t, "error")  BY <1>1, <2>3 DEF InfoLogin, Raise
  <2> QED  BY <1>1, <2>1, <2>2, <2>3 DEF InfoLogin
<1>2. CASE InfoMemo(t)  BY <1>2 DEF InfoMemo
<1>3. CASE InfoAsk(t)  BY <1>3 DEF InfoAsk, Asking
<1>4. CASE InfoAnswer(t)
  <2>1. CASE Goto(t, "url") /\ UNCHANGED <<want, token, try, failed>>
    BY <1>4, <2>1 DEF InfoAnswer
  <2>2. CASE Raise(t, "error")  BY <1>4, <2>2 DEF InfoAnswer, Raise
  <2>3. CASE End(t)  BY <1>4, <2>3 DEF InfoAnswer, End
  <2> QED  BY <1>4, <2>1, <2>2, <2>3 DEF InfoAnswer
<1>5. CASE Url(t)  BY <1>5 DEF Url, End, Raise
<1>6. CASE UrlLogin(t)
  <2>1. CASE Raise(t, "gone")  BY <1>6, <2>1 DEF UrlLogin, Raise
  <2>2. CASE End(t)  BY <1>6, <2>2 DEF UrlLogin, End
  <2> QED  BY <1>6, <2>1, <2>2 DEF UrlLogin
<1>7. CASE Judge(t)  BY <1>7 DEF Judge, End
<1>8. CASE Drop(t)  BY <1>8 DEF Drop
<1>9. CASE Relogin(t)
  <2>1. CASE Goto(t, "again") /\ UNCHANGED <<want, token, try, failed>>
    BY <1>9, <2>1 DEF Relogin
  <2>2. CASE End(t)  BY <1>9, <2>2 DEF Relogin, End
  <2> QED  BY <1>9, <2>1, <2>2 DEF Relogin
<1>10. CASE Again(t)  BY <1>10 DEF Again
<1> QED
  BY <1>1, <1>2, <1>3, <1>4, <1>5, <1>6, <1>7, <1>8, <1>9, <1>10 DEF Step

LEMMA OnwardShortens ==
    ASSUME IInv, TypeOK', NEW t \in Thread, pc[t] # "idle", Onward(t)
    PROVE  Left(pc'[t], try'[t]) < Left(pc[t], try[t])
<1>1. CASE pc'[t] = "idle"
  <2>1. Left(pc[t], try[t]) \in 0..11 /\ Left(pc[t], try[t]) # 0
    <3>1. /\ pc[t] \in {"idle", "info", "asked", "url", "judge", "drop", "relogin", "again"}
          /\ try[t] \in 1..2 /\ (pc[t] \in {"drop", "relogin", "again"} => try[t] = 1)
      BY DEF IInv, TypeOK, FirstTry
    <3> QED  BY <3>1, LeftBounds
  <2> QED  BY <1>1, <2>1 DEF Left
<1>2. CASE pc'[t] # "idle"
  <2>1. try[t] \in 1..2 /\ try'[t] \in 1..2  BY DEF IInv, TypeOK
  <2> QED  BY <1>2, <2>1 DEF Onward, Left, Place
<1> QED  BY <1>1, <1>2

\* A resolve is under way exactly while it has steps before it.
Bounded ==
    \A t \in Thread : /\ Left(pc[t], try[t]) \in 0..11
                      /\ Left(pc[t], try[t]) = 0 <=> pc[t] = "idle"

\* Every thread that resolves comes nearer its end with each step of its own;
\* no step of another thread, of the administrator, of the net or of a clock
\* takes it further from there.
Shortens ==
    /\ \A t \in Thread : Step(t) => Left(pc'[t], try'[t]) < Left(pc[t], try[t])
    /\ \A t \in Thread : pc[t] # "idle" =>
          Left(pc'[t], try'[t]) < Left(pc[t], try[t]) \/ (pc'[t] = pc[t] /\ try'[t] = try[t])

LEMMA StepsShorten == ASSUME IInv, [Next]_vars PROVE [Shortens]_vars
<1>0. IInv'
  <2>1. CASE UNCHANGED vars
    BY <2>1 DEF vars, account, local, IInv, TypeOK, FirstTry, OwnToken, LicenceLasts,
                GoneIsExpired, Alone
  <2>2. CASE Next  BY <2>2, StepInv, ResolveInv, OthersInv DEF Next, Others
  <2> QED  BY <2>1, <2>2
<1>1. TypeOK'  BY <1>0 DEF IInv
<1>2. ASSUME NEW t \in Thread, Step(t)
      PROVE  Left(pc'[t], try'[t]) < Left(pc[t], try[t])
  BY <1>1, <1>2, StepIsOnward, OnwardShortens
<1>3. ASSUME Next, NEW t \in Thread, pc[t] # "idle"
      PROVE  \/ Left(pc'[t], try'[t]) < Left(pc[t], try[t])
             \/ pc'[t] = pc[t] /\ try'[t] = try[t]
  <2>1. ASSUME NEW u \in Thread, Step(u)
        PROVE  \/ Left(pc'[t], try'[t]) < Left(pc[t], try[t])
               \/ pc'[t] = pc[t] /\ try'[t] = try[t]
    BY <1>2, <2>1, StepIsOnward
  <2>2. ASSUME NEW u \in Thread, NEW k \in Track, Resolve(u, k)
        PROVE  pc'[t] = pc[t] /\ try'[t] = try[t]
    BY <1>3, <2>2 DEF Resolve, Goto, IInv, TypeOK
  <2>3. CASE Others
    BY <2>3 DEF Others, CheckDrops, SetArl, Check, NetChanges, WindowCloses, BackoffEnds, Expire, local
  <2> QED  BY <1>3, <2>1, <2>2, <2>3 DEF Next, Others
<1> QED  BY <1>2, <1>3 DEF Shortens

\* provider.py, resolve: whatever Deezer, the net and the other threads do, a
\* resolve has at most eleven steps, each of its own brings it nearer its end
\* and nothing else takes it back, so that it re-opens the session once at
\* most.  What ResolveEnds needs beyond this is that a step is taken.
THEOREM ResolveIsBounded == Spec => []Bounded /\ [][Shortens]_vars
<1>1. IInv => Bounded
  <2> SUFFICES ASSUME IInv, NEW t \in Thread
               PROVE  /\ Left(pc[t], try[t]) \in 0..11
                      /\ Left(pc[t], try[t]) = 0 <=> pc[t] = "idle"
    BY DEF Bounded
  <2>1. /\ pc[t] \in {"idle", "info", "asked", "url", "judge", "drop", "relogin", "again"}
        /\ try[t] \in 1..2 /\ (pc[t] \in {"drop", "relogin", "again"} => try[t] = 1)
    BY DEF IInv, TypeOK, FirstTry
  <2> QED  BY <2>1, LeftBounds
<1>2. IInv /\ [Next]_vars => [Shortens]_vars  BY StepsShorten
<1> QED  BY <1>1, <1>2, InvHolds, PTL DEF Spec
=============================================================================
