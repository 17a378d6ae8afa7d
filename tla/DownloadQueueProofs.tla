------------------------ MODULE DownloadQueueProofs ------------------------
(***************************************************************************)
(* The download queue for every number of workers, request threads and     *)
(* entries, every length of the queue and every limit on the retries: its  *)
(* types, that it implements TaskPool, and that it uses the breaker as     *)
(* CircuitBreaker says a caller does.                                      *)
(*                                                                         *)
(* An entry is at one place of the queue, so that taking it out of there   *)
(* takes it out of the queue; and a worker's hand is empty exactly while   *)
(* it is idle, so that it takes an entry only into an empty hand.  That a  *)
(* sleep is no longer than MaxWait needs the breaker's wait to be a        *)
(* number, which is all the queue needs to know of the breaker.            *)
(***************************************************************************)
EXTENDS DownloadQueue, FiniteSetTheorems, SequenceTheorems, TLAPS

-----------------------------------------------------------------------------
(* Sequences without repetition.                                            *)

Once(s) == \A i, j \in 1..Len(s) : i # j => s[i] # s[j]

LEMMA Appended ==
    ASSUME NEW S, NEW s \in Seq(S), NEW x \in S, Once(s), x \notin Range(s)
    PROVE  /\ Append(s, x) \in Seq(S) /\ Len(Append(s, x)) = Len(s) + 1
           /\ Range(Append(s, x)) = Range(s) \cup {x}
           /\ Once(Append(s, x))
<1> DEFINE t == Append(s, x)
<1>1. /\ t \in Seq(S) /\ Len(t) = Len(s) + 1 /\ t[Len(s) + 1] = x
      /\ \A i \in 1..Len(s) : t[i] = s[i]
  OBVIOUS
<1>2. /\ Len(s) \in Nat /\ DOMAIN s = 1..Len(s) /\ DOMAIN t = 1..Len(t)
      /\ 1..Len(t) = (1..Len(s)) \cup {Len(s) + 1}
  BY <1>1
<1> HIDE DEF t
<1>3. Range(t) = Range(s) \cup {x}
  BY <1>1, <1>2 DEF Range
<1>4. Once(t)
  BY <1>1, <1>2 DEF Once, Range
<1> QED
  BY <1>1, <1>3, <1>4 DEF t

LEMMA RemoveAtIs ==
    ASSUME NEW S, NEW s \in Seq(S), NEW i \in 1..Len(s)
    PROVE  /\ RemoveAt(s, i) \in Seq(S) /\ Len(RemoveAt(s, i)) = Len(s) - 1
           /\ \A j \in 1..(Len(s) - 1) :
                 RemoveAt(s, i)[j] = IF j < i THEN s[j] ELSE s[j + 1]
<1> DEFINE h == SubSeq(s, 1, i - 1)
           t == SubSeq(s, i + 1, Len(s))
           n == Len(s)
<1>1. n \in Nat /\ i \in 1..n /\ i \in Int /\ \A j \in 1..n : s[j] \in S
  OBVIOUS
<1>2. /\ h \in Seq(S) /\ Len(h) = IF 1 <= i - 1 THEN i - 1 - 1 + 1 ELSE 0
      /\ \A j \in 1..(i - 1 - 1 + 1) : h[j] = s[1 + j - 1]
  <2>1. \A j \in 1..(i - 1) : s[j] \in S
    BY <1>1
  <2>2. 1 \in Int /\ i - 1 \in Int
    BY <1>1
  <2> QED
    BY <2>1, <2>2, SubSeqProperties
<1>3. /\ t \in Seq(S) /\ Len(t) = IF i + 1 <= n THEN n - (i + 1) + 1 ELSE 0
      /\ \A j \in 1..(n - (i + 1) + 1) : t[j] = s[i + 1 + j - 1]
  <2>1. \A j \in (i + 1)..n : s[j] \in S
    BY <1>1
  <2>2. i + 1 \in Int /\ n \in Int
    BY <1>1
  <2> QED
    BY <2>1, <2>2, SubSeqProperties
<1>4. RemoveAt(s, i) = h \o t
  BY DEF RemoveAt
<1> HIDE DEF h, t, n
<1>5. Len(h) = i - 1 /\ \A j \in 1..(i - 1) : h[j] = s[j]
  BY <1>1, <1>2
<1>6. Len(t) = n - i /\ \A j \in 1..(n - i) : t[j] = s[i + j]
  <2>1. n - (i + 1) + 1 = n - i /\ \A j \in 1..(n - i) : i + 1 + j - 1 = i + j
    BY <1>1
  <2>2. Len(t) = n - i
    BY <1>1, <1>3, <2>1
  <2>3. ASSUME NEW j \in 1..(n - i) PROVE t[j] = s[i + j]
    <3>1. t[j] = s[i + 1 + j - 1]
      BY <1>3, <2>1
    <3> QED
      BY <2>1, <3>1
  <2> QED
    BY <2>2, <2>3
<1>7. h \in Seq(S) /\ t \in Seq(S)
  BY <1>2, <1>3
<1> DEFINE u == h \o t
<1>8. /\ u \in Seq(S) /\ Len(u) = Len(h) + Len(t)
      /\ \A j \in 1..(Len(h) + Len(t)) :
            u[j] = IF j <= Len(h) THEN h[j] ELSE t[j - Len(h)]
  BY <1>7, ConcatProperties
<1> HIDE DEF u
<1>9. Len(h) + Len(t) = n - 1
  BY <1>1, <1>5, <1>6
<1>10. ASSUME NEW j \in 1..(n - 1) PROVE u[j] = IF j < i THEN s[j] ELSE s[j + 1]
  <2>1. u[j] = IF j <= i - 1 THEN h[j] ELSE t[j - (i - 1)]
    BY <1>5, <1>8, <1>9
  <2>2. CASE j < i
    <3>1. j \in 1..(i - 1) /\ j <= i - 1
      BY <1>1, <2>2
    <3> QED
      BY <1>5, <2>1, <2>2, <3>1
  <2>3. CASE ~(j < i)
    <3>1. ~(j <= i - 1) /\ j - (i - 1) \in 1..(n - i) /\ i + (j - (i - 1)) = j + 1
      BY <1>1, <2>3
    <3>2. u[j] = t[j - (i - 1)]
      BY <2>1, <3>1
    <3>3. t[j - (i - 1)] = s[i + (j - (i - 1))]
      BY <1>6, <3>1
    <3> QED
      BY <2>3, <3>1, <3>2, <3>3
  <2> QED
    BY <2>2, <2>3
<1>11. u \in Seq(S) /\ Len(u) = n - 1
  BY <1>8, <1>9
<1> QED
  BY <1>4, <1>10, <1>11 DEF n, u

LEMMA Removed ==
    ASSUME NEW S, NEW s \in Seq(S), NEW i \in 1..Len(s), Once(s)
    PROVE  /\ RemoveAt(s, i) \in Seq(S) /\ Len(RemoveAt(s, i)) = Len(s) - 1
           /\ s[i] \in S /\ s[i] \in Range(s)
           /\ Range(RemoveAt(s, i)) = Range(s) \ {s[i]}
           /\ Once(RemoveAt(s, i))
<1> DEFINE t == RemoveAt(s, i)
           n == Len(s) - 1
<1>1. Len(s) \in Nat /\ DOMAIN s = 1..Len(s) /\ i \in Nat /\ n \in Nat /\ s[i] \in S
  OBVIOUS
<1>2. /\ t \in Seq(S) /\ Len(t) = n
      /\ \A j \in 1..n : t[j] = IF j < i THEN s[j] ELSE s[j + 1]
  BY RemoveAtIs
<1> HIDE DEF t
<1>4. t \in Seq(S) /\ Len(t) = n /\ DOMAIN t = 1..n
  BY <1>2
<1>5. ASSUME NEW j \in 1..n PROVE t[j] = IF j < i THEN s[j] ELSE s[j + 1]
  BY <1>2
<1>6. \A j \in 1..n : /\ j < i => j \in 1..Len(s) /\ j # i
                      /\ ~(j < i) => j + 1 \in 1..Len(s) /\ j + 1 # i
  BY <1>1
<1>7. Range(t) \subseteq Range(s) \ {s[i]}
  <2>1. ASSUME NEW j \in 1..n PROVE t[j] \in Range(s) \ {s[i]}
    <3>1. PICK k \in 1..Len(s) : k # i /\ t[j] = s[k]
      BY <1>5, <1>6
    <3> QED
      BY <1>1, <3>1 DEF Range, Once
  <2> QED
    BY <1>4, <2>1 DEF Range
<1>8. ASSUME NEW k \in 1..Len(s), k # i PROVE s[k] \in Range(t)
  <2>1. CASE k < i
    <3>1. k \in 1..n
      BY <1>1, <2>1
    <3> QED
      BY <1>4, <1>5, <2>1, <3>1 DEF Range
  <2>2. CASE k > i
    <3>1. k - 1 \in 1..n /\ ~(k - 1 < i) /\ (k - 1) + 1 = k
      BY <1>1, <2>2
    <3> QED
      BY <1>4, <1>5, <3>1 DEF Range
  <2> QED
    BY <1>1, <1>8, <2>1, <2>2
<1>9. Range(s) \ {s[i]} \subseteq Range(t)
  BY <1>1, <1>8 DEF Range
<1>10. Once(t)
  <2> SUFFICES ASSUME NEW j \in 1..n, NEW k \in 1..n, j # k PROVE t[j] # t[k]
    BY <1>1, <1>4 DEF Once
  <2> DEFINE J == IF j < i THEN j ELSE j + 1
             K == IF k < i THEN k ELSE k + 1
  <2>1. t[j] = s[J] /\ t[k] = s[K]
    BY <1>5
  <2>2. J \in 1..Len(s) /\ K \in 1..Len(s) /\ J # K
    BY <1>1
  <2> QED
    BY <2>1, <2>2 DEF Once
<1>11. s[i] \in Range(s)
  BY <1>1 DEF Range
<1> QED
  BY <1>1, <1>4, <1>7, <1>9, <1>10, <1>11 DEF t, n

\* A sequence has no more values than places.
LEMMA FewerValues ==
    ASSUME NEW S, NEW s \in Seq(S)
    PROVE  IsFiniteSet(Range(s)) /\ Cardinality(Range(s)) <= Len(s)
<1>1. Len(s) \in Nat /\ DOMAIN s = 1..Len(s)
  OBVIOUS
<1>2. IsFiniteSet(1..Len(s)) /\ Cardinality(1..Len(s)) = Len(s)
  BY <1>1, FS_Interval
<1>3. s \in Surjection(1..Len(s), Range(s))
  BY <1>1 DEF Surjection, Range
<1> QED
  BY <1>2, <1>3, FS_Surjection

-----------------------------------------------------------------------------
(* The breaker, as the queue uses it.                                       *)

CooldownsAreNumbers == BaseCooldown \in Nat /\ MaxCooldown \in Nat

WaitIsNumber == wait \in Nat /\ cooldown \in Nat

LEMMA WaitInit == CooldownsAreNumbers /\ Init => WaitIsNumber
  BY DEF CooldownsAreNumbers, Init, Breaker!Init, WaitIsNumber

\* Every step leaves the breaker alone or is one of its steps.
LEMMA BreakerStep == [Next]_vars => [Breaker!Next]_breaker
<1> SUFFICES ASSUME [Next]_vars PROVE [Breaker!Next]_breaker
  OBVIOUS
<1>1. CASE UNCHANGED vars
  BY <1>1 DEF vars
<1>2. CASE \E e \in Entry : Offer(e)
  BY <1>2 DEF Offer
<1>3. ASSUME NEW w \in Worker, Step(w) PROVE [Breaker!Next]_breaker
  <2>1. CASE Take(w) \/ Skip(w) \/ Refused(w) \/ Handle(w) \/ Wake(w)
    BY <2>1 DEF Take, Skip, Refused, Handle, Wake
  <2>2. CASE Ask(w)
    BY <2>2 DEF Ask, Breaker!Next
  <2>3. CASE Answer(w)
    BY <2>3 DEF Answer, Breaker!Next, Breaker!Report
  <2>4. CASE NoAnswer(w)
    BY <2>4 DEF NoAnswer, Breaker!Next, Breaker!Report
  <2> QED
    BY <1>3, <2>1, <2>2, <2>3, <2>4 DEF Step
<1>4. CASE Elsewhere
  BY <1>4 DEF Elsewhere, Breaker!Next
<1>5. CASE Tick
  BY <1>5 DEF Tick, Breaker!Next
<1> QED
  BY <1>1, <1>2, <1>3, <1>4, <1>5 DEF Next

LEMMA WaitStep ==
    ASSUME CooldownsAreNumbers, WaitIsNumber, [Breaker!Next]_breaker
    PROVE  WaitIsNumber'
<1> USE DEF CooldownsAreNumbers, WaitIsNumber
<1>1. CASE UNCHANGED breaker
  BY <1>1 DEF breaker
<1>2. ASSUME NEW t \in Worker \cup Other, Breaker!Ask(t) PROVE WaitIsNumber'
  BY <1>2 DEF Breaker!Ask, Breaker!Send, Breaker!SendProbe
<1>3. ASSUME NEW t \in Worker \cup Other, Breaker!OnSuccess(t) \/ Breaker!Abandon(t)
      PROVE  WaitIsNumber'
  BY <1>3 DEF Breaker!OnSuccess, Breaker!Abandon
<1>4. ASSUME NEW t \in Worker \cup Other, Breaker!Fail(t) PROVE WaitIsNumber'
  <2>1. Breaker!Doubled \in Nat
    BY DEF Breaker!Doubled, Breaker!Smaller
  <2> QED
    BY <1>4, <2>1 DEF Breaker!Fail, Breaker!BackOff, Breaker!CountFailure
<1>5. CASE Breaker!Reset
  BY <1>5 DEF Breaker!Reset
<1>6. CASE Breaker!Tick
  BY <1>6 DEF Breaker!Tick, Breaker!OneLess
<1> QED
  BY <1>1, <1>2, <1>3, <1>4, <1>5, <1>6 DEF Breaker!Next, Breaker!Report

-----------------------------------------------------------------------------
(* The queue and the hands.                                                 *)

\* A hand is empty exactly while its worker is idle.
HandsFull == \A w \in Worker : hand[w] = Nothing <=> at[w] = "idle"

IInv == TypeOK /\ Once(queue) /\ HandsFull /\ WaitIsNumber

\* What a worker does that neither takes an entry nor settles one.
Going(w) ==
    /\ at[w] # "idle"
    /\ UNCHANGED <<queue, hand>>
    /\ \E l \in Places \ {"idle"} : Goto(w, l)

LEMMA InitInv == CooldownsAreNumbers /\ Init => IInv
<1> SUFFICES ASSUME CooldownsAreNumbers, Init PROVE IInv
  OBVIOUS
<1>1. queue \in Seq(Entry) /\ Len(queue) = 0 /\ Once(queue)
  BY DEF Init, Once
<1>2. HandsFull
  BY DEF Init, HandsFull
<1>3. TypeOK
  BY <1>1, QueueAssumption DEF Init, TypeOK, Places
<1> QED
  BY <1>1, <1>2, <1>3, WaitInit DEF IInv

LEMMA OfferInv ==
    ASSUME TypeOK, Once(queue), NEW e \in Entry, Offer(e)
    PROVE  /\ queue' \in Seq(Entry) /\ Len(queue') <= MaxQueue /\ Once(queue')
           /\ Queued' = Queued \cup {e}
           /\ Cardinality(Queued) < MaxQueue
<1>1. queue \in Seq(Entry) /\ e \notin Range(queue) /\ queue' = Append(queue, e)
      /\ Len(queue) < MaxQueue
  BY DEF TypeOK, Offer, Queued
<1>2. /\ queue' \in Seq(Entry) /\ Len(queue') = Len(queue) + 1 /\ Once(queue')
      /\ Range(queue') = Range(queue) \cup {e}
  BY <1>1, Appended
<1>3. IsFiniteSet(Range(queue)) /\ Cardinality(Range(queue)) <= Len(queue)
  BY <1>1, FewerValues
<1>4. Len(queue) \in Nat /\ Cardinality(Range(queue)) \in Nat
  BY <1>1, <1>3, FS_CardinalityType
<1> QED
  BY <1>1, <1>2, <1>3, <1>4, QueueAssumption DEF Queued

LEMMA TakeInv ==
    ASSUME TypeOK, Once(queue), NEW w \in Worker, Take(w)
    PROVE  /\ queue' \in Seq(Entry) /\ Len(queue') <= MaxQueue /\ Once(queue')
           /\ \E e \in Entry : /\ e \in Queued /\ Queued' = Queued \ {e}
                               /\ hand' = [hand EXCEPT ![w] = e]
<1>1. PICK i \in DOMAIN queue : /\ hand' = [hand EXCEPT ![w] = queue[i]]
                                /\ queue' = RemoveAt(queue, i)
  BY DEF Take
<1>2. queue \in Seq(Entry) /\ i \in 1..Len(queue) /\ Len(queue) \in Nat
      /\ Len(queue) <= MaxQueue
  BY DEF TypeOK
<1>3. /\ queue' \in Seq(Entry) /\ Len(queue') = Len(queue) - 1 /\ Once(queue')
      /\ queue[i] \in Entry /\ queue[i] \in Range(queue)
      /\ Range(queue') = Range(queue) \ {queue[i]}
  BY <1>1, <1>2, Removed
<1>4. Len(queue') <= MaxQueue
  BY <1>2, <1>3, QueueAssumption
<1> QED
  BY <1>1, <1>3, <1>4 DEF Queued

\* A worker with an entry goes on to its next place, or settles the entry.
LEMMA Goings ==
    ASSUME NEW w \in Worker,
           Skip(w) \/ Ask(w) \/ Refused(w) \/ Answer(w) \/ NoAnswer(w) \/ Handle(w) \/ Wake(w)
    PROVE  /\ UNCHANGED queue
           /\ Going(w) \/ (at[w] # "idle" /\ Settle(w))
  BY DEF Skip, Ask, Refused, Answer, NoAnswer, Handle, Wake, Going, Goto, Places

\* Types of the retries and of the sleeps.
LEMMA CountsTyped ==
    ASSUME TypeOK, WaitIsNumber, NEW w \in Worker, Step(w)
    PROVE  attempt' \in [Worker -> 0..MaxRetries] /\ nap' \in [Worker -> 0..MaxWait]
<1> USE QueueAssumption
<1>1. attempt \in [Worker -> 0..MaxRetries] /\ nap \in [Worker -> 0..MaxWait]
  BY DEF TypeOK
<1>2. 0 \in 0..MaxRetries
  OBVIOUS
<1>3. attempt' \in [Worker -> 0..MaxRetries]
  <2>1. CASE Handle(w)
    <3>1. attempt' = attempt \/ attempt' = [attempt EXCEPT ![w] = 0]
          \/ (attempt[w] < MaxRetries /\ attempt' = [attempt EXCEPT ![w] = attempt[w] + 1])
      BY <2>1 DEF Handle, Settle
    <3>2. attempt[w] < MaxRetries => attempt[w] + 1 \in 0..MaxRetries
      BY <1>1
    <3> QED
      BY <1>1, <1>2, <3>1, <3>2
  <2>2. CASE ~Handle(w)
    BY <1>1, <1>2, <2>2 DEF Step, Take, Skip, Ask, Refused, Answer, NoAnswer, Wake, Settle
  <2> QED
    BY <2>1, <2>2
<1>4. nap' \in [Worker -> 0..MaxWait]
  <2>1. Breaker!Smaller(wait, MaxWait) \in 0..MaxWait
    BY DEF WaitIsNumber, Breaker!Smaller
  <2>2. nap' = nap \/ nap' = [nap EXCEPT ![w] = Breaker!Smaller(wait, MaxWait)]
    BY DEF Step, Take, Skip, Ask, Refused, Answer, NoAnswer, Handle, Wake
  <2> QED
    BY <1>1, <2>1, <2>2
<1> QED
  BY <1>3, <1>4

LEMMA NextInv ==
    ASSUME CooldownsAreNumbers, IInv, [Next]_vars PROVE IInv'
<1> USE DEF IInv
<1>1. WaitIsNumber'
  BY BreakerStep, WaitStep
<1>2. CASE \E e \in Entry : Offer(e)
  <2>1. PICK e \in Entry : Offer(e)
    BY <1>2
  <2>2. queue' \in Seq(Entry) /\ Len(queue') <= MaxQueue /\ Once(queue)'
    BY <2>1, OfferInv DEF Once
  <2>3. UNCHANGED <<hand, at, attempt, nap>>
    BY <2>1 DEF Offer, work
  <2> QED
    BY <1>1, <2>2, <2>3 DEF TypeOK, HandsFull
<1>3. ASSUME NEW w \in Worker, Take(w) PROVE IInv'
  <2>1. queue' \in Seq(Entry) /\ Len(queue') <= MaxQueue /\ Once(queue)'
    BY <1>3, TakeInv DEF Once
  <2>2. PICK e \in Entry : hand' = [hand EXCEPT ![w] = e]
    BY <1>3, TakeInv
  <2>3. at' = [at EXCEPT ![w] = "try"]
    BY <1>3 DEF Take, Goto
  <2>4. hand' \in [Worker -> Entry \cup {Nothing}] /\ at' \in [Worker -> Places]
    BY <2>2, <2>3 DEF TypeOK, Places
  <2>5. HandsFull'
    BY <2>2, <2>3, EntryAssumption DEF HandsFull, TypeOK
  <2>6. attempt' \in [Worker -> 0..MaxRetries] /\ nap' \in [Worker -> 0..MaxWait]
    BY <1>3, CountsTyped DEF Step
  <2> QED
    BY <1>1, <2>1, <2>4, <2>5, <2>6 DEF TypeOK
<1>4. ASSUME NEW w \in Worker, Step(w), ~Take(w) PROVE IInv'
  <2>1. UNCHANGED queue /\ (Going(w) \/ (at[w] # "idle" /\ Settle(w)))
    BY <1>4, Goings DEF Step
  <2>2. attempt' \in [Worker -> 0..MaxRetries] /\ nap' \in [Worker -> 0..MaxWait]
    BY <1>4, CountsTyped
  <2>3. hand' \in [Worker -> Entry \cup {Nothing}] /\ at' \in [Worker -> Places] /\ HandsFull'
    <3>1. CASE Going(w)
      <4>1. PICK l \in Places \ {"idle"} : at' = [at EXCEPT ![w] = l]
        BY <3>1 DEF Going, Goto
      <4>2. hand' = hand /\ at[w] # "idle"
        BY <3>1 DEF Going
      <4> QED
        BY <4>1, <4>2 DEF TypeOK, HandsFull
    <3>2. CASE Settle(w)
      <4>1. hand' = [hand EXCEPT ![w] = Nothing] /\ at' = [at EXCEPT ![w] = "idle"]
        BY <3>2 DEF Settle, Goto
      <4> QED
        BY <4>1 DEF TypeOK, HandsFull, Places
    <3> QED
      BY <2>1, <3>1, <3>2
  <2>4. Once(queue)'
    BY <2>1 DEF Once
  <2> QED
    BY <1>1, <2>1, <2>2, <2>3, <2>4 DEF TypeOK
<1>5. CASE Elsewhere
  <2>1. UNCHANGED <<queue, hand, at, attempt, nap>>
    BY <1>5 DEF Elsewhere, work
  <2> QED
    BY <1>1, <2>1 DEF TypeOK, Once, HandsFull
<1>6. CASE Tick
  <2>1. UNCHANGED <<queue, hand, at, attempt>>
        /\ nap' = [w \in Worker |-> Breaker!OneLess(nap[w])]
    BY <1>6 DEF Tick
  <2>2. nap' \in [Worker -> 0..MaxWait]
    BY <2>1, QueueAssumption DEF TypeOK, Breaker!OneLess
  <2> QED
    BY <1>1, <2>1, <2>2 DEF TypeOK, Once, HandsFull
<1>7. CASE UNCHANGED vars
  <2>1. UNCHANGED <<queue, hand, at, attempt, nap>>
    BY <1>7 DEF vars, work
  <2> QED
    BY <1>1, <2>1 DEF TypeOK, Once, HandsFull
<1> QED
  BY <1>2, <1>3, <1>4, <1>5, <1>6, <1>7 DEF Next

LEMMA Invariant == ASSUME CooldownsAreNumbers PROVE Spec => []IInv
<1>1. Init => IInv
  BY InitInv
<1>2. IInv /\ [Next]_vars => IInv'
  BY NextInv
<1> QED
  BY <1>1, <1>2, PTL DEF Spec

-----------------------------------------------------------------------------
(* TaskPool.                                                                *)

\* The pool counts as this module does.
LEMMA PoolCounts == \A S : Pool!Cardinality(S) = Cardinality(S)
  BY DEF Cardinality, Pool!Cardinality, IsFiniteSet, Pool!IsFiniteSet

\* Offer accepts, Take takes, what settles finishes, and the rest is nothing
\* the pool knows of.
LEMMA PoolStep == IInv /\ [Next]_vars => [Pool!Next]_<<Queued, hand>>
<1> SUFFICES ASSUME IInv, [Next]_vars PROVE [Pool!Next]_<<Queued, hand>>
  OBVIOUS
<1>1. TypeOK /\ Once(queue) /\ HandsFull
  BY DEF IInv
<1>2. ASSUME NEW e \in Entry, Offer(e) PROVE Pool!Accept(e)
  <2>1. Queued' = Queued \cup {e} /\ Cardinality(Queued) < MaxQueue
    BY <1>1, <1>2, OfferInv
  <2>2. e \notin Queued \cup Pool!Held /\ UNCHANGED hand
    BY <1>2 DEF Offer, Held, Pool!Held, work
  <2> QED
    BY <2>1, <2>2, PoolCounts DEF Pool!Accept
<1>3. ASSUME NEW w \in Worker, Take(w) PROVE \E e \in Entry : Pool!Take(w, e)
  <2>1. PICK e \in Entry : /\ e \in Queued /\ Queued' = Queued \ {e}
                           /\ hand' = [hand EXCEPT ![w] = e]
    BY <1>1, <1>3, TakeInv
  <2>2. hand[w] = Nothing
    BY <1>1, <1>3 DEF Take, HandsFull
  <2> QED
    BY <2>1, <2>2 DEF Pool!Take
<1>4. ASSUME NEW w \in Worker, Step(w), ~Take(w)
      PROVE  UNCHANGED <<Queued, hand>> \/ Pool!Finish(w)
  <2>1. UNCHANGED queue /\ (Going(w) \/ (at[w] # "idle" /\ Settle(w)))
    BY <1>4, Goings DEF Step
  <2>2. UNCHANGED Queued
    BY <2>1 DEF Queued
  <2>3. CASE Going(w)
    BY <2>2, <2>3 DEF Going
  <2>4. CASE at[w] # "idle" /\ Settle(w)
    BY <1>1, <2>2, <2>4 DEF Settle, HandsFull, Pool!Finish
  <2> QED
    BY <2>1, <2>3, <2>4
<1>5. CASE Elsewhere \/ Tick \/ UNCHANGED vars
  BY <1>5 DEF Elsewhere, Tick, vars, work, Queued
<1> QED
  BY <1>2, <1>3, <1>4, <1>5 DEF Next, Pool!Next

-----------------------------------------------------------------------------
(* What EverySettled rests on besides fairness, for an entry in a hand.      *)

\* The steps an entry still has before it, at most: four for each attempt,
\* the sleep before it included.
Place(l) == CASE l = "asleep" -> 4 [] l = "try" -> 3 [] l = "asking" -> 2 [] OTHER -> 1
Left(l, n) == IF l = "idle" THEN 0 ELSE 4 * (MaxRetries - n) + Place(l)

LEMMA LeftBounds ==
    ASSUME NEW l \in Places, NEW n \in 0..MaxRetries
    PROVE  Left(l, n) \in 0..(4 * MaxRetries + 4) /\ (Left(l, n) = 0 <=> l = "idle")
<1>1. Place(l) \in 1..4  BY DEF Place
<1>2. MaxRetries \in Nat /\ MaxRetries - n \in 0..MaxRetries  BY QueueAssumption
<1>3. CASE l = "idle"  BY <1>2, <1>3 DEF Left
<1>4. CASE l # "idle"
  <2>1. Left(l, n) = 4 * (MaxRetries - n) + Place(l)  BY <1>4 DEF Left
  <2> HIDE DEF Place
  <2> QED  BY <1>1, <1>2, <1>4, <2>1
<1> QED  BY <1>3, <1>4

\* A worker with an entry settles it, goes on in the same attempt, or spends a
\* retry and sleeps.
Onward(w) ==
    \/ at'[w] = "idle" /\ hand'[w] = Nothing
    \/ hand'[w] = hand[w] /\ attempt'[w] = attempt[w]
       /\ <<at[w], at'[w]>> \in
             {<<"asleep", "try">>, <<"try", "asking">>, <<"try", "failed">>, <<"asking", "failed">>}
    \/ hand'[w] = hand[w] /\ attempt'[w] = attempt[w] + 1
       /\ at[w] = "failed" /\ at'[w] = "asleep"

LEMMA StepIsOnward ==
    ASSUME TypeOK, NEW w \in Worker, Step(w), at[w] # "idle"
    PROVE  Onward(w)
<1> USE DEF TypeOK, Onward, Goto
<1>0. ~Take(w)  BY DEF Take
<1>1. CASE Settle(w)  BY <1>1 DEF Settle
<1>2. CASE Ask(w) \/ Refused(w)  BY <1>2 DEF Ask, Refused
<1>3. CASE NoAnswer(w) \/ Wake(w)  BY <1>3 DEF NoAnswer, Wake
<1>4. CASE Handle(w) /\ ~Settle(w)  BY <1>4 DEF Handle
<1>5. Skip(w) \/ Answer(w) => Settle(w)  BY DEF Skip, Answer
<1> QED  BY <1>0, <1>1, <1>2, <1>3, <1>4, <1>5 DEF Step

\* What another worker's step leaves alone.
LEMMA StepIsOwn ==
    ASSUME NEW w \in Worker, Step(w), NEW v \in Worker, v # w, TypeOK
    PROVE  hand'[v] = hand[v] /\ at'[v] = at[v] /\ attempt'[v] = attempt[v] /\ nap'[v] = nap[v]
<1> USE DEF TypeOK, Goto
<1>1. CASE Take(w)  BY <1>1 DEF Take
<1>2. CASE Skip(w) \/ Answer(w)  BY <1>2 DEF Skip, Answer, Settle
<1>3. CASE Ask(w) \/ Refused(w)  BY <1>3 DEF Ask, Refused
<1>4. CASE NoAnswer(w) \/ Wake(w)  BY <1>4 DEF NoAnswer, Wake
<1>5. CASE Handle(w)  BY <1>5 DEF Handle, Settle
<1> QED  BY <1>1, <1>2, <1>3, <1>4, <1>5 DEF Step

Nearer(w) == Left(at'[w], attempt'[w]) < Left(at[w], attempt[w])

LEMMA OnwardShortens ==
    ASSUME TypeOK, TypeOK', NEW w \in Worker, at[w] # "idle", Onward(w)
    PROVE  Nearer(w)
<1>1. at[w] \in Places /\ attempt[w] \in 0..MaxRetries /\ attempt'[w] \in 0..MaxRetries
  BY DEF TypeOK
<1>2. MaxRetries \in Nat  BY QueueAssumption
<1>3. CASE at'[w] = "idle"
  <2>1. Left(at[w], attempt[w]) \in Nat /\ Left(at[w], attempt[w]) # 0
    BY <1>1, <1>2, LeftBounds
  <2>2. Left(at'[w], attempt'[w]) = 0  BY <1>3 DEF Left
  <2> QED  BY <2>1, <2>2 DEF Nearer
<1>4. CASE attempt'[w] = attempt[w] /\ at'[w] # "idle"
  <2>1. Place(at'[w]) < Place(at[w]) /\ Place(at'[w]) \in Nat /\ Place(at[w]) \in Nat
    BY <1>1, <1>2, <1>4 DEF Onward, Place
  <2>2. /\ Left(at'[w], attempt'[w]) = 4 * (MaxRetries - attempt[w]) + Place(at'[w])
        /\ Left(at[w], attempt[w]) = 4 * (MaxRetries - attempt[w]) + Place(at[w])
    BY <1>4 DEF Left
  <2> QED  BY <1>1, <1>2, <2>1, <2>2 DEF Nearer
<1>5. CASE attempt'[w] # attempt[w] /\ at'[w] # "idle"
  <2>1. attempt'[w] = attempt[w] + 1 /\ at[w] = "failed" /\ at'[w] = "asleep"
    BY <1>5 DEF Onward
  <2>2. /\ Left(at'[w], attempt'[w]) = 4 * (MaxRetries - (attempt[w] + 1)) + 4
        /\ Left(at[w], attempt[w]) = 4 * (MaxRetries - attempt[w]) + 1
    BY <2>1 DEF Left, Place
  <2> QED  BY <1>1, <1>2, <2>2 DEF Nearer
<1> QED  BY <1>3, <1>4, <1>5

\* A worker with an entry keeps it until it settles it; each step of its own
\* brings it nearer to that and no step of another takes it back; and nothing
\* prolongs a sleep, which each tick shortens.
Shortens ==
    \A w \in Worker : at[w] # "idle" =>
        /\ Step(w) => Nearer(w)
        /\ hand'[w] = hand[w] \/ (at'[w] = "idle" /\ hand'[w] = Nothing)
        /\ Nearer(w) \/ (UNCHANGED <<hand[w], at[w], attempt[w]>> /\ nap'[w] <= nap[w])
        /\ Tick /\ nap[w] > 0 => nap'[w] < nap[w]

LEMMA StepsShorten ==
    ASSUME CooldownsAreNumbers, IInv, [Next]_vars PROVE [Shortens]_vars
<1> SUFFICES ASSUME Next, NEW w \in Worker, at[w] # "idle"
             PROVE  /\ Step(w) => Nearer(w)
                    /\ hand'[w] = hand[w] \/ (at'[w] = "idle" /\ hand'[w] = Nothing)
                    /\ \/ Nearer(w)
                       \/ UNCHANGED <<hand[w], at[w], attempt[w]>> /\ nap'[w] <= nap[w]
                    /\ Tick /\ nap[w] > 0 => nap'[w] < nap[w]
  BY DEF Shortens
<1>1. TypeOK /\ TypeOK'  BY NextInv DEF IInv
<1>2. nap[w] \in 0..MaxWait /\ MaxWait \in Nat  BY <1>1, QueueAssumption DEF TypeOK
<1>3. Step(w) => Onward(w) /\ Nearer(w)  BY <1>1, StepIsOnward, OnwardShortens
<1>4. ASSUME NEW v \in Worker, v # w, Step(v)
      PROVE  UNCHANGED <<hand[w], at[w], attempt[w], nap[w]>>
  BY <1>1, <1>4, StepIsOwn
<1>5. CASE Tick
  <2>1. UNCHANGED <<hand, at, attempt>> /\ nap'[w] = Breaker!OneLess(nap[w])
    BY <1>5 DEF Tick
  <2>2. nap'[w] <= nap[w] /\ (nap[w] > 0 => nap'[w] < nap[w])
    BY <1>2, <2>1 DEF Breaker!OneLess
  <2> QED  BY <1>3, <2>1, <2>2
<1>6. CASE Elsewhere \/ \E e \in Entry : Offer(e)
  <2>1. UNCHANGED <<hand, at, attempt, nap>>  BY <1>6 DEF Elsewhere, Offer, work
  <2>2. nap'[w] <= nap[w]  BY <1>2, <2>1
  <2> QED  BY <1>3, <1>5, <2>1, <2>2
<1>7. CASE Step(w)  BY <1>3, <1>5, <1>7 DEF Onward
<1>8. ASSUME NEW v \in Worker, v # w, Step(v)
      PROVE  UNCHANGED <<hand[w], at[w], attempt[w]>> /\ nap'[w] <= nap[w]
  BY <1>2, <1>4, <1>8
<1> QED  BY <1>3, <1>5, <1>6, <1>7, <1>8 DEF Next

\* No entry is left in a hand for good by the retries: an entry in a hand is
\* at most four steps for each of its MaxRetries + 1 attempts from being settled.
InReach ==
    \A w \in Worker : /\ Left(at[w], attempt[w]) \in 0..(4 * MaxRetries + 4)
                      /\ Left(at[w], attempt[w]) = 0 <=> hand[w] = Nothing

-----------------------------------------------------------------------------
(* The theorems.                                                            *)

\* Queue, hands, retries and sleeps of _dl_worker stay in their ranges.
THEOREM TypeCorrect == ASSUME CooldownsAreNumbers PROVE Spec => []TypeOK
<1>1. IInv => TypeOK
  BY DEF IInv
<1> QED
  BY <1>1, Invariant, PTL

\* _offer and _dl_worker implement the pool: an entry that was accepted is not
\* lost, given to two workers or dropped half done, through failures, sleeps
\* and retries.
THEOREM ImplementsTaskPool == ASSUME CooldownsAreNumbers PROVE Spec => IsTaskPool
<1>1. Init => Pool!Init
  BY DEF Init, Pool!Init, Queued, Range
<1> QED
  BY <1>1, PoolStep, Invariant, PTL DEF Spec, IsTaskPool, Pool!Spec

\* Workers and request threads use the breaker of _circuit.py as its callers
\* do: each admitted request is reported once, and none is sent that was not
\* admitted.
THEOREM ImplementsBreaker == Spec => KeepsBreaker
<1>1. Init => Breaker!Init
  BY DEF Init
<1>2. [Next]_vars => [Breaker!Next]_(Breaker!vars)
  BY BreakerStep DEF breaker, Breaker!vars
<1> QED
  BY <1>1, <1>2, PTL DEF Spec, KeepsBreaker, Breaker!Spec
\* _dl_worker in an outage without end: the entry it holds takes a bounded
\* number of steps, each of its own bringing it nearer its end and no other
\* worker, request, breaker or clock taking it back; a sleep is at most
\* _MAX_OUTAGE_WAIT and is never prolonged.  What EverySettled needs beyond
\* this is that the worker and the clock go on.
THEOREM HandIsBounded ==
    ASSUME CooldownsAreNumbers PROVE Spec => []InReach /\ [][Shortens]_vars
<1>1. IInv => InReach
  <2> SUFFICES ASSUME IInv, NEW w \in Worker
               PROVE  /\ Left(at[w], attempt[w]) \in 0..(4 * MaxRetries + 4)
                      /\ Left(at[w], attempt[w]) = 0 <=> hand[w] = Nothing
    BY DEF InReach
  <2>1. at[w] \in Places /\ attempt[w] \in 0..MaxRetries /\ (hand[w] = Nothing <=> at[w] = "idle")
    BY DEF IInv, TypeOK, HandsFull
  <2> QED  BY <2>1, LeftBounds
<1>2. IInv /\ [Next]_vars => [Shortens]_vars
  BY StepsShorten
<1> QED
  BY <1>1, <1>2, Invariant, PTL DEF Spec
=============================================================================
