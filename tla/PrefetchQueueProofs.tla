------------------------ MODULE PrefetchQueueProofs ------------------------
(* The look-ahead queue for every number of requesters, workers and tracks, *)
(* and every length of the queue: _seen agrees with who answers for a       *)
(* track, and the queue implements TaskPool.                                *)
(*                                                                          *)
(* Neither is inductive.  What makes them so is that a track is answered    *)
(* for once: it is at one place of the queue, or in one hand, or with one   *)
(* requester.  enqueue can then add a track that it finds outside _seen     *)
(* without a look at the queue, and a worker can take its track out of      *)
(* _seen without a look at anybody else.                                    *)
EXTENDS PrefetchQueue, FiniteSetTheorems, TLAPS

-----------------------------------------------------------------------------
(* Sequences without repetition.                                            *)

Distinct(s) == \A i, j \in 1..Len(s) : i # j => s[i] # s[j]

LEMMA RangeOfAppend ==
    ASSUME NEW S, NEW s \in Seq(S), NEW x \in S
    PROVE  /\ Append(s, x) \in Seq(S)
           /\ Len(Append(s, x)) = Len(s) + 1
           /\ Range(Append(s, x)) = Range(s) \cup {x}
           /\ Distinct(s) /\ x \notin Range(s) => Distinct(Append(s, x))
  <1>1. /\ Append(s, x) \in Seq(S)
        /\ Len(Append(s, x)) = Len(s) + 1
        /\ DOMAIN Append(s, x) = 1..Len(s) + 1
        /\ Append(s, x)[Len(s) + 1] = x
        /\ \A i \in 1..Len(s) : Append(s, x)[i] = s[i]
    OBVIOUS
  <1>2. DOMAIN s = 1..Len(s) /\ Len(s) \in Nat
    OBVIOUS
  <1>3. 1..Len(s) + 1 = (1..Len(s)) \cup {Len(s) + 1}
    BY <1>2
  <1>4. Range(Append(s, x)) = Range(s) \cup {x}
    BY <1>1, <1>2, <1>3 DEF Range
  <1>5. ASSUME Distinct(s), x \notin Range(s) PROVE Distinct(Append(s, x))
    BY <1>1, <1>2, <1>3, <1>5 DEF Distinct, Range
  <1> QED
    BY <1>1, <1>4, <1>5

LEMMA RangeOfTail ==
    ASSUME NEW S, NEW s \in Seq(S), s # <<>>, Distinct(s)
    PROVE  /\ Tail(s) \in Seq(S)
           /\ Head(s) \in S
           /\ Len(Tail(s)) < Len(s)
           /\ Head(s) \in Range(s)
           /\ Range(Tail(s)) = Range(s) \ {Head(s)}
           /\ Distinct(Tail(s))
  <1>1. /\ Len(s) \in Nat /\ Len(s) > 0 /\ DOMAIN s = 1..Len(s)
        /\ Head(s) = s[1] /\ s[1] \in S
        /\ Tail(s) \in Seq(S) /\ Len(Tail(s)) = Len(s) - 1
        /\ DOMAIN Tail(s) = 1..(Len(s) - 1)
        /\ \A i \in 1..(Len(s) - 1) : Tail(s)[i] = s[i + 1]
    OBVIOUS
  <1>2. \A i \in 1..Len(s) : i = 1 \/ i - 1 \in 1..(Len(s) - 1)
    BY <1>1
  <1>3. Range(Tail(s)) \subseteq Range(s) \ {Head(s)}
    BY <1>1 DEF Range, Distinct
  <1>4. ASSUME NEW i \in 1..Len(s), s[i] # Head(s) PROVE s[i] \in Range(Tail(s))
    <2>1. i - 1 \in 1..(Len(s) - 1) /\ i = (i - 1) + 1
      BY <1>1, <1>2, <1>4
    <2>2. Tail(s)[i - 1] = s[i]
      BY <1>1, <2>1
    <2> QED
      BY <1>1, <2>1, <2>2 DEF Range
  <1>5. Distinct(Tail(s))
    BY <1>1 DEF Distinct
  <1>6. Head(s) \in Range(s)
    BY <1>1 DEF Range
  <1>7. Range(s) \ {Head(s)} \subseteq Range(Tail(s))
    BY <1>1, <1>4 DEF Range
  <1> QED
    BY <1>1, <1>3, <1>5, <1>6, <1>7

\* A sequence has no more values than places.
LEMMA RangeSize ==
    ASSUME NEW S, NEW s \in Seq(S)
    PROVE  IsFiniteSet(Range(s)) /\ Cardinality(Range(s)) <= Len(s)
  <1>1. Len(s) \in Nat /\ DOMAIN s = 1..Len(s)
    OBVIOUS
  <1>2. IsFiniteSet(1..Len(s)) /\ Cardinality(1..Len(s)) = Len(s)
    BY <1>1, FS_Interval
  <1>3. s \in Surjection(1..Len(s), Range(s))
    BY <1>1 DEF Surjection, Range
  <1> QED
    BY <1>2, <1>3, FS_Surjection

-----------------------------------------------------------------------------
(* Types.                                                                   *)

LEMMA TypeInit == Init => TypeOK
  BY QueueAssumption DEF Init, TypeOK, Idle

\* A requester that is not idle is adding a track.
LEMMA AddingType ==
    ASSUME TypeOK, NEW r \in Requester, adding[r] # Idle
    PROVE  adding[r].track \in Track /\ adding[r].at \in {"mark", "put", "unmark"}
  BY DEF TypeOK

LEMMA AddingStep ==
    ASSUME TypeOK, NEW r \in Requester, adding[r] # Idle,
           NEW a \in {"mark", "put", "unmark"}
    PROVE  [adding EXCEPT ![r].at = a]
             \in [Requester -> [track : Track, at : {"mark", "put", "unmark"}] \cup {Idle}]
  <1>1. [adding[r] EXCEPT !.at = a] \in [track : Track, at : {"mark", "put", "unmark"}]
    BY DEF TypeOK
  <1> QED
    BY <1>1 DEF TypeOK

LEMMA TypeNext == TypeOK /\ Distinct(queue) /\ [Next]_vars => TypeOK'
  <1> SUFFICES ASSUME TypeOK, Distinct(queue), [Next]_vars PROVE TypeOK'
    OBVIOUS
  <1>1. ASSUME NEW r \in Requester, NEW t \in Track, Want(r, t) PROVE TypeOK'
    BY <1>1 DEF Want, TypeOK
  <1>2. ASSUME NEW r \in Requester, adding[r].at \in {"mark", "put", "unmark"}
        PROVE  adding[r] # Idle /\ adding[r].track \in Track
    BY <1>2, AddingType DEF Idle
  <1>3. ASSUME NEW r \in Requester, Mark(r) PROVE TypeOK'
    <2>1. adding[r] # Idle /\ adding[r].track \in Track
      BY <1>2, <1>3 DEF Mark
    <2>2. seen' \subseteq Track
      BY <1>3, <2>1 DEF Mark, TypeOK
    <2>3. adding' \in [Requester -> [track : Track, at : {"mark", "put", "unmark"}] \cup {Idle}]
      BY <1>3, <2>1, AddingStep DEF Mark, TypeOK
    <2> QED
      BY <1>3, <2>2, <2>3 DEF Mark, TypeOK
  <1>4. ASSUME NEW r \in Requester, Put(r) PROVE TypeOK'
    <2>1. adding[r] # Idle /\ adding[r].track \in Track
      BY <1>2, <1>4 DEF Put
    <2>2. CASE Len(queue) < MaxQueue
      <3>1. queue' \in Seq(Track) /\ Len(queue') = Len(queue) + 1
        BY <1>4, <2>1, <2>2, RangeOfAppend DEF Put, TypeOK
      <3>2. Len(queue') <= MaxQueue
        BY <2>2, <3>1, QueueAssumption DEF TypeOK
      <3> QED
        BY <1>4, <2>2, <3>1, <3>2 DEF Put, TypeOK
    <2>3. CASE ~(Len(queue) < MaxQueue)
      BY <1>4, <2>1, <2>3, AddingStep DEF Put, TypeOK
    <2> QED
      BY <2>2, <2>3
  <1>5. ASSUME NEW r \in Requester, Unmark(r) PROVE TypeOK'
    BY <1>5 DEF Unmark, TypeOK
  <1>6. ASSUME NEW w \in Worker, Take(w) PROVE TypeOK'
    <2>1. queue' \in Seq(Track) /\ Head(queue) \in Track /\ Len(queue') < Len(queue)
      BY <1>6, RangeOfTail DEF Take, TypeOK
    <2>2. Len(queue') <= MaxQueue
      BY <2>1, QueueAssumption DEF TypeOK
    <2> QED
      BY <1>6, <2>1, <2>2 DEF Take, TypeOK
  <1>7. ASSUME NEW w \in Worker, Archive(w) \/ Forget(w) PROVE TypeOK'
    BY <1>7 DEF Archive, Forget, TypeOK
  <1>8. ASSUME NEW t \in Track, Sweep(t) PROVE TypeOK'
    BY <1>8 DEF Sweep, TypeOK
  <1>9. CASE UNCHANGED vars
    BY <1>9 DEF vars, TypeOK
  <1> QED
    BY <1>1, <1>3, <1>4, <1>5, <1>6, <1>7, <1>8, <1>9 DEF Next, Adding

-----------------------------------------------------------------------------
(* Each track is answered for once.                                         *)

\* The requesters that have marked their track.
Marking(r) == adding[r].at \in {"put", "unmark"}

\* A track that requester r, or worker w, answers for is nobody else's.
Once ==
    /\ Distinct(queue)
    /\ \A r \in Requester : Marking(r) =>
          /\ adding[r].track \notin Queued
          /\ \A w \in Worker : hand[w] # adding[r].track
          /\ \A q \in Requester \ {r} : Marking(q) => adding[q].track # adding[r].track
    /\ \A w \in Worker : hand[w] # Nothing =>
          /\ hand[w] \notin Queued
          /\ \A v \in Worker \ {w} : hand[v] # hand[w]

\* _seen, said without sets of requesters and workers.
SeenOf ==
    \A t : t \in seen <=>
        \/ t \in Queued
        \/ t # Nothing /\ \E w \in Worker : hand[w] = t
        \/ \E r \in Requester : Marking(r) /\ adding[r].track = t

LEMMA SeenIs == SeenOf <=> SeenIsAnsweredFor
  <1>1. \A t : t \in Answered <=>
          \/ t \in Queued
          \/ t # Nothing /\ \E w \in Worker : hand[w] = t
          \/ \E r \in Requester : Marking(r) /\ adding[r].track = t
    BY DEF Answered, Held, Marking
  <1> QED
    BY <1>1 DEF SeenOf, SeenIsAnsweredFor

OnceInv == TypeOK /\ Once /\ SeenOf

\* A requester that goes on keeps its track.
LEMMA GoingOn ==
    ASSUME TypeOK, NEW r \in Requester, adding[r].at \in {"mark", "put"},
           NEW a \in {"put", "unmark"}, adding' = [adding EXCEPT ![r].at = a]
    PROVE  /\ adding'[r].track = adding[r].track /\ adding'[r].at = a
           /\ \A q \in Requester \ {r} : adding'[q] = adding[q]
  <1>1. adding[r] \in [track : Track, at : {"mark", "put", "unmark"}]
    BY DEF TypeOK, Idle
  <1>2. adding'[r] = [adding[r] EXCEPT !.at = a]
    BY DEF TypeOK
  <1>3. \A q \in Requester \ {r} : adding'[q] = adding[q]
    BY DEF TypeOK
  <1> QED
    BY <1>1, <1>2, <1>3

\* put_nowait, when there is room.
LEMMA Putting ==
    ASSUME OnceInv, NEW r \in Requester, Put(r), Len(queue) < MaxQueue
    PROVE  /\ adding[r].track \in Track
           /\ adding[r].track \notin Queued
           /\ Queued' = Queued \cup {adding[r].track}
           /\ Distinct(queue)'
  <1>1. TypeOK /\ Once
    BY DEF OnceInv
  <1>2. adding[r].track \in Track /\ queue \in Seq(Track)
    BY <1>1, AddingType DEF Put, Idle, TypeOK
  <1>3. adding[r].track \notin Range(queue) /\ Distinct(queue)
    BY <1>1 DEF Put, Once, Marking, Queued
  <1>4. queue' = Append(queue, adding[r].track)
    BY DEF Put
  <1>5. Range(queue') = Range(queue) \cup {adding[r].track} /\ Distinct(queue')
    BY <1>2, <1>3, <1>4, RangeOfAppend
  <1> QED
    BY <1>2, <1>3, <1>5 DEF Queued, Distinct

LEMMA OnceInit == Init => Once /\ SeenOf
  BY DEF Init, Once, SeenOf, Distinct, Queued, Range, Marking, Idle

LEMMA OnceNext == OnceInv /\ [Next]_vars => Once' /\ SeenOf'
  <1> SUFFICES ASSUME OnceInv, [Next]_vars PROVE Once' /\ SeenOf'
    OBVIOUS
  <1>0. TypeOK /\ Once /\ SeenOf /\ Nothing \notin Track
    BY TrackAssumption DEF OnceInv
  <1>1. ASSUME NEW r \in Requester, Marking(r) \/ adding[r].at = "mark"
        PROVE  adding[r].track \in Track
    BY <1>0, <1>1, AddingType DEF Marking, Idle
  <1>2. ASSUME UNCHANGED <<seen, queue, hand>>, \A r \in Requester : Marking(r)' <=> Marking(r),
               \A r \in Requester : Marking(r) => adding'[r] = adding[r]
        PROVE  Once' /\ SeenOf'
    BY <1>0, <1>2 DEF Once, SeenOf, Distinct, Queued
  <1>3. ASSUME NEW r \in Requester, NEW t \in Track, Want(r, t) PROVE Once' /\ SeenOf'
    BY <1>0, <1>2, <1>3 DEF Want, Marking, Idle, TypeOK
  <1>4. ASSUME NEW r \in Requester, Mark(r) PROVE Once' /\ SeenOf'
    <2>1. CASE adding[r].track \in seen
      BY <1>0, <1>2, <1>4, <2>1 DEF Mark, Marking, Idle, TypeOK
    <2>2. CASE adding[r].track \notin seen
      <3>1. /\ ~Marking(r) /\ Marking(r)' /\ UNCHANGED <<queue, hand>>
            /\ adding'[r].track = adding[r].track
            /\ \A q \in Requester \ {r} : adding'[q] = adding[q]
            /\ seen' = seen \cup {adding[r].track}
            /\ adding[r].track \in Track
        BY <1>0, <1>1, <1>4, <2>2, GoingOn DEF Mark, Marking
      <3>2. /\ adding[r].track \notin Queued
            /\ \A w \in Worker : hand[w] # adding[r].track
            /\ \A q \in Requester : Marking(q) => adding[q].track # adding[r].track
        BY <1>0, <2>2, <3>1 DEF SeenOf
      <3>3. Once'
        BY <1>0, <3>1, <3>2 DEF Once, Distinct, Queued, Marking
      <3>4. SeenOf'
        BY <1>0, <3>1, <3>2 DEF SeenOf, Queued, Marking
      <3> QED
        BY <3>3, <3>4
    <2> QED
      BY <2>1, <2>2
  <1>5. ASSUME NEW r \in Requester, Put(r) PROVE Once' /\ SeenOf'
    <2>1. CASE Len(queue) < MaxQueue
      <3>1. /\ Marking(r) /\ ~Marking(r)' /\ UNCHANGED <<seen, hand>>
            /\ \A q \in Requester \ {r} : adding'[q] = adding[q]
            /\ adding[r].track \in Track
        BY <1>0, <1>1, <1>5, <2>1 DEF Put, Marking, Idle, TypeOK
      <3>2. /\ adding[r].track \notin Queued /\ Distinct(queue)'
            /\ Queued' = Queued \cup {adding[r].track}
        BY <1>5, <2>1, Putting
      <3>3. Once'
        BY <1>0, <3>1, <3>2 DEF Once, Marking
      <3>4. SeenOf'
        BY <1>0, <3>1, <3>2 DEF SeenOf, Marking
      <3> QED
        BY <3>3, <3>4
    <2>2. CASE ~(Len(queue) < MaxQueue)
      <3>1. /\ Marking(r) /\ Marking(r)' /\ UNCHANGED <<seen, queue, hand>>
            /\ \A q \in Requester \ {r} : adding'[q] = adding[q]
            /\ adding'[r].track = adding[r].track
        BY <1>0, <1>5, <2>2, GoingOn DEF Put, Marking
      <3>2. Once'
        BY <1>0, <3>1 DEF Once, Distinct, Queued, Marking
      <3>3. SeenOf'
        BY <1>0, <3>1 DEF SeenOf, Queued, Marking
      <3> QED
        BY <3>2, <3>3
    <2> QED
      BY <2>1, <2>2
  <1>6. ASSUME NEW r \in Requester, Unmark(r) PROVE Once' /\ SeenOf'
    <2>1. /\ Marking(r) /\ ~Marking(r)' /\ UNCHANGED <<queue, hand>>
          /\ \A q \in Requester \ {r} : adding'[q] = adding[q]
          /\ seen' = seen \ {adding[r].track}
      BY <1>0, <1>6 DEF Unmark, Marking, Idle, TypeOK
    <2>2. Once'
      BY <1>0, <2>1 DEF Once, Distinct, Queued, Marking
    <2>3. SeenOf'
      BY <1>0, <2>1 DEF SeenOf, Once, Queued, Marking
    <2> QED
      BY <2>2, <2>3
  <1>7. ASSUME NEW w \in Worker, Take(w) PROVE Once' /\ SeenOf'
    <2>1. /\ Head(queue) \in Track /\ Head(queue) \in Queued
          /\ Queued' = Queued \ {Head(queue)} /\ Distinct(queue)'
      BY <1>0, <1>7, RangeOfTail DEF Take, TypeOK, Once, Queued, Distinct
    <2>2. /\ hand[w] = Nothing /\ hand'[w] = Head(queue)
          /\ \A v \in Worker \ {w} : hand'[v] = hand[v]
          /\ UNCHANGED <<seen, adding>>
      BY <1>0, <1>7 DEF Take, TypeOK
    <2>3. Once'
      BY <1>0, <2>1, <2>2 DEF Once, Marking
    <2>4. SeenOf'
      BY <1>0, <2>1, <2>2 DEF SeenOf, Marking
    <2> QED
      BY <2>3, <2>4
  <1>8. ASSUME NEW w \in Worker, Forget(w) PROVE Once' /\ SeenOf'
    <2>1. /\ hand[w] # Nothing /\ hand'[w] = Nothing
          /\ \A v \in Worker \ {w} : hand'[v] = hand[v]
          /\ seen' = seen \ {hand[w]} /\ UNCHANGED <<queue, adding>>
      BY <1>0, <1>8 DEF Forget, TypeOK
    <2>2. Once'
      BY <1>0, <1>1, <2>1 DEF Once, Distinct, Queued, Marking
    <2>3. SeenOf'
      BY <1>0, <2>1 DEF SeenOf, Once, Queued, Marking
    <2> QED
      BY <2>2, <2>3
  <1>9. CASE UNCHANGED <<seen, queue, hand, adding>>
    BY <1>2, <1>9 DEF Marking
  <1> QED
    BY <1>3, <1>4, <1>5, <1>6, <1>7, <1>8, <1>9 DEF Next, Adding, Archive, Sweep, vars

LEMMA OnceCorrect == Spec => []OnceInv
  <1>1. Init => OnceInv
    BY TypeInit, OnceInit DEF OnceInv
  <1>2. OnceInv /\ [Next]_vars => OnceInv'
    BY TypeNext, OnceNext DEF OnceInv, Once
  <1> QED
    BY <1>1, <1>2, PTL DEF Spec

\* The queue never holds more than max_queue tracks, and every part of the
\* state stays in its type.
THEOREM TypeCorrect == Spec => []TypeOK
  <1>1. OnceInv => TypeOK
    BY DEF OnceInv
  <1> QED
    BY <1>1, OnceCorrect, PTL

\* No track is left in _seen when nobody answers for it, and none that
\* somebody answers for is missing.
THEOREM SeenCorrect == Spec => []SeenIsAnsweredFor
  <1>1. OnceInv => SeenIsAnsweredFor
    BY SeenIs DEF OnceInv
  <1> QED
    BY <1>1, OnceCorrect, PTL

-----------------------------------------------------------------------------
(* TaskPool.                                                                *)

\* The pool counts as this module does.
LEMMA PoolCounts == \A S : Pool!Cardinality(S) = Cardinality(S)
  BY DEF Cardinality, Pool!Cardinality, IsFiniteSet, Pool!IsFiniteSet

\* Every step of the look-ahead queue is a step of the pool, or changes
\* nothing the pool knows of.
LEMMA PoolStep == OnceInv /\ [Next]_vars => [Pool!Next]_<<Queued, hand>>
  <1> SUFFICES ASSUME OnceInv, [Next]_vars PROVE [Pool!Next]_<<Queued, hand>>
    OBVIOUS
  <1>0. TypeOK /\ Once
    BY DEF OnceInv
  <1>1. ASSUME NEW r \in Requester, Put(r) PROVE [Pool!Next]_<<Queued, hand>>
    <2>1. CASE Len(queue) < MaxQueue
      <3>1. Marking(r) /\ adding[r].track \in Track
        BY <1>0, <1>1, AddingType DEF Put, Marking, Idle
      <3>2. adding[r].track \notin Queued \cup Pool!Held
        BY <1>0, <3>1 DEF Once, Pool!Held
      <3>3. Queued' = Queued \cup {adding[r].track}
        BY <1>1, <2>1, Putting
      <3>4. Cardinality(Queued) < MaxQueue
        <4>1. IsFiniteSet(Queued) /\ Cardinality(Queued) <= Len(queue)
          BY <1>0, RangeSize DEF TypeOK, Queued
        <4>2. Cardinality(Queued) \in Nat /\ Len(queue) \in Nat
          BY <1>0, <4>1, FS_CardinalityType DEF TypeOK
        <4> QED
          BY <2>1, <4>1, <4>2, QueueAssumption
      <3>5. Pool!Accept(adding[r].track)
        <4>1. UNCHANGED hand
          BY <1>1 DEF Put
        <4> QED
          BY <3>2, <3>3, <3>4, <4>1, PoolCounts DEF Pool!Accept
      <3> QED
        BY <3>1, <3>5 DEF Pool!Next
    <2>2. CASE ~(Len(queue) < MaxQueue)
      BY <1>1, <2>2 DEF Put, Queued
    <2> QED
      BY <2>1, <2>2
  <1>2. ASSUME NEW w \in Worker, Take(w) PROVE [Pool!Next]_<<Queued, hand>>
    <2>1. /\ Head(queue) \in Track /\ Head(queue) \in Queued
          /\ Queued' = Queued \ {Head(queue)}
      BY <1>0, <1>2, RangeOfTail DEF Take, TypeOK, Once, Queued
    <2>2. Pool!Take(w, Head(queue))
      BY <1>2, <2>1 DEF Take, Pool!Take
    <2> QED
      BY <2>1, <2>2 DEF Pool!Next
  <1>3. ASSUME NEW w \in Worker, Forget(w) PROVE [Pool!Next]_<<Queued, hand>>
    <2>1. Pool!Finish(w)
      BY <1>3 DEF Forget, Pool!Finish, Queued
    <2> QED
      BY <2>1 DEF Pool!Next
  <1>4. CASE UNCHANGED <<queue, hand>>
    BY <1>4 DEF Queued
  <1> QED
    BY <1>1, <1>2, <1>3, <1>4
    DEF Next, Adding, Want, Mark, Unmark, Archive, Sweep, vars

\* enqueue and _worker implement the pool: a track that was accepted waits,
\* or is in exactly one hand, until that worker is done, and is not accepted
\* again before.
THEOREM ImplementsTaskPool == Spec => IsTaskPool
  <1>1. Init => Pool!Init
    BY DEF Init, Pool!Init, Queued, Range
  <1> QED
    BY <1>1, PoolStep, OnceCorrect, PTL DEF Spec, IsTaskPool, Pool!Spec
=============================================================================
