------------------------ MODULE CircuitBreakerProofs ------------------------
(* What holds of the breaker for every set of threads, threshold, cooldown  *)
(* and probe timeout.  TypeOK, ClosedIsFresh and SlotAfterCooldown are only *)
(* inductive together: a trip keeps `failures' in range because a closed    *)
(* circuit counts fewer than Threshold, a late probe that reopens a closed  *)
(* circuit starts from a known cooldown, and a cooldown stays above `wait'  *)
(* because both are in range.                                               *)
EXTENDS CircuitBreaker, TLAPS

IInv == TypeOK /\ ClosedIsFresh /\ SlotAfterCooldown

-----------------------------------------------------------------------------
\* The doubling of the code, min(2 * cooldown, max), stays in the range of
\* the cooldowns and never goes down.
LEMMA DoubledInRange ==
    ASSUME cooldown \in BaseCooldown..MaxCooldown
    PROVE  /\ Doubled \in BaseCooldown..MaxCooldown
           /\ Doubled >= cooldown
           /\ Doubled \in 0..MaxCooldown
  BY CooldownAssumption DEF Doubled, Smaller

\* The initial state, a breaker that knows no host, satisfies the invariant.
LEMMA InitInv == Init => IInv
  BY ThresholdAssumption, CooldownAssumption, ProbeAssumption
  DEF Init, IInv, TypeOK, ClosedIsFresh, SlotAfterCooldown, Calls

\* Every method of the breaker, and the clock, preserves the invariant.
LEMMA NextInv == IInv /\ [Next]_vars => IInv'
  <1> SUFFICES ASSUME IInv, [Next]_vars
               PROVE  IInv'
    OBVIOUS
  <1> USE ThresholdAssumption, CooldownAssumption, ProbeAssumption
      DEF IInv, TypeOK, ClosedIsFresh, SlotAfterCooldown, Calls
  <1>1. ASSUME NEW t \in Thread, Send(t)
        PROVE  IInv'
    BY <1>1 DEF Send
  <1>2. ASSUME NEW t \in Thread, SendProbe(t)
        PROVE  IInv'
    BY <1>2 DEF SendProbe
  <1>3. ASSUME NEW t \in Thread, OnSuccess(t)
        PROVE  IInv'
    BY <1>3 DEF OnSuccess
  <1>4. ASSUME NEW t \in Thread, BackOff(t)
        PROVE  IInv'
    BY <1>4, DoubledInRange DEF BackOff
  <1>5. ASSUME NEW t \in Thread, CountFailure(t)
        PROVE  IInv'
    BY <1>5 DEF CountFailure
  <1>6. ASSUME NEW t \in Thread, Abandon(t)
        PROVE  IInv'
    BY <1>6 DEF Abandon
  <1>7. CASE Reset
    BY <1>7 DEF Reset
  <1>8. CASE Tick
    BY <1>8 DEF Tick, OneLess
  <1>9. CASE UNCHANGED vars
    BY <1>9 DEF vars
  <1> QED
    BY <1>1, <1>2, <1>3, <1>4, <1>5, <1>6, <1>7, <1>8, <1>9
    DEF Next, Ask, Report, Fail

\* The invariant holds in every reachable state of the breaker.
THEOREM Invariance == Spec => []IInv
  BY InitInv, NextInv, PTL DEF Spec

-----------------------------------------------------------------------------
\* The counters and timers of _HostState stay within their bounds.
THEOREM TypeCorrect == Spec => []TypeOK
  BY Invariance, PTL DEF IInv

\* Whatever closed the circuit, a closed circuit starts afresh.
THEOREM ClosedCircuitIsFresh == Spec => []ClosedIsFresh
  BY Invariance, PTL DEF IInv

\* The half-open slot is held only after the cooldown.
THEOREM SlotHeldAfterCooldown == Spec => []SlotAfterCooldown
  BY Invariance, PTL DEF IInv

\* One step: an open circuit that stays open keeps its back-off, and nothing
\* but the clock brings the next attempt forward.  A late failure of an
\* ordinary request takes the BackOff branch, where `wait' becomes the
\* doubled cooldown, which is at least the cooldown `wait' is bounded by.
LEMMA BackoffStep ==
    IInv /\ [Next]_vars =>
        [circuit = "open" /\ circuit' = "open" =>
            /\ cooldown' >= cooldown
            /\ wait' >= wait \/ wait' = OneLess(wait)]_vars
  <1> SUFFICES ASSUME IInv, Next, circuit = "open", circuit' = "open"
               PROVE  /\ cooldown' >= cooldown
                      /\ wait' >= wait \/ wait' = OneLess(wait)
    BY DEF vars
  <1>1. /\ cooldown \in Int /\ wait \in Int
        /\ wait <= cooldown
        /\ cooldown \in BaseCooldown..MaxCooldown
    BY CooldownAssumption DEF IInv, TypeOK, SlotAfterCooldown
  <1>2. ASSUME NEW t \in Thread, Send(t) \/ SendProbe(t) \/ Abandon(t)
        PROVE  cooldown' = cooldown /\ wait' = wait
    BY <1>2 DEF Send, SendProbe, Abandon
  <1>3. ASSUME NEW t \in Thread, OnSuccess(t) \/ CountFailure(t)
        PROVE  FALSE
    BY <1>3 DEF OnSuccess, CountFailure
  <1>4. ASSUME NEW t \in Thread, BackOff(t)
        PROVE  cooldown' >= cooldown /\ wait' >= wait
    <2>1. Doubled \in Int /\ Doubled >= cooldown
      BY <1>1, DoubledInRange, CooldownAssumption
    <2> QED
      BY <1>1, <1>4, <2>1 DEF BackOff
  <1>5. ~Reset
    BY DEF Reset
  <1>6. CASE Tick
    BY <1>1, <1>6 DEF Tick
  <1> QED
    BY <1>1, <1>2, <1>3, <1>4, <1>5, <1>6 DEF Next, Ask, Report, Fail

\* While the circuit stays open, the back-off never shrinks.
THEOREM BackoffIsMonotone == Spec => BackoffNeverShrinks
  BY Invariance, BackoffStep, PTL DEF Spec, BackoffNeverShrinks
=============================================================================
