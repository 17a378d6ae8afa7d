--------------------------- MODULE CircuitBreaker ---------------------------
(***************************************************************************)
(* The circuit breaker of one Deezer host (deezerpy/_circuit.py) and the   *)
(* requests that go through it (_Session.request, deezerpy/__init__.py).   *)
(*                                                                         *)
(* The code keeps absolute monotonic times; here time is relative: `wait'  *)
(* is what is left of open_until and `slot' what is left of the probe's    *)
(* PROBE_TIMEOUT, both in ticks, and Tick lets one tick pass.  A host      *)
(* missing from _hosts and a fresh _HostState behave alike, and are one    *)
(* state here.  Each method body runs under _lock and is one step; a       *)
(* request is two steps, because the lock is not held while it is sent.    *)
(***************************************************************************)
EXTENDS Integers

CONSTANTS
    Thread,         \* server threads that call the host
    Threshold,      \* FAILURE_THRESHOLD
    BaseCooldown,   \* BASE_COOLDOWN, in ticks
    MaxCooldown,    \* MAX_COOLDOWN, in ticks
    ProbeTimeout    \* PROBE_TIMEOUT, in ticks

ASSUME ThresholdAssumption == Threshold \in Nat \ {0}
ASSUME CooldownAssumption ==
    /\ BaseCooldown \in Nat \ {0}
    /\ MaxCooldown \in Nat
    /\ BaseCooldown <= MaxCooldown
ASSUME ProbeAssumption == ProbeTimeout \in Nat \ {0}

VARIABLES
    failures,   \* consecutive transport failures counted
    circuit,    \* open when open_until > 0 (half-open once wait is 0)
    wait,       \* ticks until open_until
    cooldown,   \* the cooldown the next failed probe doubles
    slot,       \* ticks the half-open slot stays taken; 0 when it is free
    call        \* what each thread has in flight

vars == <<failures, circuit, wait, cooldown, slot, call>>

\* A request in flight is a probe or not, as before_request returned for it.
Calls == {"none", "plain", "probe"}

Smaller(a, b) == IF a <= b THEN a ELSE b
Doubled == Smaller(2 * cooldown, MaxCooldown)
OneLess(n) == IF n > 0 THEN n - 1 ELSE 0

Init ==
    /\ failures = 0
    /\ circuit = "closed"
    /\ wait = 0
    /\ cooldown = BaseCooldown
    /\ slot = 0
    /\ call = [t \in Thread |-> "none"]

-----------------------------------------------------------------------------
\* before_request, circuit closed: the request goes out.
Send(t) ==
    /\ call[t] = "none"
    /\ circuit = "closed"
    /\ call' = [call EXCEPT ![t] = "plain"]
    /\ UNCHANGED <<failures, circuit, wait, cooldown, slot>>

\* before_request, cooldown elapsed and the half-open slot free: a probe.
\* In every other open state the call raises DeezerUnavailable and no state
\* changes: there is no step for it.
SendProbe(t) ==
    /\ call[t] = "none"
    /\ circuit = "open"
    /\ wait = 0
    /\ slot = 0
    /\ slot' = ProbeTimeout
    /\ call' = [call EXCEPT ![t] = "probe"]
    /\ UNCHANGED <<failures, circuit, wait, cooldown>>

\* Slip: on_success leaves the cooldown of the outage it ends.
OnSuccessKeepsCooldown(t) ==
    /\ call[t] # "none"
    /\ call' = [call EXCEPT ![t] = "none"]
    /\ failures' = 0
    /\ circuit' = "closed"
    /\ wait' = 0
    /\ slot' = 0
    /\ UNCHANGED cooldown

\* on_success: the host answered thread t, whatever it said.
OnSuccess(t) ==
    /\ call[t] # "none"
    /\ call' = [call EXCEPT ![t] = "none"]
    /\ IF circuit = "open" \/ failures > 0
       THEN /\ failures' = 0
            /\ circuit' = "closed"
            /\ wait' = 0
            /\ cooldown' = BaseCooldown
            /\ slot' = 0
       ELSE UNCHANGED <<failures, circuit, wait, cooldown, slot>>

\* Slips: the doubling is not capped; the half-open slot stays taken.
BackOffUncapped(t) ==
    /\ call[t] # "none"
    /\ call[t] = "probe" \/ circuit = "open"
    /\ call' = [call EXCEPT ![t] = "none"]
    /\ slot' = 0
    /\ cooldown' = 2 * cooldown
    /\ wait' = 2 * cooldown
    /\ circuit' = "open"
    /\ UNCHANGED failures
BackOffKeepsSlot(t) ==
    /\ call[t] # "none"
    /\ call[t] = "probe" \/ circuit = "open"
    /\ call' = [call EXCEPT ![t] = "none"]
    /\ cooldown' = Doubled
    /\ wait' = Doubled
    /\ circuit' = "open"
    /\ UNCHANGED <<failures, slot>>

\* on_failure of a probe, or of any request while the circuit is open.
BackOff(t) ==
    /\ call[t] # "none"
    /\ call[t] = "probe" \/ circuit = "open"
    /\ call' = [call EXCEPT ![t] = "none"]
    /\ slot' = 0
    /\ cooldown' = Doubled
    /\ wait' = Doubled
    /\ circuit' = "open"
    /\ UNCHANGED failures

\* Slip: every failure of a plain request is counted, open circuit or not.
CountAnyFailure(t) ==
    /\ call[t] = "plain"
    /\ call' = [call EXCEPT ![t] = "none"]
    /\ slot' = 0
    /\ failures' = failures + 1
    /\ IF failures + 1 >= Threshold
       THEN /\ cooldown' = BaseCooldown
            /\ wait' = BaseCooldown
            /\ circuit' = "open"
       ELSE UNCHANGED <<circuit, wait, cooldown>>

\* on_failure of a plain request while the circuit is closed.
CountFailure(t) ==
    /\ call[t] = "plain"
    /\ circuit = "closed"
    /\ call' = [call EXCEPT ![t] = "none"]
    /\ slot' = 0
    /\ failures' = failures + 1
    /\ IF failures + 1 >= Threshold
       THEN /\ cooldown' = BaseCooldown
            /\ wait' = BaseCooldown
            /\ circuit' = "open"
       ELSE UNCHANGED <<circuit, wait, cooldown>>

\* The thread dies, or the request ends in a BaseException that is not an
\* Exception: neither on_success nor on_failure runs.
Abandon(t) ==
    /\ call[t] # "none"
    /\ call' = [call EXCEPT ![t] = "none"]
    /\ UNCHANGED <<failures, circuit, wait, cooldown, slot>>

\* reset(host): check_login(force=True), the administrator's "check now".
Reset ==
    /\ circuit = "open" \/ failures > 0
    /\ failures' = 0
    /\ circuit' = "closed"
    /\ wait' = 0
    /\ cooldown' = BaseCooldown
    /\ slot' = 0
    /\ UNCHANGED call

\* Slip: a silent probe holds the half-open slot for ever.
TickKeepsSlot ==
    /\ wait' = OneLess(wait)
    /\ UNCHANGED <<failures, circuit, cooldown, slot, call>>

\* The clock.
Tick ==
    /\ wait' = OneLess(wait)
    /\ slot' = OneLess(slot)
    /\ UNCHANGED <<failures, circuit, cooldown, call>>

Fail(t) == BackOff(t) \/ CountFailure(t)
Ask(t) == Send(t) \/ SendProbe(t)
Report(t) == OnSuccess(t) \/ Fail(t) \/ Abandon(t)

Next ==
    \/ \E t \in Thread : Ask(t) \/ Report(t)
    \/ Reset
    \/ Tick

Spec == Init /\ [][Next]_vars

\* Time passes; every request ends (each carries a timeout); the application
\* keeps asking the host for something.
Fairness ==
    /\ WF_vars(Tick)
    /\ \A t \in Thread : WF_vars(Report(t))
    /\ WF_vars(\E t \in Thread : Ask(t))

FairSpec == Spec /\ Fairness

-----------------------------------------------------------------------------
\* Types, and the bounds of the counters and timers.
TypeOK ==
    /\ failures \in 0..Threshold
    /\ circuit \in {"open", "closed"}
    /\ wait \in 0..MaxCooldown
    /\ cooldown \in BaseCooldown..MaxCooldown
    /\ slot \in 0..ProbeTimeout
    /\ call \in [Thread -> Calls]

\* A closed circuit remembers nothing of the outage before it: the next trip
\* takes Threshold new failures and starts at the base cooldown, whichever of
\* a success, a straggler or a reset closed it.
ClosedIsFresh ==
    circuit = "closed" =>
        /\ failures < Threshold
        /\ cooldown = BaseCooldown
        /\ wait = 0
        /\ slot = 0

\* The half-open slot is only ever held while the cooldown is over: a failure
\* that starts a new cooldown frees it, so the next probe is not kept out by
\* a probe that already answered.  And no cooldown outlasts the back-off it
\* was computed from.
SlotAfterCooldown ==
    /\ slot > 0 => circuit = "open" /\ wait = 0
    /\ wait <= cooldown

\* While the circuit stays open the back-off only grows and no report brings
\* the next attempt forward: a request sent before the trip that fails late
\* must not be counted as a first failure and start over at the base.
BackoffNeverShrinks ==
    [][circuit = "open" /\ circuit' = "open" =>
            /\ cooldown' >= cooldown
            /\ wait' >= wait \/ wait' = OneLess(wait)]_vars

\* Once no request fails from some point on, and those sent to an open
\* circuit do report, the circuit is closed for good, however long the outage
\* was, even if the probe that held the half-open slot never reported.
Answering ==
    [][\A t \in Thread : ~Fail(t) /\ ~(circuit = "open" /\ Abandon(t))]_vars
Recovers == <>Answering => <>[](circuit = "closed")
=============================================================================
