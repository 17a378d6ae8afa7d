--------------------------- MODULE DownloadQueue ---------------------------
(***************************************************************************)
(* The download queue of DeezerPrefetcher (deezer/prefetch.py): a bounded  *)
(* priority queue, the pool of workers behind it, and what a worker does   *)
(* with an entry when Deezer does not answer.  The workers share the       *)
(* circuit breaker of the host with the request threads (Other).           *)
(*                                                                         *)
(* An entry is a track to archive.  The requests one attempt makes are one *)
(* request here; what it does to the row and the disk is module Archive.   *)
(* quiet_wait, by which bulk work stands down for at most five seconds, is *)
(* the time a worker may let pass between Take and its first attempt.      *)
(***************************************************************************)
EXTENDS Integers, SequencesExt

CONSTANTS
    Worker,        \* dl_workers
    Other,         \* request threads that call the same host
    Threshold, BaseCooldown, MaxCooldown, ProbeTimeout,  \* of the breaker
    Entry,         \* entries; a name is used again once its entry is settled
    Priority,      \* [Entry -> Nat]: smallest first
    Urgent,        \* USER and PREFETCH: the priorities up to this one
    Nothing,       \* the hand of an idle worker
    MaxQueue,      \* max_download_queue
    MaxRetries,    \* _MAX_OUTAGE_RETRIES
    MaxWait        \* _MAX_OUTAGE_WAIT, in ticks

ASSUME PriorityAssumption == Priority \in [Entry -> Nat]
ASSUME QueueAssumption == MaxQueue \in Nat /\ MaxRetries \in Nat /\ MaxWait \in Nat
ASSUME EntryAssumption == Nothing \notin Entry

VARIABLES
    failures, circuit, wait, cooldown, slot, call,  \* the breaker's
    queue,     \* _dl_queue: the entries, in order of arrival
    hand,      \* per worker: its entry
    at,        \* per worker: where it is in _dl_worker
    attempt,   \* per worker: retries spent on its entry
    nap        \* per worker: ticks left of its time.sleep

breaker == <<failures, circuit, wait, cooldown, slot, call>>
work == <<hand, at, attempt, nap>>
vars == <<breaker, queue, work>>

Breaker == INSTANCE CircuitBreaker WITH Thread <- Worker \cup Other

Places == {"idle", "try", "asking", "failed", "asleep"}

Init ==
    /\ Breaker!Init
    /\ queue = <<>>
    /\ hand = [w \in Worker |-> Nothing]
    /\ at = [w \in Worker |-> "idle"]
    /\ attempt = [w \in Worker |-> 0]
    /\ nap = [w \in Worker |-> 0]

-----------------------------------------------------------------------------
Queued == Range(queue)
Held == {hand[w] : w \in Worker}
Goto(w, l) == at' = [at EXCEPT ![w] = l]

\* The entry the queue gives out next: the first among the smallest.
IsNext(i) ==
    /\ i \in 1..Len(queue)
    /\ \A j \in 1..Len(queue) :
        \/ Priority[queue[i]] < Priority[queue[j]]
        \/ Priority[queue[i]] = Priority[queue[j]] /\ i <= j

\* The worker is done with its entry, one way or another (task_done).
Settle(w) ==
    /\ hand' = [hand EXCEPT ![w] = Nothing]
    /\ Goto(w, "idle")
    /\ attempt' = [attempt EXCEPT ![w] = 0]

\* Slip: put_nowait on a queue without a maxsize.
OfferUnbounded(e) ==
    /\ e \notin Queued \cup Held
    /\ queue' = Append(queue, e)
    /\ UNCHANGED <<breaker, work>>

\* _offer: put_nowait.  A full queue refuses, and nothing changes.
Offer(e) ==
    /\ e \notin Queued \cup Held
    /\ Len(queue) < MaxQueue
    /\ queue' = Append(queue, e)
    /\ UNCHANGED <<breaker, work>>

\* Slip: the entry is read, and removed once it is settled.
TakePeeks(w) ==
    /\ at[w] = "idle"
    /\ \E i \in DOMAIN queue : IsNext(i) /\ hand' = [hand EXCEPT ![w] = queue[i]]
    /\ Goto(w, "try")
    /\ UNCHANGED <<breaker, queue, attempt, nap>>

\* _dl_queue.get().
Take(w) ==
    /\ at[w] = "idle"
    /\ \E i \in DOMAIN queue :
        /\ IsNext(i)
        /\ hand' = [hand EXCEPT ![w] = queue[i]]
        /\ queue' = RemoveAt(queue, i)
    /\ Goto(w, "try")
    /\ UNCHANGED <<breaker, attempt, nap>>

\* The file is on disk already: the attempt asks Deezer for nothing.
Skip(w) ==
    /\ at[w] = "try"
    /\ Settle(w)
    /\ UNCHANGED <<breaker, queue, nap>>

\* The breaker lets the request through, as a probe or not.
Ask(w) ==
    /\ at[w] = "try"
    /\ Breaker!Ask(w)
    /\ Goto(w, "asking")
    /\ UNCHANGED <<queue, hand, attempt, nap>>

\* The breaker raises DeezerUnavailable.
Refused(w) ==
    /\ at[w] = "try"
    /\ circuit = "open"
    /\ wait > 0 \/ slot > 0
    /\ Goto(w, "failed")
    /\ UNCHANGED <<breaker, queue, hand, attempt, nap>>

\* Deezer answered: the track is archived, or it cannot be (a real failure).
Answer(w) ==
    /\ at[w] = "asking"
    /\ Breaker!OnSuccess(w)
    /\ Settle(w)
    /\ UNCHANGED <<queue, nap>>

\* Deezer did not answer: a transport failure.
NoAnswer(w) ==
    /\ at[w] = "asking"
    /\ Breaker!Fail(w)
    /\ Goto(w, "failed")
    /\ UNCHANGED <<queue, hand, attempt, nap>>

\* Slip: the retries are not counted.
HandleForever(w) ==
    /\ at[w] = "failed"
    /\ IF wait = 0
       THEN Settle(w) /\ UNCHANGED nap
       ELSE /\ Goto(w, "asleep")
            /\ nap' = [nap EXCEPT ![w] = Breaker!Smaller(wait, MaxWait)]
            /\ UNCHANGED <<hand, attempt>>
    /\ UNCHANGED <<breaker, queue>>

\* The except clause: _outage_wait is read now, after the failure.  Nothing
\* to wait for: the exception goes on and the entry is lost.  Out of retries:
\* it is left for the nightly sweep.  Otherwise the worker sleeps.
Handle(w) ==
    /\ at[w] = "failed"
    /\ \/ /\ wait = 0
          /\ Settle(w)
          /\ UNCHANGED nap
       \/ /\ wait > 0
          /\ attempt[w] = MaxRetries
          /\ Settle(w)
          /\ UNCHANGED nap
       \/ /\ wait > 0
          /\ attempt[w] < MaxRetries
          /\ Goto(w, "asleep")
          /\ nap' = [nap EXCEPT ![w] = Breaker!Smaller(wait, MaxWait)]
          /\ attempt' = [attempt EXCEPT ![w] = @ + 1]
          /\ UNCHANGED hand
    /\ UNCHANGED <<breaker, queue>>

Wake(w) ==
    /\ at[w] = "asleep"
    /\ nap[w] = 0
    /\ Goto(w, "try")
    /\ UNCHANGED <<breaker, queue, hand, attempt, nap>>

\* The request threads, and the administrator's "check now".
Elsewhere ==
    /\ \/ \E t \in Other : Breaker!Ask(t) \/ Breaker!Report(t)
       \/ Breaker!Reset
    /\ UNCHANGED <<queue, work>>

\* The clock, for the breaker and for the sleepers.
Tick ==
    /\ Breaker!Tick
    /\ nap' = [w \in Worker |-> Breaker!OneLess(nap[w])]
    /\ UNCHANGED <<queue, hand, at, attempt>>

Step(w) ==
    \/ Take(w) \/ Skip(w) \/ Ask(w) \/ Refused(w) \/ Answer(w) \/ NoAnswer(w)
    \/ Handle(w) \/ Wake(w)

Next ==
    \/ \E e \in Entry : Offer(e)
    \/ \E w \in Worker : Step(w)
    \/ Elsewhere
    \/ Tick

Spec == Init /\ [][Next]_vars

\* Every worker runs on (its requests carry timeouts, its sleep is bounded),
\* time passes, and the request threads' calls end.
Fairness ==
    /\ \A w \in Worker : WF_vars(Step(w))
    /\ WF_vars(Tick)
    /\ \A t \in Other : WF_vars(Breaker!Report(t) /\ UNCHANGED <<queue, work>>)

FairSpec == Spec /\ Fairness

-----------------------------------------------------------------------------
\* Types, and the bounds of the queue, the retries and the sleeps.
TypeOK ==
    /\ queue \in Seq(Entry)
    /\ Len(queue) <= MaxQueue
    /\ hand \in [Worker -> Entry \cup {Nothing}]
    /\ at \in [Worker -> Places]
    /\ attempt \in [Worker -> 0..MaxRetries]
    /\ nap \in [Worker -> 0..MaxWait]

Pool == INSTANCE TaskPool WITH
    Task <- Entry, Capacity <- MaxQueue, waiting <- Queued

\* The queue implements TaskPool: an accepted entry is never lost, given to
\* two workers or dropped half done, whatever the failures and the retries.
IsTaskPool == Pool!Spec

\* The workers use the breaker as every other caller does: each admitted
\* request is reported back once, and none is sent that was not admitted.
KeepsBreaker == Breaker!Spec

\* An accepted entry is settled even if Deezer never answers again, provided
\* urgent entries do not keep coming: the retries end, no worker is stuck in
\* an outage, and among equals nobody is overtaken for ever.
Quiet == [][\A e \in Entry : Priority[e] <= Urgent => ~Offer(e)]_vars
EverySettled ==
    <>Quiet => \A e \in Entry : e \in Queued \cup Held ~> e \notin Queued \cup Held

\* Once Deezer answers for good, no entry is lost any more: the outage does
\* not leave the breaker or a worker in a state that keeps losing entries.
Lost(w) == at[w] = "failed" /\ at'[w] = "idle"
Answering ==
    [][\A t \in Worker \cup Other :
          ~Breaker!Fail(t) /\ ~(circuit = "open" /\ Breaker!Abandon(t))]_vars
RecoversWork == <>Answering => <>[][\A w \in Worker : ~Lost(w)]_vars

-----------------------------------------------------------------------------
(* What a comment says and the code does not do (see README, findings).     *)

\* "An item whose failure was 'Deezer is not answering' is retried after the
\* breaker's own cooldown instead of being thrown away": while the breaker
\* refuses requests, an entry is only lost when its retries are spent.
RetriedInOutage ==
    [][circuit = "open" /\ (wait > 0 \/ slot > 0) =>
           \A w \in Worker : Lost(w) => attempt[w] = MaxRetries]_vars
=============================================================================
