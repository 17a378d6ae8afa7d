----------------------------- MODULE MendsProofs -----------------------------
(***************************************************************************)
(* For every value of the constants, about the five parts of MCMends.      *)
(*                                                                         *)
(* Each part promises that something comes right in the end and stays so;  *)
(* that it comes is liveness, and TLC's.  Here is the rest: the invariants *)
(* the parts keep until then, and that what has come right stays so: a     *)
(* state that is Followed, AtRest, Held or Mended is never left again.     *)
(***************************************************************************)
EXTENDS MCMends, TLAPS

-----------------------------------------------------------------------------
(* The behaviours of the composition are behaviours of each part.           *)

LEMMA PartSteps ==
    ASSUME [MendsNext]_allVars
    PROVE  /\ [Host!Next]_ofHost
           /\ [Seat!Next]_ofSeat
           /\ [Next]_ofLinks
           /\ [Rights!Next]_ofRights
           /\ [Enrich!Next]_ofEnrich
           /\ UNCHANGED focus
<1>1. CASE UNCHANGED allVars
  BY <1>1 DEF allVars
<1>2. CASE MendsNext
  BY <1>2 DEF MendsNext
<1> QED
  BY <1>1, <1>2

\* A behaviour of MCMends is one of the party's host, of its guest, of the links,
\* of the verdict and of the enrichment queue, none of which sees the others:
\* what holds of each of them alone holds in the run.
THEOREM PartsRun ==
    MendsSpec => /\ Host!Init /\ [][Host!Next]_ofHost
                 /\ Seat!Init /\ [][Seat!Next]_ofSeat
                 /\ Init /\ [][Next]_ofLinks
                 /\ Rights!Init /\ [][Rights!Next]_ofRights
                 /\ Enrich!Init /\ [][Enrich!Next]_ofEnrich
<1>1. MendsInit => Host!Init /\ Seat!Init /\ Init /\ Rights!Init /\ Enrich!Init
  BY DEF MendsInit
<1> QED
  BY <1>1, PartSteps, PTL DEF MendsSpec

-----------------------------------------------------------------------------
(* The enrichment queue.                                                    *)

\* A full queue drops every further track and calls no _ensure_worker
\* (queue_track).  It is left without a worker by one thing only: all that is in
\* it was put while the last worker was leaving.
FullIsTaken ==
    /\ worker = "leaving" => waiting = late
    /\ worker = "ended" /\ putting = {} => waiting = late
    /\ worker = "never" /\ waiting > 0 => putting # {}
    /\ waiting = Cap => worker \in {"getting", "working"} \/ putting # {} \/ late = Cap

EnrichInv == Enrich!TypeOK /\ FullIsTaken

LEMMA EnrichInit == ASSUME Cap \in Nat \ {0}, Enrich!Init PROVE EnrichInv
  BY DEF Enrich!Init, EnrichInv, Enrich!TypeOK, FullIsTaken

LEMMA EnrichStep ==
    ASSUME Cap \in Nat \ {0}, EnrichInv, [Enrich!Next]_ofEnrich
    PROVE  EnrichInv'
<1> USE DEF EnrichInv, Enrich!TypeOK, FullIsTaken
<1>1. CASE UNCHANGED ofEnrich
  BY <1>1 DEF ofEnrich
<1>2. ASSUME NEW p \in Producer, Enrich!QueueTrack(p)
      PROVE  EnrichInv'
  BY <1>2 DEF Enrich!QueueTrack
<1>3. ASSUME NEW p \in Producer, Enrich!EnsureWorker(p)
      PROVE  EnrichInv'
  BY <1>3 DEF Enrich!EnsureWorker
<1>4. CASE Enrich!Take
  BY <1>4 DEF Enrich!Take
<1>5. CASE Enrich!Enriched
  BY <1>5 DEF Enrich!Enriched
<1>6. CASE Enrich!TimesOut
  BY <1>6 DEF Enrich!TimesOut
<1>7. CASE Enrich!Ends
  BY <1>7 DEF Enrich!Ends
<1> QED
  BY <1>1, <1>2, <1>3, <1>4, <1>5, <1>6, <1>7 DEF Enrich!Next

\* The queue stays within its bound, and what waits without a worker, and without
\* a producer about to see to one, is what was put while the last worker was
\* leaving, no track more.  So a full queue, which refuses all that could start a
\* worker, goes without one only when a whole queue of tracks fell into that
\* moment: the one way queue_track, _ensure_worker and _drain wedge.
THEOREM FullQueueIsTaken ==
    ASSUME Cap \in Nat \ {0}
    PROVE  Enrich!Init /\ [][Enrich!Next]_ofEnrich => [](Enrich!TypeOK /\ FullIsTaken)
<1>1. Enrich!Init => EnrichInv
  BY EnrichInit
<1>2. EnrichInv /\ [Enrich!Next]_ofEnrich => EnrichInv'
  BY EnrichStep
<1>3. EnrichInv => Enrich!TypeOK /\ FullIsTaken
  BY DEF EnrichInv
<1> QED
  BY <1>1, <1>2, <1>3, PTL

-----------------------------------------------------------------------------
(* The verdict on a track.                                                  *)

Asking == [at : {"idle", "probe", "archive", "mark", "clear", "write", "store", "final", "save"},
           read : Rights!Verdict, plays : BOOLEAN]

LEMMA RightsIdle == Rights!Idle \in Asking /\ Rights!Idle.at = "idle"
  BY DEF Rights!Idle, Asking, Rights!Verdict

LEMMA RightsTyped == Rights!TypeOK => asking \in [Thread -> Asking]
  BY DEF Rights!TypeOK, Asking

\* A thread goes on to its next step with the copy it has.
LEMMA RightsNext ==
    ASSUME NEW u \in Thread, asking \in [Thread -> Asking],
           NEW STATE at, at \in {"mark", "clear", "write", "store", "final", "save"},
           Rights!Goes(u, at)
    PROVE  \E r \in Asking : /\ asking' = [asking EXCEPT ![u] = r]
                             /\ r.at = at /\ r.read = asking[u].read
<1> DEFINE r == [at |-> at, read |-> asking[u].read, plays |-> asking[u].plays]
<1>1. asking[u] \in Asking
  OBVIOUS
<1>2. r \in Asking
  BY <1>1 DEF Asking
<1>3. [asking[u] EXCEPT !.at = at] = r
  BY <1>1 DEF Asking
<1>4. asking' = [asking EXCEPT ![u] = r]
  BY <1>3 DEF Rights!Goes
<1> QED
  BY <1>2, <1>4

\* A thread takes a copy of the row, or voids the verdict in the one it has.
LEMMA RightsTurns ==
    ASSUME NEW u \in Thread, asking \in [Thread -> Asking],
           NEW STATE at, at \in {"probe", "archive", "clear", "final", "save"},
           NEW STATE read, read \in Rights!Verdict, NEW STATE plays, plays \in BOOLEAN,
           Rights!Turns(u, at, read, plays)
    PROVE  \E r \in Asking : /\ asking' = [asking EXCEPT ![u] = r]
                             /\ r.at = at /\ r.read = read
<1> DEFINE r == [at |-> at, read |-> read, plays |-> plays]
<1>1. r \in Asking /\ r.at = at /\ r.read = read
  BY DEF Asking
<1>2. asking' = [asking EXCEPT ![u] = r]
  BY DEF Rights!Turns
<1> QED
  BY <1>1, <1>2

LEMMA RightsDone ==
    ASSUME NEW u \in Thread, asking \in [Thread -> Asking], Rights!Done(u)
    PROVE  \E r \in Asking : asking' = [asking EXCEPT ![u] = r] /\ r.at = "idle"
<1>1. asking' = [asking EXCEPT ![u] = Rights!Idle]
  BY DEF Rights!Done
<1> QED
  BY <1>1, RightsIdle

\* A step of one thread.
RightsTurn(u) ==
    \/ Rights!Probe(u) \/ (\E plays \in BOOLEAN : Rights!Archive(u, plays))
    \/ Rights!Play(u) \/ Rights!Found(u)
    \/ Rights!Resolve(u) \/ Rights!Mark(u) \/ Rights!Clear(u) \/ Rights!ClearAndFetch(u)
    \/ Rights!Store(u) \/ Rights!Lost(u) \/ Rights!Finalize(u) \/ Rights!Saves(u)
    \/ Rights!Unsaved(u)

\* Where the thread of a step goes, and with which verdict in its copy.
RightsGoesTo(u, r) ==
    \/ r.at = "idle"
    \/ Rights!Probe(u) /\ r.at = (IF file THEN "clear" ELSE "probe") /\ r.read = verdict
    \/ r.at = "archive" /\ ~file
    \/ Rights!Play(u) /\ file /\ r.at = "save" /\ r.read = verdict
    \/ asking[u].at = "archive" /\ file /\ asking[u].plays /\ r.at = "save" /\ r.read = asking[u].read
    \/ asking[u].at \in {"probe", "archive"} /\ ~deezer /\ r.at = "mark"
    \/ asking[u].at \in {"probe", "archive"} /\ deezer /\ r.at \in {"clear", "write"}
    \/ r.at = "store"
    \/ Rights!Store(u) /\ r.at = "final" /\ r.read = "none"
    \/ asking[u].at = "final" /\ r.at = "save" /\ r.read = asking[u].read

LEMMA RightsMoves ==
    ASSUME NEW u \in Thread, Rights!TypeOK, RightsTurn(u)
    PROVE  \E r \in Asking : asking' = [asking EXCEPT ![u] = r] /\ RightsGoesTo(u, r)
<1>0. asking \in [Thread -> Asking] /\ verdict \in Rights!Verdict /\ asking[u] \in Asking
  BY RightsTyped DEF Rights!TypeOK
<1>1. CASE Rights!Done(u)
  BY <1>0, <1>1, RightsDone DEF RightsGoesTo
<1>2. CASE Rights!Probe(u)
  <2> DEFINE at == IF file THEN "clear" ELSE "probe"
  <2>1. /\ at \in {"probe", "archive", "clear", "final", "save"}
        /\ \E plays \in BOOLEAN : Rights!Turns(u, at, verdict, plays)
    BY <1>2, Zenon DEF Rights!Probe
  <2>2. PICK r \in Asking : asking' = [asking EXCEPT ![u] = r] /\ r.at = at /\ r.read = verdict
    BY <1>0, <2>1, RightsTurns
  <2> QED
    BY <1>2, <2>2 DEF RightsGoesTo
<1>3. ASSUME NEW plays \in BOOLEAN, Rights!Archive(u, plays)
      PROVE  \E r \in Asking : asking' = [asking EXCEPT ![u] = r] /\ RightsGoesTo(u, r)
  <2>1. ~file /\ Rights!Turns(u, "archive", verdict, plays)
    BY <1>3 DEF Rights!Archive
  <2>2. PICK r \in Asking : asking' = [asking EXCEPT ![u] = r] /\ r.at = "archive"
    BY <1>0, <2>1, RightsTurns
  <2> QED
    BY <2>1, <2>2 DEF RightsGoesTo
<1>4. CASE Rights!Play(u)
  <2>1. file /\ \E plays \in BOOLEAN : Rights!Turns(u, "save", verdict, plays)
    BY <1>4, Zenon DEF Rights!Play
  <2>2. PICK r \in Asking : asking' = [asking EXCEPT ![u] = r] /\ r.at = "save" /\ r.read = verdict
    BY <1>0, <2>1, RightsTurns
  <2> QED
    BY <1>4, <2>1, <2>2 DEF RightsGoesTo
<1>5. CASE Rights!Found(u) /\ ~Rights!Done(u)
  <2>1. asking[u].at = "archive" /\ file /\ asking[u].plays /\ Rights!Goes(u, "save")
    BY <1>5 DEF Rights!Found, Rights!At
  <2>2. PICK r \in Asking : /\ asking' = [asking EXCEPT ![u] = r]
                            /\ r.at = "save" /\ r.read = asking[u].read
    BY <1>0, <2>1, RightsNext
  <2> QED
    BY <2>1, <2>2 DEF RightsGoesTo
<1>6. CASE Rights!Resolve(u) /\ ~Rights!Done(u)
  <2> DEFINE at == IF ~deezer THEN "mark" ELSE IF asking[u].at = "archive" THEN "write" ELSE "clear"
  <2>1. /\ asking[u].at \in {"probe", "archive"} /\ Rights!Goes(u, at)
        /\ at \in {"mark", "clear", "write", "store", "final", "save"}
    BY <1>6 DEF Rights!Resolve, Rights!At
  <2>2. PICK r \in Asking : asking' = [asking EXCEPT ![u] = r] /\ r.at = at
    BY <1>0, <2>1, RightsNext
  <2> QED
    BY <2>1, <2>2 DEF RightsGoesTo
<1>7. CASE Rights!ClearAndFetch(u)
  <2>1. Rights!Goes(u, "store")
    BY <1>7 DEF Rights!ClearAndFetch
  <2>2. PICK r \in Asking : asking' = [asking EXCEPT ![u] = r] /\ r.at = "store"
    BY <1>0, <2>1, RightsNext
  <2> QED
    BY <2>2 DEF RightsGoesTo
<1>8. CASE Rights!Store(u)
  <2>1. asking[u].plays \in BOOLEAN /\ "none" \in Rights!Verdict
    BY <1>0 DEF Asking, Rights!Verdict
  <2>2. Rights!Turns(u, "final", "none", asking[u].plays)
    BY <1>8 DEF Rights!Store
  <2>3. PICK r \in Asking : asking' = [asking EXCEPT ![u] = r] /\ r.at = "final" /\ r.read = "none"
    BY <1>0, <2>1, <2>2, RightsTurns
  <2> QED
    BY <1>8, <2>3 DEF RightsGoesTo
<1>9. CASE Rights!Finalize(u) /\ ~Rights!Done(u)
  <2>1. asking[u].at = "final" /\ Rights!Goes(u, "save")
    BY <1>9 DEF Rights!Finalize, Rights!At
  <2>2. PICK r \in Asking : /\ asking' = [asking EXCEPT ![u] = r]
                            /\ r.at = "save" /\ r.read = asking[u].read
    BY <1>0, <2>1, RightsNext
  <2> QED
    BY <2>1, <2>2 DEF RightsGoesTo
<1> QED
  BY <1>1, <1>2, <1>3, <1>4, <1>5, <1>6, <1>7, <1>8, <1>9
  DEF RightsTurn, Rights!Mark, Rights!Clear, Rights!Lost, Rights!Saves, Rights!Unsaved

LEMMA RightsInit == ASSUME MaxTurn \in Nat, Rights!Init PROVE Rights!TypeOK
<1>1. asking \in [Thread -> Asking]
  BY RightsIdle DEF Rights!Init
<1>2. deezer \in BOOLEAN /\ file \in BOOLEAN /\ settled \in BOOLEAN /\ verdict \in Rights!Verdict
  BY DEF Rights!Init, Rights!Verdict
<1>3. turns \in 0..MaxTurn
  BY DEF Rights!Init
<1> QED
  BY <1>1, <1>2, <1>3 DEF Rights!TypeOK, Asking

\* What a thread's step may write: its file, and of the verdict the date of an
\* answer, nothing, or what its copy held.
LEMMA RightsWrites ==
    ASSUME NEW u \in Thread, Rights!TypeOK, RightsTurn(u)
    PROVE  /\ UNCHANGED <<deezer, turns, settled>>
           /\ file' = file \/ (file' = TRUE /\ ~settled)
           /\ \/ UNCHANGED verdict
              \/ Rights!At(u, "mark") /\ verdict' = "fresh"
              \/ (Rights!At(u, "clear") \/ Rights!At(u, "write"))
                 /\ asking[u].read # "none" /\ verdict' = "none"
              \/ (Rights!At(u, "final") \/ Rights!At(u, "save")) /\ verdict' = asking[u].read
<1>1. UNCHANGED <<deezer, turns, settled>>
  BY DEF RightsTurn, Rights!Probe, Rights!Archive, Rights!Play, Rights!Found, Rights!Resolve,
         Rights!Mark, Rights!Clear, Rights!ClearAndFetch, Rights!Store, Rights!Lost,
         Rights!Finalize, Rights!Saves, Rights!Unsaved
<1>2. file' = file \/ (file' = TRUE /\ ~settled)
  BY DEF RightsTurn, Rights!Probe, Rights!Archive, Rights!Play, Rights!Found, Rights!Resolve,
         Rights!Mark, Rights!Clear, Rights!ClearAndFetch, Rights!Store, Rights!Lost,
         Rights!Finalize, Rights!Saves, Rights!Unsaved, Rights!TypeOK
<1>3. CASE Rights!Mark(u)
  BY <1>1, <1>2, <1>3 DEF Rights!Mark, Rights!Writes
<1>4. CASE Rights!Clear(u) \/ Rights!ClearAndFetch(u)
  BY <1>1, <1>2, <1>4 DEF Rights!Clear, Rights!ClearAndFetch, Rights!Writes, Rights!Cleared
<1>5. CASE Rights!Finalize(u) \/ Rights!Saves(u)
  BY <1>1, <1>2, <1>5 DEF Rights!Finalize, Rights!Saves
<1>6. CASE UNCHANGED verdict
  BY <1>1, <1>2, <1>6
<1> QED
  BY <1>3, <1>4, <1>5, <1>6 DEF RightsTurn, Rights!Probe, Rights!Archive, Rights!Play,
     Rights!Found, Rights!Resolve, Rights!Store, Rights!Lost, Rights!Unsaved

LEMMA RightsStep ==
    ASSUME MaxTurn \in Nat, Rights!TypeOK, [Rights!Next]_ofRights
    PROVE  Rights!TypeOK'
<1>1. asking \in [Thread -> Asking]
  BY RightsTyped
<1>2. CASE UNCHANGED ofRights \/ Rights!Ages \/ Rights!Turn \/ Rights!Freed \/ Rights!Settle
  <2>1. UNCHANGED asking
    BY <1>2 DEF ofRights, Rights!Ages, Rights!Turn, Rights!Freed, Rights!Settle
  <2>2. turns' \in 0..MaxTurn /\ deezer' \in BOOLEAN /\ settled' \in BOOLEAN
    <3>1. CASE Rights!Turn
      BY <3>1 DEF Rights!Turn, Rights!TypeOK
    <3>2. CASE UNCHANGED <<turns, deezer>> /\ settled' \in {settled, TRUE}
      BY <3>2 DEF Rights!TypeOK
    <3> QED
      BY <1>2, <3>1, <3>2 DEF ofRights, Rights!Ages, Rights!Freed, Rights!Settle
  <2>3. file' \in BOOLEAN /\ verdict' \in Rights!Verdict
    BY <1>2 DEF ofRights, Rights!Ages, Rights!Turn, Rights!Freed, Rights!Settle, Rights!TypeOK,
                Rights!Verdict
  <2> QED
    BY <1>1, <2>1, <2>2, <2>3 DEF Rights!TypeOK, Asking
<1>3. ASSUME NEW u \in Thread, RightsTurn(u)
      PROVE  Rights!TypeOK'
  <2>1. asking' \in [Thread -> Asking]
    BY <1>1, <1>3, RightsMoves
  <2>2. asking[u].read \in Rights!Verdict
    BY <1>1 DEF Asking
  <2>3. /\ UNCHANGED <<deezer, turns, settled>>
        /\ file' = file \/ file' = TRUE
        /\ verdict' = verdict \/ verdict' \in {"none", "fresh", asking[u].read}
    BY <1>3, RightsWrites
  <2>4. file' \in BOOLEAN /\ verdict' \in Rights!Verdict
    BY <2>2, <2>3 DEF Rights!TypeOK, Rights!Verdict
  <2> QED
    BY <2>1, <2>3, <2>4 DEF Rights!TypeOK, Asking
<1> QED
  BY <1>2, <1>3 DEF Rights!Next, RightsTurn

LEMMA RightsInvariant ==
    ASSUME MaxTurn \in Nat
    PROVE  Rights!Init /\ [][Rights!Next]_ofRights => []Rights!TypeOK
<1>1. Rights!Init => Rights!TypeOK
  BY RightsInit
<1>2. Rights!TypeOK /\ [Rights!Next]_ofRights => Rights!TypeOK'
  BY RightsStep
<1> QED
  BY <1>1, <1>2, PTL

\* A thread that will not spoil a verdict that says what is.
Harmless(r, f, d) ==
    /\ r.at = "mark" => ~f /\ ~d
    /\ r.at \in {"probe", "archive"} => d \/ ~f
    /\ r.at \in {"clear", "write"} => f \/ d \/ r.read = "none"
    /\ r.at \in {"save", "final"} \/ (r.at = "archive" /\ r.plays /\ f)
       => (r.read = "none" <=> (f \/ d))

LEMMA MendedSays ==
    Rights!Mended <=> /\ settled
                      /\ verdict = "none" <=> (file \/ deezer)
                      /\ \A t \in Thread : Harmless(asking[t], file, deezer)
  BY DEF Rights!Mended, Rights!Right, Rights!Keeps, Rights!At, Harmless

LEMMA MendedStep ==
    ASSUME MaxTurn \in Nat, Rights!TypeOK, Rights!Mended, [Rights!Next]_ofRights
    PROVE  Rights!Mended'
<1> USE DEF Rights!Right, Rights!Keeps
<1>1. asking \in [Thread -> Asking] /\ file \in BOOLEAN /\ deezer \in BOOLEAN
  BY RightsTyped DEF Rights!TypeOK
<1>2. settled /\ (verdict = "none" <=> (file \/ deezer))
      /\ \A t \in Thread : Harmless(asking[t], file, deezer)
  BY MendedSays
<1>3. CASE UNCHANGED ofRights
  <2>1. UNCHANGED <<deezer, file, verdict, asking, settled>>
    BY <1>3 DEF ofRights
  <2> QED
    BY <2>1 DEF Rights!Mended, Rights!At
<1>4. CASE Rights!Ages
  <2>1. UNCHANGED <<deezer, file, asking, settled>> /\ verdict # "none" /\ verdict' # "none"
    BY <1>4 DEF Rights!Ages
  <2> QED
    BY <2>1 DEF Rights!Mended, Rights!At
<1>5. ~Rights!Turn /\ ~Rights!Freed /\ ~Rights!Settle
  BY <1>2 DEF Rights!Turn, Rights!Freed, Rights!Settle
<1>6. ASSUME NEW u \in Thread, RightsTurn(u)
      PROVE  Rights!Mended'
  <2>1. deezer' = deezer /\ settled' = settled /\ file' = file
    BY <1>2, <1>6, RightsWrites
  <2>2. verdict' = "none" <=> (file \/ deezer)
    <3>1. CASE UNCHANGED verdict
      BY <1>2, <3>1
    <3>2. CASE Rights!At(u, "mark") /\ verdict' = "fresh"
      BY <1>2, <3>2 DEF Rights!At, Harmless
    <3>3. CASE (Rights!At(u, "clear") \/ Rights!At(u, "write"))
               /\ asking[u].read # "none" /\ verdict' = "none"
      BY <1>2, <3>3 DEF Rights!At, Harmless
    <3>4. CASE (Rights!At(u, "final") \/ Rights!At(u, "save")) /\ verdict' = asking[u].read
      BY <1>2, <3>4 DEF Rights!At, Harmless
    <3> QED
      BY <1>6, <3>1, <3>2, <3>3, <3>4, RightsWrites
  <2>3. PICK r \in Asking : asking' = [asking EXCEPT ![u] = r] /\ RightsGoesTo(u, r)
    BY <1>6, RightsMoves
  <2>4. Harmless(r, file, deezer)
    <3>1. Harmless(asking[u], file, deezer)
      BY <1>2
    <3>2. CASE r.at = "idle" \/ r.at = "store" \/ (r.at = "archive" /\ ~file)
      BY <3>2 DEF Harmless
    <3>3. CASE (Rights!Probe(u) /\ r.at = (IF file THEN "clear" ELSE "probe") /\ r.read = verdict)
               \/ (file /\ r.at = "save" /\ r.read = verdict)
      BY <1>2, <3>3 DEF Harmless
    <3>4. CASE asking[u].at = "archive" /\ file /\ asking[u].plays /\ r.at = "save"
               /\ r.read = asking[u].read
      BY <3>1, <3>4 DEF Harmless
    <3>5. CASE asking[u].at \in {"probe", "archive"} /\ ~deezer /\ r.at = "mark"
      BY <3>1, <3>5 DEF Harmless
    <3>6. CASE deezer /\ r.at \in {"clear", "write"}
      BY <3>6 DEF Harmless
    <3>7. CASE Rights!Store(u) /\ r.at = "final" /\ r.read = "none"
      <4>1. file
        BY <1>2, <3>7 DEF Rights!Store
      <4> QED
        BY <3>7, <4>1 DEF Harmless
    <3>8. CASE asking[u].at = "final" /\ r.at = "save" /\ r.read = asking[u].read
      BY <3>1, <3>8 DEF Harmless
    <3> QED
      BY <2>3, <3>2, <3>3, <3>4, <3>5, <3>6, <3>7, <3>8 DEF RightsGoesTo
  <2>5. \A t \in Thread : Harmless(asking'[t], file', deezer')
    BY <1>1, <1>2, <2>1, <2>3, <2>4
  <2>6. settled' /\ (verdict' = "none" <=> (file' \/ deezer'))
    BY <1>2, <2>1, <2>2
  <2> QED
    BY <2>5, <2>6 DEF Rights!Mended, Rights!At, Harmless
<1> QED
  BY <1>3, <1>4, <1>5, <1>6 DEF Rights!Next, RightsTurn

\* What makes VerdictMends last: once the world is settled, the verdict says
\* what is and no thread is about to write another, no probe, archiver, play or
\* ageing spoils it again (mark_unavailable, clear_unavailable, probe_track, and
\* the full saves of _finalize_archive and stream_media).
THEOREM MendedForGood ==
    ASSUME MaxTurn \in Nat
    PROVE  Rights!Init /\ [][Rights!Next]_ofRights => [](Rights!Mended => []Rights!Mended)
<1>1. Rights!TypeOK /\ Rights!Mended /\ [Rights!Next]_ofRights => Rights!Mended'
  BY MendedStep
<1> QED
  BY <1>1, RightsInvariant, PTL

-----------------------------------------------------------------------------
(* The links of the remote control.  The types and the session need each    *)
(* other: an account put aside is never the owner's because a browser       *)
(* without a link is not the owner.  A request that is under way has a link *)
(* of its own, so that what it reads is a row.                              *)

Entry == [at : {"idle", "fetch", "read", "in", "cutting"},
          link : Link \cup {NoLink}, row : Row \cup {None}]

Served ==
    \A t \in Thread : thread[t].at # "idle" => thread[t].link \in Link

LinksInv == TypeOK /\ OwnerOnlyByLink /\ Served

LEMMA IdleTyped == Idle \in Entry /\ Idle.at = "idle"
  BY DEF Idle, Entry, None

LEMMA ReqTyped ==
    ASSUME NEW at \in {"idle", "fetch", "read", "in", "cutting"},
           NEW l \in Link, NEW r \in Row \cup {None}
    PROVE  Req(at, l, r) \in Entry /\ Req(at, l, r).link \in Link
  BY DEF Req, Entry

LEMMA ThreadTyped == TypeOK => thread \in [Thread -> Entry]
  BY DEF TypeOK, Entry

\* What a request writes of itself keeps the threads in their type.
LEMMA GoesTyped ==
    ASSUME LinksInv, NEW t \in Thread, NEW r \in Entry,
           r.at = "idle" \/ r.link \in Link, Goes(t, r)
    PROVE  thread' \in [Thread -> Entry] /\ Served'
<1>1. thread \in [Thread -> Entry]
  BY ThreadTyped DEF LinksInv
<1>2. thread' = [thread EXCEPT ![t] = r]
  BY DEF Goes
<1>3. thread' \in [Thread -> Entry]
  BY <1>1, <1>2
<1>4. ASSUME NEW u \in Thread, thread'[u].at # "idle"
      PROVE  thread'[u].link \in Link
  BY <1>1, <1>2, <1>4 DEF LinksInv, Served
<1> QED
  BY <1>3, <1>4 DEF Served

\* ... and with it the rest of the server: what a request leaves is in its
\* types when the row, the cache and the channel are.
LEMMA ServerTyped ==
    ASSUME LinksInv, thread' \in [Thread -> Entry], Served', UNCHANGED cookie,
           row' \in [Link -> Row], cache' \in [Link -> Row \cup {None}],
           cmds' \subseteq Link, drives' \subseteq Link
    PROVE  LinksInv'
<1>1. UNCHANGED <<uid, rc, prev>>
  BY DEF cookie
<1>2. TypeOK'
  BY <1>1 DEF LinksInv, TypeOK, Entry
<1>3. OwnerOnlyByLink'
  BY <1>1 DEF LinksInv, OwnerOnlyByLink
<1> QED
  BY <1>2, <1>3 DEF LinksInv

LEMMA LinksInit == Init => LinksInv
<1> SUFFICES ASSUME Init PROVE LinksInv
  OBVIOUS
<1>1. thread \in [Thread -> Entry]
  BY IdleTyped DEF Init
<1>2. Served
  BY IdleTyped DEF Init, Served
<1>3. row \in [Link -> Row] /\ cache \in [Link -> Row \cup {None}]
  BY DEF Init, Row, None
<1>4. TypeOK
  BY <1>1, <1>3 DEF Init, TypeOK, Entry, Account
<1> QED
  BY <1>2, <1>4 DEF Init, LinksInv, OwnerOnlyByLink

LEMMA SessionInv ==
    ASSUME LinksInv, NoLink \notin Link,
           Login \/ EndSession \/ \E l \in Link : Claim(l)
    PROVE  LinksInv'
<1> USE DEF LinksInv
<1>1. /\ UNCHANGED <<row, thread, cmds, drives>>
      /\ cache' \in [Link -> Row \cup {None}]
  <2>1. cache \in [Link -> Row \cup {None}] /\ "live" \in Row
    BY DEF TypeOK, Row
  <2> QED
    BY <2>1 DEF Login, EndSession, Claim, Granted, server
<1>2. Served'
  BY <1>1 DEF Served
<1>3. uid' \in Account /\ rc' \in Link \cup {NoLink} /\ prev' \in {"nobody", "own"}
      /\ OwnerOnlyByLink'
  <2>1. CASE Login
    BY <2>1 DEF Login, OwnerOnlyByLink, Account
  <2>2. CASE EndSession
    BY <2>2 DEF EndSession, TypeOK, OwnerOnlyByLink, Account
  <2>3. CASE \E l \in Link : Claim(l)
    <3>1. PICK l \in Link : Claim(l)
      BY <2>3
    <3>2. prev' = prev \/ (rc = NoLink /\ prev' = uid)
      BY <3>1 DEF Claim
    <3>3. prev' \in {"nobody", "own"}
      BY <3>2 DEF TypeOK, OwnerOnlyByLink, Account
    <3> QED
      BY <3>1, <3>3 DEF Claim, OwnerOnlyByLink, Account
  <2> QED
    BY <2>1, <2>2, <2>3
<1>4. TypeOK'
  BY <1>1, <1>3 DEF TypeOK
<1> QED
  BY <1>2, <1>3, <1>4

LEMMA ExpiryInv ==
    ASSUME LinksInv, NEW l \in Link, CacheExpires(l) \/ CommandExpires(l)
    PROVE  LinksInv'
<1>1. UNCHANGED <<row, thread, cookie>>
  BY DEF CacheExpires, CommandExpires
<1>2. thread' \in [Thread -> Entry] /\ Served'
  BY <1>1, ThreadTyped DEF LinksInv, Served
<1>3. cache' \in [Link -> Row \cup {None}]
  BY DEF CacheExpires, CommandExpires, LinksInv, TypeOK
<1>4. cmds' \subseteq Link /\ drives' \subseteq Link
  BY DEF CacheExpires, CommandExpires, LinksInv, TypeOK
<1> QED
  BY <1>1, <1>2, <1>3, <1>4, ServerTyped DEF LinksInv, TypeOK

\* The browser's requests, up to the one that posts the command.
LEMMA RequestInv ==
    ASSUME LinksInv, NEW t \in Thread,
           (\E l \in Link : Ask(t, l)) \/ Fetch(t) \/ Fill(t) \/ Command(t)
    PROVE  LinksInv'
<1>1. thread[t] \in Entry
  BY ThreadTyped DEF LinksInv
<1>2. thread[t].row \in Row \cup {None}
  BY <1>1 DEF Entry
<1>3. row \in [Link -> Row] /\ cache \in [Link -> Row \cup {None}]
      /\ cmds \subseteq Link /\ drives \subseteq Link
  BY DEF LinksInv, TypeOK
<1>4. None \in Row \cup {None}
  OBVIOUS
<1>5. CASE \E l \in Link : Ask(t, l)
  <2>1. PICK l \in Link : Ask(t, l)
    BY <1>5
  <2>2. cache[l] \in Row \cup {None}
    BY <1>3
  <2>3. PICK r \in {Req("fetch", l, None), Req("in", l, None), Idle} : Goes(t, r)
    BY <2>1 DEF Ask
  <2>4. r \in Entry /\ (r.at = "idle" \/ r.link \in Link)
    BY <1>4, IdleTyped, ReqTyped
  <2>5. thread' \in [Thread -> Entry] /\ Served'
    BY <2>3, <2>4, GoesTyped
  <2> QED
    BY <1>3, <2>1, <2>5, ServerTyped DEF Ask
<1>6. CASE Fetch(t)
  <2>1. thread[t].link \in Link
    BY <1>6 DEF Fetch, At, LinksInv, Served
  <2>2. row[thread[t].link] \in Row \cup {None}
    BY <1>3, <2>1
  <2>3. thread' \in [Thread -> Entry] /\ Served'
    BY <1>6, <2>1, <2>2, ReqTyped, GoesTyped DEF Fetch
  <2> QED
    BY <1>3, <1>6, <2>3, ServerTyped DEF Fetch
<1>7. CASE Fill(t)
  <2> DEFINE l == thread[t].link
             r == IF thread[t].row = "live" THEN Req("in", l, None) ELSE Idle
  <2>1. l \in Link
    BY <1>7 DEF Fill, At, LinksInv, Served
  <2>2. r \in Entry /\ (r.at = "idle" \/ r.link \in Link)
    BY <1>4, <2>1, IdleTyped, ReqTyped
  <2>3. Goes(t, r) /\ cache' = [cache EXCEPT ![l] = thread[t].row]
        /\ UNCHANGED <<row, cmds, drives, cookie>>
    BY <1>7 DEF Fill
  <2>4. thread' \in [Thread -> Entry] /\ Served'
    BY <2>2, <2>3, GoesTyped
  <2>5. cache' \in [Link -> Row \cup {None}]
    BY <1>2, <1>3, <2>1, <2>3
  <2> QED
    BY <1>3, <2>3, <2>4, <2>5, ServerTyped
<1>8. CASE Command(t)
  <2>1. thread[t].link \in Link
    BY <1>8 DEF Command, At, LinksInv, Served
  <2>2. thread' \in [Thread -> Entry] /\ Served'
    BY <1>8, IdleTyped, GoesTyped DEF Command
  <2>3. cmds' \subseteq Link /\ drives' \subseteq Link
    BY <1>3, <1>8, <2>1 DEF Command
  <2> QED
    BY <1>3, <1>8, <2>2, <2>3, ServerTyped DEF Command
<1> QED
  BY <1>5, <1>6, <1>7, <1>8

\* The owner's cut, in its three steps.
LEMMA CutInv ==
    ASSUME LinksInv, NEW t \in Thread,
           (\E l \in Link : Cut(t, l)) \/ Forget(t) \/ Purge(t)
    PROVE  LinksInv'
<1>1. row \in [Link -> Row] /\ cache \in [Link -> Row \cup {None}]
      /\ cmds \subseteq Link /\ drives \subseteq Link
  BY DEF LinksInv, TypeOK
<1>2. "cut" \in Row /\ None \in Row \cup {None}
  BY DEF Row
<1>3. CASE \E l \in Link : Cut(t, l)
  <2>1. PICK l \in Link : Cut(t, l)
    BY <1>3
  <2>2. thread' \in [Thread -> Entry] /\ Served'
    BY <1>2, <2>1, ReqTyped, GoesTyped DEF Cut
  <2>3. row' \in [Link -> Row]
    BY <1>1, <1>2, <2>1 DEF Cut
  <2> QED
    BY <1>1, <2>1, <2>2, <2>3, ServerTyped DEF Cut
<1>4. CASE Forget(t)
  <2>1. thread[t].link \in Link
    BY <1>4 DEF Forget, At, LinksInv, Served
  <2>2. thread' \in [Thread -> Entry] /\ Served'
    BY <1>2, <1>4, <2>1, ReqTyped, GoesTyped DEF Forget
  <2>3. cache' \in [Link -> Row \cup {None}]
    BY <1>1, <1>4, <2>1 DEF Forget
  <2> QED
    BY <1>1, <1>4, <2>2, <2>3, ServerTyped DEF Forget
<1>5. CASE Purge(t)
  <2>1. thread' \in [Thread -> Entry] /\ Served'
    BY <1>5, IdleTyped, GoesTyped DEF Purge
  <2>2. cmds' \subseteq Link /\ drives' \subseteq Link
    BY <1>1, <1>5 DEF Purge
  <2> QED
    BY <1>1, <1>5, <2>1, <2>2, ServerTyped DEF Purge
<1> QED
  BY <1>3, <1>4, <1>5

LEMMA LinksStep == NoLink \notin Link /\ LinksInv /\ [Next]_vars => LinksInv'
<1> SUFFICES ASSUME NoLink \notin Link, LinksInv, [Next]_vars PROVE LinksInv'
  OBVIOUS
<1>1. CASE EndSession \/ Login \/ \E l \in Link : Claim(l)
  BY <1>1, SessionInv
<1>2. CASE \E l \in Link : CacheExpires(l) \/ CommandExpires(l)
  BY <1>2, ExpiryInv
<1>3. CASE \E t \in Thread : (\E l \in Link : Ask(t, l)) \/ Fetch(t) \/ Fill(t) \/ Command(t)
  BY <1>3, RequestInv
<1>4. CASE \E t \in Thread : (\E l \in Link : Cut(t, l)) \/ Forget(t) \/ Purge(t)
  BY <1>4, CutInv
<1>5. CASE UNCHANGED vars
  <2>1. UNCHANGED <<row, cache, thread, cmds, drives, uid, rc, prev>>
    BY <1>5 DEF vars, server, cookie
  <2> QED
    BY <2>1 DEF LinksInv, TypeOK, OwnerOnlyByLink, Served
<1> QED
  BY <1>1, <1>2, <1>3, <1>4, <1>5 DEF Next

LEMMA LinksInvariant ==
    ASSUME NoLink \notin Link
    PROVE  Init /\ [][Next]_vars => []LinksInv
<1>1. Init => LinksInv
  BY LinksInit
<1>2. LinksInv /\ [Next]_vars => LinksInv'
  BY LinksStep
<1> QED
  BY <1>1, <1>2, PTL

\* Type correctness of the links, their cache, the channel and the sessions of
\* remote.py, for every set of links and threads.
THEOREM LinksTyped == ASSUME NoLink \notin Link PROVE Spec => []TypeOK
<1>1. LinksInv => TypeOK
  BY DEF LinksInv
<1> QED
  BY <1>1, LinksInvariant, PTL DEF Spec

\* However often it claims, leaves, logs in or is logged out, a browser acts as
\* the owner exactly while it holds a link, and never has the owner's account
\* to come back to (remote_claim and _end_remote_session).
THEOREM OwnerByLinkAlone == ASSUME NoLink \notin Link PROVE Spec => []OwnerOnlyByLink
<1>1. LinksInv => OwnerOnlyByLink
  BY DEF LinksInv
<1> QED
  BY <1>1, LinksInvariant, PTL DEF Spec

\* What a request may know of a link that is held.
Harmful(r, l) == r.link = l /\ r.at \notin {"fetch", "cutting"} /\ (r.at = "read" => r.row # "cut")

LEMMA HeldSays ==
    ASSUME NEW l
    PROVE  Held(l) <=> /\ row[l] = "cut" /\ cache[l] # "live" /\ l \notin cmds \cup drives
                       /\ \A t \in Thread : ~Harmful(thread[t], l)
  BY DEF Held, At, Harmful

LEMMA HeldStep ==
    ASSUME NoLink \notin Link, LinksInv, NEW l \in Link, Held(l), [Next]_vars
    PROVE  Held(l)'
<1>1. thread \in [Thread -> Entry] /\ row \in [Link -> Row] /\ cache \in [Link -> Row \cup {None}]
  BY ThreadTyped DEF LinksInv, TypeOK
<1>2. /\ row[l] = "cut" /\ cache[l] # "live" /\ l \notin cmds \cup drives
      /\ \A t \in Thread : ~Harmful(thread[t], l)
  BY HeldSays
<1>3. ASSUME NEW u \in Thread, NEW r, thread' = [thread EXCEPT ![u] = r], ~Harmful(r, l),
             row'[l] = "cut", cache'[l] # "live", l \notin cmds' \cup drives'
      PROVE  Held(l)'
  <2>1. \A t \in Thread : ~Harmful(thread'[t], l)
    BY <1>1, <1>2, <1>3
  <2> QED
    BY <1>3, <2>1 DEF Held, At, Harmful
<1>4. CASE UNCHANGED <<row, cache, thread, cmds, drives>>
  BY <1>4 DEF Held, At
<1>5. ASSUME NEW k \in Link, CacheExpires(k) \/ CommandExpires(k)
      PROVE  Held(l)'
  <2>1. UNCHANGED <<row, thread>> /\ l \notin cmds' \cup drives'
    BY <1>2, <1>5 DEF CacheExpires, CommandExpires
  <2>2. cache'[l] # "live"
    BY <1>1, <1>2, <1>5 DEF CacheExpires, CommandExpires, None
  <2> QED
    BY <1>2, <2>1, <2>2 DEF Held, At, Harmful
<1>6. ASSUME NEW t \in Thread, NEW k \in Link, Ask(t, k)
      PROVE  Held(l)'
  <2>1. UNCHANGED <<row, cache, cmds, drives>>
    BY <1>6 DEF Ask
  <2>2. \/ Goes(t, Req("fetch", k, None))
        \/ cache[k] = "live" /\ Goes(t, Req("in", k, None))
        \/ Goes(t, Idle)
    BY <1>6 DEF Ask
  <2>3. PICK r : Goes(t, r) /\ ~Harmful(r, l)
    <3>1. ~Harmful(Req("fetch", k, None), l) /\ ~Harmful(Idle, l)
      BY DEF Harmful, Req, Idle
    <3>2. cache[k] = "live" => ~Harmful(Req("in", k, None), l)
      BY <1>2 DEF Harmful, Req
    <3> QED
      BY <2>2, <3>1, <3>2
  <2> QED
    BY <1>2, <1>3, <2>1, <2>3 DEF Goes
<1>7. ASSUME NEW t \in Thread, Fetch(t)
      PROVE  Held(l)'
  <2> DEFINE k == thread[t].link
  <2>1. ~Harmful(Req("read", k, row[k]), l)
    BY <1>2 DEF Harmful, Req
  <2> QED
    BY <1>2, <1>3, <1>7, <2>1 DEF Fetch, Goes
<1>8. ASSUME NEW t \in Thread, Fill(t)
      PROVE  Held(l)'
  <2> DEFINE k == thread[t].link
             r == IF thread[t].row = "live" THEN Req("in", k, None) ELSE Idle
  <2>1. k \in Link
    BY <1>8 DEF Fill, At, LinksInv, Served
  <2>2. k = l => thread[t].row = "cut"
    BY <1>2, <1>8 DEF Fill, At, Harmful
  <2>3. ~Harmful(r, l)
    BY <2>2 DEF Harmful, Req, Idle
  <2>4. cache'[l] # "live"
    BY <1>1, <1>2, <1>8, <2>1, <2>2 DEF Fill
  <2>5. UNCHANGED <<row, cmds, drives>> /\ thread' = [thread EXCEPT ![t] = r]
    BY <1>8 DEF Fill, Goes
  <2> QED
    BY <1>2, <1>3, <2>3, <2>4, <2>5
<1>9. ASSUME NEW t \in Thread, Command(t)
      PROVE  Held(l)'
  <2>1. thread[t].link # l
    BY <1>2, <1>9 DEF Command, At, Harmful
  <2>2. ~Harmful(Idle, l)
    BY DEF Harmful, Idle
  <2>3. l \notin cmds' \cup drives' /\ UNCHANGED <<row, cache>>
    BY <1>2, <1>9, <2>1 DEF Command
  <2>4. thread' = [thread EXCEPT ![t] = Idle]
    BY <1>9 DEF Command, Goes
  <2> QED
    BY <1>2, <1>3, <2>2, <2>3, <2>4
<1>10. ASSUME NEW t \in Thread, NEW k \in Link, Cut(t, k)
       PROVE  Held(l)'
  <2>1. ~Harmful(Req("cutting", k, None), l)
    BY DEF Harmful, Req
  <2>2. row'[l] = "cut"
    BY <1>1, <1>2, <1>10 DEF Cut
  <2> QED
    BY <1>2, <1>3, <1>10, <2>1, <2>2 DEF Cut, Goes
<1>11. ASSUME NEW t \in Thread, Forget(t)
       PROVE  Held(l)'
  <2>1. ~Harmful(Req("cutting", thread[t].link, "cut"), l)
    BY DEF Harmful, Req
  <2>2. cache'[l] # "live"
    BY <1>1, <1>2, <1>11 DEF Forget, None
  <2> QED
    BY <1>2, <1>3, <1>11, <2>1, <2>2 DEF Forget, Goes
<1>12. ASSUME NEW t \in Thread, Purge(t)
       PROVE  Held(l)'
  <2>1. ~Harmful(Idle, l)
    BY DEF Harmful, Idle
  <2>2. l \notin cmds' \cup drives'
    BY <1>2, <1>12 DEF Purge
  <2> QED
    BY <1>2, <1>3, <1>12, <2>1, <2>2 DEF Purge, Goes
<1>13. ASSUME EndSession \/ Login \/ \E k \in Link : Claim(k)
       PROVE  Held(l)'
  <2>1. CASE EndSession \/ Login
    BY <1>4, <2>1 DEF EndSession, Login, server
  <2>2. ASSUME NEW k \in Link, Claim(k)
        PROVE  Held(l)'
    <3>1. k # l
      BY <1>2, <2>2 DEF Claim, Granted
    <3>2. UNCHANGED <<row, thread, cmds, drives>> /\ cache' = [cache EXCEPT ![k] = "live"]
      BY <2>2 DEF Claim, Granted
    <3>3. cache'[l] = cache[l]
      BY <1>1, <3>1, <3>2
    <3> QED
      BY <1>2, <3>2, <3>3 DEF Held, At
  <2> QED
    BY <1>13, <2>1, <2>2
<1>14. CASE UNCHANGED vars
  BY <1>4, <1>14 DEF vars, server
<1> QED
  BY <1>5, <1>6, <1>7, <1>8, <1>9, <1>10, <1>11, <1>12, <1>13, <1>14 DEF Next

\* What makes CutHolds last: a cut link that grants nothing, is in no cache as
\* live and known as live to no request on its way, never grants anything again,
\* whatever is asked, filled or expires afterwards (live_link, _forget, _revoke).
THEOREM CutForGood ==
    ASSUME NoLink \notin Link, NEW l \in Link
    PROVE  Spec => [](Held(l) => []Held(l))
<1>1. LinksInv /\ Held(l) /\ [Next]_vars => Held(l)'
  BY HeldStep
<1> QED
  BY <1>1, LinksInvariant, PTL DEF Spec

-----------------------------------------------------------------------------
(* A guest of a listen party.                                               *)

Looping == {Seat!Idle, Seat!Waiting, Seat!Lost} \cup Seat!Asked \cup Seat!Answered
Seating == {Seat!Idle, Seat!Joining, Seat!Lost} \cup [at : {"answer"}, l : 1..MaxSeat]

\* pollTimer holds the timeout of a loop that waits for it.
TimerWaits == timer # Seat!NoTimer => loop[timer] = Seat!Waiting

\* A guest that was not told the party is over has a poll asked for, answered
\* or about to be.
KeepsPolling == phase = "live" => \E p \in Poll : loop[p] # Seat!Idle

\* takeSeat() never runs for a guest that has a seat, and the seat a guest has,
\* or is about to get, is the last one the server gave.
SeatIsNewest ==
    /\ join # Seat!Idle => lid = Seat!NoSeat
    /\ join.at = "answer" => join.l = taken
    /\ lid # Seat!NoSeat => lid = taken

SeatInv == Seat!TypeOK /\ TimerWaits /\ KeepsPolling /\ SeatIsNewest

\* The records a loop and takeSeat() wait with, told apart by `at`.
LEMMA LoopRecords ==
    ASSUME MaxSeat \in Nat, SeatLines \in Nat
    PROVE  /\ Seat!Idle \in Looping /\ Seat!Waiting \in Looping /\ Seat!Lost \in Looping
           /\ Seat!Idle.at = "idle" /\ Seat!Waiting.at = "timer" /\ Seat!Lost.at = "lost"
           /\ Seat!Waiting # Seat!Idle /\ Seat!Lost # Seat!Idle /\ Seat!Lost # Seat!Waiting
           /\ \A r \in Looping :
                /\ r.at = "answer" => r.line \in 0..Seat!Gone /\ r # Seat!Waiting /\ r # Seat!Idle
                /\ r.at = "ask" => r.l \in 0..MaxSeat /\ r # Seat!Waiting /\ r # Seat!Idle
                /\ r.at = "lost" => r # Seat!Waiting /\ r # Seat!Idle
  BY DEF Looping, Seat!Idle, Seat!Waiting, Seat!Lost, Seat!Asked, Seat!Answered

LEMMA AskRecord ==
    ASSUME NEW l \in 0..MaxSeat
    PROVE  [at |-> "ask", l |-> l] \in Looping /\ [at |-> "ask", l |-> l] # Seat!Idle
  BY DEF Looping, Seat!Idle, Seat!Asked

LEMMA AnswerRecord ==
    ASSUME NEW i \in 0..Seat!Gone, NEW me \in Seat!Me
    PROVE  /\ [at |-> "answer", line |-> i, me |-> me] \in Looping
           /\ [at |-> "answer", line |-> i, me |-> me] # Seat!Idle
  BY DEF Looping, Seat!Idle, Seat!Answered

LEMMA JoinRecords ==
    ASSUME MaxSeat \in Nat
    PROVE  /\ Seat!Idle \in Seating /\ Seat!Joining \in Seating /\ Seat!Lost \in Seating
           /\ Seat!Idle.at = "idle" /\ Seat!Joining.at = "ask" /\ Seat!Lost.at = "lost"
           /\ Seat!Joining # Seat!Idle /\ Seat!Lost # Seat!Idle
           /\ \A r \in Seating :
                /\ r.at = "answer" => r.l \in 1..MaxSeat /\ r # Seat!Idle /\ r # Seat!Lost
                /\ r.at = "lost" => r = Seat!Lost
                /\ r.at = "idle" => r = Seat!Idle
           /\ \A l \in 1..MaxSeat : [at |-> "answer", l |-> l] \in Seating
  BY DEF Seating, Seat!Idle, Seat!Joining, Seat!Lost

LEMMA SeatTyped == Seat!TypeOK <=>
    /\ timeline \in 0..Seat!Gone /\ seats \subseteq 1..taken /\ taken \in 0..MaxSeat
    /\ phase \in {"live", "over"} /\ lid \in 0..taken /\ heard \in 0..SeatLines
    /\ timer \in Poll \cup {Seat!NoTimer} /\ quiet \in BOOLEAN
    /\ loop \in [Poll -> Looping] /\ join \in Seating
  BY DEF Seat!TypeOK, Looping, Seating

LEMMA SeatInit ==
    ASSUME MaxSeat \in Nat, SeatLines \in Nat, Poll # {}, Seat!Init
    PROVE  SeatInv
<1> DEFINE first == CHOOSE p \in Poll : TRUE
           asked == [at |-> "ask", l |-> Seat!NoSeat]
<1>1. first \in Poll
  OBVIOUS
<1>2. asked \in Looping /\ asked # Seat!Idle
  BY AskRecord DEF Seat!NoSeat
<1>3. loop = [p \in Poll |-> IF p = first THEN asked ELSE Seat!Idle]
  BY DEF Seat!Init
<1> HIDE DEF first, asked
<1>4. loop \in [Poll -> Looping] /\ loop[first] # Seat!Idle
  BY <1>1, <1>2, <1>3, LoopRecords
<1>5. join \in Seating /\ join.at = "ask"
  BY JoinRecords DEF Seat!Init
<1>6. Seat!TypeOK
  <2>1. /\ timeline \in 0..Seat!Gone /\ taken \in 0..MaxSeat /\ lid \in 0..taken
        /\ heard \in 0..SeatLines
    BY DEF Seat!Init, Seat!NoSeat, Seat!Gone
  <2>2. /\ seats \subseteq 1..taken /\ phase \in {"live", "over"}
        /\ timer \in Poll \cup {Seat!NoTimer} /\ quiet \in BOOLEAN
    BY DEF Seat!Init
  <2> QED
    BY <1>4, <1>5, <2>1, <2>2, SeatTyped
<1>7. TimerWaits /\ KeepsPolling /\ SeatIsNewest
  BY <1>1, <1>4, <1>5 DEF Seat!Init, TimerWaits, KeepsPolling, SeatIsNewest
<1> QED
  BY <1>6, <1>7 DEF SeatInv

\* What the server and the network do to the party leaves the guest alone.
LEMMA SeatServer ==
    ASSUME MaxSeat \in Nat, SeatLines \in Nat, SeatInv,
           \/ Seat!Publish \/ Seat!Forget \/ Seat!Resume \/ Seat!CalmDown
           \/ \E l \in 1..MaxSeat : Seat!Drop(l)
    PROVE  SeatInv'
<1>1. UNCHANGED <<taken, phase, lid, heard, timer, loop, join>>
  BY DEF Seat!Publish, Seat!Forget, Seat!Resume, Seat!CalmDown, Seat!Drop
<1>2. timeline' \in 0..Seat!Gone
  BY SeatTyped DEF Seat!Publish, Seat!Forget, Seat!Resume, Seat!CalmDown, Seat!Drop, SeatInv,
                   Seat!Gone
<1>3. seats' \subseteq 1..taken /\ quiet' \in BOOLEAN
  BY SeatTyped DEF Seat!Publish, Seat!Forget, Seat!Resume, Seat!CalmDown, Seat!Drop, SeatInv
<1>4. Seat!TypeOK'
  BY <1>1, <1>2, <1>3, SeatTyped DEF SeatInv, Seat!TypeOK
<1> QED
  BY <1>1, <1>4 DEF SeatInv, TimerWaits, KeepsPolling, SeatIsNewest

\* One loop goes on: what becomes of the timer and of the polling.
LEMMA SeatLoop ==
    ASSUME MaxSeat \in Nat, SeatLines \in Nat, SeatInv,
           NEW p \in Poll, NEW r \in Looping, loop' = [loop EXCEPT ![p] = r],
           UNCHANGED <<timeline, seats, taken, quiet>>,
           phase' \in {"live", "over"}, phase' = "live" => phase = "live" /\ r # Seat!Idle,
           timer' \in {timer, p, Seat!NoTimer},
           timer' \in {p} \ {Seat!NoTimer} => r = Seat!Waiting,
           heard' \in 0..SeatLines, SeatIsNewest', lid' \in 0..taken, join' \in Seating
    PROVE  SeatInv'
<1>1. loop' \in [Poll -> Looping]
  BY SeatTyped DEF SeatInv
<1>2. timer' \in Poll \cup {Seat!NoTimer}
  BY SeatTyped DEF SeatInv
<1>3. Seat!TypeOK'
  BY <1>1, <1>2, SeatTyped DEF SeatInv, Seat!TypeOK, Looping, Seating
<1>4. TimerWaits'
  BY <1>1, <1>2, SeatTyped DEF SeatInv, TimerWaits
<1>5. KeepsPolling'
  BY <1>1, SeatTyped DEF SeatInv, KeepsPolling
<1> QED
  BY <1>3, <1>4, <1>5 DEF SeatInv

LEMMA SeatPoll ==
    ASSUME MaxSeat \in Nat, SeatLines \in Nat, SeatInv, NEW p \in Poll,
           Seat!ServePoll(p) \/ Seat!Again(p) \/ Seat!LosePoll(p)
    PROVE  SeatInv'
<1>1. /\ timeline \in 0..Seat!Gone /\ taken \in 0..MaxSeat /\ lid \in 0..taken
      /\ heard \in 0..SeatLines /\ phase \in {"live", "over"}
      /\ loop \in [Poll -> Looping] /\ join \in Seating
  BY SeatTyped DEF SeatInv
<1>2. UNCHANGED <<timeline, seats, taken, phase, lid, heard, join, quiet>>
  BY DEF Seat!ServePoll, Seat!Again, Seat!LosePoll
<1>3. SeatIsNewest'
  BY <1>2 DEF SeatInv, SeatIsNewest
<1>4. loop[p] \in Looping
  BY <1>1
<1>5. CASE Seat!ServePoll(p)
  <2>1. PICK me \in Seat!Me :
            loop' = [loop EXCEPT ![p] = [at |-> "answer", line |-> timeline, me |-> me]]
    BY <1>5 DEF Seat!ServePoll, Seat!Me
  <2>2. timer' = timer /\ (timer = p => timer = Seat!NoTimer)
    BY <1>4, <1>5, LoopRecords DEF Seat!ServePoll, SeatInv, TimerWaits
  <2> QED
    BY <1>1, <1>2, <1>3, <2>1, <2>2, AnswerRecord, SeatLoop
<1>6. CASE Seat!Again(p)
  <2>1. lid \in 0..MaxSeat
    BY <1>1
  <2>2. loop' = [loop EXCEPT ![p] = [at |-> "ask", l |-> lid]]
    BY <1>6 DEF Seat!Again, Seat!Asks
  <2>3. timer' \in {timer, Seat!NoTimer} /\ (timer' = p => timer' = Seat!NoTimer)
    BY <1>6 DEF Seat!Again
  <2> QED
    BY <1>1, <1>2, <1>3, <2>1, <2>2, <2>3, AskRecord, SeatLoop
<1>7. CASE Seat!LosePoll(p)
  <2>1. timer' = timer /\ (timer = p => timer = Seat!NoTimer)
    BY <1>4, <1>7, LoopRecords DEF Seat!LosePoll, SeatInv, TimerWaits
  <2> QED
    BY <1>1, <1>2, <1>3, <1>7, <2>1, LoopRecords, SeatLoop DEF Seat!LosePoll
<1> QED
  BY <1>5, <1>6, <1>7

LEMMA SeatJoin ==
    ASSUME MaxSeat \in Nat, SeatLines \in Nat, SeatInv,
           Seat!ServeJoin \/ Seat!Joined \/ Seat!LoseJoin
    PROVE  SeatInv'
<1>1. /\ timeline \in 0..Seat!Gone /\ seats \subseteq 1..taken /\ taken \in 0..MaxSeat
      /\ lid \in 0..taken /\ join \in Seating /\ SeatIsNewest
  BY SeatTyped DEF SeatInv
<1>2. UNCHANGED <<timeline, phase, heard, timer, loop, quiet>>
  BY DEF Seat!ServeJoin, Seat!Joined, Seat!LoseJoin
<1>3. /\ seats' \subseteq 1..taken' /\ taken' \in 0..MaxSeat /\ lid' \in 0..taken'
      /\ join' \in Seating /\ SeatIsNewest'
  <2>1. CASE Seat!ServeJoin
    <3>1. lid = Seat!NoSeat /\ lid' = lid
      BY <1>1, <2>1, JoinRecords DEF Seat!ServeJoin, SeatIsNewest
    <3>2. CASE timeline = Seat!Gone
      <4>1. join' = Seat!Lost /\ UNCHANGED <<seats, taken>>
        BY <2>1, <3>2 DEF Seat!ServeJoin
      <4> QED
        BY <1>1, <3>1, <4>1, JoinRecords DEF SeatIsNewest
    <3>3. CASE timeline # Seat!Gone
      <4>1. /\ taken < MaxSeat /\ taken' = taken + 1
            /\ seats' = seats \cup {taken + 1}
            /\ join' = [at |-> "answer", l |-> taken + 1]
        BY <2>1, <3>3 DEF Seat!ServeJoin
      <4>2. taken' \in 1..MaxSeat /\ seats' \subseteq 1..taken' /\ lid' \in 0..taken'
        BY <1>1, <3>1, <4>1
      <4>3. join' \in Seating
        BY <4>1, <4>2, JoinRecords
      <4>4. join'.l = taken'
        BY <4>1
      <4> QED
        BY <3>1, <4>2, <4>3, <4>4 DEF SeatIsNewest
    <3> QED
      BY <3>2, <3>3
  <2>2. CASE Seat!Joined
    <3>1. join' = Seat!Idle /\ UNCHANGED <<seats, taken>>
      BY <2>2 DEF Seat!Joined
    <3>2. lid' = lid \/ (join.at = "answer" /\ lid' = join.l)
      BY <1>1, <2>2, JoinRecords DEF Seat!Joined
    <3>3. lid' \in 0..taken /\ (lid' # Seat!NoSeat => lid' = taken)
      BY <1>1, <3>2 DEF SeatIsNewest
    <3> QED
      BY <1>1, <3>1, <3>3, JoinRecords DEF SeatIsNewest
  <2>3. CASE Seat!LoseJoin
    <3>1. join' = Seat!Lost /\ UNCHANGED <<seats, taken, lid>> /\ join # Seat!Idle
      BY <2>3, JoinRecords DEF Seat!LoseJoin
    <3> QED
      BY <1>1, <3>1, JoinRecords DEF SeatIsNewest
  <2> QED
    BY <2>1, <2>2, <2>3
<1>4. Seat!TypeOK'
  BY <1>2, <1>3, SeatTyped DEF SeatInv, Seat!TypeOK, Looping, Seating
<1> QED
  BY <1>2, <1>3, <1>4 DEF SeatInv, TimerWaits, KeepsPolling

LEMMA SeatPage ==
    ASSUME MaxSeat \in Nat, SeatLines \in Nat, SeatInv,
           Seat!Visible \/ \E p \in Poll : Seat!Polled(p)
    PROVE  SeatInv'
<1>1. /\ timeline \in 0..Seat!Gone /\ taken \in 0..MaxSeat /\ lid \in 0..taken
      /\ heard \in 0..SeatLines /\ phase \in {"live", "over"}
      /\ timer \in Poll \cup {Seat!NoTimer}
      /\ loop \in [Poll -> Looping] /\ join \in Seating /\ SeatIsNewest
  BY SeatTyped DEF SeatInv
<1>2. CASE Seat!Visible
  <2>1. /\ UNCHANGED <<timeline, seats, taken, phase, lid, heard, join, quiet>>
        /\ timer' = Seat!NoTimer
    BY <1>2 DEF Seat!Visible
  <2>2. PICK p \in Poll : loop' = [loop EXCEPT ![p] = [at |-> "ask", l |-> lid]]
    BY <1>1, <1>2 DEF Seat!Visible, Seat!Asks
  <2>3. lid \in 0..MaxSeat /\ SeatIsNewest'
    BY <1>1, <2>1 DEF SeatIsNewest
  <2> QED
    BY <1>1, <2>1, <2>2, <2>3, AskRecord, SeatLoop
<1>3. ASSUME NEW p \in Poll, Seat!Polled(p)
      PROVE  SeatInv'
  <2>1. UNCHANGED <<timeline, seats, taken, quiet>> /\ phase = "live" /\ loop[p] \in Looping
    BY <1>1, <1>3 DEF Seat!Polled
  <2>2. CASE loop[p].at = "answer" /\ loop[p].line = Seat!Gone
    <3>1. /\ phase' = "over" /\ timer' = Seat!NoTimer
          /\ loop' = [loop EXCEPT ![p] = Seat!Idle] /\ UNCHANGED <<lid, heard, join>>
      BY <1>3, <2>2 DEF Seat!Polled
    <3>2. SeatIsNewest'
      BY <1>1, <2>1, <3>1 DEF SeatIsNewest
    <3> QED
      BY <1>1, <2>1, <3>1, <3>2, LoopRecords, SeatLoop
  <2>3. CASE ~(loop[p].at = "answer" /\ loop[p].line = Seat!Gone)
    <3>1. /\ loop' = [loop EXCEPT ![p] = Seat!Waiting] /\ timer' = p /\ UNCHANGED phase
          /\ heard' = IF loop[p].at = "answer" THEN loop[p].line ELSE heard
          /\ Seat!TakeSeat \/ UNCHANGED <<lid, join>>
      BY <1>3, <2>3 DEF Seat!Polled
    <3>2. heard' \in 0..SeatLines
      BY <1>1, <2>1, <2>3, <3>1, LoopRecords DEF Seat!Gone
    <3>3. lid' \in 0..taken /\ join' \in Seating /\ SeatIsNewest'
      <4>1. CASE UNCHANGED <<lid, join>>
        BY <1>1, <2>1, <4>1 DEF SeatIsNewest
      <4>2. CASE join' = Seat!Joining /\ lid' = Seat!NoSeat
        <5>1. join' \in Seating /\ join'.at = "ask"
          BY <4>2, JoinRecords
        <5>2. lid' \in 0..taken
          BY <1>1, <4>2 DEF Seat!NoSeat
        <5> QED
          BY <4>2, <5>1, <5>2 DEF SeatIsNewest
      <4> QED
        BY <3>1, <4>1, <4>2 DEF Seat!TakeSeat
    <3> QED
      BY <1>1, <2>1, <3>1, <3>2, <3>3, LoopRecords, SeatLoop
  <2> QED
    BY <2>2, <2>3
<1> QED
  BY <1>2, <1>3

LEMMA SeatStep ==
    ASSUME MaxSeat \in Nat, SeatLines \in Nat, SeatInv, [Seat!Next]_ofSeat
    PROVE  SeatInv'
<1>1. CASE UNCHANGED ofSeat
  <2>1. UNCHANGED <<timeline, seats, taken, phase, lid, heard, timer, loop, join, quiet>>
    BY <1>1 DEF ofSeat
  <2> QED
    BY <2>1 DEF SeatInv, Seat!TypeOK, TimerWaits, KeepsPolling, SeatIsNewest
<1> QED
  BY <1>1, SeatServer, SeatPoll, SeatJoin, SeatPage DEF Seat!Next

\* However its polls, its waking page and its lost answers fall (poll, onVisible
\* and takeSeat in guest.js), a guest that was not told the party is over polls
\* on, pollTimer names a loop that waits, and no seat is taken while it has one:
\* its seat is the last the server gave.
THEOREM GuestHolds ==
    ASSUME MaxSeat \in Nat, SeatLines \in Nat, Poll # {}
    PROVE  Seat!Init /\ [][Seat!Next]_ofSeat
               => [](Seat!TypeOK /\ TimerWaits /\ KeepsPolling /\ SeatIsNewest)
<1>1. Seat!Init => SeatInv
  BY SeatInit
<1>2. SeatInv /\ [Seat!Next]_ofSeat => SeatInv'
  BY SeatStep
<1>3. SeatInv => Seat!TypeOK /\ TimerWaits /\ KeepsPolling /\ SeatIsNewest
  BY DEF SeatInv
<1> QED
  BY <1>1, <1>2, <1>3, PTL

\* What a loop may be at for a guest that hears well.
Apt(r, i, l) ==
    /\ r.at = "ask" => r.l \in {l, Seat!NoSeat}
    /\ r.at = "answer" => r.line = i /\ (r.me = "no" => l = Seat!NoSeat)

LEMMA HearsSays ==
    Seat!Hears <=> /\ quiet /\ timeline # Seat!Gone /\ heard = timeline
                   /\ seats = {lid} \ {Seat!NoSeat} /\ join \in {Seat!Idle, Seat!Lost}
                   /\ \A p \in Poll : Apt(loop[p], timeline, lid)
  BY DEF Seat!Hears, Apt

LEMMA HearsStep ==
    ASSUME MaxSeat \in Nat, SeatLines \in Nat, SeatInv, Seat!Hears, [Seat!Next]_ofSeat
    PROVE  Seat!Hears'
<1>1. loop \in [Poll -> Looping] /\ join \in Seating
  BY SeatTyped DEF SeatInv
<1>2. /\ quiet /\ timeline # Seat!Gone /\ heard = timeline
      /\ seats = {lid} \ {Seat!NoSeat} /\ join \in {Seat!Idle, Seat!Lost}
      /\ \A p \in Poll : Apt(loop[p], timeline, lid)
  BY HearsSays
<1>3. ASSUME NEW p \in Poll, NEW r, loop' = [loop EXCEPT ![p] = r], Apt(r, timeline, lid),
             heard' = timeline, UNCHANGED <<timeline, seats, lid, join, quiet>>
      PROVE  Seat!Hears'
  <2>1. \A q \in Poll : Apt(loop'[q], timeline, lid)
    BY <1>1, <1>2, <1>3
  <2> QED
    BY <1>2, <1>3, <2>1 DEF Seat!Hears, Apt
<1>4. CASE UNCHANGED ofSeat
  <2>1. UNCHANGED <<timeline, seats, lid, heard, loop, join, quiet>>
    BY <1>4 DEF ofSeat
  <2> QED
    BY <2>1 DEF Seat!Hears
<1>5. ~Seat!Publish /\ ~Seat!Forget /\ ~Seat!Resume /\ ~Seat!Visible /\ ~Seat!LoseJoin
      /\ ~Seat!CalmDown /\ \A p \in Poll : ~Seat!LosePoll(p)
  BY <1>2 DEF Seat!Publish, Seat!Forget, Seat!Resume, Seat!Visible, Seat!LoseJoin,
              Seat!CalmDown, Seat!LosePoll
<1>6. ~Seat!ServeJoin
  BY <1>2, JoinRecords DEF Seat!ServeJoin
<1>7. \A l \in 1..MaxSeat : ~Seat!Drop(l)
  BY <1>2 DEF Seat!Drop
<1>8. CASE Seat!Joined
  <2>1. join = Seat!Lost /\ join' = Seat!Idle /\ lid' = lid
    BY <1>2, <1>8, JoinRecords DEF Seat!Joined
  <2>2. UNCHANGED <<timeline, seats, heard, loop, quiet>>
    BY <1>8 DEF Seat!Joined
  <2> QED
    BY <1>2, <2>1, <2>2 DEF Seat!Hears, Apt
<1>9. ASSUME NEW p \in Poll, Seat!ServePoll(p)
      PROVE  Seat!Hears'
  <2> DEFINE me == IF loop[p].l = Seat!NoSeat THEN "none"
                   ELSE IF loop[p].l \in seats THEN "yes" ELSE "no"
             r == [at |-> "answer", line |-> timeline, me |-> me]
  <2>1. loop[p].l \in {lid, Seat!NoSeat}
    BY <1>2, <1>9 DEF Seat!ServePoll, Apt
  <2>2. me # "no"
    BY <1>2, <2>1
  <2> HIDE DEF me
  <2>3. Apt(r, timeline, lid)
    BY <2>2 DEF Apt
  <2> QED
    BY <1>2, <1>3, <1>9, <2>3 DEF Seat!ServePoll, me
<1>10. ASSUME NEW p \in Poll, Seat!Again(p)
       PROVE  Seat!Hears'
  <2>1. Apt([at |-> "ask", l |-> lid], timeline, lid)
    BY DEF Apt
  <2> QED
    BY <1>2, <1>3, <1>10, <2>1 DEF Seat!Again, Seat!Asks
<1>11. ASSUME NEW p \in Poll, Seat!Polled(p)
       PROVE  Seat!Hears'
  <2>1. Apt(loop[p], timeline, lid)
    BY <1>2
  <2>2. ~(loop[p].at = "answer" /\ loop[p].line = Seat!Gone)
    BY <1>2, <2>1 DEF Apt
  <2>3. ~(loop[p].at = "answer" /\ lid # Seat!NoSeat /\ loop[p].me = "no")
    BY <2>1 DEF Apt
  <2>4. /\ heard' = IF loop[p].at = "answer" THEN loop[p].line ELSE heard
        /\ loop' = [loop EXCEPT ![p] = Seat!Waiting]
        /\ UNCHANGED <<timeline, seats, lid, join, quiet>>
    BY <1>11, <2>2, <2>3 DEF Seat!Polled
  <2>5. heard' = timeline
    BY <1>2, <2>1, <2>4 DEF Apt
  <2>6. Apt(Seat!Waiting, timeline, lid)
    BY LoopRecords DEF Apt
  <2> QED
    BY <1>3, <2>4, <2>5, <2>6
<1> QED
  BY <1>4, <1>5, <1>6, <1>7, <1>8, <1>9, <1>10, <1>11 DEF Seat!Next

LEMMA OverStep ==
    ASSUME MaxSeat \in Nat, SeatInv, [Seat!Next]_ofSeat
    PROVE  (phase = "over" => phase' = "over") /\ (taken = MaxSeat => taken' = MaxSeat)
<1>1. CASE UNCHANGED ofSeat
  BY <1>1 DEF ofSeat
<1>2. ASSUME NEW p \in Poll,
             Seat!ServePoll(p) \/ Seat!Polled(p) \/ Seat!Again(p) \/ Seat!LosePoll(p)
      PROVE  UNCHANGED taken /\ (phase = "over" => phase' = "over")
  BY <1>2 DEF Seat!ServePoll, Seat!Polled, Seat!Again, Seat!LosePoll
<1>3. ASSUME NEW l \in 1..MaxSeat, Seat!Drop(l)
      PROVE  UNCHANGED <<taken, phase>>
  BY <1>3 DEF Seat!Drop
<1>4. CASE Seat!ServeJoin
  BY <1>4 DEF Seat!ServeJoin
<1>5. CASE \/ Seat!Publish \/ Seat!Forget \/ Seat!Resume \/ Seat!Visible \/ Seat!Joined
           \/ Seat!LoseJoin \/ Seat!CalmDown
  BY <1>5 DEF Seat!Publish, Seat!Forget, Seat!Resume, Seat!Visible, Seat!Joined, Seat!LoseJoin,
              Seat!CalmDown
<1> QED
  BY <1>1, <1>2, <1>3, <1>4, <1>5 DEF Seat!Next

\* What makes GuestHears last: a guest that plays what the server holds, is
\* listed on the seat it has and has no older answer in flight stays so, by
\* whatever loops it polls (poll, takeSeat, party_state, prune_listeners).
THEOREM AtRestForGood ==
    ASSUME MaxSeat \in Nat, SeatLines \in Nat, Poll # {}
    PROVE  Seat!Init /\ [][Seat!Next]_ofSeat => [](Seat!AtRest => []Seat!AtRest)
<1>1. SeatInv /\ Seat!AtRest /\ [Seat!Next]_ofSeat => Seat!AtRest'
  BY HearsStep, OverStep DEF Seat!AtRest
<1>2. Seat!Init => SeatInv
  BY SeatInit
<1>3. SeatInv /\ [Seat!Next]_ofSeat => SeatInv'
  BY SeatStep
<1> QED
  BY <1>1, <1>2, <1>3, PTL

-----------------------------------------------------------------------------
(* The host of a listen party.                                              *)

\* The requests of the page that wait for each other: flush() has a publish or
\* a recover() of its own out, heartbeat() a beat or a recover() of its own; the
\* party is ended on the server after it was on the page.
OneAtATime ==
    /\ s.post # "no" => resume["flush"] = "no"
    /\ beat # "no" => resume["beat"] = "no"
    /\ ending => ~hosting

\* The server has line l, or has lost the party since: either as a whole, or the
\* heartbeat has just taken it back, blank, and will say so.
HasHad(l) == party \in {l, Host!Gone} \/ resume["beat"] \in {"ok", "lost"}

\* A publish carries the line the page last sent, or another follows it.
Follows(h) == h.post # "no" => h.sent = h.pub \/ h.dirty \/ h.pub = Host!NoLine

\* A publish that was served ...
ServedLine ==
    hosting /\ s.post = "ok" /\ ~s.unsaid /\ ~s.dirty /\ s.pub # Host!NoLine => HasHad(s.sent)

\* What the page takes for said was said: with no publish under way, none to
\* try again and no recovery that failed, the server has had the line the page
\* published last.
SaidIsServed ==
    hosting /\ s.pub # Host!NoLine /\ ~s.inflight /\ ~s.retry /\ ~s.unsaid => HasHad(s.pub)

HostInv == Host!TypeOK /\ OneAtATime /\ Follows(s) /\ ServedLine /\ SaidIsServed

HostTypes ==
    /\ line \in Host!Lines /\ ready \in BOOLEAN /\ hosting \in BOOLEAN
    /\ beat \in {"no", "ask"} \cup Host!Answers /\ ending \in BOOLEAN
    /\ party \in {Host!Blank, Host!Gone} \cup Host!Lines
    /\ forgets \in 0..MaxForget /\ calm \in BOOLEAN

\* flush() waits for its publish or its recover(), inflight set.
InFlight ==
    /\ s \in Host!Session
    /\ resume \in [Host!Caller -> {"no", "ask", "ok", "lost"}]
    /\ s.post # "no" => s.inflight
    /\ resume["flush"] # "no" => s.inflight

LEMMA HostTyped == Host!TypeOK <=> HostTypes /\ InFlight
  BY DEF Host!TypeOK, HostTypes, InFlight

LEMMA LinesApart ==
    ASSUME MaxLine \in Nat
    PROVE  /\ Host!NoLine \notin Host!Lines /\ Host!Gone \notin Host!Lines
           /\ Host!Blank \notin Host!Lines /\ Host!Gone # Host!NoLine /\ Host!Gone # Host!Blank
  BY DEF Host!NoLine, Host!Gone, Host!Lines, Host!Blank

\* The start of flush(): a publish of the last line sent, or, with none, nothing.
LEMMA FlushedIs ==
    ASSUME NEW h \in Host!Session, NEW f, f = Host!Flushed(h)
    PROVE  /\ f \in Host!Session
           /\ f.inflight /\ ~f.dirty /\ f.pub = h.pub /\ f.retry = h.retry
           /\ h.pub # Host!NoLine => f.post = "ask" /\ f.sent = h.pub /\ ~f.unsaid
           /\ h.pub = Host!NoLine => f.post = h.post /\ f.sent = h.sent /\ f.unsaid = h.unsaid
<1> DEFINE n == [h EXCEPT !.inflight = TRUE, !.dirty = FALSE]
<1>1. /\ n \in Host!Session /\ n.inflight /\ ~n.dirty /\ n.pub = h.pub /\ n.retry = h.retry
      /\ n.post = h.post /\ n.sent = h.sent /\ n.unsaid = h.unsaid
  BY DEF Host!Session
<1>2. CASE h.pub = Host!NoLine
  BY <1>1, <1>2 DEF Host!Flushed
<1>3. CASE h.pub # Host!NoLine
  <2> HIDE DEF n
  <2>1. f = [n EXCEPT !.post = "ask", !.sent = h.pub, !.unsaid = FALSE]
    BY <1>3 DEF Host!Flushed, n
  <2>2. h.pub \in Host!Lines
    BY <1>3 DEF Host!Session
  <2> QED
    BY <1>1, <1>3, <2>1, <2>2 DEF Host!Session
<1> QED
  BY <1>2, <1>3

\* measure(): nothing, or the line is sent: published at once, or marked for
\* the flush that runs.
LEMMA MeasuredIs ==
    ASSUME MaxLine \in Nat, line \in Host!Lines, NEW h \in Host!Session, NEW m, m = Host!Measured(h)
    PROVE  /\ m \in Host!Session
           /\ \/ m = h
              \/ /\ m.pub = line /\ ~m.retry /\ m.inflight
                 /\ \/ /\ h.inflight /\ m.dirty
                       /\ m.post = h.post /\ m.sent = h.sent /\ m.unsaid = h.unsaid
                    \/ /\ ~h.inflight
                       /\ m.post = "ask" /\ m.sent = line /\ ~m.unsaid
<1> DEFINE n == [h EXCEPT !.pub = line, !.retry = FALSE]
<1>1. /\ n \in Host!Session /\ n.pub = line /\ ~n.retry
      /\ n.inflight = h.inflight /\ n.dirty = h.dirty /\ n.post = h.post
      /\ n.sent = h.sent /\ n.unsaid = h.unsaid
  BY DEF Host!Session
<1> HIDE DEF n
<1>2. line # Host!NoLine
  BY LinesApart
<1>3. m = h \/ m = Host!Sent(h)
  BY DEF Host!Measured
<1>4. CASE m = Host!Sent(h) /\ h.inflight
  <2>1. m = [n EXCEPT !.dirty = TRUE]
    BY <1>4 DEF Host!Sent, n
  <2> QED
    BY <1>1, <1>4, <2>1 DEF Host!Session
<1>5. CASE m = Host!Sent(h) /\ ~h.inflight
  <2>1. m = Host!Flushed(n)
    BY <1>5 DEF Host!Sent, n
  <2> QED
    BY <1>1, <1>2, <1>5, <2>1, FlushedIs
<1> QED
  BY <1>3, <1>4, <1>5

\* The end of flush(): at rest, or off again with what was sent meanwhile.
LEMMA FinishedIs ==
    ASSUME NEW h \in Host!Session, NEW f, f = Host!Finished(h)
    PROVE  /\ f \in Host!Session /\ f.pub = h.pub /\ f.retry = h.retry
           /\ \/ /\ ~f.inflight /\ f.post = "no" /\ f.unsaid = h.unsaid
                 /\ hosting => ~h.dirty
              \/ /\ hosting /\ h.dirty /\ f.inflight /\ ~f.dirty
                 /\ h.pub # Host!NoLine => f.post = "ask" /\ f.sent = h.pub
                 /\ h.pub = Host!NoLine => f.post = "no"
<1> DEFINE n == [h EXCEPT !.inflight = FALSE, !.post = "no"]
<1>1. /\ n \in Host!Session /\ ~n.inflight /\ n.post = "no" /\ n.pub = h.pub
      /\ n.retry = h.retry /\ n.dirty = h.dirty /\ n.unsaid = h.unsaid
  BY DEF Host!Session
<1>2. CASE hosting /\ h.dirty
  <2> HIDE DEF n
  <2>1. f = Host!Flushed(n)
    BY <1>1, <1>2 DEF Host!Finished, n
  <2> QED
    BY <1>1, <1>2, <2>1, FlushedIs
<1>3. CASE ~(hosting /\ h.dirty)
  <2>1. f = n
    BY <1>1, <1>3 DEF Host!Finished
  <2> QED
    BY <1>1, <1>3, <2>1
<1> QED
  BY <1>2, <1>3

LEMMA HostInit ==
    ASSUME MaxLine \in Nat \ {0}, MaxForget \in Nat, Host!Init
    PROVE  HostInv
<1>1. 1 \in Host!Lines /\ Host!NoLine \in Host!Lines \cup {Host!NoLine}
  BY DEF Host!Lines
<1>2. s \in Host!Session /\ s.post = "no" /\ s.pub = Host!NoLine
  BY DEF Host!Init, Host!Session
<1>3. resume \in [Host!Caller -> {"no", "ask", "ok", "lost"}] /\ resume["flush"] = "no"
      /\ resume["beat"] = "no"
  BY DEF Host!Init, Host!Caller
<1>4. HostTypes
  <2>1. forgets \in 0..MaxForget
    BY DEF Host!Init
  <2> QED
    BY <1>1, <2>1 DEF Host!Init, HostTypes
<1>5. InFlight
  BY <1>2, <1>3 DEF InFlight
<1> QED
  BY <1>2, <1>3, <1>4, <1>5, HostTyped
  DEF Host!Init, HostInv, OneAtATime, Follows, ServedLine, SaidIsServed

\* The player, the heartbeat's request and the environment.
LEMMA HostAside ==
    ASSUME MaxLine \in Nat, MaxForget \in Nat, HostInv,
           \/ Host!Move \/ Host!Ready \/ Host!Heartbeat \/ Host!ServeBeat
           \/ Host!LoseBeat \/ Host!LoseEnd \/ Host!CalmDown
    PROVE  HostInv'
<1>1. UNCHANGED <<hosting, s, resume, party, forgets>>
  BY DEF Host!Move, Host!Ready, Host!Heartbeat, Host!ServeBeat, Host!LoseBeat, Host!LoseEnd,
         Host!CalmDown
<1>2. line' \in Host!Lines
  <2>1. CASE Host!Move
    BY <2>1, HostTyped DEF Host!Move, HostInv, HostTypes, Host!Lines
  <2>2. CASE UNCHANGED line
    BY <2>2, HostTyped DEF HostInv, HostTypes
  <2> QED
    BY <2>1, <2>2 DEF Host!Ready, Host!Heartbeat, Host!ServeBeat, Host!LoseBeat, Host!LoseEnd,
                      Host!CalmDown
<1>3. ready' \in BOOLEAN /\ calm' \in BOOLEAN /\ ending' \in BOOLEAN
      /\ beat' \in {"no", "ask"} \cup Host!Answers
  BY HostTyped
  DEF Host!Move, Host!Ready, Host!Heartbeat, Host!ServeBeat, Host!LoseBeat, Host!LoseEnd,
      Host!CalmDown, HostInv, HostTypes, Host!Answers
<1>4. (beat' # "no" => beat # "no" \/ resume["beat"] = "no") /\ (ending' => ending)
  BY DEF Host!Move, Host!Ready, Host!Heartbeat, Host!ServeBeat, Host!LoseBeat, Host!LoseEnd,
         Host!CalmDown
<1>5. OneAtATime'
  BY <1>1, <1>4 DEF HostInv, OneAtATime
<1>6. HostTypes' /\ InFlight'
  BY <1>1, <1>2, <1>3, HostTyped DEF HostInv, HostTypes, InFlight
<1> QED
  BY <1>1, <1>5, <1>6, HostTyped
  DEF HostInv, Host!TypeOK, HostTypes, InFlight, Follows, ServedLine, SaidIsServed, HasHad

\* The party goes: it ends on the page, then on the server, or is forgotten.
LEMMA HostGoes ==
    ASSUME MaxLine \in Nat, MaxForget \in Nat, HostInv,
           Host!EndParty \/ Host!ServeEnd \/ Host!Expire \/ Host!Forget
    PROVE  HostInv'
<1>1. UNCHANGED <<line, ready, s, resume, beat, calm>>
  BY DEF Host!EndParty, Host!ServeEnd, Host!Expire, Host!Forget
<1>2. /\ hosting' => hosting /\ party' = Host!Gone
      /\ ending' => ~hosting'
      /\ party' \in {party, Host!Gone}
  BY DEF Host!EndParty, Host!ServeEnd, Host!Expire, Host!Forget, HostInv, OneAtATime
<1>3. hosting' \in BOOLEAN /\ ending' \in BOOLEAN
  BY HostTyped DEF Host!EndParty, Host!ServeEnd, Host!Expire, Host!Forget, HostInv, HostTypes
<1>4. forgets' \in 0..MaxForget
  <2>1. CASE Host!Forget
    BY <2>1, HostTyped DEF Host!Forget, HostInv, HostTypes
  <2>2. CASE UNCHANGED forgets
    BY <2>2, HostTyped DEF HostInv, HostTypes
  <2> QED
    BY <2>1, <2>2 DEF Host!EndParty, Host!ServeEnd, Host!Expire
<1>5. HostTypes' /\ InFlight'
  BY <1>1, <1>2, <1>3, <1>4, HostTyped DEF HostInv, HostTypes, InFlight
<1>6. OneAtATime' /\ Follows(s)'
  BY <1>1, <1>2 DEF HostInv, OneAtATime, Follows
<1>7. ServedLine' /\ SaidIsServed'
  BY <1>2 DEF ServedLine, SaidIsServed, HasHad
<1> QED
  BY <1>5, <1>6, <1>7, HostTyped DEF HostInv, Host!TypeOK, HostTypes, InFlight

\* What recover() asks and is answered, until its caller has the answer.
LEMMA HostResumes ==
    ASSUME MaxLine \in Nat, HostInv,
           Host!Beaten \/ \E c \in Host!Caller : Host!ServeResume(c) \/ Host!LoseResume(c)
    PROVE  HostInv'
<1>1. UNCHANGED <<line, ready, hosting, s, ending, forgets, calm>>
  BY DEF Host!Beaten, Host!ServeResume, Host!LoseResume
<1>2. HostTypes /\ InFlight /\ OneAtATime /\ ServedLine /\ SaidIsServed /\ Follows(s)
  BY HostTyped DEF HostInv
<1>3. ASSUME NEW party2, party' = party2, party2 \in {Host!Blank, Host!Gone} \cup Host!Lines,
             beat' \in {"no", "ask"} \cup Host!Answers,
             resume' \in [Host!Caller -> {"no", "ask", "ok", "lost"}],
             resume'["flush"] # "no" => s.inflight /\ resume["flush"] # "no",
             beat' # "no" => resume'["beat"] = "no",
             \/ resume'["beat"] \in {"ok", "lost"}
             \/ UNCHANGED party /\ resume["beat"] \notin {"ok", "lost"}
             \/ resume["flush"] # "no" /\ resume'["beat"] = resume["beat"]
      PROVE  HostInv'
  <2>1. HostTypes' /\ InFlight'
    BY <1>1, <1>2, <1>3 DEF HostTypes, InFlight
  <2>2. OneAtATime'
    BY <1>1, <1>2, <1>3 DEF OneAtATime
  <2>3. ServedLine' /\ SaidIsServed'
    BY <1>1, <1>2, <1>3 DEF ServedLine, SaidIsServed, HasHad, OneAtATime, InFlight
  <2>4. Follows(s)'
    BY <1>1, <1>2 DEF Follows
  <2> QED
    BY <2>1, <2>2, <2>3, <2>4, HostTyped DEF HostInv, Host!TypeOK, HostTypes, InFlight
<1>4. CASE Host!Beaten
  <2>1. beat' = "no" /\ resume["beat"] = "no" /\ UNCHANGED party
    BY <1>2, <1>4 DEF Host!Beaten, OneAtATime, Host!Answers
  <2>2. /\ resume' \in [Host!Caller -> {"no", "ask", "ok", "lost"}]
        /\ resume'["flush"] = resume["flush"]
    BY <1>2, <1>4 DEF Host!Beaten, InFlight, Host!Caller
  <2> QED
    BY <1>2, <1>3, <2>1, <2>2 DEF HostTypes, InFlight
<1>5. ASSUME NEW c \in Host!Caller, NEW a \in {"ok", "lost"}, resume[c] \in {"ask", "ok"},
             resume' = [resume EXCEPT ![c] = a], UNCHANGED beat,
             party' \in {party, Host!Blank}, party' = party \/ a = "ok"
      PROVE  HostInv'
  <2>1. resume' \in [Host!Caller -> {"no", "ask", "ok", "lost"}]
    BY <1>2, <1>5 DEF InFlight
  <2>2. party' \in {Host!Blank, Host!Gone} \cup Host!Lines
        /\ beat' \in {"no", "ask"} \cup Host!Answers
    BY <1>2, <1>5 DEF HostTypes
  <2>3. CASE c = "flush"
    <3>1. resume'["beat"] = resume["beat"] /\ resume["flush"] # "no"
      BY <1>2, <1>5, <2>3 DEF InFlight, Host!Caller
    <3> QED
      BY <1>2, <1>3, <1>5, <2>1, <2>2, <3>1 DEF OneAtATime, InFlight
  <2>4. CASE c = "beat"
    <3>1. resume'["flush"] = resume["flush"] /\ resume'["beat"] = a /\ beat = "no"
      BY <1>2, <1>5, <2>4 DEF InFlight, Host!Caller, OneAtATime
    <3> QED
      BY <1>2, <1>3, <1>5, <2>1, <2>2, <3>1 DEF InFlight
  <2> QED
    BY <2>3, <2>4 DEF Host!Caller
<1>6. ASSUME NEW c \in Host!Caller, Host!ServeResume(c)
      PROVE  HostInv'
  BY <1>5, <1>6 DEF Host!ServeResume
<1>7. ASSUME NEW c \in Host!Caller, Host!LoseResume(c)
      PROVE  HostInv'
  BY <1>5, <1>7 DEF Host!LoseResume
<1> QED
  BY <1>4, <1>6, <1>7

\* The answer to a publish on its way to the page.
LEMMA HostServes ==
    ASSUME MaxLine \in Nat, HostInv, Host!ServePublish \/ Host!LosePublish
    PROVE  HostInv'
<1>1. UNCHANGED <<line, ready, hosting, resume, beat, ending, forgets, calm>>
  BY DEF Host!ServePublish, Host!LosePublish
<1>2. HostTypes /\ InFlight /\ OneAtATime /\ ServedLine /\ SaidIsServed /\ Follows(s)
  BY HostTyped DEF HostInv
<1>3. PICK a \in Host!Answers : /\ s' = [s EXCEPT !.post = a]
                               /\ party' \in {party, s.sent} /\ (a = "ok" => party' = s.sent)
  <2>1. CASE Host!LosePublish
    BY <2>1 DEF Host!LosePublish, Host!Answers
  <2>2. CASE Host!ServePublish /\ party = Host!Gone
    BY <2>2 DEF Host!ServePublish, Host!Answers
  <2>3. CASE Host!ServePublish /\ party # Host!Gone
    BY <2>3 DEF Host!ServePublish, Host!Answers
  <2> QED
    BY <2>1, <2>2, <2>3
<1>4. /\ s' \in Host!Session /\ s'.post = a /\ s.post # "no" /\ a # "no" /\ s.inflight
      /\ s'.pub = s.pub /\ s'.sent = s.sent /\ s'.inflight = s.inflight /\ s'.dirty = s.dirty
      /\ s'.retry = s.retry /\ s'.unsaid = s.unsaid /\ s.sent \in {Host!Blank} \cup Host!Lines
  BY <1>2, <1>3 DEF InFlight, Host!Session, Host!Answers, Host!ServePublish, Host!LosePublish
<1>5. HostTypes' /\ InFlight'
  BY <1>1, <1>2, <1>3, <1>4 DEF HostTypes, InFlight
<1>6. OneAtATime' /\ Follows(s)'
  BY <1>1, <1>2, <1>4 DEF OneAtATime, Follows
<1>7. ServedLine' /\ SaidIsServed'
  BY <1>1, <1>3, <1>4 DEF ServedLine, SaidIsServed, HasHad
<1> QED
  BY <1>5, <1>6, <1>7, HostTyped DEF HostInv, Host!TypeOK, HostTypes, InFlight

\* What the session must be like after a continuation of the page.
LEMMA HostPage ==
    ASSUME HostInv,
           UNCHANGED <<line, ready, hosting, beat, ending, party, forgets, calm>>,
           s' \in Host!Session, resume' \in [Host!Caller -> {"no", "ask", "ok", "lost"}],
           s'.post # "no" => s'.inflight /\ resume'["flush"] = "no",
           resume'["flush"] # "no" => s'.inflight,
           resume'["beat"] \in {resume["beat"], "no"},
           Follows(s'), ServedLine', SaidIsServed'
    PROVE  HostInv'
<1>1. HostTypes' /\ InFlight' /\ OneAtATime'
  BY HostTyped DEF HostInv, HostTypes, InFlight, OneAtATime
<1> QED
  BY <1>1, HostTyped DEF HostInv, Host!TypeOK, HostTypes, InFlight, Follows

LEMMA HostMeasures ==
    ASSUME MaxLine \in Nat, HostInv, Host!Measure
    PROVE  HostInv'
<1>1. HostTypes /\ InFlight /\ OneAtATime /\ ServedLine /\ SaidIsServed /\ Follows(s)
  BY HostTyped DEF HostInv
<1>2. UNCHANGED <<line, ready, hosting, resume, beat, ending, party, forgets, calm>>
      /\ s' = Host!Measured(s) /\ s' # s
  BY DEF Host!Measure
<1>3. /\ s' \in Host!Session /\ s'.pub = line /\ s'.inflight
      /\ \/ s.inflight /\ s'.dirty /\ s'.post = s.post /\ s'.sent = s.sent
         \/ ~s.inflight /\ s'.post = "ask" /\ s'.sent = line
  <2>1. s \in Host!Session /\ line \in Host!Lines
    BY <1>1 DEF InFlight, HostTypes
  <2> QED
    BY <1>2, <2>1, MeasuredIs
<1>4. Follows(s')
  BY <1>3 DEF Follows
<1>5. ServedLine' /\ SaidIsServed'
  BY <1>3 DEF ServedLine, SaidIsServed
<1>6. s'.post # "no" => s'.inflight /\ resume'["flush"] = "no"
  BY <1>1, <1>2, <1>3 DEF InFlight, OneAtATime
<1> QED
  BY <1>1, <1>2, <1>3, <1>4, <1>5, <1>6, HostPage DEF InFlight

\* flush() ends, with its publish answered or its recover(): what is at rest then
\* was said, or will be said again, or cannot be known.
LEMMA HostFinishes ==
    ASSUME MaxLine \in Nat, HostInv, NEW h \in Host!Session, s' = Host!Finished(h),
           UNCHANGED <<line, ready, hosting, beat, ending, party, forgets, calm>>,
           resume' \in [Host!Caller -> {"no", "ask", "ok", "lost"}],
           resume'["flush"] = "no", resume'["beat"] = resume["beat"],
           hosting /\ ~h.dirty /\ ~h.retry /\ ~h.unsaid /\ h.pub # Host!NoLine => HasHad(h.pub)
    PROVE  HostInv'
<1>1. /\ s' \in Host!Session /\ s'.pub = h.pub /\ s'.retry = h.retry
      /\ \/ /\ ~s'.inflight /\ s'.post = "no" /\ s'.unsaid = h.unsaid
            /\ hosting => ~h.dirty
         \/ /\ hosting /\ h.dirty /\ s'.inflight /\ ~s'.dirty
            /\ h.pub # Host!NoLine => s'.post = "ask" /\ s'.sent = h.pub
            /\ h.pub = Host!NoLine => s'.post = "no"
  BY FinishedIs
<1>2. Follows(s')
  BY <1>1 DEF Follows
<1>3. ServedLine' /\ SaidIsServed'
  BY <1>1 DEF ServedLine, SaidIsServed, HasHad
<1>4. s'.post # "no" => s'.inflight
  BY <1>1
<1> QED
  BY <1>1, <1>2, <1>3, <1>4, HostPage

LEMMA HostPublished ==
    ASSUME MaxLine \in Nat, HostInv, Host!Published
    PROVE  HostInv'
<1>1. HostTypes /\ InFlight /\ OneAtATime /\ ServedLine /\ SaidIsServed /\ Follows(s)
  BY HostTyped DEF HostInv
<1>2. UNCHANGED <<line, ready, hosting, beat, ending, party, forgets, calm>>
      /\ s.post \in Host!Answers
  BY DEF Host!Published
<1>3. s.inflight /\ resume["flush"] = "no" /\ s \in Host!Session
      /\ resume \in [Host!Caller -> {"no", "ask", "ok", "lost"}]
  BY <1>1, <1>2 DEF InFlight, OneAtATime, Host!Answers
<1>4. CASE s.post = "gone" /\ hosting
  <2>1. resume' = [resume EXCEPT !["flush"] = "ask"] /\ s' = [s EXCEPT !.post = "no"]
    BY <1>4 DEF Host!Published
  <2>2. /\ s' \in Host!Session /\ s'.post = "no" /\ s'.inflight
    BY <1>3, <2>1 DEF Host!Session
  <2>3. resume' \in [Host!Caller -> {"no", "ask", "ok", "lost"}] /\ resume'["beat"] = resume["beat"]
    BY <1>3, <2>1 DEF Host!Caller
  <2>4. Follows(s') /\ ServedLine' /\ SaidIsServed'
    BY <2>2 DEF Follows, ServedLine, SaidIsServed
  <2> QED
    BY <1>2, <2>2, <2>3, <2>4, HostPage
<1>5. CASE ~(s.post = "gone" /\ hosting)
  <2> DEFINE h == [s EXCEPT !.retry = @ \/ (s.post = "lost" /\ hosting)]
  <2>1. s' = Host!Finished(h) /\ UNCHANGED resume
    BY <1>5 DEF Host!Published
  <2>2. s.retry \in BOOLEAN
    BY <1>3 DEF Host!Session
  <2>3. /\ h \in Host!Session /\ h.pub = s.pub /\ h.dirty = s.dirty /\ h.unsaid = s.unsaid
        /\ s.post = "lost" /\ hosting => h.retry
    <3>1. (s.retry \/ (s.post = "lost" /\ hosting)) \in BOOLEAN
      OBVIOUS
    <3> QED
      BY <1>3, <3>1 DEF Host!Session
  <2> HIDE DEF h
  <2>4. hosting /\ ~h.dirty /\ ~h.retry /\ ~h.unsaid /\ h.pub # Host!NoLine => HasHad(h.pub)
    <3> SUFFICES ASSUME hosting, ~s.dirty, ~h.retry, ~s.unsaid, s.pub # Host!NoLine
                 PROVE  HasHad(s.pub)
      BY <2>3
    <3>1. s.post = "ok"
      BY <1>2, <1>5, <2>3 DEF Host!Answers
    <3>2. s.sent = s.pub
      BY <1>1, <3>1 DEF Follows
    <3> QED
      BY <1>1, <3>1, <3>2 DEF ServedLine
  <2> QED
    BY <1>2, <1>3, <2>1, <2>3, <2>4, HostFinishes
<1> QED
  BY <1>4, <1>5

\* recover() has its answer: the page looks at once, from nothing, or cannot
\* know.
WakesWith(c, n) ==
    /\ s' = IF c = "flush" THEN Host!Finished(n) ELSE n
    /\ \/ /\ n.pub = Host!NoLine /\ n.inflight = s.inflight
          /\ n.post = s.post /\ n.sent = s.sent
       \/ /\ hosting /\ n.pub = line /\ n.inflight
          /\ \/ s.inflight /\ n.dirty /\ n.post = s.post /\ n.sent = s.sent
             \/ ~s.inflight /\ n.post = "ask" /\ n.sent = line
       \/ /\ n.unsaid /\ n.pub = s.pub /\ n.inflight = s.inflight /\ n.dirty = s.dirty
          /\ n.post = s.post /\ n.sent = s.sent

LEMMA RecoveredIs ==
    ASSUME MaxLine \in Nat, HostInv, NEW c \in Host!Caller, Host!Recovered(c)
    PROVE  \E n \in Host!Session : WakesWith(c, n)
<1>1. s \in Host!Session /\ line \in Host!Lines
  BY HostTyped DEF HostInv, InFlight, HostTypes
<1> DEFINE blank == [s EXCEPT !.pub = Host!NoLine]
           seen == IF hosting THEN Host!Measured(blank) ELSE blank
           n == IF resume[c] = "ok" THEN seen ELSE [s EXCEPT !.unsaid = TRUE]
<1>2. s' = IF c = "flush" THEN Host!Finished(n) ELSE n
  BY DEF Host!Recovered
<1>3. /\ blank \in Host!Session /\ blank.pub = Host!NoLine /\ blank.inflight = s.inflight
      /\ blank.post = s.post /\ blank.sent = s.sent
  BY <1>1 DEF Host!Session
<1> HIDE DEF blank
<1>4. CASE resume[c] = "ok" /\ hosting
  <2>1. n = Host!Measured(blank)
    BY <1>4
  <2> HIDE DEF n
  <2>2. n \in Host!Session
    BY <1>1, <1>3, <2>1, MeasuredIs
  <2>3. \/ n = blank
        \/ /\ n.pub = line /\ n.inflight
           /\ \/ blank.inflight /\ n.dirty /\ n.post = blank.post /\ n.sent = blank.sent
              \/ ~blank.inflight /\ n.post = "ask" /\ n.sent = line
    BY <1>1, <1>3, <2>1, MeasuredIs
  <2>4. CASE n = blank
    BY <1>2, <1>3, <2>2, <2>4 DEF WakesWith
  <2>5. CASE n # blank
    BY <1>2, <1>3, <1>4, <2>2, <2>3, <2>5 DEF WakesWith
  <2> QED
    BY <2>4, <2>5
<1>5. CASE resume[c] = "ok" /\ ~hosting
  <2>1. n = blank
    BY <1>5
  <2> HIDE DEF n
  <2> QED
    BY <1>2, <1>3, <2>1 DEF WakesWith
<1>6. CASE resume[c] # "ok"
  <2>1. n = [s EXCEPT !.unsaid = TRUE]
    BY <1>6
  <2> HIDE DEF n
  <2>2. /\ n \in Host!Session /\ n.unsaid /\ n.pub = s.pub /\ n.inflight = s.inflight
        /\ n.dirty = s.dirty /\ n.post = s.post /\ n.sent = s.sent
    BY <1>1, <2>1 DEF Host!Session
  <2> QED
    BY <1>2, <2>2 DEF WakesWith
<1> QED
  BY <1>4, <1>5, <1>6

LEMMA HostRecovered ==
    ASSUME MaxLine \in Nat, HostInv, NEW c \in Host!Caller, Host!Recovered(c)
    PROVE  HostInv'
<1>1. HostTypes /\ InFlight /\ OneAtATime /\ ServedLine /\ SaidIsServed /\ Follows(s)
  BY HostTyped DEF HostInv
<1>2. resume \in [Host!Caller -> {"no", "ask", "ok", "lost"}] /\ resume[c] # "no"
  BY <1>1 DEF InFlight, Host!Recovered
<1>3. UNCHANGED <<line, ready, hosting, beat, ending, party, forgets, calm>>
      /\ resume' = [resume EXCEPT ![c] = "no"]
  BY DEF Host!Recovered
<1>4. resume' \in [Host!Caller -> {"no", "ask", "ok", "lost"}]
  BY <1>2, <1>3
<1>5. PICK n \in Host!Session : WakesWith(c, n)
  BY RecoveredIs
<1>6. CASE c = "flush"
  <2>1. s.inflight /\ s.post = "no"
    BY <1>1, <1>2, <1>6 DEF InFlight, OneAtATime
  <2>2. resume'["flush"] = "no" /\ resume'["beat"] = resume["beat"]
    BY <1>2, <1>3, <1>6 DEF Host!Caller
  <2>3. ~n.dirty /\ ~n.unsaid => n.pub = Host!NoLine
    BY <1>5, <2>1 DEF WakesWith
  <2> QED
    BY <1>3, <1>4, <1>5, <1>6, <2>2, <2>3, HostFinishes DEF WakesWith
<1>7. CASE c = "beat"
  <2>1. s' = n
    BY <1>5, <1>7 DEF WakesWith
  <2>2. resume'["beat"] = "no" /\ resume'["flush"] = resume["flush"]
    BY <1>2, <1>3, <1>7 DEF Host!Caller
  <2>3. s'.post # "no" => s'.inflight /\ resume'["flush"] = "no"
    BY <1>1, <1>5, <2>1, <2>2 DEF InFlight, OneAtATime, WakesWith
  <2>4. resume'["flush"] # "no" => s'.inflight
    BY <1>1, <1>5, <2>1, <2>2 DEF InFlight, WakesWith
  <2>5. Follows(s')
    BY <1>1, <1>5, <2>1 DEF Follows, WakesWith
  <2>6. ServedLine' /\ SaidIsServed'
    BY <1>5, <2>1 DEF ServedLine, SaidIsServed, WakesWith
  <2> QED
    BY <1>3, <1>4, <1>5, <2>1, <2>2, <2>3, <2>4, <2>5, <2>6, HostPage
<1> QED
  BY <1>6, <1>7 DEF Host!Caller

LEMMA HostStep ==
    ASSUME MaxLine \in Nat, MaxForget \in Nat, HostInv, [Host!Next]_ofHost
    PROVE  HostInv'
<1>1. CASE UNCHANGED ofHost
  <2>1. UNCHANGED <<line, ready, hosting, s, resume, beat, ending, party, forgets, calm>>
    BY <1>1 DEF ofHost
  <2> QED
    BY <2>1 DEF HostInv, Host!TypeOK, OneAtATime, Follows, ServedLine, SaidIsServed, HasHad
<1> QED
  BY <1>1, HostAside, HostGoes, HostResumes, HostServes, HostMeasures, HostPublished,
     HostRecovered
  DEF Host!Next

\* Between the awaits of flush(), heartbeat() and recover(), whatever is lost or
\* forgotten: at most one request of flush() and one of the heartbeat is out, and
\* with none out, none to try again and no recovery failed, the server has had
\* the line the page takes for said (host.js, party_publish, party_create).
THEOREM SaidLineIsServed ==
    ASSUME MaxLine \in Nat \ {0}, MaxForget \in Nat
    PROVE  Host!Init /\ [][Host!Next]_ofHost => [](Host!TypeOK /\ OneAtATime /\ SaidIsServed)
<1>1. Host!Init => HostInv
  BY HostInit
<1>2. HostInv /\ [Host!Next]_ofHost => HostInv'
  BY HostStep
<1>3. HostInv => Host!TypeOK /\ OneAtATime /\ SaidIsServed
  BY DEF HostInv
<1> QED
  BY <1>1, <1>2, <1>3, PTL

\* A host that is not calm any more than this: what can still happen to it.
LEMMA HostCalm ==
    ASSUME calm, [Host!Next]_ofHost
    PROVE  /\ UNCHANGED <<line, hosting, calm>>
           /\ \/ /\ UNCHANGED <<s, resume, party>>
                 /\ UNCHANGED beat \/ Host!Heartbeat \/ Host!ServeBeat
              \/ Host!Measure \/ Host!Published \/ Host!Beaten \/ Host!ServePublish
              \/ Host!ServeEnd \/ Host!Expire
              \/ \E c \in Host!Caller : Host!Recovered(c) \/ Host!ServeResume(c)
<1>1. CASE UNCHANGED ofHost
  BY <1>1 DEF ofHost
<1>2. ~Host!Move /\ ~Host!EndParty /\ ~Host!Forget /\ ~Host!LosePublish /\ ~Host!LoseBeat
      /\ ~Host!LoseEnd /\ ~Host!CalmDown /\ \A c \in Host!Caller : ~Host!LoseResume(c)
  BY DEF Host!Move, Host!EndParty, Host!Forget, Host!LosePublish, Host!LoseBeat, Host!LoseEnd,
         Host!CalmDown, Host!LoseResume
<1>3. CASE Host!Ready \/ Host!Heartbeat \/ Host!ServeBeat
  BY <1>3 DEF Host!Ready, Host!Heartbeat, Host!ServeBeat
<1>4. CASE \/ Host!Measure \/ Host!Published \/ Host!Beaten \/ Host!ServePublish
           \/ Host!ServeEnd \/ Host!Expire
  BY <1>4 DEF Host!Measure, Host!Published, Host!Beaten, Host!ServePublish, Host!ServeEnd,
              Host!Expire
<1>5. CASE \E c \in Host!Caller : Host!Recovered(c) \/ Host!ServeResume(c)
  BY <1>5 DEF Host!Recovered, Host!ServeResume
<1> QED
  BY <1>1, <1>2, <1>3, <1>4, <1>5 DEF Host!Next

\* The party that holds the line goes on holding it.
LEMMA ToldStep ==
    ASSUME MaxLine \in Nat, HostInv, calm, hosting, Host!Told, [Host!Next]_ofHost
    PROVE  Host!Told'
<1>1. HostTypes /\ InFlight /\ OneAtATime
  BY HostTyped DEF HostInv
<1>2. /\ line \in Host!Lines /\ line # Host!NoLine /\ line # Host!Gone /\ s \in Host!Session
      /\ party = line /\ s.pub \in {line, Host!NoLine} /\ (s.post = "ask" => s.sent = line)
  BY <1>1, LinesApart DEF HostTypes, InFlight, Host!Told
<1>3. line' = line
  BY HostCalm
<1>4. ASSUME party' = line, s'.pub \in {line, Host!NoLine}, s'.post = "ask" => s'.sent = line
      PROVE  Host!Told'
  BY <1>3, <1>4 DEF Host!Told
<1>5. CASE UNCHANGED <<s, party>>
  BY <1>2, <1>4, <1>5
<1>6. CASE Host!Measure
  <2>1. party' = party /\ s' = Host!Measured(s) /\ s' # s
    BY <1>6 DEF Host!Measure
  <2>2. /\ s'.pub = line
        /\ \/ s'.post = s.post /\ s'.sent = s.sent
           \/ s'.sent = line
    BY <1>2, <2>1, MeasuredIs
  <2> QED
    BY <1>2, <1>4, <2>1, <2>2
<1>7. ASSUME NEW h \in Host!Session, h.pub \in {line, Host!NoLine}, s' = Host!Finished(h),
             party' = party
      PROVE  Host!Told'
  <2>1. /\ s'.pub = h.pub
        /\ \/ s'.post = "no"
           \/ /\ h.pub # Host!NoLine => s'.sent = h.pub
              /\ h.pub = Host!NoLine => s'.post = "no"
    BY <1>7, FinishedIs
  <2> QED
    BY <1>2, <1>4, <1>7, <2>1
<1>8. CASE Host!Published
  <2>1. party' = party
    BY <1>8 DEF Host!Published
  <2>2. CASE s' = [s EXCEPT !.post = "no"]
    <3>1. s'.post = "no" /\ s'.pub = s.pub
      BY <1>2, <2>2 DEF Host!Session
    <3> QED
      BY <1>2, <1>4, <2>1, <3>1
  <2>3. CASE s' = Host!Finished([s EXCEPT !.retry = @ \/ (s.post = "lost" /\ hosting)])
    <3> DEFINE h == [s EXCEPT !.retry = @ \/ (s.post = "lost" /\ hosting)]
    <3>1. s.retry \in BOOLEAN /\ (s.retry \/ (s.post = "lost" /\ hosting)) \in BOOLEAN
      BY <1>2 DEF Host!Session
    <3>2. h \in Host!Session /\ h.pub = s.pub
      BY <1>2, <3>1 DEF Host!Session
    <3> HIDE DEF h
    <3>3. s' = Host!Finished(h)
      BY <2>3 DEF h
    <3> QED
      BY <1>2, <1>7, <2>1, <3>2, <3>3
  <2> QED
    BY <1>8, <2>2, <2>3 DEF Host!Published
<1>9. ASSUME NEW c \in Host!Caller, Host!Recovered(c)
      PROVE  Host!Told'
  <2>1. party' = party
    BY <1>9 DEF Host!Recovered
  <2>2. PICK n \in Host!Session :
          /\ s' = IF c = "flush" THEN Host!Finished(n) ELSE n
          /\ \/ n.pub = Host!NoLine /\ n.post = s.post /\ n.sent = s.sent
             \/ n.pub = line /\ n.post = s.post /\ n.sent = s.sent
             \/ n.pub = line /\ n.sent = line
             \/ n.pub = s.pub /\ n.post = s.post /\ n.sent = s.sent
    <3>1. PICK n \in Host!Session : WakesWith(c, n)
      BY <1>9, RecoveredIs
    <3> QED
      BY <3>1 DEF WakesWith
  <2>3. n.pub \in {line, Host!NoLine} /\ (n.post = "ask" => n.sent = line)
    BY <1>2, <2>2
  <2> QED
    BY <1>2, <1>4, <1>7, <2>1, <2>2, <2>3
<1>10. ASSUME NEW c \in Host!Caller, Host!ServeResume(c)
       PROVE  Host!Told'
  BY <1>2, <1>4, <1>10 DEF Host!ServeResume
<1>11. CASE Host!ServePublish
  <2>1. s.post = "ask" /\ party' = line
    BY <1>2, <1>11 DEF Host!ServePublish
  <2>2. PICK a \in {"gone", "ok"} : s' = [s EXCEPT !.post = a]
    BY <1>11 DEF Host!ServePublish
  <2>3. s'.pub = s.pub /\ s'.sent = s.sent
    BY <1>2, <2>2 DEF Host!Session
  <2> QED
    BY <1>2, <1>4, <2>1, <2>3
<1>12. CASE Host!Beaten
  BY <1>2, <1>4, <1>12 DEF Host!Beaten
<1>13. ~Host!ServeEnd /\ ~Host!Expire
  BY <1>1 DEF Host!ServeEnd, Host!Expire, OneAtATime
<1> QED
  BY <1>5, <1>6, <1>8, <1>9, <1>10, <1>11, <1>12, <1>13, HostCalm

\* A flush() that has died stays dead.
LEMMA FrozenStep ==
    ASSUME MaxLine \in Nat, HostInv, calm, hosting, Host!Frozen, [Host!Next]_ofHost
    PROVE  Host!Frozen'
<1>1. HostTypes /\ InFlight /\ OneAtATime
  BY HostTyped DEF HostInv
<1>2. /\ line \in Host!Lines /\ s \in Host!Session
      /\ resume \in [Host!Caller -> {"no", "ask", "ok", "lost"}]
      /\ s.inflight /\ s.post = "no" /\ resume["flush"] = "no"
  BY <1>1 DEF HostTypes, InFlight, Host!Frozen
<1>3. CASE UNCHANGED <<s, resume>>
  BY <1>2, <1>3 DEF Host!Frozen
<1>4. CASE Host!Measure
  <2>1. s' = Host!Measured(s) /\ UNCHANGED resume
    BY <1>4 DEF Host!Measure
  <2>2. s' = s \/ (s'.inflight /\ s'.post = s.post)
    BY <1>2, <2>1, MeasuredIs
  <2> QED
    BY <1>2, <2>1, <2>2 DEF Host!Frozen
<1>5. ~Host!Published /\ ~Host!ServePublish
  BY <1>2 DEF Host!Published, Host!ServePublish, Host!Answers
<1>6. CASE Host!Beaten
  BY <1>2, <1>6 DEF Host!Beaten, Host!Caller, Host!Frozen
<1>7. ASSUME NEW c \in Host!Caller, Host!Recovered(c)
      PROVE  Host!Frozen'
  <2>1. c = "beat"
    BY <1>2, <1>7 DEF Host!Recovered, Host!Caller
  <2>2. PICK n \in Host!Session : WakesWith(c, n)
    BY <1>7, RecoveredIs
  <2>3. s'.inflight /\ s'.post = "no"
    BY <1>2, <2>1, <2>2 DEF WakesWith
  <2>4. resume'["flush"] = "no"
    BY <1>2, <1>7, <2>1 DEF Host!Recovered, Host!Caller
  <2> QED
    BY <2>3, <2>4 DEF Host!Frozen
<1>8. ASSUME NEW c \in Host!Caller, Host!ServeResume(c)
      PROVE  Host!Frozen'
  <2>1. c = "beat" /\ s' = s
    BY <1>2, <1>8 DEF Host!ServeResume, Host!Caller
  <2>2. resume'["flush"] = "no"
    BY <1>2, <1>8, <2>1 DEF Host!ServeResume, Host!Caller
  <2> QED
    BY <1>2, <2>1, <2>2 DEF Host!Frozen
<1>9. ~Host!ServeEnd /\ ~Host!Expire
  BY <1>1 DEF Host!ServeEnd, Host!Expire, OneAtATime
<1> QED
  BY <1>3, <1>4, <1>5, <1>6, <1>7, <1>8, <1>9, HostCalm

\* ... and a line that is taken for said, and is not, stays unsaid.
LEMMA SilentStep ==
    ASSUME MaxLine \in Nat, HostInv, calm, hosting, Host!Silent, [Host!Next]_ofHost
    PROVE  Host!Silent'
<1>1. HostTypes /\ InFlight /\ OneAtATime
  BY HostTyped DEF HostInv
<1>2. /\ s.pub = line /\ ~s.inflight /\ ~s.retry /\ party # Host!Gone /\ beat # "gone"
      /\ s.post = "no" /\ \A c \in Host!Caller : resume[c] = "no"
  BY <1>1 DEF InFlight, Host!Silent
<1>3. line' = line
  BY HostCalm
<1>4. ASSUME UNCHANGED <<s, resume, party>>, beat' # "gone"
      PROVE  Host!Silent'
  BY <1>3, <1>4 DEF Host!Silent
<1>5. CASE UNCHANGED <<s, resume, party>> /\ (UNCHANGED beat \/ Host!Heartbeat \/ Host!ServeBeat)
  BY <1>2, <1>4, <1>5 DEF Host!Heartbeat, Host!ServeBeat
<1>6. CASE Host!Beaten
  BY <1>2, <1>4, <1>6 DEF Host!Beaten
<1>7. ~Host!Measure
  BY <1>2 DEF Host!Measure, Host!Measured
<1>8. ~Host!Published /\ ~Host!ServePublish
  BY <1>2 DEF Host!Published, Host!ServePublish, Host!Answers
<1>9. \A c \in Host!Caller : ~Host!Recovered(c) /\ ~Host!ServeResume(c)
  BY <1>2 DEF Host!Recovered, Host!ServeResume
<1>10. ~Host!ServeEnd /\ ~Host!Expire
  BY <1>1 DEF Host!ServeEnd, Host!Expire, OneAtATime
<1> QED
  BY <1>5, <1>6, <1>7, <1>8, <1>9, <1>10, HostCalm

\* A party that its host has ended does not come back.
LEMMA OverStays ==
    ASSUME MaxLine \in Nat, HostInv, calm, ~hosting, Host!Over, [Host!Next]_ofHost
    PROVE  Host!Over'
<1>1. HostTypes /\ InFlight /\ OneAtATime
  BY HostTyped DEF HostInv
<1>2. /\ party = Host!Gone /\ s.post # "ask" /\ beat \notin {"ask", "gone"}
      /\ s \in Host!Session /\ resume \in [Host!Caller -> {"no", "ask", "ok", "lost"}]
      /\ \A c \in Host!Caller : resume[c] # "ask"
  BY <1>1 DEF InFlight, Host!Over
<1>3. CASE UNCHANGED <<s, resume, party>> /\ (UNCHANGED beat \/ Host!Heartbeat \/ Host!ServeBeat)
  BY <1>2, <1>3 DEF Host!Heartbeat, Host!ServeBeat, Host!Over
<1>4. CASE Host!Beaten
  BY <1>2, <1>4 DEF Host!Beaten, Host!Over
<1>5. ~Host!Measure
  BY DEF Host!Measure
<1>6. ~Host!ServePublish /\ \A c \in Host!Caller : ~Host!ServeResume(c)
  BY <1>2 DEF Host!ServePublish, Host!ServeResume
<1>7. ASSUME NEW h \in Host!Session, s' = Host!Finished(h)
      PROVE  s'.post # "ask"
  BY <1>7, FinishedIs
<1>8. CASE Host!Published
  <2>1. UNCHANGED <<party, beat, resume>>
    BY <1>8 DEF Host!Published
  <2> DEFINE h == [s EXCEPT !.retry = @ \/ (s.post = "lost" /\ hosting)]
  <2>2. s.retry \in BOOLEAN /\ (s.retry \/ (s.post = "lost" /\ hosting)) \in BOOLEAN
    BY <1>2 DEF Host!Session
  <2>3. h \in Host!Session
    BY <1>2, <2>2 DEF Host!Session
  <2>4. s' = Host!Finished(h)
    BY <1>8 DEF Host!Published
  <2> HIDE DEF h
  <2>5. s'.post # "ask"
    BY <1>7, <2>3, <2>4
  <2> QED
    BY <1>2, <2>1, <2>5 DEF Host!Over
<1>9. ASSUME NEW c \in Host!Caller, Host!Recovered(c)
      PROVE  Host!Over'
  <2>1. UNCHANGED <<party, beat>> /\ resume' = [resume EXCEPT ![c] = "no"]
    BY <1>9 DEF Host!Recovered
  <2>2. \A d \in Host!Caller : resume'[d] # "ask"
    BY <1>2, <2>1
  <2>3. PICK n \in Host!Session : WakesWith(c, n)
    BY <1>9, RecoveredIs
  <2>4. s'.post # "ask"
    BY <1>2, <1>7, <2>3 DEF WakesWith
  <2> QED
    BY <1>2, <2>1, <2>2, <2>4 DEF Host!Over
<1>10. CASE Host!ServeEnd \/ Host!Expire
  BY <1>2, <1>10 DEF Host!ServeEnd, Host!Expire, Host!Over
<1> QED
  BY <1>3, <1>4, <1>5, <1>6, <1>8, <1>9, <1>10, HostCalm

\* What makes GuestsFollow last: once the network is calm, a party that holds its
\* host's line with no older one on its way goes on holding it, one that was
\* ended stays gone; and, the other way, a page that has gone silent is never
\* woken by its own timers and answers (flush, heartbeat, recover, measure).
THEOREM FollowedForGood ==
    ASSUME MaxLine \in Nat \ {0}, MaxForget \in Nat
    PROVE  Host!Init /\ [][Host!Next]_ofHost => [](Host!Followed => []Host!Followed)
<1>1. HostInv /\ Host!Followed /\ [Host!Next]_ofHost => Host!Followed'
  <2> SUFFICES ASSUME HostInv, Host!Followed, [Host!Next]_ofHost
               PROVE  Host!Followed'
    OBVIOUS
  <2>1. calm /\ calm' /\ hosting' = hosting
    BY HostCalm DEF Host!Followed
  <2>2. CASE hosting
    BY <2>1, <2>2, ToldStep, FrozenStep, SilentStep DEF Host!Followed
  <2>3. CASE ~hosting
    BY <2>1, <2>3, OverStays DEF Host!Followed
  <2> QED
    BY <2>2, <2>3
<1>2. Host!Init => HostInv
  BY HostInit
<1>3. HostInv /\ [Host!Next]_ofHost => HostInv'
  BY HostStep
<1> QED
  BY <1>1, <1>2, <1>3, PTL

-----------------------------------------------------------------------------
(* The run.                                                                 *)

\* Type correctness of the five parts together, for every bound: the host of a
\* listen party and its guest (host.js, guest.js, party.py), the links of the
\* remote control, the verdict on a track, the enrichment queue.
THEOREM AllTyped ==
    ASSUME MaxLine \in Nat \ {0}, MaxForget \in Nat, MaxSeat \in Nat, SeatLines \in Nat,
           Poll # {}, NoLink \notin Link, MaxTurn \in Nat, Cap \in Nat \ {0}
    PROVE  MendsSpec => []MendsTypeOK
<1>1. Host!Init /\ [][Host!Next]_ofHost => []Host!TypeOK
  BY SaidLineIsServed, PTL
<1>2. Seat!Init /\ [][Seat!Next]_ofSeat => []Seat!TypeOK
  BY GuestHolds, PTL
<1>3. Init /\ [][Next]_ofLinks => []TypeOK
  <2>1. LinksInv => TypeOK
    BY DEF LinksInv
  <2> QED
    BY <2>1, LinksInvariant, PTL DEF ofLinks
<1>4. Rights!Init /\ [][Rights!Next]_ofRights => []Rights!TypeOK
  BY RightsInvariant
<1>5. Enrich!Init /\ [][Enrich!Next]_ofEnrich => []Enrich!TypeOK
  BY FullQueueIsTaken, PTL
<1> QED
  BY <1>1, <1>2, <1>3, <1>4, <1>5, PartsRun, PTL DEF MendsTypeOK

\* In the run as well, a browser is the owner exactly while it holds a link
\* (remote_claim, _end_remote_session).
THEOREM OwnerByLinkInRun ==
    ASSUME NoLink \notin Link
    PROVE  MendsSpec => []OwnerOnlyByLink
<1>1. LinksInv => OwnerOnlyByLink
  BY DEF LinksInv
<1> QED
  BY <1>1, LinksInvariant, PartsRun, PTL DEF ofLinks

==============================================================================
