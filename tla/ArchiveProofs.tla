--------------------------- MODULE ArchiveProofs ---------------------------
(* What holds of the archiver for every set of threads, accounts and        *)
(* formats.  The types come first; the lock is inductive with them; the     *)
(* other invariants rest on the lock or stand on the types alone.           *)
EXTENDS Archive, TLAPS

-----------------------------------------------------------------------------
(* Types.                                                                   *)

\* A candidate in the cleanup's hands leaves room for its removal.
RoomToRemove == cleaner.at = "held" => removals < MaxRemovals
TypeInv == TypeOK /\ RoomToRemove

LEMMA TypeInit == Init => TypeInv
  <1> SUFFICES ASSUME Init PROVE TypeInv
    OBVIOUS
  <1>1. Import \in Rows /\ NoObject \in Objects
    BY FormatAssumption DEF Import, NoObject, Rows, Objects
  <1> QED
    BY <1>1, FormatAssumption, BoundAssumption
    DEF Init, TypeInv, TypeOK, RoomToRemove, Swept, Import, Rows, States

\* A thread that changes its place and its object keeps their types.
LEMMA EndType ==
    ASSUME TypeOK, NEW p \in Thread, End(p)
    PROVE  pc' \in [Thread -> States] /\ obj' \in [Thread -> Objects]
  <1>1. NoObject \in Objects
    BY FormatAssumption DEF Import, NoObject, Rows, Objects
  <1> QED
    BY <1>1 DEF End, Goto, TypeOK, States

LEMMA ReturnType ==
    ASSUME TypeOK, NEW p \in Thread, Return(p)
    PROVE  pc' \in [Thread -> States] /\ obj' \in [Thread -> Objects]
  BY EndType DEF Return, Goto, TypeOK, States

LEMMA AcquireType ==
    ASSUME TypeOK, NEW p \in Thread, Acquire(p)
    PROVE  /\ lock' \in [Account -> Thread \cup {NoFile}]
           /\ obj' \in [Thread -> Objects]
  <1>1. AccountOf[p] \in Account
    BY AccountAssumption
  <1>2. lock' \in [Account -> Thread \cup {NoFile}]
    BY <1>1 DEF Acquire, TypeOK
  <1>3. obj[p] \in Objects /\ Path(p) \in Format
    BY DEF TypeOK, Path, Objects, Rows
  <1>4. [obj[p] EXCEPT !.looked = Path(p)] \in Objects
    BY <1>3 DEF Objects
  <1>5. obj' = [obj EXCEPT ![p] = [obj[p] EXCEPT !.looked = Path(p)]]
    BY DEF Acquire
  <1>6. obj' \in [Thread -> Objects]
    BY <1>4, <1>5 DEF TypeOK
  <1> QED
    BY <1>2, <1>6

LEMMA ReleaseType ==
    ASSUME TypeOK, NEW p \in Thread, Release(p)
    PROVE  lock' \in [Account -> Thread \cup {NoFile}]
  BY AccountAssumption DEF Release, TypeOK

LEMMA DropType ==
    ASSUME TypeOK, NEW p \in Thread, Drop(p)
    PROVE  part' \in [Thread -> {"none", "staged"}]
  BY DEF Drop, TypeOK

\* Every step of a thread, and of the cleanup, preserves the types.
LEMMA TypeNext == TypeInv /\ [Next]_vars => TypeInv'
  <1> SUFFICES ASSUME TypeInv, [Next]_vars PROVE TypeInv'
    OBVIOUS
  <1> USE DEF TypeInv, TypeOK, RoomToRemove
  <1>1. ASSUME NEW p \in Thread, Load(p) \/ LoadLive(p) PROVE TypeInv'
    <2>1. [row |-> row, looked |-> row.path] \in Objects
      BY DEF Objects, Rows
    <2>2. CASE Load(p)
      BY <2>1, <2>2 DEF Load, Goto, States, sweep
    <2>3. CASE LoadLive(p)
      BY <2>1, <2>3 DEF LoadLive, Goto, States, sweep
    <2> QED
      BY <1>1, <2>2, <2>3
  <1>2. ASSUME NEW p \in Thread, Check(p) PROVE TypeInv'
    BY <1>2, ReturnType DEF Check, Goto, States, sweep
  <1>3. ASSUME NEW p \in Thread, Lock(p) PROVE TypeInv'
    BY <1>3, ReturnType, AcquireType DEF Lock, Goto, States, sweep
  <1>4. ASSUME NEW p \in Thread, NEW f \in Format, Resolve(p, f) PROVE TypeInv'
    BY <1>4 DEF Resolve, Goto, States, Objects, Rows, sweep
  <1>5. ASSUME NEW p \in Thread, Fetch(p) \/ Tag(p) PROVE TypeInv'
    BY <1>5 DEF Fetch, Tag, Goto, States, sweep
  <1>6. ASSUME NEW p \in Thread, Fail(p) PROVE TypeInv'
    BY <1>6, EndType, ReleaseType, DropType DEF Fail, sweep
  <1>7. ASSUME NEW p \in Thread, Publish(p) PROVE TypeInv'
    <2>1. file' \in [Format -> Account \cup {NoFile}]
      BY <1>7, AccountAssumption DEF Publish
    <2> QED
      BY <1>7, <2>1, DropType DEF Publish, Goto, States, sweep
  <1>8. ASSUME NEW p \in Thread, Save(p) PROVE TypeInv'
    <2>1. row' \in Rows
      BY <1>8 DEF Save, Objects, Rows
    <2>2. pc' \in [Thread -> States] /\ obj' \in [Thread -> Objects]
      <3>1. CASE p \in Player
        <4>1. [obj[p] EXCEPT !.row = row'] \in Objects
          BY <2>1 DEF Objects
        <4> QED
          BY <1>8, <3>1, <4>1 DEF Save, Goto, States
      <3>2. CASE p \notin Player
        BY <1>8, <3>2, EndType DEF Save
      <3> QED
        BY <3>1, <3>2
    <2> QED
      BY <1>8, <2>1, <2>2, ReleaseType DEF Save, sweep
  <1>9. ASSUME NEW p \in Thread, SaveFails(p) PROVE TypeInv'
    BY <1>9, EndType, ReleaseType DEF SaveFails, sweep
  <1>10. ASSUME NEW p \in Thread, Play(p) PROVE TypeInv'
    <2>1. row' \in Rows
      BY <1>10 DEF Play, Objects
    <2> QED
      BY <1>10, <2>1, EndType DEF Play, sweep
  <1>11. ASSUME NEW p \in Thread, Begin(p) PROVE TypeInv'
    BY <1>11, EndType DEF Begin, sweep
  <1>12. ASSUME NEW p \in Thread, Complete(p) \/ Abort(p) PROVE TypeInv'
    BY <1>12, EndType, DropType DEF Complete, Abort, Goto, States, sweep
  <1>13. ASSUME NEW p \in Thread, LockLive(p) PROVE TypeInv'
    BY <1>13, EndType, DropType, AcquireType DEF LockLive, Goto, States, sweep
  <1>14. CASE Candidate
    BY <1>14 DEF Candidate, Rows
  <1>15. CASE Remove
    <2>1. CASE OnDisk(cleaner.path)
      <3>1. removals' \in 0..MaxRemovals
        BY <1>15, <2>1, BoundAssumption DEF Remove
      <3>2. file' \in [Format -> Account \cup {NoFile}]
        BY <1>15, <2>1 DEF Remove
      <3>3. /\ cleaner' \in [at : {"idle", "held", "removed"}, path : Format]
            /\ cleaner'.at = "removed"
        BY <1>15, <2>1 DEF Remove
      <3> QED
        BY <1>15, <3>1, <3>2, <3>3 DEF Remove
    <2>2. CASE ~OnDisk(cleaner.path)
      BY <1>15, <2>2, FormatAssumption DEF Remove, Swept
    <2> QED
      BY <2>1, <2>2
  <1>16. CASE Flag \/ FlagFails
    <2>1. Swept \in [at : {"idle", "held", "removed"}, path : Format]
          /\ Swept.at = "idle"
      BY FormatAssumption DEF Swept
    <2>2. row' \in Rows
      BY <1>16 DEF Flag, FlagFails, Rows
    <2> QED
      BY <1>16, <2>1, <2>2 DEF Flag, FlagFails
  <1>17. CASE UNCHANGED vars
    BY <1>17 DEF vars, sweep
  <1> QED
    BY <1>1, <1>2, <1>3, <1>4, <1>5, <1>6, <1>7, <1>8, <1>9, <1>10, <1>11,
       <1>12, <1>13, <1>14, <1>15, <1>16, <1>17
    DEF Next, Work

\* The row, the files, the threads' objects and the locks keep their types.
THEOREM TypeCorrect == Spec => []TypeOK
  <1>1. TypeInv => TypeOK
    BY DEF TypeInv
  <1> QED
    BY <1>1, TypeInit, TypeNext, PTL DEF Spec

-----------------------------------------------------------------------------
(* The lock.                                                                *)

\* The accounts of the threads have locks, and no thread is "nobody".
LEMMA Locks ==
    ASSUME TypeOK, NEW p \in Thread
    PROVE  AccountOf[p] \in DOMAIN lock /\ p # NoFile
  BY AccountAssumption DEF TypeOK

\* Acquire gives p its account's lock and takes nobody else's.
LEMMA AcquireLock ==
    ASSUME TypeOK, NEW p \in Thread, Acquire(p), NEW q \in Thread
    PROVE  IF q = p THEN MyLock(p)' = p ELSE (MyLock(q)' = q <=> MyLock(q) = q)
  BY Locks DEF Acquire, MyLock

\* Release takes the lock from p, if p has it, and from nobody else.
LEMMA ReleaseLock ==
    ASSUME TypeOK, NEW p \in Thread, Release(p), NEW q \in Thread
    PROVE  IF q = p THEN MyLock(p)' # p ELSE (MyLock(q)' = q <=> MyLock(q) = q)
  BY Locks DEF Release, MyLock

\* A step of p that changes no lock, and crosses neither end of the locked
\* part, keeps the lock right for every thread.
LEMMA Outside ==
    ASSUME TypeOK, LockIsHeld, NEW p \in Thread, UNCHANGED lock,
           \A q \in Thread \ {p} : pc'[q] = pc[q],
           Locked(p)' <=> Locked(p)
    PROVE  LockIsHeld'
  BY DEF LockIsHeld, Locked, MyLock

\* A step that leaves the locked part releases the lock.
LEMMA Leaving ==
    ASSUME TypeOK, LockIsHeld, NEW p \in Thread, Release(p),
           \A q \in Thread \ {p} : pc'[q] = pc[q],
           ~Locked(p)'
    PROVE  LockIsHeld'
  BY ReleaseLock DEF LockIsHeld, Locked

\* A step that enters the locked part takes the lock.
LEMMA Entering ==
    ASSUME TypeOK, LockIsHeld, NEW p \in Thread, Acquire(p),
           \A q \in Thread \ {p} : pc'[q] = pc[q],
           Locked(p)'
    PROVE  LockIsHeld'
  BY AcquireLock DEF LockIsHeld, Locked

\* Where a thread is after it has gone somewhere, and where the others are.
LEMMA Going ==
    ASSUME TypeOK, NEW p \in Thread, NEW l, Goto(p, l)
    PROVE  pc'[p] = l /\ \A q \in Thread \ {p} : pc'[q] = pc[q]
  BY DEF Goto, TypeOK

LEMMA Returning ==
    ASSUME TypeOK, NEW p \in Thread, Return(p)
    PROVE  pc'[p] \in {"idle", "play"} /\ \A q \in Thread \ {p} : pc'[q] = pc[q]
  BY Going DEF Return, End

\* A live stream never comes where a thread takes the lock before it resolves.
LiveWay == \A p \in Live : pc[p] \notin {"check", "lock"}

LEMMA LiveNext == TypeOK /\ LiveWay /\ [Next]_vars => LiveWay'
  <1> SUFFICES ASSUME TypeOK, LiveWay, [Next]_vars PROVE LiveWay'
    OBVIOUS
  <1>1. ASSUME NEW p \in Thread, NEW l, Goto(p, l),
               p \notin Live \/ l \notin {"check", "lock"}
        PROVE  LiveWay'
    BY <1>1, Going DEF LiveWay, Thread
  <1>2. ASSUME NEW p \in Thread, End(p) \/ Return(p) PROVE LiveWay'
    BY <1>1, <1>2 DEF End, Return
  <1>3. ASSUME NEW p \in Thread, Load(p) \/ LoadLive(p) PROVE LiveWay'
    BY <1>1, <1>3, ThreadAssumption DEF Load, LoadLive
  <1>4. ASSUME NEW p \in Thread, Check(p) \/ Lock(p) PROVE LiveWay'
    BY <1>1, <1>2, <1>4 DEF Check, Lock, LiveWay
  <1>5. ASSUME NEW p \in Thread, Work(p) PROVE LiveWay'
    BY <1>1, <1>2, <1>5 DEF Work, Resolve, Fetch, Fail, Tag, Publish, Save, SaveFails
  <1>6. ASSUME NEW p \in Thread, Complete(p) \/ LockLive(p) PROVE LiveWay'
    BY <1>1, <1>2, <1>6 DEF Complete, LockLive
  <1>7. ASSUME NEW p \in Thread, Play(p) \/ Abort(p) PROVE LiveWay'
    BY <1>2, <1>7 DEF Play, Abort
  <1>8. ASSUME UNCHANGED pc PROVE LiveWay'
    BY <1>8 DEF LiveWay
  <1>9. ASSUME NEW p \in Thread, Begin(p) PROVE LiveWay'
    BY <1>2, <1>8, <1>9 DEF Begin
  <1> QED
    BY <1>3, <1>4, <1>5, <1>6, <1>7, <1>8, <1>9
    DEF Next, Candidate, Remove, Flag, FlagFails, vars

LEMMA LockNext == TypeOK /\ LiveWay /\ LockIsHeld /\ [Next]_vars => LockIsHeld'
  <1> SUFFICES ASSUME TypeOK, LiveWay, LockIsHeld, [Next]_vars PROVE LockIsHeld'
    OBVIOUS
  <1>1. ASSUME NEW p \in Thread, Load(p) PROVE LockIsHeld'
    BY <1>1, Going, Outside DEF Load, Locked
  <1>2. ASSUME NEW p \in Thread, LoadLive(p) PROVE LockIsHeld'
    BY <1>2, Going, Outside DEF LoadLive, Locked
  <1>3. ASSUME NEW p \in Thread, Check(p) PROVE LockIsHeld'
    <2>1. pc'[p] \in {"idle", "play", "lock"} /\ \A q \in Thread \ {p} : pc'[q] = pc[q]
      BY <1>3, Going, Returning DEF Check
    <2> QED
      BY <1>3, <2>1, Outside DEF Check, Locked
  <1>4. ASSUME NEW p \in Thread, Lock(p) PROVE LockIsHeld'
    <2>1. CASE Acquire(p) /\ Goto(p, "resolve")
      <3>1. p \notin Live
        BY <1>4 DEF Lock, LiveWay
      <3> QED
        BY <2>1, <3>1, Going, Entering DEF Locked
    <2>2. CASE Return(p) /\ UNCHANGED lock
      BY <1>4, <2>2, Returning, Outside DEF Lock, Locked
    <2> QED
      BY <1>4, <2>1, <2>2 DEF Lock
  <1>5. ASSUME NEW p \in Thread, NEW f \in Format, Resolve(p, f) PROVE LockIsHeld'
    BY <1>5, Going, Outside DEF Resolve, Locked
  <1>6. ASSUME NEW p \in Thread, Fetch(p) \/ Tag(p) \/ Publish(p) PROVE LockIsHeld'
    BY <1>6, Going, Outside DEF Fetch, Tag, Publish, Locked
  <1>7. ASSUME NEW p \in Thread, Fail(p) \/ SaveFails(p) PROVE LockIsHeld'
    BY <1>7, Going, Leaving DEF Fail, SaveFails, End, Locked
  <1>8. ASSUME NEW p \in Thread, Save(p) PROVE LockIsHeld'
    BY <1>8, Going, Leaving DEF Save, End, Locked
  <1>9. ASSUME NEW p \in Thread, Play(p) \/ Abort(p) PROVE LockIsHeld'
    BY <1>9, Going, Outside DEF Play, Abort, End, Locked
  <1>10. ASSUME NEW p \in Thread, Begin(p) PROVE LockIsHeld'
    BY <1>10, Going, Outside DEF Begin, End, Locked
  <1>11. ASSUME NEW p \in Thread, Complete(p) PROVE LockIsHeld'
    BY <1>11, Going, Outside DEF Complete, End, Locked
  <1>12. ASSUME NEW p \in Thread, LockLive(p) PROVE LockIsHeld'
    BY <1>12, Going, Entering, Outside DEF LockLive, End, Locked
  <1>13. ASSUME UNCHANGED <<pc, lock>> PROVE LockIsHeld'
    BY <1>13 DEF LockIsHeld, Locked, MyLock
  <1> QED
    BY <1>1, <1>2, <1>3, <1>4, <1>5, <1>6, <1>7, <1>8, <1>9, <1>10, <1>11,
       <1>12, <1>13
    DEF Next, Work, Candidate, Remove, Flag, FlagFails, vars

LEMMA LockInit == Init => LiveWay /\ LockIsHeld
  BY AccountAssumption DEF Init, LiveWay, LockIsHeld, Locked, MyLock, Thread

\* Whatever fails under the lock, the thread in the locked part of the code
\* is the one that holds the lock, and no other thread of its account is.
THEOREM LockCorrect == Spec => []LockIsHeld
  <1>1. TypeInv => TypeOK
    BY DEF TypeInv
  <1> QED
    BY <1>1, TypeInit, TypeNext, LockInit, LiveNext, LockNext, PTL DEF Spec

-----------------------------------------------------------------------------
(* What the archiver leaves on the disk and in the row.                     *)

\* A file just published is a file.
LEMMA PublishedFile ==
    ASSUME TypeOK, NEW p \in Thread, Publish(p)
    PROVE  /\ file' = [file EXCEPT ![Path(p)] = AccountOf[p]]
           /\ Path(p) \in Format
           /\ OnDisk(Path(p))'
  <1>1. Path(p) \in Format /\ Path(p)' = Path(p)
    BY DEF TypeOK, Objects, Rows, Path, Publish
  <1>2. AccountOf[p] # NoFile
    BY AccountAssumption
  <1> QED
    BY <1>1, <1>2 DEF Publish, OnDisk, TypeOK

-----------------------------------------------------------------------------
(* Staging files.                                                           *)

\* A step of p that leaves the others' staging files and places alone.
LEMMA StagingOf ==
    ASSUME TypeOK, NoLeftovers, NEW p \in Thread,
           \A q \in Thread \ {p} : pc'[q] = pc[q] /\ part'[q] = part[q],
           part'[p] # "none" => pc'[p] \in {"stream", "wait", "tag", "publish"}
    PROVE  NoLeftovers'
  BY DEF NoLeftovers

LEMMA Dropping ==
    ASSUME TypeOK, NEW p \in Thread, Drop(p)
    PROVE  part'[p] = "none" /\ \A q \in Thread \ {p} : part'[q] = part[q]
  BY DEF Drop, TypeOK

LEMMA StagingNext == TypeOK /\ NoLeftovers /\ [Next]_vars => NoLeftovers'
  <1> SUFFICES ASSUME TypeOK, NoLeftovers, [Next]_vars PROVE NoLeftovers'
    OBVIOUS
  <1>1. ASSUME NEW p \in Thread, pc[p] \notin {"stream", "wait", "tag", "publish"}
        PROVE  part[p] = "none"
    BY <1>1 DEF NoLeftovers
  <1>2. ASSUME NEW p \in Thread, Load(p) \/ LoadLive(p) PROVE NoLeftovers'
    BY <1>1, <1>2, Going, StagingOf DEF Load, LoadLive
  <1>3. ASSUME NEW p \in Thread, Check(p) \/ Lock(p) PROVE NoLeftovers'
    <2>1. part[p] = "none" /\ UNCHANGED part
      BY <1>1, <1>3 DEF Check, Lock
    <2>2. /\ pc'[p] \in {"idle", "play", "lock", "resolve"}
          /\ \A q \in Thread \ {p} : pc'[q] = pc[q]
      BY <1>3, Going, Returning DEF Check, Lock
    <2> QED
      BY <2>1, <2>2, StagingOf
  <1>4. ASSUME NEW p \in Thread, NEW f \in Format, Resolve(p, f) PROVE NoLeftovers'
    BY <1>1, <1>4, Going, StagingOf DEF Resolve
  <1>5. ASSUME NEW p \in Thread, Fetch(p) PROVE NoLeftovers'
    BY <1>5, Going, StagingOf DEF Fetch, TypeOK
  <1>6. ASSUME NEW p \in Thread, Fail(p) PROVE NoLeftovers'
    BY <1>6, Going, Dropping, StagingOf DEF Fail, End
  <1>7. ASSUME NEW p \in Thread, Tag(p) PROVE NoLeftovers'
    BY <1>7, Going, StagingOf DEF Tag, TypeOK
  <1>8. ASSUME NEW p \in Thread, Publish(p) PROVE NoLeftovers'
    BY <1>8, Going, Dropping, StagingOf DEF Publish
  <1>9. ASSUME NEW p \in Thread, Save(p) \/ SaveFails(p) \/ Play(p) PROVE NoLeftovers'
    <2>1. part[p] = "none" /\ UNCHANGED part
      BY <1>1, <1>9 DEF Save, SaveFails, Play
    <2>2. pc'[p] \in {"idle", "play"} /\ \A q \in Thread \ {p} : pc'[q] = pc[q]
      BY <1>9, Going DEF Save, SaveFails, Play, End
    <2> QED
      BY <2>1, <2>2, StagingOf
  <1>10. ASSUME NEW p \in Thread, Begin(p) PROVE NoLeftovers'
    <2>1. CASE OnDisk(Path(p))
      BY <1>10, <2>1, Going, StagingOf DEF Begin, End
    <2>2. CASE ~OnDisk(Path(p))
      BY <1>10, <2>2, StagingOf DEF Begin, TypeOK
    <2> QED
      BY <2>1, <2>2
  <1>11. ASSUME NEW p \in Thread, Complete(p) \/ Abort(p) PROVE NoLeftovers'
    BY <1>11, Going, Dropping, StagingOf DEF Complete, Abort, End
  <1>12. ASSUME NEW p \in Thread, LockLive(p) PROVE NoLeftovers'
    BY <1>12, Going, Dropping, StagingOf DEF LockLive, End
  <1>13. ASSUME UNCHANGED <<pc, part>> PROVE NoLeftovers'
    BY <1>13 DEF NoLeftovers
  <1> QED
    BY <1>2, <1>3, <1>4, <1>5, <1>6, <1>7, <1>8, <1>9, <1>10, <1>11, <1>12, <1>13
    DEF Next, Work, Candidate, Remove, Flag, FlagFails, vars

LEMMA StagingInit == Init => NoLeftovers
  BY DEF Init, NoLeftovers

\* However an archive run ends, it leaves no partial behind.
THEOREM StagingCorrect == Spec => []NoLeftovers
  <1>1. TypeInv => TypeOK
    BY DEF TypeInv
  <1> QED
    BY <1>1, TypeInit, TypeNext, StagingInit, StagingNext, PTL DEF Spec

-----------------------------------------------------------------------------
(* What the lock and the second look are for.                               *)

\* Between its look under the lock and its own publication, a thread's
\* account has put no file where the thread looked.
Mine(p) ==
    Locked(p) /\ pc[p] # "save" /\ OnDisk(obj[p].looked) =>
        file[obj[p].looked] # AccountOf[p]
NotFetched == \A p \in Thread : Mine(p)

\* Steps of one thread that publish nothing, by where they leave it.
LEMMA MineOf ==
    ASSUME TypeOK, NotFetched, NEW p \in Thread, UNCHANGED file,
           \A q \in Thread \ {p} : pc'[q] = pc[q] /\ obj'[q] = obj[q],
           \/ ~Locked(p)'
           \/ pc'[p] = "save"
           \/ ~OnDisk(obj'[p].looked)
           \/ Locked(p) /\ pc[p] # "save" /\ obj'[p].looked = obj[p].looked
    PROVE  NotFetched'
  BY DEF NotFetched, Mine, OnDisk, Locked

LEMMA Ending ==
    ASSUME TypeOK, NEW p \in Thread, End(p)
    PROVE  /\ pc'[p] = "idle" /\ obj'[p] = NoObject
           /\ \A q \in Thread \ {p} : pc'[q] = pc[q] /\ obj'[q] = obj[q]
  BY DEF End, Goto, TypeOK

LEMMA ReturningObject ==
    ASSUME TypeOK, NEW p \in Thread, Return(p)
    PROVE  /\ pc'[p] \in {"idle", "play"}
           /\ obj'[p] \in {obj[p], NoObject}
           /\ \A q \in Thread \ {p} : pc'[q] = pc[q] /\ obj'[q] = obj[q]
  BY Returning, Ending DEF Return

LEMMA AcquiringObject ==
    ASSUME TypeOK, NEW p \in Thread, Acquire(p)
    PROVE  /\ obj'[p].looked = Path(p) /\ obj'[p].row = obj[p].row
           /\ \A q \in Thread \ {p} : obj'[q] = obj[q]
  BY DEF Acquire, TypeOK, Objects

LEMMA NotFetchedNext ==
    TypeOK /\ LockIsHeld /\ NotFetched /\ [Next]_vars => NotFetched'
  <1> SUFFICES ASSUME TypeOK, LockIsHeld, NotFetched, [Next]_vars PROVE NotFetched'
    OBVIOUS
  <1>1. ASSUME NEW p \in Thread, Load(p) \/ LoadLive(p) PROVE NotFetched'
    <2>1. \A q \in Thread \ {p} : pc'[q] = pc[q] /\ obj'[q] = obj[q]
      BY <1>1 DEF Load, LoadLive, Goto, TypeOK
    <2>2. pc'[p] = "check" \/ (p \in Live /\ pc'[p] = "resolve")
      BY <1>1 DEF Load, LoadLive, Goto, TypeOK
    <2>3. ~Locked(p)' /\ UNCHANGED file
      BY <1>1, <2>2 DEF Load, LoadLive, Locked
    <2> QED
      BY <2>1, <2>3, MineOf
  <1>2. ASSUME NEW p \in Thread, Check(p) PROVE NotFetched'
    <2>1. /\ pc'[p] \in {"idle", "play", "lock"} /\ UNCHANGED file
          /\ \A q \in Thread \ {p} : pc'[q] = pc[q] /\ obj'[q] = obj[q]
      BY <1>2, Going, ReturningObject DEF Check
    <2> QED
      BY <2>1, MineOf DEF Locked
  <1>3. ASSUME NEW p \in Thread, Lock(p) PROVE NotFetched'
    <2>1. CASE ~OnDisk(Path(p)) /\ Acquire(p) /\ Goto(p, "resolve")
      <3>1. ~OnDisk(obj'[p].looked) /\ UNCHANGED file
        BY <1>3, <2>1, AcquiringObject DEF Lock
      <3> QED
        BY <2>1, <3>1, Going, AcquiringObject, MineOf
    <2>2. CASE Return(p)
      BY <1>3, <2>2, ReturningObject, MineOf DEF Lock, Locked
    <2> QED
      BY <1>3, <2>1, <2>2 DEF Lock
  <1>4. ASSUME NEW p \in Thread, NEW f \in Format, Resolve(p, f) PROVE NotFetched'
    <2>1. /\ \A q \in Thread \ {p} : pc'[q] = pc[q] /\ obj'[q] = obj[q]
          /\ obj'[p].looked = obj[p].looked
          /\ pc'[p] = IF p \in Live THEN "stream" ELSE "fetch"
          /\ pc[p] = "resolve" /\ UNCHANGED file
      BY <1>4 DEF Resolve, Goto, TypeOK, Objects
    <2> QED
      BY <2>1, MineOf DEF Locked
  <1>5. ASSUME NEW p \in Thread, Fetch(p) \/ Tag(p) PROVE NotFetched'
    BY <1>5, Going, MineOf DEF Fetch, Tag, Locked
  <1>6. ASSUME NEW p \in Thread, Fail(p) \/ SaveFails(p) \/ Play(p) \/ Abort(p)
        PROVE  NotFetched'
    BY <1>6, Ending, MineOf DEF Fail, SaveFails, Play, Abort, Locked
  <1>7. ASSUME NEW p \in Thread, Publish(p) PROVE NotFetched'
    <2>1. pc'[p] = "save" /\ \A q \in Thread \ {p} : pc'[q] = pc[q]
      BY <1>7, Going DEF Publish
    <2>2. ASSUME NEW q \in Thread, q # p, Locked(q) PROVE AccountOf[q] # AccountOf[p]
      <3>1. MyLock(q) = q /\ MyLock(p) = p
        BY <1>7, <2>2 DEF LockIsHeld, Publish, Locked
      <3> QED
        BY <2>2, <3>1 DEF MyLock
    <2>3. ASSUME NEW q \in Thread PROVE Mine(q)'
      <3>1. CASE q = p
        BY <2>1, <3>1 DEF Mine
      <3>2. CASE q # p
        <4>1. UNCHANGED obj /\ (Locked(q)' <=> Locked(q)) /\ pc'[q] = pc[q]
          BY <1>7, <2>1, <3>2 DEF Publish, Locked
        <4>2. CASE obj[q].looked = Path(p)
          <5>1. file'[Path(p)] = AccountOf[p]
            BY <1>7, PublishedFile DEF TypeOK
          <5> QED
            BY <2>2, <3>2, <4>1, <4>2, <5>1 DEF Mine
        <4>3. CASE obj[q].looked # Path(p)
          <5>1. obj[q].looked \in Format
            BY DEF TypeOK, Objects
          <5>2. file'[obj[q].looked] = file[obj[q].looked]
            BY <1>7, <4>3, <5>1, PublishedFile DEF TypeOK
          <5>3. Mine(q)
            BY DEF NotFetched
          <5> QED
            BY <4>1, <5>2, <5>3 DEF Mine, OnDisk
        <4> QED
          BY <4>2, <4>3
      <3> QED
        BY <3>1, <3>2
    <2> QED
      BY <2>3 DEF NotFetched
  <1>8. ASSUME NEW p \in Thread, Save(p) PROVE NotFetched'
    <2>1. /\ pc'[p] \in {"idle", "play"} /\ UNCHANGED file
          /\ \A q \in Thread \ {p} : pc'[q] = pc[q] /\ obj'[q] = obj[q]
      BY <1>8, Going, Ending DEF Save, TypeOK
    <2> QED
      BY <2>1, MineOf DEF Locked
  <1>9. ASSUME NEW p \in Thread, Begin(p) PROVE NotFetched'
    <2>1. CASE End(p)
      BY <1>9, <2>1, Ending, MineOf DEF Begin, Locked
    <2>2. CASE UNCHANGED <<pc, obj>>
      BY <1>9, <2>2 DEF Begin, NotFetched, Mine, Locked, OnDisk
    <2> QED
      BY <1>9, <2>1, <2>2 DEF Begin
  <1>10. ASSUME NEW p \in Thread, Complete(p) PROVE NotFetched'
    <2>1. /\ pc'[p] \in {"idle", "wait"} /\ UNCHANGED file
          /\ \A q \in Thread \ {p} : pc'[q] = pc[q] /\ obj'[q] = obj[q]
      BY <1>10, Going, Ending DEF Complete
    <2> QED
      BY <2>1, MineOf DEF Locked
  <1>11. ASSUME NEW p \in Thread, LockLive(p) PROVE NotFetched'
    <2>1. CASE ~OnDisk(Path(p)) /\ Acquire(p) /\ Goto(p, "tag")
      <3>1. ~OnDisk(obj'[p].looked) /\ UNCHANGED file
        BY <1>11, <2>1, AcquiringObject DEF LockLive
      <3> QED
        BY <2>1, <3>1, Going, AcquiringObject, MineOf
    <2>2. CASE End(p)
      BY <1>11, <2>2, Ending, MineOf DEF LockLive, Locked
    <2> QED
      BY <1>11, <2>1, <2>2 DEF LockLive
  <1>12. CASE Remove /\ OnDisk(cleaner.path)
    <2>1. UNCHANGED <<pc, obj>> /\ file' = [file EXCEPT ![cleaner.path] = NoFile]
      BY <1>12 DEF Remove
    <2>2. \A f \in Format : file'[f] = file[f] \/ ~OnDisk(f)'
      BY <2>1 DEF TypeOK, OnDisk
    <2>3. ASSUME NEW q \in Thread PROVE Mine(q)'
      <3>1. obj[q].looked \in Format
        BY DEF TypeOK, Objects
      <3>2. Mine(q) /\ (Locked(q)' <=> Locked(q))
        BY <2>1 DEF NotFetched, Locked
      <3> QED
        BY <2>1, <2>2, <3>1, <3>2 DEF Mine, OnDisk
    <2> QED
      BY <2>3 DEF NotFetched
  <1>13. CASE UNCHANGED <<file, pc, obj>>
    BY <1>13 DEF NotFetched, Mine, Locked, OnDisk
  <1> QED
    BY <1>1, <1>2, <1>3, <1>4, <1>5, <1>6, <1>7, <1>8, <1>9, <1>10, <1>11,
       <1>12, <1>13
    DEF Next, Work, Candidate, Remove, Flag, FlagFails, vars

\* Deezer is asked once: a published file is replaced only by another
\* account, or by a thread that looked for the track in another format.
THEOREM FetchedOnceCorrect == Spec => FetchedOnce
  <1>1. Init => NotFetched
    BY DEF Init, NotFetched, Mine, Locked
  <1>2. TypeInv => TypeOK
    BY DEF TypeInv
  <1>3. NotFetched =>
          [\A p \in Thread : Replaces(p) =>
             file[Path(p)] # AccountOf[p] \/ obj[p].looked # Path(p)]_vars
    BY DEF NotFetched, Mine, Replaces, Locked
  <1>4. Spec => []NotFetched
    BY <1>1, <1>2, TypeInit, TypeNext, LockInit, LiveNext, LockNext, NotFetchedNext, PTL
    DEF Spec
  <1> QED
    BY <1>3, <1>4, PTL DEF FetchedOnce

-----------------------------------------------------------------------------
(* The row and the disk.                                                    *)

\* Until the cleanup removes a file, whatever calls the track archived, the
\* row or an object of a thread, has its file; a thread that is about to
\* choose another format holds an object that does not; and a thread that
\* is about to save has its file.
Backed(r) == r.archived => OnDisk(r.path)
BackedThread(p) ==
    /\ Backed(obj[p].row)
    /\ pc[p] = "resolve" => ~obj[p].row.archived
    /\ pc[p] = "save" => OnDisk(Path(p))
BackedInv == removals = 0 => Backed(row) /\ \A p \in Thread : BackedThread(p)

\* A step of one thread that takes no file away.
LEMMA BackedOf ==
    ASSUME TypeOK, BackedInv, NEW p \in Thread, UNCHANGED removals,
           \A f \in Format : OnDisk(f) => OnDisk(f)',
           \A q \in Thread \ {p} : pc'[q] = pc[q] /\ obj'[q] = obj[q],
           removals = 0 => Backed(row)' /\ BackedThread(p)'
    PROVE  BackedInv'
  <1> SUFFICES ASSUME removals = 0 PROVE Backed(row)' /\ \A q \in Thread : BackedThread(q)'
    BY DEF BackedInv
  <1>1. ASSUME NEW q \in Thread \ {p} PROVE BackedThread(q)'
    <2>1. BackedThread(q) /\ obj[q].row.path \in Format
      BY DEF BackedInv, TypeOK, Objects, Rows
    <2> QED
      BY <2>1 DEF BackedThread, Backed, Path
  <1> QED
    BY <1>1

LEMMA BackedNext == TypeInv /\ BackedInv /\ [Next]_vars => BackedInv'
  <1> SUFFICES ASSUME TypeInv, BackedInv, [Next]_vars PROVE BackedInv'
    OBVIOUS
  <1>1. TypeOK
    BY DEF TypeInv
  <1>2. Backed(NoObject.row) /\ ~NoObject.row.archived
    BY DEF Backed, NoObject, Import
  <1>3. ASSUME NEW p \in Thread, UNCHANGED <<row, file, removals>>,
               \A q \in Thread \ {p} : pc'[q] = pc[q] /\ obj'[q] = obj[q],
               removals = 0 => BackedThread(p)'
        PROVE  BackedInv'
    <2>1. \A f \in Format : OnDisk(f) => OnDisk(f)'
      BY <1>3 DEF OnDisk
    <2>2. removals = 0 => Backed(row)'
      BY <1>3 DEF BackedInv, Backed, OnDisk
    <2> QED
      BY <1>1, <1>3, <2>1, <2>2, BackedOf
  <1>4. ASSUME NEW p \in Thread, UNCHANGED <<row, file, removals>>, End(p)
        PROVE  BackedInv'
    BY <1>1, <1>2, <1>3, <1>4, Ending DEF BackedThread, Backed
  <1>5. ASSUME NEW p \in Thread, UNCHANGED <<row, file, removals>>,
               Return(p)
        PROVE  BackedInv'
    <2>1. \/ obj'[p] = obj[p] /\ pc'[p] \in {"idle", "play"}
          \/ obj'[p] = NoObject /\ pc'[p] \in {"idle", "play"}
      BY <1>1, <1>5, ReturningObject
    <2>2. removals = 0 => BackedThread(p)'
      BY <1>2, <1>5, <2>1 DEF BackedInv, BackedThread, Backed, OnDisk
    <2> QED
      BY <1>1, <1>3, <1>5, <2>2, ReturningObject
  <1>6. ASSUME NEW p \in Thread, NEW l \in States \ {"resolve", "save"}, Goto(p, l),
               UNCHANGED <<row, file, removals, obj>>
        PROVE  BackedInv'
    <2>1. removals = 0 => BackedThread(p)'
      BY <1>1, <1>6, Going DEF BackedInv, BackedThread, Backed, OnDisk
    <2> QED
      BY <1>1, <1>3, <1>6, <2>1, Going
  <1>7. ASSUME NEW p \in Thread, Load(p) \/ LoadLive(p) PROVE BackedInv'
    <2>1. /\ obj'[p].row = row
          /\ \A q \in Thread \ {p} : pc'[q] = pc[q] /\ obj'[q] = obj[q]
          /\ UNCHANGED <<row, file, removals>>
      BY <1>1, <1>7 DEF Load, LoadLive, Goto, TypeOK, sweep
    <2>2. pc'[p] = "check" \/ (pc'[p] = "resolve" /\ ~OnDisk(row.path))
      BY <1>1, <1>7 DEF Load, LoadLive, Goto, TypeOK
    <2>3. removals = 0 => BackedThread(p)'
      BY <2>1, <2>2 DEF BackedInv, BackedThread, Backed, OnDisk
    <2> QED
      BY <1>3, <2>1, <2>3
  <1>8. ASSUME NEW p \in Thread, Check(p) PROVE BackedInv'
    BY <1>5, <1>6, <1>8 DEF Check, States, sweep
  <1>9. ASSUME NEW p \in Thread, Lock(p) PROVE BackedInv'
    <2>1. CASE ~OnDisk(Path(p)) /\ Acquire(p) /\ Goto(p, "resolve")
      <3>1. /\ obj'[p].row = obj[p].row /\ pc'[p] = "resolve"
            /\ \A q \in Thread \ {p} : pc'[q] = pc[q] /\ obj'[q] = obj[q]
        BY <1>1, <2>1, AcquiringObject, Going
      <3>2. UNCHANGED <<row, file, removals>>
        BY <1>9 DEF Lock, sweep
      <3>3. removals = 0 => BackedThread(p)'
        BY <2>1, <3>1, <3>2 DEF BackedInv, BackedThread, Backed, OnDisk, Path
      <3> QED
        BY <1>3, <3>1, <3>2, <3>3
    <2>2. CASE Return(p)
      BY <1>5, <1>9, <2>2 DEF Lock, sweep
    <2> QED
      BY <1>9, <2>1, <2>2 DEF Lock
  <1>10. ASSUME NEW p \in Thread, NEW f \in Format, Resolve(p, f) PROVE BackedInv'
    <2>1. /\ obj'[p].row.archived = obj[p].row.archived
          /\ pc[p] = "resolve" /\ pc'[p] \in {"stream", "fetch"}
          /\ \A q \in Thread \ {p} : pc'[q] = pc[q] /\ obj'[q] = obj[q]
          /\ UNCHANGED <<row, file, removals>>
      BY <1>1, <1>10 DEF Resolve, Goto, TypeOK, Objects, Rows, sweep
    <2>2. removals = 0 => BackedThread(p)'
      BY <2>1 DEF BackedInv, BackedThread, Backed
    <2> QED
      BY <1>3, <2>1, <2>2
  <1>11. ASSUME NEW p \in Thread, Fetch(p) \/ Tag(p) PROVE BackedInv'
    BY <1>6, <1>11 DEF Fetch, Tag, States, sweep
  <1>12. ASSUME NEW p \in Thread, Fail(p) \/ SaveFails(p) \/ Abort(p) PROVE BackedInv'
    BY <1>4, <1>12 DEF Fail, SaveFails, Abort, sweep
  <1>13. ASSUME NEW p \in Thread, Publish(p) PROVE BackedInv'
    <2>1. ASSUME NEW f \in Format, OnDisk(f) PROVE OnDisk(f)'
      <3>1. CASE f = Path(p)
        BY <1>1, <1>13, <3>1, PublishedFile DEF OnDisk, Publish, Path
      <3>2. CASE f # Path(p)
        <4>1. file'[f] = file[f]
          BY <1>1, <1>13, <3>2, PublishedFile DEF TypeOK
        <4> QED
          BY <2>1, <4>1 DEF OnDisk
      <3> QED
        BY <3>1, <3>2
    <2>2. /\ OnDisk(Path(p))' /\ pc'[p] = "save" /\ UNCHANGED <<row, obj, removals>>
          /\ \A q \in Thread \ {p} : pc'[q] = pc[q]
      BY <1>1, <1>13, PublishedFile, Going DEF Publish, sweep
    <2>3. row.path \in Format
      BY <1>1 DEF TypeOK, Rows
    <2>4. removals = 0 => Backed(row)' /\ BackedThread(p)'
      BY <2>1, <2>2, <2>3 DEF BackedInv, BackedThread, Backed, Path
    <2> QED
      BY <1>1, <2>1, <2>2, <2>4, BackedOf
  <1>14. ASSUME NEW p \in Thread, Save(p) PROVE BackedInv'
    <2>1. /\ row'.path = Path(p) /\ UNCHANGED <<file, removals>> /\ pc[p] = "save"
          /\ \A q \in Thread \ {p} : pc'[q] = pc[q] /\ obj'[q] = obj[q]
      BY <1>1, <1>14, Ending, Going DEF Save, Path, TypeOK, Objects, Rows, sweep
    <2>2. pc'[p] \in {"idle", "play"} /\ (obj'[p].row = row' \/ obj'[p] = NoObject)
      <3>1. CASE p \in Player
        <4>1. obj' = [obj EXCEPT ![p].row = row']
          BY <1>14, <3>1 DEF Save
        <4>2. obj'[p].row = row'
          BY <1>1, <4>1 DEF TypeOK, Objects
        <4> QED
          BY <1>1, <1>14, <3>1, <4>2, Going DEF Save
      <3>2. CASE p \notin Player
        BY <1>1, <1>14, <3>2, Ending DEF Save
      <3> QED
        BY <3>1, <3>2
    <2>3. removals = 0 => Backed(row)' /\ BackedThread(p)'
      BY <1>2, <2>1, <2>2 DEF BackedInv, BackedThread, Backed, OnDisk
    <2>4. \A f \in Format : OnDisk(f) => OnDisk(f)'
      BY <2>1 DEF OnDisk
    <2> QED
      BY <1>1, <2>1, <2>3, <2>4, BackedOf
  <1>15. ASSUME NEW p \in Thread, Play(p) PROVE BackedInv'
    <2>1. /\ row' \in {row, obj[p].row} /\ UNCHANGED <<file, removals>>
          /\ pc'[p] = "idle" /\ obj'[p] = NoObject
          /\ \A q \in Thread \ {p} : pc'[q] = pc[q] /\ obj'[q] = obj[q]
      BY <1>1, <1>15, Ending DEF Play, sweep
    <2>2. removals = 0 => Backed(row)' /\ BackedThread(p)'
      BY <1>2, <2>1 DEF BackedInv, BackedThread, Backed, OnDisk
    <2>3. \A f \in Format : OnDisk(f) => OnDisk(f)'
      BY <2>1 DEF OnDisk
    <2> QED
      BY <1>1, <2>1, <2>2, <2>3, BackedOf
  <1>16. ASSUME NEW p \in Thread, Begin(p) \/ Complete(p) PROVE BackedInv'
    <2>1. UNCHANGED <<row, file, removals>>
      BY <1>16 DEF Begin, Complete, sweep
    <2>2. CASE UNCHANGED <<pc, obj>>
      BY <2>1, <2>2 DEF BackedInv, BackedThread, Backed, OnDisk, Path
    <2>3. CASE End(p)
      BY <1>4, <2>1, <2>3
    <2>4. CASE Goto(p, "wait") /\ UNCHANGED obj
      BY <1>6, <2>1, <2>4 DEF States
    <2> QED
      BY <1>16, <2>2, <2>3, <2>4 DEF Begin, Complete
  <1>17. ASSUME NEW p \in Thread, LockLive(p) PROVE BackedInv'
    <2>1. UNCHANGED <<row, file, removals>>
      BY <1>17 DEF LockLive, sweep
    <2>2. CASE Acquire(p) /\ Goto(p, "tag")
      <3>1. /\ obj'[p].row = obj[p].row /\ pc'[p] = "tag"
            /\ \A q \in Thread \ {p} : pc'[q] = pc[q] /\ obj'[q] = obj[q]
        BY <1>1, <2>2, AcquiringObject, Going
      <3>2. removals = 0 => BackedThread(p)'
        BY <2>1, <3>1 DEF BackedInv, BackedThread, Backed, OnDisk
      <3> QED
        BY <1>3, <2>1, <3>1, <3>2
    <2>3. CASE End(p)
      BY <1>4, <2>1, <2>3
    <2> QED
      BY <1>17, <2>2, <2>3 DEF LockLive
  <1>18. CASE Remove
    <2>1. CASE OnDisk(cleaner.path)
      BY <1>18, <1>1, <2>1, BoundAssumption DEF Remove, BackedInv, TypeOK
    <2>2. CASE ~OnDisk(cleaner.path)
      BY <1>18, <2>2 DEF Remove, BackedInv, BackedThread, Backed, OnDisk, Path
    <2> QED
      BY <2>1, <2>2
  <1>19. CASE Flag
    <2>1. ~row'.archived /\ UNCHANGED <<file, pc, obj, removals>>
      BY <1>1, <1>19 DEF Flag, TypeOK, Rows
    <2> QED
      BY <2>1 DEF BackedInv, BackedThread, Backed, OnDisk, Path
  <1>20. CASE UNCHANGED <<row, file, pc, obj, removals>>
    BY <1>20 DEF BackedInv, BackedThread, Backed, OnDisk, Path
  <1> QED
    BY <1>7, <1>8, <1>9, <1>10, <1>11, <1>12, <1>13, <1>14, <1>15, <1>16, <1>17,
       <1>18, <1>19, <1>20
    DEF Next, Work, Candidate, FlagFails, vars

\* Whatever formats Deezer falls back to, and whichever thread saves its
\* copy of the row last, a row that says "archived" has its file, until the
\* cleanup has removed one.
THEOREM RowCorrect == Spec => []ArchivedRowHasFile
  <1>1. Init => BackedInv
    BY DEF Init, BackedInv, BackedThread, Backed, NoObject, Import
  <1>2. TypeInv /\ BackedInv => ArchivedRowHasFile
    BY BoundAssumption DEF TypeInv, TypeOK, BackedInv, Backed, ArchivedRowHasFile
  <1> QED
    BY <1>1, <1>2, TypeInit, TypeNext, BackedNext, PTL DEF Spec
=============================================================================
