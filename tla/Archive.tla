------------------------------- MODULE Archive -------------------------------
(***************************************************************************)
(* One Deezer track on its way to the disk (supysonic/deezer/archive.py):  *)
(* its row in the database, its files, and the threads that want it.       *)
(*                                                                         *)
(*   Archiver  ensure_archived: the download workers, the share page, the  *)
(*             nightly backfill (deezer/archive.py:78-108)                 *)
(*   Player    a Subsonic stream, which archives first and then saves the  *)
(*             row it read when the request began (api/media.py)           *)
(*   Live      open_live_stream: the web player's first play, which tees   *)
(*             the download to the client (deezer/archive.py:385-447)      *)
(*   cleaner   the free-space cleanup (deezer/cleanup.py)                  *)
(*                                                                         *)
(* A thread works on its own Track object, a copy of the row as it was     *)
(* when the thread read it.  The lock of a track belongs to a provider     *)
(* object, and every account has one of its own.  A file is known by its   *)
(* format, which is all the archive path of a track varies by.  What an    *)
(* archived file brings with it (cover, lyrics, sidecar, queue entries)    *)
(* is not modelled.                                                        *)
(***************************************************************************)
EXTENDS Naturals

CONSTANTS
    Archiver, Player, Live,  \* threads
    Account,                 \* Deezer accounts
    AccountOf,               \* [thread -> Account]: whose provider it uses
    Format,                  \* what Deezer may serve the track as
    Imported,                \* the format an imported row expects
    NoFile,                  \* no file on disk, no holder of a lock
    MaxRemovals              \* bound: files the cleanup removes

Thread == Archiver \cup Player \cup Live

ASSUME ThreadAssumption ==
    /\ Archiver \cap Player = {}
    /\ Archiver \cap Live = {}
    /\ Player \cap Live = {}
ASSUME AccountAssumption ==
    /\ AccountOf \in [Thread -> Account]
    /\ NoFile \notin Thread \cup Account
ASSUME FormatAssumption == Imported \in Format
ASSUME BoundAssumption == MaxRemovals \in Nat

VARIABLES
    row,      \* the database row: its path, and last_modification > 0
    file,     \* per format: the account whose file is on disk, or NoFile
    pc, obj,  \* per thread: where it is, and its Track object (with, for the
              \* properties, the path it looked at under the lock)
    part,     \* per thread: its staging file, if it has one
    lock,     \* per account: the thread in track_lock, or NoFile
    cleaner,  \* the cleanup: where it is, and the path of its candidate
    removals  \* how many files the cleanup has removed

vars == <<row, file, pc, obj, part, lock, cleaner, removals>>
sweep == <<cleaner, removals>>

Rows == [path : Format, archived : BOOLEAN]
Objects == [row : Rows, looked : Format]
States == {"idle", "check", "lock", "resolve", "fetch", "stream",
           "wait", "tag", "publish", "save", "play"}

Import == [path |-> Imported, archived |-> FALSE]
Swept == [at |-> "idle", path |-> Imported]
NoObject == [row |-> Import, looked |-> Imported]

OnDisk(f) == file[f] # NoFile
Path(p) == obj[p].row.path
MyLock(p) == lock[AccountOf[p]]

Init ==
    /\ row = Import
    /\ file = [f \in Format |-> NoFile]
    /\ pc = [p \in Thread |-> "idle"]
    /\ obj = [p \in Thread |-> NoObject]
    /\ part = [p \in Thread |-> "none"]
    /\ lock = [a \in Account |-> NoFile]
    /\ cleaner = Swept
    /\ removals = 0

-----------------------------------------------------------------------------
(* Parts of steps.                                                          *)

Goto(p, l) == pc' = [pc EXCEPT ![p] = l]

\* The request, or the job, is over, and its Track object with it.
End(p) == Goto(p, "idle") /\ obj' = [obj EXCEPT ![p] = NoObject]

\* ensure_archived returns: a Subsonic stream goes on to play the file.
Return(p) ==
    IF p \in Player THEN Goto(p, "play") /\ UNCHANGED obj ELSE End(p)

Drop(p) == part' = [part EXCEPT ![p] = "none"]

Acquire(p) ==
    /\ MyLock(p) = NoFile
    /\ lock' = [lock EXCEPT ![AccountOf[p]] = p]
    /\ obj' = [obj EXCEPT ![p].looked = Path(p)]

Release(p) ==
    lock' = IF MyLock(p) = p THEN [lock EXCEPT ![AccountOf[p]] = NoFile] ELSE lock

-----------------------------------------------------------------------------
(* ensure_archived.                                                         *)

\* The row is read.  For an Archiver this is every reason to fetch the track
\* in the background, the abort of a live stream included: the queue between
\* the two is module DownloadQueue.
Load(p) ==
    /\ p \in Archiver \cup Player
    /\ pc[p] = "idle"
    /\ obj' = [obj EXCEPT ![p] = [row |-> row, looked |-> row.path]]
    /\ Goto(p, "check")
    /\ UNCHANGED <<row, file, part, lock, sweep>>

\* The look before the lock.
Check(p) ==
    /\ pc[p] = "check"
    /\ IF OnDisk(Path(p)) THEN Return(p) ELSE Goto(p, "lock") /\ UNCHANGED obj
    /\ UNCHANGED <<row, file, part, lock, sweep>>

\* Slip: no second look once the lock is held.
LockBlindly(p) ==
    /\ pc[p] = "lock"
    /\ Acquire(p)
    /\ Goto(p, "resolve")
    /\ UNCHANGED <<row, file, part, sweep>>

\* track_lock, and the second look under it, at the path this thread's own
\* object holds.
Lock(p) ==
    /\ pc[p] = "lock"
    /\ \/ /\ ~OnDisk(Path(p))
          /\ Acquire(p)
          /\ Goto(p, "resolve")
       \/ /\ OnDisk(Path(p))
          /\ MyLock(p) = NoFile
          /\ Return(p)
          /\ UNCHANGED lock
    /\ UNCHANGED <<row, file, part, sweep>>

\* Slip: the path is corrected for a source that was not found.
ResolveNothing(p, f) ==
    /\ pc[p] = "resolve"
    /\ obj' = [obj EXCEPT ![p].row.path = NoFile]
    /\ Goto(p, IF p \in Live THEN "stream" ELSE "fetch")
    /\ UNCHANGED <<row, file, part, lock, sweep>>

\* _resolve_or_flag found a source of format f, and the path is corrected.
\* How resolve gets there is module DeezerSession; when Deezer has no source,
\* or does not answer, this thread's step is Fail.
Resolve(p, f) ==
    /\ pc[p] = "resolve"
    /\ obj' = [obj EXCEPT ![p].row.path = f]
    /\ Goto(p, IF p \in Live THEN "stream" ELSE "fetch")
    /\ UNCHANGED <<row, file, part, lock, sweep>>

\* download_to, into a staging name nobody serves.
Fetch(p) ==
    /\ pc[p] = "fetch"
    /\ part' = [part EXCEPT ![p] = "staged"]
    /\ Goto(p, "tag")
    /\ UNCHANGED <<row, file, obj, lock, sweep>>

\* Slips: the staging file survives the error; so does the lock.
FailLeavingPart(p) ==
    /\ pc[p] \in {"resolve", "fetch", "tag", "publish"}
    /\ End(p)
    /\ Release(p)
    /\ UNCHANGED <<row, file, part, sweep>>
FailKeepingLock(p) ==
    /\ pc[p] \in {"resolve", "fetch", "tag", "publish"}
    /\ Drop(p)
    /\ End(p)
    /\ UNCHANGED <<row, file, lock, sweep>>

\* Deezer did not answer, the download broke, or the disk refused the file or
\* its new name: the staging file goes, the lock is released, the error goes up.
Fail(p) ==
    /\ pc[p] \in {"resolve", "fetch", "tag", "publish"}
    /\ Drop(p)
    /\ End(p)
    /\ Release(p)
    /\ UNCHANGED <<row, file, sweep>>

\* _tag_archive, on the staging file.  Whatever tag_file raises is logged, and
\* the file is published as it is: whether it is tagged, nothing here knows.
Tag(p) ==
    /\ pc[p] = "tag"
    /\ Goto(p, "publish")
    /\ UNCHANGED <<row, file, obj, part, lock, sweep>>

\* os.replace onto the archive path.
Publish(p) ==
    /\ pc[p] = "publish"
    /\ file' = [file EXCEPT ![Path(p)] = AccountOf[p]]
    /\ Drop(p)
    /\ Goto(p, "save")
    /\ UNCHANGED <<row, obj, lock, sweep>>

\* Slip: the row keeps the path it was imported with.
SaveOldPath(p) ==
    /\ pc[p] = "save"
    /\ row' = [path |-> Imported, archived |-> TRUE]
    /\ End(p)
    /\ Release(p)
    /\ UNCHANGED <<file, part, sweep>>

\* _finalize_archive: track.save() writes every column of the object.
Save(p) ==
    /\ pc[p] = "save"
    /\ row' = [obj[p].row EXCEPT !.archived = TRUE]
    /\ IF p \in Player
       THEN obj' = [obj EXCEPT ![p].row = row'] /\ Goto(p, "play")
       ELSE End(p)
    /\ Release(p)
    /\ UNCHANGED <<file, part, sweep>>

\* track.save() fails (the database is locked, or gone): the file stays
\* published, the lock is released, the error goes up.
SaveFails(p) ==
    /\ pc[p] = "save"
    /\ End(p)
    /\ Release(p)
    /\ UNCHANGED <<row, file, part, sweep>>

\* stream_media: the file is sent, or what a transcoder made of it earlier,
\* and the play is counted on the object this request read, with a save() of
\* the whole row.  The request may also fail before it.
Play(p) ==
    /\ pc[p] = "play"
    /\ row' \in {row, obj[p].row}
    /\ End(p)
    /\ UNCHANGED <<file, part, lock, sweep>>

-----------------------------------------------------------------------------
(* The live stream: everything up to the end of the download is unlocked.   *)

\* The route of the web player: a file on disk is served, and there is no
\* step for it; otherwise open_live_stream.
LoadLive(p) ==
    /\ p \in Live
    /\ pc[p] = "idle"
    /\ ~OnDisk(row.path)
    /\ obj' = [obj EXCEPT ![p] = [row |-> row, looked |-> row.path]]
    /\ Goto(p, "resolve")
    /\ UNCHANGED <<row, file, part, lock, sweep>>

\* generate() begins: the file appeared since, and is served; or the
\* download starts, teed to a staging file.
Begin(p) ==
    /\ pc[p] = "stream"
    /\ part[p] = "none"
    /\ IF OnDisk(Path(p))
       THEN End(p) /\ UNCHANGED part
       ELSE part' = [part EXCEPT ![p] = "staged"] /\ UNCHANGED <<pc, obj>>
    /\ UNCHANGED <<row, file, lock, sweep>>

\* The last block went through, and the archive path is looked at: discard
\* the staging file, or go for the lock.
Complete(p) ==
    /\ pc[p] = "stream"
    /\ part[p] = "staged"
    /\ IF OnDisk(Path(p))
       THEN Drop(p) /\ End(p)
       ELSE Goto(p, "wait") /\ UNCHANGED <<obj, part>>
    /\ UNCHANGED <<row, file, lock, sweep>>

\* The client left, or the download broke: the partial is dropped.
Abort(p) ==
    /\ pc[p] = "stream"
    /\ part[p] = "staged"
    /\ Drop(p)
    /\ End(p)
    /\ UNCHANGED <<row, file, lock, sweep>>

\* track_lock, and the second look under it.
LockLive(p) ==
    /\ pc[p] = "wait"
    /\ \/ /\ ~OnDisk(Path(p))
          /\ Acquire(p)
          /\ Goto(p, "tag")
          /\ UNCHANGED part
       \/ /\ OnDisk(Path(p))
          /\ MyLock(p) = NoFile
          /\ Drop(p)
          /\ End(p)
          /\ UNCHANGED lock
    /\ UNCHANGED <<row, file, sweep>>

-----------------------------------------------------------------------------
(* The cleanup, one run at a time (cleanup._lock).                          *)

\* candidates(): the archived row, with the path it has now.
Candidate ==
    /\ cleaner.at = "idle"
    /\ removals < MaxRemovals
    /\ row.archived
    /\ OnDisk(row.path)
    /\ cleaner' = [at |-> "held", path |-> row.path]
    /\ UNCHANGED <<row, file, pc, obj, part, lock, removals>>

\* os.remove, or the file is gone already and the candidate is skipped.
Remove ==
    /\ cleaner.at = "held"
    /\ IF OnDisk(cleaner.path)
       THEN /\ file' = [file EXCEPT ![cleaner.path] = NoFile]
            /\ cleaner' = [cleaner EXCEPT !.at = "removed"]
            /\ removals' = removals + 1
       ELSE /\ cleaner' = Swept
            /\ UNCHANGED <<file, removals>>
    /\ UNCHANGED <<row, pc, obj, part, lock>>

\* _flag_removed: last_modification = 0, and no other column.
Flag ==
    /\ cleaner.at = "removed"
    /\ cleaner' = Swept
    /\ row' = [row EXCEPT !.archived = FALSE]
    /\ UNCHANGED <<file, pc, obj, part, lock, removals>>

\* _flag_removed raised: logged, and the run goes on.
FlagFails ==
    /\ cleaner.at = "removed"
    /\ cleaner' = Swept
    /\ UNCHANGED <<row, file, pc, obj, part, lock, removals>>

-----------------------------------------------------------------------------
\* What a thread does once it has begun to archive.
Work(p) ==
    \/ \E f \in Format : Resolve(p, f)
    \/ Fetch(p) \/ Fail(p) \/ Tag(p) \/ Publish(p)
    \/ Save(p) \/ SaveFails(p)

Next ==
    \/ \E p \in Thread :
        \/ Load(p) \/ LoadLive(p) \/ Check(p) \/ Lock(p) \/ Work(p) \/ Play(p)
        \/ Begin(p) \/ Complete(p) \/ Abort(p) \/ LockLive(p)
    \/ Candidate \/ Remove \/ Flag \/ FlagFails

Spec == Init /\ [][Next]_vars

\* Every request to Deezer carries a timeout and the disk answers: a thread
\* that holds a lock takes its next step.
Fairness == \A p \in Thread : WF_vars(Work(p))

FairSpec == Spec /\ Fairness

-----------------------------------------------------------------------------
\* Types.
TypeOK ==
    /\ row \in Rows
    /\ file \in [Format -> Account \cup {NoFile}]
    /\ pc \in [Thread -> States]
    /\ obj \in [Thread -> Objects]
    /\ part \in [Thread -> {"none", "staged"}]
    /\ lock \in [Account -> Thread \cup {NoFile}]
    /\ cleaner \in [at : {"idle", "held", "removed"}, path : Format]
    /\ removals \in 0..MaxRemovals

\* The part of the code a thread runs inside `with track_lock'.
Locked(p) ==
    \/ pc[p] \in {"fetch", "tag", "publish", "save"}
    \/ pc[p] = "resolve" /\ p \notin Live

\* The lock of an account is held by the one thread of that account that is
\* between taking it and releasing it, whichever way it leaves: no error
\* path keeps it and no two threads of one account archive at once.
LockIsHeld ==
    \A p \in Thread : Locked(p) <=> MyLock(p) = p

\* "The partial goes with it": a thread that is not downloading or
\* publishing has no staging file left on the disk.
NoLeftovers ==
    \A p \in Thread :
        part[p] # "none" => pc[p] \in {"stream", "wait", "tag", "publish"}

\* A row that says "on disk" has its file, until the cleanup has removed one:
\* whatever formats Deezer fell back to and whichever thread saved last.
ArchivedRowHasFile ==
    row.archived /\ ~OnDisk(row.path) => removals > 0

\* What the lock and the look under it give: a file already published is
\* fetched again and replaced only by another account, whose lock is another
\* one, or by a thread that looked for the track in another format.
Replaces(p) == pc[p] = "publish" /\ pc'[p] = "save" /\ OnDisk(Path(p))
FetchedOnce ==
    [][\A p \in Thread : Replaces(p) =>
          file[Path(p)] # AccountOf[p] \/ obj[p].looked # Path(p)]_vars

-----------------------------------------------------------------------------
(* What the comments say and the code does not do (see README, findings).   *)

\* "A full-row write is also a lost update ... and the track read as not
\* archived again": only the cleanup takes an archived row back.
NeverUnarchived ==
    [][row.archived /\ ~row'.archived => cleaner.at = "removed"]_vars
=============================================================================
