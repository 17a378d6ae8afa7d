------------------------------- MODULE MCKept -------------------------------
(***************************************************************************)
(* Seven parts that keep a state of their own and promise only that no     *)
(* step spoils it: the player's queue, the session a reload resumes, a     *)
(* library job, the file cache, the watcher of the folders, the downloads  *)
(* on a device and the queue of the covers.  They do not meet: each        *)
(* behaviour of this module is one of the part it focuses on, and one run  *)
(* checks them all.                                                        *)
(* The library job is extended and not instantiated, so that its invariant *)
(* here is the one its theorems are about.                                 *)
(***************************************************************************)
EXTENDS LibraryJob

CONSTANTS Track, NoTrack, Cap, Ahead, MaxQueue, SessionCap, TightCap,
          Key, Thread, MaxSize, MaxPiece, Path, NoPath, MaxOps,
          Song, Remover, MaxTaps, MaxLaunch, Cover, MAX_INFLIGHT, AHEAD_SLOTS

VARIABLES
    focus,
    queue, index, playing, seq, shuffle, orig, autoplay, topup, ended,
    list, place, plays, saved, offset, tick, fresh, saving,
    files, size, disk, holder, thread, raced,
    folder, told, entries, ripe, timer, loose, scanner, item, running, lib, ops,
    missed, astray,
    native, rec, oldrec, file, part, app, event, up, shown, total, storedAs, held, dl, rm, mv,
    chore, todo, taps, launches, wanted, crossed,
    where, waiting, started, counted, stall, inflight, frame, recheck

Queue == INSTANCE PlayerQueue
Session == INSTANCE PlayerSession WITH queue <- list, index <- place, playing <- plays
Cache == INSTANCE FileCache
Watch == INSTANCE Watcher WITH disk <- folder, queue <- entries, thread <- scanner
Offline == INSTANCE OfflineStore WITH Track <- Song, index <- shown
Covers == INSTANCE CoverQueue WITH place <- where, pending <- waiting

ofQueue == <<queue, index, playing, seq, shuffle, orig, autoplay, topup, ended>>
ofSession == <<list, place, plays, saved, offset, tick, fresh, saving>>
ofJob == vars
ofCache == <<files, size, disk, holder, thread, raced>>
ofWatch == <<folder, told, entries, ripe, timer, loose, scanner, item, running, lib, ops,
             missed, astray>>
ofOffline == <<native, rec, oldrec, file, part, app, event, up, shown, total, storedAs, held,
               dl, rm, mv, chore, todo, taps, launches, wanted, crossed>>
ofCovers == <<where, waiting, started, counted, stall, inflight, frame, recheck>>
web == <<ofQueue, ofSession, ofOffline, ofCovers>>
server == <<ofJob, ofCache, ofWatch>>
allVars == <<focus, web, server>>

KeptInit ==
    /\ focus \in {"queue", "session", "job", "cache", "watch", "offline", "covers"}
    /\ Queue!Init /\ Session!Init /\ Init /\ Cache!Init /\ Watch!Init
    /\ Offline!Init /\ Covers!Init
    /\ focus # "watch" => folder = {}
    /\ focus # "offline" => ~native /\ oldrec = Song

KeptNext ==
    /\ UNCHANGED focus
    /\ \/ /\ UNCHANGED server
          /\ \/ focus = "queue" /\ Queue!Next /\ UNCHANGED <<ofSession, ofOffline, ofCovers>>
             \/ focus = "session" /\ Session!Next /\ UNCHANGED <<ofQueue, ofOffline, ofCovers>>
             \/ focus = "offline" /\ Offline!Next /\ UNCHANGED <<ofQueue, ofSession, ofCovers>>
             \/ focus = "covers" /\ Covers!Next /\ UNCHANGED <<ofQueue, ofSession, ofOffline>>
       \/ /\ UNCHANGED web
          /\ \/ focus = "job" /\ Next /\ UNCHANGED <<ofCache, ofWatch>>
             \/ focus = "cache" /\ Cache!Next /\ UNCHANGED <<ofJob, ofWatch>>
             \/ focus = "watch" /\ Watch!Next /\ UNCHANGED <<ofJob, ofCache>>

KeptSpec == KeptInit /\ [][KeptNext]_allVars

-----------------------------------------------------------------------------
KeptTypeOK ==
    /\ Queue!TypeOK /\ Session!TypeOK /\ Offline!TypeOK /\ Covers!TypeOK
    /\ TypeOK /\ Cache!TypeOK /\ Watch!TypeOK

\* Only a deliberate navigation, a reload or a removal changes what plays
\* (stores.js, Player.svelte).
KeepsPlaying == Queue!KeepsPlaying

\* A reload resumes on the track that was playing, wherever the page died
\* between its two writes (readSession).
ResumesWhereHeard == Session!ResumesWhereHeard

\* The size of the cache is the sum of its entries, and every file has one
\* (cache.py).
Accounted == Cache!Accounted

\* A watcher at rest has a row for exactly the files on the disk (watcher.py,
\* scanner.py).
LibraryFollows == Watch!LibraryFollows

\* The downloads a device lists are those the user made and did not remove, and
\* they play (offline.js, nativeoffline.js).
AsTheUserLeftIt == Offline!AsTheUserLeftIt

\* No cover that waits is forgotten, and no slot is lost (coverqueue.js).
Attended == Covers!Attended
=============================================================================
