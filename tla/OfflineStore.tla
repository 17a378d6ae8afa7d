---------------------------- MODULE OfflineStore ----------------------------
(***************************************************************************)
(* Downloads on the device (webapp/src/lib/offline.js).  The page lists    *)
(* them: a record each in IndexedDB, mirrored into stores in memory.  The  *)
(* audio is a Blob beside the record or, in the Android app, a file of the *)
(* app's (nativeoffline.js, OfflineStore.kt), which fetches it by itself   *)
(* and answers the page by an event.  Two chores follow a launch: records  *)
(* under the keys of older builds are renamed (keymigrate.js), and Blobs   *)
(* are moved to the app.                                                   *)
(*                                                                         *)
(* The page is one thread that changes hands at each await, and a          *)
(* transaction of IndexedDB happens at once, with what follows it.  A file *)
(* has one size, 1.  Covers, progress, and the way a download steps aside  *)
(* for the player are left out.                                            *)
(***************************************************************************)
EXTENDS Integers, FiniteSets

CONSTANTS
    Track,
    Remover,    \* removals that may be under way at once
    MaxTaps,    \* bound: downloads, removals and clearings
    MaxLaunch   \* bound: launches of the page

VARIABLES
    native,     \* the page runs in an app that keeps the audio
    rec,        \* record of a track under its key: "none", with a Blob, or of the "app"
    oldrec,     \* tracks with a record, and its Blob, under the key of older builds
    file,       \* tracks whose audio the app has
    part,       \* the app's partial file: "no", of a "fetch", or "moved" in from the page
    app,        \* its thread: "no", "fetch", or "stop" when it has been cancelled
    event,      \* its answer on the way to the page: "no", "done" or "error"
    up,         \* the page is there, its index loaded
    index,      \* downloads: what the page lists
    total,      \* downloadsSize
    storedAs,   \* tracks the page looks up under their old key
    held,       \* stored: tracks the page believes the app has
    dl,         \* downloadTrack of a track, by what it awaits
    rm,         \* removeTrack, by what it awaits
    mv,         \* adoptAll: what it awaits, for which track
    chore,      \* "due", "migrate" or "move"
    todo,       \* its tracks
    taps,
    launches,
    wanted,     \* history: downloaded, and not removed since
    crossed     \* history: tracks removed across another operation on them

device == <<rec, oldrec>>
store == <<file, part, app, event>>
mirror == <<index, total, storedAs, held>>
flow == <<dl, rm, mv, chore, todo>>
vars == <<native, device, store, up, mirror, flow, taps, launches, wanted, crossed>>

Idle == [at |-> "idle", id |-> CHOOSE id \in Track : TRUE, name |-> "key", disk |-> "key", had |-> FALSE]
Still == [at |-> "idle", id |-> CHOOSE id \in Track : TRUE]

TypeOK ==
    /\ native \in BOOLEAN /\ up \in BOOLEAN
    /\ rec \in [Track -> {"none", "blob", "app"}] /\ oldrec \subseteq Track
    /\ \A id \in oldrec : rec[id] = "none"
    /\ file \subseteq Track /\ held \subseteq Track
    /\ part \in [Track -> {"no", "fetch", "moved"}]
    /\ app \in [Track -> {"no", "fetch", "stop"}]
    /\ \A id \in Track : part[id] = "fetch" <=> app[id] = "fetch"
    /\ event \in [Track -> {"no", "done", "error"}]
    /\ index \subseteq Track /\ total \in Nat
    /\ storedAs \subseteq Track
    /\ dl \in [Track -> {"no", "clear", "body", "app", "gain"}]
    /\ rm \in [Remover -> [at : {"idle", "read", "delete"}, id : Track, name : {"key", "old"},
                           disk : {"key", "old"}, had : BOOLEAN]]
    /\ mv \in [at : {"idle", "put", "commit", "record"}, id : Track]
    /\ chore \in {"due", "migrate", "move"} /\ todo \subseteq Track
    /\ wanted \subseteq Track /\ crossed \subseteq Track
    /\ ~native => file = {} /\ \A id \in Track : rec[id] # "app" /\ app[id] = "no"
    /\ taps \in 0..MaxTaps /\ launches \in 0..MaxLaunch

\* A device with downloads of earlier builds, before a launch.
Init ==
    /\ native \in BOOLEAN
    /\ rec \in [Track -> IF native THEN {"none", "blob", "app"} ELSE {"none", "blob"}]
    /\ oldrec \in SUBSET {id \in Track : rec[id] = "none"}
    /\ file = {id \in Track : rec[id] = "app"}
    /\ part = [id \in Track |-> "no"] /\ app = [id \in Track |-> "no"]
    /\ event = [id \in Track |-> "no"]
    /\ up = FALSE
    /\ index = {} /\ total = 0 /\ storedAs = {} /\ held = {}
    /\ dl = [id \in Track |-> "no"] /\ rm = [r \in Remover |-> Idle] /\ mv = Still
    /\ chore = "due" /\ todo = {}
    /\ taps = 0 /\ launches = 0
    /\ wanted = {id \in Track : rec[id] # "none"} \cup oldrec /\ crossed = {}

-----------------------------------------------------------------------------
\* The app (OfflineStore.kt).

\* remove: the audio goes, a partial one too, and a fetch is told to stop.
AppRemoves(ids) ==
    /\ file' = file \ ids
    /\ part' = [id \in Track |-> IF id \in ids THEN "no" ELSE part[id]]
    /\ app' = [id \in Track |-> IF id \in ids /\ app[id] = "fetch" THEN "stop" ELSE app[id]]

\* send: nobody hears it while there is no page.
Answers(id, what) == event' = IF up THEN [event EXCEPT ![id] = what] ELSE event

\* fetch: the file is published once whole; a cancelled one fails.
AppDone(id) ==
    /\ app[id] = "fetch"
    /\ file' = file \cup {id}
    /\ part' = [part EXCEPT ![id] = "no"]
    /\ app' = [app EXCEPT ![id] = "no"]
    /\ Answers(id, "done")
    /\ UNCHANGED <<native, device, up, mirror, flow, taps, launches, wanted, crossed>>

AppFails(id) ==
    /\ app[id] # "no"
    /\ part' = [part EXCEPT ![id] = "no"]
    /\ app' = [app EXCEPT ![id] = "no"]
    /\ Answers(id, "error")
    /\ UNCHANGED <<native, device, file, up, mirror, flow, taps, launches, wanted, crossed>>

\* __nsOffline: the event finds its download, or a page that does not wait for it.
Hear(id) ==
    /\ up /\ event[id] # "no"
    /\ event' = [event EXCEPT ![id] = "no"]
    /\ IF dl[id] = "app"
         THEN /\ dl' = [dl EXCEPT ![id] = IF event[id] = "done" THEN "gain" ELSE "no"]
              /\ held' = IF event[id] = "done" THEN held \cup {id} ELSE held
         ELSE UNCHANGED <<dl, held>>
    /\ UNCHANGED <<native, device, file, part, app, up, index, total, storedAs, rm, mv, chore,
                   todo, taps, launches, wanted, crossed>>

-----------------------------------------------------------------------------
\* downloadTrack.

Download(id) ==
    /\ up /\ taps < MaxTaps
    /\ id \notin index /\ dl[id] = "no"
    /\ taps' = taps + 1
    /\ dl' = [dl EXCEPT ![id] = "clear"]
    /\ UNCHANGED <<native, device, store, up, mirror, rm, mv, chore, todo, launches, wanted,
                   crossed>>

\* whenClear is over: the page fetches the body, or has the app fetch it, which
\* goes on with what it is fetching already.
Fetch(id) ==
    /\ dl[id] = "clear"
    /\ dl' = [dl EXCEPT ![id] = IF native THEN "app" ELSE "body"]
    /\ IF native /\ app[id] = "no"
         THEN /\ app' = [app EXCEPT ![id] = "fetch"]
              /\ part' = [part EXCEPT ![id] = "fetch"]
         ELSE UNCHANGED <<app, part>>
    /\ UNCHANGED <<native, device, file, event, up, mirror, rm, mv, chore, todo, taps, launches,
                   wanted, crossed>>

Fetched(id) ==
    /\ dl[id] = "body"
    /\ \E to \in {"gain", "no"} : dl' = [dl EXCEPT ![id] = to]
    /\ UNCHANGED <<native, device, store, up, mirror, rm, mv, chore, todo, taps, launches, wanted,
                   crossed>>

\* The gain is known, and the record written.
Recorded(id) ==
    /\ dl[id] = "gain"
    /\ rec' = [rec EXCEPT ![id] = IF native THEN "app" ELSE "blob"]
    /\ index' = index \cup {id}
    /\ total' = total + 1
    /\ wanted' = wanted \cup {id}
    /\ dl' = [dl EXCEPT ![id] = "no"]
    /\ UNCHANGED <<native, oldrec, store, up, storedAs, held, rm, mv, chore, todo, taps, launches,
                   crossed>>

\* The device is full: the app's file stays, without a record.
RecordFails(id) ==
    /\ dl[id] = "gain"
    /\ dl' = [dl EXCEPT ![id] = "no"]
    /\ UNCHANGED <<native, device, store, up, mirror, rm, mv, chore, todo, taps, launches, wanted,
                   crossed>>

-----------------------------------------------------------------------------
\* removeTrack and clearAll.

\* The app has the file of a download the page has still to record, or gets the
\* Blob of one that is being moved.
HalfMade(id) ==
    \/ native /\ (dl[id] = "gain" \/ event[id] = "done")
    \/ mv.at # "idle" /\ mv.id = id

\* A removal by the track's key, or by the id a list of records read earlier
\* shows (Settings.svelte), which may be the old one.
Remove(r, id, name) ==
    /\ up /\ taps < MaxTaps /\ rm[r].at = "idle"
    /\ name = "key" => id \in index
    /\ name = "old" => id \in oldrec
    /\ taps' = taps + 1
    /\ rm' = [rm EXCEPT ![r] = [at |-> "read", id |-> id, name |-> name, had |-> FALSE,
                disk |-> IF name = "old" \/ id \in storedAs THEN "old" ELSE "key"]]
    /\ UNCHANGED <<native, device, store, up, mirror, dl, mv, chore, todo, launches, wanted,
                   crossed>>

RemoveReads(r) ==
    /\ rm[r].at = "read"
    /\ rm' = [rm EXCEPT ![r].at = "delete",
                        ![r].had = IF rm[r].disk = "old" THEN rm[r].id \in oldrec
                                   ELSE rec[rm[r].id] # "none"]
    /\ UNCHANGED <<native, device, store, up, mirror, dl, mv, chore, todo, taps, launches, wanted,
                   crossed>>

Removed(r) ==
    /\ rm[r].at = "delete"
    /\ LET id == rm[r].id
           late == rm[r].disk = "old" /\ id \notin oldrec
       IN /\ IF rm[r].disk = "old"
               THEN oldrec' = oldrec \ {id} /\ UNCHANGED rec
               ELSE rec' = [rec EXCEPT ![id] = "none"] /\ UNCHANGED oldrec
          /\ IF rm[r].name = "key"
               THEN /\ IF native THEN AppRemoves({id}) ELSE UNCHANGED <<file, part, app>>
                    /\ held' = held \ {id}
                    /\ storedAs' = storedAs \ {id}
                    /\ index' = index \ {id}
               ELSE UNCHANGED <<file, part, app, held, storedAs, index>>
          /\ total' = IF rm[r].had /\ total > 0 THEN total - 1 ELSE total
          /\ wanted' = wanted \ {id}
          /\ crossed' = IF \/ HalfMade(id) \/ late \/ rm[r].name = "old"
                           \/ \E s \in Remover \ {r} : rm[s].at # "idle" /\ rm[s].id = id
                        THEN crossed \cup {id} ELSE crossed
    /\ rm' = [rm EXCEPT ![r] = Idle]
    /\ UNCHANGED <<native, event, up, dl, mv, chore, todo, taps, launches>>

\* Everything goes, but storedAs.
ClearAll ==
    /\ up /\ taps < MaxTaps
    /\ taps' = taps + 1
    /\ rec' = [id \in Track |-> "none"] /\ oldrec' = {}
    /\ AppRemoves(Track)
    /\ index' = {} /\ total' = 0 /\ held' = {}
    /\ wanted' = {}
    /\ crossed' = crossed \cup storedAs \cup {id \in Track : HalfMade(id)}
                    \cup {rm[r].id : r \in {s \in Remover : rm[s].at # "idle"}}
    /\ UNCHANGED <<native, event, up, storedAs, dl, rm, mv, chore, todo, launches>>

-----------------------------------------------------------------------------
\* The chores of a launch.

\* migrateStoredKeys, over the old keys the page knows by then.
StartMigration ==
    /\ up /\ chore = "due"
    /\ chore' = "migrate"
    /\ todo' = storedAs
    /\ UNCHANGED <<native, device, store, up, mirror, dl, rm, mv, taps, launches, wanted, crossed>>

Migrate(id) ==
    /\ chore = "migrate" /\ id \in todo
    /\ rec' = IF id \in oldrec /\ rec[id] = "none" THEN [rec EXCEPT ![id] = "blob"] ELSE rec
    /\ oldrec' = oldrec \ {id}
    /\ storedAs' = storedAs \ {id}
    /\ todo' = todo \ {id}
    /\ UNCHANGED <<native, store, up, index, total, held, dl, rm, mv, chore, taps, launches,
                   wanted, crossed>>

\* It is done, or failed: adoptAll goes over the Blobs there are by then.
StartMove ==
    /\ chore = "migrate"
    /\ chore' = "move"
    /\ todo' = IF native THEN {id \in Track : rec[id] = "blob"} ELSE {}
    /\ UNCHANGED <<native, device, store, up, mirror, dl, rm, mv, taps, launches, wanted, crossed>>

\* Slip: the Blob is taken from what the loop read at its start.
MoveNextBlindly(id) ==
    /\ chore = "move" /\ mv.at = "idle" /\ id \in todo
    /\ todo' = todo \ {id}
    /\ mv' = [at |-> "put", id |-> id]
    /\ UNCHANGED <<native, device, store, up, mirror, dl, rm, chore, taps, launches, wanted,
                   crossed>>

MoveNext(id) ==
    /\ chore = "move" /\ mv.at = "idle" /\ id \in todo
    /\ todo' = todo \ {id}
    /\ mv' = IF id \notin storedAs /\ rec[id] = "blob" THEN [at |-> "put", id |-> id] ELSE mv
    /\ UNCHANGED <<native, device, store, up, mirror, dl, rm, chore, taps, launches, wanted,
                   crossed>>

\* The device lacks room, the app refuses a piece, or the page's own storage the
\* record, whose file the app has then: the rest waits for another launch.
Stops == todo' = {} /\ mv' = Still

MoveStops ==
    /\ mv.at # "idle"
    /\ Stops
    /\ UNCHANGED <<native, device, store, up, mirror, dl, rm, chore, taps, launches, wanted,
                   crossed>>

MovePut ==
    /\ mv.at = "put" /\ app[mv.id] = "no"
    /\ part' = [part EXCEPT ![mv.id] = "moved"]
    /\ mv' = [mv EXCEPT !.at = "commit"]
    /\ UNCHANGED <<native, device, file, app, event, up, mirror, dl, rm, chore, todo, taps,
                   launches, wanted, crossed>>

\* The pieces are all there; or they are not, and what the app has is removed.
MoveCommit ==
    /\ mv.at = "commit"
    /\ IF part[mv.id] = "moved"
         THEN /\ file' = file \cup {mv.id}
              /\ part' = [part EXCEPT ![mv.id] = "no"]
              /\ held' = held \cup {mv.id}
              /\ mv' = [mv EXCEPT !.at = "record"]
              /\ UNCHANGED <<app, todo>>
         ELSE /\ AppRemoves({mv.id})
              /\ Stops
              /\ UNCHANGED held
    /\ UNCHANGED <<native, device, event, up, index, total, storedAs, dl, rm, chore, taps,
                   launches, wanted, crossed>>

\* The record the loop read at its start is written again, as one of the app's.
MoveRecord ==
    /\ mv.at = "record"
    /\ rec' = [rec EXCEPT ![mv.id] = "app"]
    /\ mv' = Still
    /\ UNCHANGED <<native, oldrec, store, up, mirror, dl, rm, chore, todo, taps, launches, wanted,
                   crossed>>

-----------------------------------------------------------------------------
\* The page goes, at any await, and the app with it or not.
Leaves ==
    /\ up
    /\ up' = FALSE
    /\ index' = {} /\ total' = 0 /\ storedAs' = {} /\ held' = {}
    /\ dl' = [id \in Track |-> "no"] /\ rm' = [r \in Remover |-> Idle] /\ mv' = Still
    /\ chore' = "due" /\ todo' = {}
    /\ event' = [id \in Track |-> "no"]
    /\ \/ UNCHANGED <<part, app>>
       \/ part' = [id \in Track |-> "no"] /\ app' = [id \in Track |-> "no"]
    /\ UNCHANGED <<native, device, file, taps, launches, wanted, crossed>>

\* loadOfflineIndex, with reconcileNative: a file without a record goes, and so
\* does a record without its file.  `listed`: what the app's list says.
Load(listed) ==
    LET records == {id \in Track : rec[id] # "none"} \cup oldrec
        lost == {id \in Track : rec[id] = "app" /\ id \notin listed}
    IN /\ ~up /\ launches < MaxLaunch
       /\ launches' = launches + 1
       /\ up' = TRUE
       /\ IF native THEN AppRemoves(listed \ records) ELSE UNCHANGED <<file, part, app>>
       /\ rec' = [id \in Track |-> IF id \in lost THEN "none" ELSE rec[id]]
       /\ index' = records \ lost
       /\ total' = Cardinality(records \ lost)
       /\ storedAs' = oldrec
       /\ held' = listed \cap records
       /\ wanted' = ((wanted \ crossed) \cup (crossed \cap (records \ lost)))
                      \ (IF listed = file THEN {} ELSE lost)
       /\ crossed' = {}
       /\ UNCHANGED <<native, oldrec, event, flow, taps>>

Launch == Load(file)

\* The list cannot be had: it is taken for an empty one.
LaunchUnlisted == native /\ Load({})

Next ==
    \/ \E id \in Track :
          \/ AppDone(id) \/ AppFails(id) \/ Hear(id)
          \/ Download(id) \/ Fetch(id) \/ Fetched(id) \/ Recorded(id) \/ RecordFails(id)
          \/ \E r \in Remover, name \in {"key", "old"} : Remove(r, id, name)
          \/ Migrate(id) \/ MoveNext(id)
    \/ \E r \in Remover : RemoveReads(r) \/ Removed(r)
    \/ ClearAll \/ StartMigration \/ StartMove
    \/ MoveStops \/ MovePut \/ MoveCommit \/ MoveRecord
    \/ Leaves \/ Launch \/ LaunchUnlisted

Spec == Init /\ [][Next]_vars

-----------------------------------------------------------------------------
Plays(id) ==
    IF id \in held THEN id \in file
    ELSE IF id \in storedAs THEN id \in oldrec ELSE rec[id] = "blob"

Resting ==
    up /\ mv.at = "idle" /\ (\A id \in Track : dl[id] = "no") /\ \A r \in Remover : rm[r].at = "idle"

\* Whenever no operation is under way, the page lists exactly the tracks the
\* user downloaded and did not remove, each has a record and can be played
\* without a network, and the size shown is theirs: across pages and apps that
\* die at any step, late answers, files and records left by either, the renaming
\* and the move.  Except for a track removed while its file was ahead of its
\* record, under a key it was losing, by the key it had lost or twice at once,
\* and only until the next launch; and for a list of the app's that could not
\* be had, which costs its downloads.
AsTheUserLeftIt ==
    Resting =>
        /\ \A id \in Track \ crossed :
              /\ id \in wanted <=> id \in index
              /\ id \in index <=> rec[id] # "none" \/ id \in oldrec
              /\ id \in index => Plays(id)
        /\ crossed = {} => total = Cardinality(index)
=============================================================================
