# TLA+ models of NSupySonic

NSupySonic is a Subsonic-compatible music server (`supysonic/`, Python) with a
web client (`webapp/`, Svelte) and an Android application around it, whose
library is completed from Deezer (`deezerpy/`) and archived to the server's
disk. This directory holds TLA+ modules of the parts whose correctness depends
on the order in which threads, requests, callbacks and messages meet, the TLC
configurations that check them, and proofs that TLAPS checks.

The server is one process: a gunicorn worker with sixteen request threads, plus
daemon threads (download workers, look-ahead workers, sweeps, jobs, the
watcher). What they share lives in memory, behind locks that are held for a few
lines each; the database is written row by row, without transactions around a
whole operation. The web client is one thread that changes hands at each
`await`, and a page that may be killed at any of them. That is where the
interesting behaviour is: state read before a lock, a request or a callback and
used after it.

## Inventory

| Component | State it keeps | Operations | Hard because | Correct when |
|---|---|---|---|---|
| Circuit breaker, `deezerpy/_circuit.py` | per host: failures, open_until, cooldown, probe_started | before_request, on_success, on_failure, reset | reports arrive long after the trip; a probe may never report | an outage is not forgotten early, and its end is always noticed |
| Archiver, `deezer/archive.py` | rows of tracks, files, staging files, track locks | ensure_archived, open_live_stream, finalize | threads hold copies of the row; locks per account; the path changes with the format | no lost row, no half-written file, no leftover, no lock kept |
| Cleanup, `deezer/cleanup.py` | the archive's files | candidates, run | runs beside the archiver without its lock | a row that says "on disk" has a file |
| Download queue, `deezer/prefetch.py` | priority queue, workers, retries | _offer, _dl_worker | failures are classified after the fact by asking the breaker | accepted work is neither lost nor held for ever |
| Look-ahead queue, `deezer/prefetch.py` | _seen, queue | enqueue, _worker | two locks | _seen agrees with who answers for the track |
| Account session, `deezer/provider.py` | _dz, memo, login back-off, trust window | dz, resolve, relogin, check_login, set_arl | one session under all threads; an expired licence looks like a missing track | only a track Deezer dropped is condemned |
| Remote channel, `webui/remote.py`, `lib/remote/host.js` | commands, seq, ack; the page's cursor | cmd, poll, publish | restarts, reloads, lost and overlapping polls | a tap runs once, in order, and does land |
| Remote links, `webui/remote.py` | links, their cache, the controller's cookie | claim, live_link, cmd, revoke, leave | a fill of the cache and a command on its way cross a cut | a cut ends access, and the browser is the owner only by its link |
| Party host, `lib/party/host.js`, `webui/party.py` | the session shared by flush, heartbeat and recover; the registry | start, publish, heartbeat, recover, end | three asynchronous flows share one session; the server forgets | guests follow the host |
| Party guest, `lib/party/guest.js`, `webui/party.py` | seat, poll loops; the listeners | join, poll, resume, drop | two loops after the page was hidden; lost answers, seats that time out | the guest plays what the server holds, on one seat |
| Library jobs, `libjob.py`, `trackcredits.py` | checkpoint, running counts, mark of completion | start, stop, resume, page, batch, mark | crash between work and checkpoint; counts shared between runs | no row queued for Deezer is skipped |
| File cache, `cache.py`, `webui/storage.py` | entries, size | put, get, touch, delete, has, _empty | entries removed and written outside the lock | size is the sum of the entries |
| Verdicts, `webui/availability.py`, `deezer/library.py` | Track.unavailable | mark, clear, probe, archive, full-row saves | stale copies of a row; rights that come back | the verdict comes to say what is |
| Enrichment queue, `enrich/queue.py` | queue, worker | queue_track, drain | the worker ends when idle | nothing queued waits for ever |
| Watcher and scanner, `watcher.py`, `scanner.py` | event queue, timer, thread; rows | put, notify, run, stop | events merged and delayed; wake-ups lost | the library follows the folders |
| Player's queue, `lib/stores.js`, `Player.svelte` | queue, place, shuffled order, autoplay | play, add, move, remove, shuffle, top-up | the radio's answers arrive after the queue was edited | nothing but the user changes what plays |
| Player's session, `lib/stores.js` | two localStorage keys | saveIdle, tick, readSession | the page dies between the two writes | a reload resumes where it was |
| Downloads on the device, `lib/offline.js`, `nativeoffline.js`, `keymigrate.js`, `OfflineStore.kt` | records, Blobs, the app's files, mirrors in memory | download, remove, clear, reconcile, rename, move | page and app die apart; a record and its file are two stores; keys change | the list is what the user made it, and each entry plays |
| Cover queue, `lib/coverqueue.js` | waiting covers, slots, timers | request, pump, settle, stall, release | nothing runs by itself; slots are counted by hand | no cover is forgotten, no slot is lost |

They interact like this. A request thread or a download worker calls
`ensure_archived`, which takes the track's lock, asks the account's session for
a source (`resolve`), whose every HTTP request passes the circuit breaker of its
host; a transport failure comes back through all of them to the worker, which
asks the breaker how long to wait. A refusal becomes a verdict on the track's
row, which the web player's probe reads and may lift. A live stream that is cut
short puts its track on the download queue; every archived file wakes the
cleanup and enters the enrichment queue. The web client's player is what a party
host publishes and what the remote channel drives. The cache, the jobs, the
watcher and the client's downloads and covers share nothing with these but the
process and the page.

Everything else in the repository is listed in `PROJECT.json` with the reason it
is not modelled; "Not modelled" below says why it is most of the lines.

## Modules

| Module | Models | Used by |
|---|---|---|
| `CircuitBreaker` | `deezerpy/_circuit.py`, one host | `DownloadQueue` |
| `TaskPool` | what a bounded queue with workers promises (abstract) | `DownloadQueue`, `PrefetchQueue` |
| `DownloadQueue` | the download queue, composed with the breaker | |
| `PrefetchQueue` | the look-ahead queue | |
| `Archive` | one track: row, files, locks, threads, cleanup | |
| `DeezerSession` | one account: session, memo, `resolve` | |
| `RemoteChannel` | the server's channel and the controlled page | |
| `RemoteLinks` | links onto one player, their cache, a controller's cookie | `MCMends` |
| `Party`, `PartySeat` | a party's host and the registry; one guest and its seat | `MCMends` |
| `Availability` | the verdict on one track | `MCMends` |
| `EnrichQueue` | the enrichment queue | `MCMends` |
| `PlayerQueue`, `PlayerSession` | the player's queue; how it resumes | `MCKept` |
| `LibraryJob` | the checkpointed job with the credits backfill on it | `MCKept` |
| `FileCache` | the bounded cache of files | `MCKept` |
| `Watcher` | watcher and scanner of a folder | `MCKept` |
| `OfflineStore` | downloads on the device, in the page and in the app | `MCKept` |
| `CoverQueue` | the queue of the covers | `MCKept` |
| `MCArchive`, `MCDownloadQueue` | constants of the instances | |
| `MCKept`, `MCMends` | several small parts under one run each | |
| `KeptProofs`, `MendsProofs` | theorems about the parts of `MCKept` and of `MCMends` | |
| the other `...Proofs` (six) | theorems about the modules they are named for | |

`MCKept` and `MCMends` put parts that never meet under one run: the variable
`focus` picks one part in the initial state, the others stay as they began, and
the state space is the sum of the parts' and not their product. `MCKept` holds
those that promise that no step spoils their state, `MCMends` those that promise
to come right in the end. `LibraryJob` and `RemoteLinks` are extended there and
not instantiated, so that the invariants of the runs are the definitions the
proofs are about; of the instantiated parts the proofs speak through the
instance. The parts of `MCKept` take no more of the community modules
than they use: every `INSTANCE` brings a copy of what its module extends, and
the prover goes through all of it for each obligation.

**CircuitBreaker.** Each method runs under `_lock` and is one action; a request
is two steps, `Ask` and `Report`, and other threads run between them. Times are
relative: `wait` is what is left of `open_until`, `slot` of the probe's timeout,
and `Tick` passes one unit. A host without an entry behaves as a fresh one.

**DownloadQueue.** A worker takes the first entry among the smallest priorities,
tries, and on a transport failure reads the breaker *afterwards* (`Handle`):
nothing to wait for loses the entry, retries spent leave it to the nightly
sweep, otherwise it sleeps. `INSTANCE CircuitBreaker` shares the breaker with
`Other` request threads. The requests of one attempt are one request here. The
login back-off of the account, by which an attempt can fail without a request,
is left out: it belongs to `DeezerSession`.

**PrefetchQueue.** `enqueue` is three steps, because `_seen` and the queue have
different locks; `Mark` is the locked test-and-add.

**TaskPool** is the promise of both: an accepted entry waits or is in exactly
one hand, until it is finished.

**Archive.** One track; its row is a path and whether `last_modification > 0`.
Every thread has its own copy of the row (`obj`), as the ORM gives it. Formats
stand for paths. `looked` remembers, for a property, the path under which a
thread took the lock. The lock is per account, because each account has a
provider of its own. Whether the tags were written is not looked at: the code
publishes a file whose tagging failed as it is (`archive.py:149`).

**DeezerSession.** A session is `good` or `expired`; a token is `current` or
`old`. An old token, an expired licence and a dropped track get the same answer
from Deezer: that is the difficulty the code is about. `disturbed` records whose
session was dropped by someone else during their resolve.

**RemoteChannel.** Commands are pairs (channel, number). Polls and answers are
records in flight, delivered late, in any order, or lost. `since`, `chan`,
`applied` are the page's variables; a reload restores them from `sessionStorage`.
`stopRemoteHost` followed by a start is the same step as a reload. Only
`applied` is acknowledged. `overlap` remembers that two polls were in flight at
once, the one case in which a command can run twice.

**RemoteLinks.** A request is a thread that reads the cache, or misses it, reads
the row (`Fetch`), and then puts it in the cache (`Fill`); a cut writes the row,
drops the cache entry (`Forget`) and purges the channel (`Purge`), and each of
these can come between any two steps of the other. `uid`, `rc` and `prev` are
the controller's session cookie, which claiming a link and leaving it rewrite.

**Party** is the host: `flush`, `heartbeat`, `recover` and `measure` run between
awaits and share one session record `s`; `s.unsaid` remembers that an answer to
`partyStart` was lost. **PartySeat** is one guest: `loop` has an entry for each
poll loop, since `onVisible` starts a second one beside the timer's. The line
the server holds is the host's business in one, anybody's in the other.

**Availability.** A thread carries the verdict it read before it asked Deezer;
`clear_unavailable` looks at that, and not at the row. Two saves of a whole row
write the verdict and ask nobody: an archive that has landed voids it
(`Finalize`), and a Subsonic play (`Play`, or `Archive` for one) puts back the
verdict of when its row was read (`Saves`). A write of the one column may fail
unnoticed (`Writes`), and so may the saves (`Unsaved`).

**EnrichQueue.** The worker is "leaving" from its `Empty` to its end: still
alive to `_ensure_worker`, and no longer reading. `late` counts the tracks put
in that moment, for the property.

**PlayerQueue** has an action for each operation of `createPlayer` and one for
each continuation of the radio, which finds the queue as it has become.
**PlayerSession** leaves the queue to change at will, and models what is written,
when, and what `readSession` makes of two keys of different ages.

**LibraryJob.** Rows are numbered; a page is read, worked row by row, flushed as
a batch (`Flush`), and only then checkpointed (`Save`). `Restart` may come
anywhere. The thread of a job that has ended its walk is `marking` until it has
looked at the counts, which a new `start()` may have replaced. `passed` are the
rows a run got past without asking: the work raised, which `run` records before
it goes on, or the job had no provider.

**FileCache.** The steps of `put`, `get` and `delete` under the lock, `has()` and
the storage page's `_empty` without it. Every `_size -=` and `_size +=` is a load
(`Loads`) and a store (`Takes`, `Adds`), and the pop of the entry comes between
them (`Pops`), whoever does it and whether he has the lock. `raced` remembers
that two such changes overlapped, which takes one without the lock, or that an
entry was forgotten or written without it after its file or the entry had
changed; until then the size is the sum of the entries and every file has one,
and a restart, which lists the folder in any order, makes it so again.

**Watcher.** The disk, what watchdog has still to tell, the merged queue with
its delay (`ripe`: how many entries are past it), the timer, the thread and the
scanner's rows. `missed` remembers a notification that found the thread awake
but past its look at the queue, `astray` the paths of which a merge has lost the
order of events: a move onto a path that has events of its own, a file created
over the one a move is to bring, a move that does not take along what the
library has (`Spoilt` lists the cases). An event that scans or removes such a
path says again all there is to say of it, and takes it out. `stop()` ends
watchdog first, and the paths of what it had still to tell are `astray`, too.

**OfflineStore.** For each track its record, the app's file, and what the page
lists and believes; downloads, removals and the move to the app by the `await`
they are at; launches that reconcile. `wanted` is what the user asked for, and
`crossed` the tracks removed across another operation on them.

**CoverQueue.** A cover's distance is the place it is in; who waits is looked at
only in a frame or when the recheck timer fires.

## Runs

| Run | Shows | Instance | Distinct states |
|---|---|---|---|
| `circuit_breaker` | types; a closed circuit is fresh; the half-open slot only after the cooldown; the back-off never shrinks during an outage; recovery | 3 threads, threshold 3, cooldown 1 to 20, probe timeout 4 | 7 k |
| `archive` | types, lock, leftovers, row and file, who may fetch twice | one thread of each kind, 2 accounts, 2 formats, 1 removal | 394 k |
| `download_queue` | types; implements `TaskPool`; every entry settled; no loss once Deezer answers | 2 workers, 1 request thread, 3 entries, queue of 2 | 44 k |
| `prefetch_queue` | `_seen` agrees with queue, hands and adders; implements `TaskPool`; `_seen` released | 2 requesters, 2 workers, 3 tracks, queue of 1 | 10 k |
| `deezer_session` | a playable track is condemned only when another thread dropped the session; `resolve` ends | 2 threads, 1 playable and 1 dead track | 174 k |
| `remote_channel` | acknowledged means run; once and in order while polls do not overlap; commands land | 2 polls, 2 commands, 1 restart | 618 k |
| `kept` | nothing but the user changes what plays; a reload resumes there; no row queued for Deezer is skipped; the cache adds up; the library follows the disk; downloads are as the user left them; no cover and no slot is lost | seven parts, see below | 702 k |
| `mends` | guests come to follow the host and to hear the server, and a cut to hold and the verdict to be right, each for good; the owner only by link; tracks are taken | five parts, see below | 173 k |
| `archive_unarchived`, `session_condemned`, `party_silent`, `credits_done` | the disagreements below | as above | |

`kept` takes somewhat over two minutes and `mends` about three; the others seconds.

### Bounds

Three threads give the breaker a probe, a straggler of the time before the trip
and a further caller; a threshold of three with cooldowns up to twenty lets the
doubling reach and pass its cap. One archiver, one player of another account and
one live stream cover each pair of roles, and two of a kind differ in nothing;
one removal is enough to come between any two of their steps. Two workers, a
queue shorter than the number of entries and one retry make the queue overflow,
both workers sleep and retries run out. Two threads suffice for a session: one
resolves while another drops. Two polls overlap, one restart starts a new
numbering, and two commands have an order.

In `kept`:

- player: two tracks in queues of up to three, so that a queue holds a track
  twice; a saved window of two, and of one when the quota is exceeded, both
  shorter than the queue, so that the window moves;
- job: three rows in pages of two, so that the last page is short, and one
  restart, beside the stops and failures, which are not bounded, so that a
  resumed run is itself interrupted;
- cache: two keys and two threads, room for three units and files of one or two:
  a put must prune, and one that replaces its own key frees what it replaces;
- watcher: two paths and three changes of the disk, enough to move a file over
  another and change it back; for more of either there is `FolderFollowed`;
- downloads: one track, two removals of it at once, three taps of the user and
  two launches: each of download, removal, renaming and move can meet each
  other, and a launch can find what the last one left; `DownloadsAsLeft` is for
  any number of them;
- covers: three for two slots, one of them for covers off screen.

In `mends`: three timelines of the host and one loss of the party; two poll
loops, one change of the line and three seats; two links on two threads, so that
one fills while the other cuts; three turns of Deezer's rights, so that they go,
come back and go while two threads hold old copies of the row, whether they ask,
archive or play; two producers and a queue of four, which a leaving worker's last
moment can fill or not.

Four properties of `mends` say that a part comes to a state and stays in it
(`~> []Followed`, `~> []AtRest`, `~> []Held(l)`, `~> []Mended`). These states name
what is still in flight as well as what is seen: one without it would be left
again, and the first half of the property would be true of a passing moment.

Each property fails on a slip of the code, kept beside the definition it
perverts (a comment beginning with "Slip") and listed in `PROJECT.json`.

### Fairness

- Breaker: time passes; each request ends, since it carries a timeout
  (`DEFAULT_TIMEOUT`); some thread keeps asking the host. `Recovers` further
  assumes that from some point on no request fails and none sent to an open
  circuit is abandoned.
- Archive: none for `archive`. The finding's run keeps the fairness of a
  thread past the lock (requests time out, the disk answers), so that its
  counterexample is not a system that stopped.
- Queues: workers run and time passes. Request threads need not call at all.
  `EverySettled` assumes that urgent entries stop arriving: the queue is
  strictly by priority, and bulk entries do starve behind an endless supply.
- Session: each step of a resolve ends.
- Remote channel: the page polls again and again and some poll in flight moves
  on; `CommandLands` speaks of the time after `Calm`, from which nothing is lost,
  reloaded or restarted; `Calm` is never forced to come.
- Party: the host's player becomes measurable, its requests are served and its
  continuations run, the heartbeat's interval fires, and a party nobody keeps
  expires. The guest's timers fire, its requests are served, and a seat unheard
  of is dropped. Both properties speak of the time after `calm`; losses before it
  are not bounded.
- Links: threads finish their requests, and cache entries and commands pass
  their time to live. Nothing is assumed of controllers or of the owner.
- Verdict: threads finish, and a verdict ages. `VerdictMends` states two more
  premises itself. The player goes on probing the track whenever a probe would
  look: a probe is a user's play, and without any the verdict stays. And from
  some point on no Subsonic play of the archived track begins while the verdict
  is wrong: it would put it back when it ends, and without end if one such play
  always overlaps the next. TLC refutes the property without either premise.
- Enrichment: a producer past its put reaches `_ensure_worker`, the worker runs
  and ends when idle. `TracksTaken` speaks of tracks that keep coming, and of the
  behaviours in which no worker's leaving sees `Cap` (512) puts (`late < Cap`);
  in the others the queue is left for good, and TLC shows that, too.
- `kept`: none; all of its properties are safety.

## Where the code and its comments disagree

1. `archive_unarchived`. `library.py:706-709` explains that a full-row save is a
   lost update by which a track "read as not archived again", and avoids it; the
   Subsonic stream (`api/media.py:374`) still saves the full row it read before
   the archive. With another account's thread archiving meanwhile, the path and
   `last_modification` go back.
2. `session_condemned`. `provider.py:974-975` trusts a verdict only when a fresh
   session has repeated it. The window is shared by the threads: a thread with a
   token of the dropped session raises its first verdict as confirmed.
3. `party_silent`. `party/host.js:501-502` says that a forgotten party is taken
   back and everything published again. When the server has taken it back and
   the answer is lost, `recover()` only reports it: the page takes its line for
   said, the heartbeat finds a party, and the guests stay on a blank one until
   the host's line changes. A second way: the heartbeat's `recover()` sets `pub`
   to null while a publish is in flight and marked dirty; `flush()` from the
   `finally` of line 479 then reads `null.id` after it has set `inflight`, and no
   later `send()` gets past it.
4. `credits_done`. `trackcredits.py:453-454` says that a run Deezer did not
   answer in full runs again. Whether it did is read from counts that every
   `start()` replaces and no checkpoint keeps: a `start()` between the end of
   the walk and that look finds fresh counts, and a run resumed behind an
   unanswered page never had that page in its own. Both leave the mark, and no
   start asks for those tracks again. Rows whose work raised, and rows passed
   for want of a provider (`passed`), are behind the mark as well; they are not
   held against it in `MarkIsComplete`, since the run does not count them.

Met while modelling, and without a run of their own. The first four contradict
a property that is defined in the module, and that TLC refutes:

- `RetriedInOutage` (`DownloadQueue`): `prefetch.py:45-49` promises a retry for
  an item whose failure was "Deezer is not answering". `_outage_wait` is zero
  while a probe holds the half-open slot: items refused then are thrown away.
- `NothingIsAnAnswer` (`DeezerSession`): `_url_from_info` must not take a failure
  to reach Deezer for "nothing"; its `except Exception` takes a failed login so.
- `NeverTwice` (`RemoteChannel`): two overlapping polls that both predate the
  channel are each answered with `reset`, and the second runs the commands again.
- `ClearedStaysClear` (`PlayerQueue`): "on until the user clears the queue"
  (`stores.js:817`); a top-up asked for before the clearing is appended after it.
- Links: "end on their very next request" (`remote.py:29`); a fill that crossed
  the cut keeps the link alive for `LINK_CACHE_TTL`, two seconds. `CutHolds` says
  what is true of it.
- Party: a heartbeat that recovers after `endParty()` re-creates the party, until
  it expires; guests that poll between a restart and the recovery get 404 and
  end; a page that becomes visible starts a second poll loop, for good.
- Jobs: "so a restart never skips a track that was only queued"
  (`trackcredits.py`) holds, and `NeverSkips` says it; a row whose work raises
  once, or that is walked while the server has no account, was not queued, and
  the checkpoint and the mark pass it.
- Verdicts: `archive.py:185-187` takes a verdict for void once the file is on
  disk; a play that read its row before puts the verdict back, until a probe.
- Cache: the lock does not keep `_size` right: a put or a delete that has loaded
  it stores over what an unlocked `has()` took out meanwhile, or the other way
  round, until the process restarts. `_make_space` credits the size of the entry
  a put replaces also when it has itself pruned that entry; `_empty` writes
  entries without the lock.
- Jobs: a thread that cannot be started leaves `running` set, and no job of this
  name starts again in the process.
- Enrichment: a queue filled while a worker is leaving never gets another one:
  the put that would start it is refused.
- Breaker: `_circuit.py:37` says the cooldown doubles "on every failed probe";
  every request in flight when the circuit trips doubles it as well
  (`_circuit.py:117`): sixteen stalled threads take it from fifteen seconds to
  the cap.
- Archiver: `archive.py:81-82` says that a track is never downloaded twice;
  `FetchedOnce` states the two cases in which it is.
- Watcher: a notification while the thread prunes is lost, so that what is queued
  waits for the next event, and `stop()` at that moment is not seen; `rm a` and
  `mv b a` within the delay merge to one entry that removes and moves, which ends
  without a row for `a`; a move queues behind the events of its target.
- Downloads: "only ever removed by the user" (`offline.js:6-7`), and a list the
  app failed to give (`nativeList`) is taken for an empty one, by which the
  reconciliation drops the record of every download the app holds. A removal or
  clearing while a new file is ahead of its record leaves a record without a
  file until the next launch; the move to the app writes back the record it read,
  and a download removed meanwhile returns; a removal by the key a track is
  losing leaves its record; two removals at once subtract its size twice.
  `crossed` marks exactly these, and each of them was seen to be necessary.

## Proofs

Each theorem holds for every value of the constants, the runs for the instances
above. `kept`, `mends` and the other runs check the same definitions.

`CircuitBreakerProofs`, from `ThresholdAssumption`, `CooldownAssumption` and
`ProbeAssumption`:

- `TypeCorrect`, `ClosedCircuitIsFresh`, `SlotHeldAfterCooldown`: the three
  invariants of the run. None is inductive alone: the range of `failures` needs
  that a closed circuit has counted fewer than `Threshold`; the freshness of a
  closed circuit needs the ranges of the timers; `wait <= cooldown` needs both.
  `IInv` is their conjunction, and `NextInv` has one step per action.
- `BackoffIsMonotone`: the action property. The late failure of a plain request
  takes the doubling branch, and the doubled cooldown is at least the cooldown,
  by which `wait` is bounded.

`ArchiveProofs`, for every set of threads, accounts and formats and any number
of removals:

- `TypeCorrect` needs to know that the candidate of the cleanup leaves room for
  one more removal (`RoomToRemove`), which only bounds the model.
- `LockCorrect`. Each step of a thread stays outside the locked part, enters it
  by `Acquire`, stays inside, or leaves it by `Release`; one lemma for each. A
  live stream resolves *before* it locks, so that "resolve" is locked for the
  others and not for it: `LiveWay` says that a live stream never comes where the
  others take the lock.
- `StagingCorrect`: only a thread that streams, waits for the lock behind its
  download, tags or publishes has a staging file, and each way out of these
  places drops it or publishes it.
- `FetchedOnceCorrect` rests on `LockIsHeld` and on `NotFetched`: from its look
  under the lock to its publication, no thread of the same account has put a
  file where the thread looked. It is here that the lock is used: two threads of
  one account cannot both be inside.
- `RowCorrect` rests on `BackedInv`: as long as nothing was removed, every copy
  of the row that says "archived" has its file, not the row alone. A stale copy
  can therefore be saved at any time, and the row it brings back is an older one
  whose file is still there.

`PrefetchQueueProofs`, for any number of requesters, workers and tracks and every
`MaxQueue`: the types, `SeenIsAnsweredFor` and the refinement `IsTaskPool`. The
inductive part is `Once`: a track is at one place of the queue, in one hand, or
with one requester. With it `Put` may add a track without looking at the queue,
and `Forget` may take one out of `_seen` without looking at anybody.

`DownloadQueueProofs`: the types, the refinement `IsTaskPool` through failures,
sleeps and retries (an entry waits once or is in one hand, and a worker past
"take" has one), and `ImplementsBreaker`: workers and request threads together
use the breaker as `CircuitBreaker` says its callers do. The first two rest on
`CooldownsAreNumbers`, which each of them assumes: the wait a worker reads must be
a number for the comparison with zero to mean anything.

`KeptProofs`, about `MCKept`. Every behaviour of `KeptSpec` is one of the part in
focus, so each theorem is about that part alone and names that part's
assumptions only; a step of another part is a stutter for it (`JobStep` and its
like).

- `SkipsNothing`, library jobs, for any number of rows, page size and restarts.
  The invariant says what each place of the loop owes: `TriedTo(cursor)` for the
  checkpoint, `Walk` for the rows of the page before the one being worked and for
  the page's end once it is flushed, `Marked` for a thread that is about to leave
  the mark. That the flush comes before the save is what `Walk` is made of. It is
  stated of `LibraryJob`'s own `Spec`. What it promises of a row is that it was
  answered, asked about, or passed because its work raised or nobody was there
  to ask; it is a row *queued* for Deezer that can never be lost.
- `CoversAttended`, for a finite set of covers and `AHEAD_SLOTS <= MAX_INFLIGHT`,
  as in the code (3 and 6). The promise is inductive with the types: each way
  by which a slot is freed or a cover starts to wait asks for a frame in the same
  step, and a pump that lets nobody through starts the recheck.
- `DownloadsAsLeft`, for a finite set of tracks that is not empty and any number
  of removals, taps and launches. A download is several stores that agree only
  through what is under way, so the invariant has a part for each: `Listed` (what
  is wanted, on the device and on the page's list is the same), `Backed` (what is
  held for playing has its file), `Moving`, `Removing` and `RemovesOne` (what a
  move or a removal read is still so), `Asleep` (a dead page believes nothing),
  `Counted`. They speak of the tracks outside `crossed`, and each step that breaks
  one of them adds its track there.
- `CacheAccounted`, for finitely many keys, any threads, sizes and limits. `_size`
  is changed by the size of one entry, the sum is over all: `TotalAppend`,
  `TotalExcept` and `TotalRemove` say what one entry does to the sum, by
  induction over the natural numbers with the library's theorem on least elements.
  The inductive part: who puts holds the lock (`CacheLocked`), a thread that has
  removed a file has still to remove its entry (`CacheGone`), and as long as
  nothing raced, one thread at a time is between a load and a store of `_size`,
  and what it loaded is still there (`CacheAlone`). With an unlocked `has()` in
  the middle of a locked change, it is `raced` that says so, not the lock.
- `SessionResumes`, an action property, for every length of queue and of the two
  windows. `SessAgrees`: the tick always names what plays, and the saved window has
  it at its place as long as no tick is newer than the window. The rest is where
  the window starts, `Start` and `Snapshot`, clamped to both ends of the queue.
- `QueueKeepsPlaying`, an action property, for queues of any length and any number
  of tracks: one lemma for each operation, which says that the orders stay lists of
  tracks, that the place stays in them, and that what plays is found at it again.
  The lemmas on removing, inserting, shuffling and filtering a list at its
  beginning are what they rest on. It assumes `MaxQueue >= 2`, without which
  no track can be added beside another.
- `FolderFollowed`, for any set of paths and number of changes. What is known of
  a path is spread over four places: watchdog's events, the queue, the entry at
  the scanner, the library. `WLog` and `WLib` say that the *last* of these that
  speaks of a path has it right; `WMoves1` and `WMoves2`, that a file is not moved
  away after it was said to be gone, unless it was said to be back; `WWakes`, that
  what is queued has a timer, or the thread on its way, or a missed wake-up. Each
  merge is an entry taken out of the queue (`WithoutIs`, `LogWithout`) and one put
  last.
- `AllTyped`: with all of these, the type invariants of the seven.

`DeezerSessionProofs`, for every set of threads and tracks: `RacesAloneCondemn`.
With the types, four facts are inductive together: a thread on its first try has re-opened
nothing (`FirstTry`), a thread nobody disturbed has a current token if it has
one (`OwnToken`), the session it opened has not expired (`LicenceLasts`), and
what an undisturbed thread takes for gone is gone (`GoneIsExpired`).

`RemoteChannelProofs`, for every number of polls, channels and commands:
`OnceInOrder` and `AckMeansRun`. `OnceInv` says that, without overlap, the poll
in flight knows the channel the player knows, so that its answer says "reset"
exactly when the channel is another, and a later one. `LandInv` says that
everything a number stands for, wherever it is (the cursor, an ask, a publish,
the ack), was run, and that an answer carries what was not. It is about the
first channel only, since a page that carries a cursor over a restart may
acknowledge a number of the old numbering.

`MendsProofs`, about `MCMends`. By `PartsRun` a behaviour of the run is one of
each part, so the theorems are about the parts, and `AllTyped` and
`OwnerByLinkInRun` carry their invariants back to the run. What the four
properties `~> []G` promise has two halves: that `G` comes, which needs fairness
and is TLC's, and that it stays, `[](G => []G)`, which is proved, for any number
of lines, seats, polls, links, threads and turns.

- The host. `SaidLineIsServed` is the invariant behind the awaits of `flush()`,
  `heartbeat()` and `recover()`: one request of each at most (`OneAtATime`), and
  when none is out, none is to be tried again and no recovery failed, the server
  has had what the page takes for said (`SaidIsServed`). It is what tells the two
  silent ways of `party_silent` from everything else, and with it
  `FollowedForGood` has nothing else to fear. It needs one line at least.
- The guest. `GuestHolds`: a guest that was not told the party is over polls on
  (`KeepsPolling`), the timer belongs to a loop that waits (`TimerWaits`), and the
  seat it has is the last the server gave, because no other is asked for while it
  has one (`SeatIsNewest`). `AtRestForGood` rests on the last: an answer about
  another seat cannot be about a newer one. They assume one poll loop at least.
- The links. `OwnerByLinkAlone`, with `Served`: a request under way has a link, so
  that what it reads is a row. `CutForGood`: a live entry can only come back by a
  request that has read the row live, and `Held` has no such request left. Both
  assume that `NoLink` is not a link.
- The verdict. `MendedForGood`: no thread holds an old copy by which it would
  write, or which it would save, and one that starts to look, to archive or to
  play reads the verdict that is right.
- The enrichment queue. `FullQueueIsTaken`: what waits without a worker, and
  without a producer about to start one, is exactly what was put while the last
  worker was leaving (`waiting = late`). A full queue, which refuses what could
  start a worker, is therefore without one only when all of it came in that
  moment; nothing is assumed about how many do.

Two theorems say how much of a liveness property is not fairness. Each gives the
steps an actor has still before it as a number, and shows that each step of its
own makes it smaller and no other step larger:

- `ResolveIsBounded` (`DeezerSessionProofs`): a resolve has at most eleven steps,
  its one re-login included. What a second re-login would need, a thread on its
  second try past `judge`, is excluded by `FirstTry`.
- `HandIsBounded` (`DownloadQueueProofs`): an entry in a hand has at most four
  steps for each of its attempts, keeps its worker until it is settled, and no
  sleep is prolonged. The retries are what the number is made of: with
  `HandleForever`, the slip of `EverySettled`, there is none.

Only model-checked: everything that rests on fairness, which these provers do
not handle (`Recovers`, `EverySettled`, `RecoversWork`, `SeenIsReleased`,
`ResolveEnds`, `CommandLands`, and the temporal properties of `mends`). Every
invariant of a run, every action property and every refinement is proved.

## Not modelled

Sixty thousand lines of this repository are implementation, and the modules map
a small part of them. The rest is, by lines, of kinds a model checker tells
nothing about:

- request handlers that query the database and render an answer, one after
  another, with no state of their own (the Subsonic API, most of `webui/`,
  `db.py`, `cli.py`, administration, the pages of the web client);
- numbers: genre, rhythm, energy and embedding analysis, the Rust crates of the
  rhythm engine, scoring of recommendations, the party's clock and drift;
- text: catalogue matching, titles, lyrics, playlists of other services, tags;
- declarations: schema, migrations, templates, translations.

Of parts that do keep a state: the remote's controller page is a view of what
the host publishes; the rate limiter is a sliding window without a protocol
around it; the archive sweep is a producer of the download queue (`Offer`); the
play cache and the link leases of the client, and the reload to a new version,
hang on the browser's own caches; the Android application's own transitions
while its activity is stopped (`NativeAudio.kt`, `nativeplayer.js`) depend on
positions and on timers the system throttles, and need a model of their own of
what a frozen page misses; the jukebox and the daemon drive an external
player; other library jobs are `LibraryJob` without its batch and mark. Within
modelled parts: which tracks the cleanup chooses; the catalogue calls of a
session and podcasts; the covers of downloads, progress and yielding to the
player; covers, unreadable files and the removal of a folder in the watcher (a
folder removed within the delay of its creation ends the scanning thread, by the
unguarded `getmtime` of `find_folder`); media transfer and clock of a party;
what a deletion does after its last question to Deezer; the other saves of
whole rows (`enrich/queue.py`, `scanner.py`, `deezer/youtube.py`), which are of
uploaded, scanned or YouTube tracks and so of none with a Deezer verdict.

## Plan

Left, in the order of what it would add:

1. A guest and its host under one module, with the party's media: the two are
   checked apart because each is near the size a run can hold.
2. The archive sweep with its checkpoint over `DownloadQueue`, where a track
   offered and refused must come up again the next night.
3. The number of steps left, as for a resolve and for an entry in a hand, for an
   entry that waits, for the probe of an open circuit and for a command that is
   still fresh: what `EverySettled`, `Recovers` and `CommandLands` rest on.
4. The play cache of the client beside the downloads, whose keys it shares.
5. Folders in the watcher.
