---------------------------- MODULE RemoteLinks ----------------------------
(***************************************************************************)
(* The links of a remote control (supysonic/webui/remote.py): a controller *)
(* claims one, sends commands through it, and the owner cuts it.  The      *)
(* links of this module drive one player of one owner.                     *)
(*                                                                         *)
(* Every request of a remote session asks live_link, which caches the row  *)
(* of the database for LINK_CACHE_TTL: a miss reads the row and then puts  *)
(* it in the cache, and a cut can come in between.  Requests run on        *)
(* several threads.  An entry is "fresh" until its TTL has passed.         *)
(* How the player is handed the commands is in RemoteChannel.              *)
(***************************************************************************)
EXTENDS Naturals, FiniteSets

CONSTANTS
    Link,      \* links onto the player
    NoLink,
    Thread     \* server threads

VARIABLES
    row,       \* database: per link, whether it still grants anything
    cache,     \* _link_cache: per link, the row fetched, or None
    thread,    \* per thread, the request it serves
    cmds,      \* the channel: links of the commands it still serves
    drives,    \* the channel: links of its controllers
    uid, rc, prev    \* the controller's browser: its session cookie

server == <<row, cache, thread, cmds, drives>>
cookie == <<uid, rc, prev>>
vars == <<server, cookie>>

None == "none"
Row == {"live", "cut"}
Account == {"nobody", "own", "owner"}
Idle == [at |-> "idle", link |-> NoLink, row |-> None]

TypeOK ==
    /\ row \in [Link -> Row]
    /\ cache \in [Link -> Row \cup {None}]
    /\ thread \in [Thread -> [at : {"idle", "fetch", "read", "in", "cutting"},
                              link : Link \cup {NoLink}, row : Row \cup {None}]]
    /\ cmds \subseteq Link /\ drives \subseteq Link
    /\ uid \in Account /\ rc \in Link \cup {NoLink}
    /\ prev \in {"nobody", "own"}

Init ==
    /\ row = [l \in Link |-> "live"]
    /\ cache = [l \in Link |-> None]
    /\ thread = [t \in Thread |-> Idle]
    /\ cmds = {} /\ drives = {}
    /\ uid \in {"nobody", "own"} /\ rc = NoLink /\ prev = "nobody"

-----------------------------------------------------------------------------
(* The browser's session.  Its cookie is written by one request at a time. *)

\* live_link, in one step: a fresh entry decides, and a miss reads the row and
\* puts it in the cache.  (The requests below take its steps one by one.)
Granted(l) ==
    /\ "live" = IF cache[l] # None THEN cache[l] ELSE row[l]
    /\ cache' = [cache EXCEPT ![l] = "live"]
    /\ UNCHANGED <<row, thread, cmds, drives>>

\* Slip: a browser that already controls keeps the owner's account to give back.
ClaimOwner(l) ==
    /\ Granted(l)
    /\ prev' = uid
    /\ uid' = "owner" /\ rc' = l

\* remote_claim: the account this browser was logged into is kept aside, once.
Claim(l) ==
    /\ Granted(l)
    /\ prev' = IF rc # NoLink THEN prev ELSE uid
    /\ uid' = "owner" /\ rc' = l

\* _end_remote_session: on leaving, or when the link is found cut.  The
\* account comes back unless it was logged out of everywhere meanwhile.
EndSession ==
    /\ rc # NoLink
    /\ uid' \in {"nobody", prev}
    /\ rc' = NoLink /\ prev' = "nobody"
    /\ UNCHANGED server

\* login() replaces the session; login_required drops one whose epoch was
\* revoked.
Login ==
    /\ uid' \in {"nobody", "own"}
    /\ rc' = NoLink /\ prev' = "nobody"
    /\ UNCHANGED server

-----------------------------------------------------------------------------
(* Requests that go through a link.                                         *)

At(t, at) == thread[t].at = at
Goes(t, r) == thread' = [thread EXCEPT ![t] = r]
Req(at, l, r) == [at |-> at, link |-> l, row |-> r]

\* Slip: a hit is put back in the cache, and its TTL starts again.
AskAgain(t, l) ==
    /\ At(t, "idle") /\ rc = l
    /\ IF cache[l] = None
       THEN Goes(t, Req("fetch", l, None))
       ELSE Goes(t, Req("read", l, cache[l]))
    /\ UNCHANGED <<row, cache, cmds, drives, cookie>>

\* live_link in the before_request of the browser's session: a fresh entry
\* decides at once.
Ask(t, l) ==
    /\ At(t, "idle") /\ rc = l
    /\ IF cache[l] = None
       THEN Goes(t, Req("fetch", l, None))
       ELSE Goes(t, IF cache[l] = "live" THEN Req("in", l, None) ELSE Idle)
    /\ UNCHANGED <<row, cache, cmds, drives, cookie>>

\* ... a miss reads the row,
Fetch(t) ==
    /\ At(t, "fetch")
    /\ Goes(t, Req("read", thread[t].link, row[thread[t].link]))
    /\ UNCHANGED <<row, cache, cmds, drives, cookie>>

\* ... and puts it in the cache, whatever was dropped from it meanwhile.
Fill(t) ==
    /\ At(t, "read")
    /\ LET l == thread[t].link
           r == thread[t].row
       IN /\ cache' = [cache EXCEPT ![l] = r]
          /\ Goes(t, IF r = "live" THEN Req("in", l, None) ELSE Idle)
    /\ UNCHANGED <<row, cmds, drives, cookie>>

\* LINK_CACHE_TTL has passed, or the cache is full and cleared.
CacheExpires(l) ==
    /\ cache[l] # None
    /\ cache' = [cache EXCEPT ![l] = None]
    /\ UNCHANGED <<row, thread, cmds, drives, cookie>>

\* remote_cmd, under the lock: the link was looked at before.  remote_state
\* only registers the controller.
Command(t) ==
    /\ At(t, "in")
    /\ drives' = drives \cup {thread[t].link}
    /\ \/ cmds' = cmds \cup {thread[t].link}
       \/ UNCHANGED cmds
    /\ Goes(t, Idle)
    /\ UNCHANGED <<row, cache, cookie>>

\* CMD_TTL, and a controller that has not asked for a while.
CommandExpires(l) ==
    /\ l \in cmds \cup drives
    /\ cmds' = cmds \ {l} /\ drives' = drives \ {l}
    /\ UNCHANGED <<row, cache, thread, cookie>>

-----------------------------------------------------------------------------
(* The owner.                                                               *)

\* _revoke writes the row.  A link that expires is cut without the rest.
Cut(t, l) ==
    /\ At(t, "idle") /\ row[l] = "live"
    /\ row' = [row EXCEPT ![l] = "cut"]
    /\ Goes(t, Req("cutting", l, None))
    /\ UNCHANGED <<cache, cmds, drives, cookie>>

\* ... _forget drops the cached row, and then the channel forgets the link.
Forget(t) ==
    /\ At(t, "cutting") /\ thread[t].row = None
    /\ cache' = [cache EXCEPT ![thread[t].link] = None]
    /\ Goes(t, Req("cutting", thread[t].link, "cut"))
    /\ UNCHANGED <<row, cmds, drives, cookie>>

Purge(t) ==
    /\ At(t, "cutting") /\ thread[t].row = "cut"
    /\ cmds' = cmds \ {thread[t].link}
    /\ drives' = drives \ {thread[t].link}
    /\ Goes(t, Idle)
    /\ UNCHANGED <<row, cache, cookie>>

-----------------------------------------------------------------------------
Next ==
    \/ EndSession \/ Login
    \/ \E l \in Link : Claim(l) \/ CacheExpires(l) \/ CommandExpires(l)
    \/ \E t \in Thread :
        \/ \E l \in Link : Ask(t, l) \/ Cut(t, l)
        \/ Fetch(t) \/ Fill(t) \/ Command(t) \/ Forget(t) \/ Purge(t)

\* Threads finish their requests, and what has a TTL expires.
Fairness ==
    /\ \A l \in Link : WF_vars(CacheExpires(l)) /\ WF_vars(CommandExpires(l))
    /\ \A t \in Thread :
        WF_vars(Fetch(t)) /\ WF_vars(Fill(t)) /\ WF_vars(Command(t))
        /\ WF_vars(Forget(t)) /\ WF_vars(Purge(t))

Spec == Init /\ [][Next]_vars /\ Fairness

\* A cut link grants nothing: it is not in the cache, no request on its way has
\* seen it live, and no command of it is left for the player.
Held(l) ==
    /\ row[l] = "cut" /\ cache[l] # "live" /\ l \notin cmds \cup drives
    /\ \A t \in Thread : thread[t].link = l =>
        \/ At(t, "fetch") \/ At(t, "cutting")
        \/ At(t, "read") /\ thread[t].row = "cut"

\* A cut link ends up granting nothing, for good.
CutHolds == \A l \in Link : row[l] = "cut" ~> []Held(l)

\* A browser is the owner exactly while it holds a link, and never has the
\* owner's account to come back to.
OwnerOnlyByLink == (uid = "owner" <=> rc # NoLink) /\ (rc = NoLink => prev = "nobody")
=============================================================================
