--------------------------- MODULE DeezerSession ---------------------------
(***************************************************************************)
(* One Deezer account (deezer/provider.py, DeezerProvider): its session,   *)
(* shared by every thread, and resolve, which asks Deezer where a track    *)
(* can be downloaded.                                                      *)
(*                                                                         *)
(* resolve fails in two ways that its callers treat differently.  `error'  *)
(* says nothing about the track; `gone' (TrackUnavailable) is a verdict:   *)
(* the track is flagged, offered for replacement and for deletion.         *)
(*                                                                         *)
(* A track token is good for the session that minted it only, and the      *)
(* licence of a session expires silently: in both cases Deezer answers     *)
(* exactly as it does for a track it does not have.  What matters of a     *)
(* session is therefore whether its licence is good, and of a token        *)
(* whether the session in use minted it (current) or one before (old).     *)
(* The alternative Deezer names for a track (FALLBACK) is asked for in the *)
(* same way, and belongs here to the same answer.                          *)
(***************************************************************************)
EXTENDS Naturals

CONSTANTS
    Thread,      \* server threads
    Track,
    Playable,    \* the tracks Deezer has a source for
    Nothing      \* no track

ASSUME TrackAssumption == Playable \subseteq Track /\ Nothing \notin Track

VARIABLES
    net,      \* whether Deezer can be reached
    session,  \* _dz: none, or a session whose licence is good or expired
    backoff,  \* _login_error while _login_retry_at is ahead, else "none"
    window,   \* open while _last_relogin is less than _RELOGIN_INTERVAL old
    memo,     \* _info_memo: per track, the token it holds
    pc,       \* per thread: where it is in resolve
    want,     \* per thread: the track it resolves
    token,    \* per thread: its track token
    try,      \* per thread: its attempt, 2 after a re-login
    failed,   \* per thread: what its attempt raised
    disturbed \* history: the threads whose session another one dropped

account == <<session, backoff, window, memo>>
local == <<pc, want, token, try, failed>>
vars == <<net, account, local, disturbed>>

Tokens == {"none", "current", "old"}

Init ==
    /\ net = "up"
    /\ session = "none"
    /\ backoff = "none"
    /\ window = "closed"
    /\ memo = [k \in Track |-> "none"]
    /\ pc = [t \in Thread |-> "idle"]
    /\ want = [t \in Thread |-> Nothing]
    /\ token = [t \in Thread |-> "none"]
    /\ try = [t \in Thread |-> 1]
    /\ failed = [t \in Thread |-> "none"]
    /\ disturbed = {}

-----------------------------------------------------------------------------
(* Parts of steps.                                                          *)

Goto(t, l) == pc' = [pc EXCEPT ![t] = l]

\* get_track_info asks, with the session it has just read.
Asking(t) ==
    /\ token' = [token EXCEPT ![t] = "current"]
    /\ Goto(t, "asked")
    /\ UNCHANGED <<want, try, failed>>

\* resolve returns a URL, or raises.
End(t) ==
    /\ Goto(t, "idle")
    /\ want' = [want EXCEPT ![t] = Nothing]
    /\ token' = [token EXCEPT ![t] = "none"]
    /\ try' = [try EXCEPT ![t] = 1]
    /\ failed' = [failed EXCEPT ![t] = "none"]

\* The attempt raised e, and e goes to the except clause.
Raise(t, e) ==
    /\ Goto(t, "judge")
    /\ failed' = [failed EXCEPT ![t] = e]
    /\ UNCHANGED <<want, token, try>>

\* The dz property, when there is no session: a login, under _login_lock.
Opened ==
    /\ net = "up"
    /\ backoff = "none"
    /\ session' = "good"
    /\ UNCHANGED <<backoff, window, memo>>

\* The login fails and is not tried again for a while (reason e), or it is
\* such a while already and no login is tried.
LoginFails(e) ==
    /\ \/ backoff = e
       \/ backoff = "none" /\ (e = "network" \/ net = "up")
    /\ backoff' = e
    /\ UNCHANGED <<session, window, memo>>

\* _drop_session, with the login back-off lifted: the memo is cleared, and
\* the tokens the threads hold are of a former session from here on.
Dropped ==
    /\ session' = "none"
    /\ memo' = [k \in Track |-> "none"]
    /\ backoff' = "none"
Outdated == [t \in Thread |-> IF token[t] = "current" THEN "old" ELSE token[t]]
Resolving == {t \in Thread : pc[t] # "idle"}

-----------------------------------------------------------------------------
(* resolve.                                                                 *)

Resolve(t, k) ==
    /\ pc[t] = "idle"
    /\ Goto(t, "info")
    /\ want' = [want EXCEPT ![t] = k]
    /\ disturbed' = disturbed \ {t}
    /\ UNCHANGED <<net, account, token, try, failed>>

\* get_track_info has to log in before it asks.  A login that Deezer did not
\* answer ends resolve; one that broke on what it answered ("network", but no
\* transport failure) and one it rejected are errors of the attempt.
InfoLogin(t) ==
    /\ pc[t] = "info"
    /\ session = "none"
    /\ \/ Opened /\ Asking(t)
       \/ LoginFails("network") /\ End(t)
       \/ backoff = "none" /\ net = "up" /\ LoginFails("network") /\ Raise(t, "error")
       \/ LoginFails("arl") /\ Raise(t, "error")
    /\ UNCHANGED <<net, disturbed>>

\* Slip: the memo is not checked against the session in use.
InfoMemoUnchecked(t) ==
    /\ pc[t] = "info"
    /\ session # "none"
    /\ memo[want[t]] # "none"
    /\ token' = [token EXCEPT ![t] = memo[want[t]]]
    /\ Goto(t, "url")
    /\ UNCHANGED <<net, account, want, try, failed, disturbed>>

\* get_track_info finds in the memo a token of the session in use.
InfoMemo(t) ==
    /\ pc[t] = "info"
    /\ session # "none"
    /\ memo[want[t]] = "current"
    /\ token' = [token EXCEPT ![t] = "current"]
    /\ Goto(t, "url")
    /\ UNCHANGED <<net, account, want, try, failed, disturbed>>

\* The memo has nothing, or a token of another session, or one that is over
\* its _INFO_MEMO_TTL.
InfoAsk(t) ==
    /\ pc[t] = "info"
    /\ session # "none"
    /\ Asking(t)
    /\ UNCHANGED <<net, account, disturbed>>

\* The answer, kept for the session that was asked; or the gateway's error;
\* or no answer, which resolve turns into an error at once.
InfoAnswer(t) ==
    /\ pc[t] = "asked"
    /\ \/ /\ net = "up"
          /\ memo' = [memo EXCEPT ![want[t]] = token[t]]
          /\ Goto(t, "url")
          /\ UNCHANGED <<want, token, try, failed>>
       \/ /\ net = "up"
          /\ Raise(t, "error")
          /\ UNCHANGED memo
       \/ /\ net = "down"
          /\ End(t)
          /\ UNCHANGED memo
    /\ UNCHANGED <<net, session, backoff, window, disturbed>>

\* _url_from_info reads the session anew.  A source is found when Deezer has
\* one and token and licence are good; otherwise Deezer "has nothing".
Url(t) ==
    /\ pc[t] = "url"
    /\ session # "none"
    /\ IF net = "down" \/ (want[t] \in Playable /\ token[t] = "current" /\ session = "good")
       THEN End(t)
       ELSE Raise(t, "gone")
    /\ UNCHANGED <<net, account, disturbed>>

\* _url_from_info without a session: it logs in, to a session that did not
\* mint the token, and is answered or not; or the login raises the provider's
\* DeezerError, which "except Exception: url = None" takes for "Deezer has
\* nothing" too.
UrlLogin(t) ==
    /\ pc[t] = "url"
    /\ session = "none"
    /\ \/ Opened /\ (Raise(t, "gone") \/ End(t))
       \/ \E e \in {"network", "arl"} : LoginFails(e) /\ Raise(t, "gone")
    /\ UNCHANGED <<net, disturbed>>

\* Slips: neither the trust window nor the attempt is looked at; the retry is
\* not a second attempt.
JudgeForever(t) ==
    /\ pc[t] = "judge"
    /\ Goto(t, "drop")
    /\ UNCHANGED <<net, account, want, token, try, failed, disturbed>>
JudgeRetries(t) ==
    /\ pc[t] = "judge"
    /\ IF window = "open"
       THEN End(t)
       ELSE Goto(t, "info") /\ UNCHANGED <<want, token, try, failed>>
    /\ UNCHANGED <<net, account, disturbed>>

\* The except clause: the error goes up when it is the second attempt's or
\* when the session is fresh; otherwise a re-login.
Judge(t) ==
    /\ pc[t] = "judge"
    /\ IF try[t] = 2 \/ window = "open"
       THEN End(t)
       ELSE Goto(t, "drop") /\ UNCHANGED <<want, token, try, failed>>
    /\ UNCHANGED <<net, account, disturbed>>

\* relogin: the session is dropped, whichever it is by now.
Drop(t) ==
    /\ pc[t] = "drop"
    /\ Dropped
    /\ token' = Outdated
    /\ Goto(t, "relogin")
    /\ disturbed' = disturbed \cup (Resolving \ {t})
    /\ UNCHANGED <<net, window, want, try, failed>>

\* relogin returns self.dz: somebody's new session, or a login.  One that
\* fails ends resolve with an error, even if the verdict was `gone' before.
Relogin(t) ==
    /\ pc[t] = "relogin"
    /\ \/ /\ IF session = "none" THEN Opened ELSE UNCHANGED account
          /\ Goto(t, "again")
          /\ UNCHANGED <<want, token, try, failed>>
       \/ /\ session = "none"
          /\ \E e \in {"network", "arl"} : LoginFails(e)
          /\ End(t)
    /\ UNCHANGED <<net, disturbed>>

\* _last_relogin, and the second attempt.
Again(t) ==
    /\ pc[t] = "again"
    /\ window' = "open"
    /\ try' = [try EXCEPT ![t] = @ + 1]
    /\ failed' = [failed EXCEPT ![t] = "none"]
    /\ token' = [token EXCEPT ![t] = "none"]
    /\ Goto(t, "info")
    /\ UNCHANGED <<net, session, backoff, memo, want, disturbed>>

-----------------------------------------------------------------------------
(* check_login, set_arl, and the net.                                     *)

\* check_login(force=True), or finding the session dead: dropped.  The login
\* that follows is the next thread's, or Check.
CheckDrops ==
    /\ Dropped
    /\ token' = Outdated
    /\ disturbed' = disturbed \cup Resolving
    /\ UNCHANGED <<net, window, pc, want, try, failed>>

\* set_arl: the trust window closes as well.
SetArl ==
    /\ Dropped
    /\ window' = "closed"
    /\ token' = Outdated
    /\ disturbed' = disturbed \cup Resolving
    /\ UNCHANGED <<net, pc, want, try, failed>>

\* check_login: the dz property.
Check ==
    /\ session = "none"
    /\ Opened \/ \E e \in {"network", "arl"} : LoginFails(e)
    /\ UNCHANGED <<net, local, disturbed>>

NetChanges ==
    /\ net' = IF net = "up" THEN "down" ELSE "up"
    /\ UNCHANGED <<account, local, disturbed>>

\* _RELOGIN_INTERVAL is over; the login back-off is over.
WindowCloses ==
    /\ window = "open"
    /\ window' = "closed"
    /\ UNCHANGED <<net, session, backoff, memo, local, disturbed>>
BackoffEnds ==
    /\ backoff # "none"
    /\ backoff' = "none"
    /\ UNCHANGED <<net, session, window, memo, local, disturbed>>

\* A licence lasts longer than the trust window, and than a second attempt.
Expire ==
    /\ session = "good"
    /\ window = "closed"
    /\ \A t \in Thread : try[t] = 1 /\ pc[t] \notin {"relogin", "again"}
    /\ session' = "expired"
    /\ UNCHANGED <<net, backoff, window, memo, local, disturbed>>

Step(t) ==
    \/ InfoLogin(t) \/ InfoMemo(t) \/ InfoAsk(t) \/ InfoAnswer(t)
    \/ Url(t) \/ UrlLogin(t) \/ Judge(t) \/ Drop(t) \/ Relogin(t) \/ Again(t)

Next ==
    \/ \E t \in Thread : Step(t) \/ \E k \in Track : Resolve(t, k)
    \/ CheckDrops \/ SetArl \/ Check
    \/ NetChanges \/ WindowCloses \/ BackoffEnds \/ Expire

Spec == Init /\ [][Next]_vars

\* Every request of a resolve carries a timeout.
Fairness == \A t \in Thread : WF_vars(Step(t))

FairSpec == Spec /\ Fairness

-----------------------------------------------------------------------------
TypeOK ==
    /\ net \in {"up", "down"}
    /\ session \in {"none", "good", "expired"}
    /\ backoff \in {"none", "network", "arl"}
    /\ window \in {"open", "closed"}
    /\ memo \in [Track -> Tokens]
    /\ pc \in [Thread -> {"idle", "info", "asked", "url", "judge", "drop", "relogin", "again"}]
    /\ want \in [Thread -> Track \cup {Nothing}]
    /\ token \in [Thread -> Tokens]
    /\ try \in [Thread -> 1..2]
    /\ failed \in [Thread -> {"none", "error", "gone"}]
    /\ disturbed \subseteq Thread

\* resolve raises TrackUnavailable for a track.
Condemns(t) == pc[t] = "judge" /\ pc'[t] = "idle" /\ failed[t] = "gone"

\* A playable track is only ever condemned when somebody else dropped the
\* session while it was being resolved: an expired licence, a token kept in
\* the memo, an outage or a failed re-login alone never do it.
OnlyRacesCondemn ==
    [][\A t \in Thread : Condemns(t) /\ want[t] \in Playable => t \in disturbed]_vars

\* A resolve ends: at most one re-login, whatever Deezer answers.
ResolveEnds == \A t \in Thread : pc[t] # "idle" ~> pc[t] = "idle"

-----------------------------------------------------------------------------
(* What the comments say and the code does not do (see README, findings).   *)

\* "A verdict is only trustworthy once a fresh session has said the same
\* thing": a track Deezer has a source for is never condemned.
OnlyGoneCondemned ==
    [][\A t \in Thread : Condemns(t) => want[t] \notin Playable]_vars

\* "(None, None) means Deezer ANSWERED and had nothing ... a failure to
\* *reach* Deezer must never end up here".
NothingIsAnAnswer ==
    [][\A t \in Thread : pc[t] = "url" /\ pc'[t] = "judge" => net = "up"]_vars
=============================================================================
