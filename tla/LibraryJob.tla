----------------------------- MODULE LibraryJob -----------------------------
(***************************************************************************)
(* A library-wide job that survives restarts: supysonic/libjob.py under    *)
(* the credits backfill of supysonic/trackcredits.py, which asks Deezer    *)
(* about the tracks of each page together, before the page's checkpoint,   *)
(* and leaves a mark when a run was complete.  The enrichment backfill,    *)
(* the similarity rebuild and the disk migration are the same job without  *)
(* the batch and the mark.                                                 *)
(*                                                                         *)
(* Rows are numbered by their primary key.  One process runs one job at a  *)
(* time (start() looks at `running` under a lock), but the thread of a job *)
(* that walked to the end is not running any more when it looks at the     *)
(* counts, which are the module's, and leaves the mark.                    *)
(***************************************************************************)
EXTENDS Integers

CONSTANTS
    Rows,        \* rows of the table: 1..Rows
    PageSize,
    MaxRestart   \* bound

VARIABLES
    cursor,      \* Meta: the checkpoint
    done,        \* Meta: DONE_KEY
    answered,    \* rows the file or Deezer answered for, if only that they know nothing
    tried,       \* history: rows answered or asked about, by any run
    passed,      \* history: rows a run got past without asking
    job,         \* the job of this process
    marking,     \* a thread is between its walk and the mark
    restarts

vars == <<cursor, done, answered, tried, passed, job, marking, restarts>>

Row == 1..Rows
NoCursor == [after |-> 0, force |-> FALSE]     \* a checkpoint never says 0
Smaller(a, b) == IF a <= b THEN a ELSE b

\* `asks`: it was made with a provider.  `missed`: counts["unreachable"] > 0.
\* "lost": running, but its thread died before run().
Job == [at : {"off", "starting", "lost", "page", "work", "flush", "save"},
        force : BOOLEAN, asks : BOOLEAN, after : 0..Rows, next : 1..(Rows + 1), last : 0..Rows,
        pending : SUBSET Row, missed : BOOLEAN]

NoJob == [at |-> "off", force |-> FALSE, asks |-> FALSE, after |-> 0, next |-> 1, last |-> 0,
          pending |-> {}, missed |-> FALSE]

\* The job ends, and leaves its counts.
Over == job' = [NoJob EXCEPT !.missed = job.missed]

TypeOK ==
    /\ cursor \in [after : 0..Rows, force : BOOLEAN]
    /\ done \in BOOLEAN
    /\ answered \subseteq Row /\ tried \subseteq Row /\ passed \subseteq Row
    /\ job \in Job
    /\ marking \in BOOLEAN
    /\ restarts \in 0..MaxRestart

Init ==
    /\ cursor = NoCursor /\ done = FALSE
    /\ answered = {} /\ tried = {} /\ passed = {}
    /\ job = NoJob /\ marking = FALSE
    /\ restarts = 0

-----------------------------------------------------------------------------
\* start(): at boot while there is no mark (start_if_needed), or by hand at any
\* time; with a provider, when the server has an account.
Start(force, asks) ==
    /\ job.at = "off"
    /\ job' = [NoJob EXCEPT !.at = "starting", !.force = force, !.asks = asks]
    /\ UNCHANGED <<cursor, done, answered, tried, passed, marking, restarts>>

\* _run could not open its connection: the job says running, and no start()
\* does anything any more.
StartFails ==
    /\ job.at = "starting"
    /\ job' = [job EXCEPT !.at = "lost"]
    /\ UNCHANGED <<cursor, done, answered, tried, passed, marking, restarts>>

\* run() from the checkpoint, unless it is too old or of the other kind.
Begin ==
    /\ job.at = "starting"
    /\ \E after \in {0, IF cursor.force = job.force THEN cursor.after ELSE 0} :
         job' = [job EXCEPT !.at = "page", !.after = after]
    /\ UNCHANGED <<cursor, done, answered, tried, passed, marking, restarts>>

\* The next page, in the order of the keys.
Page ==
    /\ job.at = "page" /\ job.after < Rows
    /\ job' = [job EXCEPT !.at = "work", !.next = job.after + 1,
                          !.last = Smaller(job.after + PageSize, Rows)]
    /\ UNCHANGED <<cursor, done, answered, tried, passed, marking, restarts>>

\* No row left: the checkpoint goes.  Bound: one thread at a time is on its
\* way to the mark.
Finish ==
    /\ job.at = "page" /\ job.after = Rows /\ ~marking
    /\ cursor' = NoCursor
    /\ Over /\ marking' = TRUE
    /\ UNCHANGED <<done, answered, tried, passed, restarts>>

\* work(row): known already, answered by its file, or queued for Deezer.  When
\* it raises, the failure is put on record and the walk goes on; without a
\* provider the row is let go.
Work ==
    /\ job.at = "work" /\ job.next <= job.last
    /\ LET r == job.next
           n == [job EXCEPT !.next = r + 1]
       IN \/ /\ answered' = answered \cup {r} /\ tried' = tried \cup {r}
             /\ job' = n /\ UNCHANGED passed
          \/ /\ job.asks
             /\ job' = [n EXCEPT !.pending = @ \cup {r}]
             /\ UNCHANGED <<answered, tried, passed>>
          \/ /\ passed' = passed \cup {r}
             /\ job' = n /\ UNCHANGED <<answered, tried>>
    /\ UNCHANGED <<cursor, done, marking, restarts>>

\* Slip: the page is checkpointed before its batch is asked about.
WorkedSaved ==
    /\ job.at = "work" /\ job.next = job.last + 1
    /\ cursor' = [after |-> job.last, force |-> job.force]
    /\ job' = [job EXCEPT !.at = "flush", !.after = job.last]
    /\ UNCHANGED <<done, answered, tried, passed, marking, restarts>>

Worked ==
    /\ job.at = "work" /\ job.next = job.last + 1
    /\ job' = [job EXCEPT !.at = "flush"]
    /\ UNCHANGED <<cursor, done, answered, tried, passed, marking, restarts>>

\* page_done: a call per batch, each of which Deezer answers or not.
Flush ==
    /\ job.at = "flush"
    /\ tried' = tried \cup job.pending
    /\ \E got \in SUBSET job.pending :
         /\ answered' = answered \cup got
         /\ job' = [job EXCEPT !.at = "save", !.pending = {}, !.missed = @ \/ got # job.pending]
    /\ UNCHANGED <<cursor, done, passed, marking, restarts>>

\* The page's checkpoint.  stop(), or the limit of a run, ends the job here,
\* unfinished.
Save ==
    /\ job.at = "save"
    /\ cursor' = [after |-> job.last, force |-> job.force]
    /\ \/ job' = [job EXCEPT !.at = "page", !.after = job.last]
       \/ Over
    /\ UNCHANGED <<done, answered, tried, passed, marking, restarts>>

\* The database fails a query of the walk, or the storing of an answer.
Raises ==
    /\ job.at \in {"page", "flush", "save"}
    /\ \E got \in SUBSET job.pending :
         answered' = answered \cup got /\ tried' = tried \cup got
    /\ Over
    /\ UNCHANGED <<cursor, done, passed, marking, restarts>>

\* _mark_done, when the counts say that Deezer answered everything: a job
\* started since has new ones.
Mark ==
    /\ marking
    /\ done' = (done \/ ~job.missed)
    /\ marking' = FALSE
    /\ UNCHANGED <<cursor, answered, tried, passed, job, restarts>>

\* The server restarts.
Restart ==
    /\ restarts < MaxRestart /\ (job.at # "off" \/ marking)
    /\ restarts' = restarts + 1
    /\ job' = NoJob /\ marking' = FALSE
    /\ UNCHANGED <<cursor, done, answered, tried, passed>>

Next ==
    \/ \E force, asks \in BOOLEAN : Start(force, asks)
    \/ StartFails \/ Begin \/ Page \/ Finish \/ Work \/ Worked \/ Flush \/ Save
    \/ Raises \/ Mark \/ Restart

Spec == Init /\ [][Next]_vars

\* "before the page's checkpoint, so a restart never skips a track that was
\* only queued" (_Backfill): what lies before the checkpoint, or before a mark,
\* was answered or asked about by some run, unless one got past it unasked.
NeverSkips ==
    /\ \A r \in Row : r <= cursor.after => r \in tried \cup passed
    /\ done => Row \subseteq tried \cup passed

\* "A run cut short, or one Deezer did not answer in full, runs again at the
\* next start; a complete one never does" (_run).  A run is complete, too, when
\* it got past a row unasked.
MarkIsComplete == done => Row \subseteq answered \cup passed
=============================================================================
