----------------------------- MODULE KeptProofs -----------------------------
(***************************************************************************)
(* Theorems about the seven parts of MCKept, for every value of their      *)
(* constants: that the library job skips no row, that no cover that waits  *)
(* is forgotten, that the downloads are those the user left, that the file *)
(* cache accounts for its files, that a session resumes where it was       *)
(* heard, that nothing but the user changes what plays, that the watcher's *)
(* library follows the folders, and that each of the seven keeps its type  *)
(* invariant.  They are stated of KeptSpec, in which every behaviour of a  *)
(* part is one of the whole, with that part in focus.  The parts           *)
(* do not meet, and neither do their proofs: each has a section with       *)
(* its assumptions, its inductive invariant and one lemma per action.      *)
(***************************************************************************)
EXTENDS MCKept, FiniteSetTheorems, NaturalsInduction, SequenceTheorems,
        WellFoundedInduction, TLAPS

-----------------------------------------------------------------------------
(* Sequences: a part of one, two in a row, one with a member less or more.  *)

\* A set that holds 0, and n + 1 with n, holds every number.
LEMMA SetInduction ==
    ASSUME NEW S \in SUBSET Nat, 0 \in S, \A n \in S : n + 1 \in S
    PROVE  S = Nat
<1> SUFFICES ASSUME Nat \ S # {} PROVE FALSE  OBVIOUS
<1>1. \E x \in Nat \ S : \A y \in Nat \ S : ~(<<y, x>> \in OpToRel(<, Nat))
  BY NatLessThanWellFounded, WFMin
<1>2. PICK x \in Nat \ S : \A y \in Nat \ S : ~(y < x)
  BY <1>1 DEF OpToRel
<1>3. x - 1 \in Nat  OBVIOUS
<1>4. x - 1 \in S  BY <1>2, <1>3
<1> QED  BY <1>4

\* The part of a sequence from m to n.
LEMMA PartOf ==
    ASSUME NEW S, NEW s \in Seq(S), NEW m \in 1..(Len(s) + 1), NEW n \in (m - 1)..Len(s)
    PROVE  LET t == SubSeq(s, m, n)
           IN /\ t \in Seq(S) /\ Len(t) = n - m + 1 /\ Len(t) \in Nat
              /\ \A k \in 1..(n - m + 1) : t[k] = s[m + k - 1]
<1> DEFINE t == SubSeq(s, m, n)
<1>1. m \in Int /\ n \in Int /\ \A j \in m..n : s[j] \in S  OBVIOUS
<1>2. /\ t \in Seq(S) /\ Len(t) = IF m <= n THEN n - m + 1 ELSE 0
      /\ \A k \in 1..(n - m + 1) : t[k] = s[m + k - 1]
  BY <1>1, SubSeqProperties
<1> HIDE DEF t
<1>3. Len(t) = n - m + 1  BY <1>1, <1>2
<1> QED  BY <1>1, <1>2, <1>3 DEF t

\* Two sequences, one after the other.
LEMMA Joined ==
    ASSUME NEW S, NEW s \in Seq(S), NEW t \in Seq(S)
    PROVE  /\ s \o t \in Seq(S) /\ Len(s \o t) = Len(s) + Len(t)
           /\ Len(s) \in Nat /\ Len(t) \in Nat
           /\ \A k \in 1..Len(s) : (s \o t)[k] = s[k]
           /\ \A k \in 1..Len(t) : (s \o t)[Len(s) + k] = t[k]
<1>1. /\ s \o t \in Seq(S) /\ Len(s \o t) = Len(s) + Len(t)
      /\ \A k \in 1..(Len(s) + Len(t)) :
           (s \o t)[k] = IF k <= Len(s) THEN s[k] ELSE t[k - Len(s)]
  BY ConcatProperties
<1>2. Len(s) \in Nat /\ Len(t) \in Nat  OBVIOUS
<1> DEFINE st == s \o t
<1> HIDE DEF st
<1>3. \A k \in 1..Len(s) : st[k] = s[k]  BY <1>1, <1>2 DEF st
<1>4. ASSUME NEW k \in 1..Len(t) PROVE st[Len(s) + k] = t[k]
  <2>1. Len(s) + k \in 1..(Len(s) + Len(t)) /\ ~(Len(s) + k <= Len(s))
        /\ (Len(s) + k) - Len(s) = k
    BY <1>2
  <2> QED  BY <1>1, <2>1 DEF st
<1> QED  BY <1>1, <1>2, <1>3, <1>4 DEF st

\* The two instances cut alike.
LEMMA SameCut == \A s, i : Cache!RemoveAt(s, i) = Queue!RemoveAt(s, i)
  BY DEF Cache!RemoveAt, Queue!RemoveAt

\* The sequence without its i-th member.
LEMMA CutOne ==
    ASSUME NEW S, NEW s \in Seq(S), NEW i \in 1..Len(s)
    PROVE  LET t == Queue!RemoveAt(s, i)
           IN /\ t \in Seq(S) /\ Len(t) = Len(s) - 1
              /\ \A n \in 1..(Len(s) - 1) : t[n] = IF n < i THEN s[n] ELSE s[n + 1]
<1> DEFINE a == SubSeq(s, 1, i - 1)
           b == SubSeq(s, i + 1, Len(s))
<1>1. Len(s) \in Nat /\ Len(s) > 0 /\ i \in Nat /\ i > 0 /\ i <= Len(s)  OBVIOUS
<1>2. a \in Seq(S) /\ Len(a) = i - 1 /\ \A n \in 1..(i - 1) : a[n] = s[n]
  <2>1. 1 \in 1..(Len(s) + 1) /\ i - 1 \in (1 - 1)..Len(s)  BY <1>1
  <2>2. /\ a \in Seq(S) /\ Len(a) = i - 1 - 1 + 1
        /\ \A n \in 1..(i - 1 - 1 + 1) : a[n] = s[1 + n - 1]
    BY <2>1, PartOf
  <2> HIDE DEF a
  <2> QED  BY <1>1, <2>2
<1>3. b \in Seq(S) /\ Len(b) = Len(s) - i /\ \A n \in 1..(Len(s) - i) : b[n] = s[i + n]
  <2>1. i + 1 \in 1..(Len(s) + 1) /\ Len(s) \in (i + 1 - 1)..Len(s)  BY <1>1
  <2>2. /\ b \in Seq(S) /\ Len(b) = Len(s) - (i + 1) + 1
        /\ \A n \in 1..(Len(s) - (i + 1) + 1) : b[n] = s[i + 1 + n - 1]
    BY <2>1, PartOf
  <2> HIDE DEF b
  <2>3. ASSUME NEW n \in 1..(Len(s) - i) PROVE b[n] = s[i + n]
    <3>1. n \in 1..(Len(s) - (i + 1) + 1) /\ i + 1 + n - 1 = i + n  BY <1>1
    <3> QED  BY <2>2, <3>1
  <2> QED  BY <1>1, <2>2, <2>3
<1> HIDE DEF a, b
<1>4. /\ a \o b \in Seq(S) /\ Len(a \o b) = Len(a) + Len(b)
      /\ \A k \in 1..Len(a) : (a \o b)[k] = a[k]
      /\ \A k \in 1..Len(b) : (a \o b)[Len(a) + k] = b[k]
  <2>1. a \in Seq(S) /\ b \in Seq(S)  BY <1>2, <1>3
  <2> QED  BY <2>1, Joined
<1>5. ASSUME NEW n \in 1..(Len(s) - 1)
      PROVE  (a \o b)[n] = IF n < i THEN s[n] ELSE s[n + 1]
  <2>1. CASE n < i
    <3>1. n \in 1..Len(a) /\ n \in 1..(i - 1)  BY <1>1, <1>2, <2>1
    <3> QED  BY <1>2, <1>4, <2>1, <3>1
  <2>2. CASE n >= i
    <3> DEFINE k == n - (i - 1)
    <3>1. k \in 1..Len(b) /\ k \in 1..(Len(s) - i) /\ Len(a) + k = n /\ i + k = n + 1
      BY <1>1, <1>2, <1>3, <2>2
    <3> HIDE DEF k
    <3>2. b[k] = s[i + k]  BY <1>3, <3>1
    <3>3. (a \o b)[Len(a) + k] = b[k]  BY <1>4, <3>1
    <3>4. (a \o b)[n] = s[n + 1]  BY <3>1, <3>2, <3>3
    <3> QED  BY <1>1, <2>2, <3>4
  <2>3. n < i \/ n >= i  BY <1>1
  <2> QED  BY <2>1, <2>2, <2>3
<1>6. Len(a \o b) = Len(s) - 1  BY <1>1, <1>2, <1>3, <1>4
<1>7. Queue!RemoveAt(s, i) = a \o b  BY DEF Queue!RemoveAt, a, b
<1> QED  BY <1>1, <1>4, <1>5, <1>6, <1>7

\* The sequence with e put at place i.
LEMMA PutOne ==
    ASSUME NEW S, NEW s \in Seq(S), NEW i \in 1..(Len(s) + 1), NEW e \in S
    PROVE  LET t == Queue!InsertAt(s, i, e)
           IN /\ t \in Seq(S) /\ Len(t) = Len(s) + 1 /\ t[i] = e
              /\ \A n \in 1..Len(s) : t[IF n < i THEN n ELSE n + 1] = s[n]
<1> DEFINE a == SubSeq(s, 1, i - 1)
           b == SubSeq(s, i, Len(s))
           ae == a \o <<e>>
<1>1. Len(s) \in Nat /\ i \in Nat /\ i > 0 /\ i <= Len(s) + 1  OBVIOUS
<1>2. a \in Seq(S) /\ Len(a) = i - 1 /\ \A n \in 1..(i - 1) : a[n] = s[n]
  <2>1. 1 \in 1..(Len(s) + 1) /\ i - 1 \in (1 - 1)..Len(s)  BY <1>1
  <2>2. /\ a \in Seq(S) /\ Len(a) = i - 1 - 1 + 1
        /\ \A n \in 1..(i - 1 - 1 + 1) : a[n] = s[1 + n - 1]
    BY <2>1, PartOf
  <2> HIDE DEF a
  <2> QED  BY <1>1, <2>2
<1>3. /\ b \in Seq(S) /\ Len(b) = Len(s) - i + 1
      /\ \A n \in 1..(Len(s) - i + 1) : b[n] = s[i + n - 1]
  <2>1. i \in 1..(Len(s) + 1) /\ Len(s) \in (i - 1)..Len(s)  BY <1>1
  <2> QED  BY <2>1, PartOf
<1>4. <<e>> \in Seq(S) /\ Len(<<e>>) = 1 /\ <<e>>[1] = e  OBVIOUS
<1> HIDE DEF a, b
<1>5. /\ ae \in Seq(S) /\ Len(ae) = i /\ ae[i] = e /\ \A k \in 1..(i - 1) : ae[k] = s[k]
  <2>1. /\ ae \in Seq(S) /\ Len(ae) = Len(a) + Len(<<e>>)
        /\ \A k \in 1..Len(a) : ae[k] = a[k]
        /\ \A k \in 1..Len(<<e>>) : ae[Len(a) + k] = <<e>>[k]
    <3>1. a \in Seq(S) /\ <<e>> \in Seq(S)  BY <1>2, <1>4
    <3> QED  BY <3>1, Joined
  <2> HIDE DEF ae
  <2>2. ae[Len(a) + 1] = e  BY <1>4, <2>1
  <2> QED  BY <1>1, <1>2, <1>4, <2>1, <2>2
<1> HIDE DEF ae
<1>6. /\ ae \o b \in Seq(S) /\ Len(ae \o b) = Len(ae) + Len(b)
      /\ \A k \in 1..Len(ae) : (ae \o b)[k] = ae[k]
      /\ \A k \in 1..Len(b) : (ae \o b)[Len(ae) + k] = b[k]
  <2>1. ae \in Seq(S) /\ b \in Seq(S)  BY <1>3, <1>5
  <2> QED  BY <2>1, Joined
<1>7. ASSUME NEW n \in 1..Len(s) PROVE (ae \o b)[IF n < i THEN n ELSE n + 1] = s[n]
  <2>1. CASE n < i
    <3>1. n \in 1..Len(ae) /\ n \in 1..(i - 1)  BY <1>1, <1>5, <2>1
    <3> QED  BY <1>5, <1>6, <2>1, <3>1
  <2>2. CASE n >= i
    <3> DEFINE k == n - i + 1
    <3>1. k \in 1..Len(b) /\ k \in 1..(Len(s) - i + 1) /\ Len(ae) + k = n + 1 /\ i + k - 1 = n
      BY <1>1, <1>3, <1>5, <2>2
    <3> HIDE DEF k
    <3> QED  BY <1>1, <1>3, <1>6, <2>2, <3>1
  <2>3. n < i \/ n >= i  BY <1>1
  <2> QED  BY <2>1, <2>2, <2>3
<1>8. (ae \o b)[i] = e /\ Len(ae \o b) = Len(s) + 1
  <2>1. i \in 1..Len(ae)  BY <1>1, <1>5
  <2> QED  BY <1>1, <1>3, <1>5, <1>6, <2>1
<1>9. Queue!InsertAt(s, i, e) = ae \o b  BY DEF Queue!InsertAt, ae, a, b
<1> QED  BY <1>6, <1>7, <1>8, <1>9

-----------------------------------------------------------------------------
(* The library job.  The checkpoint and the mark are behind the walk: what  *)
(* they cover has been tried, at each place the walk can be at.             *)

\* The rows up to r have been answered or asked about, or were got past.
TriedTo(r) == \A x \in Row : x <= r => x \in tried \cup passed

\* What the job knows at each of its points.  A row that its page has queued is
\* on its way to be asked about.
Walk ==
    /\ job.at \in {"page", "work", "flush", "save"} => TriedTo(job.after)
    /\ job.at = "work" =>
         /\ job.next <= job.last + 1
         /\ \A x \in Row : x < job.next => x \in tried \cup passed \cup job.pending
    /\ job.at = "flush" => \A x \in Row : x <= job.last => x \in tried \cup passed \cup job.pending
    /\ job.at = "save" => TriedTo(job.last)

\* A thread on its way to the mark has seen the end of the table.
Marked == (done \/ marking) => Row \subseteq tried \cup passed

JobInv == TypeOK /\ TriedTo(cursor.after) /\ Walk /\ Marked

\* A job that has not run.
LEMMA JobInit == ASSUME Rows \in Nat, MaxRestart \in Nat PROVE Init => JobInv
<1> SUFFICES ASSUME Init PROVE JobInv  OBVIOUS
<1>1. NoJob \in Job  BY DEF NoJob, Job, Row
<1>2. TypeOK
  <2>1. NoCursor \in [after : 0..Rows, force : BOOLEAN]  BY DEF NoCursor
  <2>2. 0 \in 0..MaxRestart  OBVIOUS
  <2> QED  BY <1>1, <2>1, <2>2 DEF Init, TypeOK
<1>3. \A r \in Row : r > 0  BY DEF Row
<1>4. TriedTo(cursor.after)  BY <1>3 DEF Init, TriedTo, NoCursor, Row
<1>5. Walk /\ Marked  BY DEF Init, Walk, Marked, NoJob
<1> QED  BY <1>2, <1>4, <1>5 DEF JobInv

\* Every step keeps the types of the job.
LEMMA JobType ==
    ASSUME Rows \in Nat, PageSize \in Nat, MaxRestart \in Nat, TypeOK, Next
    PROVE  TypeOK'
<1> USE DEF TypeOK
<1>a. /\ 0 \in 0..Rows /\ 1 \in 1..(Rows + 1) /\ {} \in SUBSET Row
      /\ Row \subseteq 0..Rows
  BY DEF Row
<1>b. NoJob \in Job  BY <1>a DEF NoJob, Job
<1>c. [NoJob EXCEPT !.missed = job.missed] \in Job  BY <1>b DEF Job
<1>d. NoCursor \in [after : 0..Rows, force : BOOLEAN]  BY <1>a DEF NoCursor
<1>1. CASE \E force, asks \in BOOLEAN : Start(force, asks)
  <2>1. PICK force, asks \in BOOLEAN : Start(force, asks)  BY <1>1
  <2>2. [NoJob EXCEPT !.at = "starting", !.force = force, !.asks = asks] \in Job
    BY <1>b DEF Job
  <2> QED  BY <2>1, <2>2 DEF Start
<1>2. CASE StartFails
  <2>1. [job EXCEPT !.at = "lost"] \in Job  BY DEF Job
  <2> QED  BY <1>2, <2>1 DEF StartFails
<1>3. CASE Begin
  <2>1. PICK after \in {0, IF cursor.force = job.force THEN cursor.after ELSE 0} :
          job' = [job EXCEPT !.at = "page", !.after = after]
    BY <1>3 DEF Begin
  <2>2. after \in 0..Rows  BY <1>a, <2>1
  <2>3. [job EXCEPT !.at = "page", !.after = after] \in Job  BY <2>2 DEF Job
  <2> QED  BY <1>3, <2>1, <2>3 DEF Begin
<1>4. CASE Page
  <2>0. job.after \in 0..Rows /\ job.after < Rows  BY <1>4 DEF Page, Job
  <2>1. Smaller(job.after + PageSize, Rows) \in 0..Rows  BY <2>0 DEF Smaller
  <2>2. job.after + 1 \in 1..(Rows + 1)  BY <2>0
  <2>3. [job EXCEPT !.at = "work", !.next = job.after + 1,
                    !.last = Smaller(job.after + PageSize, Rows)] \in Job
    BY <2>1, <2>2 DEF Job
  <2> QED  BY <1>4, <2>3 DEF Page
<1>5. CASE Finish  BY <1>5, <1>c, <1>d DEF Finish, Over
<1>6. CASE Work
  <2>0. job.next \in 1..(Rows + 1) /\ job.last \in 0..Rows /\ job.next <= job.last
    BY <1>6 DEF Work, Job
  <2>1. job.next \in Row /\ job.next + 1 \in 1..(Rows + 1)  BY <2>0 DEF Row
  <2>2. [job EXCEPT !.next = job.next + 1] \in Job  BY <2>1 DEF Job
  <2>3. [[job EXCEPT !.next = job.next + 1] EXCEPT !.pending = @ \cup {job.next}] \in Job
    BY <2>1, <2>2 DEF Job
  <2> QED  BY <1>6, <2>1, <2>2, <2>3 DEF Work
<1>7. CASE Worked
  <2>1. [job EXCEPT !.at = "flush"] \in Job  BY DEF Job
  <2> QED  BY <1>7, <2>1 DEF Worked
<1>8. CASE Flush
  <2>1. job.pending \subseteq Row /\ job.missed \in BOOLEAN  BY DEF Job
  <2>2. PICK got \in SUBSET job.pending :
          /\ answered' = answered \cup got
          /\ job' = [job EXCEPT !.at = "save", !.pending = {},
                                !.missed = @ \/ got # job.pending]
    BY <1>8, Zenon DEF Flush
  <2>3. \A m \in BOOLEAN : [job EXCEPT !.at = "save", !.pending = {}, !.missed = m] \in Job
    BY <1>a DEF Job
  <2>4. job' \in Job  BY <2>1, <2>2, <2>3, Zenon
  <2> QED  BY <1>8, <2>1, <2>2, <2>4 DEF Flush
<1>9. CASE Save
  <2>1. job.last \in 0..Rows /\ job.force \in BOOLEAN  BY DEF Job
  <2>2. [job EXCEPT !.at = "page", !.after = job.last] \in Job  BY <2>1 DEF Job
  <2> QED  BY <1>9, <1>c, <2>1, <2>2 DEF Save, Over
<1>10. CASE Raises
  <2>1. job.pending \subseteq Row  BY DEF Job
  <2>2. PICK got \in SUBSET job.pending :
          answered' = answered \cup got /\ tried' = tried \cup got
    BY <1>10 DEF Raises
  <2> QED  BY <1>10, <1>c, <2>1, <2>2 DEF Raises, Over
<1>11. CASE Mark
  <2>1. done' \in BOOLEAN  BY <1>11 DEF Mark
  <2>2. marking' \in BOOLEAN /\ UNCHANGED <<cursor, answered, tried, passed, job, restarts>>
    BY <1>11 DEF Mark
  <2> QED  BY <2>1, <2>2
<1>12. CASE Restart
  <2>1. restarts < MaxRestart /\ restarts' = restarts + 1  BY <1>12 DEF Restart
  <2>2. restarts' \in 0..MaxRestart  BY <2>1
  <2> QED  BY <1>12, <1>b, <2>2 DEF Restart
<1> QED  BY <1>1, <1>2, <1>3, <1>4, <1>5, <1>6, <1>7, <1>8, <1>9, <1>10, <1>11, <1>12 DEF Next

\* Every step keeps what the walk knows.
LEMMA JobNext ==
    ASSUME Rows \in Nat, PageSize \in Nat, MaxRestart \in Nat, JobInv, Next
    PROVE  JobInv'
<1> USE DEF JobInv, TypeOK, Job, TriedTo, Walk, Marked, Row
<1>0. TypeOK'  BY JobType
<1>1. CASE \E force, asks \in BOOLEAN : Start(force, asks)  BY <1>0, <1>1 DEF Start, NoJob
<1>2. CASE StartFails  BY <1>0, <1>2 DEF StartFails
<1>3. CASE Begin  BY <1>0, <1>3 DEF Begin
<1>4. CASE Page
  <2>1. job'.at = "work" /\ job'.after = job.after /\ job'.next = job.after + 1
        /\ job'.last = Smaller(job.after + PageSize, Rows)
    BY <1>4 DEF Page
  <2>2. job'.next <= job'.last + 1  BY <1>4, <2>1 DEF Page, Smaller
  <2>3. \A x \in Row : x < job'.next => x \in tried \cup passed  BY <1>4, <2>1 DEF Page
  <2> QED  BY <1>0, <1>4, <2>1, <2>2, <2>3 DEF Page
<1>5. CASE Finish
  <2>1. Row \subseteq tried \cup passed  BY <1>5 DEF Finish
  <2> QED  BY <1>0, <1>5, <2>1 DEF Finish, Over, NoJob, NoCursor
<1>6. CASE Work
  <2>1. job'.at = "work" /\ job'.after = job.after /\ job'.last = job.last
        /\ job'.next = job.next + 1
    BY <1>6 DEF Work
  <2>2. /\ tried \subseteq tried' /\ passed \subseteq passed' /\ job.pending \subseteq job'.pending
        /\ job.next \in tried' \cup passed' \cup job'.pending
    <3>1. CASE /\ tried' = tried \cup {job.next} /\ UNCHANGED passed
               /\ job' = [job EXCEPT !.next = job.next + 1]
      BY <3>1
    <3>2. CASE /\ UNCHANGED <<tried, passed>>
               /\ job' = [[job EXCEPT !.next = job.next + 1] EXCEPT !.pending = @ \cup {job.next}]
      BY <3>2
    <3>3. CASE /\ passed' = passed \cup {job.next} /\ UNCHANGED tried
               /\ job' = [job EXCEPT !.next = job.next + 1]
      BY <3>3
    <3> QED  BY <1>6, <3>1, <3>2, <3>3 DEF Work
  <2>3. \A x \in Row : x < job'.next => x \in tried' \cup passed' \cup job'.pending
    BY <1>6, <2>1, <2>2 DEF Work
  <2>4. UNCHANGED <<cursor, done, marking>>  BY <1>6 DEF Work
  <2> QED  BY <1>0, <1>6, <2>1, <2>2, <2>3, <2>4 DEF Work
<1>7. CASE Worked  BY <1>0, <1>7 DEF Worked
<1>8. CASE Flush
  <2>1. job'.at = "save" /\ job'.after = job.after /\ job'.last = job.last  BY <1>8 DEF Flush
  <2>2. tried' = tried \cup job.pending /\ UNCHANGED <<cursor, done, passed, marking>>
    BY <1>8 DEF Flush
  <2> QED  BY <1>0, <1>8, <2>1, <2>2 DEF Flush
<1>9. CASE Save
  <2>1. cursor'.after = job.last /\ UNCHANGED <<tried, passed, done, marking>>  BY <1>9 DEF Save
  <2>2. \/ job'.at = "page" /\ job'.after = job.last
        \/ job'.at = "off"
    BY <1>9 DEF Save, Over, NoJob
  <2> QED  BY <1>0, <1>9, <2>1, <2>2 DEF Save
<1>10. CASE Raises
  <2>1. tried \subseteq tried' /\ UNCHANGED <<cursor, done, passed, marking>>
    BY <1>10 DEF Raises
  <2>2. job'.at = "off"  BY <1>10 DEF Raises, Over, NoJob
  <2> QED  BY <1>0, <2>1, <2>2
<1>11. CASE Mark  BY <1>0, <1>11 DEF Mark
<1>12. CASE Restart  BY <1>0, <1>12 DEF Restart, NoJob
<1> QED  BY <1>1, <1>2, <1>3, <1>4, <1>5, <1>6, <1>7, <1>8, <1>9, <1>10, <1>11, <1>12 DEF Next

\* So does a step of another part.
LEMMA JobStutter == JobInv /\ UNCHANGED vars => JobInv'
  BY DEF JobInv, TypeOK, TriedTo, Walk, Marked, vars

\* The invariant holds throughout.
LEMMA JobHolds ==
    ASSUME Rows \in Nat, PageSize \in Nat, MaxRestart \in Nat
    PROVE  Spec => []JobInv
<1>1. Init => JobInv  BY JobInit
<1>2. JobInv /\ [Next]_vars => JobInv'  BY JobNext, JobStutter
<1> QED  BY <1>1, <1>2, PTL DEF Spec

\* The checkpoint, the mark and the fields of the job stay in their ranges.
THEOREM TypeCorrect ==
    ASSUME Rows \in Nat, PageSize \in Nat, MaxRestart \in Nat
    PROVE  Spec => []TypeOK
<1>1. JobInv => TypeOK  BY DEF JobInv
<1> QED  BY <1>1, JobHolds, PTL

\* libjob.py and trackcredits.py: wherever the process died, the job was
\* stopped or a query failed, what a row before the checkpoint or before the
\* mark was queued for has been asked: only a row whose work raised, or that had
\* nobody to ask, was got past.
THEOREM SkipsNothing ==
    ASSUME Rows \in Nat, PageSize \in Nat, MaxRestart \in Nat
    PROVE  Spec => []NeverSkips
<1>1. JobInv => NeverSkips  BY DEF JobInv, TypeOK, TriedTo, Marked, NeverSkips
<1> QED  BY <1>1, JobHolds, PTL

-----------------------------------------------------------------------------
(* The queue of the covers.  What is promised of it is inductive, with its  *)
(* types.                                                                   *)

CoverAssumptions ==
    /\ IsFiniteSet(Cover)
    /\ MAX_INFLIGHT \in Nat /\ AHEAD_SLOTS \in Nat /\ AHEAD_SLOTS <= MAX_INFLIGHT

CoverInv == Covers!TypeOK /\ Attended

\* The instance counts as this module does.
LEMMA CoversCount == \A S : Covers!Cardinality(S) = Cardinality(S)
  BY DEF Cardinality, Covers!Cardinality, IsFiniteSet, Covers!IsFiniteSet

\* A page that has just loaded.
LEMMA CoverInit == CoverAssumptions /\ Covers!Init => CoverInv
<1> SUFFICES ASSUME CoverAssumptions, Covers!Init PROVE CoverInv  OBVIOUS
<1>1. Covers!Cardinality({}) = 0  BY FS_EmptySet, CoversCount
<1>2. Covers!TypeOK
  <2>1. where \in [Cover -> Covers!Place]  BY DEF Covers!Init, Covers!Place
  <2>2. inflight \in 0..MAX_INFLIGHT  BY DEF CoverAssumptions, Covers!Init
  <2> QED  BY <2>1, <2>2 DEF Covers!Init, Covers!TypeOK
<1>3. Attended  BY <1>1 DEF Covers!Init, Attended, Covers!Attended
<1> QED  BY <1>2, <1>3 DEF CoverInv

\* Covers that are let through fill the slots that are free, and no more.
LEMMA CoverAdmits ==
    ASSUME CoverAssumptions, CoverInv, NEW some \in SUBSET Cover, some \cap started = {},
           Cardinality(some) <= MAX_INFLIGHT - inflight, Covers!Admit(some)
    PROVE  /\ started' = started \cup some
           /\ inflight' \in 0..MAX_INFLIGHT
           /\ inflight' = Cardinality(counted') /\ counted' = stall'
           /\ counted' \subseteq started' /\ stall' \subseteq counted'
<1> USE DEF CoverInv, Covers!TypeOK, Attended, Covers!Attended
<1>1. counted \cap some = {}  OBVIOUS
<1>2. IsFiniteSet(some) /\ IsFiniteSet(counted)  BY FS_Subset DEF CoverAssumptions
<1>3. Cardinality(some) \in Nat /\ Cardinality(counted) \in Nat  BY <1>2, FS_CardinalityType
<1>4. Cardinality(counted \cup some) = Cardinality(counted) + Cardinality(some)
  <2>1. Cardinality(counted \cup some)
          = Cardinality(counted) + Cardinality(some) - Cardinality(counted \cap some)
    BY <1>2, FS_Union
  <2>2. Cardinality(counted \cap some) = 0  BY <1>1, FS_EmptySet
  <2> QED  BY <1>3, <2>1, <2>2
<1>5. inflight = Cardinality(counted)  BY CoversCount
<1>6. inflight' = inflight + Cardinality(some) /\ counted' = counted \cup some
      /\ stall' = stall \cup some /\ started' = started \cup some
  BY CoversCount DEF Covers!Admit
<1> QED  BY <1>3, <1>4, <1>5, <1>6 DEF CoverAssumptions

\* A cover goes to another place, and no slot changes hands.
LEMMA CoverTurns ==
    ASSUME CoverAssumptions, CoverInv, NEW asks \in SUBSET Cover,
           NEW some \in Covers!Turns(asks)
    PROVE  some \subseteq asks /\ Cardinality(some) <= MAX_INFLIGHT - inflight
<1> USE DEF CoverInv, Covers!TypeOK, CoverAssumptions
<1> DEFINE onScreen == {c \in asks : where[c] = "screen"}
           others == {c \in asks : where[c] \in {"near", "unbuilt"}}
           seen == Covers!Least(Cardinality(onScreen), MAX_INFLIGHT - inflight)
           ahead == IF AHEAD_SLOTS > inflight + seen
                    THEN Covers!Least(Cardinality(others), AHEAD_SLOTS - inflight - seen) ELSE 0
<1>1. /\ some \subseteq onScreen \cup others
      /\ Cardinality(some \cap onScreen) = seen /\ Cardinality(some \cap others) = ahead
  BY CoversCount DEF Covers!Turns
<1>2. IsFiniteSet(onScreen) /\ IsFiniteSet(others) /\ IsFiniteSet(some \cap onScreen)
      /\ IsFiniteSet(some \cap others)
  BY <1>1, FS_Subset
<1>3. Cardinality(onScreen) \in Nat /\ Cardinality(others) \in Nat
  BY <1>2, FS_CardinalityType
<1>4. seen \in Nat /\ seen <= MAX_INFLIGHT - inflight  BY <1>3 DEF Covers!Least
<1>5. ahead \in Nat /\ seen + ahead <= MAX_INFLIGHT - inflight
  BY <1>3, <1>4 DEF Covers!Least
<1>6. some = (some \cap onScreen) \cup (some \cap others)
      /\ (some \cap onScreen) \cap (some \cap others) = {}
  BY <1>1
<1>7. Cardinality(some) = seen + ahead
  <2> HIDE DEF onScreen, others, seen, ahead
  <2> QED  BY <1>1, <1>2, <1>4, <1>5, <1>6, FS_Union, FS_EmptySet
<1> QED  BY <1>1, <1>5, <1>7

\* A slot comes free, and the covers that wait fill the slots there are.
LEMMA CoverFrees ==
    ASSUME CoverAssumptions, CoverInv, NEW c \in Cover, Covers!Free(c), stall' = stall \ {c}
    PROVE  /\ inflight' \in 0..MAX_INFLIGHT
           /\ inflight' = Cardinality(counted') /\ counted' = stall'
           /\ counted' = counted \ {c}
<1> USE DEF CoverInv, Covers!TypeOK, Attended, Covers!Attended
<1>1. IsFiniteSet(counted)  BY FS_Subset DEF CoverAssumptions
<1>2. Cardinality(counted) \in Nat /\ inflight = Cardinality(counted)
  BY <1>1, FS_CardinalityType, CoversCount
<1>3. Cardinality(counted \ {c}) = IF c \in counted THEN Cardinality(counted) - 1
                                   ELSE Cardinality(counted)
  BY <1>1, FS_RemoveElement
<1>4. c \in counted => inflight > 0  BY <1>1, <1>2, FS_EmptySet
<1> QED  BY <1>2, <1>3, <1>4 DEF Covers!Free, CoverAssumptions

\* Every step of the queue keeps the invariant.
LEMMA CoverNext == ASSUME CoverAssumptions, CoverInv, Covers!Next PROVE CoverInv'
<1> USE DEF CoverInv, Covers!TypeOK, Attended, Covers!Attended, Covers!Schedule
<1>a. Covers!Cardinality(counted') = Cardinality(counted')
      /\ Covers!Cardinality(counted)' = Covers!Cardinality(counted')
  BY CoversCount
<1>1. ASSUME NEW c \in Cover, Covers!Request(c) PROVE CoverInv'
  <2> UNCHANGED <<where, recheck>>  BY <1>1 DEF Covers!Request
  <2>1. CASE inflight < MAX_INFLIGHT /\ where[c] = "screen"
    <3>1. Covers!Admit({c}) /\ UNCHANGED <<waiting, frame>> /\ {c} \cap started = {}
          /\ {c} \cap waiting = {}
      BY <1>1, <2>1 DEF Covers!Request
    <3>2. Cardinality({c}) = 1  BY FS_Singleton
    <3>3. Cardinality({c}) <= MAX_INFLIGHT - inflight  BY <2>1, <3>2 DEF CoverAssumptions
    <3>4. /\ started' = started \cup {c}
           /\ inflight' \in 0..MAX_INFLIGHT
           /\ inflight' = Cardinality(counted') /\ counted' = stall'
           /\ counted' \subseteq started' /\ stall' \subseteq counted'
      BY <3>1, <3>3, CoverAdmits
    <3>5. waiting' # {} => frame' \/ recheck'  BY <2>1, <3>1
    <3> QED  BY <1>a, <3>1, <3>4, <3>5
  <2>2. CASE ~(inflight < MAX_INFLIGHT /\ where[c] = "screen")
    <3>1. /\ waiting' = waiting \cup {c} /\ frame' = TRUE /\ c \notin started
          /\ UNCHANGED <<started, counted, stall, inflight>>
      BY <1>1, <2>2 DEF Covers!Request
    <3> QED  BY <1>a, <3>1
  <2> QED  BY <2>1, <2>2
<1>2. ASSUME NEW c \in Cover, Covers!Shift(c) \/ Covers!Rebuild(c) PROVE CoverInv'
  BY <1>2, <1>a DEF Covers!Shift, Covers!Rebuild, Covers!Place
<1>3. ASSUME NEW c \in Cover, Covers!Stall(c) PROVE CoverInv'
  <2>1. stall' = stall \ {c} /\ Covers!Free(c) /\ UNCHANGED <<where, waiting, started, recheck>>
        /\ frame' = (frame \/ waiting # {})
    BY <1>3 DEF Covers!Stall
  <2>2. /\ inflight' \in 0..MAX_INFLIGHT
        /\ inflight' = Cardinality(counted') /\ counted' = stall'
        /\ counted' = counted \ {c}
    BY <2>1, CoverFrees
  <2> QED  BY <1>a, <2>1, <2>2
<1>4. ASSUME NEW c \in Cover, Covers!Release(c) PROVE CoverInv'
  <2>1. /\ stall' = stall \ {c} /\ Covers!Free(c) /\ UNCHANGED <<where, recheck>>
        /\ waiting' = waiting \ {c} /\ started' = started \ {c}
        /\ frame' \in BOOLEAN
        /\ c \in started \ counted \/ (waiting' # {} => frame')
        /\ c \in started \ counted => frame' = frame /\ waiting' = waiting
    BY <1>4 DEF Covers!Release
  <2>2. /\ inflight' \in 0..MAX_INFLIGHT
        /\ inflight' = Cardinality(counted') /\ counted' = stall'
        /\ counted' = counted \ {c}
    BY <2>1, CoverFrees
  <2>3. c \in started \ counted => inflight' = inflight  BY <2>1 DEF Covers!Free
  <2> QED  BY <1>a, <2>1, <2>2, <2>3
<1>5. CASE Covers!Scroll
  <2>1. where' \in [Cover -> Covers!Place]
    <3>1. PICK p \in [Cover -> {"screen", "near", "far"}] :
            where' = [c \in Cover |-> IF where[c] \in {"unbuilt", "gone"} THEN where[c] ELSE p[c]]
      BY <1>5 DEF Covers!Scroll
    <3> QED  BY <3>1 DEF Covers!Place
  <2> QED  BY <1>5, <1>a, <2>1 DEF Covers!Scroll
<1>6. CASE Covers!Pump
  <2> DEFINE still == {c \in waiting : where[c] # "gone"}
             unmeasured == \E c \in still : where[c] = "unbuilt"
  <2>1. PICK some \in Covers!Turns(still) : Covers!Admit(some) /\ waiting' = still \ some
    BY <1>6 DEF Covers!Pump
  <2>2. frame' = (waiting' # {} /\ unmeasured /\ inflight' < MAX_INFLIGHT)
        /\ recheck' = (recheck \/ (waiting' # {} /\ ~unmeasured /\ inflight' < MAX_INFLIGHT))
        /\ UNCHANGED where
    BY <1>6 DEF Covers!Pump
  <2>3. some \subseteq still /\ Cardinality(some) <= MAX_INFLIGHT - inflight
    <3>1. still \in SUBSET Cover  OBVIOUS
    <3> QED  BY <2>1, <3>1, CoverTurns
  <2>4. /\ started' = started \cup some
        /\ inflight' \in 0..MAX_INFLIGHT
        /\ inflight' = Cardinality(counted') /\ counted' = stall'
        /\ counted' \subseteq started' /\ stall' \subseteq counted'
    <3>1. some \in SUBSET Cover /\ some \cap started = {}  BY <2>3
    <3> QED  BY <2>1, <2>3, <3>1, CoverAdmits
  <2>5. inflight' < MAX_INFLIGHT \/ inflight' = MAX_INFLIGHT  BY <2>4 DEF CoverAssumptions
  <2>6. waiting' # {} => frame' \/ recheck' \/ inflight' = MAX_INFLIGHT
    <3> HIDE DEF unmeasured
    <3> QED  BY <2>2, <2>5
  <2>7. waiting' \subseteq Cover /\ started' \subseteq Cover /\ waiting' \cap started' = {}
    BY <2>1, <2>3, <2>4
  <2>8. frame' \in BOOLEAN /\ recheck' \in BOOLEAN  BY <2>2
  <2> HIDE DEF still, unmeasured
  <2>9. where' \in [Cover -> Covers!Place]  BY <2>2
  <2>10. Covers!TypeOK'  BY <2>4, <2>7, <2>8, <2>9
  <2>11. Attended'  BY <1>a, <2>4, <2>6
  <2> QED  BY <2>10, <2>11
<1>7. CASE Covers!Recheck  BY <1>7, <1>a DEF Covers!Recheck
<1> QED  BY <1>1, <1>2, <1>3, <1>4, <1>5, <1>6, <1>7 DEF Covers!Next

\* So does a step of another part.
LEMMA CoverStutter == CoverInv /\ UNCHANGED ofCovers => CoverInv'
  BY CoversCount
  DEF CoverInv, ofCovers, Covers!TypeOK, Attended, Covers!Attended

\* A step of the whole is one of this queue, or leaves it alone.
LEMMA CoverStep == [KeptNext]_allVars => Covers!Next \/ UNCHANGED ofCovers
  BY DEF KeptNext, allVars, web

\* The invariant holds throughout.
LEMMA CoverHolds == CoverAssumptions => (KeptSpec => []CoverInv)
<1> SUFFICES ASSUME CoverAssumptions PROVE KeptSpec => []CoverInv  OBVIOUS
<1>1. KeptInit => CoverInv  BY CoverInit DEF KeptInit
<1>2. CoverInv /\ [KeptNext]_allVars => CoverInv'  BY CoverNext, CoverStutter, CoverStep
<1> QED  BY <1>1, <1>2, PTL DEF KeptSpec

\* coverqueue.js: while a cover waits, a frame or the recheck timer is to look at it
\* or every slot is in use; a slot is counted for each request under way, and for
\* none besides; and each of these has the timer that ends it if it stalls.
THEOREM CoversAttended == ASSUME CoverAssumptions PROVE KeptSpec => []Attended
<1>1. CoverInv => Attended  BY DEF CoverInv
<1> QED  BY <1>1, CoverHolds, PTL

-----------------------------------------------------------------------------
(* The downloads.  The invariant relates the record of a track, the file of *)
(* the app, what the page lists and what is under way, for the tracks that  *)
(* no two flows have crossed; the promise is the part of it that the user   *)
(* sees.                                                                    *)

OfflineAssumptions ==
    /\ IsFiniteSet(Song) /\ Song # {}
    /\ MaxTaps \in Nat /\ MaxLaunch \in Nat

\* What the device stores, and what the app holds of it.
OffDevice ==
    /\ rec \in [Song -> {"none", "blob", "app"}] /\ oldrec \subseteq Song
    /\ \A id \in oldrec : rec[id] = "none"

OffStore ==
    /\ file \subseteq Song
    /\ part \in [Song -> {"no", "fetch", "moved"}]
    /\ app \in [Song -> {"no", "fetch", "stop"}]
    /\ \A id \in Song : part[id] = "fetch" <=> app[id] = "fetch"
    /\ event \in [Song -> {"no", "done", "error"}]

\* What the page believes, and what it is doing.
OffMirror ==
    /\ shown \subseteq Song /\ total \in Nat /\ storedAs \subseteq Song /\ held \subseteq Song

Removal == [at : {"idle", "read", "delete"}, id : Song, name : {"key", "old"},
            disk : {"key", "old"}, had : BOOLEAN]
Move == [at : {"idle", "put", "commit", "record"}, id : Song]

OffFlow ==
    /\ dl \in [Song -> {"no", "clear", "body", "app", "gain"}]
    /\ rm \in [Remover -> Removal]
    /\ mv \in Move
    /\ chore \in {"due", "migrate", "move"} /\ todo \subseteq Song

OffPage ==
    /\ native \in BOOLEAN /\ up \in BOOLEAN
    /\ wanted \subseteq Song /\ crossed \subseteq Song
    /\ taps \in 0..MaxTaps /\ launches \in 0..MaxLaunch

\* A browser has no app beside it.
OffWeb ==
    /\ ~native => file = {} /\ \A id \in Song : rec[id] # "app" /\ app[id] = "no"
    /\ native => \A id \in Song : dl[id] # "body"

\* No page, nothing under way.
Asleep ==
    ~up => /\ shown = {} /\ storedAs = {} /\ held = {} /\ todo = {} /\ chore = "due"
           /\ mv.at = "idle" /\ total = 0
           /\ \A id \in Song : dl[id] = "no" /\ event[id] = "no"
           /\ \A r \in Remover : rm[r].at = "idle"

\* The chore of the move starts when nothing is left to rename.
MovesNative ==
    /\ mv.at # "idle" => native /\ mv.id \notin oldrec
    /\ chore = "move" /\ todo # {} => native

\* The page knows every old key.
KnowsOld == up => oldrec \subseteq shown /\ oldrec \subseteq storedAs

\* What is listed is not being downloaded.
NotTwice == \A id \in shown : dl[id] = "no"

\* A removal has one of the keys of its track, as the record had it.
RemovesOne ==
    \A r \in Remover : rm[r].at # "idle" =>
       /\ rm[r].disk = "key" => rm[r].name = "key" /\ rm[r].id \notin oldrec
       /\ rm[r].at = "delete" /\ rm[r].disk = "old" /\ rm[r].id \in oldrec => rm[r].had

OnDevice(id) == rec[id] # "none" \/ id \in oldrec

\* Wanted, on the device and listed are the same.
Listed ==
    \A id \in Song \ crossed :
       /\ id \in wanted <=> OnDevice(id)
       /\ up => /\ id \in shown <=> OnDevice(id)
                /\ rec[id] = "app" => id \in held
                /\ id \in storedAs => id \in oldrec

\* What is held for playing has its file.
Backed ==
    \A id \in Song \ crossed :
       /\ rec[id] = "app" => id \in file
       /\ id \in held => id \in file
       /\ event[id] = "done" => id \in file
       /\ native /\ dl[id] = "gain" => id \in file /\ id \in held

\* A move to the app has the record it read, and the file before it says so.
Moving ==
    mv.at # "idle" /\ mv.id \notin crossed =>
       /\ rec[mv.id] = "blob"
       /\ mv.at = "commit" => part[mv.id] = "moved" /\ app[mv.id] = "no"
       /\ mv.at = "record" => mv.id \in file /\ mv.id \in held

\* A removal by the right key is of what is listed.
Removing ==
    \A r \in Remover : rm[r].at # "idle" /\ rm[r].id \notin crossed /\ rm[r].name = "key" =>
       /\ rm[r].id \in shown
       /\ rm[r].at = "delete" /\ rm[r].disk = "key" => rm[r].had

Counted == crossed = {} => total = Cardinality(shown)

OfflineInv ==
    /\ OffDevice /\ OffStore /\ OffMirror /\ OffFlow /\ OffPage /\ OffWeb
    /\ Asleep /\ MovesNative /\ KnowsOld /\ NotTwice /\ RemovesOne
    /\ Listed /\ Backed /\ Moving /\ Removing /\ Counted

\* The instance counts as this module does.
LEMMA OfflineCount == \A S : Offline!Cardinality(S) = Cardinality(S)
  BY DEF Cardinality, Offline!Cardinality, IsFiniteSet, Offline!IsFiniteSet

\* A step that changes neither what is stored nor what is listed.
LEMMA OffFrame ==
    /\ OffDevice /\ UNCHANGED <<rec, oldrec>> => OffDevice'
    /\ OffStore /\ UNCHANGED <<file, part, app, event>> => OffStore'
    /\ OffMirror /\ UNCHANGED <<shown, total, storedAs, held>> => OffMirror'
    /\ OffFlow /\ UNCHANGED <<dl, rm, mv, chore, todo>> => OffFlow'
    /\ OffPage /\ UNCHANGED <<native, up, wanted, crossed, taps, launches>> => OffPage'
    /\ OffWeb /\ UNCHANGED <<native, file, rec, app, dl>> => OffWeb'
    /\ Asleep /\ UNCHANGED <<up, shown, storedAs, held, todo, chore, mv, total, dl, event, rm>>
         => Asleep'
    /\ MovesNative /\ UNCHANGED <<mv, native, oldrec, chore, todo>> => MovesNative'
    /\ KnowsOld /\ UNCHANGED <<up, oldrec, shown, storedAs>> => KnowsOld'
    /\ NotTwice /\ UNCHANGED <<shown, dl>> => NotTwice'
    /\ RemovesOne /\ UNCHANGED <<rm, oldrec>> => RemovesOne'
    /\ Listed /\ UNCHANGED <<wanted, rec, oldrec, up, shown, held, storedAs, crossed>> => Listed'
    /\ Backed /\ UNCHANGED <<rec, file, held, event, native, dl, crossed>> => Backed'
    /\ Moving /\ UNCHANGED <<mv, rec, part, app, file, held, crossed>> => Moving'
    /\ Removing /\ UNCHANGED <<rm, shown, crossed>> => Removing'
    /\ Counted /\ UNCHANGED <<crossed, total, shown>> => Counted'
<1>1. OffDevice /\ UNCHANGED <<rec, oldrec>> => OffDevice'
  BY DEF OffDevice
<1>2. OffStore /\ UNCHANGED <<file, part, app, event>> => OffStore'
  BY DEF OffStore
<1>3. OffMirror /\ UNCHANGED <<shown, total, storedAs, held>> => OffMirror'
  BY DEF OffMirror
<1>4. OffFlow /\ UNCHANGED <<dl, rm, mv, chore, todo>> => OffFlow'
  BY DEF OffFlow
<1>5. OffPage /\ UNCHANGED <<native, up, wanted, crossed, taps, launches>> => OffPage'
  BY DEF OffPage
<1>6. OffWeb /\ UNCHANGED <<native, file, rec, app, dl>> => OffWeb'
  BY DEF OffWeb
<1>7. Asleep /\ UNCHANGED <<up, shown, storedAs, held, todo, chore, mv, total, dl, event, rm>>
        => Asleep'
  BY DEF Asleep
<1>8. MovesNative /\ UNCHANGED <<mv, native, oldrec, chore, todo>> => MovesNative'
  BY DEF MovesNative
<1>9. KnowsOld /\ UNCHANGED <<up, oldrec, shown, storedAs>> => KnowsOld'
  BY DEF KnowsOld
<1>10. NotTwice /\ UNCHANGED <<shown, dl>> => NotTwice'
  BY DEF NotTwice
<1>11. RemovesOne /\ UNCHANGED <<rm, oldrec>> => RemovesOne'
  BY DEF RemovesOne
<1>12. Listed /\ UNCHANGED <<wanted, rec, oldrec, up, shown, held, storedAs, crossed>> => Listed'
  BY DEF Listed, OnDevice
<1>13. Backed /\ UNCHANGED <<rec, file, held, event, native, dl, crossed>> => Backed'
  BY DEF Backed
<1>14. Moving /\ UNCHANGED <<mv, rec, part, app, file, held, crossed>> => Moving'
  BY DEF Moving
<1>15. Removing /\ UNCHANGED <<rm, shown, crossed>> => Removing'
  BY DEF Removing
<1>16. Counted /\ UNCHANGED <<crossed, total, shown>> => Counted'
  BY DEF Counted
<1> QED
  BY <1>1, <1>2, <1>3, <1>4, <1>5, <1>6, <1>7, <1>8, <1>9, <1>10, <1>11, <1>12, <1>13, <1>14,
     <1>15, <1>16

\* The app has a file whole.
LEMMA OffAppDone ==
    ASSUME OfflineAssumptions, OfflineInv, NEW id \in Song,
           Offline!AppDone(id)
    PROVE  OfflineInv'
<1> USE DEF Offline!AppDone, Offline!Answers, Offline!device, Offline!store, Offline!mirror,
      Offline!flow
<1>1. UNCHANGED <<native, rec, oldrec, up, shown, total, storedAs, held, dl, rm, mv, chore,
                  todo, taps, launches, wanted, crossed>>  OBVIOUS
<1>2. OffStore'  BY <1>1 DEF OfflineInv, OffStore
<1>3. OffWeb'  BY <1>1 DEF OfflineInv, OffWeb, OffStore, OffPage
<1>4. Asleep'  BY <1>1 DEF OfflineInv, Asleep, OffStore, OffPage
<1>5. Backed'  BY <1>1 DEF OfflineInv, Backed, OffStore, OffPage
<1>6. Moving'  BY <1>1 DEF OfflineInv, Moving, OffStore, OffPage
<1> HIDE DEF Offline!AppDone, Offline!Answers
<1> QED  BY <1>1, <1>2, <1>3, <1>4, <1>5, <1>6, OffFrame DEF OfflineInv

\* The app gives a download up.
LEMMA OffAppFails ==
    ASSUME OfflineAssumptions, OfflineInv, NEW id \in Song,
           Offline!AppFails(id)
    PROVE  OfflineInv'
<1> USE DEF Offline!AppFails, Offline!Answers, Offline!device, Offline!store, Offline!mirror,
      Offline!flow
<1>1. UNCHANGED <<native, rec, oldrec, file, up, shown, total, storedAs, held, dl, rm, mv,
                  chore, todo, taps, launches, wanted, crossed>>  OBVIOUS
<1>2. OffStore'  BY <1>1 DEF OfflineInv, OffStore
<1>3. OffWeb'  BY <1>1 DEF OfflineInv, OffWeb, OffStore, OffPage
<1>4. Asleep'  BY <1>1 DEF OfflineInv, Asleep, OffStore, OffPage
<1>5. Backed'  BY <1>1 DEF OfflineInv, Backed, OffStore, OffPage
<1>6. Moving'  BY <1>1 DEF OfflineInv, Moving, OffStore, OffPage
<1> HIDE DEF Offline!AppFails, Offline!Answers
<1> QED  BY <1>1, <1>2, <1>3, <1>4, <1>5, <1>6, OffFrame DEF OfflineInv

\* The page hears of it.
LEMMA OffHear ==
    ASSUME OfflineAssumptions, OfflineInv, NEW id \in Song,
           Offline!Hear(id)
    PROVE  OfflineInv'
<1> USE DEF Offline!Hear, Offline!device, Offline!store, Offline!mirror, Offline!flow
<1>1. UNCHANGED <<native, rec, oldrec, file, part, app, up, shown, total, storedAs, rm, mv,
                  chore, todo, taps, launches, wanted, crossed>>  OBVIOUS
<1>2. OffStore'  BY <1>1 DEF OfflineInv, OffStore
<1>3. OffMirror'  BY <1>1 DEF OfflineInv, OffMirror
<1>4. OffFlow'  BY <1>1 DEF OfflineInv, OffFlow, Removal, Move
<1>5. OffWeb'  BY <1>1 DEF OfflineInv, OffWeb, OffFlow, OffPage, Removal, Move
<1>6. Asleep'  BY <1>1 DEF OfflineInv, Asleep, OffStore, OffFlow, OffMirror, Removal, Move
<1>7. NotTwice'  BY <1>1 DEF OfflineInv, NotTwice, OffFlow, OffMirror, Removal, Move
<1>8. Listed'  BY <1>1 DEF OfflineInv, Listed, OffMirror, OnDevice
<1>9. Backed'  BY <1>1 DEF OfflineInv, Backed, OffStore, OffFlow, OffMirror, Removal, Move
<1>10. Moving'  BY <1>1 DEF OfflineInv, Moving, OffMirror
<1> HIDE DEF Offline!Hear
<1> QED  BY <1>1, <1>2, <1>3, <1>4, <1>5, <1>6, <1>7, <1>8, <1>9, <1>10, OffFrame DEF OfflineInv

\* A tap downloads a track.
LEMMA OffDownload ==
    ASSUME OfflineAssumptions, OfflineInv, NEW id \in Song,
           Offline!Download(id)
    PROVE  OfflineInv'
<1> USE DEF Offline!Download, Offline!device, Offline!store, Offline!mirror, Offline!flow
<1>1. UNCHANGED <<native, rec, oldrec, file, part, app, event, up, shown, total, storedAs, held,
                  rm, mv, chore, todo, launches, wanted, crossed>>  OBVIOUS
<1>2. OffFlow'  BY <1>1 DEF OfflineInv, OffFlow, Removal, Move
<1>3. OffPage'  BY <1>1 DEF OfflineInv, OffPage, OfflineAssumptions
<1>4. OffWeb'  BY <1>1 DEF OfflineInv, OffWeb, OffFlow, OffPage, Removal, Move
<1>5. Asleep'  BY <1>1 DEF OfflineInv, Asleep, OffFlow, Removal, Move
<1>6. NotTwice'  BY <1>1 DEF OfflineInv, NotTwice, OffFlow, Removal, Move
<1>7. Backed'  BY <1>1 DEF OfflineInv, Backed, OffFlow, Removal, Move
<1> HIDE DEF Offline!Download
<1> QED  BY <1>1, <1>2, <1>3, <1>4, <1>5, <1>6, <1>7, OffFrame DEF OfflineInv

\* The bytes are asked for.
LEMMA OffFetch ==
    ASSUME OfflineAssumptions, OfflineInv, NEW id \in Song,
           Offline!Fetch(id)
    PROVE  OfflineInv'
<1> USE DEF Offline!Fetch, Offline!device, Offline!store, Offline!mirror, Offline!flow
<1>1. UNCHANGED <<native, rec, oldrec, file, event, up, shown, total, storedAs, held, rm, mv,
                  chore, todo, taps, launches, wanted, crossed>>  OBVIOUS
<1>2. OffStore'  BY <1>1 DEF OfflineInv, OffStore
<1>3. OffFlow'  BY <1>1 DEF OfflineInv, OffFlow, Removal, Move
<1>4. OffWeb'  BY <1>1 DEF OfflineInv, OffWeb, OffFlow, OffPage, Removal, Move
<1>5. Asleep'  BY <1>1 DEF OfflineInv, Asleep, OffFlow, Removal, Move
<1>6. NotTwice'  BY <1>1 DEF OfflineInv, NotTwice, OffFlow, Removal, Move
<1>7. Backed'  BY <1>1 DEF OfflineInv, Backed, OffFlow, Removal, Move
<1>8. Moving'
    BY <1>1 DEF OfflineInv, Moving, OffStore, OffDevice, OffMirror, Listed, NotTwice,
       Asleep, OffPage, OffFlow, OnDevice, Removal, Move
<1> HIDE DEF Offline!Fetch
<1> QED  BY <1>1, <1>2, <1>3, <1>4, <1>5, <1>6, <1>7, <1>8, OffFrame DEF OfflineInv

\* They are there.
LEMMA OffFetched ==
    ASSUME OfflineAssumptions, OfflineInv, NEW id \in Song,
           Offline!Fetched(id)
    PROVE  OfflineInv'
<1> USE DEF Offline!Fetched, Offline!device, Offline!store, Offline!mirror, Offline!flow
<1>1. UNCHANGED <<native, rec, oldrec, file, part, app, event, up, shown, total, storedAs, held,
                  rm, mv, chore, todo, taps, launches, wanted, crossed>>  OBVIOUS
<1>2. OffFlow'  BY <1>1 DEF OfflineInv, OffFlow, Removal, Move
<1>3. OffWeb'  BY <1>1 DEF OfflineInv, OffWeb, OffFlow, OffPage, Removal, Move
<1>4. Asleep'  BY <1>1 DEF OfflineInv, Asleep, OffFlow, Removal, Move
<1>5. NotTwice'  BY <1>1 DEF OfflineInv, NotTwice, OffFlow, Removal, Move
<1>6. Backed'  BY <1>1 DEF OfflineInv, Backed, OffFlow, OffPage, OffWeb, Removal, Move
<1> HIDE DEF Offline!Fetched
<1> QED  BY <1>1, <1>2, <1>3, <1>4, <1>5, <1>6, OffFrame DEF OfflineInv

\* The record of the track is written.
LEMMA OffRecorded ==
    ASSUME OfflineAssumptions, OfflineInv, NEW id \in Song,
           Offline!Recorded(id)
    PROVE  OfflineInv'
<1> USE DEF Offline!Recorded, Offline!device, Offline!store, Offline!mirror, Offline!flow
<1>1. UNCHANGED <<native, oldrec, file, part, app, event, up, storedAs, held, rm, mv, chore,
                  todo, taps, launches, crossed>>  OBVIOUS
<1>2. OffDevice'
    BY <1>1 DEF OfflineInv, OffDevice, NotTwice, KnowsOld, Asleep, OffPage, OffFlow,
       Removal, Move
<1>3. OffMirror'  BY <1>1 DEF OfflineInv, OffMirror
<1>4. OffFlow'  BY <1>1 DEF OfflineInv, OffFlow, Removal, Move
<1>5. OffPage'  BY <1>1 DEF OfflineInv, OffPage, OfflineAssumptions
<1>6. OffWeb'  BY <1>1 DEF OfflineInv, OffWeb, OffFlow, OffPage, Removal, Move
<1>7. Asleep'  BY <1>1 DEF OfflineInv, Asleep, OffFlow, OffMirror, Removal, Move
<1>8. KnowsOld'  BY <1>1 DEF OfflineInv, KnowsOld, OffMirror
<1>9. NotTwice'  BY <1>1 DEF OfflineInv, NotTwice, OffFlow, OffMirror, Removal, Move
<1>10. Listed'
    BY <1>1 DEF OfflineInv, Listed, OffDevice, OffMirror, Backed, Asleep, OffPage, OffFlow,
       OnDevice, Removal, Move
<1>11. Backed'  BY <1>1 DEF OfflineInv, Backed, OffDevice, OffFlow, Removal, Move
<1>12. Moving'
    BY <1>1 DEF OfflineInv, Moving, OffDevice, OffMirror, Listed, NotTwice, Asleep, OffPage,
       OffFlow, OnDevice, Removal, Move
<1>13. Removing'  BY <1>1 DEF OfflineInv, Removing, OffMirror
<1>14. Counted'
    BY <1>1, FS_AddElement, FS_Subset DEF OfflineInv, Counted, OffMirror, NotTwice, OffFlow,
       OfflineAssumptions, Removal, Move
<1> HIDE DEF Offline!Recorded
<1> QED
  BY <1>1, <1>2, <1>3, <1>4, <1>5, <1>6, <1>7, <1>8, <1>9, <1>10, <1>11, <1>12, <1>13, <1>14,
     OffFrame DEF OfflineInv

\* It is not.
LEMMA OffRecordFails ==
    ASSUME OfflineAssumptions, OfflineInv, NEW id \in Song,
           Offline!RecordFails(id)
    PROVE  OfflineInv'
<1> USE DEF Offline!RecordFails, Offline!device, Offline!store, Offline!mirror, Offline!flow
<1>1. UNCHANGED <<native, rec, oldrec, file, part, app, event, up, shown, total, storedAs, held,
                  rm, mv, chore, todo, taps, launches, wanted, crossed>>  OBVIOUS
<1>2. OffFlow'  BY <1>1 DEF OfflineInv, OffFlow, Removal, Move
<1>3. OffWeb'  BY <1>1 DEF OfflineInv, OffWeb, OffFlow, OffPage, Removal, Move
<1>4. Asleep'  BY <1>1 DEF OfflineInv, Asleep, OffFlow, Removal, Move
<1>5. NotTwice'  BY <1>1 DEF OfflineInv, NotTwice, OffFlow, Removal, Move
<1>6. Backed'  BY <1>1 DEF OfflineInv, Backed, OffFlow, Removal, Move
<1> HIDE DEF Offline!RecordFails
<1> QED  BY <1>1, <1>2, <1>3, <1>4, <1>5, <1>6, OffFrame DEF OfflineInv

\* A tap removes a track.
LEMMA OffRemove ==
    ASSUME OfflineAssumptions, OfflineInv, NEW r \in Remover, NEW id \in Song,
           NEW name \in {"key", "old"},
           Offline!Remove(r, id, name)
    PROVE  OfflineInv'
<1> USE DEF Offline!Remove, Offline!device, Offline!store, Offline!mirror, Offline!flow
<1>1. UNCHANGED <<native, rec, oldrec, file, part, app, event, up, shown, total, storedAs, held,
                  dl, mv, chore, todo, launches, wanted, crossed>>  OBVIOUS
<1>2. OffFlow'  BY <1>1 DEF OfflineInv, OffFlow, Removal, Move
<1>3. OffPage'  BY <1>1 DEF OfflineInv, OffPage, OfflineAssumptions
<1>4. Asleep'  BY <1>1 DEF OfflineInv, Asleep, OffFlow, Removal, Move
<1>5. RemovesOne'  BY <1>1 DEF OfflineInv, RemovesOne, KnowsOld, OffFlow, Removal, Move
<1>6. Removing'  BY <1>1 DEF OfflineInv, Removing, OffFlow, Removal, Move
<1> HIDE DEF Offline!Remove
<1> QED  BY <1>1, <1>2, <1>3, <1>4, <1>5, <1>6, OffFrame DEF OfflineInv

\* The removal reads the record under one of its two names.
LEMMA OffRemoveReads ==
    ASSUME OfflineAssumptions, OfflineInv, NEW r \in Remover,
           Offline!RemoveReads(r)
    PROVE  OfflineInv'
<1> USE DEF Offline!RemoveReads, Offline!device, Offline!store, Offline!mirror, Offline!flow
<1>1. UNCHANGED <<native, rec, oldrec, file, part, app, event, up, shown, total, storedAs, held,
                  dl, mv, chore, todo, taps, launches, wanted, crossed>>  OBVIOUS
<1>2. OffFlow'
  <2> DEFINE had == IF rm[r].disk = "old" THEN rm[r].id \in oldrec ELSE rec[rm[r].id] # "none"
             now == [rm[r] EXCEPT !.at = "delete", !.had = had]
  <2>1. rm[r] \in Removal /\ rm \in [Remover -> Removal]  BY DEF OfflineInv, OffFlow
  <2>2. had \in BOOLEAN
    <3>1. CASE rm[r].disk = "old"  BY <3>1
    <3>2. CASE rm[r].disk # "old"  BY <3>2
    <3> QED  BY <3>1, <3>2
  <2>3. rm' = [rm EXCEPT ![r] = now]  OBVIOUS
  <2> HIDE DEF had
  <2>4. now \in Removal  BY <2>1, <2>2 DEF Removal
  <2> HIDE DEF now
  <2>5. rm' \in [Remover -> Removal]  BY <2>1, <2>3, <2>4
  <2> QED  BY <1>1, <2>5 DEF OfflineInv, OffFlow
<1>3. Asleep'  BY <1>1 DEF OfflineInv, Asleep, OffFlow, Removal, Move
<1>4. RemovesOne'  BY <1>1 DEF OfflineInv, RemovesOne, OffFlow, Removal, Move
<1>5. Removing'
    BY <1>1 DEF OfflineInv, Removing, Listed, RemovesOne, OffDevice, OffMirror, Asleep,
       OffPage, OffFlow, OnDevice, Removal, Move
<1> HIDE DEF Offline!RemoveReads
<1> QED  BY <1>1, <1>2, <1>3, <1>4, <1>5, OffFrame DEF OfflineInv

\* The removal deletes the record.
LEMMA OffRemoved ==
    ASSUME OfflineAssumptions, OfflineInv, NEW r \in Remover,
           Offline!Removed(r)
    PROVE  OfflineInv'
<1> USE DEF Offline!Removed, Offline!AppRemoves, Offline!Idle, Offline!HalfMade, Offline!device,
      Offline!store, Offline!mirror, Offline!flow
<1>1. UNCHANGED <<native, event, up, dl, mv, chore, todo, taps, launches>>  OBVIOUS
<1>2. OffDevice'  BY <1>1 DEF OfflineInv, OffDevice
<1>3. OffStore'  BY <1>1 DEF OfflineInv, OffStore
<1>4. OffMirror'  BY <1>1 DEF OfflineInv, OffMirror
<1>5. OffFlow'  BY <1>1 DEF OfflineInv, OffFlow, Removal, Move
<1>6. OffPage'  BY <1>1 DEF OfflineInv, OffPage, OffFlow, Removal, Move
<1>7. OffWeb'  BY <1>1 DEF OfflineInv, OffWeb, OffDevice, OffStore
<1>8. Asleep'  BY <1>1 DEF OfflineInv, Asleep, OffFlow, OffMirror, Removal, Move
<1>9. MovesNative'  BY <1>1 DEF OfflineInv, MovesNative, OffDevice
<1>10. KnowsOld'  BY <1>1 DEF OfflineInv, KnowsOld, RemovesOne, OffFlow, OffPage, Removal, Move
<1>11. NotTwice'  BY <1>1 DEF OfflineInv, NotTwice, OffMirror
<1>12. RemovesOne'  BY <1>1 DEF OfflineInv, RemovesOne, OffDevice, OffFlow, Removal, Move
<1>13. Listed'
    BY <1>1 DEF OfflineInv, Listed, RemovesOne, Removing, OffDevice, OffMirror, Asleep,
       OffPage, OffFlow, OnDevice, Removal, Move
<1>14. Backed'  BY <1>1 DEF OfflineInv, Backed, OffDevice, OffStore, OffMirror
<1>15. Moving'
    BY <1>1 DEF OfflineInv, Moving, RemovesOne, OffDevice, OffMirror, OffStore, OffFlow,
       Removal, Move
<1>16. Removing'  BY <1>1 DEF OfflineInv, Removing, OffFlow, OffMirror, Removal, Move
<1>17. Counted'
  <2> SUFFICES ASSUME crossed' = {} PROVE total' = Cardinality(shown')  BY DEF Counted
  <2> DEFINE id == rm[r].id
  <2>1. crossed' = IF \/ Offline!HalfMade(id) \/ (rm[r].disk = "old" /\ id \notin oldrec)
                      \/ rm[r].name = "old"
                      \/ \E s \in Remover \ {r} : rm[s].at # "idle" /\ rm[s].id = id
                   THEN crossed \cup {id} ELSE crossed  OBVIOUS
  <2>2. crossed = {} /\ (rm[r].disk = "old" => id \in oldrec) /\ rm[r].name # "old"
    BY <2>1
  <2>3. rm[r].name = "key"  BY <2>2 DEF OfflineInv, OffFlow, Removal
  <2>4. /\ shown' = shown \ {id} /\ rm[r].at = "delete"
        /\ total' = IF rm[r].had /\ total > 0 THEN total - 1 ELSE total
    BY <2>3
  <2>5. id \in shown /\ rm[r].had
    BY <2>2, <2>3, <2>4 DEF OfflineInv, RemovesOne, Removing, OffFlow, Removal
  <2>6. IsFiniteSet(shown) /\ total = Cardinality(shown)
    BY <2>2, FS_Subset DEF OfflineInv, OffMirror, Counted, OfflineAssumptions
  <2>7. Cardinality(shown') = Cardinality(shown) - 1 /\ shown # {}
    BY <2>4, <2>5, <2>6, FS_RemoveElement
  <2>8. total > 0  BY <2>6, <2>7, FS_EmptySet, FS_CardinalityType
  <2> QED  BY <2>4, <2>5, <2>6, <2>7, <2>8
<1> HIDE DEF Offline!Removed, Offline!AppRemoves, Offline!Idle, Offline!HalfMade
<1> QED
  BY <1>1, <1>2, <1>3, <1>4, <1>5, <1>6, <1>7, <1>8, <1>9, <1>10, <1>11, <1>12, <1>13, <1>14,
     <1>15, <1>16, <1>17, OffFrame DEF OfflineInv

\* Every download goes.
LEMMA OffClearAll ==
    ASSUME OfflineAssumptions, OfflineInv,
           Offline!ClearAll
    PROVE  OfflineInv'
<1> USE DEF Offline!ClearAll, Offline!AppRemoves, Offline!HalfMade, Offline!device,
      Offline!store, Offline!mirror, Offline!flow
<1>1. UNCHANGED <<native, event, up, storedAs, dl, rm, mv, chore, todo, launches>>  OBVIOUS
<1>2. OffDevice'  BY <1>1 DEF OfflineInv, OffDevice
<1>3. OffStore'  BY <1>1 DEF OfflineInv, OffStore
<1>4. OffMirror'  BY <1>1 DEF OfflineInv, OffMirror
<1>5. OffPage'
    BY <1>1 DEF OfflineInv, OffPage, OffFlow, OffMirror, OfflineAssumptions, Removal, Move
<1>6. OffWeb'  BY <1>1 DEF OfflineInv, OffWeb, OffDevice, OffStore
<1>7. Asleep'  BY <1>1 DEF OfflineInv, Asleep, OffMirror
<1>8. MovesNative'  BY <1>1 DEF OfflineInv, MovesNative, OffDevice
<1>9. KnowsOld'  BY <1>1 DEF OfflineInv, KnowsOld, OffDevice, OffMirror
<1>10. NotTwice'  BY <1>1 DEF OfflineInv, NotTwice, OffMirror
<1>11. RemovesOne'  BY <1>1 DEF OfflineInv, RemovesOne, OffDevice
<1>12. Listed'  BY <1>1 DEF OfflineInv, Listed, OffDevice, OffMirror, OnDevice
<1>13. Backed'
    BY <1>1 DEF OfflineInv, Backed, OffWeb, OffStore, OffFlow, OffPage, Removal, Move
<1>14. Moving'  BY <1>1 DEF OfflineInv, Moving, OffFlow, OffPage, Removal, Move
<1>15. Removing'  BY <1>1 DEF OfflineInv, Removing, OffMirror
<1>16. Counted'  BY <1>1, FS_EmptySet DEF OfflineInv, Counted
<1> HIDE DEF Offline!ClearAll, Offline!AppRemoves, Offline!HalfMade
<1> QED
  BY <1>1, <1>2, <1>3, <1>4, <1>5, <1>6, <1>7, <1>8, <1>9, <1>10, <1>11, <1>12, <1>13, <1>14,
     <1>15, <1>16, OffFrame DEF OfflineInv

\* The page looks for records under their old keys.
LEMMA OffStartMigration ==
    ASSUME OfflineAssumptions, OfflineInv,
           Offline!StartMigration
    PROVE  OfflineInv'
<1> USE DEF Offline!StartMigration, Offline!device, Offline!store, Offline!mirror, Offline!flow
<1>1. UNCHANGED <<native, rec, oldrec, file, part, app, event, up, shown, total, storedAs, held,
                  dl, rm, mv, taps, launches, wanted, crossed>>  OBVIOUS
<1>2. OffFlow'  BY <1>1 DEF OfflineInv, OffFlow, OffMirror, Removal, Move
<1>3. Asleep'  BY <1>1 DEF OfflineInv, Asleep
<1>4. MovesNative'  BY <1>1 DEF OfflineInv, MovesNative
<1> HIDE DEF Offline!StartMigration
<1> QED  BY <1>1, <1>2, <1>3, <1>4, OffFrame DEF OfflineInv

\* One of them is renamed.
LEMMA OffMigrate ==
    ASSUME OfflineAssumptions, OfflineInv, NEW id \in Song,
           Offline!Migrate(id)
    PROVE  OfflineInv'
<1> USE DEF Offline!Migrate, Offline!device, Offline!store, Offline!mirror, Offline!flow
<1>1. UNCHANGED <<native, file, part, app, event, up, shown, total, held, dl, rm, mv, chore,
                  taps, launches, wanted, crossed>>  OBVIOUS
<1>2. OffDevice'  BY <1>1 DEF OfflineInv, OffDevice
<1>3. OffMirror'  BY <1>1 DEF OfflineInv, OffMirror
<1>4. OffFlow'  BY <1>1 DEF OfflineInv, OffFlow, Removal, Move
<1>5. OffWeb'  BY <1>1 DEF OfflineInv, OffWeb, OffDevice
<1>6. Asleep'  BY <1>1 DEF OfflineInv, Asleep, OffMirror
<1>7. MovesNative'  BY <1>1 DEF OfflineInv, MovesNative, OffDevice
<1>8. KnowsOld'  BY <1>1 DEF OfflineInv, KnowsOld, OffDevice, OffMirror
<1>9. RemovesOne'  BY <1>1 DEF OfflineInv, RemovesOne, OffDevice
<1>10. Listed'  BY <1>1 DEF OfflineInv, Listed, OffDevice, OffMirror, OnDevice
<1>11. Backed'  BY <1>1 DEF OfflineInv, Backed, OffDevice
<1>12. Moving'  BY <1>1 DEF OfflineInv, Moving, OffDevice
<1> HIDE DEF Offline!Migrate
<1> QED
  BY <1>1, <1>2, <1>3, <1>4, <1>5, <1>6, <1>7, <1>8, <1>9, <1>10, <1>11, <1>12, OffFrame DEF
     OfflineInv

\* The page looks for records that hold their bytes.
LEMMA OffStartMove ==
    ASSUME OfflineAssumptions, OfflineInv,
           Offline!StartMove
    PROVE  OfflineInv'
<1> USE DEF Offline!StartMove, Offline!device, Offline!store, Offline!mirror, Offline!flow
<1>1. UNCHANGED <<native, rec, oldrec, file, part, app, event, up, shown, total, storedAs, held,
                  dl, rm, mv, taps, launches, wanted, crossed>>  OBVIOUS
<1>2. OffFlow'  BY <1>1 DEF OfflineInv, OffFlow, Removal, Move
<1>3. Asleep'  BY <1>1 DEF OfflineInv, Asleep
<1>4. MovesNative'  BY <1>1 DEF OfflineInv, MovesNative
<1> HIDE DEF Offline!StartMove
<1> QED  BY <1>1, <1>2, <1>3, <1>4, OffFrame DEF OfflineInv

\* The bytes of one are handed over to the app.
LEMMA OffMoveNext ==
    ASSUME OfflineAssumptions, OfflineInv, NEW id \in Song,
           Offline!MoveNext(id)
    PROVE  OfflineInv'
<1> USE DEF Offline!MoveNext, Offline!device, Offline!store, Offline!mirror, Offline!flow
<1>1. UNCHANGED <<native, rec, oldrec, file, part, app, event, up, shown, total, storedAs, held,
                  dl, rm, chore, taps, launches, wanted, crossed>>  OBVIOUS
<1>2. OffFlow'  BY <1>1 DEF OfflineInv, OffFlow, Removal, Move
<1>3. Asleep'  BY <1>1 DEF OfflineInv, Asleep, OffFlow, Removal, Move
<1>4. MovesNative'
    BY <1>1 DEF OfflineInv, MovesNative, KnowsOld, Asleep, OffPage, OffFlow, Removal, Move
<1>5. Moving'  BY <1>1 DEF OfflineInv, Moving, OffFlow, Removal, Move
<1> HIDE DEF Offline!MoveNext
<1> QED  BY <1>1, <1>2, <1>3, <1>4, <1>5, OffFrame DEF OfflineInv

\* The hand-over is given up.
LEMMA OffMoveStops ==
    ASSUME OfflineAssumptions, OfflineInv,
           Offline!MoveStops
    PROVE  OfflineInv'
<1> USE DEF Offline!MoveStops, Offline!Stops, Offline!Still, Offline!device, Offline!store,
      Offline!mirror, Offline!flow
<1>1. UNCHANGED <<native, rec, oldrec, file, part, app, event, up, shown, total, storedAs, held,
                  dl, rm, chore, taps, launches, wanted, crossed>>  OBVIOUS
<1>2. OffFlow'  BY <1>1 DEF OfflineInv, OffFlow, Removal, Move
<1>3. Asleep'  BY <1>1 DEF OfflineInv, Asleep, OffFlow, Removal, Move
<1>4. MovesNative'  BY <1>1 DEF OfflineInv, MovesNative, OffFlow, Removal, Move
<1>5. Moving'  BY <1>1 DEF OfflineInv, Moving, OffFlow, Removal, Move
<1> HIDE DEF Offline!MoveStops, Offline!Stops, Offline!Still
<1> QED  BY <1>1, <1>2, <1>3, <1>4, <1>5, OffFrame DEF OfflineInv

\* A piece of them is put.
LEMMA OffMovePut ==
    ASSUME OfflineAssumptions, OfflineInv,
           Offline!MovePut
    PROVE  OfflineInv'
<1> USE DEF Offline!MovePut, Offline!device, Offline!store, Offline!mirror, Offline!flow
<1>1. UNCHANGED <<native, rec, oldrec, file, app, event, up, shown, total, storedAs, held, dl,
                  rm, chore, todo, taps, launches, wanted, crossed>>  OBVIOUS
<1>2. OffStore'  BY <1>1 DEF OfflineInv, OffStore
<1>3. OffFlow'  BY <1>1 DEF OfflineInv, OffFlow, Removal, Move
<1>4. Asleep'  BY <1>1 DEF OfflineInv, Asleep, OffFlow, Removal, Move
<1>5. MovesNative'  BY <1>1 DEF OfflineInv, MovesNative, OffFlow, Removal, Move
<1>6. Moving'  BY <1>1 DEF OfflineInv, Moving, OffStore, OffFlow, Removal, Move
<1> HIDE DEF Offline!MovePut
<1> QED  BY <1>1, <1>2, <1>3, <1>4, <1>5, <1>6, OffFrame DEF OfflineInv

\* The file is whole.
LEMMA OffMoveCommit ==
    ASSUME OfflineAssumptions, OfflineInv,
           Offline!MoveCommit
    PROVE  OfflineInv'
<1> USE DEF Offline!MoveCommit, Offline!AppRemoves, Offline!Stops, Offline!Still,
      Offline!device, Offline!store, Offline!mirror, Offline!flow
<1>1. UNCHANGED <<native, rec, oldrec, event, up, shown, total, storedAs, dl, rm, chore, taps,
                  launches, wanted, crossed>>  OBVIOUS
<1>2. OffStore'  BY <1>1 DEF OfflineInv, OffStore, OffFlow, Removal, Move
<1>3. OffMirror'  BY <1>1 DEF OfflineInv, OffMirror, OffStore, OffFlow, Removal, Move
<1>4. OffFlow'  BY <1>1 DEF OfflineInv, OffFlow, Removal, Move
<1>5. OffWeb'
    BY <1>1 DEF OfflineInv, OffWeb, MovesNative, OffStore, OffFlow, OffPage, Removal, Move
<1>6. Asleep'  BY <1>1 DEF OfflineInv, Asleep, OffFlow, OffMirror, Removal, Move
<1>7. MovesNative'  BY <1>1 DEF OfflineInv, MovesNative, OffFlow, Removal, Move
<1>8. Listed'  BY <1>1 DEF OfflineInv, Listed, OffMirror, OnDevice
<1>9. Backed'
    BY <1>1 DEF OfflineInv, Backed, Moving, OffStore, OffMirror, OffFlow, OffPage, Removal,
       Move
<1>10. Moving'  BY <1>1 DEF OfflineInv, Moving, OffStore, OffFlow, OffMirror, Removal, Move
<1> HIDE DEF Offline!MoveCommit, Offline!AppRemoves, Offline!Stops, Offline!Still
<1> QED  BY <1>1, <1>2, <1>3, <1>4, <1>5, <1>6, <1>7, <1>8, <1>9, <1>10, OffFrame DEF OfflineInv

\* The record points to the file.
LEMMA OffMoveRecord ==
    ASSUME OfflineAssumptions, OfflineInv,
           Offline!MoveRecord
    PROVE  OfflineInv'
<1> USE DEF Offline!MoveRecord, Offline!Still, Offline!device, Offline!store, Offline!mirror,
      Offline!flow
<1>1. UNCHANGED <<native, oldrec, file, part, app, event, up, shown, total, storedAs, held, dl,
                  rm, chore, todo, taps, launches, wanted, crossed>>  OBVIOUS
<1>2. OffDevice'
    BY <1>1 DEF OfflineInv, OffDevice, MovesNative, OffFlow, OffPage, Removal, Move
<1>3. OffFlow'  BY <1>1 DEF OfflineInv, OffFlow, Removal, Move
<1>4. OffWeb'
    BY <1>1 DEF OfflineInv, OffWeb, MovesNative, OffDevice, OffFlow, OffPage, Removal, Move
<1>5. Asleep'  BY <1>1 DEF OfflineInv, Asleep, OffFlow, Removal, Move
<1>6. MovesNative'  BY <1>1 DEF OfflineInv, MovesNative, OffFlow, Removal, Move
<1>7. Listed'
    BY <1>1 DEF OfflineInv, Listed, MovesNative, OffDevice, Moving, OffFlow, OffPage,
       OnDevice, Removal, Move
<1>8. Backed'
    BY <1>1 DEF OfflineInv, Backed, MovesNative, OffDevice, Moving, OffFlow, OffPage,
       Removal, Move
<1>9. Moving'  BY <1>1 DEF OfflineInv, Moving, OffDevice, OffFlow, Removal, Move
<1> HIDE DEF Offline!MoveRecord, Offline!Still
<1> QED  BY <1>1, <1>2, <1>3, <1>4, <1>5, <1>6, <1>7, <1>8, <1>9, OffFrame DEF OfflineInv

\* The page goes, and with it what it had under way.
LEMMA OffLeaves ==
    ASSUME OfflineAssumptions, OfflineInv,
           Offline!Leaves
    PROVE  OfflineInv'
<1> USE DEF Offline!Leaves, Offline!Idle, Offline!Still, Offline!device, Offline!store,
      Offline!mirror, Offline!flow
<1>1. UNCHANGED <<native, rec, oldrec, file, taps, launches, wanted, crossed>>  OBVIOUS
<1>2. OffStore'  BY <1>1 DEF OfflineInv, OffStore
<1>3. OffMirror'  BY <1>1 DEF OfflineInv, OffMirror
<1>4. OffFlow'  BY <1>1 DEF OfflineInv, OffFlow, Removal, Move
<1>5. OffPage'  BY <1>1 DEF OfflineInv, OffPage, OfflineAssumptions
<1>6. OffWeb'  BY <1>1 DEF OfflineInv, OffWeb, OffStore, OffPage
<1>7. Asleep'  BY <1>1 DEF OfflineInv, Asleep, OffStore, OffFlow, OffMirror, Removal, Move
<1>8. MovesNative'  BY <1>1 DEF OfflineInv, MovesNative, OffFlow, Removal, Move
<1>9. KnowsOld'  BY <1>1 DEF OfflineInv, KnowsOld, OffMirror
<1>10. NotTwice'  BY <1>1 DEF OfflineInv, NotTwice, OffFlow, OffMirror, Removal, Move
<1>11. RemovesOne'  BY <1>1 DEF OfflineInv, RemovesOne, OffFlow, Removal, Move
<1>12. Listed'  BY <1>1 DEF OfflineInv, Listed, OffMirror, OnDevice
<1>13. Backed'  BY <1>1 DEF OfflineInv, Backed, OffStore, OffFlow, OffMirror, Removal, Move
<1>14. Moving'  BY <1>1 DEF OfflineInv, Moving, OffStore, OffFlow, OffMirror, Removal, Move
<1>15. Removing'  BY <1>1 DEF OfflineInv, Removing, OffFlow, OffMirror, Removal, Move
<1>16. Counted'  BY <1>1, FS_EmptySet DEF OfflineInv, Counted
<1> HIDE DEF Offline!Leaves, Offline!Idle, Offline!Still
<1> QED
  BY <1>1, <1>2, <1>3, <1>4, <1>5, <1>6, <1>7, <1>8, <1>9, <1>10, <1>11, <1>12, <1>13, <1>14,
     <1>15, <1>16, OffFrame DEF OfflineInv

\* A page loads, and lists what the device has.
LEMMA OffLoad ==
    ASSUME OfflineAssumptions, OfflineInv,
           NEW STATE listed, listed = file \/ (native /\ listed = {}),
           Offline!Load(listed)
    PROVE  OfflineInv'
<1> USE DEF Offline!Load, Offline!AppRemoves, Offline!device, Offline!store, Offline!mirror,
      Offline!flow
<1>1. UNCHANGED <<native, oldrec, event, dl, rm, mv, chore, todo, taps>>  OBVIOUS
<1>2. OffDevice'  BY <1>1 DEF OfflineInv, OffDevice
<1>3. OffStore'  BY <1>1 DEF OfflineInv, OffStore
<1>4. OffMirror'
    BY <1>1, OfflineCount, FS_CardinalityType, FS_Subset DEF OfflineInv, OffMirror, Asleep,
       OffDevice, OffStore, OffPage, OffWeb, OfflineAssumptions
<1>5. OffPage'  BY <1>1 DEF OfflineInv, OffPage, OfflineAssumptions
<1>6. OffWeb'  BY <1>1 DEF OfflineInv, OffWeb, OffDevice, OffStore
<1>7. Asleep'  BY <1>1 DEF OfflineInv, Asleep, OffMirror
<1>8. KnowsOld'
    BY <1>1 DEF OfflineInv, KnowsOld, Asleep, OffDevice, OffStore, OffMirror, OffPage,
       OffWeb, Backed
<1>9. NotTwice'
    BY <1>1 DEF OfflineInv, NotTwice, Asleep, OffDevice, OffStore, OffMirror, OffPage,
       OffWeb, Backed
<1>10. Listed'
    BY <1>1 DEF OfflineInv, Listed, Asleep, OffDevice, OffStore, OffMirror, OffPage, OffWeb,
       Backed, OnDevice
<1>11. Backed'
    BY <1>1 DEF OfflineInv, Backed, Asleep, OffDevice, OffStore, OffMirror, OffPage, OffWeb
<1>12. Moving'
    BY <1>1 DEF OfflineInv, Moving, Asleep, OffDevice, OffStore, OffMirror, OffPage, OffWeb,
       Backed
<1>13. Removing'
    BY <1>1 DEF OfflineInv, Removing, Asleep, OffDevice, OffStore, OffMirror, OffPage,
       OffWeb, Backed
<1>14. Counted'  BY <1>1, OfflineCount DEF OfflineInv, Counted
<1> HIDE DEF Offline!Load, Offline!AppRemoves
<1> QED
  BY <1>1, <1>2, <1>3, <1>4, <1>5, <1>6, <1>7, <1>8, <1>9, <1>10, <1>11, <1>12, <1>13, <1>14,
     OffFrame DEF OfflineInv

\* A device before its first page.
LEMMA OffInit == OfflineAssumptions /\ Offline!Init => OfflineInv
<1> SUFFICES ASSUME OfflineAssumptions, Offline!Init PROVE OfflineInv  OBVIOUS
<1> USE DEF Offline!Init, OfflineAssumptions
<1>1. OffDevice /\ OffStore  BY DEF OffDevice, OffStore
<1>2. OffMirror  BY DEF OffMirror
<1>2a. OffPage
  <2>1. taps \in 0..MaxTaps /\ launches \in 0..MaxLaunch  OBVIOUS
  <2>2. wanted \subseteq Song /\ crossed \subseteq Song  OBVIOUS
  <2> QED  BY <2>1, <2>2 DEF OffPage
<1>3. OffFlow  BY DEF OffFlow, Removal, Move, Offline!Idle, Offline!Still
<1>4. OffWeb  BY DEF OffWeb
<1>5. Asleep  BY DEF Asleep, Offline!Idle, Offline!Still
<1>6. MovesNative /\ KnowsOld /\ NotTwice
  BY DEF MovesNative, KnowsOld, NotTwice, Offline!Still
<1>7. RemovesOne /\ Removing  BY DEF RemovesOne, Removing, Offline!Idle
<1>8. Listed /\ Backed /\ Moving  BY DEF Listed, Backed, Moving, OnDevice, Offline!Still
<1>9. Counted  BY FS_EmptySet DEF Counted
<1> QED  BY <1>1, <1>2, <1>2a, <1>3, <1>4, <1>5, <1>6, <1>7, <1>8, <1>9 DEF OfflineInv

\* Every step of the downloads keeps the invariant.
LEMMA OffNext == ASSUME OfflineAssumptions, OfflineInv, Offline!Next PROVE OfflineInv'
<1>1. ASSUME NEW id \in Song,
             \/ Offline!AppDone(id) \/ Offline!AppFails(id) \/ Offline!Hear(id)
             \/ Offline!Download(id) \/ Offline!Fetch(id) \/ Offline!Fetched(id)
             \/ Offline!Recorded(id) \/ Offline!RecordFails(id)
             \/ \E r \in Remover, name \in {"key", "old"} : Offline!Remove(r, id, name)
             \/ Offline!Migrate(id) \/ Offline!MoveNext(id)
      PROVE  OfflineInv'
  BY <1>1, OffAppDone, OffAppFails, OffHear, OffDownload, OffFetch, OffFetched, OffRecorded,
     OffRecordFails, OffRemove, OffMigrate, OffMoveNext
<1>2. ASSUME NEW r \in Remover, Offline!RemoveReads(r) \/ Offline!Removed(r) PROVE OfflineInv'
  BY <1>2, OffRemoveReads, OffRemoved
<1>3. CASE \/ Offline!ClearAll \/ Offline!StartMigration \/ Offline!StartMove
           \/ Offline!MoveStops \/ Offline!MovePut \/ Offline!MoveCommit \/ Offline!MoveRecord
           \/ Offline!Leaves
  BY <1>3, OffClearAll, OffStartMigration, OffStartMove, OffMoveStops, OffMovePut,
     OffMoveCommit, OffMoveRecord, OffLeaves
<1>4. CASE Offline!Launch \/ Offline!LaunchUnlisted
  <2>1. ASSUME Offline!Load(file) PROVE OfflineInv'  BY <2>1, OffLoad
  <2>2. ASSUME native, Offline!Load({}) PROVE OfflineInv'  BY <2>2, OffLoad
  <2> QED  BY <1>4, <2>1, <2>2 DEF Offline!Launch, Offline!LaunchUnlisted
<1> QED  BY <1>1, <1>2, <1>3, <1>4 DEF Offline!Next

\* So does a step of another part.
LEMMA OffStutter == OfflineInv /\ UNCHANGED ofOffline => OfflineInv'
  BY OffFrame DEF OfflineInv, ofOffline

\* A step of the whole is one of the downloads, or leaves them alone.
LEMMA OffStep == [KeptNext]_allVars => Offline!Next \/ UNCHANGED ofOffline
  BY DEF KeptNext, allVars, web

\* The invariant holds throughout.
LEMMA OffHolds == OfflineAssumptions => (KeptSpec => []OfflineInv)
<1> SUFFICES ASSUME OfflineAssumptions PROVE KeptSpec => []OfflineInv  OBVIOUS
<1>1. KeptInit => OfflineInv  BY OffInit DEF KeptInit
<1>2. OfflineInv /\ [KeptNext]_allVars => OfflineInv'  BY OffNext, OffStutter, OffStep
<1> QED  BY <1>1, <1>2, PTL DEF KeptSpec

\* It gives the types.
LEMMA OffTyped == OfflineInv => Offline!TypeOK
<1> SUFFICES ASSUME OfflineInv PROVE Offline!TypeOK  OBVIOUS
<1> USE DEF OfflineInv
<1>1. rm \in [Remover -> [at : {"idle", "read", "delete"}, id : Song, name : {"key", "old"},
                          disk : {"key", "old"}, had : BOOLEAN]]
  BY DEF OffFlow, Removal
<1>2. mv \in [at : {"idle", "put", "commit", "record"}, id : Song]  BY DEF OffFlow, Move
<1> QED  BY <1>1, <1>2 DEF Offline!TypeOK, OffDevice, OffStore, OffMirror, OffFlow, OffPage, OffWeb

\* It gives what the user is promised.
LEMMA OffAsLeft == OfflineInv => AsTheUserLeftIt
<1> SUFFICES ASSUME OfflineInv, Offline!Resting
             PROVE  /\ \A id \in Song \ crossed :
                         /\ id \in wanted <=> id \in shown
                         /\ id \in shown <=> rec[id] # "none" \/ id \in oldrec
                         /\ id \in shown => Offline!Plays(id)
                    /\ crossed = {} => total = Offline!Cardinality(shown)
  BY DEF AsTheUserLeftIt, Offline!AsTheUserLeftIt
<1> USE DEF OfflineInv
<1>1. up  BY DEF Offline!Resting
<1>2. ASSUME NEW id \in Song \ crossed
      PROVE  /\ id \in wanted <=> id \in shown
             /\ id \in shown <=> rec[id] # "none" \/ id \in oldrec
  BY <1>1, <1>2 DEF Listed, OnDevice
<1>3. ASSUME NEW id \in Song \ crossed, id \in shown PROVE Offline!Plays(id)
  BY <1>1, <1>2, <1>3 DEF Offline!Plays, Listed, Backed, OnDevice, OffDevice, KnowsOld
<1>4. crossed = {} => total = Offline!Cardinality(shown)  BY OfflineCount DEF Counted
<1> QED  BY <1>2, <1>3, <1>4

\* offline.js, nativeoffline.js, OfflineStore.kt: when nothing is under way, of the
\* tracks that were not removed across another operation on them, those listed are
\* those downloaded and not removed, each is on the device and plays, and with none
\* crossed the total counts them.
THEOREM DownloadsAsLeft ==
    ASSUME OfflineAssumptions PROVE KeptSpec => []AsTheUserLeftIt
  BY OffHolds, OffAsLeft, PTL

-----------------------------------------------------------------------------
(* The file cache.  The accounts need the lock: an entry that goes has lost *)
(* its file, and only the holder of the lock puts and removes.              *)

IsSums(f, s) ==
    /\ f \in [0..Len(s) -> Int] /\ f[0] = 0
    /\ \A n \in 1..Len(s) : f[n] = f[n - 1] + s[n].size

CacheAssumptions ==
    /\ IsFiniteSet(Key) /\ MaxSize \in Nat /\ MaxPiece \in Nat /\ Cache!Nobody \notin Thread

\* A member of a list of entries is an entry.
LEMMA EntrySizes ==
    ASSUME CacheAssumptions, NEW s \in Seq(Cache!Entry), NEW n \in 1..Len(s)
    PROVE  s[n] \in Cache!Entry /\ s[n].size \in Int
<1>1. s[n] \in Cache!Entry  OBVIOUS
<1>2. \A e \in Cache!Entry : e.size \in Int  BY DEF Cache!Entry, Cache!Piece, CacheAssumptions
<1> QED  BY <1>1, <1>2

\* The sizes of a list of entries have partial sums.
LEMMA SumsExist ==
    ASSUME CacheAssumptions, NEW s \in Seq(Cache!Entry) PROVE \E f : IsSums(f, s)
<1> DEFINE upTo(m) == \E f \in [0..m -> Int] :
                         f[0] = 0 /\ \A n \in 1..m : f[n] = f[n - 1] + s[n].size
           S == {m \in Nat : m <= Len(s) => upTo(m)}
<1>1. Len(s) \in Nat /\ \A n \in 1..Len(s) : s[n].size \in Int
  BY EntrySizes
<1>2. 0 \in S
  <2>1. [n \in 0..0 |-> 0] \in [0..0 -> Int]  OBVIOUS
  <2>2. \A n \in 1..0 : FALSE  OBVIOUS
  <2>3. upTo(0)
    <3> WITNESS [n \in 0..0 |-> 0] \in [0..0 -> Int]
    <3> QED  BY <2>2
  <2> HIDE DEF upTo
  <2> QED  BY <2>3
<1>3. ASSUME NEW m \in S PROVE m + 1 \in S
  <2> SUFFICES ASSUME m + 1 <= Len(s) PROVE upTo(m + 1)
    <3> HIDE DEF upTo
    <3> QED  OBVIOUS
  <2>1. PICK f \in [0..m -> Int] : f[0] = 0 /\ \A n \in 1..m : f[n] = f[n - 1] + s[n].size
    BY <1>1
  <2> DEFINE g == [n \in 0..(m + 1) |-> IF n = m + 1 THEN f[m] + s[m + 1].size ELSE f[n]]
  <2>2. g \in [0..(m + 1) -> Int]
    <3> SUFFICES ASSUME NEW n \in 0..(m + 1)
                 PROVE  (IF n = m + 1 THEN f[m] + s[m + 1].size ELSE f[n]) \in Int
      OBVIOUS
    <3> QED  BY <1>1, <2>1
  <2>3. g[0] = 0  BY <2>1
  <2>4. \A n \in 1..(m + 1) : g[n] = g[n - 1] + s[n].size
    <3> SUFFICES ASSUME NEW n \in 1..(m + 1) PROVE g[n] = g[n - 1] + s[n].size  OBVIOUS
    <3>1. /\ m \in Nat /\ n \in 0..(m + 1) /\ n - 1 \in 0..(m + 1) /\ n - 1 # m + 1
          /\ n # m + 1 => n \in 1..m
      OBVIOUS
    <3>2. g[n - 1] = f[n - 1]  BY <3>1
    <3>3. CASE n = m + 1  BY <3>1, <3>2, <3>3
    <3>4. CASE n # m + 1  BY <2>1, <3>1, <3>2, <3>4
    <3> QED  BY <3>3, <3>4
  <2> QED  BY <2>2, <2>3, <2>4
<1>4. S = Nat  
  <2> HIDE DEF S
  <2>1. S \in SUBSET Nat  BY DEF S
  <2> QED  BY <1>2, <1>3, <2>1, SetInduction
<1> QED  BY <1>1, <1>4 DEF IsSums

\* The partial sums are determined.
LEMMA SumsSame ==
    ASSUME NEW s \in Seq(Cache!Entry), NEW f, NEW g, IsSums(f, s), IsSums(g, s)
    PROVE  f = g
<1> DEFINE S == {m \in Nat : m <= Len(s) => f[m] = g[m]}
<1>1. 0 \in S  BY DEF IsSums
<1>2. ASSUME NEW m \in S PROVE m + 1 \in S  BY DEF IsSums
<1>3. S = Nat
  <2> HIDE DEF S
  <2>1. S \in SUBSET Nat  BY DEF S
  <2> QED  BY <1>1, <1>2, <2>1, SetInduction
<1>4. \A m \in 0..Len(s) : f[m] = g[m]  BY <1>3
<1> QED  BY <1>4 DEF IsSums

\* The total is the last of the sums.
LEMMA TotalIs ==
    ASSUME CacheAssumptions, NEW s \in Seq(Cache!Entry), NEW f, IsSums(f, s)
    PROVE  Cache!Total(s) = f[Len(s)]
<1> DEFINE R(g) == g = [n \in 0..Len(s) |-> IF n = 0 THEN 0 ELSE g[n - 1] + s[n].size]
           sums == CHOOSE g : R(g)
<1>0. Len(s) \in Nat  OBVIOUS
<1>1. R(f)
  <2>1. DOMAIN f = 0..Len(s)  BY DEF IsSums
  <2>2. \A n \in 0..Len(s) : f[n] = IF n = 0 THEN 0 ELSE f[n - 1] + s[n].size
    BY <1>0 DEF IsSums
  <2>3. f = [n \in 0..Len(s) |-> f[n]]  BY DEF IsSums
  <2> QED  BY <2>2, <2>3
<1>2. R(sums)
  <2> HIDE DEF R
  <2> QED  BY <1>1
<1>3. IsSums(sums, s)
  <2> HIDE DEF sums
  <2> DEFINE T == {m \in Nat : m <= Len(s) => sums[m] \in Int}
  <2>1. \A n \in 0..Len(s) : sums[n] = IF n = 0 THEN 0 ELSE sums[n - 1] + s[n].size
    BY <1>2
  <2>2. \A n \in 1..Len(s) : s[n].size \in Int  BY EntrySizes
  <2>3. 0 \in T  BY <1>0, <2>1
  <2>4. ASSUME NEW m \in T PROVE m + 1 \in T
    <3> SUFFICES ASSUME m + 1 <= Len(s) PROVE sums[m + 1] \in Int  OBVIOUS
    <3>1. sums[m + 1] = sums[m] + s[m + 1].size  BY <1>0, <2>1
    <3> QED  BY <1>0, <2>2, <3>1
  <2>5. T = Nat
    <3> HIDE DEF T
    <3>1. T \in SUBSET Nat  BY DEF T
    <3> QED  BY <2>3, <2>4, <3>1, SetInduction
  <2>6. \A m \in 0..Len(s) : sums[m] \in Int  BY <2>5
  <2>7. sums \in [0..Len(s) -> Int]  BY <1>2, <2>6
  <2> QED  BY <1>0, <2>1, <2>7 DEF IsSums
<1>4. sums = f  
  <2> HIDE DEF sums
  <2> QED  BY <1>3, SumsSame
<1>5. Cache!Total(s) = sums[Len(s)]  BY DEF Cache!Total
<1> QED  BY <1>4, <1>5

\* Nothing is as big as nothing.
LEMMA TotalEmpty == CacheAssumptions => Cache!Total(<<>>) = 0
<1> SUFFICES ASSUME CacheAssumptions PROVE Cache!Total(<<>>) = 0  OBVIOUS
<1> DEFINE f == [n \in 0..0 |-> 0]
<1>1. IsSums(f, <<>>)  BY DEF IsSums
<1>2. <<>> \in Seq(Cache!Entry)  OBVIOUS
<1>3. Cache!Total(<<>>) = f[Len(<<>>)]  
  <2> HIDE DEF f
  <2> QED  BY <1>1, <1>2, TotalIs
<1> QED  BY <1>3

\* One more entry.
LEMMA TotalAppend ==
    ASSUME CacheAssumptions, NEW s \in Seq(Cache!Entry), NEW e \in Cache!Entry
    PROVE  Cache!Total(Append(s, e)) = Cache!Total(s) + e.size
<1>1. PICK f : IsSums(f, s)  BY SumsExist
<1> DEFINE t == Append(s, e)
           m == Len(s)
           g == [n \in 0..(m + 1) |-> IF n = m + 1 THEN f[m] + e.size ELSE f[n]]
<1>2. /\ t \in Seq(Cache!Entry) /\ Len(t) = m + 1 /\ m \in Nat
      /\ t[m + 1] = e /\ \A n \in 1..m : t[n] = s[n]
  OBVIOUS
<1>3. e.size \in Int  BY DEF Cache!Entry, Cache!Piece, CacheAssumptions
<1> HIDE DEF t, m
<1>4. IsSums(g, t)
  <2>1. g \in [0..(m + 1) -> Int]  BY <1>1, <1>2, <1>3 DEF IsSums, m
  <2>2. g[0] = 0  BY <1>1, <1>2 DEF IsSums
  <2>3. ASSUME NEW n \in 1..(m + 1) PROVE g[n] = g[n - 1] + t[n].size
    <3>1. /\ n \in 0..(m + 1) /\ n - 1 \in 0..(m + 1) /\ n - 1 # m + 1
          /\ n # m + 1 => n \in 1..m
      BY <1>2
    <3>2. g[n - 1] = f[n - 1]  BY <3>1
    <3>3. CASE n = m + 1  BY <1>2, <3>1, <3>2, <3>3
    <3>4. CASE n # m + 1  BY <1>1, <1>2, <3>1, <3>2, <3>4 DEF IsSums, m
    <3> QED  BY <3>3, <3>4
  <2> QED  BY <1>2, <2>1, <2>2, <2>3 DEF IsSums
<1>5. Cache!Total(t) = g[Len(t)] /\ Cache!Total(s) = f[m]
  <2> HIDE DEF g
  <2> QED  BY <1>1, <1>2, <1>4, TotalIs DEF m
<1>6. g[m + 1] = f[m] + e.size  BY <1>2
<1> QED  BY <1>2, <1>5, <1>6 DEF t

\* Another entry in the place of one.
LEMMA TotalExcept ==
    ASSUME CacheAssumptions, NEW s \in Seq(Cache!Entry), NEW i \in 1..Len(s),
           NEW e \in Cache!Entry
    PROVE  Cache!Total([s EXCEPT ![i] = e]) = Cache!Total(s) + e.size - s[i].size
<1>1. PICK f : IsSums(f, s)  BY SumsExist
<1> DEFINE t == [s EXCEPT ![i] = e]
           m == Len(s)
           d == e.size - s[i].size
           g == [n \in 0..m |-> IF n < i THEN f[n] ELSE f[n] + d]
<1>2. /\ t \in Seq(Cache!Entry) /\ Len(t) = m /\ m \in Nat
      /\ t[i] = e /\ \A n \in 1..m : n # i => t[n] = s[n]
  OBVIOUS
<1>3. e.size \in Int /\ s[i].size \in Int /\ d \in Int
  <2>1. e.size \in Int  BY DEF Cache!Entry, Cache!Piece, CacheAssumptions
  <2>2. s[i].size \in Int  BY EntrySizes
  <2> QED  BY <2>1, <2>2
<1> HIDE DEF t, m
<1>4. IsSums(g, t)
  <2>1. g \in [0..m -> Int]  BY <1>1, <1>2, <1>3 DEF IsSums, m
  <2>2. g[0] = 0  BY <1>1, <1>2 DEF IsSums, m
  <2>3. ASSUME NEW n \in 1..m PROVE g[n] = g[n - 1] + t[n].size
    <3>1. /\ n \in 0..m /\ n - 1 \in 0..m /\ n \in Int /\ i \in Int
          /\ f[n] \in Int /\ f[n - 1] \in Int /\ f[n] = f[n - 1] + s[n].size
          /\ s[n].size \in Int
      BY <1>1, <1>2, EntrySizes DEF IsSums, m
    <3>2. CASE n = i  BY <1>2, <1>3, <3>1, <3>2
    <3>3. CASE n # i
      <4>1. t[n] = s[n]  BY <1>2, <3>3
      <4> HIDE DEF d
      <4>2. CASE n < i
        <5>1. g[n] = f[n] /\ g[n - 1] = f[n - 1]  BY <3>1, <4>2
        <5> HIDE DEF g
        <5> QED  BY <3>1, <4>1, <5>1
      <4>3. CASE n > i
        <5>1. g[n] = f[n] + d /\ g[n - 1] = f[n - 1] + d  BY <3>1, <4>3
        <5> DEFINE before == f[n - 1]   upTo == f[n]   piece == s[n].size
        <5>2. before \in Int /\ piece \in Int /\ d \in Int /\ upTo = before + piece
          BY <1>3, <3>1
        <5> HIDE DEF before, upTo, piece, g
        <5>3. upTo + d = (before + d) + piece  BY <5>2
        <5> QED  BY <4>1, <5>1, <5>3 DEF before, upTo, piece
      <4> QED  BY <3>1, <3>3, <4>2, <4>3
    <3> QED  BY <3>2, <3>3
  <2> QED  BY <1>2, <2>1, <2>2, <2>3 DEF IsSums
<1>5. Cache!Total(t) = g[Len(t)] /\ Cache!Total(s) = f[m]
  <2> HIDE DEF g
  <2> QED  BY <1>1, <1>2, <1>4, TotalIs DEF m
<1>6. g[m] = f[m] + d  BY <1>2 DEF m
<1>7. f[m] \in Int  BY <1>1, <1>2 DEF IsSums, m
<1> QED  BY <1>2, <1>3, <1>5, <1>6, <1>7 DEF t

\* The sequence without its i-th entry.
IsCut(S, s, i, t) ==
    /\ t \in Seq(S) /\ Len(t) = Len(s) - 1
    /\ Len(s) \in Nat /\ Len(s) > 0 /\ i \in Nat
    /\ \A n \in 1..(Len(s) - 1) : t[n] = IF n < i THEN s[n] ELSE s[n + 1]

LEMMA WithoutOne ==
    ASSUME NEW S, NEW s \in Seq(S), NEW i \in 1..Len(s), NEW t, t = Cache!RemoveAt(s, i)
    PROVE  IsCut(S, s, i, t)
<1> DEFINE r == Queue!RemoveAt(s, i)
<1>1. /\ r \in Seq(S) /\ Len(r) = Len(s) - 1
      /\ \A n \in 1..(Len(s) - 1) : r[n] = IF n < i THEN s[n] ELSE s[n + 1]
  BY CutOne
<1>2. t = r  BY SameCut
<1>3. Len(s) \in Nat /\ Len(s) > 0 /\ i \in Nat  OBVIOUS
<1> HIDE DEF r
<1> QED  BY <1>1, <1>2, <1>3 DEF IsCut

\* One entry less.
LEMMA TotalRemove ==
    ASSUME CacheAssumptions, NEW s \in Seq(Cache!Entry), NEW i \in 1..Len(s)
    PROVE  Cache!Total(Cache!RemoveAt(s, i)) = Cache!Total(s) - s[i].size
<1>1. PICK f : IsSums(f, s)  BY SumsExist
<1>0. PICK t : t = Cache!RemoveAt(s, i)  OBVIOUS
<1>a. IsCut(Cache!Entry, s, i, t)  BY <1>0, WithoutOne
<1> DEFINE m == Len(s)
           d == s[i].size
           g == [n \in 0..(m - 1) |-> IF n < i THEN f[n] ELSE f[n + 1] - d]
<1>2. /\ t \in Seq(Cache!Entry) /\ Len(t) = m - 1 /\ m \in Nat /\ m > 0 /\ i \in Nat
      /\ \A n \in 1..(m - 1) : t[n] = IF n < i THEN s[n] ELSE s[n + 1]
  BY <1>a DEF IsCut
<1>3. d \in Int  BY EntrySizes
<1> HIDE DEF m
<1>4. IsSums(g, t)
  <2>1. g \in [0..(m - 1) -> Int]
    <3> SUFFICES ASSUME NEW n \in 0..(m - 1)
                 PROVE  (IF n < i THEN f[n] ELSE f[n + 1] - d) \in Int
      OBVIOUS
    <3> HIDE DEF d
    <3>1. n \in 0..m /\ n + 1 \in 0..m  BY <1>2
    <3>2. f[n] \in Int /\ f[n + 1] \in Int  BY <1>1, <3>1 DEF IsSums, m
    <3> QED  BY <1>3, <3>2
  <2>2. g[0] = 0  BY <1>1, <1>2 DEF IsSums, m
  <2>3. ASSUME NEW n \in 1..(m - 1) PROVE g[n] = g[n - 1] + t[n].size
    <3>1. /\ n \in 0..(m - 1) /\ n - 1 \in 0..(m - 1) /\ n \in Int
          /\ n \in 1..m /\ n + 1 \in 1..m
      BY <1>2
    <3>2. /\ f[n] \in Int /\ f[n - 1] \in Int /\ f[n] = f[n - 1] + s[n].size
          /\ f[n + 1] \in Int /\ f[n + 1] = f[n] + s[n + 1].size
          /\ s[n].size \in Int /\ s[n + 1].size \in Int
      <4>1. s[n].size \in Int /\ s[n + 1].size \in Int  BY <3>1, EntrySizes DEF m
      <4>2. n \in 0..m /\ n - 1 \in 0..m /\ n + 1 \in 0..m /\ (n + 1) - 1 = n
        BY <1>2, <3>1
      <4> QED  BY <1>1, <3>1, <4>1, <4>2 DEF IsSums, m
    <3>3. t[n] = IF n < i THEN s[n] ELSE s[n + 1]  BY <1>2
    <3>4. CASE n < i  BY <1>2, <3>1, <3>2, <3>3, <3>4
    <3>5. CASE n = i
      <4>1. g[n] = f[n + 1] - d /\ g[n - 1] = f[n - 1] /\ t[n] = s[n + 1] /\ d = s[n].size
        BY <1>2, <3>1, <3>3, <3>5
      <4> DEFINE before == f[n - 1]   upTo == f[n]   after == f[n + 1]   next == s[n + 1].size
      <4>2. /\ before \in Int /\ next \in Int /\ d \in Int
            /\ upTo = before + d /\ after = upTo + next
        BY <1>3, <3>2, <4>1
      <4> HIDE DEF before, upTo, after, next, d, g
      <4>3. after - d = before + next  BY <4>2
      <4> QED  BY <4>1, <4>3 DEF before, after, next
    <3>6. CASE n > i
      <4>1. g[n] = f[n + 1] - d /\ g[n - 1] = f[n] - d /\ t[n] = s[n + 1]
        BY <1>2, <3>1, <3>3, <3>6
      <4> DEFINE upTo == f[n]   after == f[n + 1]   next == s[n + 1].size
      <4>2. upTo \in Int /\ next \in Int /\ d \in Int /\ after = upTo + next
        BY <1>3, <3>2
      <4> HIDE DEF upTo, after, next, d, g
      <4>3. after - d = (upTo - d) + next  BY <4>2
      <4> QED  BY <4>1, <4>3 DEF upTo, after, next
    <3> QED  BY <1>2, <3>1, <3>4, <3>5, <3>6
  <2> QED  BY <1>2, <2>1, <2>2, <2>3 DEF IsSums
<1>5. Cache!Total(t) = g[m - 1] /\ Cache!Total(s) = f[m]
  <2> HIDE DEF g
  <2> QED  BY <1>1, <1>2, <1>4, TotalIs DEF m
<1>6. g[m - 1] = f[m] - d
  <2>1. f[m] = f[m - 1] + s[m].size /\ f[m - 1] \in Int /\ s[m].size \in Int
    <3>1. m \in 1..m /\ m - 1 \in 0..m  BY <1>2
    <3>2. s[m].size \in Int  BY <3>1, EntrySizes DEF m
    <3> QED  BY <1>1, <3>1, <3>2 DEF IsSums, m
  <2>2. CASE i = m  BY <1>2, <2>1, <2>2
  <2>3. CASE i < m  BY <1>2, <2>1, <2>3
  <2> QED  BY <1>2, <2>2, <2>3 DEF m
<1> QED  BY <1>0, <1>5, <1>6

HasKey(s, k) == \E i \in 1..Len(s) : s[i].key = k
Distinct(s) == \A i, j \in 1..Len(s) : s[i].key = s[j].key => i = j
Entries(s) == s \in Seq(Cache!Entry) /\ Distinct(s)

CacheFiles == Entries(files)

CacheWork ==
    /\ size \in Int /\ disk \in [Key -> 0..MaxPiece]
    /\ holder \in Thread \cup {Cache!Nobody}
    /\ thread \in [Thread -> Cache!Doing]
    /\ raced \in BOOLEAN

\* Only the holder of the lock puts a file, and removes others for it.
CacheLocked ==
    \A t \in Thread :
      /\ thread[t].at \in {"put", "record", "adding"} => holder = t
      /\ thread[t].at \in {"forget", "taking", "taken"} => thread[t].then = Cache!Idle \/ holder = t

\* The entry that the lock's holder is taking out has lost its file.
CacheGone ==
    \A t \in Thread :
      thread[t].at \in {"forget", "taking"} /\ holder = t => disk[thread[t].key] = 0

\* One thread at a time is changing the size: it has loaded what is there, or
\* will store what the entries that are left add up to.
CacheAlone ==
    raced \/ /\ \A t, u \in Thread : Cache!Updating(t) /\ Cache!Updating(u) => t = u
             /\ \A t \in Thread : thread[t].at \in {"taking", "adding"} => thread[t].size = size

CacheSummed ==
    raced \/ /\ (\A t \in Thread : thread[t].at # "taken") => size = Cache!Total(files)
             /\ \A t \in Thread : thread[t].at = "taken" => thread[t].size = Cache!Total(files)

CacheFound ==
    raced \/ \A k \in Key : disk[k] > 0 => HasKey(files, k) \/ \E t \in Thread : Cache!Recording(t, k)

CacheInv ==
    /\ CacheFiles /\ CacheWork /\ CacheLocked /\ CacheGone /\ CacheAlone /\ CacheSummed /\ CacheFound

\* The fields of an entry.
LEMMA EntryParts ==
    ASSUME CacheAssumptions, NEW e \in Cache!Entry
    PROVE  e.key \in Key /\ e.size \in Cache!Piece /\ e.size \in Int /\ e.fresh \in BOOLEAN
  BY DEF Cache!Entry, Cache!Piece, CacheAssumptions

\* A key is known if an entry has it.
LEMMA KnownIs == ASSUME CacheFiles, NEW k PROVE Cache!Known(k) <=> HasKey(files, k)
  BY DEF CacheFiles, Entries, Cache!Known, HasKey

\* The place of a known key is that of its one entry.
LEMMA PlaceIs ==
    ASSUME CacheAssumptions, CacheFiles, NEW k, HasKey(files, k)
    PROVE  /\ Cache!PlaceOf(k) \in 1..Len(files) /\ files[Cache!PlaceOf(k)].key = k
           /\ \A i \in 1..Len(files) : files[i].key = k => i = Cache!PlaceOf(k)
           /\ Cache!EntryOf(k) = files[Cache!PlaceOf(k)] /\ Cache!EntryOf(k) \in Cache!Entry
           /\ Cache!EntryOf(k).key = k
           /\ Cache!SizeOf(k) = files[Cache!PlaceOf(k)].size
           /\ Cache!SizeOf(k) \in Cache!Piece /\ Cache!SizeOf(k) \in Int
<1>1. DOMAIN files = 1..Len(files)  BY DEF CacheFiles, Entries
<1>2. Cache!PlaceOf(k) \in 1..Len(files) /\ files[Cache!PlaceOf(k)].key = k
  BY <1>1 DEF HasKey, Cache!PlaceOf
<1>3. \A i \in 1..Len(files) : files[i].key = k => i = Cache!PlaceOf(k)
  BY <1>2 DEF CacheFiles, Entries, Distinct
<1>4. files[Cache!PlaceOf(k)] \in Cache!Entry  BY <1>2 DEF CacheFiles, Entries
<1>5. Cache!EntryOf(k) = files[Cache!PlaceOf(k)]  BY DEF Cache!EntryOf
<1>6. Cache!SizeOf(k) = files[Cache!PlaceOf(k)].size  BY <1>5, KnownIs DEF Cache!SizeOf
<1> QED  BY <1>2, <1>3, <1>4, <1>5, <1>6, EntryParts

\* The size of a known key is that of its entry.
LEMMA SizeIs ==
    ASSUME CacheAssumptions, CacheFiles, NEW k
    PROVE  Cache!SizeOf(k) \in Int /\ (~HasKey(files, k) => Cache!SizeOf(k) = 0)
<1>1. CASE HasKey(files, k)  BY <1>1, PlaceIs
<1>2. CASE ~HasKey(files, k)  BY <1>2, KnownIs DEF Cache!SizeOf
<1> QED  BY <1>1, <1>2

\* The entries without those of a key.
LEMMA CacheWithoutIs ==
    ASSUME CacheAssumptions, CacheFiles, NEW k
    PROVE  LET s == Cache!Without(k)
           IN /\ Entries(s) /\ Cache!Total(s) = Cache!Total(files) - Cache!SizeOf(k)
              /\ \A x : HasKey(s, x) <=> x # k /\ HasKey(files, x)
<1> DEFINE s == Cache!Without(k)
           i == Cache!PlaceOf(k)
<1>0. Cache!Total(files) \in Int
  <2>1. PICK f : IsSums(f, files)  BY SumsExist DEF CacheFiles, Entries
  <2>2. Cache!Total(files) = f[Len(files)]  BY <2>1, TotalIs DEF CacheFiles, Entries
  <2> QED  BY <2>1, <2>2 DEF IsSums, CacheFiles, Entries
<1>1. CASE ~HasKey(files, k)
  <2>1. Cache!Without(k) = files /\ Cache!SizeOf(k) = 0
    BY <1>1, KnownIs, SizeIs DEF Cache!Without
  <2>2. \A x : HasKey(files, x) <=> x # k /\ HasKey(files, x)  BY <1>1
  <2>3. Entries(files) /\ Cache!Total(files) = Cache!Total(files) - Cache!SizeOf(k)
    BY <1>0, <2>1 DEF CacheFiles
  <2> QED  BY <2>1, <2>2, <2>3
<1>2. CASE HasKey(files, k)
  <2>1. i \in 1..Len(files) /\ s = Cache!RemoveAt(files, i) /\ files \in Seq(Cache!Entry)
    BY <1>2, KnownIs, PlaceIs DEF Cache!Without, CacheFiles, Entries
  <2>2. /\ s \in Seq(Cache!Entry) /\ Len(s) = Len(files) - 1
        /\ Len(files) \in Nat /\ Len(files) > 0 /\ i \in Nat
        /\ \A n \in 1..(Len(files) - 1) : s[n] = IF n < i THEN files[n] ELSE files[n + 1]
    <3> HIDE DEF s, i
    <3>1. PICK t : t = s  OBVIOUS
    <3>2. files \in Seq(Cache!Entry) /\ i \in 1..Len(files) /\ t = Cache!RemoveAt(files, i)
      BY <2>1, <3>1
    <3>3. IsCut(Cache!Entry, files, i, t)  BY <3>2, WithoutOne
    <3> QED  BY <3>1, <3>3 DEF IsCut
  <2>3. Cache!Total(s) = Cache!Total(files) - files[i].size /\ Cache!SizeOf(k) = files[i].size
    BY <1>2, <2>1, TotalRemove, PlaceIs
  <2>4. files[i].key = k /\ \A j \in 1..Len(files) : files[j].key = k => j = i
    BY <1>2, PlaceIs
  <2>5. Distinct(files)  BY DEF CacheFiles, Entries
  <2> HIDE DEF s, i
  <2>6. ASSUME NEW m \in 1..Len(s), NEW n \in 1..Len(s), s[m].key = s[n].key PROVE m = n
    <3> DEFINE a == IF m < i THEN m ELSE m + 1
               b == IF n < i THEN n ELSE n + 1
    <3>1. a \in 1..Len(files) /\ b \in 1..Len(files) /\ s[m] = files[a] /\ s[n] = files[b]
      BY <2>1, <2>2
    <3>2. a = b
      <4> HIDE DEF a, b
      <4> QED  BY <2>5, <2>6, <3>1 DEF Distinct
    <3> QED  BY <2>2, <3>2
  <2>7. ASSUME NEW x PROVE HasKey(s, x) <=> x # k /\ HasKey(files, x)
    <3>1. ASSUME NEW n \in 1..Len(s), s[n].key = x PROVE x # k /\ HasKey(files, x)
      <4> DEFINE b == IF n < i THEN n ELSE n + 1
      <4>1. b \in 1..Len(files) /\ s[n] = files[b] /\ b # i  BY <2>1, <2>2
      <4> HIDE DEF b
      <4> QED  BY <2>4, <3>1, <4>1 DEF HasKey
    <3>2. ASSUME x # k, NEW n \in 1..Len(files), files[n].key = x PROVE HasKey(s, x)
      <4>1. n # i  BY <2>4, <3>2
      <4> DEFINE b == IF n < i THEN n ELSE n - 1
      <4>2. b \in 1..Len(s) /\ s[b] = files[n]  BY <2>1, <2>2, <4>1
      <4> HIDE DEF b
      <4> QED  BY <3>2, <4>2 DEF HasKey
    <3> QED  BY <3>1, <3>2 DEF HasKey
  <2> QED  BY <2>2, <2>3, <2>6, <2>7 DEF s, Entries, Distinct
<1> QED  BY <1>1, <1>2

\* An entry with a new key comes last.
LEMMA AppendIs ==
    ASSUME CacheAssumptions, NEW s, Entries(s), NEW e \in Cache!Entry, ~HasKey(s, e.key)
    PROVE  LET t == Append(s, e)
           IN /\ Entries(t) /\ Cache!Total(t) = Cache!Total(s) + e.size
              /\ \A x : HasKey(t, x) <=> x = e.key \/ HasKey(s, x)
<1> DEFINE t == Append(s, e)
<1>1. /\ t \in Seq(Cache!Entry) /\ Len(t) = Len(s) + 1 /\ Len(s) \in Nat
      /\ t[Len(s) + 1] = e /\ \A n \in 1..Len(s) : t[n] = s[n]
  BY DEF Entries
<1>2. Cache!Total(t) = Cache!Total(s) + e.size  BY TotalAppend DEF Entries
<1> HIDE DEF t
<1>3. \A n \in 1..Len(t) : n = Len(s) + 1 \/ n \in 1..Len(s)  BY <1>1
<1>4. Len(s) + 1 \in 1..Len(t) /\ \A n \in 1..Len(s) : n \in 1..Len(t)  BY <1>1
<1>5. ASSUME NEW x PROVE HasKey(t, x) <=> x = e.key \/ HasKey(s, x)
  BY <1>1, <1>3, <1>4 DEF HasKey
<1>6. ASSUME NEW m \in 1..Len(t), NEW n \in 1..Len(t), t[m].key = t[n].key PROVE m = n
  <2>1. CASE m \in 1..Len(s) /\ n \in 1..Len(s)  BY <1>1, <1>6, <2>1 DEF Entries, Distinct
  <2>2. CASE m = Len(s) + 1 /\ n \in 1..Len(s)  BY <1>1, <1>6, <2>2 DEF HasKey
  <2>3. CASE n = Len(s) + 1 /\ m \in 1..Len(s)  BY <1>1, <1>6, <2>3 DEF HasKey
  <2> QED  BY <1>3, <2>1, <2>2, <2>3
<1> QED  BY <1>1, <1>2, <1>5, <1>6 DEF t, Entries, Distinct

\* An entry is replaced by one with its key.
LEMMA ExceptIs ==
    ASSUME CacheAssumptions, CacheFiles, NEW i \in 1..Len(files), NEW e \in Cache!Entry,
           files[i].key = e.key
    PROVE  LET t == [files EXCEPT ![i] = e]
           IN /\ Entries(t) /\ Cache!Total(t) = Cache!Total(files) + e.size - files[i].size
              /\ \A x : HasKey(t, x) <=> HasKey(files, x)
<1> DEFINE t == [files EXCEPT ![i] = e]
<1>1. /\ t \in Seq(Cache!Entry) /\ Len(t) = Len(files)
      /\ t[i] = e /\ \A n \in 1..Len(files) : n # i => t[n] = files[n]
  BY DEF CacheFiles, Entries
<1>2. Cache!Total(t) = Cache!Total(files) + e.size - files[i].size
  BY TotalExcept DEF CacheFiles, Entries
<1> HIDE DEF t
<1>3. \A n \in 1..Len(files) : t[n].key = files[n].key  BY <1>1
<1> QED  BY <1>1, <1>2, <1>3 DEF t, CacheFiles, Entries, Distinct, HasKey

\* What the entries are once a file is put.
LEMMA FiledIs ==
    ASSUME CacheAssumptions, CacheFiles, NEW e \in Cache!Entry
    PROVE  LET t == Cache!Filed(e)
           IN /\ Entries(t)
              /\ Cache!Total(t) = Cache!Total(files) + e.size - Cache!SizeOf(e.key)
              /\ \A x : HasKey(t, x) <=> x = e.key \/ HasKey(files, x)
<1>1. CASE HasKey(files, e.key)
  <2> DEFINE i == Cache!PlaceOf(e.key)
  <2>1. /\ Cache!Filed(e) = [files EXCEPT ![i] = e] /\ i \in 1..Len(files)
        /\ files[i].key = e.key /\ Cache!SizeOf(e.key) = files[i].size
    BY <1>1, KnownIs, PlaceIs DEF Cache!Filed
  <2> HIDE DEF i
  <2>2. /\ Entries([files EXCEPT ![i] = e])
        /\ Cache!Total([files EXCEPT ![i] = e]) = Cache!Total(files) + e.size - files[i].size
        /\ \A x : HasKey([files EXCEPT ![i] = e], x) <=> HasKey(files, x)
    BY <2>1, ExceptIs
  <2> QED  BY <1>1, <2>1, <2>2
<1>2. CASE ~HasKey(files, e.key)
  <2>1. Cache!Filed(e) = Append(files, e) /\ Cache!SizeOf(e.key) = 0
    BY <1>2, KnownIs, SizeIs DEF Cache!Filed
  <2>2. /\ Entries(Append(files, e))
        /\ Cache!Total(Append(files, e)) = Cache!Total(files) + e.size
        /\ \A x : HasKey(Append(files, e), x) <=> x = e.key \/ HasKey(files, x)
    BY <1>2, AppendIs DEF CacheFiles
  <2>3. e.size \in Int /\ Cache!Total(files) \in Int
    <3>1. PICK f : IsSums(f, files)  BY SumsExist DEF CacheFiles, Entries
    <3>2. Cache!Total(files) = f[Len(files)]  BY <3>1, TotalIs DEF CacheFiles, Entries
    <3> QED  BY <3>1, <3>2, EntryParts DEF IsSums, CacheFiles, Entries
  <2> QED  BY <2>1, <2>2, <2>3
<1> QED  BY <1>1, <1>2

\* What a thread holds at each of its places.
LEMMA DoingIs ==
    ASSUME CacheWork, NEW t \in Thread
    PROVE  /\ thread[t].at = "put" => thread[t] \in Cache!Puts
           /\ thread[t].at \in {"record", "adding"} =>
                thread[t].key \in Key /\ thread[t].new \in Cache!Piece
           /\ thread[t].at \in {"forget", "taking"} => thread[t].key \in Key
           /\ thread[t].at \in {"forget", "taking", "taken"} =>
                thread[t].then \in {Cache!Idle} \cup Cache!Puts
           /\ thread[t].at \in {"taking", "taken", "adding"} => thread[t].size \in Int
           /\ thread[t].at = "copied" => thread[t].key \in Key /\ thread[t].size \in Cache!Piece
           /\ thread[t].at = "expired" => thread[t].key \in Key
  BY DEF CacheWork, Cache!Doing, Cache!Then, Cache!Idle, Cache!Puts

\* The fields of a put.
LEMMA CachePutIs ==
    ASSUME NEW p \in Cache!Puts
    PROVE  p.at = "put" /\ p.key \in Key /\ p.new \in Cache!Piece /\ p.target \in Int
  BY DEF Cache!Puts

\* The places a thread turns to.
LEMMA Doings ==
    /\ Cache!Idle \in Cache!Doing /\ Cache!Idle.at = "idle"
    /\ Cache!Puts \subseteq Cache!Doing
    /\ \A k \in Key, n \in Cache!Piece, m \in Int :
         /\ Cache!Put(k, n, m) \in Cache!Doing /\ Cache!Put(k, n, m).at = "put"
         /\ Cache!Adding(k, n, m) \in Cache!Doing /\ Cache!Adding(k, n, m).at = "adding"
         /\ Cache!Adding(k, n, m).key = k /\ Cache!Adding(k, n, m).size = m
    /\ \A k \in Key, n \in Cache!Piece :
         /\ Cache!Record(k, n) \in Cache!Doing /\ Cache!Record(k, n).at = "record"
         /\ Cache!Record(k, n).key = k
         /\ Cache!Copied(k, n) \in Cache!Doing /\ Cache!Copied(k, n).at = "copied"
    /\ \A op \in {Cache!Idle} \cup Cache!Puts, k \in Key :
         /\ Cache!Forget(k, op) \in Cache!Doing /\ Cache!Forget(k, op).at = "forget"
         /\ Cache!Forget(k, op).key = k /\ Cache!Forget(k, op).then = op
    /\ \A op \in {Cache!Idle} \cup Cache!Puts, k \in Key, n \in Int :
         /\ Cache!Taking(k, op, n) \in Cache!Doing /\ Cache!Taking(k, op, n).at = "taking"
         /\ Cache!Taking(k, op, n).key = k /\ Cache!Taking(k, op, n).then = op
         /\ Cache!Taking(k, op, n).size = n
    /\ \A op \in {Cache!Idle} \cup Cache!Puts, n \in Int :
         /\ Cache!Taken(op, n) \in Cache!Doing /\ Cache!Taken(op, n).at = "taken"
         /\ Cache!Taken(op, n).then = op /\ Cache!Taken(op, n).size = n
    /\ \A k \in Key : Cache!Expired(k) \in Cache!Doing /\ Cache!Expired(k).at = "expired"
<1> USE DEF Cache!Doing, Cache!Then
<1>1. Cache!Idle \in Cache!Doing /\ Cache!Idle.at = "idle" /\ Cache!Puts \subseteq Cache!Doing
  BY DEF Cache!Idle
<1>2. \A k \in Key, n \in Cache!Piece, m \in Int :
        /\ Cache!Put(k, n, m) \in Cache!Doing /\ Cache!Put(k, n, m).at = "put"
        /\ Cache!Adding(k, n, m) \in Cache!Doing /\ Cache!Adding(k, n, m).at = "adding"
        /\ Cache!Adding(k, n, m).key = k /\ Cache!Adding(k, n, m).size = m
  BY DEF Cache!Put, Cache!Puts, Cache!Adding
<1>3. \A k \in Key, n \in Cache!Piece :
        /\ Cache!Record(k, n) \in Cache!Doing /\ Cache!Record(k, n).at = "record"
        /\ Cache!Record(k, n).key = k
        /\ Cache!Copied(k, n) \in Cache!Doing /\ Cache!Copied(k, n).at = "copied"
  BY DEF Cache!Record, Cache!Copied
<1>4. \A op \in {Cache!Idle} \cup Cache!Puts, k \in Key :
        /\ Cache!Forget(k, op) \in Cache!Doing /\ Cache!Forget(k, op).at = "forget"
        /\ Cache!Forget(k, op).key = k /\ Cache!Forget(k, op).then = op
  BY DEF Cache!Forget
<1>5. \A op \in {Cache!Idle} \cup Cache!Puts, k \in Key, n \in Int :
        /\ Cache!Taking(k, op, n) \in Cache!Doing /\ Cache!Taking(k, op, n).at = "taking"
        /\ Cache!Taking(k, op, n).key = k /\ Cache!Taking(k, op, n).then = op
        /\ Cache!Taking(k, op, n).size = n
  BY DEF Cache!Taking
<1>6. \A op \in {Cache!Idle} \cup Cache!Puts, n \in Int :
        /\ Cache!Taken(op, n) \in Cache!Doing /\ Cache!Taken(op, n).at = "taken"
        /\ Cache!Taken(op, n).then = op /\ Cache!Taken(op, n).size = n
  BY DEF Cache!Taken
<1>7. \A k \in Key : Cache!Expired(k) \in Cache!Doing /\ Cache!Expired(k).at = "expired"
  BY DEF Cache!Expired
<1> QED  BY <1>1, <1>2, <1>3, <1>4, <1>5, <1>6, <1>7

\* A step that changes neither the entries nor the disk.
LEMMA CacheFrame ==
    /\ CacheFiles /\ UNCHANGED files => CacheFiles'
    /\ CacheAlone /\ UNCHANGED <<size, thread, raced>> => CacheAlone'
    /\ CacheSummed /\ UNCHANGED <<files, size, thread, raced>> => CacheSummed'
    /\ CacheFound /\ UNCHANGED <<files, disk, thread, raced>> => CacheFound'
    /\ CacheLocked /\ UNCHANGED <<thread, holder>> => CacheLocked'
    /\ CacheGone /\ UNCHANGED <<thread, disk, holder>> => CacheGone'
    /\ CacheWork /\ UNCHANGED <<size, disk, holder, thread, raced>> => CacheWork'
  BY DEF CacheFiles, Entries, CacheAlone, CacheSummed, CacheFound, CacheLocked, CacheGone, CacheWork,
         Cache!Updating, Cache!Recording, Cache!At

\* The total is a number.
LEMMA TotalInt == CacheAssumptions /\ CacheFiles => Cache!Total(files) \in Int
<1> SUFFICES ASSUME CacheAssumptions, CacheFiles PROVE Cache!Total(files) \in Int  OBVIOUS
<1>1. PICK f : IsSums(f, files)  BY SumsExist DEF CacheFiles, Entries
<1>2. Cache!Total(files) = f[Len(files)]  BY <1>1, TotalIs DEF CacheFiles, Entries
<1> QED  BY <1>1, <1>2 DEF IsSums, CacheFiles, Entries

\* A thread turns to another operation, and the entries and the size stay.  It is
\* not about to change the size, before or after, and a file it was recording is
\* still being recorded.
LEMMA CacheTurns ==
    ASSUME CacheAssumptions, CacheInv, NEW t \in Thread, NEW op \in Cache!Doing,
           thread' = [thread EXCEPT ![t] = op], UNCHANGED <<files, size, raced>>,
           thread[t].at \notin {"taking", "taken", "adding"},
           op.at \notin {"taking", "taken", "adding"},
           holder' \in Thread \cup {Cache!Nobody},
           \A u \in Thread : u # t => (holder = u <=> holder' = u),
           op.at \in {"put", "record"} => holder' = t,
           op.at = "forget" => op.then = Cache!Idle \/ holder' = t,
           disk' \in [Key -> 0..MaxPiece],
           \A u \in Thread, k \in Key : u # t /\ holder = u /\ disk[k] = 0 => disk'[k] = 0,
           op.at = "forget" /\ holder' = t => disk'[op.key] = 0,
           \A k \in Key : disk'[k] > 0 => disk[k] > 0 \/ (op.at = "record" /\ op.key = k),
           \A k \in Key : thread[t].at = "record" /\ thread[t].key = k =>
                            op.at = "record" /\ op.key = k
    PROVE  CacheInv'
<1>1. /\ thread' \in [Thread -> Cache!Doing] /\ thread'[t] = op
      /\ \A u \in Thread : u # t => thread'[u] = thread[u]
  BY DEF CacheInv, CacheWork
<1>2. CacheWork'  BY <1>1 DEF CacheInv, CacheWork
<1>3. CacheLocked'  BY <1>1 DEF CacheInv, CacheLocked
<1>4. CacheGone'
  <2> SUFFICES ASSUME NEW u \in Thread, thread'[u].at \in {"forget", "taking"}, holder' = u
               PROVE  disk'[thread'[u].key] = 0
    BY DEF CacheGone
  <2>1. CASE u = t  BY <1>1, <2>1
  <2>2. CASE u # t
    <3>1. thread[u].key \in Key  BY <1>1, <2>2, DoingIs DEF CacheInv
    <3> QED  BY <1>1, <2>2, <3>1 DEF CacheInv, CacheGone
  <2> QED  BY <2>1, <2>2
<1>5. \A u \in Thread : /\ (thread'[u].at = "taken" <=> thread[u].at = "taken")
                        /\ (thread'[u].at \in {"taking", "adding"}
                              <=> thread[u].at \in {"taking", "adding"})
                        /\ thread'[u].at \in {"taking", "taken", "adding"} => thread'[u] = thread[u]
  BY <1>1
<1>6. CacheAlone'  BY <1>5 DEF CacheInv, CacheAlone, Cache!Updating, Cache!At
<1>7. CacheSummed'  BY <1>5 DEF CacheInv, CacheSummed
<1>8. CacheFound'
  <2> SUFFICES ASSUME ~raced, NEW k \in Key, disk'[k] > 0
               PROVE  HasKey(files, k) \/ \E u \in Thread :
                        thread'[u].at \in {"record", "adding"} /\ thread'[u].key = k
    BY DEF CacheFound, Cache!Recording, Cache!At, HasKey
  <2>1. CASE op.at = "record" /\ op.key = k  BY <1>1, <2>1
  <2>2. CASE disk[k] > 0
    <3>1. HasKey(files, k) \/ \E u \in Thread :
            thread[u].at \in {"record", "adding"} /\ thread[u].key = k
      BY <2>2 DEF CacheInv, CacheFound, Cache!Recording, Cache!At
    <3> QED  BY <1>1, <3>1
  <2> QED  BY <2>1, <2>2
<1> QED  BY <1>2, <1>3, <1>4, <1>6, <1>7, <1>8, CacheFrame DEF CacheInv

\* A thread that has the lock goes to put.
LEMMA CacheStartPut ==
    ASSUME CacheAssumptions, CacheInv, NEW t \in Thread, NEW k \in Key, NEW n \in Cache!Piece,
           Cache!StartPut(t, k, n)
    PROVE  CacheInv'
<1> DEFINE m == MaxSize - n + Cache!SizeOf(k)
           op == Cache!Put(k, n, m)
<1>1. /\ thread[t] = Cache!Idle /\ holder = Cache!Nobody /\ holder' = t
      /\ UNCHANGED <<files, size, disk, raced>> /\ thread' = [thread EXCEPT ![t] = op]
  BY DEF Cache!StartPut, Cache!Does, Cache!Free
<1>2. m \in Int
  <2>1. Cache!SizeOf(k) \in Int  BY SizeIs DEF CacheInv
  <2>2. n \in Int /\ MaxSize \in Int  BY DEF Cache!Piece, CacheAssumptions
  <2> QED  BY <2>1, <2>2
<1> HIDE DEF m
<1>3. op \in Cache!Doing /\ op.at = "put" /\ thread[t].at = "idle"  BY <1>1, <1>2, Doings
<1> HIDE DEF op
<1>4. \A u \in Thread : holder # u  BY <1>1 DEF CacheAssumptions
<1> QED  BY <1>1, <1>3, <1>4, CacheTurns DEF CacheInv, CacheWork

\* A file less: what was gone is gone.
LEMMA DiskLess ==
    ASSUME CacheAssumptions, CacheWork, NEW k \in Key, disk' = [disk EXCEPT ![k] = 0]
    PROVE  /\ disk' \in [Key -> 0..MaxPiece] /\ disk'[k] = 0
           /\ \A x \in Key : (disk'[x] > 0 => disk[x] > 0) /\ (disk[x] = 0 => disk'[x] = 0)
  BY DEF CacheWork, CacheAssumptions

\* The file of the entry that goes is removed.
LEMMA CacheRemoveFile ==
    ASSUME CacheAssumptions, CacheInv, NEW t \in Thread, Cache!RemoveFile(t) PROVE CacheInv'
<1> DEFINE e == files[Cache!Oldest]
           op == Cache!Forget(e.key, thread[t])
<1>1. /\ thread[t].at = "put" /\ Cache!Prunable # {} /\ UNCHANGED <<files, size, holder, raced>>
      /\ disk' = [disk EXCEPT ![e.key] = 0] /\ thread' = [thread EXCEPT ![t] = op]
  BY DEF Cache!RemoveFile, Cache!Does, Cache!At
<1>2. e \in Cache!Entry
  <2>1. Cache!Prunable \in SUBSET (1..Len(files))
    BY DEF Cache!Prunable, CacheInv, CacheFiles, Entries
  <2>2. \E i \in Cache!Prunable : \A j \in Cache!Prunable : i <= j
    <3>1. Cache!Prunable \in SUBSET Nat
      <4>1. Len(files) \in Nat  BY DEF CacheInv, CacheFiles, Entries
      <4> QED  BY <2>1, <4>1
    <3>2. \E i \in Cache!Prunable : \A j \in Cache!Prunable : ~(<<j, i>> \in OpToRel(<, Nat))
      BY <1>1, <3>1, NatLessThanWellFounded, WFMin
    <3>3. PICK i \in Cache!Prunable : \A j \in Cache!Prunable : ~(j < i)
      BY <3>1, <3>2 DEF OpToRel
    <3>4. \A j \in Cache!Prunable : i <= j  BY <3>1, <3>3
    <3> QED  BY <3>4
  <2>3. Cache!Oldest \in Cache!Prunable  BY <2>2 DEF Cache!Oldest
  <2> QED  BY <2>1, <2>3 DEF CacheInv, CacheFiles, Entries
<1> HIDE DEF e
<1>3. e.key \in Key  BY <1>2, EntryParts
<1>4. thread[t] \in Cache!Puts /\ holder = t  BY <1>1, DoingIs DEF CacheInv, CacheLocked
<1>5. op \in Cache!Doing /\ op.at = "forget" /\ op.key = e.key  BY <1>3, <1>4, Doings
<1> HIDE DEF op
<1>6. /\ disk' \in [Key -> 0..MaxPiece] /\ disk'[e.key] = 0
      /\ \A x \in Key : (disk'[x] > 0 => disk[x] > 0) /\ (disk[x] = 0 => disk'[x] = 0)
  BY <1>1, <1>3, DiskLess DEF CacheInv
<1>7. holder' \in Thread \cup {Cache!Nobody}  BY <1>1 DEF CacheInv, CacheWork
<1> QED  BY <1>1, <1>4, <1>5, <1>6, <1>7, CacheTurns

\* The new file takes its place.
LEMMA CacheReplace ==
    ASSUME CacheAssumptions, CacheInv, NEW t \in Thread, Cache!Replace(t) PROVE CacheInv'
<1> DEFINE k == thread[t].key
           n == thread[t].new
           op == Cache!Record(k, n)
<1>1. /\ thread[t].at = "put" /\ UNCHANGED <<files, size, holder, raced>>
      /\ disk' = [disk EXCEPT ![k] = n] /\ thread' = [thread EXCEPT ![t] = op]
  BY DEF Cache!Replace, Cache!Does, Cache!At
<1>2. k \in Key /\ n \in Cache!Piece /\ holder = t
  BY <1>1, DoingIs, CachePutIs DEF CacheInv, CacheLocked
<1> HIDE DEF k, n
<1>3. op \in Cache!Doing /\ op.at = "record" /\ op.key = k  BY <1>2, Doings
<1> HIDE DEF op
<1>4. n \in 0..MaxPiece  BY <1>2 DEF Cache!Piece, CacheAssumptions
<1>5. /\ disk' \in [Key -> 0..MaxPiece]
      /\ \A x \in Key : disk'[x] > 0 => disk[x] > 0 \/ x = k
  BY <1>1, <1>2, <1>4 DEF CacheInv, CacheWork
<1>6. holder' \in Thread \cup {Cache!Nobody}  BY <1>1 DEF CacheInv, CacheWork
<1> QED  BY <1>1, <1>2, <1>3, <1>5, <1>6, CacheTurns

\* A put or a delete that raises.
LEMMA CacheFails ==
    ASSUME CacheAssumptions, CacheInv, NEW t \in Thread, Cache!Fails(t) PROVE CacheInv'
<1>1. /\ thread[t].at \in {"put", "expired"} /\ UNCHANGED <<files, size, disk, raced>>
      /\ thread' = [thread EXCEPT ![t] = Cache!Idle]
      /\ holder' = IF holder = t THEN Cache!Nobody ELSE holder
  BY DEF Cache!Fails, Cache!Resumes, Cache!Does, Cache!At
<1>2. Cache!Idle \in Cache!Doing /\ Cache!Idle.at = "idle"  BY Doings
<1>3. /\ holder' \in Thread \cup {Cache!Nobody} /\ disk' \in [Key -> 0..MaxPiece]
      /\ \A u \in Thread : u # t => (holder = u <=> holder' = u)
  BY <1>1 DEF CacheInv, CacheWork, CacheAssumptions
<1> QED  BY <1>1, <1>2, <1>3, CacheTurns

\* A thread alone turns to another operation.
LEMMA CacheTurned ==
    ASSUME CacheWork, NEW t \in Thread, NEW op \in Cache!Doing, thread' = [thread EXCEPT ![t] = op]
    PROVE  /\ thread' \in [Thread -> Cache!Doing] /\ thread'[t] = op
           /\ \A u \in Thread : u # t => thread'[u] = thread[u]
  BY DEF CacheWork

\* Without a race, what the thread that changes the size knows.
LEMMA CacheKnows ==
    ASSUME CacheInv, NEW t \in Thread, ~raced, thread[t].at \in {"taking", "taken", "adding"}
    PROVE  /\ \A u \in Thread : u # t => thread[u].at \notin {"taking", "taken", "adding"}
           /\ thread[t].at # "taken" => thread[t].size = size /\ size = Cache!Total(files)
           /\ thread[t].at = "taken" => thread[t].size = Cache!Total(files)
  BY DEF CacheInv, CacheAlone, CacheSummed, Cache!Updating, Cache!At

\* A thread loads the size: it is the only one to, or there is a race.
LEMMA CacheLoads ==
    ASSUME CacheAssumptions, CacheInv, NEW t \in Thread, Cache!Loads(t) PROVE CacheInv'
<1>1. /\ thread[t].at \in {"forget", "record"} /\ UNCHANGED <<files, size, disk, holder>>
      /\ raced' = (raced \/ \E u \in Thread \ {t} : Cache!Updating(u))
  BY DEF Cache!Loads, Cache!At
<1>2. raced' \in BOOLEAN  BY <1>1
<1>3. size \in Int  BY DEF CacheInv, CacheWork
<1>4. PICK op \in Cache!Doing :
        /\ thread' = [thread EXCEPT ![t] = op] /\ op.key = thread[t].key /\ op.size = size
        /\ thread[t].at = "forget" => op.at = "taking" /\ op.then = thread[t].then
        /\ thread[t].at = "record" => op.at = "adding"
  <2>1. CASE thread[t].at = "forget"
    <3> DEFINE op == Cache!Taking(thread[t].key, thread[t].then, size)
    <3>1. thread' = [thread EXCEPT ![t] = op]  BY <2>1 DEF Cache!Loads, Cache!Does
    <3>2. thread[t].key \in Key /\ thread[t].then \in {Cache!Idle} \cup Cache!Puts
      BY <2>1, DoingIs DEF CacheInv
    <3>3. op \in Cache!Doing /\ op.at = "taking" /\ op.key = thread[t].key
          /\ op.then = thread[t].then /\ op.size = size
      BY <1>3, <3>2, Doings
    <3> HIDE DEF op
    <3> QED  BY <2>1, <3>1, <3>3
  <2>2. CASE thread[t].at = "record"
    <3> DEFINE op == Cache!Adding(thread[t].key, thread[t].new, size)
    <3>1. thread' = [thread EXCEPT ![t] = op]  BY <2>2 DEF Cache!Loads, Cache!Does
    <3>2. thread[t].key \in Key /\ thread[t].new \in Cache!Piece
      BY <2>2, DoingIs DEF CacheInv
    <3>3. op \in Cache!Doing /\ op.at = "adding" /\ op.key = thread[t].key /\ op.size = size
      BY <1>3, <3>2, Doings
    <3> HIDE DEF op
    <3> QED  BY <2>2, <3>1, <3>3
  <2> QED  BY <1>1, <2>1, <2>2
<1>5. /\ thread' \in [Thread -> Cache!Doing] /\ thread'[t] = op
      /\ \A u \in Thread : u # t => thread'[u] = thread[u]
  BY <1>4, CacheTurned DEF CacheInv
<1>6. CacheWork'  BY <1>1, <1>2, <1>5 DEF CacheInv, CacheWork
<1>7. CacheLocked' /\ CacheGone'  BY <1>1, <1>4, <1>5 DEF CacheInv, CacheLocked, CacheGone
<1>8. ASSUME ~raced' PROVE /\ ~raced
                           /\ \A u \in Thread : thread[u].at \notin {"taking", "taken", "adding"}
  BY <1>1, <1>8 DEF Cache!Updating, Cache!At
<1>9. CacheAlone'
  BY <1>1, <1>4, <1>5, <1>8 DEF CacheAlone, Cache!Updating, Cache!At
<1>10. CacheSummed'
  <2> SUFFICES ASSUME ~raced'
               PROVE  size = Cache!Total(files) /\ \A u \in Thread : thread'[u].at # "taken"
    BY <1>1 DEF CacheSummed
  <2>1. size = Cache!Total(files)  BY <1>8 DEF CacheInv, CacheSummed
  <2> QED  BY <1>1, <1>4, <1>5, <1>8, <2>1
<1>11. CacheFound'
  BY <1>1, <1>4, <1>5, <1>8 DEF CacheInv, CacheFound, Cache!Recording, Cache!At
<1> QED  BY <1>1, <1>6, <1>7, <1>9, <1>10, <1>11, CacheFrame DEF CacheInv

\* The new file gets its entry.
LEMMA CacheAdds ==
    ASSUME CacheAssumptions, CacheInv, NEW t \in Thread, Cache!Adds(t) PROVE CacheInv'
<1> DEFINE k == thread[t].key
           e == [key |-> k, size |-> thread[t].new, fresh |-> TRUE]
<1>1. /\ thread[t].at = "adding" /\ size' = thread[t].size + thread[t].new - Cache!SizeOf(k)
      /\ files' = Cache!Filed(e) /\ thread' = [thread EXCEPT ![t] = Cache!Idle]
      /\ holder' = IF holder = t THEN Cache!Nobody ELSE holder
      /\ UNCHANGED <<disk, raced>>
  BY DEF Cache!Adds, Cache!Resumes, Cache!Does, Cache!At
<1>2. k \in Key /\ thread[t].new \in Cache!Piece /\ thread[t].size \in Int
  BY <1>1, DoingIs DEF CacheInv
<1>3. e \in Cache!Entry /\ e.key = k /\ e.size = thread[t].new  BY <1>2 DEF Cache!Entry
<1>4. thread[t].new \in Int  BY <1>2 DEF Cache!Piece, CacheAssumptions
<1>5. holder = t /\ holder' = Cache!Nobody  BY <1>1 DEF CacheInv, CacheLocked
<1> HIDE DEF e, k
<1>6. /\ Entries(files') /\ Cache!Total(files') = Cache!Total(files) + e.size - Cache!SizeOf(k)
      /\ \A x : HasKey(files', x) <=> x = k \/ HasKey(files, x)
  <2>1. /\ Entries(Cache!Filed(e))
        /\ Cache!Total(Cache!Filed(e)) = Cache!Total(files) + e.size - Cache!SizeOf(e.key)
        /\ \A x : HasKey(Cache!Filed(e), x) <=> x = e.key \/ HasKey(files, x)
    BY <1>3, FiledIs DEF CacheInv
  <2> QED  BY <1>1, <1>3, <2>1
<1>7. Cache!SizeOf(k) \in Int  BY SizeIs DEF CacheInv
<1>8. Cache!Idle \in Cache!Doing /\ Cache!Idle.at = "idle"  BY Doings
<1>9. /\ thread' \in [Thread -> Cache!Doing] /\ thread'[t] = Cache!Idle
      /\ \A u \in Thread : u # t => thread'[u] = thread[u]
  BY <1>1, <1>8, CacheTurned DEF CacheInv
<1>10. size' \in Int  BY <1>1, <1>2, <1>4, <1>7
<1>11. CacheWork'  BY <1>1, <1>5, <1>9, <1>10 DEF CacheInv, CacheWork
<1>12. CacheLocked' /\ CacheGone'
  BY <1>5, <1>8, <1>9 DEF CacheInv, CacheLocked, CacheGone, CacheAssumptions
<1>13. ASSUME ~raced
       PROVE  /\ \A u \in Thread : u # t => thread[u].at \notin {"taking", "taken", "adding"}
              /\ thread[t].size = Cache!Total(files)
  BY <1>1, <1>13, CacheKnows
<1>14. CacheAlone'
  BY <1>1, <1>8, <1>9, <1>13 DEF CacheAlone, Cache!Updating, Cache!At
<1>15. CacheSummed'
  BY <1>1, <1>3, <1>6, <1>8, <1>9, <1>13 DEF CacheSummed
<1>16. CacheFound'
  <2> SUFFICES ASSUME ~raced, NEW x \in Key, disk[x] > 0, x # k, ~HasKey(files, x)
               PROVE  \E u \in Thread : Cache!Recording(u, x)'
    BY <1>1, <1>6 DEF CacheFound
  <2>1. PICK u \in Thread : thread[u].at \in {"record", "adding"} /\ thread[u].key = x
    BY DEF CacheInv, CacheFound, Cache!Recording, Cache!At
  <2>2. u # t  BY <2>1 DEF k
  <2> QED  BY <1>9, <2>1, <2>2 DEF Cache!Recording, Cache!At
<1> QED  BY <1>6, <1>11, <1>12, <1>14, <1>15, <1>16 DEF CacheInv, CacheFiles

\* The entry goes, or has gone.
LEMMA CachePops ==
    ASSUME CacheAssumptions, CacheInv, NEW t \in Thread, Cache!Pops(t) PROVE CacheInv'
<1> DEFINE k == thread[t].key
<1>1. thread[t].at = "taking" /\ UNCHANGED <<size, disk>>  BY DEF Cache!Pops, Cache!At
<1>2. /\ k \in Key /\ thread[t].then \in {Cache!Idle} \cup Cache!Puts /\ thread[t].size \in Int
  BY <1>1, DoingIs DEF CacheInv
<1>3. ASSUME ~raced
      PROVE  /\ \A u \in Thread : u # t => thread[u].at \notin {"taking", "taken", "adding"}
             /\ thread[t].size = size /\ size = Cache!Total(files)
  BY <1>1, <1>3, CacheKnows
<1>4. CASE ~Cache!Known(k)
  <2>1. /\ thread' = [thread EXCEPT ![t] = Cache!Idle] /\ UNCHANGED <<files, raced>>
        /\ holder' = IF holder = t THEN Cache!Nobody ELSE holder
    BY <1>4 DEF Cache!Pops, Cache!Resumes, Cache!Does
  <2> HIDE DEF k
  <2>2. Cache!Idle \in Cache!Doing /\ Cache!Idle.at = "idle"  BY Doings
  <2>3. /\ thread' \in [Thread -> Cache!Doing] /\ thread'[t] = Cache!Idle
        /\ \A u \in Thread : u # t => thread'[u] = thread[u]
    BY <2>1, <2>2, CacheTurned DEF CacheInv
  <2>4. CacheWork'  BY <1>1, <2>1, <2>3 DEF CacheInv, CacheWork
  <2>5. CacheLocked' /\ CacheGone'
    BY <1>1, <2>1, <2>2, <2>3 DEF CacheInv, CacheLocked, CacheGone, CacheAssumptions
  <2>6. CacheAlone'  BY <1>1, <1>3, <2>1, <2>2, <2>3 DEF CacheAlone, Cache!Updating, Cache!At
  <2>7. CacheSummed'  BY <1>1, <1>3, <2>1, <2>2, <2>3 DEF CacheSummed
  <2>8. CacheFound'
    BY <1>1, <2>1, <2>2, <2>3 DEF CacheInv, CacheFound, Cache!Recording, Cache!At
  <2> QED  BY <2>1, <2>4, <2>5, <2>6, <2>7, <2>8, CacheFrame DEF CacheInv
<1>5. CASE Cache!Known(k)
  <2> DEFINE left == thread[t].size - Cache!SizeOf(k)
             op == Cache!Taken(thread[t].then, left)
  <2>1. /\ files' = Cache!Without(k) /\ thread' = [thread EXCEPT ![t] = op]
        /\ raced' = (raced \/ (holder # t /\ k \in Cache!OnDisk)) /\ UNCHANGED holder
    BY <1>5 DEF Cache!Pops, Cache!Does
  <2>2. Cache!SizeOf(k) \in Int  BY SizeIs DEF CacheInv
  <2>3. left \in Int  BY <1>2, <2>2
  <2> HIDE DEF left
  <2>4. op \in Cache!Doing /\ op.at = "taken" /\ op.then = thread[t].then /\ op.size = left
    BY <1>2, <2>3, Doings
  <2> HIDE DEF op
  <2>5. /\ thread' \in [Thread -> Cache!Doing] /\ thread'[t] = op
        /\ \A u \in Thread : u # t => thread'[u] = thread[u]
    BY <2>1, <2>4, CacheTurned DEF CacheInv
  <2>6. /\ Entries(files') /\ Cache!Total(files') = Cache!Total(files) - Cache!SizeOf(k)
        /\ \A x : HasKey(files', x) <=> x # k /\ HasKey(files, x)
    BY <2>1, CacheWithoutIs DEF CacheInv
  <2>7. raced' \in BOOLEAN  BY <2>1
  <2>8. CacheWork'  BY <1>1, <2>1, <2>5, <2>7 DEF CacheInv, CacheWork
  <2>9. CacheLocked' /\ CacheGone'
    BY <1>1, <2>1, <2>4, <2>5 DEF CacheInv, CacheLocked, CacheGone
  <2>10. ASSUME ~raced' PROVE ~raced /\ disk[k] = 0
    <3>1. ~raced /\ ~(holder # t /\ k \in Cache!OnDisk)  BY <2>1, <2>10
    <3>2. disk[k] \in Nat  BY <1>2 DEF CacheInv, CacheWork, CacheAssumptions
    <3>3. holder = t => disk[k] = 0  BY <1>1 DEF CacheInv, CacheGone
    <3> QED  BY <1>2, <3>1, <3>2, <3>3 DEF Cache!OnDisk
  <2>11. CacheAlone'  BY <1>3, <2>4, <2>5, <2>10 DEF CacheAlone, Cache!Updating, Cache!At
  <2>12. CacheSummed'
    <3> SUFFICES ASSUME ~raced' PROVE /\ left = Cache!Total(files')
                                      /\ \A u \in Thread : u # t => thread[u].at # "taken"
      BY <2>4, <2>5 DEF CacheSummed
    <3> QED  BY <1>3, <2>6, <2>10 DEF left
  <2>13. CacheFound'
    <3> SUFFICES ASSUME ~raced', NEW x \in Key, disk[x] > 0, ~HasKey(files', x)
                 PROVE  \E u \in Thread : Cache!Recording(u, x)'
      BY <1>1 DEF CacheFound
    <3>1. ~raced /\ x # k  BY <2>10
    <3>2. PICK u \in Thread : thread[u].at \in {"record", "adding"} /\ thread[u].key = x
      BY <2>6, <3>1 DEF CacheInv, CacheFound, Cache!Recording, Cache!At
    <3>3. u # t  BY <1>1, <3>2
    <3> QED  BY <2>5, <3>2, <3>3 DEF Cache!Recording, Cache!At
  <2> QED  BY <2>6, <2>8, <2>9, <2>11, <2>12, <2>13 DEF CacheInv, CacheFiles
<1> QED  BY <1>4, <1>5

\* What is left is stored.
LEMMA CacheTakes ==
    ASSUME CacheAssumptions, CacheInv, NEW t \in Thread, Cache!Takes(t) PROVE CacheInv'
<1> DEFINE op == thread[t].then
<1>1. /\ thread[t].at = "taken" /\ size' = thread[t].size /\ UNCHANGED <<files, disk, raced>>
      /\ thread' = [thread EXCEPT ![t] = op]
      /\ holder' = IF op = Cache!Idle /\ holder = t THEN Cache!Nobody ELSE holder
  BY DEF Cache!Takes, Cache!Resumes, Cache!Does, Cache!At
<1>2. op \in {Cache!Idle} \cup Cache!Puts /\ size' \in Int /\ (op = Cache!Idle \/ holder = t)
  BY <1>1, DoingIs DEF CacheInv, CacheLocked
<1> HIDE DEF op
<1>3. op \in Cache!Doing /\ (op.at = "idle" \/ op.at = "put") /\ (op = Cache!Idle => op.at = "idle")
  BY <1>2, Doings, CachePutIs
<1>4. /\ thread' \in [Thread -> Cache!Doing] /\ thread'[t] = op
      /\ \A u \in Thread : u # t => thread'[u] = thread[u]
  BY <1>1, <1>3, CacheTurned DEF CacheInv
<1>5. CacheWork'  BY <1>1, <1>2, <1>4 DEF CacheInv, CacheWork
<1>6. CacheLocked'
  <2> SUFFICES ASSUME NEW u \in Thread
               PROVE  /\ thread'[u].at \in {"put", "record", "adding"} => holder' = u
                      /\ thread'[u].at \in {"forget", "taking", "taken"} =>
                           thread'[u].then = Cache!Idle \/ holder' = u
    BY DEF CacheLocked
  <2>1. CASE u = t  BY <1>1, <1>2, <1>3, <1>4, <2>1
  <2>2. CASE u # t  BY <1>1, <1>4, <2>2 DEF CacheInv, CacheLocked
  <2> QED  BY <2>1, <2>2
<1>7. CacheGone'
  BY <1>1, <1>3, <1>4 DEF CacheInv, CacheGone, CacheAssumptions
<1>8. ASSUME ~raced
      PROVE  /\ \A u \in Thread : u # t => thread[u].at \notin {"taking", "taken", "adding"}
             /\ thread[t].size = Cache!Total(files)
  BY <1>1, <1>8, CacheKnows
<1>9. CacheAlone'  BY <1>1, <1>3, <1>4, <1>8 DEF CacheAlone, Cache!Updating, Cache!At
<1>10. CacheSummed'  BY <1>1, <1>3, <1>4, <1>8 DEF CacheSummed
<1>11. CacheFound'  BY <1>1, <1>4 DEF CacheInv, CacheFound, Cache!Recording, Cache!At
<1> QED  BY <1>1, <1>5, <1>6, <1>7, <1>9, <1>10, <1>11, CacheFrame DEF CacheInv

\* The entries change, and what they add up to does not.
LEMMA CacheSameTotal ==
    ASSUME CacheInv, Cache!Total(files') = Cache!Total(files), UNCHANGED <<size, disk>>,
           \A x : HasKey(files, x) => HasKey(files', x), raced => raced',
           \A u \in Thread :
             thread'[u] = thread[u]
               \/ (thread[u].at \in {"idle", "copied"} /\ thread'[u].at = "expired")
    PROVE  CacheAlone' /\ CacheSummed' /\ CacheFound'
<1>1. \A u \in Thread : thread'[u].at \in {"taking", "taken", "adding", "record"}
                          \/ thread[u].at \in {"taking", "taken", "adding", "record"}
                        => thread'[u] = thread[u]
  OBVIOUS
<1>2. CacheAlone'  BY <1>1 DEF CacheInv, CacheAlone, Cache!Updating, Cache!At
<1>3. CacheSummed'  BY <1>1 DEF CacheInv, CacheSummed
<1>4. CacheFound'  BY <1>1 DEF CacheInv, CacheFound, Cache!Recording, Cache!At
<1> QED  BY <1>2, <1>3, <1>4

\* A hit moves the entry to the end.
LEMMA CacheTouch ==
    ASSUME CacheAssumptions, CacheInv, NEW t \in Thread, NEW k \in Key, Cache!Touch(t, k)
    PROVE  CacheInv'
<1>1. /\ HasKey(files, k) /\ thread[t] = Cache!Idle /\ holder = Cache!Nobody
      /\ UNCHANGED <<size, disk, raced>>
  BY KnownIs DEF Cache!Touch, Cache!Free, CacheInv
<1>2. CASE k \in Cache!OnDisk
  <2> DEFINE s == Cache!Without(k)
             e == [Cache!EntryOf(k) EXCEPT !.fresh = TRUE]
  <2>1. files' = Append(s, e) /\ UNCHANGED <<holder, thread>>  BY <1>2 DEF Cache!Touch
  <2>2. e \in Cache!Entry /\ e.key = k /\ e.size = Cache!SizeOf(k)
    <3>1. Cache!EntryOf(k) \in Cache!Entry /\ Cache!EntryOf(k).key = k
          /\ Cache!SizeOf(k) = Cache!EntryOf(k).size
      BY <1>1, PlaceIs DEF CacheInv
    <3> QED  BY <3>1 DEF Cache!Entry
  <2>3. /\ Entries(s) /\ Cache!Total(s) = Cache!Total(files) - Cache!SizeOf(k)
        /\ \A x : HasKey(s, x) <=> x # k /\ HasKey(files, x)
    BY CacheWithoutIs DEF CacheInv
  <2> HIDE DEF s, e
  <2>4. /\ Entries(Append(s, e)) /\ Cache!Total(Append(s, e)) = Cache!Total(s) + e.size
        /\ \A x : HasKey(Append(s, e), x) <=> x = e.key \/ HasKey(s, x)
    BY <2>2, <2>3, AppendIs
  <2>5. Cache!SizeOf(k) \in Int /\ Cache!Total(files) \in Int
    BY SizeIs, TotalInt DEF CacheInv
  <2>6. Cache!Total(files') = Cache!Total(files)  BY <2>1, <2>2, <2>3, <2>4, <2>5
  <2>7. \A x : HasKey(files, x) => HasKey(files', x)  BY <1>1, <2>1, <2>2, <2>3, <2>4
  <2>8. CacheFiles'  BY <2>1, <2>4 DEF CacheFiles
  <2>9. CacheAlone' /\ CacheSummed' /\ CacheFound'
    BY <1>1, <2>1, <2>6, <2>7, CacheSameTotal
  <2> QED  BY <1>1, <2>1, <2>8, <2>9, CacheFrame DEF CacheInv
<1>3. CASE k \notin Cache!OnDisk
  <2> DEFINE op == Cache!Forget(k, Cache!Idle)
  <2>1. thread' = [thread EXCEPT ![t] = op] /\ holder' = t /\ UNCHANGED files
    BY <1>3 DEF Cache!Touch, Cache!Does
  <2>2. /\ op \in Cache!Doing /\ op.at = "forget" /\ op.key = k /\ op.then = Cache!Idle
        /\ thread[t].at = "idle"
    BY <1>1, Doings
  <2> HIDE DEF op
  <2>3. disk \in [Key -> 0..MaxPiece] /\ disk[k] = 0
    BY <1>3 DEF CacheInv, CacheWork, Cache!OnDisk, CacheAssumptions
  <2>4. \A u \in Thread : holder # u  BY <1>1 DEF CacheAssumptions
  <2> QED  BY <1>1, <2>1, <2>2, <2>3, <2>4, CacheTurns
<1> QED  BY <1>2, <1>3

\* A look without the lock at a file that is gone.
LEMMA CacheHas ==
    ASSUME CacheAssumptions, CacheInv, NEW t \in Thread, NEW k \in Key, Cache!Has(t, k)
    PROVE  CacheInv'
<1> DEFINE op == Cache!Forget(k, Cache!Idle)
<1>1. /\ thread[t] = Cache!Idle /\ k \notin Cache!OnDisk
      /\ thread' = [thread EXCEPT ![t] = op] /\ UNCHANGED <<files, size, disk, holder, raced>>
  BY DEF Cache!Has, Cache!Free, Cache!Does
<1>2. /\ op \in Cache!Doing /\ op.at = "forget" /\ op.key = k /\ op.then = Cache!Idle
      /\ thread[t].at = "idle"
  BY <1>1, Doings
<1> HIDE DEF op
<1>3. disk \in [Key -> 0..MaxPiece] /\ disk[k] = 0 /\ holder \in Thread \cup {Cache!Nobody}
  BY <1>1 DEF CacheInv, CacheWork, Cache!OnDisk, CacheAssumptions
<1> QED  BY <1>1, <1>2, <1>3, CacheTurns

\* The clean-up copies an entry.
LEMMA CacheEmptyCopies ==
    ASSUME CacheAssumptions, CacheInv, NEW t \in Thread, NEW k \in Key, Cache!EmptyCopies(t, k)
    PROVE  CacheInv'
<1> DEFINE op == Cache!Copied(k, Cache!SizeOf(k))
<1>1. /\ thread[t] = Cache!Idle /\ HasKey(files, k)
      /\ thread' = [thread EXCEPT ![t] = op] /\ UNCHANGED <<files, size, disk, holder, raced>>
  BY KnownIs DEF Cache!EmptyCopies, Cache!Free, Cache!Does, CacheInv
<1>2. Cache!SizeOf(k) \in Cache!Piece  BY <1>1, PlaceIs DEF CacheInv
<1>3. op \in Cache!Doing /\ op.at = "copied" /\ thread[t].at = "idle"  BY <1>1, <1>2, Doings
<1> HIDE DEF op
<1>4. disk \in [Key -> 0..MaxPiece] /\ holder \in Thread \cup {Cache!Nobody}
  BY DEF CacheInv, CacheWork
<1> QED  BY <1>1, <1>3, <1>4, CacheTurns

\* It writes the entry back, expired.
LEMMA CacheEmptyExpires ==
    ASSUME CacheAssumptions, CacheInv, NEW t \in Thread, Cache!EmptyExpires(t) PROVE CacheInv'
<1> DEFINE k == thread[t].key
           e == [key |-> k, size |-> thread[t].size, fresh |-> FALSE]
<1>1. /\ thread[t].at = "copied" /\ thread' = [thread EXCEPT ![t] = Cache!Expired(k)]
      /\ files' = Cache!Filed(e) /\ raced' = (raced \/ Cache!SizeOf(k) # e.size)
      /\ UNCHANGED <<size, disk, holder>>
  BY DEF Cache!EmptyExpires, Cache!Does, Cache!At
<1>2. k \in Key /\ thread[t].size \in Cache!Piece  BY <1>1, DoingIs DEF CacheInv
<1>3. e \in Cache!Entry /\ e.key = k  BY <1>2 DEF Cache!Entry
<1> HIDE DEF e, k
<1>4. e.size \in Int /\ Cache!SizeOf(k) \in Int /\ Cache!Total(files) \in Int
  BY <1>3, EntryParts, SizeIs, TotalInt DEF CacheInv
<1>5. /\ Entries(files') /\ Cache!Total(files') = Cache!Total(files) + e.size - Cache!SizeOf(k)
      /\ \A x : HasKey(files', x) <=> x = k \/ HasKey(files, x)
  <2>1. /\ Entries(Cache!Filed(e))
        /\ Cache!Total(Cache!Filed(e)) = Cache!Total(files) + e.size - Cache!SizeOf(e.key)
        /\ \A x : HasKey(Cache!Filed(e), x) <=> x = e.key \/ HasKey(files, x)
    BY <1>3, FiledIs DEF CacheInv
  <2> QED  BY <1>1, <1>3, <2>1
<1>6. Cache!Expired(k) \in Cache!Doing /\ Cache!Expired(k).at = "expired"  BY <1>2, Doings
<1>7. /\ thread' \in [Thread -> Cache!Doing] /\ thread'[t] = Cache!Expired(k)
      /\ \A u \in Thread : u # t => thread'[u] = thread[u]
  BY <1>1, <1>6, CacheTurned DEF CacheInv
<1>8. raced' \in BOOLEAN  BY <1>1
<1>9. CacheWork'  BY <1>1, <1>7, <1>8 DEF CacheInv, CacheWork
<1>10. CacheLocked' /\ CacheGone'
  BY <1>1, <1>6, <1>7 DEF CacheInv, CacheLocked, CacheGone
<1>11. CacheAlone' /\ CacheSummed' /\ CacheFound'
  <2>1. CASE raced'  BY <2>1 DEF CacheAlone, CacheSummed, CacheFound
  <2>2. CASE ~raced'
    <3>1. ~raced /\ Cache!SizeOf(k) = e.size  BY <1>1, <2>2
    <3>2. Cache!Total(files') = Cache!Total(files)  BY <1>4, <1>5, <3>1
    <3> QED  BY <1>1, <1>5, <1>6, <1>7, <3>1, <3>2, CacheSameTotal
  <2> QED  BY <2>1, <2>2
<1> QED  BY <1>5, <1>9, <1>10, <1>11 DEF CacheInv, CacheFiles

\* Then it deletes the file.
LEMMA CacheEmptyDeletes ==
    ASSUME CacheAssumptions, CacheInv, NEW t \in Thread, Cache!EmptyDeletes(t) PROVE CacheInv'
<1> DEFINE k == thread[t].key
           op == Cache!Forget(k, Cache!Idle)
<1>1. /\ thread[t].at = "expired" /\ holder = Cache!Nobody /\ UNCHANGED <<files, size, raced>>
      /\ \/ /\ disk' = [disk EXCEPT ![k] = 0] /\ holder' = t
            /\ thread' = [thread EXCEPT ![t] = op]
         \/ thread' = [thread EXCEPT ![t] = Cache!Idle] /\ UNCHANGED <<disk, holder>>
  BY DEF Cache!EmptyDeletes, Cache!Does, Cache!At
<1>2. k \in Key  BY <1>1, DoingIs DEF CacheInv
<1> HIDE DEF k
<1>3. /\ op \in Cache!Doing /\ op.at = "forget" /\ op.key = k /\ op.then = Cache!Idle
      /\ Cache!Idle \in Cache!Doing /\ Cache!Idle.at = "idle"
  BY <1>2, Doings
<1> HIDE DEF op
<1>4. \A u \in Thread : holder # u  BY <1>1 DEF CacheAssumptions
<1>5. ASSUME disk' = [disk EXCEPT ![k] = 0], holder' = t, thread' = [thread EXCEPT ![t] = op]
      PROVE  CacheInv'
  <2>1. /\ disk' \in [Key -> 0..MaxPiece] /\ disk'[k] = 0
        /\ \A x \in Key : disk'[x] > 0 => disk[x] > 0
    BY <1>2, <1>5, DiskLess DEF CacheInv
  <2> QED  BY <1>1, <1>3, <1>4, <1>5, <2>1, CacheTurns
<1>6. ASSUME thread' = [thread EXCEPT ![t] = Cache!Idle], UNCHANGED <<disk, holder>>
      PROVE  CacheInv'
  <2>1. disk \in [Key -> 0..MaxPiece] /\ holder \in Thread \cup {Cache!Nobody}
    BY DEF CacheInv, CacheWork
  <2> QED  BY <1>1, <1>3, <1>4, <1>6, <2>1, CacheTurns
<1> QED  BY <1>1, <1>5, <1>6

\* A restart reads the entries from the disk.
LEMMA CacheRestart ==
    ASSUME CacheAssumptions, CacheInv, Cache!Restart PROVE CacheInv'
<1>1. PICK order \in Cache!Bijection(1..Cache!Cardinality(Cache!OnDisk), Cache!OnDisk) :
        files' = [i \in DOMAIN order |->
                    [key |-> order[i], size |-> disk[order[i]], fresh |-> TRUE]]
  BY DEF Cache!Restart
<1>2. /\ thread' = [t \in Thread |-> Cache!Idle] /\ holder' = Cache!Nobody
      /\ size' = Cache!Total(files') /\ raced' = FALSE /\ UNCHANGED disk
  BY DEF Cache!Restart
<1> DEFINE D == Cache!OnDisk
           n == Cardinality(D)
<1>3. D \subseteq Key /\ IsFiniteSet(D) /\ n \in Nat
  BY FS_Subset, FS_CardinalityType DEF Cache!OnDisk, CacheAssumptions
<1>4. order \in Cache!Injection(1..n, D) /\ order \in Cache!Surjection(1..n, D)
  <2>1. \A S : Cache!Cardinality(S) = Cardinality(S)
    BY DEF Cardinality, Cache!Cardinality, IsFiniteSet, Cache!IsFiniteSet
  <2> QED  BY <1>1, <2>1 DEF Cache!Bijection
<1>5. /\ order \in [1..n -> D] /\ \A i, j \in 1..n : order[i] = order[j] => i = j
      /\ \A x \in D : \E i \in 1..n : order[i] = x
  BY <1>4 DEF Cache!Injection, Cache!Surjection, Cache!IsInjective
<1> HIDE DEF D, n
<1>6. \A x \in D : disk[x] \in Cache!Piece
  BY DEF D, Cache!OnDisk, CacheInv, CacheWork, Cache!Piece, CacheAssumptions
<1>7. files' = [i \in 1..n |-> [key |-> order[i], size |-> disk[order[i]], fresh |-> TRUE]]
  BY <1>1, <1>5
<1>8. \A i \in 1..n : files'[i] \in Cache!Entry /\ files'[i].key = order[i]
  BY <1>3, <1>5, <1>6, <1>7 DEF Cache!Entry
<1>9. files' \in Seq(Cache!Entry) /\ Len(files') = n
  <2>1. files' \in [1..n -> Cache!Entry]  BY <1>7, <1>8
  <2> QED  BY <1>3, <2>1
<1>10. Entries(files')  BY <1>5, <1>8, <1>9 DEF Entries, Distinct
<1>11. \A x \in D : HasKey(files', x)  BY <1>5, <1>8, <1>9 DEF HasKey
<1>12. Cache!Total(files') \in Int
  <2>1. PICK f : IsSums(f, files')  BY <1>9, SumsExist
  <2>2. Cache!Total(files') = f[Len(files')]  BY <1>9, <2>1, TotalIs
  <2> QED  BY <1>3, <1>9, <2>1, <2>2 DEF IsSums
<1>13. CacheWork'  BY <1>2, <1>12, Doings DEF CacheInv, CacheWork
<1>14. CacheLocked' /\ CacheGone'  BY <1>2 DEF CacheLocked, CacheGone, Cache!Idle
<1>15. CacheAlone' /\ CacheSummed' /\ CacheFound'
  BY <1>2, <1>11 DEF CacheAlone, CacheSummed, CacheFound, D, Cache!OnDisk, Cache!Idle,
                     Cache!Updating, Cache!At
<1> QED  BY <1>10, <1>13, <1>14, <1>15 DEF CacheInv, CacheFiles

\* A cache over an empty directory.
LEMMA CacheInit == CacheAssumptions /\ Cache!Init => CacheInv
<1> SUFFICES ASSUME CacheAssumptions, Cache!Init PROVE CacheInv  OBVIOUS
<1> USE DEF Cache!Init
<1>1. CacheFiles /\ CacheFound  BY DEF CacheFiles, Entries, Distinct, CacheFound
<1>2. CacheWork
  <2>1. disk \in [Key -> 0..MaxPiece]  BY DEF CacheAssumptions
  <2>2. thread \in [Thread -> Cache!Doing]  BY Doings
  <2>3. raced = FALSE /\ size = 0  OBVIOUS
  <2>4. holder \in Thread \cup {Cache!Nobody}  OBVIOUS
  <2> HIDE DEF Cache!Init
  <2>5. raced \in BOOLEAN  BY <2>3
  <2>6. size \in Int  BY <2>3
  <2> QED  BY <2>1, <2>2, <2>4, <2>5, <2>6 DEF CacheWork
<1>3. CacheLocked /\ CacheGone  BY DEF CacheLocked, CacheGone, Cache!Idle
<1>4. CacheSummed  BY TotalEmpty DEF CacheSummed, Cache!Idle
<1>5. CacheAlone  BY DEF CacheAlone, Cache!Idle, Cache!Updating, Cache!At
<1> QED  BY <1>1, <1>2, <1>3, <1>4, <1>5 DEF CacheInv

\* Every step of the cache keeps the invariant.
LEMMA CacheNext == ASSUME CacheAssumptions, CacheInv, Cache!Next PROVE CacheInv'
<1>1. ASSUME NEW i \in DOMAIN files, Cache!Ages(i) PROVE CacheInv'
  <2> DEFINE e == [files[i] EXCEPT !.fresh = FALSE]
  <2>1. files' = [files EXCEPT ![i] = e] /\ UNCHANGED <<size, disk, holder, thread, raced>>
    BY <1>1 DEF Cache!Ages
  <2>2. i \in 1..Len(files) /\ files[i] \in Cache!Entry
    BY DEF CacheInv, CacheFiles, Entries
  <2>3. e \in Cache!Entry /\ e.key = files[i].key /\ e.size = files[i].size
    BY <2>2 DEF Cache!Entry
  <2> HIDE DEF e
  <2>4. /\ Entries([files EXCEPT ![i] = e])
        /\ Cache!Total([files EXCEPT ![i] = e]) = Cache!Total(files) + e.size - files[i].size
        /\ \A x : HasKey([files EXCEPT ![i] = e], x) <=> HasKey(files, x)
    BY <2>2, <2>3, ExceptIs DEF CacheInv
  <2>5. Cache!Total(files) \in Int /\ e.size \in Int
    BY <2>3, TotalInt, EntryParts DEF CacheInv
  <2>6. Cache!Total(files') = Cache!Total(files)  BY <2>1, <2>3, <2>4, <2>5
  <2>7. CacheAlone' /\ CacheSummed' /\ CacheFound'
    BY <2>1, <2>4, <2>6, CacheSameTotal
  <2>8. CacheFiles'  BY <2>1, <2>4 DEF CacheFiles
  <2> QED  BY <2>1, <2>7, <2>8, CacheFrame DEF CacheInv
<1>2. ASSUME NEW k \in Key, Cache!Vanishes(k) PROVE CacheInv'
  <2>1. disk' = [disk EXCEPT ![k] = 0] /\ UNCHANGED <<files, size, holder, thread, raced>>
    BY <1>2 DEF Cache!Vanishes
  <2>2. disk' \in [Key -> 0..MaxPiece]
        /\ \A x \in Key : (disk'[x] > 0 => disk[x] > 0) /\ (disk[x] = 0 => disk'[x] = 0)
    BY <2>1, DiskLess DEF CacheInv
  <2>3. CacheWork'  BY <2>1, <2>2 DEF CacheInv, CacheWork
  <2>4. \A t \in Thread : thread[t].at \in {"forget", "taking"} => thread[t].key \in Key
    BY DoingIs DEF CacheInv
  <2>5. CacheGone'  BY <2>1, <2>2, <2>4 DEF CacheInv, CacheGone
  <2>6. CacheFound'
    BY <2>1, <2>2 DEF CacheInv, CacheFound, Cache!Recording, Cache!At
  <2> QED  BY <2>1, <2>3, <2>5, <2>6, CacheFrame DEF CacheInv
<1> QED
  BY <1>1, <1>2, CacheTouch, CacheHas, CacheEmptyCopies, CacheStartPut, CacheRemoveFile,
     CacheReplace, CacheFails, CacheLoads, CacheAdds, CachePops, CacheTakes,
     CacheEmptyExpires, CacheEmptyDeletes, CacheRestart
  DEF Cache!Next

\* So does a step of another part.
LEMMA CacheStutter == CacheInv /\ UNCHANGED ofCache => CacheInv'
  BY CacheFrame DEF CacheInv, ofCache

\* A step of the whole is one of the cache, or leaves it alone.
LEMMA CacheStep == [KeptNext]_allVars => Cache!Next \/ UNCHANGED ofCache
  BY DEF KeptNext, allVars, server

\* The invariant holds throughout.
LEMMA CacheHolds == CacheAssumptions => (KeptSpec => []CacheInv)
<1> SUFFICES ASSUME CacheAssumptions PROVE KeptSpec => []CacheInv  OBVIOUS
<1>1. KeptInit => CacheInv  BY CacheInit DEF KeptInit
<1>2. CacheInv /\ [KeptNext]_allVars => CacheInv'  BY CacheNext, CacheStutter, CacheStep
<1> QED  BY <1>1, <1>2, PTL DEF KeptSpec

\* It gives the types.
LEMMA CacheTyped == CacheInv => Cache!TypeOK
  BY DEF CacheInv, CacheFiles, CacheWork, CacheLocked, Entries, Distinct, Cache!TypeOK,
         Cache!IsInjective, Cache!At

\* It gives the accounts.
LEMMA CacheAccounts == CacheInv => Accounted
  BY KnownIs DEF CacheInv, CacheSummed, CacheFound, Accounted, Cache!Accounted, Cache!OnDisk,
                 Cache!At

\* cache.py: the size of the cache is the sum of its entries, but for one on its
\* way out, and every file on the disk has an entry or is getting one, whatever
\* its threads do, until two of them come across each other without the lock.
THEOREM CacheAccounted == ASSUME CacheAssumptions PROVE KeptSpec => []Accounted
  BY CacheHolds, CacheAccounts, PTL

-----------------------------------------------------------------------------
(* The saved session.  The tick names the playing track, and the window     *)
(* that is saved holds it whenever the tick is the older of the two.        *)

SessionAssumptions ==
    MaxQueue \in Nat /\ SessionCap \in Nat \ {0} /\ TightCap \in Nat \ {0}

Queued(q) == q \in Seq(Track) /\ Len(q) <= MaxQueue

SessLive == Queued(list) /\ place \in 0..Len(list) /\ plays \in BOOLEAN
SessSaved == Queued(saved.queue) /\ saved.index \in 0..Len(saved.queue)
SessTick == offset \in 0..MaxQueue /\ tick.i \in -MaxQueue..MaxQueue
SessFlags == fresh \in BOOLEAN /\ saving \in BOOLEAN

\* The tick names the playing track, and when it is the older key the saved
\* place holds it.
SessAgrees ==
    /\ tick.id = Session!Current
    /\ ~fresh => Session!At(saved.queue, saved.index) = Session!Current

SessionInv == SessLive /\ SessSaved /\ SessTick /\ SessFlags /\ SessAgrees

\* The instance counts as this module does.
LEMMA SessionCount == \A S : Session!Cardinality(S) = Cardinality(S)
  BY DEF Cardinality, Session!Cardinality, IsFiniteSet, Session!IsFiniteSet

\* A function on the first m numbers is a sequence of m members.
LEMMA ListIs ==
    ASSUME NEW S, NEW m \in Nat, NEW q \in [1..m -> S]
    PROVE  q \in Seq(S) /\ Len(q) = m
  OBVIOUS

\* The bounded lists of tracks.
LEMMA QueuedIs ==
    ASSUME SessionAssumptions, NEW q PROVE q \in Session!Queues <=> Queued(q)
<1>0. MaxQueue \in Nat  BY DEF SessionAssumptions
<1>1. ASSUME q \in Session!Queues PROVE Queued(q)
  <2>1. PICK m : m \in 0..MaxQueue /\ q \in [1..m -> Track]
    BY <1>1 DEF Session!Queues
  <2>2. m \in Nat /\ m <= MaxQueue  BY <1>0, <2>1
  <2>3. q \in Seq(Track) /\ Len(q) = m  BY <2>1, <2>2, ListIs
  <2> QED  BY <2>2, <2>3 DEF Queued
<1>2. ASSUME Queued(q) PROVE q \in Session!Queues
  <2>1. Len(q) \in 0..MaxQueue /\ q \in [1..Len(q) -> Track]  BY <1>0, <1>2 DEF Queued
  <2> QED  BY <2>1 DEF Session!Queues
<1> QED  BY <1>1, <1>2

\* The lesser and the greater of two numbers.
LEMMA Lesser ==
    ASSUME NEW a \in Int, NEW b \in Int
    PROVE  /\ Session!Min({a, b}) = IF a <= b THEN a ELSE b
           /\ Session!Max({a, b}) = IF a <= b THEN b ELSE a
<1>1. Session!Min({a, b}) = IF a <= b THEN a ELSE b
  <2> DEFINE P(x) == x \in {a, b} /\ \A y \in {a, b} : x <= y
             m == IF a <= b THEN a ELSE b
  <2>1. P(m) /\ \A x : P(x) => x = m  OBVIOUS
  <2>2. P(CHOOSE x : P(x))
    <3> HIDE DEF P, m
    <3> QED  BY <2>1
  <2>3. Session!Min({a, b}) = CHOOSE x : P(x)  BY DEF Session!Min
  <2> QED  BY <2>1, <2>2, <2>3
<1>2. Session!Max({a, b}) = IF a <= b THEN b ELSE a
  <2> DEFINE P(x) == x \in {a, b} /\ \A y \in {a, b} : x >= y
             m == IF a <= b THEN b ELSE a
  <2>1. P(m) /\ \A x : P(x) => x = m  OBVIOUS
  <2>2. P(CHOOSE x : P(x))
    <3> HIDE DEF P, m
    <3> QED  BY <2>1
  <2>3. Session!Max({a, b}) = CHOOSE x : P(x)  BY DEF Session!Max
  <2> QED  BY <2>1, <2>2, <2>3
<1> QED  BY <1>1, <1>2

\* The window that is saved lies in the queue and holds the playing track.
LEMMA Window ==
    ASSUME SessionAssumptions, SessLive, NEW cap \in Nat \ {0}
    PROVE  LET first == Session!Start(cap)
               shot == Session!Snapshot(cap)
           IN /\ first \in 0..MaxQueue
              /\ Queued(shot.queue) /\ shot.index \in 0..Len(shot.queue)
              /\ Session!At(shot.queue, shot.index) = Session!Current
<1> DEFINE first == Session!Start(cap)
           last == Session!Min({first + cap, Len(list)})
           q == SubSeq(list, first + 1, last)
<1>0. Len(list) \in Nat /\ Len(list) <= MaxQueue /\ list \in Seq(Track) /\ place \in 0..Len(list)
  BY DEF SessLive, Queued
<1>1. /\ first \in 0..Len(list) /\ first <= place /\ place - first <= cap
      /\ place > 0 => first < place
      /\ first + cap <= Len(list) \/ first = 0
  <2>1. CASE Len(list) <= cap  BY <1>0, <2>1 DEF Session!Start
  <2>2. CASE Len(list) > cap
    <3> DEFINE half == cap \div 2   early == Session!Max({0, place - 1 - half})
    <3>1. (half \in 0..cap /\ half + 1 <= cap) \/ half = 0  OBVIOUS
    <3>2. half \in Nat /\ (half <= cap - 1 \/ (half = 0 /\ cap = 1))  OBVIOUS
    <3>3. early = IF 0 <= place - 1 - half THEN place - 1 - half ELSE 0
      <4> DEFINE b == place - 1 - half
      <4>1. b \in Int  BY <1>0, <3>2
      <4> HIDE DEF b
      <4>2. Session!Max({0, b}) = IF 0 <= b THEN b ELSE 0  BY <4>1, Lesser
      <4> QED  BY <4>2 DEF b
    <3> HIDE DEF half
    <3>4. first = IF early <= Len(list) - cap THEN early ELSE Len(list) - cap
      <4>1. first = Session!Min({early, Len(list) - cap})  BY <2>2 DEF Session!Start, half
      <4>2. early \in Int /\ Len(list) - cap \in Int  BY <1>0, <3>2, <3>3
      <4> HIDE DEF early, first
      <4> QED  BY <4>1, <4>2, Lesser
    <3> HIDE DEF early, first
    <3> QED  BY <1>0, <2>2, <3>1, <3>2, <3>3, <3>4
  <2> HIDE DEF first
  <2> QED  BY <1>0, <2>1, <2>2
<1> HIDE DEF first
<1>2. last = (IF first + cap <= Len(list) THEN first + cap ELSE Len(list))
  <2>1. first + cap \in Int /\ Len(list) \in Int  BY <1>0, <1>1
  <2> QED  BY <2>1, Lesser
<1> HIDE DEF last
<1>3. last \in 0..Len(list) /\ first <= last /\ place <= last  BY <1>0, <1>1, <1>2
<1>4. q \in Seq(Track) /\ Len(q) = last - first
      /\ \A n \in 1..(last - first) : q[n] = list[first + n]
  <2>1. \A j \in (first + 1)..last : list[j] \in Track  BY <1>0, <1>1, <1>3
  <2>2. /\ q \in Seq(Track) /\ Len(q) = IF first + 1 <= last THEN last - (first + 1) + 1 ELSE 0
        /\ \A n \in 1..(last - (first + 1) + 1) : q[n] = list[first + 1 + n - 1]
    BY <1>0, <1>1, <1>3, <2>1, SubSeqProperties
  <2> HIDE DEF q
  <2>3. ASSUME NEW n \in 1..(last - first) PROVE q[n] = list[first + n]
    <3>1. n \in 1..(last - (first + 1) + 1) /\ first + 1 + n - 1 = first + n
      BY <1>0, <1>1, <1>3
    <3> QED  BY <2>2, <3>1
  <2> QED  BY <1>0, <1>1, <1>3, <2>2, <2>3
<1>5. /\ Session!Snapshot(cap).queue = q
      /\ Session!Snapshot(cap).index = place - first
  BY DEF Session!Snapshot, first, last
<1> HIDE DEF q
<1>6. place - first \in 0..Len(q)  BY <1>0, <1>1, <1>3, <1>4
<1>7. Session!At(q, place - first) = Session!Current
  <2>0. DOMAIN q = 1..Len(q) /\ DOMAIN list = 1..Len(list)  BY <1>0, <1>4
  <2>1. CASE place = 0
    <3>1. first = 0  BY <1>1, <2>1
    <3> QED  BY <2>0, <2>1, <3>1 DEF Session!At, Session!Current
  <2>2. CASE place > 0
    <3>1. place - first \in 1..(last - first) /\ first + (place - first) = place
      BY <1>0, <1>1, <1>3, <2>2
    <3>2. q[place - first] = list[place]  BY <1>4, <3>1
    <3>3. place \in DOMAIN list /\ place - first \in DOMAIN q  BY <1>0, <1>4, <2>0, <2>2, <3>1
    <3> QED  BY <3>2, <3>3 DEF Session!At, Session!Current
  <2> QED  BY <1>0, <2>1, <2>2
<1>8. first \in 0..MaxQueue /\ Queued(q)  BY <1>0, <1>1, <1>3, <1>4 DEF Queued, SessionAssumptions
<1> QED  BY <1>5, <1>6, <1>7, <1>8 DEF first

\* A step that leaves the list and the saved window as they are.
LEMMA SessFrame ==
    /\ SessLive /\ UNCHANGED <<list, place, plays>> => SessLive'
    /\ SessSaved /\ UNCHANGED saved => SessSaved'
    /\ SessTick /\ UNCHANGED <<offset, tick>> => SessTick'
    /\ SessFlags /\ UNCHANGED <<fresh, saving>> => SessFlags'
    /\ SessAgrees /\ UNCHANGED <<list, place, tick, fresh, saved>> => SessAgrees'
  BY DEF SessLive, SessSaved, SessTick, SessFlags, SessAgrees, Queued, Session!Current, Session!At

\* The list or the place changes.
LEMMA SessUpdate ==
    ASSUME SessionAssumptions, SessionInv, NEW q \in Session!Queues, NEW i \in 0..Len(q),
           NEW on \in BOOLEAN, Session!Update(q, i, on)
    PROVE  SessionInv'
<1> USE DEF SessionInv
<1>1. Queued(q) /\ Len(q) \in Nat  BY QueuedIs DEF Queued
<1>2. list' = q /\ place' = i /\ plays' = on /\ UNCHANGED <<saved, offset>>
  BY DEF Session!Update
<1>3. SessLive'  BY <1>1, <1>2 DEF SessLive
<1>4. saving' \in BOOLEAN
  <2>1. saving' = (saving \/ list' # list)  BY DEF Session!Update
  <2> QED  BY <2>1 DEF SessFlags
<1>5. CASE list' # list \/ place' # place \/ plays' # plays
  <2>1. tick' = [i |-> place' - offset, id |-> Session!At(list', place')] /\ fresh' = TRUE
    BY <1>5 DEF Session!Update, Session!SavePos
  <2>2. tick'.i \in -MaxQueue..MaxQueue
    BY <1>1, <1>2, <2>1 DEF SessTick, SessionAssumptions, Queued
  <2>3. SessAgrees'  BY <2>1 DEF SessAgrees, Session!Current, Session!At
  <2>4. SessTick' /\ SessFlags'  BY <1>2, <1>4, <2>1, <2>2 DEF SessTick, SessFlags
  <2> QED  BY <1>2, <1>3, <2>3, <2>4, SessFrame
<1>6. CASE UNCHANGED <<list, place, plays>>
  <2>1. UNCHANGED <<tick, fresh>>  BY <1>6 DEF Session!Update
  <2>2. SessFlags'  BY <1>4, <2>1 DEF SessFlags
  <2> QED  BY <1>2, <1>6, <2>1, <2>2, SessFrame
<1> QED  BY <1>5, <1>6

\* The tick is written.
LEMMA SessProgress == ASSUME SessionAssumptions, SessionInv, Session!Progress PROVE SessionInv'
<1> USE DEF SessionInv
<1>1. /\ UNCHANGED <<list, place, plays, saved, offset, saving>> /\ fresh' = TRUE
      /\ tick' = [i |-> place' - offset, id |-> Session!At(list', place')]
  BY DEF Session!Progress, Session!SavePos, Session!live
<1>2. tick'.i \in -MaxQueue..MaxQueue
  BY <1>1 DEF SessTick, SessLive, SessionAssumptions, Queued
<1>3. SessTick' /\ SessFlags'  BY <1>1, <1>2 DEF SessTick, SessFlags
<1>4. SessAgrees'  BY <1>1 DEF SessAgrees, Session!Current, Session!At
<1> QED  BY <1>1, <1>3, <1>4, SessFrame

\* A save leaves what a resume can find.
LEMMA SessSaves ==
    ASSUME SessionAssumptions, SessionInv, NEW was \in BOOLEAN, was \/ ~fresh,
           Session!Save(was), UNCHANGED <<list, place, plays>>,
           tick'.id = Session!Current, tick'.i \in -MaxQueue..MaxQueue
    PROVE  SessionInv'
<1> USE DEF SessionInv
<1>1. saving' = FALSE  BY DEF Session!Save
<1>2. UNCHANGED Session!Current  BY DEF Session!Current, Session!At
<1>3. SessLive'  BY SessFrame
<1>4. CASE offset' = Session!Start(TightCap) /\ fresh' = was /\ UNCHANGED saved
  <2>1. offset' \in 0..MaxQueue
    <3>1. TightCap \in Nat \ {0}  BY DEF SessionAssumptions
    <3> QED  BY <1>4, <3>1, Window
  <2>2. SessTick' /\ SessFlags'  BY <1>1, <1>4, <2>1 DEF SessTick, SessFlags
  <2>3. Session!At(saved.queue, saved.index)' = Session!At(saved.queue, saved.index)
    BY <1>4 DEF Session!At
  <2>4. SessAgrees'  BY <1>2, <1>4, <2>3 DEF SessAgrees
  <2> QED  BY <1>3, <1>4, <2>2, <2>4, SessFrame
<1>5. ASSUME NEW cap \in {SessionCap, TightCap}, saved' = Session!Snapshot(cap),
             offset' = Session!Start(cap), fresh' \in {FALSE, was}
      PROVE  SessionInv'
  <2> DEFINE first == Session!Start(cap)
             shot == Session!Snapshot(cap)
  <2>1. cap \in Nat \ {0}  BY DEF SessionAssumptions
  <2>2. /\ first \in 0..MaxQueue
        /\ Queued(shot.queue) /\ shot.index \in 0..Len(shot.queue)
        /\ Session!At(shot.queue, shot.index) = Session!Current
    BY <2>1, Window
  <2> HIDE DEF first, shot
  <2>3. saved' = shot /\ offset' = first  BY <1>5 DEF first, shot
  <2>4. SessSaved'  BY <2>2, <2>3 DEF SessSaved, Queued
  <2>5. SessTick'  BY <2>2, <2>3 DEF SessTick
  <2>6. SessFlags'  BY <1>1, <1>5 DEF SessFlags
  <2>7. Session!At(saved.queue, saved.index)' = Session!At(shot.queue, shot.index)
    BY <2>3 DEF Session!At
  <2>8. SessAgrees'  BY <1>2, <2>2, <2>7 DEF SessAgrees
  <2> QED  BY <1>3, <2>4, <2>5, <2>6, <2>8
<1> QED  BY <1>4, <1>5 DEF Session!Save

\* The window is saved when the page has time for it.
LEMMA SessIdleSave == ASSUME SessionAssumptions, SessionInv, Session!IdleSave PROVE SessionInv'
<1>1. fresh \in BOOLEAN /\ tick.id = Session!Current /\ tick.i \in -MaxQueue..MaxQueue
  BY DEF SessionInv, SessFlags, SessAgrees, SessTick
<1>2. Session!Save(fresh) /\ UNCHANGED <<list, place, plays, tick>>
  BY DEF Session!IdleSave, Session!live
<1>3. fresh \/ ~fresh  OBVIOUS
<1> QED  BY <1>1, <1>2, <1>3, SessSaves

\* The page hides, and saves.
LEMMA SessFlush == ASSUME SessionAssumptions, SessionInv, Session!Flush PROVE SessionInv'
<1>1. /\ Session!Save(TRUE) /\ UNCHANGED <<list, place, plays>>
      /\ tick' = [i |-> place - offset, id |-> Session!Current]
  BY DEF Session!Flush, Session!live
<1>2. place - offset \in -MaxQueue..MaxQueue
  BY DEF SessionInv, SessLive, SessTick, Queued, SessionAssumptions
<1>3. tick'.i \in -MaxQueue..MaxQueue /\ tick'.id = Session!Current  BY <1>1, <1>2
<1> QED  BY <1>1, <1>3, SessSaves

\* What a reload resumes at is a place in what was saved, and the place of
\* the playing track if that is saved once.
LEMMA Resumes ==
    ASSUME SessionAssumptions, SessionInv
    PROVE  /\ Session!ResumeAt \in 0..Len(saved.queue)
           /\ /\ Session!Current # NoTrack
              /\ Cardinality({k \in DOMAIN saved.queue : saved.queue[k] = Session!Current}) = 1
              => Session!At(saved.queue, Session!ResumeAt) = Session!Current
<1> DEFINE q == saved.queue
           found == {k \in DOMAIN q : q[k] = tick.id}
           alone == Cardinality(found) = 1
           at == CHOOSE k \in found : TRUE
<1>1. /\ DOMAIN q = 1..Len(q) /\ Len(q) \in Nat /\ saved.index \in 0..Len(q)
      /\ tick.id = Session!Current
      /\ ~fresh => Session!At(q, saved.index) = Session!Current
  BY DEF SessionInv, SessSaved, SessAgrees, Queued
<1>2. alone => at \in found
  <2>1. alone => found # {}  BY FS_EmptySet
  <2> HIDE DEF found, alone
  <2> QED  BY <2>1
<1>3. Session!ResumeAt =
        IF ~fresh THEN saved.index
        ELSE IF tick.id # NoTrack /\ Session!At(q, tick.i) = tick.id THEN tick.i
        ELSE IF alone THEN at
        ELSE IF found = {} /\ q # <<>> /\ tick.i > Len(q) THEN Len(q)
        ELSE saved.index
  <2>1. Session!Cardinality(found) = Cardinality(found)  BY SessionCount
  <2> QED  BY <2>1 DEF Session!ResumeAt
<1>4. /\ tick.id # NoTrack /\ Session!At(q, tick.i) = tick.id => tick.i \in DOMAIN q
      /\ \A k \in found : k \in DOMAIN q /\ Session!At(q, k) = tick.id
  BY DEF Session!At
<1>5. Session!ResumeAt \in 0..Len(q)
  <2> HIDE DEF q, found, alone, at
  <2>1. found \subseteq DOMAIN q  BY DEF found
  <2> QED  BY <1>1, <1>2, <1>3, <1>4, <2>1
<1>6. ASSUME Session!Current # NoTrack, alone
      PROVE  Session!At(q, Session!ResumeAt) = Session!Current
  <2> HIDE DEF q, found, alone, at
  <2> QED  BY <1>1, <1>2, <1>3, <1>4, <1>6
<1> QED  BY <1>1, <1>5, <1>6

\* A page reloads.
LEMMA SessReload == ASSUME SessionAssumptions, SessionInv, Session!Reload PROVE SessionInv'
<1>1. /\ list' = saved.queue /\ place' = Session!ResumeAt /\ plays' = FALSE /\ offset' = 0
      /\ tick' = [i |-> place', id |-> Session!At(list', place')]
      /\ fresh' = TRUE /\ saving' = TRUE /\ UNCHANGED saved
  BY DEF Session!Reload
<1>2. Queued(saved.queue) /\ Session!ResumeAt \in 0..Len(saved.queue)
      /\ Len(saved.queue) \in Nat
  BY Resumes DEF SessionInv, SessSaved, Queued
<1>3. SessLive'  BY <1>1, <1>2 DEF SessLive, Queued
<1>4. SessTick' /\ SessFlags'  BY <1>1, <1>2 DEF SessTick, SessFlags, Queued, SessionAssumptions
<1>5. SessAgrees'  BY <1>1 DEF SessAgrees, Session!Current, Session!At
<1> QED  BY <1>1, <1>3, <1>4, <1>5, SessFrame DEF SessionInv

\* Nothing has played.
LEMMA SessInit == SessionAssumptions /\ Session!Init => SessionInv
<1> SUFFICES ASSUME SessionAssumptions, Session!Init PROVE SessionInv  OBVIOUS
<1> USE DEF Session!Init, SessionAssumptions
<1>1. Queued(<<>>)  BY DEF Queued
<1>2. SessLive /\ SessSaved
  <2>1. list = <<>> /\ saved.queue = <<>> /\ place = 0 /\ saved.index = 0 /\ plays = FALSE
    OBVIOUS
  <2>2. Len(list) = 0 /\ Len(saved.queue) = 0  BY <2>1
  <2> HIDE DEF Session!Init
  <2>3. Queued(list) /\ Queued(saved.queue)  BY <1>1, <2>1
  <2>4. place \in 0..Len(list) /\ saved.index \in 0..Len(saved.queue)  BY <2>1, <2>2
  <2>5. SessLive  BY <2>1, <2>3, <2>4 DEF SessLive
  <2>6. SessSaved  BY <2>3, <2>4 DEF SessSaved
  <2> QED  BY <2>5, <2>6
<1>3. SessTick /\ SessFlags  BY DEF SessTick, SessFlags
<1>4. SessAgrees  BY DEF SessAgrees, Session!Current, Session!At
<1> QED  BY <1>2, <1>3, <1>4 DEF SessionInv

\* Every step of the session keeps the invariant.
LEMMA SessNext == ASSUME SessionAssumptions, SessionInv, Session!Next PROVE SessionInv'
  BY SessUpdate, SessProgress, SessIdleSave, SessFlush, SessReload DEF Session!Next

\* So does a step of another part.
LEMMA SessStutter == SessionInv /\ UNCHANGED ofSession => SessionInv'
  BY SessFrame DEF SessionInv, ofSession

\* A step of the whole is one of the session, or leaves it alone.
LEMMA SessStep == [KeptNext]_allVars => Session!Next \/ UNCHANGED ofSession
  BY DEF KeptNext, allVars, web

\* The invariant holds throughout.
LEMMA SessHolds == SessionAssumptions => (KeptSpec => []SessionInv)
<1> SUFFICES ASSUME SessionAssumptions PROVE KeptSpec => []SessionInv  OBVIOUS
<1>1. KeptInit => SessionInv  BY SessInit DEF KeptInit
<1>2. SessionInv /\ [KeptNext]_allVars => SessionInv'  BY SessNext, SessStutter, SessStep
<1> QED  BY <1>1, <1>2, PTL DEF KeptSpec

\* It gives the types.
LEMMA SessTyped == SessionAssumptions /\ SessionInv => Session!TypeOK
<1> SUFFICES ASSUME SessionAssumptions, SessionInv PROVE Session!TypeOK  OBVIOUS
<1>1. list \in Session!Queues /\ saved.queue \in Session!Queues
  BY QueuedIs DEF SessionInv, SessLive, SessSaved
<1>2. tick.id \in Track \cup {NoTrack}
  BY DEF SessionInv, SessAgrees, SessLive, Queued, Session!Current, Session!At
<1> QED  BY <1>1, <1>2 DEF Session!TypeOK, SessionInv, SessLive, SessSaved, SessTick, SessFlags

\* readSession: a reload resumes on the track that was playing, wherever the page
\* died between its two writes, if the saved window holds it once.
THEOREM SessionResumes == ASSUME SessionAssumptions PROVE KeptSpec => ResumesWhereHeard
<1> DEFINE A == Session!Reload /\ Session!Current # NoTrack
                /\ Session!Cardinality({k \in DOMAIN saved.queue :
                                         saved.queue[k] = Session!Current}) = 1
                => Session!Current' = Session!Current
<1>1. SessionInv => [A]_(Session!vars)
  <2> SUFFICES ASSUME SessionInv, Session!Reload, Session!Current # NoTrack,
                      Session!Cardinality({k \in DOMAIN saved.queue :
                                         saved.queue[k] = Session!Current}) = 1
               PROVE  Session!Current' = Session!Current
    OBVIOUS
  <2>1. Session!At(saved.queue, Session!ResumeAt) = Session!Current  BY Resumes, SessionCount
  <2>2. list' = saved.queue /\ place' = Session!ResumeAt  BY DEF Session!Reload
  <2> QED  BY <2>1, <2>2 DEF Session!Current, Session!At
<1>2. KeptSpec => []SessionInv  BY SessHolds
<1> QED  BY <1>1, <1>2, PTL DEF ResumesWhereHeard, Session!ResumesWhereHeard

-----------------------------------------------------------------------------
(* The queue of the player.  Its types are inductive, and one lemma for     *)
(* each operation says that they are kept and what plays goes on.           *)

QueueAssumptions == MaxQueue \in Nat /\ MaxQueue >= 2 /\ Cap \in Nat

Keyed == Track \cup {NoTrack}
QueueInv == Queue!TypeOK

\* What KeepsPlaying says of a step that is not a reload.
Kept ==
    /\ seq' = seq /\ Queue!Current # NoTrack
    /\ queue' # Queue!RemoveAt(queue, index)
    /\ ~(shuffle /\ ~shuffle' /\ orig # <<>> /\ Queue!Current \notin Queue!ToSet(orig))
    => Queue!Current' = Queue!Current

\* The bounded lists, without the set of all lists.
LEMMA OrderIs == \A q : Queue!Order(q) <=> q \in Seq(Keyed) /\ Len(q) <= MaxQueue
  BY DEF Queue!Order, Keyed

\* The lists a user hands over are bounded.
LEMMA ListsAre ==
    ASSUME NEW l \in Queue!Lists
    PROVE  /\ l \in Seq(Track) /\ l \in Seq(Keyed) /\ Len(l) \in 1..2
           /\ DOMAIN l = 1..Len(l) /\ \A n \in DOMAIN l : l[n] \in Track
<1>1. CASE l \in {<<t>> : t \in Track}
  <2>1. PICK t \in Track : l = <<t>>  BY <1>1
  <2> QED  BY <2>1 DEF Keyed
<1>2. CASE l \in {<<t, u>> : t, u \in Track}
  <2>1. PICK t \in Track, u \in Track : l = <<t, u>>  BY <1>2
  <2> QED  BY <2>1 DEF Keyed
<1> QED  BY <1>1, <1>2 DEF Queue!Lists

\* A shuffle is of the same length, and begins with its track.
LEMMA ShufflesAre ==
    ASSUME NEW S, NEW q \in Seq(S), NEW r \in Queue!Shuffles(q)
    PROVE  r \in Seq(S) /\ Len(r) = Len(q)
<1>1. PICK p \in Queue!Bijection(DOMAIN q, DOMAIN q) : r = [i \in DOMAIN q |-> q[p[i]]]
  BY DEF Queue!Shuffles
<1>2. p \in [DOMAIN q -> DOMAIN q]  BY DEF Queue!Bijection, Queue!Injection
<1>3. DOMAIN q = 1..Len(q) /\ Len(q) \in Nat  OBVIOUS
<1>4. \A i \in 1..Len(q) : q[p[i]] \in S  BY <1>2, <1>3
<1> QED  BY <1>1, <1>3, <1>4

\* The part of a list that has not been heard is a list.
LEMMA UnheardIs ==
    ASSUME NEW l \in Seq(Track), NEW q
    PROVE  Queue!Unheard(l, q) \in Seq(Track)
<1> DEFINE heard == Queue!ToSet(q)
           m == Len(l)
           next(f, n) == IF l[n] \in heard THEN f[n - 1] ELSE Append(f[n - 1], l[n])
           upTo(k) == \E f \in [0..k -> Seq(Track)] :
                        f[0] = <<>> /\ \A n \in 1..k : f[n] = next(f, n)
           S == {k \in Nat : k <= m => upTo(k)}
<1>1. m \in Nat /\ \A n \in 1..m : l[n] \in Track  OBVIOUS
<1> HIDE DEF heard, m
<1>2. 0 \in S
  <2>1. upTo(0)
    <3>1. [n \in 0..0 |-> <<>>] \in [0..0 -> Seq(Track)]  OBVIOUS
    <3>2. \A n \in 1..0 : FALSE  OBVIOUS
    <3> WITNESS [n \in 0..0 |-> <<>>] \in [0..0 -> Seq(Track)]
    <3> QED  BY <3>2
  <2> HIDE DEF upTo
  <2> QED  BY <2>1
<1>3. ASSUME NEW k \in S PROVE k + 1 \in S
  <2> SUFFICES ASSUME k + 1 <= m PROVE upTo(k + 1)
    <3> HIDE DEF upTo
    <3> QED  OBVIOUS
  <2>0. upTo(k)
    <3> HIDE DEF upTo
    <3> QED  BY <1>1
  <2>1. PICK f \in [0..k -> Seq(Track)] : f[0] = <<>> /\ \A n \in 1..k : f[n] = next(f, n)
    BY <2>0
  <2> DEFINE last == IF l[k + 1] \in heard THEN f[k] ELSE Append(f[k], l[k + 1])
             g == [n \in 0..(k + 1) |-> IF n = k + 1 THEN last ELSE f[n]]
  <2>2. last \in Seq(Track)
    <3>1. f[k] \in Seq(Track) /\ l[k + 1] \in Track  BY <1>1, <2>1
    <3> QED  BY <3>1
  <2> HIDE DEF last
  <2>3. g \in [0..(k + 1) -> Seq(Track)]
    <3> SUFFICES ASSUME NEW n \in 0..(k + 1)
                 PROVE  (IF n = k + 1 THEN last ELSE f[n]) \in Seq(Track)
      OBVIOUS
    <3> QED  BY <2>1, <2>2
  <2>4. g[0] = <<>>  BY <2>1
  <2>5. ASSUME NEW n \in 1..(k + 1) PROVE g[n] = next(g, n)
    <3>1. /\ n \in 0..(k + 1) /\ n - 1 \in 0..(k + 1) /\ n - 1 # k + 1
          /\ n # k + 1 => n \in 1..k
      OBVIOUS
    <3>2. g[n - 1] = f[n - 1] /\ g[n] = IF n = k + 1 THEN last ELSE f[n]  BY <3>1
    <3> HIDE DEF g
    <3>3. CASE n = k + 1
      <4>1. n - 1 = k  BY <3>3
      <4> QED  BY <3>2, <3>3, <4>1 DEF last
    <3>4. CASE n # k + 1  BY <2>1, <3>1, <3>2, <3>4
    <3> QED  BY <3>3, <3>4
  <2> QED  BY <2>3, <2>4, <2>5
<1>4. upTo(m)
  <2>1. S = Nat
    <3> HIDE DEF S
    <3>1. S \in SUBSET Nat  BY DEF S
    <3> QED  BY <1>2, <1>3, <3>1, SetInduction
  <2> HIDE DEF upTo
  <2> QED  BY <1>1, <2>1
<1> DEFINE R(f) == f = [n \in 0..m |-> IF n = 0 THEN <<>> ELSE next(f, n)]
           kept == CHOOSE f : R(f)
<1>5. R(kept)
  <2>1. PICK f \in [0..m -> Seq(Track)] : f[0] = <<>> /\ \A n \in 1..m : f[n] = next(f, n)
    BY <1>4
  <2> HIDE DEF next
  <2>2. R(f)
    <3>1. \A n \in 0..m : f[n] = IF n = 0 THEN <<>> ELSE next(f, n)  BY <1>1, <2>1
    <3>2. f = [n \in 0..m |-> f[n]]  OBVIOUS
    <3> QED  BY <3>1, <3>2
  <2> HIDE DEF R
  <2> QED  BY <2>2
<1>6. Queue!Unheard(l, q) = kept[m]  BY DEF Queue!Unheard, heard, m
<1>7. kept[m] \in Seq(Track)
  <2> HIDE DEF kept
  <2> DEFINE T == {k \in Nat : k <= m => kept[k] \in Seq(Track)}
  <2>1. \A n \in 0..m : kept[n] = IF n = 0 THEN <<>> ELSE next(kept, n)  BY <1>5
  <2>2. 0 \in T
    <3>1. 0 \in 0..m  BY <1>1
    <3> HIDE DEF next
    <3>2. kept[0] = <<>>  BY <2>1, <3>1
    <3>3. <<>> \in Seq(Track)  OBVIOUS
    <3>4. kept[0] \in Seq(Track)  BY <3>2, <3>3
    <3> QED  BY <3>4
  <2>3. ASSUME NEW k \in T PROVE k + 1 \in T
    <3> SUFFICES ASSUME k + 1 <= m PROVE kept[k + 1] \in Seq(Track)  OBVIOUS
    <3>1. kept[k + 1] = next(kept, k + 1) /\ (k + 1) - 1 = k /\ kept[k] \in Seq(Track)
      BY <1>1, <2>1
    <3>2. l[k + 1] \in Track  BY <1>1
    <3>3. kept[k + 1] = IF l[k + 1] \in heard THEN kept[k] ELSE Append(kept[k], l[k + 1])
      BY <3>1
    <3> QED  BY <3>1, <3>2, <3>3
  <2>4. T = Nat
    <3> HIDE DEF T
    <3>1. T \in SUBSET Nat  BY DEF T
    <3> QED  BY <2>2, <2>3, <3>1, SetInduction
  <2> QED  BY <1>1, <2>4
<1> QED  BY <1>6, <1>7

QOrders == Queue!Order(queue) /\ Queue!Order(orig) /\ index \in 0..Len(queue)
QPlays == playing \in BOOLEAN /\ (playing => index > 0)
QFlags ==
    /\ seq \in {0, 1} /\ shuffle \in BOOLEAN /\ autoplay \in BOOLEAN
    /\ topup \in BOOLEAN /\ ended \in BOOLEAN

\* The type invariant in parts.
LEMMA QueueParts == QueueInv <=> QOrders /\ QPlays /\ QFlags
  BY DEF QueueInv, Queue!TypeOK, QOrders, QPlays, QFlags

\* And in the next state.
LEMMA QueueParts1 == QueueInv' <=> QOrders' /\ QPlays' /\ QFlags'
  BY DEF QueueInv, Queue!TypeOK, QOrders, QPlays, QFlags, Queue!Order

\* The numbers of a queue.
LEMMA QueueFacts ==
    ASSUME QueueInv
    PROVE  /\ queue \in Seq(Keyed) /\ Len(queue) \in Nat /\ Len(queue) <= MaxQueue
           /\ DOMAIN queue = 1..Len(queue)
           /\ orig \in Seq(Keyed) /\ Len(orig) \in Nat /\ Len(orig) <= MaxQueue
           /\ DOMAIN orig = 1..Len(orig)
           /\ index \in 0..Len(queue) /\ index \in Nat
           /\ seq \in {0, 1} /\ 1 - seq \in {0, 1} /\ 1 - seq # seq
           /\ index > 0 => index \in 1..Len(queue) /\ Queue!Current = queue[index]
           /\ index = 0 => Queue!Current = NoTrack
           /\ Queue!Current \in Keyed
<1> USE DEF QueueInv, Queue!TypeOK
<1>1. queue \in Seq(Keyed) /\ Len(queue) <= MaxQueue /\ orig \in Seq(Keyed) /\ Len(orig) <= MaxQueue
  BY OrderIs
<1>2. DOMAIN queue = 1..Len(queue) /\ DOMAIN orig = 1..Len(orig)
      /\ Len(queue) \in Nat /\ Len(orig) \in Nat
  BY <1>1
<1>3. index \in 0..Len(queue) /\ index \in Nat /\ seq \in {0, 1}  BY <1>2
<1>4. 1 - seq \in {0, 1} /\ 1 - seq # seq  BY <1>3
<1>5. index > 0 => index \in 1..Len(queue) /\ Queue!Current = queue[index]
  BY <1>2, <1>3 DEF Queue!Current, Queue!At
<1>6. index = 0 => Queue!Current = NoTrack  BY <1>2 DEF Queue!Current, Queue!At
<1>7. Queue!Current \in Keyed
  <2>1. NoTrack \in Keyed  BY DEF Keyed
  <2>2. \A i \in 1..Len(queue) : queue[i] \in Keyed  BY <1>1
  <2> QED  BY <1>3, <1>5, <1>6, <2>1, <2>2
<1> QED  BY <1>1, <1>2, <1>3, <1>4, <1>5, <1>6, <1>7

\* The track at the place is the one that was there.
LEMMA KeptIs ==
    ASSUME QueueInv, Queue!Order(queue'),
           index > 0 => index' \in 1..Len(queue') /\ queue'[index'] = queue[index]
    PROVE  Kept
<1> SUFFICES ASSUME Queue!Current # NoTrack PROVE Queue!Current' = Queue!Current  BY DEF Kept
<1>1. index > 0 /\ Queue!Current = queue[index]  BY QueueFacts
<1>2. DOMAIN queue' = 1..Len(queue')
  <2>1. queue' \in Seq(Keyed)  BY OrderIs
  <2> QED  BY <2>1
<1> QED  BY <1>1, <1>2 DEF Queue!Current, Queue!At

\* A deliberate navigation.
LEMMA NavigateIs ==
    ASSUME QueueInv, NEW i \in Int, Queue!Navigate(i)
    PROVE  /\ index' = i /\ playing' = TRUE /\ seq' \in {0, 1}
           /\ Kept
  BY QueueFacts DEF Queue!Navigate, Kept

\* A list is longer by another.
LEMMA LongerIs ==
    ASSUME QueueInv, NEW l \in Seq(Track), Queue!Longer(l)
    PROVE  /\ Queue!Order(queue') /\ Queue!Order(orig')
           /\ Len(queue') = Len(queue) + Len(l) /\ Len(l) \in Nat
           /\ \A k \in 1..Len(queue) : queue'[k] = queue[k]
<1>1. l \in Seq(Keyed) /\ Len(l) \in Nat  BY DEF Keyed
<1>2. /\ queue' \in Seq(Keyed) /\ Len(queue') = Len(queue) + Len(l)
      /\ \A k \in 1..Len(queue) : queue'[k] = queue[k]
  BY <1>1, QueueFacts, Joined DEF Queue!Longer
<1>3. orig' \in Seq(Keyed) /\ Len(orig') <= MaxQueue
  <2>1. CASE orig = <<>>
    <3>1. orig' = orig  BY <2>1 DEF Queue!Longer
    <3> QED  BY <3>1, QueueFacts
  <2>2. CASE orig # <<>>
    <3>1. orig' = orig \o l /\ Len(orig) + Len(l) <= MaxQueue  BY <2>2 DEF Queue!Longer
    <3>2. orig \o l \in Seq(Keyed) /\ Len(orig \o l) = Len(orig) + Len(l)
      BY <1>1, QueueFacts, Joined
    <3> QED  BY <3>1, <3>2
  <2> QED  BY <2>1, <2>2
<1>4. Len(queue') <= MaxQueue  BY <1>2 DEF Queue!Longer
<1> QED  BY <1>1, <1>2, <1>3, <1>4, OrderIs

\* What may begin to play when nothing did.
LEMMA BeginIs ==
    ASSUME QueueInv, Queue!Begin, Len(queue') \in Nat, Len(queue') >= 1,
           Len(queue') >= Len(queue)
    PROVE  /\ index' \in 0..Len(queue') /\ playing' \in BOOLEAN /\ (playing' => index' > 0)
           /\ index > 0 => index' = index
<1>1. index' = (IF index = 0 THEN 1 ELSE index) /\ playing' = (playing \/ index = 0)
  BY DEF Queue!Begin
<1>2. playing' \in BOOLEAN  BY <1>1
<1> QED  BY <1>1, <1>2, QueueFacts

-----------------------------------------------------------------------------
\* A list of the user fits.
LEMMA Fits ==
    ASSUME QueueAssumptions, NEW n \in 1..2 PROVE n <= MaxQueue /\ 1 \in 0..n /\ 1 > 0
<1>1. (n = 1 \/ n = 2) /\ MaxQueue \in Nat /\ MaxQueue >= 2  BY DEF QueueAssumptions
<1> QED  BY <1>1

\* playQueue.
LEMMA QPlayQueue ==
    ASSUME QueueAssumptions, QueueInv, NEW l \in Queue!Lists, NEW i \in DOMAIN l,
           Queue!PlayQueue(l, i)
    PROVE  QueueInv' /\ Kept
<1>1. autoplay' = TRUE /\ UNCHANGED <<shuffle, topup, ended>>
  BY DEF Queue!PlayQueue, Queue!asked
<1>2. /\ l \in Seq(Keyed) /\ Len(l) \in 1..2 /\ Len(l) \in Nat /\ i \in 1..Len(l) /\ i \in Int
      /\ l[i] \in Keyed
  BY ListsAre DEF Keyed
<1>3. CASE shuffle
  <2>1. /\ orig' = l /\ Queue!Navigate(1)
        /\ \E rest \in Queue!Shuffles(Queue!RemoveAt(l, i)) : queue' = <<l[i]>> \o rest
    BY <1>3 DEF Queue!PlayQueue
  <2>2. PICK rest \in Queue!Shuffles(Queue!RemoveAt(l, i)) : queue' = <<l[i]>> \o rest  BY <2>1
  <2>3. Queue!RemoveAt(l, i) \in Seq(Keyed) /\ Len(Queue!RemoveAt(l, i)) = Len(l) - 1
    BY <1>2, CutOne
  <2>4. rest \in Seq(Keyed) /\ Len(rest) = Len(l) - 1  BY <2>3, ShufflesAre
  <2>5. <<l[i]>> \in Seq(Keyed) /\ Len(<<l[i]>>) = 1  BY <1>2
  <2>6. queue' \in Seq(Keyed) /\ Len(queue') = Len(l)
    <3>1. /\ <<l[i]>> \o rest \in Seq(Keyed)
          /\ Len(<<l[i]>> \o rest) = Len(<<l[i]>>) + Len(rest)
      BY <2>4, <2>5, Joined
    <3> QED  BY <1>2, <2>2, <2>4, <2>5, <3>1
  <2>7. index' = 1 /\ playing' = TRUE /\ seq' \in {0, 1} /\ Kept
    <3>1. 1 \in Int  OBVIOUS
    <3> QED  BY <2>1, <3>1, NavigateIs
  <2>8. Len(l) <= MaxQueue /\ 1 \in 0..Len(l) /\ 1 > 0
    <3>1. Len(l) \in 1..2  BY <1>2
    <3> QED  BY <3>1, Fits
  <2>9. Queue!Order(queue') /\ Queue!Order(orig')  BY <1>2, <2>1, <2>6, <2>8, OrderIs
  <2>10. QOrders' /\ QPlays'  BY <2>6, <2>7, <2>8, <2>9 DEF QOrders, QPlays
  <2> QED  BY <1>1, <2>7, <2>10, QueueParts, QueueParts1 DEF QFlags
<1>4. CASE ~shuffle
  <2>1. queue' = l /\ orig' = <<>> /\ Queue!Navigate(i)  BY <1>4 DEF Queue!PlayQueue
  <2>2. index' = i /\ playing' = TRUE /\ seq' \in {0, 1} /\ Kept  BY <1>2, <2>1, NavigateIs
  <2>3. <<>> \in Seq(Keyed) /\ Len(<<>>) = 0  OBVIOUS
  <2>4. Queue!Order(queue') /\ Queue!Order(orig')
    <3>1. Len(l) <= MaxQueue /\ 0 <= MaxQueue  BY <1>2 DEF QueueAssumptions
    <3> QED  BY <1>2, <2>1, <2>3, <3>1, OrderIs
  <2>5. QOrders' /\ QPlays'  BY <1>2, <2>1, <2>2, <2>4 DEF QOrders, QPlays
  <2> QED  BY <1>1, <2>2, <2>5, QueueParts, QueueParts1 DEF QFlags
<1> QED  BY <1>3, <1>4

\* shufflePlay.
LEMMA QShufflePlay ==
    ASSUME QueueAssumptions, QueueInv, NEW l \in Queue!Lists, Queue!ShufflePlay(l)
    PROVE  QueueInv' /\ Kept
<1>1. /\ shuffle' = TRUE /\ autoplay' = TRUE /\ orig' = l /\ queue' \in Queue!Shuffles(l)
      /\ Queue!Navigate(1) /\ UNCHANGED <<topup, ended>>
  BY DEF Queue!ShufflePlay, Queue!asked
<1>2. l \in Seq(Keyed) /\ Len(l) \in 1..2 /\ Len(l) \in Nat  BY ListsAre
<1>3. queue' \in Seq(Keyed) /\ Len(queue') = Len(l)  BY <1>1, <1>2, ShufflesAre
<1>4. index' = 1 /\ playing' = TRUE /\ seq' \in {0, 1} /\ Kept
  <2>1. 1 \in Int  OBVIOUS
  <2> QED  BY <1>1, <2>1, NavigateIs
<1>5. Queue!Order(queue') /\ Queue!Order(orig')
  <2>1. Len(l) <= MaxQueue
    <3>1. Len(l) \in 1..2  BY <1>2
    <3> QED  BY <3>1, Fits
  <2> QED  BY <1>1, <1>2, <1>3, <2>1, OrderIs
<1>6. QOrders' /\ QPlays'  BY <1>2, <1>3, <1>4, <1>5 DEF QOrders, QPlays
<1> QED  BY <1>1, <1>4, <1>6, QueueParts, QueueParts1 DEF QFlags

\* addToQueue.
LEMMA QAddToQueue ==
    ASSUME QueueAssumptions, QueueInv, NEW l \in Queue!Lists, Queue!AddToQueue(l)
    PROVE  QueueInv' /\ Kept
<1>1. Queue!Longer(l) /\ Queue!Begin /\ UNCHANGED <<seq, shuffle, autoplay, topup, ended>>
  BY DEF Queue!AddToQueue, Queue!asked
<1>2. l \in Seq(Track) /\ Len(l) \in 1..2  BY ListsAre
<1>3. /\ Queue!Order(queue') /\ Queue!Order(orig')
      /\ Len(queue') = Len(queue) + Len(l) /\ Len(l) \in Nat
      /\ \A k \in 1..Len(queue) : queue'[k] = queue[k]
  BY <1>1, <1>2, LongerIs
<1>4. Len(queue') \in Nat /\ Len(queue') >= 1 /\ Len(queue') >= Len(queue)
  <2>1. Len(queue) \in Nat  BY QueueFacts
  <2> QED  BY <1>2, <1>3, <2>1
<1>5. /\ index' \in 0..Len(queue') /\ playing' \in BOOLEAN /\ (playing' => index' > 0)
      /\ index > 0 => index' = index
  BY <1>1, <1>4, BeginIs
<1>6. Kept
  <2>1. index > 0 => index' \in 1..Len(queue') /\ queue'[index'] = queue[index]
    BY <1>3, <1>4, <1>5, QueueFacts
  <2> QED  BY <1>3, <2>1, KeptIs
<1>7. QOrders' /\ QPlays'  BY <1>3, <1>5 DEF QOrders, QPlays
<1> QED  BY <1>1, <1>6, <1>7, QueueParts, QueueParts1 DEF QFlags

\* playNext.
LEMMA QPlayNext ==
    ASSUME QueueAssumptions, QueueInv, NEW l \in Queue!Lists, Queue!PlayNext(l)
    PROVE  QueueInv' /\ Kept
<1> DEFINE a == SubSeq(queue, 1, index)   b == SubSeq(queue, index + 1, Len(queue))   al == a \o l
<1>1. /\ Len(queue) + Len(l) <= MaxQueue /\ queue' = al \o b
      /\ Queue!Begin /\ UNCHANGED <<seq, shuffle, orig, autoplay, topup, ended>>
  BY DEF Queue!PlayNext, Queue!asked
<1>2. l \in Seq(Keyed) /\ Len(l) \in 1..2  BY ListsAre
<1>3. a \in Seq(Keyed) /\ Len(a) = index /\ \A k \in 1..index : a[k] = queue[k]
  <2>1. 1 \in 1..(Len(queue) + 1) /\ index \in (1 - 1)..Len(queue)  BY QueueFacts
  <2>2. /\ a \in Seq(Keyed) /\ Len(a) = index - 1 + 1
        /\ \A k \in 1..(index - 1 + 1) : a[k] = queue[1 + k - 1]
    BY <2>1, PartOf, QueueFacts
  <2> HIDE DEF a
  <2> QED  BY <2>2, QueueFacts
<1>4. b \in Seq(Keyed) /\ Len(b) = Len(queue) - index
  <2>1. index + 1 \in 1..(Len(queue) + 1) /\ Len(queue) \in (index + 1 - 1)..Len(queue)
    BY QueueFacts
  <2>2. b \in Seq(Keyed) /\ Len(b) = Len(queue) - (index + 1) + 1  BY <2>1, PartOf, QueueFacts
  <2> HIDE DEF b
  <2> QED  BY <2>2, QueueFacts
<1> HIDE DEF a, b
<1>5. al \in Seq(Keyed) /\ Len(al) = Len(a) + Len(l) /\ \A k \in 1..Len(a) : al[k] = a[k]
  BY <1>2, <1>3, Joined
<1> HIDE DEF al
<1>6. /\ queue' \in Seq(Keyed) /\ Len(queue') = Len(al) + Len(b)
      /\ \A k \in 1..Len(al) : queue'[k] = al[k]
  BY <1>1, <1>4, <1>5, Joined
<1>7. Len(queue') = Len(queue) + Len(l)  BY <1>2, <1>3, <1>4, <1>5, <1>6, QueueFacts
<1>8. Len(queue') \in Nat /\ Len(queue') >= 1 /\ Len(queue') >= Len(queue)
  <2>1. Len(queue) \in Nat  BY QueueFacts
  <2> QED  BY <1>2, <1>7, <2>1
<1>9. /\ index' \in 0..Len(queue') /\ playing' \in BOOLEAN /\ (playing' => index' > 0)
      /\ index > 0 => index' = index
  BY <1>1, <1>8, BeginIs
<1>10. Queue!Order(queue') /\ Queue!Order(orig')
  BY <1>1, <1>6, <1>7, QueueFacts, OrderIs
<1>11. Kept
  <2>1. index > 0 => index' \in 1..Len(queue') /\ queue'[index'] = queue[index]
    <3> SUFFICES ASSUME index > 0
                 PROVE  index' \in 1..Len(queue') /\ queue'[index'] = queue[index]
      OBVIOUS
    <3>1. index \in 1..Len(a) /\ index \in 1..Len(al) /\ index \in 1..index
      BY <1>2, <1>3, <1>5, QueueFacts
    <3>2. queue'[index] = queue[index]  BY <1>3, <1>5, <1>6, <3>1
    <3> QED  BY <1>8, <1>9, <3>2, QueueFacts
  <2> QED  BY <1>10, <2>1, KeptIs
<1>12. QOrders' /\ QPlays'  BY <1>9, <1>10 DEF QOrders, QPlays
<1> QED  BY <1>1, <1>11, <1>12, QueueParts, QueueParts1 DEF QFlags

\* The lesser of two numbers.
LEMMA QueueMin ==
    ASSUME NEW a \in Int, NEW b \in Int
    PROVE  Queue!Min({a, b}) = IF a <= b THEN a ELSE b
<1> DEFINE P(x) == x \in {a, b} /\ \A y \in {a, b} : x <= y
           m == IF a <= b THEN a ELSE b
<1>1. P(m) /\ \A x : P(x) => x = m  OBVIOUS
<1>2. P(CHOOSE x : P(x))
  <2> HIDE DEF P, m
  <2> QED  BY <1>1
<1>3. Queue!Min({a, b}) = CHOOSE x : P(x)  BY DEF Queue!Min
<1> QED  BY <1>1, <1>2, <1>3

\* A step that leaves the queue as it is.
LEMMA QSame ==
    ASSUME QueueInv, UNCHANGED <<queue, orig>>, index' \in 0..Len(queue), QPlays', QFlags',
           seq' # seq \/ index' = index
    PROVE  QueueInv' /\ Kept
<1>1. QOrders'  BY QueueParts DEF QOrders
<1>2. Kept
  <2>1. CASE seq' # seq  BY <2>1 DEF Kept
  <2>2. CASE index' = index
    <3>1. Queue!Order(queue')  BY QueueParts DEF QOrders
    <3> QED  BY <2>2, <3>1, QueueFacts, KeptIs
  <2> QED  BY <2>1, <2>2
<1> QED  BY <1>1, <1>2, QueueParts1

\* A step that navigates in a queue it leaves as it is.
LEMMA QGoes ==
    ASSUME QueueInv, UNCHANGED <<queue, orig, shuffle, autoplay, topup>>, ended' \in BOOLEAN,
           NEW i \in Int, i \in 1..Len(queue), Queue!Navigate(i)
    PROVE  QueueInv' /\ Kept
<1>1. index' = i /\ playing' = TRUE /\ seq' \in {0, 1} /\ seq' = 1 - seq
  BY NavigateIs DEF Queue!Navigate
<1>2. index' \in 0..Len(queue) /\ index' > 0 /\ seq' # seq  BY <1>1, QueueFacts
<1>3. QPlays' /\ QFlags'  BY <1>1, <1>2, QueueParts DEF QPlays, QFlags
<1> QED  BY <1>2, <1>3, QSame

\* A step that touches the flags alone.
LEMMA QStays ==
    ASSUME QueueInv, UNCHANGED <<queue, orig, index, shuffle, autoplay>>, seq' \in {0, 1},
           playing' \in BOOLEAN, playing' => index > 0, topup' \in BOOLEAN, ended' \in BOOLEAN
    PROVE  QueueInv' /\ Kept
<1>1. QPlays' /\ QFlags'  BY QueueParts DEF QPlays, QFlags
<1>2. index' \in 0..Len(queue)  BY QueueFacts
<1> QED  BY <1>1, <1>2, QSame

\* remove.
LEMMA QRemoveTrack ==
    ASSUME QueueAssumptions, QueueInv, NEW i \in DOMAIN queue, Queue!RemoveTrack(i)
    PROVE  QueueInv' /\ Kept
<1>1. /\ queue' = Queue!RemoveAt(queue, i)
      /\ index' = (IF queue' = <<>> THEN 0
                  ELSE IF i < index THEN index - 1
                  ELSE IF i = index THEN Queue!Min({index, Len(queue')})
                  ELSE index)
      /\ playing' = (playing /\ queue' # <<>>)
      /\ UNCHANGED <<seq, shuffle, orig, autoplay, topup, ended>>
  BY DEF Queue!RemoveTrack, Queue!asked
<1>2. i \in 1..Len(queue) /\ i \in Nat /\ Len(queue) \in Nat /\ Len(queue) <= MaxQueue
      /\ index \in 0..Len(queue) /\ index \in Nat /\ MaxQueue \in Nat
  BY QueueFacts DEF QueueAssumptions
<1>3. /\ queue' \in Seq(Keyed) /\ Len(queue') = Len(queue) - 1
      /\ \A n \in 1..(Len(queue) - 1) : queue'[n] = IF n < i THEN queue[n] ELSE queue[n + 1]
  <2>1. queue \in Seq(Keyed) /\ i \in 1..Len(queue)  BY <1>2, QueueFacts
  <2> DEFINE t == Queue!RemoveAt(queue, i)
  <2>2. /\ t \in Seq(Keyed) /\ Len(t) = Len(queue) - 1
        /\ \A n \in 1..(Len(queue) - 1) : t[n] = IF n < i THEN queue[n] ELSE queue[n + 1]
    BY <2>1, CutOne
  <2>3. queue' = t  BY <1>1
  <2> HIDE DEF t
  <2> QED  BY <2>2, <2>3
<1>4. queue' = <<>> <=> Len(queue) = 1  BY <1>2, <1>3
<1>5. Queue!Min({index, Len(queue')}) = IF index <= Len(queue') THEN index ELSE Len(queue')
  <2>1. index \in Int /\ Len(queue') \in Int  BY <1>2, <1>3
  <2> QED  BY <2>1, QueueMin
<1>6. Queue!Order(queue') /\ Queue!Order(orig')
  <2>1. Len(queue') <= MaxQueue  BY <1>2, <1>3
  <2> QED  BY <1>1, <1>3, <2>1, QueueParts, OrderIs DEF QOrders
<1>7. index' \in 0..Len(queue') /\ (index > 0 /\ queue' # <<>> => index' > 0)
  BY <1>1, <1>2, <1>3, <1>4, <1>5
<1>8. playing' \in BOOLEAN /\ (playing' => index' > 0)
  <2>1. playing' \in BOOLEAN  BY <1>1
  <2>2. playing' => playing /\ queue' # <<>>  BY <1>1
  <2> QED  BY <1>7, <2>1, <2>2, QueueParts DEF QPlays
<1>9. Kept
  <2> SUFFICES ASSUME queue' # Queue!RemoveAt(queue, index) PROVE Kept  BY DEF Kept
  <2>1. i # index  BY <1>1
  <2>2. index > 0 => index' \in 1..Len(queue') /\ queue'[index'] = queue[index]
    <3> SUFFICES ASSUME index > 0
                 PROVE  index' \in 1..Len(queue') /\ queue'[index'] = queue[index]
      OBVIOUS
    <3>1. Len(queue) > 1  BY <1>2, <2>1
    <3>2a. queue' # <<>>  BY <1>4, <3>1
    <3>2. CASE i < index
      <4>1. index' = index - 1 /\ index - 1 \in 1..(Len(queue) - 1) /\ ~(index - 1 < i)
            /\ index - 1 + 1 = index
        BY <1>1, <1>2, <3>1, <3>2a, <3>2
      <4> QED  BY <1>3, <4>1
    <3>3. CASE i > index
      <4>1. index' = index /\ index \in 1..(Len(queue) - 1) /\ index < i
        BY <1>1, <1>2, <3>1, <3>2a, <3>3
      <4> QED  BY <1>3, <4>1
    <3> QED  BY <1>2, <2>1, <3>2, <3>3
  <2> QED  BY <1>6, <2>2, KeptIs
<1>10. QOrders' /\ QPlays'  BY <1>6, <1>7, <1>8 DEF QOrders, QPlays
<1> QED  BY <1>1, <1>9, <1>10, QueueParts, QueueParts1 DEF QFlags

\* move.
LEMMA QMove ==
    ASSUME QueueAssumptions, QueueInv, NEW from \in DOMAIN queue, NEW to \in DOMAIN queue,
           Queue!Move(from, to)
    PROVE  QueueInv' /\ Kept
<1> DEFINE r == Queue!RemoveAt(queue, from)
           x == queue[from]
<1>1. /\ queue' = Queue!InsertAt(r, to, x)
      /\ index' = (IF from = index THEN to
                  ELSE IF from < index /\ to >= index THEN index - 1
                  ELSE IF from > index /\ to <= index THEN index + 1
                  ELSE index)
      /\ from # to /\ UNCHANGED <<playing, seq, shuffle, orig, autoplay, topup, ended>>
  BY DEF Queue!Move, Queue!asked
<1>2. from \in 1..Len(queue) /\ to \in 1..Len(queue) /\ from \in Nat /\ to \in Nat
      /\ Len(queue) \in Nat /\ Len(queue) <= MaxQueue
      /\ index \in 0..Len(queue) /\ index \in Nat /\ x \in Keyed /\ MaxQueue \in Nat
  BY QueueFacts DEF QueueAssumptions
<1>3. /\ r \in Seq(Keyed) /\ Len(r) = Len(queue) - 1
      /\ \A n \in 1..(Len(queue) - 1) : r[n] = IF n < from THEN queue[n] ELSE queue[n + 1]
  <2>1. queue \in Seq(Keyed) /\ from \in 1..Len(queue)  BY <1>2, QueueFacts
  <2> DEFINE t == Queue!RemoveAt(queue, from)
  <2>2. /\ t \in Seq(Keyed) /\ Len(t) = Len(queue) - 1
        /\ \A n \in 1..(Len(queue) - 1) : t[n] = IF n < from THEN queue[n] ELSE queue[n + 1]
    BY <2>1, CutOne
  <2>3. r = t  OBVIOUS
  <2> HIDE DEF t, r
  <2> QED  BY <2>2, <2>3
<1> HIDE DEF r, x
<1>4. /\ queue' \in Seq(Keyed) /\ Len(queue') = Len(r) + 1 /\ queue'[to] = x
      /\ \A n \in 1..Len(r) : queue'[IF n < to THEN n ELSE n + 1] = r[n]
  <2>1. to \in 1..(Len(r) + 1)  BY <1>2, <1>3
  <2>2. r \in Seq(Keyed) /\ x \in Keyed  BY <1>2, <1>3
  <2> DEFINE t == Queue!InsertAt(r, to, x)
  <2>3. /\ t \in Seq(Keyed) /\ Len(t) = Len(r) + 1 /\ t[to] = x
        /\ \A n \in 1..Len(r) : t[IF n < to THEN n ELSE n + 1] = r[n]
    BY <2>1, <2>2, PutOne
  <2>4. queue' = t  BY <1>1
  <2> HIDE DEF t
  <2> QED  BY <2>3, <2>4
<1>5. Len(queue') = Len(queue)  BY <1>2, <1>3, <1>4
<1>6. Queue!Order(queue') /\ Queue!Order(orig')
  <2>1. Len(queue') <= MaxQueue  BY <1>2, <1>5
  <2> QED  BY <1>1, <1>4, <2>1, QueueParts, OrderIs DEF QOrders
<1>7. index' \in 0..Len(queue') /\ (index > 0 => index' > 0)  BY <1>1, <1>2, <1>5
<1>8. index > 0 => index' \in 1..Len(queue') /\ queue'[index'] = queue[index]
  <2> SUFFICES ASSUME index > 0 PROVE queue'[index'] = queue[index]  BY <1>2, <1>5, <1>7
  <2>1. CASE from = index  BY <1>1, <1>4, <2>1 DEF x
  <2>2. CASE from < index
    <3>1. index - 1 \in 1..Len(r) /\ index - 1 \in 1..(Len(queue) - 1) /\ ~(index - 1 < from)
          /\ index - 1 + 1 = index
      BY <1>2, <1>3, <2>2
    <3>2. r[index - 1] = queue[index]  BY <1>3, <3>1
    <3>3. queue'[IF index - 1 < to THEN index - 1 ELSE index - 1 + 1] = r[index - 1]
      BY <1>4, <3>1
    <3>4. CASE to >= index
      <4>1. index' = index - 1 /\ index - 1 < to  BY <1>1, <1>2, <2>2, <3>4
      <4> QED  BY <3>2, <3>3, <4>1
    <3>5. CASE to < index
      <4>1. index' = index /\ ~(index - 1 < to)  BY <1>1, <1>2, <2>2, <3>5
      <4> QED  BY <3>1, <3>2, <3>3, <4>1
    <3> QED  BY <1>2, <3>4, <3>5
  <2>3. CASE from > index
    <3>1. index \in 1..Len(r) /\ index \in 1..(Len(queue) - 1) /\ index < from
      BY <1>2, <1>3, <2>3
    <3>2. r[index] = queue[index]  BY <1>3, <3>1
    <3>3. queue'[IF index < to THEN index ELSE index + 1] = r[index]  BY <1>4, <3>1
    <3>4. CASE to <= index
      <4>1. index' = index + 1 /\ ~(index < to)  BY <1>1, <1>2, <2>3, <3>4
      <4> QED  BY <3>2, <3>3, <4>1
    <3>5. CASE to > index
      <4>1. index' = index /\ index < to  BY <1>1, <1>2, <2>3, <3>5
      <4> QED  BY <3>2, <3>3, <4>1
    <3> QED  BY <1>2, <3>4, <3>5
  <2> QED  BY <1>2, <2>1, <2>2, <2>3
<1>9. Kept  BY <1>6, <1>8, KeptIs
<1>10. QOrders'  BY <1>6, <1>7 DEF QOrders
<1>11. QPlays'  BY <1>1, <1>7, QueueParts DEF QPlays
<1> QED  BY <1>1, <1>9, <1>10, <1>11, QueueParts, QueueParts1 DEF QFlags

\* The queue up to the playing track.
LEMMA HeardIs ==
    ASSUME QueueInv
    PROVE  LET s == SubSeq(queue, 1, index)
           IN s \in Seq(Keyed) /\ Len(s) = index /\ \A k \in 1..index : s[k] = queue[k]
<1> DEFINE s == SubSeq(queue, 1, index)
<1>1. 1 \in 1..(Len(queue) + 1) /\ index \in (1 - 1)..Len(queue)  BY QueueFacts
<1>2. /\ s \in Seq(Keyed) /\ Len(s) = index - 1 + 1
      /\ \A k \in 1..(index - 1 + 1) : s[k] = queue[1 + k - 1]
  BY <1>1, PartOf, QueueFacts
<1> HIDE DEF s
<1>3. index - 1 + 1 = index /\ \A k \in 1..index : 1 + k - 1 = k  BY QueueFacts
<1>4. \A k \in 1..index : s[k] = queue[k]  BY <1>2, <1>3
<1> QED  BY <1>2, <1>3, <1>4 DEF s

\* clearUpcoming.
LEMMA QClearUpcoming ==
    ASSUME QueueAssumptions, QueueInv, Queue!ClearUpcoming
    PROVE  QueueInv' /\ Kept
<1>1. /\ queue' = SubSeq(queue, 1, index) /\ orig' = <<>> /\ autoplay' = FALSE
      /\ UNCHANGED <<index, playing, seq, shuffle, topup, ended>>
  BY DEF Queue!ClearUpcoming, Queue!asked
<1>2. queue' \in Seq(Keyed) /\ Len(queue') = index /\ \A k \in 1..index : queue'[k] = queue[k]
  BY <1>1, HeardIs
<1>3. index \in Nat /\ index <= MaxQueue  BY QueueFacts DEF QueueAssumptions
<1>4. Queue!Order(queue') /\ Queue!Order(orig')
  <2>1. <<>> \in Seq(Keyed) /\ Len(<<>>) <= MaxQueue  BY DEF QueueAssumptions
  <2> QED  BY <1>1, <1>2, <1>3, <2>1, OrderIs
<1>5. Kept
  <2>1. index > 0 => index' \in 1..Len(queue') /\ queue'[index'] = queue[index]
    BY <1>1, <1>2, <1>3
  <2> QED  BY <1>4, <2>1, KeptIs
<1>6. QOrders'  BY <1>1, <1>2, <1>3, <1>4 DEF QOrders
<1>7. QPlays'  BY <1>1, QueueParts DEF QPlays
<1> QED  BY <1>1, <1>5, <1>6, <1>7, QueueParts, QueueParts1 DEF QFlags

\* replaceUpcoming.
LEMMA QReplaceUpcoming ==
    ASSUME QueueAssumptions, QueueInv, NEW l \in Queue!Lists, Queue!ReplaceUpcoming(l)
    PROVE  QueueInv' /\ Kept
<1> DEFINE s == SubSeq(queue, 1, index)
           more == Queue!Unheard(l, s)
<1>1. /\ index > 0 /\ queue' = s \o more /\ Len(queue') <= MaxQueue
      /\ orig' = (IF orig = <<>> THEN <<>> ELSE queue')
      /\ UNCHANGED <<index, playing, seq, shuffle, autoplay, topup, ended>>
  BY DEF Queue!ReplaceUpcoming, Queue!asked
<1>2. more \in Seq(Keyed)
  <2>1. l \in Seq(Track)  BY ListsAre
  <2>2. more \in Seq(Track)  BY <2>1, UnheardIs
  <2> HIDE DEF more
  <2> QED  BY <2>2 DEF Keyed
<1>3. s \in Seq(Keyed) /\ Len(s) = index /\ \A k \in 1..index : s[k] = queue[k]  BY HeardIs
<1> HIDE DEF s, more
<1>4. /\ queue' \in Seq(Keyed) /\ Len(queue') = Len(s) + Len(more) /\ Len(more) \in Nat
      /\ \A k \in 1..Len(s) : queue'[k] = s[k]
  BY <1>1, <1>2, <1>3, Joined
<1>5. index \in Nat /\ index \in 0..Len(queue') /\ index \in 1..Len(queue') /\ index \in 1..index
  BY <1>1, <1>3, <1>4, QueueFacts
<1>6. Queue!Order(queue') /\ Queue!Order(orig')
  <2>1. <<>> \in Seq(Keyed) /\ Len(<<>>) <= MaxQueue  BY DEF QueueAssumptions
  <2> QED  BY <1>1, <1>4, <2>1, OrderIs
<1>7. Kept
  <2>1. index' \in 1..Len(queue') /\ queue'[index'] = queue[index]  BY <1>1, <1>3, <1>4, <1>5
  <2> QED  BY <1>6, <2>1, KeptIs
<1>8. QOrders'  BY <1>1, <1>5, <1>6 DEF QOrders
<1>9. QPlays'  BY <1>1, QueueParts DEF QPlays
<1> QED  BY <1>1, <1>7, <1>8, <1>9, QueueParts, QueueParts1 DEF QFlags

\* toggleShuffle.
LEMMA QToggleShuffle ==
    ASSUME QueueAssumptions, QueueInv, Queue!ToggleShuffle
    PROVE  QueueInv' /\ Kept
<1>1. /\ shuffle' = ~shuffle /\ shuffle' \in BOOLEAN /\ Len(queue') <= MaxQueue
      /\ UNCHANGED <<playing, seq, autoplay, topup, ended>>
  <2>1. /\ shuffle' = ~shuffle /\ Len(queue') <= MaxQueue
        /\ UNCHANGED <<playing, seq, autoplay, topup, ended>>
    BY DEF Queue!ToggleShuffle, Queue!asked
  <2> QED  BY <2>1
<1>2. QFlags'  BY <1>1, QueueParts DEF QFlags
<1>3. CASE queue = <<>>
  <2>1. UNCHANGED <<queue, orig, index>>  BY <1>3 DEF Queue!ToggleShuffle
  <2>2. index' \in 0..Len(queue) /\ QPlays'
    BY <1>1, <2>1, QueueParts, QueueFacts DEF QPlays
  <2> QED  BY <1>2, <2>1, <2>2, QSame
<1>4. CASE queue # <<>> /\ shuffle'
  <2> DEFINE q == IF index = 0 THEN queue ELSE Queue!RemoveAt(queue, index)
             c == Queue!Current
  <2>1. /\ orig' = queue /\ index' = 1
        /\ \E rest \in Queue!Shuffles(q) : queue' = <<c>> \o rest
    BY <1>4 DEF Queue!ToggleShuffle
  <2>2. q \in Seq(Keyed)
    <3>1. CASE index = 0  BY <3>1, QueueFacts
    <3>2. CASE index # 0
      <4>1. queue \in Seq(Keyed) /\ index \in 1..Len(queue)  BY <3>2, QueueFacts
      <4>2. Queue!RemoveAt(queue, index) \in Seq(Keyed)  BY <4>1, CutOne
      <4> QED  BY <3>2, <4>2
    <3> QED  BY <3>1, <3>2
  <2>3. c \in Keyed  BY QueueFacts
  <2> HIDE DEF q, c
  <2>4. PICK rest \in Queue!Shuffles(q) : queue' = <<c>> \o rest  BY <2>1
  <2>5. rest \in Seq(Keyed)  BY <2>2, ShufflesAre
  <2>6. <<c>> \in Seq(Keyed) /\ Len(<<c>>) = 1 /\ <<c>>[1] = c  BY <2>3
  <2>7. queue' \in Seq(Keyed) /\ Len(queue') \in Nat /\ Len(queue') >= 1 /\ queue'[1] = c
    <3>1. /\ <<c>> \o rest \in Seq(Keyed) /\ Len(<<c>> \o rest) = Len(<<c>>) + Len(rest)
          /\ Len(rest) \in Nat
          /\ \A k \in 1..Len(<<c>>) : (<<c>> \o rest)[k] = <<c>>[k]
      BY <2>5, <2>6, Joined
    <3> DEFINE t == <<c>> \o rest
    <3>2. t[1] = c  BY <2>6, <3>1
    <3>3. t \in Seq(Keyed) /\ Len(t) = 1 + Len(rest)  BY <2>6, <3>1
    <3>4. queue' = t  BY <2>4
    <3> HIDE DEF t
    <3> QED  BY <3>1, <3>2, <3>3, <3>4
  <2>8. Queue!Order(queue') /\ Queue!Order(orig')
    BY <1>1, <2>1, <2>7, QueueParts, OrderIs DEF QOrders
  <2>9. QOrders' /\ QPlays'
    BY <1>1, <2>1, <2>7, <2>8, QueueParts DEF QOrders, QPlays
  <2>10. Kept
    <3>1. index > 0 => index' \in 1..Len(queue') /\ queue'[index'] = queue[index]
      BY <2>1, <2>7, QueueFacts DEF c
    <3> QED  BY <2>8, <3>1, KeptIs
  <2> QED  BY <1>2, <2>9, <2>10, QueueParts1
<1>5. CASE queue # <<>> /\ ~shuffle'
  <2> DEFINE c == Queue!Current
             found == {k \in DOMAIN queue' : queue'[k] = c}
  <2>1. /\ queue' = (IF orig = <<>> THEN queue ELSE orig) /\ orig' = <<>>
        /\ index' \in IF found = {} THEN {1} ELSE found
    BY <1>5 DEF Queue!ToggleShuffle
  <2>2. /\ queue' \in Seq(Keyed) /\ DOMAIN queue' = 1..Len(queue') /\ Len(queue') \in Nat
        /\ Len(queue') >= 1
    <3>1. queue' \in Seq(Keyed) /\ queue' # <<>>  BY <1>5, <2>1, QueueFacts
    <3> QED  BY <3>1
  <2>3. index' \in 1..Len(queue')
    <3>1. found \subseteq 1..Len(queue')  BY <2>2
    <3>2. 1 \in 1..Len(queue')  BY <2>2
    <3> HIDE DEF found
    <3> QED  BY <2>1, <3>1, <3>2
  <2>4. Queue!Order(queue') /\ Queue!Order(orig')
    <3>1. <<>> \in Seq(Keyed) /\ Len(<<>>) <= MaxQueue  BY DEF QueueAssumptions
    <3> QED  BY <1>1, <2>1, <2>2, <3>1, OrderIs
  <2>5. index' \in 0..Len(queue') /\ index' > 0  BY <2>2, <2>3
  <2>6. QOrders' /\ QPlays'
    BY <1>1, <2>4, <2>5, QueueParts DEF QOrders, QPlays
  <2>7. Kept
    <3> SUFFICES ASSUME c # NoTrack, orig = <<>> \/ c \in Queue!ToSet(orig) PROVE Kept
      BY <1>1, <1>5 DEF Kept
    <3>1. index > 0 /\ index \in 1..Len(queue) /\ c = queue[index]  BY QueueFacts
    <3>2. found # {}
      <4>1. CASE orig = <<>>
        <5>1. queue' = queue  BY <2>1, <4>1
        <5> QED  BY <2>2, <3>1, <5>1
      <4>2. CASE orig # <<>> /\ c \in Queue!ToSet(orig)
        <5>1. queue' = orig  BY <2>1, <4>2
        <5>2. PICK k \in DOMAIN orig : c = orig[k]  BY <4>2 DEF Queue!ToSet
        <5> QED  BY <5>1, <5>2
      <4> QED  BY <4>1, <4>2
    <3>3. index' \in found  BY <2>1, <3>2
    <3>4. queue'[index'] = queue[index]  BY <3>1, <3>3
    <3> QED  BY <2>3, <2>4, <3>4, KeptIs
  <2> QED  BY <1>2, <2>6, <2>7, QueueParts1
<1> QED  BY <1>1, <1>3, <1>4, <1>5

\* Tracks at the end, and the place left or moved one on.
LEMMA QLonger ==
    ASSUME QueueInv, NEW l \in Seq(Track), Queue!Longer(l), UNCHANGED <<shuffle, autoplay>>,
           topup' \in BOOLEAN, ended' \in BOOLEAN,
           \/ UNCHANGED <<index, playing, seq>>
           \/ Len(l) >= 1 /\ Queue!Navigate(index + 1)
    PROVE  QueueInv' /\ Kept
<1>1. /\ Queue!Order(queue') /\ Queue!Order(orig')
      /\ Len(queue') = Len(queue) + Len(l) /\ Len(l) \in Nat
      /\ \A k \in 1..Len(queue) : queue'[k] = queue[k]
  BY LongerIs
<1>2. Len(queue) \in Nat /\ index \in Nat /\ index \in 0..Len(queue) /\ index + 1 \in Int
  BY QueueFacts
<1>3. CASE UNCHANGED <<index, playing, seq>>
  <2>1. index' \in 0..Len(queue')  BY <1>1, <1>2, <1>3
  <2>2. index > 0 => index' \in 1..Len(queue') /\ queue'[index'] = queue[index]
    BY <1>1, <1>2, <1>3
  <2>3. Kept  BY <1>1, <2>2, KeptIs
  <2>4. QOrders' /\ QPlays' /\ QFlags'
    BY <1>1, <1>3, <2>1, QueueParts DEF QOrders, QPlays, QFlags
  <2> QED  BY <2>3, <2>4, QueueParts1
<1>4. CASE Len(l) >= 1 /\ Queue!Navigate(index + 1)
  <2>1. index' = index + 1 /\ playing' = TRUE /\ seq' \in {0, 1} /\ Kept
    BY <1>2, <1>4, NavigateIs
  <2>2. index' \in 0..Len(queue') /\ index' > 0  BY <1>1, <1>2, <1>4, <2>1
  <2>3. QOrders' /\ QPlays' /\ QFlags'
    BY <1>1, <2>1, <2>2, QueueParts DEF QOrders, QPlays, QFlags
  <2> QED  BY <2>1, <2>3, QueueParts1
<1> QED  BY <1>3, <1>4

\* jump.
LEMMA QJump ==
    ASSUME QueueAssumptions, QueueInv, NEW i \in DOMAIN queue, Queue!Jump(i)
    PROVE  QueueInv' /\ Kept
<1>1. i \in Int /\ i \in 1..Len(queue)  BY QueueFacts
<1>2. Queue!Navigate(i) /\ UNCHANGED <<queue, orig, shuffle, autoplay, topup>>
      /\ ended' \in BOOLEAN
  BY QueueParts DEF Queue!Jump, Queue!asked, Queue!order, QFlags
<1> QED  BY <1>1, <1>2, QGoes

\* next.
LEMMA QNextTrack ==
    ASSUME QueueAssumptions, QueueInv, Queue!NextTrack
    PROVE  QueueInv' /\ Kept
<1>1. /\ UNCHANGED <<shuffle, autoplay, topup, ended>>
      /\ topup' \in BOOLEAN /\ ended' \in BOOLEAN
  BY QueueParts DEF Queue!NextTrack, Queue!asked, QFlags
<1>2. \/ index < Len(queue) /\ Queue!Navigate(index + 1) /\ UNCHANGED <<queue, orig>>
      \/ queue # <<>> /\ Queue!Navigate(1) /\ UNCHANGED <<queue, orig>>
      \/ \E t \in Track : Queue!Longer(<<t>>) /\ Queue!Navigate(index + 1)
      \/ Queue!Stop /\ UNCHANGED <<queue, orig>>
  BY DEF Queue!NextTrack
<1>3. CASE index < Len(queue) /\ Queue!Navigate(index + 1) /\ UNCHANGED <<queue, orig>>
  <2>1. index + 1 \in Int /\ index + 1 \in 1..Len(queue)  BY <1>3, QueueFacts
  <2> QED  BY <1>1, <1>3, <2>1, QGoes
<1>4. CASE queue # <<>> /\ Queue!Navigate(1) /\ UNCHANGED <<queue, orig>>
  <2>1. 1 \in Int /\ 1 \in 1..Len(queue)
    <3>1. queue \in Seq(Keyed)  BY QueueFacts
    <3> QED  BY <1>4, <3>1
  <2> QED  BY <1>1, <1>4, <2>1, QGoes
<1>5. CASE \E t \in Track : Queue!Longer(<<t>>) /\ Queue!Navigate(index + 1)
  <2>1. PICK t \in Track : Queue!Longer(<<t>>) /\ Queue!Navigate(index + 1)  BY <1>5
  <2>2. <<t>> \in Seq(Track) /\ Len(<<t>>) >= 1  OBVIOUS
  <2> QED  BY <1>1, <2>1, <2>2, QLonger
<1>6. CASE Queue!Stop /\ UNCHANGED <<queue, orig>>
  <2>1. UNCHANGED <<queue, orig, index, shuffle, autoplay>>  BY <1>1, <1>6 DEF Queue!Stop
  <2>2. seq' \in {0, 1} /\ playing' \in BOOLEAN /\ (playing' => index > 0)
    BY <1>6, QueueFacts DEF Queue!Stop
  <2> QED  BY <1>1, <2>1, <2>2, QStays
<1> QED  BY <1>2, <1>3, <1>4, <1>5, <1>6

\* prev.
LEMMA QPrevTrack ==
    ASSUME QueueAssumptions, QueueInv, Queue!PrevTrack
    PROVE  QueueInv' /\ Kept
<1>1. /\ UNCHANGED <<queue, orig, shuffle, autoplay, topup, ended>>
      /\ topup' \in BOOLEAN /\ ended' \in BOOLEAN
  BY QueueParts DEF Queue!PrevTrack, Queue!asked, Queue!order, QFlags
<1>2. \/ seq' = 1 - seq /\ UNCHANGED <<index, playing>>
      \/ index > 1 /\ Queue!Navigate(index - 1)
  BY DEF Queue!PrevTrack
<1>3. CASE seq' = 1 - seq /\ UNCHANGED <<index, playing>>
  <2>1. seq' \in {0, 1} /\ playing' \in BOOLEAN /\ (playing' => index > 0)
    BY <1>3, QueueParts, QueueFacts DEF QPlays
  <2> QED  BY <1>1, <1>3, <2>1, QStays
<1>4. CASE index > 1 /\ Queue!Navigate(index - 1)
  <2>1. index - 1 \in Int /\ index - 1 \in 1..Len(queue)  BY <1>4, QueueFacts
  <2> QED  BY <1>1, <1>4, <2>1, QGoes
<1> QED  BY <1>2, <1>3, <1>4

\* setPlaying.
LEMMA QSetPlaying ==
    ASSUME QueueAssumptions, QueueInv, NEW on \in BOOLEAN, Queue!SetPlaying(on)
    PROVE  QueueInv' /\ Kept
<1>1. /\ UNCHANGED <<queue, index, seq, orig, shuffle, autoplay, topup, ended>>
      /\ (on => index > 0) /\ playing' = on
  BY DEF Queue!SetPlaying, Queue!asked, Queue!order
<1>2. seq' \in {0, 1} /\ topup' \in BOOLEAN /\ ended' \in BOOLEAN
  BY <1>1, QueueParts DEF QFlags
<1>3. playing' \in BOOLEAN /\ (playing' => index > 0)  BY <1>1
<1> QED  BY <1>1, <1>2, <1>3, QStays

\* advancePaused.
LEMMA QAdvancePaused ==
    ASSUME QueueAssumptions, QueueInv, Queue!AdvancePaused
    PROVE  QueueInv' /\ Kept
<1>1. /\ UNCHANGED <<queue, orig, shuffle, autoplay, topup, ended>> /\ playing' = FALSE
      /\ \/ index < Len(queue) /\ index' = index + 1 /\ seq' = 1 - seq
         \/ UNCHANGED <<index, seq>>
  BY DEF Queue!AdvancePaused, Queue!asked, Queue!order
<1>2. seq' \in {0, 1} /\ index' \in 0..Len(queue) /\ (seq' # seq \/ index' = index)
  BY <1>1, QueueFacts
<1>3. QPlays' /\ QFlags'  BY <1>1, <1>2, QueueParts DEF QPlays, QFlags
<1> QED  BY <1>1, <1>2, <1>3, QSame

\* The track ends, and the queue goes on.
LEMMA QEnded ==
    ASSUME QueueAssumptions, QueueInv, Queue!Ended
    PROVE  QueueInv' /\ Kept
<1>1. UNCHANGED <<queue, orig, shuffle, autoplay, topup>> /\ playing
      /\ topup' \in BOOLEAN
  BY QueueParts DEF Queue!Ended, Queue!order, QFlags
<1>2. \/ index < Len(queue) /\ Queue!Navigate(index + 1) /\ UNCHANGED ended
      \/ Queue!Navigate(1) /\ UNCHANGED ended
      \/ ended' = TRUE /\ UNCHANGED <<index, playing, seq>>
      \/ Queue!Stop /\ UNCHANGED ended
  BY DEF Queue!Ended
<1>3. ended' \in BOOLEAN
  <2>1. ended' = ended \/ ended' = TRUE  BY <1>2
  <2>2. ended \in BOOLEAN  BY QueueParts DEF QFlags
  <2> QED  BY <2>1, <2>2
<1>4. CASE index < Len(queue) /\ Queue!Navigate(index + 1)
  <2>1. index + 1 \in Int /\ index + 1 \in 1..Len(queue)  BY <1>4, QueueFacts
  <2> QED  BY <1>1, <1>3, <1>4, <2>1, QGoes
<1>5. CASE Queue!Navigate(1)
  <2>1. 1 \in Int /\ 1 \in 1..Len(queue)
    <3>1. index > 0  BY <1>1, QueueParts DEF QPlays
    <3> QED  BY <3>1, QueueFacts
  <2> QED  BY <1>1, <1>3, <1>5, <2>1, QGoes
<1>6. CASE UNCHANGED <<index, playing, seq>>
  <2>1. seq' \in {0, 1} /\ playing' \in BOOLEAN /\ (playing' => index > 0)
    BY <1>6, QueueParts, QueueFacts DEF QPlays
  <2> QED  BY <1>1, <1>3, <1>6, <2>1, QStays
<1>7. CASE Queue!Stop
  <2>1. UNCHANGED index /\ seq' \in {0, 1} /\ playing' \in BOOLEAN /\ (playing' => index > 0)
    BY <1>7, QueueFacts DEF Queue!Stop
  <2> QED  BY <1>1, <1>3, <2>1, QStays
<1> QED  BY <1>2, <1>4, <1>5, <1>6, <1>7

\* The queue ends, and the radio finds more.
LEMMA QEndedMore ==
    ASSUME QueueAssumptions, QueueInv, NEW l \in Queue!Lists, Queue!EndedMore(l)
    PROVE  QueueInv' /\ Kept
<1>1. /\ Queue!Longer(l) /\ Queue!Navigate(index + 1) /\ ended' \in BOOLEAN
      /\ UNCHANGED <<shuffle, autoplay, topup>> /\ topup' \in BOOLEAN
  BY QueueParts DEF Queue!EndedMore, QFlags
<1>2. l \in Seq(Track) /\ Len(l) >= 1
  <2>1. l \in Seq(Track) /\ Len(l) \in 1..2  BY ListsAre
  <2>2. \A n \in 1..2 : n >= 1  OBVIOUS
  <2> QED  BY <2>1, <2>2
<1> QED  BY <1>1, <1>2, QLonger

\* The queue ends, and there is no more.
LEMMA QEndedNothing ==
    ASSUME QueueAssumptions, QueueInv, Queue!EndedNothing
    PROVE  QueueInv' /\ Kept
<1>1. /\ UNCHANGED <<queue, orig, index, shuffle, autoplay, topup>> /\ ended' \in BOOLEAN
      /\ playing' = FALSE /\ topup' \in BOOLEAN /\ seq' \in {0, 1}
  BY QueueParts DEF Queue!EndedNothing, Queue!Stop, Queue!order, QFlags
<1>2. playing' \in BOOLEAN /\ (playing' => index > 0)  BY <1>1
<1> QED  BY <1>1, <1>2, QStays

\* The radio is asked for more.
LEMMA QAskTopUp ==
    ASSUME QueueAssumptions, QueueInv, Queue!AskTopUp \/ Queue!TopUpFails
    PROVE  QueueInv' /\ Kept
<1>1. /\ UNCHANGED <<queue, orig, index, playing, seq, shuffle, autoplay, ended>>
      /\ topup' \in BOOLEAN
  BY DEF Queue!AskTopUp, Queue!TopUpFails, Queue!store
<1>2. playing' \in BOOLEAN /\ (playing' => index > 0) /\ seq' \in {0, 1} /\ ended' \in BOOLEAN
  BY <1>1, QueueParts DEF QPlays, QFlags
<1> QED  BY <1>1, <1>2, QStays

\* It has answered.
LEMMA QTopUp ==
    ASSUME QueueAssumptions, QueueInv, NEW l \in Queue!Lists, Queue!TopUp(l)
    PROVE  QueueInv' /\ Kept
<1> DEFINE add == Queue!Unheard(l, queue)
<1>1. /\ UNCHANGED <<index, playing, seq, shuffle, autoplay, ended>>
      /\ topup' \in BOOLEAN /\ ended' \in BOOLEAN
      /\ IF add = <<>> THEN UNCHANGED <<queue, orig>> ELSE Queue!Longer(add)
  BY QueueParts DEF Queue!TopUp, QFlags
<1>2. add \in Seq(Track)
  <2>1. l \in Seq(Track)  BY ListsAre
  <2> QED  BY <2>1, UnheardIs
<1> HIDE DEF add
<1>3. CASE add = <<>>
  <2>1. UNCHANGED <<queue, orig>>  BY <1>1, <1>3
  <2>2. playing' \in BOOLEAN /\ (playing' => index > 0) /\ seq' \in {0, 1}
    BY <1>1, QueueParts DEF QPlays, QFlags
  <2> QED  BY <1>1, <2>1, <2>2, QStays
<1>4. CASE add # <<>>
  <2>1. Queue!Longer(add)  BY <1>1, <1>4
  <2> QED  BY <1>1, <1>2, <2>1, QLonger
<1> QED  BY <1>3, <1>4

\* A reload may change what plays, and keeps the queue well formed.
LEMMA QReload ==
    ASSUME QueueAssumptions, QueueInv, Queue!Reload
    PROVE  QueueInv'
<1> DEFINE o == Len(orig)   w == IF Cap <= o THEN Cap ELSE o
<1>1. /\ orig' = SubSeq(orig, 1, Queue!Min({Cap, o})) /\ playing' = FALSE /\ seq' = 0
      /\ autoplay' = TRUE /\ topup' = FALSE /\ ended' = FALSE /\ UNCHANGED shuffle
      /\ \E first, last \in DOMAIN queue :
           queue' = SubSeq(queue, first, last) /\ index' \in DOMAIN queue'
  BY DEF Queue!Reload
<1>2. o \in Nat /\ Len(queue) \in Nat /\ o <= MaxQueue /\ Len(queue) <= MaxQueue
      /\ MaxQueue \in Nat /\ Cap \in Nat
  BY QueueFacts DEF QueueAssumptions
<1>3. orig' = SubSeq(orig, 1, w)
  <2>1. Cap \in Int /\ o \in Int  BY <1>2
  <2>2. Queue!Min({Cap, o}) = w  BY <2>1, QueueMin
  <2> QED  BY <1>1, <2>2
<1>4. orig' \in Seq(Keyed) /\ Len(orig') <= MaxQueue
  <2>1. 1 \in 1..(o + 1) /\ w \in (1 - 1)..o /\ w <= MaxQueue /\ w \in Nat /\ w - 1 + 1 = w
    BY <1>2
  <2> HIDE DEF w
  <2> DEFINE t == SubSeq(orig, 1, w)
  <2>2. t \in Seq(Keyed) /\ Len(t) = w - 1 + 1  BY <2>1, PartOf, QueueFacts
  <2>3. orig' = t  BY <1>3
  <2> HIDE DEF t
  <2> QED  BY <2>1, <2>2, <2>3
<1>5. PICK first \in DOMAIN queue, last \in DOMAIN queue :
        queue' = SubSeq(queue, first, last) /\ index' \in DOMAIN queue'
  BY <1>1
<1>6. first \in 1..Len(queue) /\ last \in 1..Len(queue)  BY QueueFacts
<1>7. queue' \in Seq(Keyed) /\ Len(queue') <= MaxQueue
  <2>1. CASE first <= last
    <3>1. first \in 1..(Len(queue) + 1) /\ last \in (first - 1)..Len(queue)
          /\ last - first + 1 <= MaxQueue
      BY <1>2, <1>6, <2>1
    <3> DEFINE t == SubSeq(queue, first, last)
    <3>2. t \in Seq(Keyed) /\ Len(t) = last - first + 1  BY <3>1, PartOf, QueueFacts
    <3>3. queue' = t  BY <1>5
    <3> HIDE DEF t
    <3> QED  BY <3>1, <3>2, <3>3
  <2>2. CASE last < first
    <3>1. DOMAIN SubSeq(queue, first, last) = {}
      <4>1. first \in Int /\ last \in Int /\ \A j \in first..last : queue[j] \in Keyed
        BY <1>6, <2>2
      <4> DEFINE t == SubSeq(queue, first, last)
      <4>2. t \in Seq(Keyed) /\ Len(t) = IF first <= last THEN last - first + 1 ELSE 0
        BY <4>1, SubSeqProperties
      <4>3. ~(first <= last)  BY <1>6, <2>2
      <4> HIDE DEF t
      <4>4. DOMAIN t = {}  BY <4>2, <4>3
      <4> QED  BY <4>4 DEF t
    <3> QED  BY <1>5, <3>1
  <2> QED  BY <1>6, <2>1, <2>2
<1>8. index' \in 0..Len(queue')
  <2>1. DOMAIN queue' = 1..Len(queue') /\ Len(queue') \in Nat  BY <1>7
  <2>2. index' \in 1..Len(queue')  BY <1>5, <2>1
  <2>3. \A n \in Nat : 1..n \subseteq 0..n  OBVIOUS
  <2> QED  BY <2>1, <2>2, <2>3
<1>9. Queue!Order(queue') /\ Queue!Order(orig')  BY <1>4, <1>7, OrderIs
<1>10. QOrders' /\ QPlays'  BY <1>1, <1>8, <1>9 DEF QOrders, QPlays
<1> QED  BY <1>1, <1>10, QueueParts, QueueParts1 DEF QFlags

\* Nothing is queued.
LEMMA QueueInit == ASSUME QueueAssumptions, Queue!Init PROVE QueueInv
<1>1. /\ queue = <<>> /\ orig = <<>> /\ index = 0 /\ playing = FALSE /\ seq = 0
      /\ shuffle = FALSE /\ autoplay = TRUE /\ topup = FALSE /\ ended = FALSE
  BY DEF Queue!Init
<1>2. queue \in Seq(Keyed) /\ orig \in Seq(Keyed) /\ Len(queue) = 0 /\ Len(orig) = 0  BY <1>1
<1>3. Len(queue) <= MaxQueue /\ Len(orig) <= MaxQueue  BY <1>2 DEF QueueAssumptions
<1>4. Queue!Order(queue) /\ Queue!Order(orig)  BY <1>2, <1>3, OrderIs
<1>5. QOrders  BY <1>1, <1>2, <1>4 DEF QOrders
<1>6. QPlays /\ QFlags  BY <1>1 DEF QPlays, QFlags
<1> QED  BY <1>5, <1>6, QueueParts

\* Every step but a reload.
LEMMA QueueActs ==
    ASSUME QueueAssumptions, QueueInv, Queue!User \/ Queue!Radio
    PROVE  QueueInv' /\ Kept
<1>1. CASE Queue!User
  <2>1. \/ \E l \in Queue!Lists : \E i \in DOMAIN l : Queue!PlayQueue(l, i)
        \/ \E l \in Queue!Lists : Queue!ShufflePlay(l)
        \/ \E l \in Queue!Lists : Queue!AddToQueue(l)
        \/ \E l \in Queue!Lists : Queue!PlayNext(l)
        \/ \E l \in Queue!Lists : Queue!ReplaceUpcoming(l)
        \/ \E i \in DOMAIN queue : Queue!RemoveTrack(i)
        \/ \E i \in DOMAIN queue : Queue!Jump(i)
        \/ \E i, j \in DOMAIN queue : Queue!Move(i, j)
        \/ Queue!ClearUpcoming \/ Queue!ToggleShuffle
        \/ Queue!NextTrack \/ Queue!PrevTrack
        \/ \E on \in BOOLEAN : Queue!SetPlaying(on)
    BY <1>1 DEF Queue!User
  <2> QED
    BY <2>1, QPlayQueue, QShufflePlay, QAddToQueue, QPlayNext, QReplaceUpcoming, QRemoveTrack,
       QJump, QMove, QClearUpcoming, QToggleShuffle, QNextTrack, QPrevTrack, QSetPlaying
<1>2. CASE Queue!Radio
  <2>1. \/ Queue!Ended \/ Queue!EndedNothing \/ Queue!AdvancePaused
        \/ Queue!AskTopUp \/ Queue!TopUpFails
        \/ \E l \in Queue!Lists : Queue!EndedMore(l)
        \/ \E l \in Queue!Lists : Queue!TopUp(l)
    BY <1>2 DEF Queue!Radio
  <2> QED
    BY <2>1, QEnded, QEndedNothing, QAdvancePaused, QAskTopUp, QEndedMore, QTopUp
<1> QED  BY <1>1, <1>2

\* Every step of the queue keeps the types.
LEMMA QueueNext == ASSUME QueueAssumptions, QueueInv, Queue!Next PROVE QueueInv'
  BY QueueActs, QReload DEF Queue!Next

\* So does a step of another part.
LEMMA QueueStutter == ASSUME QueueInv, UNCHANGED ofQueue PROVE QueueInv'
  BY DEF ofQueue, QueueInv, Queue!TypeOK, Queue!Order

\* A step of the whole is one of the queue, or leaves it alone.
LEMMA QueueStep == ASSUME [KeptNext]_allVars PROVE Queue!Next \/ UNCHANGED ofQueue
  BY DEF KeptNext, allVars, web, ofQueue

\* The types hold throughout.
LEMMA QueueHolds == ASSUME QueueAssumptions PROVE KeptSpec => []QueueInv
<1>1. KeptInit => QueueInv  BY QueueInit DEF KeptInit
<1>2. QueueInv /\ [KeptNext]_allVars => QueueInv'  BY QueueNext, QueueStutter, QueueStep
<1> QED  BY <1>1, <1>2, PTL DEF KeptSpec

\* stores.js, Player.svelte: no step changes what plays but a navigation, a reload,
\* the removal of what plays, and a shuffle that ends without it in its list.
THEOREM QueueKeepsPlaying == ASSUME QueueAssumptions PROVE KeptSpec => KeepsPlaying
<1> DEFINE A == /\ seq' = seq /\ ~Queue!Reload
                /\ Queue!Current # NoTrack
                /\ queue' # Queue!RemoveAt(queue, index)
                /\ ~(shuffle /\ ~shuffle' /\ orig # <<>> /\ Queue!Current \notin Queue!ToSet(orig))
                => Queue!Current' = Queue!Current
<1>1. QueueInv /\ [KeptNext]_allVars => [A]_(Queue!vars)
  <2> SUFFICES ASSUME QueueInv, [KeptNext]_allVars, Queue!vars' # Queue!vars PROVE A  OBVIOUS
  <2>1. Queue!Next  BY QueueStep DEF ofQueue, Queue!vars, Queue!store, Queue!asked
  <2>2. Queue!Reload \/ Kept  BY <2>1, QueueActs DEF Queue!Next
  <2> QED  BY <2>2 DEF Kept
<1>2. KeptSpec => []QueueInv  BY QueueHolds
<1>3. KeptSpec => [][A]_(Queue!vars)  BY <1>1, <1>2, PTL DEF KeptSpec
<1> QED  BY <1>3 DEF KeepsPlaying, Queue!KeepsPlaying

-----------------------------------------------------------------------------
(* The watcher.  What was told last of a path, or is queued for it, or is   *)
(* at the scanner, or is in the library, is what is on the disk: the first  *)
(* of these that speaks of the path has it right.                           *)

WatchAssumptions == NoPath \notin Path /\ MaxOps \in Nat

\* What an entry, or an event, is about, and whether it leaves a file there.
About(e, p) == e.path = p \/ Watch!Leaves(e, p)
Says(e, p) == e.path = p /\ "remove" \notin e.op
Silent(s, p) == \A i \in DOMAIN s : ~About(s[i], p)
LastSays(s, p, d) ==
    \E i \in DOMAIN s :
        /\ About(s[i], p) /\ (Says(s[i], p) <=> p \in d)
        /\ \A j \in DOMAIN s : j > i => ~About(s[j], p)
Unique(q) == \A i, j \in DOMAIN q : q[i].path = q[j].path => i = j

\* An entry scans, removes or moves, never scans and removes, and has lost its
\* move to a creation alone.
Fit(e) ==
    /\ e.op \cap {"scan", "remove", "move"} # {}
    /\ ~ {"scan", "remove"} \subseteq e.op
    /\ e.src # NoPath /\ "move" \notin e.op => "create" \in e.op

\* What watchdog tells.
Told(n) ==
    \/ n.op \in {{"scan", "create"}, {"scan"}, {"remove"}} /\ n.src = NoPath
    \/ n.op = {"move"} /\ n.src \in Path /\ n.src # n.path

\* The fields of an entry.
LEMMA EntryIs ==
    \A e : e \in Watch!Entry <=>
             /\ e = [path |-> e.path, op |-> e.op, src |-> e.src]
             /\ e.path \in Path /\ e.op \in SUBSET Watch!Flag /\ e.src \in Path \cup {NoPath}
  BY DEF Watch!Entry

\* What merging makes of the flags.
LEMMA MergedIs ==
    ASSUME NEW e \in Watch!Entry, NEW op \in SUBSET Watch!Flag, NEW src \in Path \cup {NoPath}
    PROVE  LET m == Watch!Merged(e, op, src)
           IN /\ m \in Watch!Entry /\ m.path = e.path
              /\ m.src = (IF src = NoPath THEN e.src ELSE src)
              /\ "scan" \in m.op <=> "scan" \in op \/ ("scan" \in e.op /\ "remove" \notin op)
              /\ "remove" \in m.op <=> "remove" \in op \/ ("remove" \in e.op /\ "scan" \notin op)
              /\ "move" \in m.op <=> "move" \in op \/ ("move" \in e.op /\ "create" \notin op)
              /\ "create" \in m.op <=> "create" \in op \/ "create" \in e.op
<1> DEFINE m == Watch!Merged(e, op, src)
<1>1. m = [e EXCEPT !.op = (e.op \ Watch!Undoes(op)) \cup op,
                    !.src = IF src = NoPath THEN e.src ELSE src]
  BY DEF Watch!Merged
<1>2. m.path = e.path /\ m.src = (IF src = NoPath THEN e.src ELSE src)
      /\ m.op = (e.op \ Watch!Undoes(op)) \cup op
      /\ m = [path |-> m.path, op |-> m.op, src |-> m.src]
  BY <1>1 DEF Watch!Entry
<1> HIDE DEF m
<1>3. \A f : f \in Watch!Undoes(op) <=>
               /\ f \in Watch!Flag
               /\ \/ f = "remove" /\ "scan" \in op
                  \/ f = "scan" /\ "remove" \in op
                  \/ f = "move" /\ "create" \in op
  BY DEF Watch!Undoes
<1>4. \A f : f \in m.op <=> f \in op \/ (f \in e.op /\ f \notin Watch!Undoes(op))
  BY <1>2
<1>5. m.path \in Path /\ m.src \in Path \cup {NoPath} /\ m.op \in SUBSET Watch!Flag
  BY <1>2, EntryIs
<1>6. m \in Watch!Entry  BY <1>2, <1>5 DEF Watch!Entry
<1>7. /\ "scan" \in Watch!Undoes(op) <=> "remove" \in op
      /\ "remove" \in Watch!Undoes(op) <=> "scan" \in op
      /\ "move" \in Watch!Undoes(op) <=> "create" \in op
      /\ "create" \notin Watch!Undoes(op)
  BY <1>3 DEF Watch!Flag
<1> QED  BY <1>2, <1>4, <1>6, <1>7 DEF m

\* The first entry goes.
LEMMA LogTail ==
    ASSUME NEW S, NEW s \in Seq(S), s # <<>>, NEW p, NEW d
    PROVE  /\ Silent(s, p) => Silent(Tail(s), p) /\ ~About(Head(s), p)
           /\ LastSays(s, p, d) =>
                \/ LastSays(Tail(s), p, d)
                \/ Silent(Tail(s), p) /\ About(Head(s), p) /\ (Says(Head(s), p) <=> p \in d)
<1>1. /\ DOMAIN s = 1..Len(s) /\ Len(s) \in Nat /\ Len(s) > 0
      /\ Tail(s) \in Seq(S) /\ Len(Tail(s)) = Len(s) - 1 /\ DOMAIN Tail(s) = 1..(Len(s) - 1)
      /\ \A i \in 1..(Len(s) - 1) : Tail(s)[i] = s[i + 1]
      /\ Head(s) = s[1]
  OBVIOUS
<1> DEFINE t == Tail(s)
<1> HIDE DEF t
<1>2. /\ DOMAIN t = 1..(Len(s) - 1) /\ \A i \in 1..(Len(s) - 1) : t[i] = s[i + 1]
  BY <1>1 DEF t
<1>3. ASSUME Silent(s, p) PROVE Silent(t, p) /\ ~About(s[1], p)
  <2>1. ~About(s[1], p)  BY <1>1, <1>3 DEF Silent
  <2>2. ASSUME NEW i \in DOMAIN t PROVE ~About(t[i], p)
    <3>1. t[i] = s[i + 1] /\ i + 1 \in DOMAIN s  BY <1>1, <1>2
    <3> QED  BY <1>3, <3>1 DEF Silent
  <2> QED  BY <2>1, <2>2 DEF Silent
<1>4. ASSUME LastSays(s, p, d)
      PROVE  \/ LastSays(t, p, d)
             \/ Silent(t, p) /\ About(s[1], p) /\ (Says(s[1], p) <=> p \in d)
  <2>1. PICK i \in DOMAIN s :
          /\ About(s[i], p) /\ (Says(s[i], p) <=> p \in d)
          /\ \A j \in DOMAIN s : j > i => ~About(s[j], p)
    BY <1>4 DEF LastSays
  <2>2. i \in 1..Len(s)  BY <1>1
  <2>3. ASSUME NEW k \in DOMAIN t, k + 1 > i PROVE ~About(t[k], p)
    <3>1. t[k] = s[k + 1] /\ k + 1 \in DOMAIN s  BY <1>1, <1>2
    <3> QED  BY <2>1, <2>3, <3>1
  <2>4. CASE i = 1
    <3>1. Silent(t, p)
      <4>1. \A k \in DOMAIN t : k + 1 > 1  BY <1>2
      <4> QED  BY <2>3, <2>4, <4>1 DEF Silent
    <3> QED  BY <2>1, <2>4, <3>1
  <2>5. CASE i > 1
    <3>1. i - 1 \in DOMAIN t /\ t[i - 1] = s[i]
      <4>1. i - 1 \in 1..(Len(s) - 1) /\ i - 1 + 1 = i  BY <1>1, <2>2, <2>5
      <4> QED  BY <1>2, <4>1
    <3>2. \A k \in DOMAIN t : k > i - 1 => k + 1 > i  BY <1>1, <1>2, <2>2
    <3> QED  BY <2>1, <2>3, <3>1, <3>2 DEF LastSays
  <2> QED  BY <2>2, <2>4, <2>5
<1> QED  BY <1>1, <1>3, <1>4 DEF t

\* An entry comes last.
LEMMA LogAppend ==
    ASSUME NEW S, NEW s \in Seq(S), NEW e \in S, NEW p, NEW d
    PROVE  /\ About(e, p) /\ (Says(e, p) <=> p \in d) => LastSays(Append(s, e), p, d)
           /\ ~About(e, p) /\ LastSays(s, p, d) => LastSays(Append(s, e), p, d)
           /\ ~About(e, p) /\ Silent(s, p) => Silent(Append(s, e), p)
           /\ Silent(Append(s, e), p) => Silent(s, p) /\ ~About(e, p)
<1> DEFINE t == Append(s, e)   n == Len(s)
<1>1. /\ DOMAIN s = 1..n /\ n \in Nat /\ DOMAIN t = 1..(n + 1)
      /\ t[n + 1] = e /\ \A i \in 1..n : t[i] = s[i]
  OBVIOUS
<1> HIDE DEF t, n
<1>2. /\ n + 1 \in DOMAIN t /\ DOMAIN s \subseteq DOMAIN t
      /\ \A i \in DOMAIN t : i \in DOMAIN s \/ i = n + 1
      /\ \A i \in DOMAIN s : n + 1 > i
      /\ \A i \in DOMAIN t : ~(i > n + 1)
  BY <1>1
<1>3. ASSUME About(e, p), Says(e, p) <=> p \in d PROVE LastSays(t, p, d)
  BY <1>1, <1>2, <1>3 DEF LastSays
<1>4. ASSUME ~About(e, p), LastSays(s, p, d) PROVE LastSays(t, p, d)
  <2>1. PICK i \in DOMAIN s :
          /\ About(s[i], p) /\ (Says(s[i], p) <=> p \in d)
          /\ \A j \in DOMAIN s : j > i => ~About(s[j], p)
    BY <1>4 DEF LastSays
  <2>2. t[i] = s[i] /\ i \in DOMAIN t  BY <1>1, <1>2
  <2>3. ASSUME NEW j \in DOMAIN t, j > i PROVE ~About(t[j], p)
    <3>1. j \in DOMAIN s \/ j = n + 1  BY <1>2
    <3> QED  BY <1>1, <1>4, <2>1, <2>3, <3>1
  <2> QED  BY <2>1, <2>2, <2>3 DEF LastSays
<1>5. ~About(e, p) /\ Silent(s, p) => Silent(t, p)  BY <1>1, <1>2 DEF Silent
<1>6. Silent(t, p) => Silent(s, p) /\ ~About(e, p)  BY <1>1, <1>2 DEF Silent
<1> QED  BY <1>3, <1>4, <1>5, <1>6 DEF t

\* The entry of a path goes, and the others stay in their order.
LEMMA WithoutIs ==
    ASSUME NEW S, NEW q \in Seq(S), Unique(q), NEW x
    PROVE  /\ Watch!Without(q, x) \in Seq(S) /\ Unique(Watch!Without(q, x))
           /\ Len(Watch!Without(q, x)) = (IF Watch!Has(q, x) THEN Len(q) - 1 ELSE Len(q))
           /\ \E at \in [DOMAIN Watch!Without(q, x) -> DOMAIN q] :
                /\ \A n \in DOMAIN Watch!Without(q, x) :
                     Watch!Without(q, x)[n] = q[at[n]] /\ q[at[n]].path # x
                /\ \A i \in DOMAIN q :
                     q[i].path = x \/ \E n \in DOMAIN Watch!Without(q, x) : at[n] = i
                /\ \A n, m \in DOMAIN Watch!Without(q, x) : m > n => at[m] > at[n]
<1> DEFINE t == Watch!Without(q, x)
           Embeds(at) == /\ at \in [DOMAIN t -> DOMAIN q]
                         /\ \A n \in DOMAIN t : t[n] = q[at[n]] /\ q[at[n]].path # x
                         /\ \A i \in DOMAIN q : q[i].path = x \/ \E n \in DOMAIN t : at[n] = i
                         /\ \A n, m \in DOMAIN t : m > n => at[m] > at[n]
<1>0. DOMAIN q = 1..Len(q) /\ Len(q) \in Nat  OBVIOUS
<1> SUFFICES /\ t \in Seq(S) /\ Unique(t)
             /\ Len(t) = (IF Watch!Has(q, x) THEN Len(q) - 1 ELSE Len(q))
             /\ \E at : Embeds(at)
  OBVIOUS
<1>1. CASE ~Watch!Has(q, x)
  <2>1. t = q  BY <1>1 DEF Watch!Without
  <2>2. \A i \in DOMAIN q : q[i].path # x  BY <1>1 DEF Watch!Has
  <2> HIDE DEF t
  <2> DEFINE at == [n \in DOMAIN t |-> n]
  <2>3. at \in [DOMAIN t -> DOMAIN q] /\ \A n \in DOMAIN t : at[n] = n  BY <2>1
  <2> HIDE DEF at
  <2>4. Embeds(at)  BY <2>1, <2>2, <2>3
  <2> HIDE DEF Embeds
  <2> QED  BY <1>1, <2>1, <2>4
<1>2. CASE Watch!Has(q, x)
  <2> DEFINE k == Watch!Place(q, x)
  <2>1. k \in 1..Len(q) /\ q[k].path = x
    <3>1. \E i \in DOMAIN q : q[i].path = x  BY <1>2 DEF Watch!Has
    <3> QED  BY <1>0, <3>1 DEF Watch!Place
  <2>2. t = Queue!RemoveAt(q, k)
    BY <1>2 DEF Watch!Without, Watch!RemoveAt, Queue!RemoveAt
  <2> HIDE DEF t, k
  <2>3. /\ t \in Seq(S) /\ Len(t) = Len(q) - 1
        /\ \A n \in 1..(Len(q) - 1) : t[n] = IF n < k THEN q[n] ELSE q[n + 1]
    <3> DEFINE r == Queue!RemoveAt(q, k)
    <3>1. /\ r \in Seq(S) /\ Len(r) = Len(q) - 1
          /\ \A n \in 1..(Len(q) - 1) : r[n] = IF n < k THEN q[n] ELSE q[n + 1]
      BY <2>1, CutOne
    <3>2. t = r  BY <2>2
    <3> HIDE DEF r
    <3> QED  BY <3>1, <3>2
  <2>4. DOMAIN t = 1..(Len(q) - 1)  BY <2>3
  <2> DEFINE slot(n) == IF n < k THEN n ELSE n + 1
             at == [n \in DOMAIN t |-> slot(n)]
  <2>5. \A n \in DOMAIN t : t[n] = q[slot(n)] /\ slot(n) \in DOMAIN q /\ slot(n) # k
    BY <1>0, <2>1, <2>3, <2>4
  <2>6. \A i \in DOMAIN q : i # k => \E n \in DOMAIN t : slot(n) = i
    <3> SUFFICES ASSUME NEW i \in DOMAIN q, i # k PROVE \E n \in DOMAIN t : slot(n) = i
      OBVIOUS
    <3>1. CASE i < k
      <4>1. i \in DOMAIN t /\ slot(i) = i  BY <1>0, <2>1, <2>4, <3>1
      <4> HIDE DEF slot
      <4> QED  BY <4>1
    <3>2. CASE i > k
      <4>1. i - 1 \in DOMAIN t /\ slot(i - 1) = i  BY <1>0, <2>1, <2>4, <3>2
      <4> HIDE DEF slot
      <4> QED  BY <4>1
    <3> QED  BY <1>0, <2>1, <3>1, <3>2
  <2>7. \A n, m \in DOMAIN t : (slot(n) = slot(m) => n = m) /\ (m > n => slot(m) > slot(n))
    BY <1>0, <2>1, <2>4
  <2>8. \A i \in DOMAIN q : q[i].path = x => i = k  BY <1>0, <2>1 DEF Unique
  <2> HIDE DEF slot
  <2>9. at \in [DOMAIN t -> DOMAIN q] /\ \A n \in DOMAIN t : at[n] = slot(n)  BY <2>5
  <2> HIDE DEF at
  <2>10. Unique(t)  BY <2>5, <2>7 DEF Unique
  <2>11. \A n \in DOMAIN t : t[n] = q[at[n]] /\ q[at[n]].path # x  BY <2>5, <2>8, <2>9
  <2>12. \A i \in DOMAIN q : q[i].path = x \/ \E n \in DOMAIN t : at[n] = i
    BY <2>1, <2>6, <2>9
  <2>13. \A n, m \in DOMAIN t : m > n => at[m] > at[n]  BY <2>7, <2>9
  <2>14. Embeds(at)  BY <2>9, <2>11, <2>12, <2>13
  <2> HIDE DEF Embeds
  <2> QED  BY <1>2, <2>3, <2>10, <2>14
<1> QED  BY <1>1, <1>2

\* The entries that stay are of other paths.
LEMMA EntryWithout ==
    ASSUME NEW S, NEW q \in Seq(S), Unique(q), NEW x,
           NEW t, t = Watch!Without(q, x), NEW j \in DOMAIN t
    PROVE  t[j].path # x /\ \E i \in DOMAIN q : t[j] = q[i]
<1>1. PICK at \in [DOMAIN t -> DOMAIN q] : \A n \in DOMAIN t : t[n] = q[at[n]] /\ q[at[n]].path # x
  BY WithoutIs
<1> QED  BY <1>1

\* What the entries say once that of a path is gone: the same, or the one that
\* went had the last word.
LEMMA LogWithout ==
    ASSUME NEW S, NEW q \in Seq(S), Unique(q), NEW x, NEW p, NEW d,
           NEW t, t = Watch!Without(q, x)
    PROVE  /\ Silent(q, p) => Silent(t, p)
           /\ LastSays(q, p, d) =>
                \/ LastSays(t, p, d)
                \/ \E i \in DOMAIN q : /\ q[i].path = x /\ About(q[i], p)
                                       /\ (Says(q[i], p) <=> p \in d)
<1>1. PICK at \in [DOMAIN t -> DOMAIN q] :
        /\ \A n \in DOMAIN t : t[n] = q[at[n]] /\ q[at[n]].path # x
        /\ \A i \in DOMAIN q : q[i].path = x \/ \E n \in DOMAIN t : at[n] = i
        /\ \A n, m \in DOMAIN t : m > n => at[m] > at[n]
  BY WithoutIs
<1>3. Silent(q, p) => Silent(t, p)  BY <1>1 DEF Silent
<1>4. ASSUME LastSays(q, p, d)
      PROVE  \/ LastSays(t, p, d)
             \/ \E i \in DOMAIN q : /\ q[i].path = x /\ About(q[i], p)
                                    /\ (Says(q[i], p) <=> p \in d)
  <2>1. PICK i \in DOMAIN q :
          /\ About(q[i], p) /\ (Says(q[i], p) <=> p \in d)
          /\ \A j \in DOMAIN q : j > i => ~About(q[j], p)
    BY <1>4 DEF LastSays
  <2>2. CASE q[i].path = x  BY <2>1, <2>2
  <2>3. CASE q[i].path # x
    <3>1. PICK n \in DOMAIN t : at[n] = i  BY <1>1, <2>3
    <3>2. t[n] = q[i]  BY <1>1, <3>1
    <3>3. ASSUME NEW m \in DOMAIN t, m > n PROVE ~About(t[m], p)
      <4>1. at[m] > i /\ at[m] \in DOMAIN q /\ t[m] = q[at[m]]  BY <1>1, <3>1, <3>3
      <4> QED  BY <2>1, <4>1
    <3> QED  BY <2>1, <3>2, <3>3 DEF LastSays
  <2> QED  BY <2>2, <2>3
<1> QED  BY <1>3, <1>4

\* An entry of s after k and before l is about p.
Between(s, p, k, l) == \E m \in DOMAIN s : k < m /\ m < l /\ About(s[m], p)

\* The disk and the library, the queue, what is still to be told, the timers and
\* the thread.
WSets ==
    /\ folder \subseteq Path /\ lib \subseteq Path /\ astray \subseteq Path
    /\ ops \in 0..MaxOps /\ running \in BOOLEAN /\ missed \in BOOLEAN
WQueue ==
    /\ entries \in Seq(Watch!Entry) /\ Unique(entries)
    /\ \A i \in DOMAIN entries : Fit(entries[i])
WTold ==
    /\ told \in Seq(Watch!Entry)
    /\ \A k \in DOMAIN told : Told(told[k])
WTimers ==
    /\ ripe \in 0..Len(entries)
    /\ timer \in {"none", "ticking", "fired"} /\ loose \in {"no", "early", "last"}
    /\ timer = "none" /\ loose # "last" => ripe = Len(entries)
    /\ timer = "fired" => ripe = Len(entries)
    /\ loose = "last" => timer = "none"
WItem ==
    /\ item \in Watch!Entry \cup {Watch!NoItem}
    /\ item # Watch!NoItem => scanner = "pass" /\ Fit(item)
WThread ==
    /\ scanner \in {"sleep", "wait", "woken", "pass", "close", "ended"}
    /\ ~running => told = <<>>
    /\ scanner = "wait" => running
    /\ scanner = "ended" => ~running
\* Somebody will look at the queue: without a timer, the thread is past no look
\* but one that was missed.
WWakes ==
    /\ ~missed /\ running /\ scanner \in {"wait", "sleep", "close"} /\ entries # <<>>
         => timer # "none" \/ loose # "no"
    /\ scanner = "ended" \/ (scanner = "close" /\ ~running) => missed \/ entries = <<>>
\* What was told last of a path is what is there.
WLog == \A p \in Path : Silent(told, p) \/ LastSays(told, p, folder)
\* A move is of a file that was there.
WMoves1 ==
    \A p \in Path, k, l \in DOMAIN told :
        k < l /\ Watch!Leaves(told[l], p) /\ About(told[k], p) /\ ~Says(told[k], p)
        => Between(told, p, k, l)
\* Nor is it of one whose removal is still queued, unless it came back.
WMoves2 ==
    \A p \in Path \ astray, l \in DOMAIN told, i \in DOMAIN entries :
        Watch!Leaves(told[l], p) /\ entries[i].path = p /\ "remove" \in entries[i].op
        => Between(told, p, 0, l)
\* What will be known of a path, once what is queued is done.
WPath(p) ==
    \/ LastSays(entries, p, folder)
    \/ /\ Silent(entries, p)
       /\ IF About(item, p) THEN Says(item, p) <=> p \in folder ELSE p \in lib <=> p \in folder
WLib == \A p \in Path \ astray : Silent(told, p) => WPath(p)

\* What the watcher knows of a path, or has in its queue or at its scanner, is what
\* is on the disk, as soon as it was told of all that happened there.
WatchInv ==
    /\ WSets /\ WQueue /\ WTold /\ WTimers /\ WItem /\ WThread /\ WWakes
    /\ WLog /\ WMoves1 /\ WMoves2 /\ WLib

\* Nothing that says that a path is there: the last word, if there is one, says
\* that it is not.
LEMMA LogQuiet ==
    ASSUME NEW S, NEW s \in Seq(S), NEW p, NEW d, p \notin d,
           \A j \in DOMAIN s : ~Says(s[j], p)
    PROVE  Silent(s, p) \/ LastSays(s, p, d)
<1> SUFFICES ASSUME ~Silent(s, p) PROVE LastSays(s, p, d)  OBVIOUS
<1>1. DOMAIN s = 1..Len(s) /\ Len(s) \in Nat  OBVIOUS
<1> DEFINE Later(k) == \E i \in DOMAIN s : i + k >= Len(s) /\ About(s[i], p)
           N == {k \in Nat : Later(k) => LastSays(s, p, d)}
<1>2. 0 \in N
  <2> SUFFICES ASSUME Later(0) PROVE LastSays(s, p, d)  OBVIOUS
  <2>1. PICK i \in DOMAIN s : i >= Len(s) /\ About(s[i], p)  BY <1>1
  <2>2. \A j \in DOMAIN s : ~(j > i)  BY <1>1, <2>1
  <2> QED  BY <2>1, <2>2 DEF LastSays
<1>3. ASSUME NEW k \in N PROVE k + 1 \in N
  <2> SUFFICES ASSUME Later(k + 1) PROVE LastSays(s, p, d)  OBVIOUS
  <2>1. PICK i \in DOMAIN s : i + (k + 1) >= Len(s) /\ About(s[i], p)  OBVIOUS
  <2>2. CASE \E j \in DOMAIN s : j > i /\ About(s[j], p)
    <3>1. PICK j \in DOMAIN s : j > i /\ About(s[j], p)  BY <2>2
    <3>2. j + k >= Len(s)  BY <1>1, <2>1, <3>1
    <3>3. Later(k)  BY <3>1, <3>2
    <3> QED  BY <3>3
  <2>3. CASE \A j \in DOMAIN s : j > i => ~About(s[j], p)  BY <2>1, <2>3 DEF LastSays
  <2> QED  BY <2>2, <2>3
<1>4. N = Nat
  <2> HIDE DEF N
  <2>1. N \in SUBSET Nat  BY DEF N
  <2> QED  BY <1>2, <1>3, <2>1, SetInduction
<1>5. Later(Len(s))
  <2>1. PICK i \in DOMAIN s : About(s[i], p)  BY DEF Silent
  <2>2. i + Len(s) >= Len(s)  BY <1>1
  <2> QED  BY <2>1, <2>2
<1> HIDE DEF Later
<1> QED  BY <1>1, <1>4, <1>5

\* The entry that is queued for a path.
LEMMA AtIs ==
    ASSUME WQueue, NEW x, Watch!Queued(x)
    PROVE  LET e == Watch!At(x)
           IN /\ e \in Watch!Entry /\ e.path = x /\ x \in Path /\ Fit(e)
              /\ \E i \in DOMAIN entries : e = entries[i]
              /\ \A i \in DOMAIN entries : entries[i].path = x => entries[i] = e
<1> DEFINE k == Watch!Place(entries, x)
<1>1. k \in DOMAIN entries /\ entries[k].path = x
  <2>1. \E i \in DOMAIN entries : entries[i].path = x  BY DEF Watch!Queued, Watch!Has
  <2> QED  BY <2>1 DEF Watch!Place
<1>2. Watch!At(x) = entries[k]  BY DEF Watch!At
<1> HIDE DEF k
<1>3. entries[k] \in Watch!Entry  BY <1>1 DEF WQueue
<1>4. x \in Path  BY <1>1, <1>3, EntryIs
<1>5. \A i \in DOMAIN entries : entries[i].path = x => entries[i] = entries[k]
  <2>1. \A i \in DOMAIN entries : entries[i].path = x => i = k  BY <1>1 DEF WQueue, Unique
  <2> QED  BY <2>1
<1>6. Fit(entries[k])  BY <1>1 DEF WQueue
<1> QED  BY <1>1, <1>2, <1>3, <1>4, <1>5, <1>6

\* What an event can be.
LEMMA ToldIs ==
    ASSUME WatchAssumptions, NEW n \in Watch!Entry, Told(n)
    PROVE  /\ n.path \in Path /\ n.op \in SUBSET Watch!Flag /\ n.src \in Path \cup {NoPath}
           /\ n.src = NoPath <=> "move" \notin n.op
           /\ n.src # n.path
           /\ "move" \in n.op => n.op = {"move"}
           /\ Fit(n)
           /\ "remove" \in n.op => n.op = {"remove"}
           /\ "remove" \notin n.op /\ "move" \notin n.op => "scan" \in n.op
<1>1. n.path \in Path /\ n.op \in SUBSET Watch!Flag /\ n.src \in Path \cup {NoPath}  BY EntryIs
<1>2. NoPath \notin Path  BY DEF WatchAssumptions
<1>3. CASE n.op \in {{"scan", "create"}, {"scan"}, {"remove"}} /\ n.src = NoPath
  <2>1. "move" \notin n.op /\ n.op \cap {"scan", "remove", "move"} # {}
        /\ ~ {"scan", "remove"} \subseteq n.op
    BY <1>3
  <2>2. /\ "remove" \in n.op => n.op = {"remove"}
        /\ "remove" \notin n.op => "scan" \in n.op
    BY <1>3
  <2>3. Fit(n)  BY <1>3, <2>1 DEF Fit
  <2> QED  BY <1>1, <1>2, <1>3, <2>1, <2>2, <2>3
<1>4. CASE n.op = {"move"} /\ n.src \in Path /\ n.src # n.path
  <2>1. Fit(n)  BY <1>4 DEF Fit
  <2> QED  BY <1>1, <1>2, <1>4, <2>1
<1> QED  BY <1>3, <1>4 DEF Told

\* What an event has become when it is put.
LEMMA WholeIs ==
    ASSUME WatchAssumptions, WQueue, NEW n \in Watch!Entry, Told(n)
    PROVE  LET o == Watch!Whole(n)
               e == Watch!At(n.path)
               l == Watch!At(n.src)
           IN /\ o \in Watch!Entry /\ o.path = n.path /\ Fit(o)
              /\ "move" \notin n.op => ("remove" \in o.op <=> "remove" \in n.op)
              /\ "move" \notin n.op /\ ~Watch!Queued(n.path) => o = n
              /\ "move" \notin n.op /\ Watch!Queued(n.path) =>
                   /\ o.src = e.src
                   /\ "move" \in o.op <=> "move" \in e.op /\ "create" \notin n.op
              /\ Watch!Queued(n.src) =>
                   /\ "move" \in n.op
                   /\ "move" \in l.op => "move" \in o.op
                   /\ "create" \in l.op /\ "move" \notin l.op => "move" \notin o.op
                   /\ l.src # NoPath => o.src = l.src
              /\ "move" \in n.op /\ ~Watch!Queued(n.path) /\ Watch!Queued(n.src) =>
                   ("remove" \in o.op <=> "remove" \in l.op)
              /\ "move" \in n.op /\ ~Watch!Queued(n.path) /\ ~Watch!Queued(n.src) => o = n
              /\ \/ o.src \in {n.src, NoPath}
                 \/ Watch!Queued(n.path) /\ o.src = e.src
                 \/ Watch!Queued(n.src) /\ o.src = l.src
<1> DEFINE o == Watch!Whole(n)   w == Watch!Own(n)
           e == Watch!At(n.path)   l == Watch!At(n.src)
<1>1. /\ n.path \in Path /\ n.op \in SUBSET Watch!Flag /\ n.src \in Path \cup {NoPath}
      /\ n.src = NoPath <=> "move" \notin n.op
      /\ "move" \in n.op => n.op = {"move"}
      /\ Fit(n)
      /\ "remove" \in n.op => n.op = {"remove"}
      /\ "remove" \notin n.op /\ "move" \notin n.op => "scan" \in n.op
  BY ToldIs
<1>2. Watch!Queued(n.src) => "move" \in n.op
  <2>1. Watch!Queued(n.src) => n.src \in Path  BY AtIs
  <2> QED  BY <1>1, <2>1 DEF WatchAssumptions
<1>3. CASE ~Watch!Queued(n.path)
  <2>1. w = n  BY <1>3 DEF Watch!Own
  <2>2. CASE ~Watch!Queued(n.src)
    <3>1. o = n  BY <2>1, <2>2 DEF Watch!Whole
    <3> HIDE DEF o, e, l
    <3> QED  BY <1>1, <1>3, <2>2, <3>1 DEF o, e, l
  <2>3. CASE Watch!Queued(n.src)
    <3>1. o = Watch!Merged(n, l.op, l.src)  BY <2>1, <2>3 DEF Watch!Whole
    <3>2. l \in Watch!Entry /\ Fit(l)  BY <2>3, AtIs
    <3>3. l.op \in SUBSET Watch!Flag /\ l.src \in Path \cup {NoPath} /\ n \in Watch!Entry
      BY <3>2, EntryIs
    <3> HIDE DEF o, e, l, w
    <3> DEFINE m == Watch!Merged(n, l.op, l.src)
    <3>4. /\ m \in Watch!Entry /\ m.path = n.path
          /\ m.src = (IF l.src = NoPath THEN n.src ELSE l.src)
          /\ "scan" \in m.op <=> "scan" \in l.op \/ ("scan" \in n.op /\ "remove" \notin l.op)
          /\ "remove" \in m.op <=> "remove" \in l.op \/ ("remove" \in n.op /\ "scan" \notin l.op)
          /\ "move" \in m.op <=> "move" \in l.op \/ ("move" \in n.op /\ "create" \notin l.op)
          /\ "create" \in m.op <=> "create" \in l.op \/ "create" \in n.op
      BY <3>3, MergedIs
    <3>4a. o = m  BY <3>1
    <3> HIDE DEF m
    <3>5. "move" \in n.op /\ "remove" \notin n.op /\ "scan" \notin n.op  BY <1>1, <1>2, <2>3
    <3>6. Fit(o)  BY <3>2, <3>4, <3>4a, <3>5 DEF Fit
    <3> QED  BY <1>3, <2>3, <3>4, <3>4a, <3>5, <3>6 DEF o, e, l
  <2> QED  BY <2>2, <2>3
<1>4. CASE Watch!Queued(n.path)
  <2>1. w = Watch!Merged(e, n.op, n.src)  BY <1>4 DEF Watch!Own
  <2>2. e \in Watch!Entry /\ e.path = n.path /\ Fit(e)  BY <1>4, AtIs
  <2> HIDE DEF w, e
  <2>3. /\ w \in Watch!Entry /\ w.path = n.path
        /\ w.src = (IF n.src = NoPath THEN e.src ELSE n.src)
        /\ "scan" \in w.op <=> "scan" \in n.op \/ ("scan" \in e.op /\ "remove" \notin n.op)
        /\ "remove" \in w.op <=> "remove" \in n.op \/ ("remove" \in e.op /\ "scan" \notin n.op)
        /\ "move" \in w.op <=> "move" \in n.op \/ ("move" \in e.op /\ "create" \notin n.op)
        /\ "create" \in w.op <=> "create" \in n.op \/ "create" \in e.op
    BY <1>1, <2>1, <2>2, MergedIs
  <2>4. Fit(w)  BY <1>1, <2>2, <2>3 DEF Fit
  <2>5. CASE ~Watch!Queued(n.src)
    <3>1. o = w  BY <2>5 DEF Watch!Whole, w
    <3> HIDE DEF o, l
    <3> QED  BY <1>1, <1>4, <2>3, <2>4, <2>5, <3>1 DEF o, e, l
  <2>6. CASE Watch!Queued(n.src)
    <3>1. o = Watch!Merged(w, l.op, l.src)  BY <2>6 DEF Watch!Whole, w
    <3>2. l \in Watch!Entry /\ Fit(l)  BY <2>6, AtIs
    <3>3. l.op \in SUBSET Watch!Flag /\ l.src \in Path \cup {NoPath}  BY <3>2, EntryIs
    <3> HIDE DEF o, l
    <3>4. /\ o \in Watch!Entry /\ o.path = w.path
          /\ o.src = (IF l.src = NoPath THEN w.src ELSE l.src)
          /\ "scan" \in o.op <=> "scan" \in l.op \/ ("scan" \in w.op /\ "remove" \notin l.op)
          /\ "remove" \in o.op <=> "remove" \in l.op \/ ("remove" \in w.op /\ "scan" \notin l.op)
          /\ "move" \in o.op <=> "move" \in l.op \/ ("move" \in w.op /\ "create" \notin l.op)
          /\ "create" \in o.op <=> "create" \in l.op \/ "create" \in w.op
      BY <2>3, <3>1, <3>3, MergedIs
    <3>5. "move" \in n.op /\ n.src # NoPath  BY <1>1, <1>2, <2>6
    <3>6. Fit(o)  BY <2>4, <3>2, <3>4 DEF Fit
    <3> QED  BY <1>4, <2>3, <2>6, <3>4, <3>5, <3>6 DEF o, e, l
  <2> QED  BY <2>5, <2>6
<1> QED  BY <1>3, <1>4

\* What is not spoilt.
LEMMA SpoiltIs ==
    ASSUME NEW n, NEW p, p # NoPath, p \notin Watch!Spoilt(n)
    PROVE  LET e == Watch!At(n.path)
               l == Watch!At(n.src)
           IN /\ Watch!Queued(n.path) /\ "move" \in n.op => p \notin {n.path, n.src, e.src}
              /\ Watch!Queued(n.path) /\ "create" \in n.op => p # e.src
              /\ Watch!Queued(n.path) /\ "move" \in e.op /\ Watch!Queued(e.src) => p # e.src
              /\ Watch!Queued(n.src) /\ "move" \in l.op /\ Watch!Queued(l.src) => p # l.src
              /\ Watch!Queued(n.src) /\ ~Watch!Leaves(Watch!Whole(n), l.path) /\ p = l.path
                   => p \notin lib /\ p # item.path
              /\ n.src \in astray => p # n.path
<1> DEFINE e == Watch!At(n.path)   l == Watch!At(n.src)
           old == IF Watch!Queued(n.path) THEN {e} ELSE {}
           left == IF Watch!Queued(n.src) THEN {l} ELSE {}
           A(x) == IF "move" \in n.op THEN {n.path, n.src, x.src} ELSE {}
           B(x) == IF "create" \in n.op THEN {x.src} ELSE {}
           C(x) == IF "move" \in x.op /\ Watch!Queued(x.src) THEN {x.src} ELSE {}
           D(x) == IF Watch!Leaves(Watch!Whole(n), x.path) THEN {}
                   ELSE {x.path} \cap (lib \cup {item.path})
           E == IF n.src \in astray THEN {n.path} ELSE {}
           U == {A(x) : x \in old} \cup {B(x) : x \in old} \cup {C(x) : x \in old \cup left}
                \cup {D(x) : x \in left} \cup {E}
<1>1. Watch!Spoilt(n) = (UNION U) \ {NoPath}  BY DEF Watch!Spoilt
<1> HIDE DEF e, l, A, B, C, D, E, old, left
<1>2. /\ \A x \in old : p \notin A(x) /\ p \notin B(x) /\ p \notin C(x)
      /\ \A x \in left : p \notin C(x) /\ p \notin D(x)
      /\ p \notin E
  <2>1. /\ \A x \in old : A(x) \in U /\ B(x) \in U /\ C(x) \in U
        /\ \A x \in left : C(x) \in U /\ D(x) \in U
        /\ E \in U
    OBVIOUS
  <2> HIDE DEF U
  <2>2. \A X \in U : p \notin X  BY <1>1
  <2> QED  BY <2>1, <2>2
<1>3. Watch!Queued(n.path) => e \in old  BY DEF old
<1>4. Watch!Queued(n.src) => l \in left  BY DEF left
<1>5. Watch!Queued(n.path) /\ "move" \in n.op => p \notin {n.path, n.src, e.src}
  BY <1>2, <1>3 DEF A
<1>6. Watch!Queued(n.path) /\ "create" \in n.op => p # e.src  BY <1>2, <1>3 DEF B
<1>7. Watch!Queued(n.path) /\ "move" \in e.op /\ Watch!Queued(e.src) => p # e.src
  BY <1>2, <1>3 DEF C
<1>8. Watch!Queued(n.src) /\ "move" \in l.op /\ Watch!Queued(l.src) => p # l.src
  BY <1>2, <1>4 DEF C
<1>9. Watch!Queued(n.src) /\ ~Watch!Leaves(Watch!Whole(n), l.path) /\ p = l.path
        => p \notin lib /\ p # item.path
  BY <1>2, <1>4 DEF D
<1>10. n.src \in astray => p # n.path  BY <1>2 DEF E
<1> QED  BY <1>5, <1>6, <1>7, <1>8, <1>9, <1>10 DEF e, l

\* The paths that are spoilt are paths.
LEMMA SpoiltPaths ==
    ASSUME WatchAssumptions, WQueue, NEW n \in Watch!Entry
    PROVE  Watch!Spoilt(n) \subseteq Path
<1> DEFINE e == Watch!At(n.path)   l == Watch!At(n.src)
           old == IF Watch!Queued(n.path) THEN {e} ELSE {}
           left == IF Watch!Queued(n.src) THEN {l} ELSE {}
           A(x) == IF "move" \in n.op THEN {n.path, n.src, x.src} ELSE {}
           B(x) == IF "create" \in n.op THEN {x.src} ELSE {}
           C(x) == IF "move" \in x.op /\ Watch!Queued(x.src) THEN {x.src} ELSE {}
           D(x) == IF Watch!Leaves(Watch!Whole(n), x.path) THEN {}
                   ELSE {x.path} \cap (lib \cup {item.path})
           E == IF n.src \in astray THEN {n.path} ELSE {}
           Q == Path \cup {NoPath}
           U == {A(x) : x \in old} \cup {B(x) : x \in old} \cup {C(x) : x \in old \cup left}
                \cup {D(x) : x \in left} \cup {E}
<1>1. Watch!Spoilt(n) = (UNION U) \ {NoPath}  BY DEF Watch!Spoilt
<1>2. n.path \in Q /\ n.src \in Q  BY EntryIs
<1>3. \A x \in old \cup left : x.path \in Q /\ x.src \in Q
  <2>1. Watch!Queued(n.path) => e \in Watch!Entry  BY AtIs
  <2>2. Watch!Queued(n.src) => l \in Watch!Entry  BY AtIs
  <2>3. \A x \in old \cup left : x \in Watch!Entry
    <3> HIDE DEF e, l
    <3> QED  BY <2>1, <2>2
  <2> HIDE DEF old, left
  <2> QED  BY <2>3, EntryIs
<1> HIDE DEF e, l, old, left, Q
<1>4. \A x \in old \cup left : A(x) \subseteq Q /\ B(x) \subseteq Q /\ C(x) \subseteq Q
                               /\ D(x) \subseteq Q
  BY <1>2, <1>3
<1>5. E \subseteq Q  BY <1>2
<1> HIDE DEF A, B, C, D, E
<1>6. Watch!Spoilt(n) \subseteq Q \ {NoPath}
  <2>1. \A X \in U : X \subseteq Q  BY <1>4, <1>5
  <2> HIDE DEF U
  <2> QED  BY <1>1, <2>1
<1> QED  BY <1>6 DEF Q

\* The queue of the entries that put does not merge.
Rest(n) == Watch!Without(Watch!Without(entries, n.path), n.src)

\* What put does.
LEMMA WPutIs ==
    ASSUME WTold, Watch!Put
    PROVE  LET n == Head(told)
           IN /\ n \in Watch!Entry /\ Told(n) /\ n = told[1] /\ 1 \in DOMAIN told
              /\ told # <<>> /\ told' = Tail(told)
              /\ entries' = Append(Rest(n), Watch!Whole(n))
              /\ astray' = (IF "move" \in n.op THEN astray ELSE astray \ {n.path})
                           \cup Watch!Spoilt(n)
              /\ ripe' = Watch!RipeWithout(Watch!Without(entries, n.path),
                                           Watch!RipeWithout(entries, ripe, n.path), n.src)
              /\ timer' = "ticking"
              /\ loose' = (IF timer = "fired" \/ loose # "no" THEN "early" ELSE "no")
              /\ UNCHANGED <<folder, ops, scanner, item, running, lib, missed>>
<1>1. told \in Seq(Watch!Entry) /\ told # <<>>  BY DEF WTold, Watch!Put
<1>2. Head(told) = told[1] /\ 1 \in DOMAIN told /\ told[1] \in Watch!Entry  BY <1>1
<1>3. Told(told[1])  BY <1>2 DEF WTold
<1> QED  BY <1>1, <1>2, <1>3 DEF Watch!Put, Rest

\* The entries that stay.
LEMMA RestIs ==
    ASSUME WQueue, NEW n \in Watch!Entry, NEW p, NEW d
    PROVE  LET r == Rest(n)
           IN /\ r \in Seq(Watch!Entry) /\ Unique(r) /\ Len(r) \in Nat
              /\ \A j \in DOMAIN r : /\ r[j].path \notin {n.path, n.src}
                                     /\ \E i \in DOMAIN entries : r[j] = entries[i]
              /\ Silent(entries, p) => Silent(r, p)
              /\ LastSays(entries, p, d) =>
                   \/ LastSays(r, p, d)
                   \/ \E i \in DOMAIN entries :
                        /\ entries[i].path \in {n.path, n.src} /\ About(entries[i], p)
                        /\ (Says(entries[i], p) <=> p \in d)
<1> DEFINE q == Watch!Without(entries, n.path)
           r == Watch!Without(q, n.src)
<1>1. entries \in Seq(Watch!Entry) /\ Unique(entries)  BY DEF WQueue
<1>2. q = Watch!Without(entries, n.path) /\ r = Watch!Without(q, n.src)  OBVIOUS
<1>3. q \in Seq(Watch!Entry) /\ Unique(q)  BY <1>1, WithoutIs
<1> HIDE DEF q, r
<1>4. /\ Silent(entries, p) => Silent(q, p)
      /\ LastSays(entries, p, d) =>
           \/ LastSays(q, p, d)
           \/ \E i \in DOMAIN entries : /\ entries[i].path = n.path /\ About(entries[i], p)
                                        /\ (Says(entries[i], p) <=> p \in d)
  BY <1>2, <1>1, LogWithout
<1>5. \A j \in DOMAIN q : q[j].path # n.path /\ \E i \in DOMAIN entries : q[j] = entries[i]
  <2> TAKE j \in DOMAIN q
  <2> QED  BY <1>2, <1>1, EntryWithout
<1>6. r \in Seq(Watch!Entry) /\ Unique(r)  BY <1>2, <1>3, WithoutIs
<1>7. /\ Silent(q, p) => Silent(r, p)
      /\ LastSays(q, p, d) =>
           \/ LastSays(r, p, d)
           \/ \E i \in DOMAIN q : /\ q[i].path = n.src /\ About(q[i], p)
                                  /\ (Says(q[i], p) <=> p \in d)
  BY <1>2, <1>3, LogWithout
<1>8. \A j \in DOMAIN r : r[j].path # n.src /\ \E i \in DOMAIN q : r[j] = q[i]
  <2> TAKE j \in DOMAIN r
  <2> QED  BY <1>2, <1>3, EntryWithout
<1>9. Rest(n) = r  BY DEF Rest, q, r
<1>10. \A j \in DOMAIN r : /\ r[j].path \notin {n.path, n.src}
                          /\ \E i \in DOMAIN entries : r[j] = entries[i]
  <2> SUFFICES ASSUME NEW j \in DOMAIN r
               PROVE  /\ r[j].path \notin {n.path, n.src}
                      /\ \E i \in DOMAIN entries : r[j] = entries[i]
    OBVIOUS
  <2>1. PICK k \in DOMAIN q : r[j] = q[k]  BY <1>8
  <2> QED  BY <1>5, <1>8, <2>1
<1>11. LastSays(entries, p, d) =>
        \/ LastSays(r, p, d)
        \/ \E i \in DOMAIN entries :
             /\ entries[i].path \in {n.path, n.src} /\ About(entries[i], p)
             /\ (Says(entries[i], p) <=> p \in d)
  BY <1>4, <1>5, <1>7
<1>12. Len(r) \in Nat  BY <1>6
<1> QED  BY <1>4, <1>7, <1>6, <1>9, <1>10, <1>11, <1>12

\* put keeps one well-formed entry for each path.
LEMMA PutQueue ==
    ASSUME WatchAssumptions, WatchInv, Watch!Put
    PROVE  WSets' /\ WQueue' /\ WTold'
<1> DEFINE n == Head(told)   o == Watch!Whole(n)   r == Rest(n)
<1>1. WSets /\ WQueue /\ WTold  BY DEF WatchInv
<1>2. /\ n \in Watch!Entry /\ Told(n) /\ told # <<>> /\ told' = Tail(told)
      /\ entries' = Append(r, o)
      /\ astray' = (IF "move" \in n.op THEN astray ELSE astray \ {n.path}) \cup Watch!Spoilt(n)
      /\ UNCHANGED <<folder, ops, scanner, item, running, lib, missed>>
  BY <1>1, WPutIs
<1>3. o \in Watch!Entry /\ o.path = n.path /\ Fit(o)  BY <1>1, <1>2, WholeIs
<1>4. /\ r \in Seq(Watch!Entry) /\ Unique(r)
      /\ \A j \in DOMAIN r : r[j].path # n.path /\ \E i \in DOMAIN entries : r[j] = entries[i]
  BY <1>1, <1>2, RestIs
<1>5. Watch!Spoilt(n) \subseteq Path  BY <1>1, <1>2, SpoiltPaths
<1> HIDE DEF n, o, r
<1>6. WSets'  BY <1>1, <1>2, <1>5 DEF WSets
<1>7. WTold'
  <2>1. /\ told \in Seq(Watch!Entry) /\ told' \in Seq(Watch!Entry)
        /\ \A k \in DOMAIN told' : k + 1 \in DOMAIN told /\ told'[k] = told[k + 1]
    BY <1>1, <1>2 DEF WTold
  <2> QED  BY <1>1, <2>1 DEF WTold
<1>8. WQueue'
  <2>1. /\ entries' \in Seq(Watch!Entry)
        /\ DOMAIN entries' = DOMAIN r \cup {Len(r) + 1} /\ Len(r) + 1 \notin DOMAIN r
        /\ entries'[Len(r) + 1] = o /\ \A j \in DOMAIN r : entries'[j] = r[j]
    <3>1. entries' \in Seq(Watch!Entry) /\ Len(r) \in Nat  BY <1>2, <1>3, <1>4
    <3>2. DOMAIN r = 1..Len(r) /\ DOMAIN entries' = 1..(Len(r) + 1)  BY <1>2, <1>3, <1>4
    <3>3. entries'[Len(r) + 1] = o /\ \A j \in 1..Len(r) : entries'[j] = r[j]
      BY <1>2, <1>3, <1>4
    <3>4. \A m \in Nat : 1..(m + 1) = (1..m) \cup {m + 1} /\ m + 1 \notin 1..m  OBVIOUS
    <3> QED  BY <3>1, <3>2, <3>3, <3>4
  <2>2. Unique(entries')  BY <1>3, <1>4, <2>1 DEF Unique
  <2>3. \A i \in DOMAIN entries' : Fit(entries'[i])
    <3>1. \A j \in DOMAIN r : Fit(r[j])  BY <1>1, <1>4 DEF WQueue
    <3> QED  BY <1>3, <2>1, <3>1
  <2> QED  BY <2>1, <2>2, <2>3 DEF WQueue
<1> QED  BY <1>6, <1>7, <1>8

\* A path that is not spoilt and that the event is not about: nothing that the
\* entry of the event leaves is queued for it.
LEMMA LeftIs ==
    ASSUME WatchAssumptions, WQueue, NEW n \in Watch!Entry, Told(n), NEW p \in Path,
           p \notin Watch!Spoilt(n), p # n.path, p # n.src
    PROVE  /\ Watch!Leaves(Watch!Whole(n), p) =>
                ~Watch!Queued(p) /\ \E i \in DOMAIN entries : About(entries[i], p)
           /\ \A i \in DOMAIN entries :
                entries[i].path \in {n.path, n.src} /\ About(entries[i], p)
                => Watch!Leaves(Watch!Whole(n), p) /\ ~Says(entries[i], p)
<1> DEFINE o == Watch!Whole(n)
           e == Watch!At(n.path)
           l == Watch!At(n.src)
<1>1. p # NoPath  BY DEF WatchAssumptions
<1>2. /\ n.src = NoPath <=> "move" \notin n.op
      /\ "move" \in n.op => n.op = {"move"}
  BY ToldIs
<1>3. /\ o.path = n.path
      /\ "move" \notin n.op /\ ~Watch!Queued(n.path) => o = n
      /\ "move" \notin n.op /\ Watch!Queued(n.path) =>
           /\ o.src = e.src
           /\ "move" \in o.op <=> "move" \in e.op /\ "create" \notin n.op
      /\ Watch!Queued(n.src) =>
           /\ "move" \in n.op
           /\ "move" \in l.op => "move" \in o.op
           /\ "create" \in l.op /\ "move" \notin l.op => "move" \notin o.op
           /\ l.src # NoPath => o.src = l.src
      /\ \/ o.src \in {n.src, NoPath}
         \/ Watch!Queued(n.path) /\ o.src = e.src
         \/ Watch!Queued(n.src) /\ o.src = l.src
  BY WholeIs
<1>4. /\ Watch!Queued(n.path) /\ "move" \in n.op => p \notin {n.path, n.src, e.src}
      /\ Watch!Queued(n.path) /\ "create" \in n.op => p # e.src
      /\ Watch!Queued(n.path) /\ "move" \in e.op /\ Watch!Queued(e.src) => p # e.src
      /\ Watch!Queued(n.src) /\ "move" \in l.op /\ Watch!Queued(l.src) => p # l.src
  BY <1>1, SpoiltIs
<1>5. Watch!Queued(n.path) =>
        /\ e.path = n.path /\ \E i \in DOMAIN entries : e = entries[i]
        /\ \A i \in DOMAIN entries : entries[i].path = n.path => entries[i] = e
  BY AtIs
<1>6. Watch!Queued(n.src) =>
        /\ l.path = n.src /\ Fit(l) /\ \E i \in DOMAIN entries : l = entries[i]
        /\ \A i \in DOMAIN entries : entries[i].path = n.src => entries[i] = l
  BY AtIs
<1> HIDE DEF o, e, l
<1>7. ASSUME Watch!Leaves(o, p)
      PROVE  ~Watch!Queued(p) /\ \E i \in DOMAIN entries : About(entries[i], p)
  <2>1. "move" \in o.op /\ o.src = p  BY <1>7 DEF Watch!Leaves
  <2>2. CASE Watch!Queued(n.path) /\ o.src = e.src
    <3>1. "move" \notin n.op  BY <1>4, <2>1, <2>2
    <3>2. "move" \in e.op  BY <1>3, <2>1, <2>2, <3>1
    <3>3. ~Watch!Queued(p)  BY <1>4, <2>1, <2>2, <3>2
    <3>4. About(e, p)  BY <1>5, <2>1, <2>2, <3>2 DEF About, Watch!Leaves
    <3> QED  BY <1>5, <2>2, <3>3, <3>4
  <2>3. CASE Watch!Queued(n.src) /\ o.src = l.src
    <3>1. "move" \in l.op  BY <1>1, <1>3, <1>6, <2>1, <2>3 DEF Fit
    <3>2. ~Watch!Queued(p)  BY <1>4, <2>1, <2>3, <3>1
    <3>3. About(l, p)  BY <1>6, <2>1, <2>3, <3>1 DEF About, Watch!Leaves
    <3> QED  BY <1>6, <2>3, <3>2, <3>3
  <2> QED  BY <1>1, <1>3, <2>1, <2>2, <2>3
<1>8. ASSUME NEW i \in DOMAIN entries, entries[i].path \in {n.path, n.src}, About(entries[i], p)
      PROVE  Watch!Leaves(o, p) /\ ~Says(entries[i], p)
  <2>1. entries[i].path # p  BY <1>8
  <2>2. "move" \in entries[i].op /\ entries[i].src = p  BY <1>8, <2>1 DEF About, Watch!Leaves
  <2>3. CASE entries[i].path = n.path
    <3>1. Watch!Queued(n.path) /\ entries[i] = e  BY <1>5, <2>3 DEF Watch!Queued, Watch!Has
    <3>2. "move" \notin n.op /\ "create" \notin n.op  BY <1>4, <2>2, <3>1
    <3>3. o.src = p /\ "move" \in o.op  BY <1>3, <2>2, <3>1, <3>2
    <3> QED  BY <1>3, <2>1, <3>3 DEF Watch!Leaves, Says
  <2>4. CASE entries[i].path = n.src
    <3>1. Watch!Queued(n.src) /\ entries[i] = l  BY <1>6, <2>4 DEF Watch!Queued, Watch!Has
    <3>2. o.src = p /\ "move" \in o.op  BY <1>1, <1>3, <2>2, <3>1
    <3> QED  BY <1>3, <2>1, <3>2 DEF Watch!Leaves, Says
  <2> QED  BY <1>8, <2>3, <2>4
<1> QED  BY <1>7, <1>8 DEF o

\* The entry of an event takes its file away if the event does, but where a move
\* is merged with what else happened to its file.
LEMMA PutRemoves ==
    ASSUME WatchAssumptions, WatchInv, Watch!Put, Head(told).path \notin Watch!Spoilt(Head(told))
    PROVE  "remove" \in Watch!Whole(Head(told)).op <=> "remove" \in Head(told).op
<1> DEFINE n == Head(told)   o == Watch!Whole(n)
           e == Watch!At(n.path)   l == Watch!At(n.src)
<1>1. WQueue /\ WTold /\ WMoves2  BY DEF WatchInv
<1>2. n \in Watch!Entry /\ Told(n) /\ n = told[1] /\ 1 \in DOMAIN told  BY <1>1, WPutIs
<1>3. told \in Seq(Watch!Entry)  BY <1>1 DEF WTold
<1>4. /\ n.path \in Path /\ n.path # NoPath
      /\ (n.src = NoPath <=> "move" \notin n.op) /\ n.src # n.path
      /\ "move" \in n.op => n.op = {"move"}
  BY <1>2, ToldIs DEF WatchAssumptions
<1>5. CASE "move" \notin n.op  BY <1>1, <1>2, <1>5, WholeIs
<1>6. CASE "move" \in n.op
  <2>1. ~Watch!Queued(n.path) /\ n.src \notin astray  BY <1>4, <1>6, SpoiltIs
  <2>2. "remove" \notin n.op  BY <1>4, <1>6
  <2>3. CASE ~Watch!Queued(n.src)
    <3>1. o = n  BY <1>1, <1>2, <1>6, <2>1, <2>3, WholeIs
    <3> QED  BY <3>1
  <2>4. CASE Watch!Queued(n.src)
    <3>1. "remove" \in o.op <=> "remove" \in l.op  BY <1>1, <1>2, <1>6, <2>1, <2>4, WholeIs
    <3>2. n.src \in Path /\ l.path = n.src /\ \E i \in DOMAIN entries : l = entries[i]
      BY <1>1, <2>4, AtIs
    <3>3. Watch!Leaves(told[1], n.src)  BY <1>2, <1>4, <1>6 DEF Watch!Leaves
    <3>4. ~Between(told, n.src, 0, 1)
      <4>1. \A m \in DOMAIN told : ~(0 < m /\ m < 1)  BY <1>3
      <4> QED  BY <4>1 DEF Between
    <3>5. "remove" \notin l.op  BY <1>1, <1>2, <2>1, <3>2, <3>3, <3>4 DEF WMoves2
    <3> QED  BY <2>2, <3>1, <3>5
  <2> QED  BY <2>3, <2>4
<1> QED  BY <1>5, <1>6

\* What put leaves queued has the last word on a path that is not astray.
LEMMA PutPath ==
    ASSUME WatchAssumptions, WatchInv, Watch!Put, NEW p \in Path, p \notin astray',
           Silent(told', p)
    PROVE  WPath(p)'
<1> DEFINE n == Head(told)   o == Watch!Whole(n)   r == Rest(n)
           e == Watch!At(n.path)   l == Watch!At(n.src)
<1>1. WQueue /\ WTold /\ WLog /\ WMoves2 /\ WLib  BY DEF WatchInv
<1>2. /\ n \in Watch!Entry /\ Told(n) /\ n = told[1] /\ 1 \in DOMAIN told
      /\ told # <<>> /\ told' = Tail(told)
      /\ entries' = Append(r, o)
      /\ astray' = (IF "move" \in n.op THEN astray ELSE astray \ {n.path}) \cup Watch!Spoilt(n)
      /\ UNCHANGED <<folder, item, lib>>
  BY <1>1, WPutIs
<1>3. told \in Seq(Watch!Entry)  BY <1>1 DEF WTold
<1>4. p \notin Watch!Spoilt(n) /\ p # NoPath  BY <1>2 DEF WatchAssumptions
<1>5. o \in Watch!Entry /\ o.path = n.path  BY <1>1, <1>2, WholeIs
<1>6. /\ n.path \in Path /\ (n.src = NoPath <=> "move" \notin n.op) /\ n.src # n.path
      /\ "move" \in n.op => n.op = {"move"}
      /\ "remove" \in n.op => n.op = {"remove"}
  BY <1>2, ToldIs
<1>7. /\ r \in Seq(Watch!Entry)
      /\ \A j \in DOMAIN r : r[j].path \notin {n.path, n.src}
      /\ Silent(entries, p) => Silent(r, p)
      /\ LastSays(entries, p, folder) =>
           \/ LastSays(r, p, folder)
           \/ \E i \in DOMAIN entries :
                /\ entries[i].path \in {n.path, n.src} /\ About(entries[i], p)
                /\ (Says(entries[i], p) <=> p \in folder)
  BY <1>1, <1>2, RestIs
<1>8. /\ Silent(told, p) => ~About(n, p)
      /\ LastSays(told, p, folder) /\ ~LastSays(told', p, folder)
           => About(n, p) /\ (Says(n, p) <=> p \in folder)
  BY <1>2, <1>3, LogTail
<1>9. ~LastSays(told', p, folder)  BY DEF Silent, LastSays
<1>10. About(n, p) => (Says(n, p) <=> p \in folder)  BY <1>1, <1>8, <1>9 DEF WLog
<1> DEFINE t == Append(r, o)
<1>11. /\ About(o, p) /\ (Says(o, p) <=> p \in folder) => LastSays(t, p, folder)
       /\ ~About(o, p) /\ LastSays(r, p, folder) => LastSays(t, p, folder)
       /\ ~About(o, p) /\ Silent(r, p) => Silent(t, p)
       /\ Silent(t, p) => Silent(r, p) /\ ~About(o, p)
  BY <1>5, <1>7, LogAppend
<1>12. SUFFICES \/ LastSays(t, p, folder)
                \/ /\ Silent(t, p)
                   /\ IF About(item, p) THEN Says(item, p) <=> p \in folder
                      ELSE p \in lib <=> p \in folder
  BY <1>2 DEF WPath
<1>13. CASE p = n.path
  <2>1. Says(n, p) <=> "remove" \notin n.op  BY <1>13 DEF Says
  <2>2. Says(o, p) <=> "remove" \notin o.op  BY <1>5, <1>13 DEF Says
  <2>3. About(n, p) /\ About(o, p)  BY <1>5, <1>13 DEF About
  <2>4. "remove" \in o.op <=> "remove" \in n.op
    <3>1. n.path \notin Watch!Spoilt(n)  BY <1>4, <1>13
    <3> QED  BY <3>1, PutRemoves
  <2> QED  BY <1>10, <1>11, <2>1, <2>2, <2>3, <2>4
<1>14. CASE p = n.src
  <2>1. "move" \in n.op /\ p # n.path  BY <1>4, <1>6, <1>14
  <2>2. About(n, p) /\ ~Says(n, p)  BY <1>14, <2>1 DEF About, Says, Watch!Leaves
  <2>3. p \notin folder  BY <1>10, <2>2
  <2>4. ~Watch!Queued(n.path)  BY <1>4, <1>14, <2>1, SpoiltIs
  <2>5. CASE About(o, p)
    <3>1. ~Says(o, p)  BY <1>5, <2>1 DEF Says
    <3> QED  BY <1>11, <2>3, <2>5, <3>1
  <2>6. CASE ~About(o, p)
    <3>1. Watch!Queued(n.src)
      <4>1. ~Watch!Queued(n.src) => o = n  BY <1>1, <1>2, <2>1, <2>4, WholeIs
      <4> QED  BY <2>2, <2>6, <4>1
    <3>2. l.path = p  BY <1>1, <1>14, <3>1, AtIs
    <3>3. ~Watch!Leaves(o, l.path)  BY <2>6, <3>2 DEF About
    <3>4. p \notin lib /\ p # item.path  BY <1>4, <3>1, <3>2, <3>3, SpoiltIs
    <3>5. ~Says(item, p)  BY <3>4 DEF Says
    <3>6. Silent(r, p) \/ LastSays(r, p, folder)
      <4>1. \A j \in DOMAIN r : ~Says(r[j], p)  BY <1>7, <1>14 DEF Says
      <4> QED  BY <1>7, <2>3, <4>1, LogQuiet
    <3> QED  BY <1>11, <2>3, <2>6, <3>4, <3>5, <3>6
  <2> QED  BY <2>5, <2>6
<1>15. CASE p # n.path /\ p # n.src
  <2>1. ~About(n, p)  BY <1>15 DEF About, Watch!Leaves
  <2>2. p \notin astray  BY <1>2, <1>15
  <2>3. WPath(p)
    <3>1. ~LastSays(told, p, folder)  BY <1>2, <1>3, <1>8, <1>9, <2>1
    <3>2. Silent(told, p)  BY <1>1, <3>1 DEF WLog
    <3> QED  BY <1>1, <2>2, <3>2 DEF WLib
  <2>4. /\ Watch!Leaves(o, p) =>
             ~Watch!Queued(p) /\ \E i \in DOMAIN entries : About(entries[i], p)
        /\ \A i \in DOMAIN entries :
             entries[i].path \in {n.path, n.src} /\ About(entries[i], p)
             => Watch!Leaves(o, p) /\ ~Says(entries[i], p)
    BY <1>1, <1>2, <1>4, <1>15, LeftIs
  <2>5. About(o, p) <=> Watch!Leaves(o, p)  BY <1>5, <1>15 DEF About
  <2>6. ~Says(o, p)  BY <1>5, <1>15 DEF Says
  <2>7. CASE LastSays(entries, p, folder)
    <3>1. p \in folder => Watch!Queued(p)
      BY <2>7 DEF LastSays, Says, Watch!Queued, Watch!Has
    <3>2. CASE LastSays(r, p, folder)
      <4>1. CASE About(o, p)  BY <1>11, <2>4, <2>5, <2>6, <3>1, <4>1
      <4>2. CASE ~About(o, p)  BY <1>11, <3>2, <4>2
      <4> QED  BY <4>1, <4>2
    <3>3. CASE \E i \in DOMAIN entries :
                 /\ entries[i].path \in {n.path, n.src} /\ About(entries[i], p)
                 /\ (Says(entries[i], p) <=> p \in folder)
      BY <1>11, <2>4, <2>5, <2>6, <3>3
    <3> QED  BY <1>7, <2>7, <3>2, <3>3
  <2>8. CASE Silent(entries, p)
    <3>1. ~About(o, p)  BY <2>4, <2>5, <2>8 DEF Silent
    <3>2. Silent(t, p)  BY <1>7, <1>11, <2>8, <3>1
    <3>3. ~LastSays(entries, p, folder)  BY <2>8 DEF Silent, LastSays
    <3> QED  BY <2>3, <3>2, <3>3 DEF WPath
  <2> QED  BY <2>3, <2>7, <2>8 DEF WPath
<1> QED  BY <1>13, <1>14, <1>15

\* The first event goes: what is told of a path after it is told one place earlier.
LEMMA TailIs ==
    ASSUME NEW S, NEW s \in Seq(S), s # <<>>
    PROVE  /\ Tail(s) \in Seq(S)
           /\ \A k \in DOMAIN Tail(s) : /\ k + 1 \in DOMAIN s /\ Tail(s)[k] = s[k + 1]
                                        /\ k \in Nat /\ k > 0
           /\ \A m \in DOMAIN s : /\ m \in Nat /\ m > 0
                                  /\ m > 1 => m - 1 \in DOMAIN Tail(s) /\ Tail(s)[m - 1] = s[m]
<1>1. /\ DOMAIN s = 1..Len(s) /\ Len(s) \in Nat /\ Len(s) > 0
      /\ Tail(s) \in Seq(S) /\ DOMAIN Tail(s) = 1..(Len(s) - 1)
      /\ \A i \in 1..(Len(s) - 1) : Tail(s)[i] = s[i + 1]
  OBVIOUS
<1> DEFINE t == Tail(s)   n == Len(s)
<1> HIDE DEF t, n
<1>2. \A k \in 1..(n - 1) : k + 1 \in 1..n /\ k \in Nat /\ k > 0  BY <1>1 DEF n
<1>3. \A m \in 1..n : /\ m \in Nat /\ m > 0
                      /\ m > 1 => m - 1 \in 1..(n - 1) /\ (m - 1) + 1 = m
  BY <1>1 DEF n
<1>4. /\ DOMAIN s = 1..n /\ DOMAIN t = 1..(n - 1) /\ t \in Seq(S)
      /\ \A i \in 1..(n - 1) : t[i] = s[i + 1]
  BY <1>1 DEF t, n
<1>5. ASSUME NEW m \in 1..n, m > 1 PROVE t[m - 1] = s[m]
  <2>1. m - 1 \in 1..(n - 1) /\ (m - 1) + 1 = m  BY <1>3, <1>5
  <2> QED  BY <1>4, <2>1
<1> QED  BY <1>2, <1>3, <1>4, <1>5 DEF t

\* The entries that stay are entries.
LEMMA RestSeq ==
    ASSUME WQueue, NEW n \in Watch!Entry
    PROVE  Rest(n) \in Seq(Watch!Entry)
<1>1. entries \in Seq(Watch!Entry) /\ Unique(entries)  BY DEF WQueue
<1>2. Watch!Without(entries, n.path) \in Seq(Watch!Entry)
      /\ Unique(Watch!Without(entries, n.path))
  BY <1>1, WithoutIs
<1> QED  BY <1>2, WithoutIs DEF Rest

\* The ripe entries are among those that stay.
LEMMA RipeIs ==
    ASSUME NEW S, NEW q \in Seq(S), NEW x, NEW r \in 0..Len(q), Unique(q)
    PROVE  Watch!RipeWithout(q, r, x) \in 0..Len(Watch!Without(q, x))
<1> DEFINE k == Watch!Place(q, x)   m == Len(Watch!Without(q, x))
           v == Watch!RipeWithout(q, r, x)
<1>1. m = (IF Watch!Has(q, x) THEN Len(q) - 1 ELSE Len(q))  BY WithoutIs
<1>2. v = (IF Watch!Has(q, x) /\ k <= r THEN r - 1 ELSE r)  BY DEF Watch!RipeWithout
<1>3. Watch!Has(q, x) => k \in 1..Len(q)
  <2> SUFFICES ASSUME Watch!Has(q, x) PROVE k \in DOMAIN q  OBVIOUS
  <2>1. \E i \in DOMAIN q : q[i].path = x  BY DEF Watch!Has
  <2> QED  BY <2>1 DEF Watch!Place
<1>4. Len(q) \in Nat /\ r \in Nat /\ r <= Len(q)  OBVIOUS
<1> HIDE DEF k, m, v
<1>5. CASE Watch!Has(q, x) /\ k <= r
  <2>1. v = r - 1 /\ m = Len(q) - 1 /\ k >= 1 /\ k \in Int  BY <1>1, <1>2, <1>3, <1>5
  <2> QED  BY <1>4, <1>5, <2>1 DEF v, m
<1>6. CASE Watch!Has(q, x) /\ ~(k <= r)
  <2>1. v = r /\ m = Len(q) - 1 /\ k <= Len(q) /\ k \in Int  BY <1>1, <1>2, <1>3, <1>6
  <2> QED  BY <1>4, <1>6, <2>1 DEF v, m
<1>7. CASE ~Watch!Has(q, x)
  <2>1. v = r /\ m = Len(q)  BY <1>1, <1>2, <1>7
  <2> QED  BY <1>4, <2>1 DEF v, m
<1> QED  BY <1>5, <1>6, <1>7

\* put starts the timer again.
LEMMA PutTimers ==
    ASSUME WatchAssumptions, WatchInv, Watch!Put
    PROVE  WTimers' /\ WItem' /\ WThread' /\ WWakes'
<1> DEFINE n == Head(told)   o == Watch!Whole(n)   r == Rest(n)
           q == Watch!Without(entries, n.path)
           w == Watch!RipeWithout(entries, ripe, n.path)
<1>1. WQueue /\ WTold /\ WTimers /\ WItem /\ WThread  BY DEF WatchInv
<1>2. /\ n \in Watch!Entry /\ Told(n) /\ told # <<>> /\ told' = Tail(told)
      /\ entries' = Append(r, o)
      /\ ripe' = Watch!RipeWithout(q, w, n.src)
      /\ timer' = "ticking"
      /\ loose' = (IF timer = "fired" \/ loose # "no" THEN "early" ELSE "no")
      /\ UNCHANGED <<scanner, item, running, missed>>
  BY <1>1, WPutIs
<1>3. entries \in Seq(Watch!Entry) /\ Unique(entries)  BY <1>1 DEF WQueue
<1>4. q \in Seq(Watch!Entry) /\ Unique(q)  BY <1>3, WithoutIs
<1>5. w \in 0..Len(q)
  <2>1. ripe \in 0..Len(entries)  BY <1>1 DEF WTimers
  <2> QED  BY <1>3, <2>1, RipeIs
<1>6. ripe' \in 0..Len(r)
  <2>1. r = Watch!Without(q, n.src)  BY DEF Rest
  <2> HIDE DEF q, w, r
  <2>2. Watch!RipeWithout(q, w, n.src) \in 0..Len(Watch!Without(q, n.src))
    BY <1>4, <1>5, RipeIs
  <2> QED  BY <1>2, <2>1, <2>2
<1>7. r \in Seq(Watch!Entry)  BY <1>1, <1>2, RestSeq
<1>8. o \in Watch!Entry  BY <1>1, <1>2, WholeIs
<1> HIDE DEF n, o, r, q, w
<1>9. ripe' \in 0..Len(entries')
  <2>1. Len(entries') = Len(r) + 1 /\ Len(r) \in Nat  BY <1>2, <1>7, <1>8
  <2> QED  BY <1>6, <2>1
<1>10. WTimers'  BY <1>2, <1>9 DEF WTimers
<1>11. WItem'  BY <1>1, <1>2 DEF WItem
<1>12. running = TRUE
  <2>1. running \in BOOLEAN  BY DEF WatchInv, WSets
  <2> QED  BY <1>1, <1>2, <2>1 DEF WThread
<1>13. WThread'  BY <1>1, <1>2, <1>12 DEF WThread
<1>14. WWakes'  BY <1>1, <1>2, <1>12 DEF WWakes, WThread
<1> QED  BY <1>10, <1>11, <1>13, <1>14

\* put takes the first of what is told.
LEMMA PutLog ==
    ASSUME WatchAssumptions, WatchInv, Watch!Put
    PROVE  WLog' /\ WMoves1'
<1>1. WTold /\ WLog /\ WMoves1  BY DEF WatchInv
<1>2. told # <<>> /\ told' = Tail(told) /\ folder' = folder  BY DEF Watch!Put
<1>3. told \in Seq(Watch!Entry)  BY <1>1 DEF WTold
<1>4. WLog'
  <2> SUFFICES ASSUME NEW p \in Path
               PROVE  Silent(told', p) \/ LastSays(told', p, folder)
    BY <1>2 DEF WLog
  <2>1. /\ Silent(told, p) => Silent(Tail(told), p) /\ ~About(Head(told), p)
        /\ LastSays(told, p, folder) =>
             \/ LastSays(Tail(told), p, folder)
             \/ /\ Silent(Tail(told), p) /\ About(Head(told), p)
                /\ (Says(Head(told), p) <=> p \in folder)
    BY <1>2, <1>3, LogTail
  <2> QED  BY <1>1, <1>2, <2>1 DEF WLog
<1>5. /\ \A k \in DOMAIN told' : /\ k + 1 \in DOMAIN told /\ told'[k] = told[k + 1]
                                 /\ k \in Nat /\ k > 0
      /\ \A m \in DOMAIN told : /\ m \in Nat /\ m > 0
                                /\ m > 1 => m - 1 \in DOMAIN told' /\ told'[m - 1] = told[m]
  <2>1. /\ Tail(told) \in Seq(Watch!Entry)
        /\ \A k \in DOMAIN Tail(told) : /\ k + 1 \in DOMAIN told /\ Tail(told)[k] = told[k + 1]
                                        /\ k \in Nat /\ k > 0
        /\ \A m \in DOMAIN told :
             /\ m \in Nat /\ m > 0
             /\ m > 1 => m - 1 \in DOMAIN Tail(told) /\ Tail(told)[m - 1] = told[m]
    BY <1>2, <1>3, TailIs
  <2> QED  BY <1>2, <2>1
<1>6. WMoves1'
  <2> SUFFICES ASSUME NEW p \in Path, NEW k \in DOMAIN told', NEW l \in DOMAIN told',
                      k < l, Watch!Leaves(told'[l], p), About(told'[k], p), ~Says(told'[k], p)
               PROVE  Between(told', p, k, l)
    BY DEF WMoves1
  <2>1. k + 1 \in DOMAIN told /\ l + 1 \in DOMAIN told /\ k \in Nat /\ l \in Nat
        /\ told'[k] = told[k + 1] /\ told'[l] = told[l + 1] /\ k > 0
    BY <1>5
  <2>2. k + 1 < l + 1  BY <2>1
  <2>3. Between(told, p, k + 1, l + 1)  BY <1>1, <2>1, <2>2 DEF WMoves1
  <2>4. PICK m \in DOMAIN told : k + 1 < m /\ m < l + 1 /\ About(told[m], p)
    BY <2>3 DEF Between
  <2>5. m \in Nat /\ m > 1 /\ k < m - 1 /\ m - 1 < l  BY <1>5, <2>1, <2>4
  <2>6. m - 1 \in DOMAIN told' /\ told'[m - 1] = told[m]  BY <1>5, <2>5
  <2> QED  BY <2>4, <2>5, <2>6 DEF Between
<1> QED  BY <1>4, <1>6

\* put queues no removal of a file that a move is told of.
LEMMA PutMoves ==
    ASSUME WatchAssumptions, WatchInv, Watch!Put
    PROVE  WMoves2'
<1> DEFINE n == Head(told)   o == Watch!Whole(n)   r == Rest(n)
<1>1. WQueue /\ WTold /\ WMoves1 /\ WMoves2  BY DEF WatchInv
<1>2. /\ n \in Watch!Entry /\ Told(n) /\ n = told[1] /\ 1 \in DOMAIN told
      /\ told # <<>> /\ told' = Tail(told)
      /\ entries' = Append(r, o)
      /\ astray' = (IF "move" \in n.op THEN astray ELSE astray \ {n.path}) \cup Watch!Spoilt(n)
  BY <1>1, WPutIs
<1>3. told \in Seq(Watch!Entry)  BY <1>1 DEF WTold
<1>4. /\ \A k \in DOMAIN told' : /\ k + 1 \in DOMAIN told /\ told'[k] = told[k + 1]
                                 /\ k \in Nat /\ k > 0
      /\ \A m \in DOMAIN told : /\ m \in Nat /\ m > 0
                                /\ m > 1 => m - 1 \in DOMAIN told' /\ told'[m - 1] = told[m]
  <2>1. /\ Tail(told) \in Seq(Watch!Entry)
        /\ \A k \in DOMAIN Tail(told) : /\ k + 1 \in DOMAIN told /\ Tail(told)[k] = told[k + 1]
                                        /\ k \in Nat /\ k > 0
        /\ \A m \in DOMAIN told :
             /\ m \in Nat /\ m > 0
             /\ m > 1 => m - 1 \in DOMAIN Tail(told) /\ Tail(told)[m - 1] = told[m]
    BY <1>2, <1>3, TailIs
  <2> QED  BY <1>2, <2>1
<1>5. o \in Watch!Entry /\ o.path = n.path  BY <1>1, <1>2, WholeIs
<1>6. /\ (n.src = NoPath <=> "move" \notin n.op)
      /\ "remove" \in n.op => n.op = {"remove"}
  BY <1>2, ToldIs
<1>7. /\ r \in Seq(Watch!Entry)
      /\ \A j \in DOMAIN r : /\ r[j].path \notin {n.path, n.src}
                             /\ \E i \in DOMAIN entries : r[j] = entries[i]
  <2>1. /\ r \in Seq(Watch!Entry) /\ Unique(r) /\ Len(r) \in Nat
        /\ \A j \in DOMAIN r : /\ r[j].path \notin {n.path, n.src}
                               /\ \E i \in DOMAIN entries : r[j] = entries[i]
        /\ Silent(entries, n) => Silent(r, n)
        /\ LastSays(entries, n, {}) =>
             \/ LastSays(r, n, {})
             \/ \E i \in DOMAIN entries :
                  /\ entries[i].path \in {n.path, n.src} /\ About(entries[i], n)
                  /\ (Says(entries[i], n) <=> n \in {})
    BY <1>1, <1>2, RestIs
  <2> QED  BY <2>1
<1> SUFFICES ASSUME NEW p \in Path, p \notin astray', NEW l \in DOMAIN told',
                    NEW i \in DOMAIN entries', Watch!Leaves(told'[l], p),
                    entries'[i].path = p, "remove" \in entries'[i].op
             PROVE  Between(told', p, 0, l)
  BY DEF WMoves2
<1>8. p \notin Watch!Spoilt(n) /\ (p # n.path => p \notin astray)  BY <1>2
<1>9. l + 1 \in DOMAIN told /\ told'[l] = told[l + 1] /\ l \in Nat /\ l > 0  BY <1>4
<1>10. entries'[i] = o \/ \E j \in DOMAIN r : entries'[i] = r[j]
  <2> HIDE DEF n, o, r
  <2>1. DOMAIN entries' = 1..(Len(r) + 1) /\ DOMAIN r = 1..Len(r) /\ Len(r) \in Nat
        /\ entries'[Len(r) + 1] = o /\ \A j \in 1..Len(r) : entries'[j] = r[j]
    BY <1>2, <1>5, <1>7
  <2>2. \A m \in Nat : \A k \in 1..(m + 1) : k = m + 1 \/ k \in 1..m  OBVIOUS
  <2> QED  BY <2>1, <2>2
<1>11. CASE p = n.path
  <2>1. entries'[i] = o  BY <1>7, <1>10, <1>11
  <2>2. "remove" \in n.op
    <3>1. n.path \notin Watch!Spoilt(n)  BY <1>8, <1>11
    <3>2. "remove" \in o.op <=> "remove" \in n.op  BY <3>1, PutRemoves
    <3> QED  BY <2>1, <3>2
  <2>3. About(told[1], p) /\ ~Says(told[1], p)  BY <1>2, <1>11, <2>2 DEF About, Says
  <2>4. 1 < l + 1  BY <1>9
  <2>5. Between(told, p, 1, l + 1)  BY <1>1, <1>2, <1>9, <2>3, <2>4 DEF WMoves1
  <2>6. PICK m \in DOMAIN told : 1 < m /\ m < l + 1 /\ About(told[m], p)
    BY <2>5 DEF Between
  <2>7. m \in Nat /\ m > 1 /\ 0 < m - 1 /\ m - 1 < l  BY <1>4, <1>9, <2>6
  <2>8. m - 1 \in DOMAIN told' /\ told'[m - 1] = told[m]  BY <1>4, <2>7
  <2> QED  BY <2>6, <2>7, <2>8 DEF Between
<1>12. CASE p # n.path
  <2>1. PICK j \in DOMAIN entries : entries'[i] = entries[j] /\ p # n.src
    BY <1>5, <1>7, <1>10, <1>12
  <2>2. Between(told, p, 0, l + 1)
    BY <1>1, <1>8, <1>9, <1>12, <2>1 DEF WMoves2
  <2>3. PICK m \in DOMAIN told : 0 < m /\ m < l + 1 /\ About(told[m], p)
    BY <2>2 DEF Between
  <2>4. m # 1  BY <1>2, <1>12, <2>1, <2>3 DEF About, Watch!Leaves
  <2>5. m \in Nat /\ m > 1 /\ 0 < m - 1 /\ m - 1 < l  BY <1>4, <1>9, <2>3, <2>4
  <2>6. m - 1 \in DOMAIN told' /\ told'[m - 1] = told[m]  BY <1>4, <2>5
  <2> QED  BY <2>3, <2>5, <2>6 DEF Between
<1> QED  BY <1>11, <1>12

\* put keeps the invariant.
LEMMA PutKeeps ==
    ASSUME WatchAssumptions, WatchInv, Watch!Put
    PROVE  WatchInv'
<1>1. WSets' /\ WQueue' /\ WTold'  BY PutQueue
<1>2. WTimers' /\ WItem' /\ WThread' /\ WWakes'  BY PutTimers
<1>3. WLog' /\ WMoves1'  BY PutLog
<1>4. WMoves2'  BY PutMoves
<1>5. WLib'
  <2> SUFFICES ASSUME NEW p \in Path, p \notin astray', Silent(told', p) PROVE WPath(p)'
    BY DEF WLib
  <2> QED  BY PutPath
<1> QED  BY <1>1, <1>2, <1>3, <1>4, <1>5 DEF WatchInv

\* The last word is about one path alone.
LEMMA SameSays ==
    ASSUME NEW s, NEW p, NEW d, NEW f, p \in d <=> p \in f
    PROVE  LastSays(s, p, d) <=> LastSays(s, p, f)
  BY DEF LastSays

\* A change of the disk that watchdog will tell as n.
LEMMA ChangeKeeps ==
    ASSUME WatchAssumptions, WatchInv, NEW n \in Watch!Entry, Told(n),
           running, ops < MaxOps, ops' = ops + 1, told' = Append(told, n), folder' \subseteq Path,
           \A p \in Path : About(n, p) => (Says(n, p) <=> p \in folder'),
           \A p \in Path : ~About(n, p) => (p \in folder <=> p \in folder'),
           \A p \in Path : Watch!Leaves(n, p) => p \in folder,
           UNCHANGED <<entries, ripe, timer, loose, scanner, item, running, lib, missed, astray>>
    PROVE  WatchInv'
<1>1. /\ WSets /\ WQueue /\ WTold /\ WTimers /\ WItem /\ WThread /\ WWakes
      /\ WLog /\ WMoves1 /\ WMoves2 /\ WLib
  BY DEF WatchInv
<1>2. told \in Seq(Watch!Entry)  BY <1>1 DEF WTold
<1> DEFINE m == Len(told)
<1>3. /\ DOMAIN told = 1..m /\ m \in Nat /\ DOMAIN told' = 1..(m + 1)
      /\ told'[m + 1] = n /\ \A i \in 1..m : told'[i] = told[i]
      /\ told' \in Seq(Watch!Entry)
  BY <1>2
<1> HIDE DEF m
<1>4. /\ m + 1 \in DOMAIN told' /\ DOMAIN told \subseteq DOMAIN told'
      /\ \A i \in DOMAIN told' : i \in DOMAIN told \/ i = m + 1
      /\ \A i \in DOMAIN told : 0 < i /\ i < m + 1 /\ ~(m + 1 < i) /\ i \in Int
  BY <1>3
<1>5. WSets'
  <2>1. ops + 1 \in 0..MaxOps  BY <1>1 DEF WSets, WatchAssumptions
  <2> QED  BY <1>1, <2>1 DEF WSets
<1>6. WQueue' /\ WTimers' /\ WItem' /\ WWakes'
  BY <1>1 DEF WQueue, WTimers, WItem, WWakes
<1>7. WThread'
  <2>1. running = TRUE  BY <1>1 DEF WSets
  <2> QED  BY <1>1, <2>1 DEF WThread
<1>8. WTold'  BY <1>1, <1>3, <1>4 DEF WTold
<1>9. WLog'
  <2> SUFFICES ASSUME NEW p \in Path PROVE Silent(told', p) \/ LastSays(told', p, folder')
    BY DEF WLog
  <2> DEFINE t == Append(told, n)
  <2>1. /\ About(n, p) /\ (Says(n, p) <=> p \in folder') => LastSays(t, p, folder')
        /\ ~About(n, p) /\ LastSays(told, p, folder') => LastSays(t, p, folder')
        /\ ~About(n, p) /\ Silent(told, p) => Silent(t, p)
        /\ Silent(t, p) => Silent(told, p) /\ ~About(n, p)
    BY <1>2, LogAppend
  <2>2. ~About(n, p) => (LastSays(told, p, folder) <=> LastSays(told, p, folder'))
    BY SameSays
  <2> HIDE DEF t
  <2>3. told' = t  BY DEF t
  <2> QED  BY <1>1, <2>1, <2>2, <2>3 DEF WLog
<1>10. \A p, k, l : Between(told, p, k, l) => Between(told', p, k, l)
  BY <1>3, <1>4 DEF Between
<1>11. WMoves1'
  <2> SUFFICES ASSUME NEW p \in Path, NEW k \in DOMAIN told', NEW l \in DOMAIN told',
                      k < l, Watch!Leaves(told'[l], p), About(told'[k], p), ~Says(told'[k], p)
               PROVE  Between(told', p, k, l)
    BY DEF WMoves1
  <2>1. CASE l \in DOMAIN told
    <3>1. k \in DOMAIN told  BY <1>4, <2>1
    <3>2. told'[k] = told[k] /\ told'[l] = told[l]  BY <1>3, <2>1, <3>1
    <3> QED  BY <1>1, <1>10, <2>1, <3>1, <3>2 DEF WMoves1
  <2>2. CASE l = m + 1
    <3>1. k \in DOMAIN told
      <4>1. ~(m + 1 < m + 1)  BY <1>3
      <4> QED  BY <1>4, <2>2, <4>1
    <3>2. told'[k] = told[k] /\ told'[l] = n  BY <1>3, <2>2, <3>1
    <3>3. p \in folder  BY <3>2
    <3>4. LastSays(told, p, folder)  BY <1>1, <3>1, <3>2 DEF WLog, Silent
    <3>5. PICK i \in DOMAIN told :
            /\ About(told[i], p) /\ (Says(told[i], p) <=> p \in folder)
            /\ \A j \in DOMAIN told : j > i => ~About(told[j], p)
      BY <3>4 DEF LastSays
    <3>6. i # k /\ ~(k > i)  BY <3>1, <3>2, <3>3, <3>5
    <3>7. k < i /\ i < l
      <4>1. i < m + 1 /\ i \in Int /\ k \in Int  BY <1>4, <3>1
      <4> QED  BY <2>2, <3>6, <4>1
    <3>8. About(told'[i], p) /\ i \in DOMAIN told'  BY <1>3, <1>4, <3>5
    <3> QED  BY <3>7, <3>8 DEF Between
  <2> QED  BY <1>4, <2>1, <2>2
<1>12. WMoves2'
  <2> SUFFICES ASSUME NEW p \in Path \ astray, NEW l \in DOMAIN told',
                      NEW i \in DOMAIN entries, Watch!Leaves(told'[l], p),
                      entries[i].path = p, "remove" \in entries[i].op
               PROVE  Between(told', p, 0, l)
    BY DEF WMoves2
  <2>1. CASE l \in DOMAIN told
    <3>1. told'[l] = told[l]  BY <1>3, <2>1
    <3> QED  BY <1>1, <1>10, <2>1, <3>1 DEF WMoves2
  <2>2. CASE l = m + 1
    <3>1. p \in folder  BY <1>3, <2>2
    <3>2. ~Silent(told, p)
      <4> SUFFICES ASSUME Silent(told, p) PROVE FALSE  OBVIOUS
      <4>1. WPath(p)  BY <1>1 DEF WLib
      <4>2. About(entries[i], p)  BY DEF About
      <4>3. LastSays(entries, p, folder)  BY <4>1, <4>2 DEF WPath, Silent
      <4>4. PICK j \in DOMAIN entries : Says(entries[j], p)  BY <3>1, <4>3 DEF LastSays
      <4>5. j = i  BY <1>1, <4>4 DEF Says, WQueue, Unique
      <4> QED  BY <4>4, <4>5 DEF Says
    <3>3. LastSays(told, p, folder)  BY <1>1, <3>2 DEF WLog
    <3>4. PICK j \in DOMAIN told : About(told[j], p)  BY <3>3 DEF LastSays
    <3>5. 0 < j /\ j < l  BY <1>4, <2>2
    <3>6. About(told'[j], p) /\ j \in DOMAIN told'  BY <1>3, <1>4, <3>4
    <3> QED  BY <3>5, <3>6 DEF Between
  <2> QED  BY <1>4, <2>1, <2>2
<1>13. WLib'
  <2> SUFFICES ASSUME NEW p \in Path \ astray, Silent(told', p) PROVE WPath(p)'
    BY DEF WLib
  <2>1. Silent(told, p) /\ ~About(n, p)
    <3> DEFINE t == Append(told, n)
    <3>1. /\ About(n, p) /\ (Says(n, p) <=> p \in folder') => LastSays(t, p, folder')
          /\ ~About(n, p) /\ LastSays(told, p, folder') => LastSays(t, p, folder')
          /\ ~About(n, p) /\ Silent(told, p) => Silent(t, p)
          /\ Silent(t, p) => Silent(told, p) /\ ~About(n, p)
      BY <1>2, LogAppend
    <3> HIDE DEF t
    <3>2. told' = t  BY DEF t
    <3> QED  BY <3>1, <3>2
  <2>2. p \in folder <=> p \in folder'  BY <2>1
  <2>3. LastSays(entries, p, folder) <=> LastSays(entries, p, folder')  BY <2>2, SameSays
  <2>4. WPath(p)  BY <1>1, <2>1 DEF WLib
  <2> QED  BY <2>2, <2>3, <2>4 DEF WPath
<1> QED
  BY <1>5, <1>6, <1>7, <1>8, <1>9, <1>11, <1>12, <1>13 DEF WatchInv

\* Every change of the disk keeps the invariant.
LEMMA DiskKeeps ==
    ASSUME WatchAssumptions, WatchInv, NEW p \in Path,
           \/ Watch!Created(p) \/ Watch!Modified(p) \/ Watch!Deleted(p)
           \/ \E s \in Path : Watch!Moved(s, p)
    PROVE  WatchInv'
<1>1. folder \subseteq Path /\ NoPath \notin Path  BY DEF WatchInv, WSets, WatchAssumptions
<1>2. ASSUME NEW op \in SUBSET Watch!Flag, NEW src \in Path \cup {NoPath},
             Watch!Changes(p, op, src), folder' \subseteq Path,
             Told([path |-> p, op |-> op, src |-> src]),
             p \in folder' <=> "remove" \notin op,
             src # NoPath => src \in folder /\ src \notin folder',
             \A x \in Path : x # p /\ x # src => (x \in folder <=> x \in folder')
      PROVE  WatchInv'
  <2> DEFINE n == [path |-> p, op |-> op, src |-> src]
  <2>1. n \in Watch!Entry /\ n.path = p /\ n.op = op /\ n.src = src  BY DEF Watch!Entry
  <2>2. Told(n)  BY <1>2
  <2>3. /\ running /\ ops < MaxOps /\ ops' = ops + 1 /\ told' = Append(told, n)
        /\ UNCHANGED <<entries, ripe, timer, loose, scanner, item, running, lib, missed, astray>>
    BY <1>2 DEF Watch!Changes, Watch!timers
  <2> HIDE DEF n
  <2>4. ("move" \in op <=> src # NoPath) /\ src # p  BY <1>1, <2>1, <2>2, ToldIs
  <2>5. \A x \in Path : /\ About(n, x) <=> x = p \/ x = src
                        /\ Watch!Leaves(n, x) <=> x = src
                        /\ Says(n, x) <=> x = p /\ "remove" \notin op
    BY <1>1, <2>1, <2>4 DEF About, Says, Watch!Leaves
  <2>6. \A x \in Path : About(n, x) => (Says(n, x) <=> x \in folder')
    BY <1>1, <1>2, <2>4, <2>5
  <2>7. \A x \in Path : ~About(n, x) => (x \in folder <=> x \in folder')  BY <1>2, <2>5
  <2>8. \A x \in Path : Watch!Leaves(n, x) => x \in folder  BY <1>1, <1>2, <2>5
  <2> QED  BY <1>2, <2>1, <2>2, <2>3, <2>6, <2>7, <2>8, ChangeKeeps
<1>3. CASE Watch!Created(p)
  <2> DEFINE op == {"scan", "create"}
  <2>1. Watch!Changes(p, op, NoPath) /\ folder' = folder \cup {p}  BY <1>3 DEF Watch!Created
  <2>2. Told([path |-> p, op |-> op, src |-> NoPath])  BY DEF Told
  <2>3. op \in SUBSET Watch!Flag /\ "remove" \notin op  BY DEF Watch!Flag
  <2> HIDE DEF op
  <2> QED  BY <1>1, <1>2, <2>1, <2>2, <2>3
<1>4. CASE Watch!Modified(p)
  <2> DEFINE op == {"scan"}
  <2>1. Watch!Changes(p, op, NoPath) /\ folder' = folder /\ p \in folder
    BY <1>4 DEF Watch!Modified
  <2>2. Told([path |-> p, op |-> op, src |-> NoPath])  BY DEF Told
  <2>3. op \in SUBSET Watch!Flag /\ "remove" \notin op  BY DEF Watch!Flag
  <2> HIDE DEF op
  <2> QED  BY <1>1, <1>2, <2>1, <2>2, <2>3
<1>5. CASE Watch!Deleted(p)
  <2> DEFINE op == {"remove"}
  <2>1. Watch!Changes(p, op, NoPath) /\ folder' = folder \ {p}  BY <1>5 DEF Watch!Deleted
  <2>2. Told([path |-> p, op |-> op, src |-> NoPath])  BY DEF Told
  <2>3. op \in SUBSET Watch!Flag /\ "remove" \in op  BY DEF Watch!Flag
  <2> HIDE DEF op
  <2> QED  BY <1>1, <1>2, <2>1, <2>2, <2>3
<1>6. ASSUME NEW s \in Path, Watch!Moved(s, p) PROVE WatchInv'
  <2> DEFINE op == {"move"}
  <2>1. Watch!Changes(p, op, s) /\ folder' = (folder \ {s}) \cup {p} /\ s \in folder /\ s # p
    BY <1>6 DEF Watch!Moved
  <2>2. Told([path |-> p, op |-> op, src |-> s])  BY <2>1 DEF Told
  <2>3. op \in SUBSET Watch!Flag /\ "remove" \notin op  BY DEF Watch!Flag
  <2> HIDE DEF op
  <2> QED  BY <1>1, <1>2, <2>1, <2>2, <2>3
<1> QED  BY <1>3, <1>4, <1>5, <1>6

\* The timers and the thread wake, and nothing else moves.
WStill == UNCHANGED <<folder, told, entries, item, lib, ops, astray>>

\* What such a step keeps.
LEMMA WStillKeeps ==
    ASSUME WatchInv, WStill
    PROVE  WQueue' /\ WTold' /\ WLog' /\ WMoves1' /\ WMoves2' /\ WLib'
<1>1. WQueue /\ WTold /\ WLog /\ WMoves1 /\ WMoves2 /\ WLib  BY DEF WatchInv
<1>2. WQueue' /\ WTold' /\ WLog'  BY <1>1 DEF WStill, WQueue, WTold, WLog
<1>3. WMoves1' /\ WMoves2'  BY <1>1 DEF WStill, WMoves1, WMoves2
<1>4. \A p \in Path : WPath(p)' <=> WPath(p)  BY DEF WStill, WPath
<1>5. WLib'  BY <1>1, <1>4 DEF WStill, WLib
<1> QED  BY <1>2, <1>3, <1>5

\* The entries ripen, and the timer fires.
LEMMA TimerKeeps ==
    ASSUME WatchAssumptions, WatchInv, Watch!Ripens \/ Watch!Fire
    PROVE  WatchInv'
<1>1. WSets /\ WQueue /\ WTimers /\ WItem /\ WThread /\ WWakes  BY DEF WatchInv
<1>2. WStill /\ UNCHANGED <<loose, scanner, running, missed>>
  BY DEF Watch!Ripens, Watch!Fire, WStill, Watch!world, Watch!timers
<1>3. Len(entries) \in Nat  BY <1>1 DEF WQueue
<1>4. WTimers'
  <2>1. CASE Watch!Ripens
    <3>1. ripe < Len(entries) /\ ripe' = ripe + 1 /\ timer' = timer
      BY <2>1 DEF Watch!Ripens, Watch!timers
    <3>2. ripe' \in 0..Len(entries) /\ ripe # Len(entries)  BY <1>1, <1>3, <3>1 DEF WTimers
    <3> QED  BY <1>1, <1>2, <3>1, <3>2 DEF WTimers, WStill
  <2>2. CASE Watch!Fire
    <3>1. timer = "ticking" /\ ripe = Len(entries) /\ timer' = "fired" /\ ripe' = ripe
      BY <2>2 DEF Watch!Fire
    <3> QED  BY <1>1, <1>2, <3>1 DEF WTimers, WStill
  <2> QED  BY <2>1, <2>2
<1>5. timer' = timer \/ timer' = "fired"
  BY DEF Watch!Ripens, Watch!Fire, Watch!timers
<1>6. WSets' /\ WItem' /\ WThread'  BY <1>1, <1>2 DEF WSets, WItem, WThread, WStill
<1>7. WWakes'  BY <1>1, <1>2, <1>5 DEF WWakes, WStill
<1>8. WQueue' /\ WTold' /\ WLog' /\ WMoves1' /\ WMoves2' /\ WLib'  BY <1>2, WStillKeeps
<1> QED  BY <1>4, <1>6, <1>7, <1>8 DEF WatchInv

\* A timer's notification.
LEMMA NotifyKeeps ==
    ASSUME WatchAssumptions, WatchInv,
           Watch!Wakeup \/ Watch!WakeupLoose
    PROVE  WatchInv'
<1>1. WSets /\ WQueue /\ WTimers /\ WItem /\ WThread /\ WWakes  BY DEF WatchInv
<1>2. /\ WStill /\ ripe' = ripe
      /\ scanner' = (IF scanner = "wait" THEN "woken" ELSE scanner)
  BY DEF Watch!Wakeup, Watch!WakeupLoose, Watch!Notify, WStill,
         Watch!world, Watch!timers
<1>3. WItem'  BY <1>1, <1>2 DEF WItem, WStill
<1>4. WQueue' /\ WTold' /\ WLog' /\ WMoves1' /\ WMoves2' /\ WLib'  BY <1>2, WStillKeeps
<1>5. missed \in BOOLEAN /\ running \in BOOLEAN  BY <1>1 DEF WSets
<1>6. CASE Watch!Wakeup
  <2>1. /\ timer = "fired" /\ timer' = "none" /\ loose' = loose /\ running' = running
        /\ missed' = (missed \/ (scanner \in {"close", "sleep"} /\ entries # <<>>))
    BY <1>6 DEF Watch!Wakeup, Watch!Notify
  <2>2. missed' \in BOOLEAN  BY <1>5, <2>1
  <2>3. WSets'  BY <1>1, <1>2, <2>1, <2>2 DEF WSets, WStill
  <2>4. WTimers'  BY <1>1, <1>2, <2>1 DEF WTimers, WStill
  <2>5. WThread'  BY <1>1, <1>2, <2>1 DEF WThread, WStill
  <2>6. WWakes'  BY <1>1, <1>2, <2>1 DEF WWakes, WStill, WThread
  <2> QED  BY <1>3, <1>4, <2>3, <2>4, <2>5, <2>6 DEF WatchInv
<1>7. CASE Watch!WakeupLoose
  <2>1. /\ loose = "early" \/ (loose = "last" /\ ripe = Len(entries))
        /\ timer' = "none" /\ loose' = (IF timer = "none" THEN "no" ELSE "last")
        /\ running' = running
        /\ missed' = (missed \/ (scanner \in {"close", "sleep"} /\ entries # <<>>))
    BY <1>7 DEF Watch!WakeupLoose, Watch!Notify
  <2>2. missed' \in BOOLEAN  BY <1>5, <2>1
  <2>3. WSets'  BY <1>1, <1>2, <2>1, <2>2 DEF WSets, WStill
  <2>4. WTimers'  BY <1>1, <1>2, <2>1 DEF WTimers, WStill
  <2>5. WThread'  BY <1>1, <1>2, <2>1 DEF WThread, WStill
  <2>6. WWakes'  BY <1>1, <1>2, <2>1 DEF WWakes, WStill, WThread
  <2> QED  BY <1>3, <1>4, <2>3, <2>4, <2>5, <2>6 DEF WatchInv
<1> QED  BY <1>6, <1>7

\* stop(): nothing more is told, and what was not goes astray.
LEMMA StopKeeps ==
    ASSUME WatchAssumptions, WatchInv, Watch!Stop
    PROVE  WatchInv'
<1>1. /\ WSets /\ WQueue /\ WTold /\ WTimers /\ WItem /\ WThread /\ WWakes
      /\ WLib
  BY DEF WatchInv
<1>2. /\ running /\ running' = FALSE /\ told' = <<>>
      /\ astray' = astray \cup {p \in Path : \E k \in DOMAIN told : p = told[k].path
                                                                      \/ p = told[k].src}
      /\ scanner' = (IF scanner = "wait" THEN "woken" ELSE scanner)
      /\ missed' = (missed \/ (scanner \in {"close"} /\ entries # <<>>))
      /\ UNCHANGED <<folder, ops, entries, ripe, timer, loose, item, lib>>
  BY DEF Watch!Stop, Watch!Notify, Watch!timers
<1>3. DOMAIN told' = {} /\ told' \in Seq(Watch!Entry)  BY <1>2
<1>4. missed \in BOOLEAN /\ missed' \in BOOLEAN  BY <1>1, <1>2 DEF WSets
<1>5. WSets'
  <2>1. astray' \subseteq Path  BY <1>1, <1>2 DEF WSets
  <2> QED  BY <1>1, <1>2, <1>4, <2>1 DEF WSets
<1>6. WQueue' /\ WTimers' /\ WItem'  BY <1>1, <1>2 DEF WQueue, WTimers, WItem
<1>7. WTold' /\ WLog' /\ WMoves1' /\ WMoves2'
  BY <1>2, <1>3 DEF WTold, WLog, WMoves1, WMoves2, Silent
<1>8. WThread' /\ WWakes'  BY <1>1, <1>2, <1>4 DEF WThread, WWakes
<1>9. WLib'
  <2> SUFFICES ASSUME NEW p \in Path, p \notin astray' PROVE WPath(p)'
    BY DEF WLib
  <2>1. p \notin astray /\ \A k \in DOMAIN told : p # told[k].path /\ p # told[k].src
    BY <1>2
  <2>3. Silent(told, p)  BY <2>1 DEF Silent, About, Watch!Leaves
  <2>4. WPath(p)  BY <1>1, <2>1, <2>3 DEF WLib
  <2> QED  BY <1>2, <2>4 DEF WPath
<1> QED  BY <1>5, <1>6, <1>7, <1>8, <1>9 DEF WatchInv

\* The thread goes from one place to the next.
LEMMA GoesKeeps ==
    ASSUME WatchAssumptions, WatchInv,
           Watch!Loop \/ Watch!Slept \/ Watch!Woken \/ Watch!PassEnds
    PROVE  WatchInv'
<1>1. WSets /\ WQueue /\ WTimers /\ WItem /\ WThread /\ WWakes  BY DEF WatchInv
<1>2. PICK from, to :
        /\ scanner = from /\ scanner' = to /\ missed' = (missed /\ to # "pass")
        /\ WStill /\ UNCHANGED <<ripe, timer, loose, running>>
        /\ \/ from = "close" /\ to = IF running THEN "sleep" ELSE "ended"
           \/ /\ from = "sleep"
              /\ to = IF running THEN "wait" ELSE IF entries = <<>> THEN "ended" ELSE "pass"
           \/ from = "woken" /\ to = IF entries = <<>> THEN "close" ELSE "pass"
           \/ /\ from = "pass" /\ to = "close"
              /\ item = Watch!NoItem /\ ~Watch!Ready
  BY DEF Watch!Loop, Watch!Slept, Watch!Woken, Watch!PassEnds, Watch!Goes, WStill,
         Watch!world, Watch!timers
<1>3. missed \in BOOLEAN /\ running \in BOOLEAN  BY <1>1 DEF WSets
<1>4. missed' \in BOOLEAN /\ (missed' <=> missed /\ to # "pass")  BY <1>2, <1>3
<1>5. WQueue' /\ WTold' /\ WLog' /\ WMoves1' /\ WMoves2' /\ WLib'  BY <1>2, WStillKeeps
<1>6. WSets'  BY <1>1, <1>2, <1>4 DEF WSets, WStill
<1>7. WTimers'  BY <1>1, <1>2 DEF WTimers, WStill
<1>8. WItem'  BY <1>1, <1>2 DEF WItem, WStill
<1>9. WThread'  BY <1>1, <1>2, <1>3 DEF WThread, WStill
<1>10. WWakes'
  <2>1. CASE from \in {"close", "sleep", "woken"}
    BY <1>1, <1>2, <1>3, <1>4, <2>1 DEF WWakes, WStill, WThread
  <2>2. CASE from = "pass"
    <3>1. to = "close" /\ ~(entries # <<>> /\ (ripe > 0 \/ ~running))
      BY <1>2, <2>2 DEF Watch!Ready
    <3>2. ASSUME entries # <<>> PROVE running /\ (timer # "none" \/ loose # "no")
      <4>1. running /\ ~(ripe > 0)  BY <3>1, <3>2
      <4>2. Len(entries) > 0 /\ Len(entries) \in Nat
        <5>1. entries \in Seq(Watch!Entry)  BY <1>1 DEF WQueue
        <5> QED  BY <3>2, <5>1
      <4>3. ripe # Len(entries)  BY <4>1, <4>2
      <4> QED  BY <1>1, <4>1, <4>3 DEF WTimers
    <3> QED  BY <1>2, <1>3, <2>2, <3>1, <3>2 DEF WWakes, WStill
  <2>3. from \in {"close", "sleep", "woken"} \/ from = "pass"
    BY <1>2
  <2> QED  BY <2>1, <2>2, <2>3
<1> QED  BY <1>5, <1>6, <1>7, <1>8, <1>9, <1>10 DEF WatchInv

\* No entry is about no path.
LEMMA NoItemIs ==
    ASSUME WatchAssumptions, NEW p \in Path
    PROVE  ~About(Watch!NoItem, p)
  BY DEF WatchAssumptions, About, Watch!Leaves, Watch!NoItem

\* The thread takes an entry.
LEMMA TakeKeeps ==
    ASSUME WatchAssumptions, WatchInv, Watch!Take
    PROVE  WatchInv'
<1>1. /\ WSets /\ WQueue /\ WTold /\ WTimers /\ WThread
      /\ WLog /\ WMoves1 /\ WMoves2 /\ WLib
  BY DEF WatchInv
<1>2. /\ scanner = "pass" /\ item = Watch!NoItem /\ entries # <<>>
      /\ item' = Head(entries) /\ entries' = Tail(entries)
      /\ ripe' = (IF ripe > 0 THEN ripe - 1 ELSE 0)
      /\ UNCHANGED <<folder, told, ops, timer, loose, scanner, running, lib, missed, astray>>
  BY DEF Watch!Take, Watch!Ready, Watch!world, Watch!timers
<1>3. entries \in Seq(Watch!Entry)  BY <1>1 DEF WQueue
<1>4. /\ entries' \in Seq(Watch!Entry)
      /\ \A k \in DOMAIN entries' : /\ k + 1 \in DOMAIN entries /\ entries'[k] = entries[k + 1]
                                    /\ k \in Nat /\ k > 0
  <2>1. /\ Tail(entries) \in Seq(Watch!Entry)
        /\ \A k \in DOMAIN Tail(entries) :
             /\ k + 1 \in DOMAIN entries /\ Tail(entries)[k] = entries[k + 1]
             /\ k \in Nat /\ k > 0
        /\ \A m \in DOMAIN entries :
             /\ m \in Nat /\ m > 0
             /\ m > 1 => m - 1 \in DOMAIN Tail(entries) /\ Tail(entries)[m - 1] = entries[m]
    BY <1>2, <1>3, TailIs
  <2> QED  BY <1>2, <2>1
<1>5. WSets' /\ WTold' /\ WLog' /\ WMoves1' /\ WThread'
  BY <1>1, <1>2 DEF WSets, WTold, WLog, WMoves1, WThread
<1>6. WQueue'
  <2>1. \A i, j \in DOMAIN entries' : i + 1 = j + 1 => i = j  BY <1>4
  <2>2. Unique(entries')  BY <1>1, <1>4, <2>1 DEF WQueue, Unique
  <2>3. \A i \in DOMAIN entries' : Fit(entries'[i])  BY <1>1, <1>4 DEF WQueue
  <2> QED  BY <1>4, <2>2, <2>3 DEF WQueue
<1>7. WTimers'
  <2>1. Len(entries') = Len(entries) - 1 /\ Len(entries) \in Nat /\ Len(entries) > 0
    BY <1>2, <1>3
  <2>2. ripe \in 0..Len(entries)  BY <1>1 DEF WTimers
  <2>3. ripe' \in 0..Len(entries') /\ (ripe = Len(entries) => ripe' = Len(entries'))
    <3>1. ripe' = (IF ripe > 0 THEN ripe - 1 ELSE 0)  BY <1>2
    <3>2. CASE ripe > 0
      <4>1. ripe' = ripe - 1  BY <3>1, <3>2
      <4> QED  BY <2>1, <2>2, <3>2, <4>1
    <3>3. CASE ~(ripe > 0)
      <4>1. ripe' = 0 /\ ripe = 0  BY <2>2, <3>1, <3>3
      <4>2. ripe # Len(entries)  BY <2>1, <4>1
      <4> QED  BY <2>1, <4>1, <4>2
    <3> QED  BY <3>2, <3>3
  <2> QED  BY <1>1, <1>2, <2>3 DEF WTimers
<1>8. WItem'
  <2>1. Head(entries) = entries[1] /\ 1 \in DOMAIN entries /\ entries[1] \in Watch!Entry
    BY <1>2, <1>3
  <2> QED  BY <1>1, <1>2, <2>1 DEF WItem, WQueue
<1>9. WWakes'  BY <1>2 DEF WWakes
<1>10. WMoves2'  BY <1>1, <1>2, <1>4 DEF WMoves2
<1>11. WLib'
  <2> SUFFICES ASSUME NEW p \in Path \ astray, Silent(told, p) PROVE WPath(p)'
    BY <1>2 DEF WLib
  <2>1. WPath(p)  BY <1>1 DEF WLib
  <2>2. /\ Silent(entries, p) => Silent(Tail(entries), p) /\ ~About(Head(entries), p)
        /\ LastSays(entries, p, folder) =>
             \/ LastSays(Tail(entries), p, folder)
             \/ /\ Silent(Tail(entries), p) /\ About(Head(entries), p)
                /\ (Says(Head(entries), p) <=> p \in folder)
    BY <1>2, <1>3, LogTail
  <2>3. ~About(item, p)  BY <1>2, NoItemIs
  <2> QED  BY <1>2, <2>1, <2>2, <2>3 DEF WPath
<1> QED  BY <1>5, <1>6, <1>7, <1>8, <1>9, <1>10, <1>11 DEF WatchInv

\* The scanner does what an entry says.
LEMMA ProcessKeeps ==
    ASSUME WatchAssumptions, WatchInv, Watch!Process
    PROVE  WatchInv'
<1>1. /\ WSets /\ WQueue /\ WTold /\ WTimers /\ WItem /\ WThread /\ WWakes
      /\ WLog /\ WMoves1 /\ WMoves2 /\ WLib
  BY DEF WatchInv
<1> DEFINE x == item.path
           known == "move" \in item.op /\ item.src \in lib
           moved == IF known THEN (lib \ {item.src}) \cup {x} ELSE lib
           scanned == IF "scan" \in item.op /\ x \in folder THEN moved \cup {x} ELSE moved
<1>2. /\ item # Watch!NoItem /\ item' = Watch!NoItem
      /\ lib' = (IF "remove" \in item.op THEN scanned \ {x} ELSE scanned)
      /\ astray' = (IF item.op \cap {"scan", "remove"} = {} /\ ~known
                    THEN astray \cup {x} ELSE astray)
      /\ UNCHANGED <<folder, told, ops, entries, ripe, timer, loose, scanner, running, missed>>
  BY DEF Watch!Process, Watch!world, Watch!timers
<1>3. item \in Watch!Entry /\ x \in Path  BY <1>1, <1>2, EntryIs DEF WItem
<1>4. \A y : y # x => (y \in lib' <=> y \in lib /\ ~("move" \in item.op /\ y = item.src))
  BY <1>2
<1>5. x \in lib' <=> /\ "remove" \notin item.op
                     /\ \/ known
                        \/ x \in lib
                        \/ "scan" \in item.op /\ x \in folder
  BY <1>2
<1>6. WSets'
  <2>1. \A y : y \in lib' => y \in lib \/ y = x  BY <1>4
  <2>2. astray' \subseteq Path  BY <1>1, <1>2, <1>3 DEF WSets
  <2> QED  BY <1>1, <1>2, <1>3, <2>1, <2>2 DEF WSets
<1>7. WItem'  BY <1>2 DEF WItem
<1>8. WQueue' /\ WTold' /\ WTimers' /\ WThread' /\ WWakes' /\ WLog' /\ WMoves1'
  BY <1>1, <1>2 DEF WQueue, WTold, WTimers, WThread, WWakes, WLog, WMoves1
<1>9. astray \subseteq astray'  BY <1>2
<1>10. WMoves2'  BY <1>1, <1>2, <1>9 DEF WMoves2
<1>11. WLib'
  <2> SUFFICES ASSUME NEW p \in Path, p \notin astray', Silent(told, p) PROVE WPath(p)'
    BY <1>2 DEF WLib
  <2>1. WPath(p)  BY <1>1, <1>9 DEF WLib
  <2>2. ~About(item', p)  BY <1>2, NoItemIs
  <2>3. ASSUME IF About(item, p) THEN Says(item, p) <=> p \in folder
               ELSE p \in lib <=> p \in folder
        PROVE  p \in lib' <=> p \in folder
    <3>1. CASE p = x
      <4>1. About(item, p) /\ (Says(item, p) <=> "remove" \notin item.op)
        BY <3>1 DEF About, Says
      <4>2. "remove" \notin item.op <=> p \in folder  BY <2>3, <4>1
      <4>3. "remove" \notin item.op /\ "scan" \notin item.op => known  BY <1>2, <3>1
      <4> QED  BY <1>5, <3>1, <4>2, <4>3
    <3>2. CASE p # x
      <4>1. About(item, p) <=> "move" \in item.op /\ item.src = p
        BY <3>2 DEF About, Watch!Leaves
      <4>2. ~Says(item, p)  BY <3>2 DEF Says
      <4> QED  BY <1>4, <2>3, <3>2, <4>1, <4>2
    <3> QED  BY <3>1, <3>2
  <2> QED  BY <1>2, <2>1, <2>2, <2>3 DEF WPath
<1> QED  BY <1>6, <1>7, <1>8, <1>10, <1>11 DEF WatchInv

\* A scanned library.
LEMMA WatchInit ==
    ASSUME WatchAssumptions, Watch!Init
    PROVE  WatchInv
<1>1. /\ folder \in SUBSET Path /\ lib = folder /\ told = <<>> /\ entries = <<>> /\ ripe = 0
      /\ timer = "none" /\ loose = "no" /\ scanner = "sleep" /\ item = Watch!NoItem
      /\ running = TRUE /\ ops = 0 /\ missed = FALSE /\ astray = {}
  BY DEF Watch!Init
<1>2. DOMAIN told = {} /\ DOMAIN entries = {} /\ Len(entries) = 0
      /\ told \in Seq(Watch!Entry) /\ entries \in Seq(Watch!Entry)
  BY <1>1
<1>3. WSets /\ WTimers /\ WThread /\ WWakes /\ WItem
  <2>1. 0 \in 0..MaxOps /\ 0 \in 0..0  BY DEF WatchAssumptions
  <2> QED  BY <1>1, <1>2, <2>1 DEF WSets, WTimers, WThread, WWakes, WItem
<1>4. WQueue /\ WTold  BY <1>2 DEF WQueue, WTold, Unique
<1>5. WLog /\ WMoves1 /\ WMoves2  BY <1>2 DEF WLog, WMoves1, WMoves2, Silent
<1>6. \A p \in Path : WPath(p)
  <2> TAKE p \in Path
  <2>1. ~About(item, p)  BY <1>1, NoItemIs
  <2> QED  BY <1>1, <1>2, <2>1 DEF WPath, Silent
<1>7. WLib  BY <1>6 DEF WLib
<1> QED  BY <1>3, <1>4, <1>5, <1>7 DEF WatchInv

\* Every step of the watcher keeps the invariant.
LEMMA WatchNext ==
    ASSUME WatchAssumptions, WatchInv, Watch!Next
    PROVE  WatchInv'
<1>1. CASE \E p \in Path : \/ Watch!Created(p) \/ Watch!Modified(p) \/ Watch!Deleted(p)
                           \/ \E s \in Path : Watch!Moved(s, p)
  BY <1>1, DiskKeeps
<1>2. CASE Watch!Put  BY <1>2, PutKeeps
<1>3. CASE Watch!Ripens \/ Watch!Fire  BY <1>3, TimerKeeps
<1>4. CASE Watch!Wakeup \/ Watch!WakeupLoose  BY <1>4, NotifyKeeps
<1>5. CASE Watch!Loop \/ Watch!Slept \/ Watch!Woken \/ Watch!PassEnds  BY <1>5, GoesKeeps
<1>6. CASE Watch!Take  BY <1>6, TakeKeeps
<1>7. CASE Watch!Process  BY <1>7, ProcessKeeps
<1>8. CASE Watch!Stop  BY <1>8, StopKeeps
<1> QED  BY <1>1, <1>2, <1>3, <1>4, <1>5, <1>6, <1>7, <1>8 DEF Watch!Next

\* So does a step of another part.
LEMMA WatchStutter ==
    ASSUME WatchInv, UNCHANGED ofWatch
    PROVE  WatchInv'
<1>1. WSets /\ WTimers /\ WItem /\ WThread /\ WWakes  BY DEF WatchInv
<1>2. WStill /\ UNCHANGED <<ripe, timer, loose, scanner, running, missed>>
  BY DEF WStill, ofWatch
<1>3. WQueue' /\ WTold' /\ WLog' /\ WMoves1' /\ WMoves2' /\ WLib'  BY <1>2, WStillKeeps
<1>4. WSets' /\ WTimers' /\ WItem' /\ WThread' /\ WWakes'
  BY <1>1, <1>2 DEF WSets, WTimers, WItem, WThread, WWakes, WStill
<1> QED  BY <1>3, <1>4 DEF WatchInv

\* A step of the whole is one of the watcher, or leaves it alone.
LEMMA WatchStep ==
    ASSUME [KeptNext]_allVars
    PROVE  Watch!Next \/ UNCHANGED ofWatch
<1>1. CASE KeptNext  BY <1>1 DEF KeptNext, web, server
<1>2. CASE UNCHANGED allVars  BY <1>2 DEF allVars, server
<1> QED  BY <1>1, <1>2

\* The invariant holds throughout.
LEMMA WatchHolds ==
    ASSUME WatchAssumptions
    PROVE  KeptSpec => []WatchInv
<1>1. KeptInit => WatchInv  BY WatchInit DEF KeptInit
<1>2. WatchInv /\ [KeptNext]_allVars => WatchInv'
  <2> SUFFICES ASSUME WatchInv, [KeptNext]_allVars PROVE WatchInv'  OBVIOUS
  <2>1. Watch!Next \/ UNCHANGED ofWatch  BY WatchStep
  <2> QED  BY <2>1, WatchNext, WatchStutter
<1> QED  BY <1>1, <1>2, PTL DEF KeptSpec

\* It gives the types.
LEMMA WatchTyped == WatchInv => Watch!TypeOK
<1> SUFFICES ASSUME WatchInv PROVE Watch!TypeOK  OBVIOUS
<1>1. WSets /\ WQueue /\ WTold /\ WTimers /\ WItem /\ WThread  BY DEF WatchInv
<1>2. \A i \in DOMAIN entries : ~ {"scan", "remove"} \subseteq entries[i].op
  BY <1>1 DEF WQueue, Fit
<1> QED
  BY <1>1, <1>2 DEF WSets, WQueue, WTold, WTimers, WItem, WThread, Unique, Watch!TypeOK

\* watcher.py, scanner.py: a watcher that has come to rest, or was stopped, has
\* nothing queued and a row for exactly the files on the disk, unless it missed a
\* wake-up, and but for the paths whose moves went astray.
THEOREM FolderFollowed ==
    ASSUME WatchAssumptions
    PROVE  KeptSpec => []LibraryFollows
<1>1. WatchInv => LibraryFollows
  <2> SUFFICES ASSUME WatchInv, Watch!Quiet, ~missed
               PROVE  entries = <<>> /\ \A p \in Path \ astray : p \in lib <=> p \in folder
    BY DEF LibraryFollows, Watch!LibraryFollows
  <2>1. WItem /\ WThread /\ WWakes /\ WLib  BY DEF WatchInv
  <2>2. /\ told = <<>>
        /\ \/ scanner = "wait" /\ timer = "none" /\ loose = "no"
           \/ scanner = "ended"
    BY DEF Watch!Quiet
  <2>3. entries = <<>> /\ item = Watch!NoItem
    BY <2>1, <2>2 DEF WItem, WThread, WWakes
  <2>4. ASSUME NEW p \in Path \ astray PROVE p \in lib <=> p \in folder
    <3>1. Silent(told, p) /\ ~LastSays(entries, p, folder)
      BY <2>2, <2>3 DEF Silent, LastSays
    <3>2. ~About(item, p)  BY <2>3, NoItemIs
    <3> QED  BY <2>1, <3>1, <3>2 DEF WLib, WPath
  <2> QED  BY <2>3, <2>4
<1> QED  BY <1>1, WatchHolds, PTL

-----------------------------------------------------------------------------
(* The types of all seven parts.                                            *)

KeptAssumptions ==
    /\ Rows \in Nat /\ PageSize \in Nat /\ MaxRestart \in Nat
    /\ CoverAssumptions /\ OfflineAssumptions /\ CacheAssumptions
    /\ SessionAssumptions /\ QueueAssumptions /\ WatchAssumptions

\* A step of the whole is one of the job, or leaves it alone.
LEMMA JobStep == ASSUME [KeptNext]_allVars PROVE Next \/ UNCHANGED vars
  BY DEF KeptNext, allVars, server, web, ofJob

\* The invariant of the job holds throughout the whole.
LEMMA JobKept ==
    ASSUME Rows \in Nat, PageSize \in Nat, MaxRestart \in Nat
    PROVE  KeptSpec => []JobInv
<1>1. KeptInit => JobInv  BY JobInit DEF KeptInit
<1>2. JobInv /\ [KeptNext]_allVars => JobInv'
  <2> SUFFICES ASSUME JobInv, [KeptNext]_allVars PROVE JobInv'  OBVIOUS
  <2>1. Next \/ UNCHANGED vars  BY JobStep
  <2> QED  BY <2>1, JobNext, JobStutter
<1> QED  BY <1>1, <1>2, PTL DEF KeptSpec

\* The queue, the session, the downloads and the covers of the client, the job,
\* the cache and the watcher of the server keep their types: no place points
\* outside its queue, no entry is queued or cached twice, no thread is in two places.
THEOREM AllTyped ==
    ASSUME KeptAssumptions PROVE KeptSpec => []KeptTypeOK
<1>1. KeptSpec => []QueueInv  BY QueueHolds DEF KeptAssumptions
<1>2. KeptSpec => []SessionInv  BY SessHolds DEF KeptAssumptions
<1>3. KeptSpec => []OfflineInv  BY OffHolds DEF KeptAssumptions
<1>4. KeptSpec => []CoverInv  BY CoverHolds DEF KeptAssumptions
<1>5. KeptSpec => []JobInv  BY JobKept DEF KeptAssumptions
<1>6. KeptSpec => []CacheInv  BY CacheHolds DEF KeptAssumptions
<1>7. KeptSpec => []WatchInv  BY WatchHolds DEF KeptAssumptions
<1>8. /\ QueueInv /\ SessionInv /\ OfflineInv /\ CoverInv
      /\ JobInv /\ CacheInv /\ WatchInv
      => KeptTypeOK
  BY SessTyped, OffTyped, CacheTyped, WatchTyped
  DEF KeptAssumptions, QueueInv, CoverInv, JobInv, KeptTypeOK
<1> QED  BY <1>1, <1>2, <1>3, <1>4, <1>5, <1>6, <1>7, <1>8, PTL
=============================================================================
