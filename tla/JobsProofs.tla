------------------------------- MODULE JobsProofs ------------------------------
(***************************************************************************)
(* What calls and workers may rely on while the two jobs change the rows   *)
(* of a subject, for any claims and similarities and for any number of     *)
(* candidates in a sweep.                                                  *)
(*                                                                         *)
(* The argument: a sweep gives the subject a new version whenever it gives *)
(* it a new answer, so no process is left with an answer that is not the   *)
(* one of the version it read. If it keeps the answer it only retires      *)
(* duplicates of it, and a belief that is about to be decided about is in  *)
(* conflict with the answer. What decay archives is superseded, and points *)
(* to a belief for good.                                                   *)
(***************************************************************************)
EXTENDS Decay, ConflictResolutionProofs, FiniteSetTheorems, WellFoundedInduction

-----------------------------------------------------------------------------
(* The rounds of a sweep.                                                   *)

\* A set of numbers that is not empty has a least one.
LEMMA LeastNumber ==
    ASSUME NEW T \in SUBSET Nat, T # {}
    PROVE  \E n \in T : \A m \in T : n <= m
  <1>1. \E R : IsWellFoundedOn(R, Nat) /\ \A m, n \in Nat : m < n => <<m, n>> \in R
    <2>1. IsWellFoundedOn(OpToRel(<, Nat), Nat)
      BY NatLessThanWellFounded
    <2>2. \A m, n \in Nat : m < n => <<m, n>> \in OpToRel(<, Nat)
      BY DEF OpToRel
    <2> QED
      BY <2>1, <2>2
  <1>2. PICK R : IsWellFoundedOn(R, Nat) /\ \A m, n \in Nat : m < n => <<m, n>> \in R
    BY <1>1
  <1>3. PICK n \in T : \A m \in T : ~(<<m, n>> \in R)
    <2>1. IsWellFoundedOn(R, Nat) /\ T \subseteq Nat
      BY <1>2
    <2> QED
      BY <2>1, WFMin
  <1>4. ASSUME NEW m \in T PROVE n <= m
    <2>1. m \in Nat /\ n \in Nat /\ ~(m < n)
      BY <1>2, <1>3
    <2> QED
      BY <2>1
  <1> QED
    BY <1>4

RoundsOf(f, rows, newer, last) ==
    f = [n \in 0..last |->
            IF n = 0 THEN BeforeSweep ELSE Round(f[n - 1], rows[n], newer)]

\* The rounds are defined, however many there are.
LEMMA RoundsDefined ==
    ASSUME NEW rows, NEW newer, NEW last \in Nat
    PROVE  \E f : RoundsOf(f, rows, newer, last)
  <1> DEFINE T == {n \in Nat : ~ \E f : RoundsOf(f, rows, newer, n)}
  <1>1. ASSUME T # {} PROVE FALSE
    <2>1. PICK n \in T : \A m \in T : n <= m
      BY <1>1, LeastNumber
    <2>2. n # 0
      <3>1. [m \in 0..0 |-> BeforeSweep] =
              [m \in 0..0 |-> IF m = 0 THEN BeforeSweep
                              ELSE Round([i \in 0..0 |-> BeforeSweep][m - 1], rows[m], newer)]
        OBVIOUS
      <3> QED
        BY <3>1 DEF RoundsOf
    <2>3. n - 1 \in Nat /\ n - 1 \notin T
      BY <2>1, <2>2
    <2>4. PICK f : RoundsOf(f, rows, newer, n - 1)
      BY <2>3
    <2> DEFINE g == [m \in 0..n |-> IF m = n THEN Round(f[n - 1], rows[n], newer) ELSE f[m]]
    <2>5. ASSUME NEW m \in 0..n
          PROVE  g[m] = IF m = 0 THEN BeforeSweep ELSE Round(g[m - 1], rows[m], newer)
      <3>1. CASE m = n
        <4>1. g[n - 1] = f[n - 1] /\ g[n] = Round(f[n - 1], rows[n], newer)
          BY <2>3
        <4> QED
          BY <2>2, <3>1, <4>1
      <3>2. CASE m # n
        <4>1. m \in 0..(n - 1) /\ g[m] = f[m]
          BY <2>1, <3>2
        <4>2. f[m] = IF m = 0 THEN BeforeSweep ELSE Round(f[m - 1], rows[m], newer)
          BY <2>4, <4>1 DEF RoundsOf
        <4>3. m # 0 => g[m - 1] = f[m - 1]
          BY <2>1, <4>1
        <4> QED
          BY <4>1, <4>2, <4>3
      <3> QED
        BY <3>1, <3>2
    <2>6. RoundsOf(g, rows, newer, n)
      BY <2>5 DEF RoundsOf
    <2> QED
      BY <2>1, <2>6
  <1> QED
    BY <1>1

\* Each round starts from what the one before it left.
LEMMA RoundByRound ==
    ASSUME NEW rows, NEW newer, Len(rows) \in Nat
    PROVE  LET after == Rounds(rows, newer)
           IN  /\ after[0] = BeforeSweep
               /\ \A n \in 1..Len(rows) : after[n] = Round(after[n - 1], rows[n], newer)
  <1>1. PICK last \in Nat : last = Len(rows)
    OBVIOUS
  <1>2. RoundsOf(Rounds(rows, newer), rows, newer, last)
    BY <1>1, RoundsDefined DEF Rounds, RoundsOf
  <1> QED
    BY <1>1, <1>2 DEF RoundsOf

-----------------------------------------------------------------------------
(* What a sweep does to the rows.                                           *)

SweepStates ==
    [survivor : Ingests \cup {None}, promoted : BOOLEAN,
     status : [Ingests -> Statuses], superseded_by : [Ingests -> Ingests \cup {None}]]

\* A sweep that has looked at the candidates in done: it retires those and the
\* answer, never the survivor; a survivor other than the answer is one of them,
\* and as long as the answer survives, what it retires are its duplicates.
Swept(sweep, done) ==
    LET e == canonical_belief_id
    IN  /\ sweep.survivor \in done \cup {e}
        /\ sweep.promoted => sweep.survivor \in done
        /\ ~sweep.promoted /\ e # None => sweep.survivor = e
        /\ sweep.promoted /\ e # None => sweep.status[e] = "superseded"
        /\ \A b \in Ingests :
            \/ sweep.status[b] = status[b] /\ sweep.superseded_by[b] = superseded_by[b]
            \/ /\ b \in done \cup {e} /\ b # sweep.survivor
               /\ sweep.status[b] = "superseded" /\ sweep.superseded_by[b] # None
               /\ ~sweep.promoted /\ e # None => AreDuplicates(b, e)

LEMMA RoundSweeps ==
    ASSUME TypeOK, NEW done \in SUBSET Candidates, NEW c \in Candidates \ done,
           canonical_belief_id \notin Candidates, NEW newer,
           NEW sweep \in SweepStates, Swept(sweep, done)
    PROVE  /\ Round(sweep, c, newer) \in SweepStates
           /\ Swept(Round(sweep, c, newer), done \cup {c})
  <1> DEFINE e == canonical_belief_id
             s == sweep.survivor
  <1>0. /\ Candidates \subseteq Ingests /\ None \notin Ingests /\ c \in Ingests /\ c # None
        /\ e \in Ingests \cup {None} /\ "superseded" \in Statuses
    BY ProcessAssumption DEF Candidates, Processes, TypeOK, Statuses
  <1>1. /\ s \in done \cup {e} /\ s # c /\ e # c
        /\ sweep.status \in [Ingests -> Statuses]
        /\ sweep.superseded_by \in [Ingests -> Ingests \cup {None}]
        /\ sweep.promoted \in BOOLEAN /\ s \in Ingests \cup {None}
    BY <1>0 DEF Swept, SweepStates
  <1>2. CASE s = None
    <2>1. Round(sweep, c, newer) = [sweep EXCEPT !.survivor = c]
      BY <1>2 DEF Round
    <2>2. e = None /\ ~sweep.promoted
      BY <1>0, <1>2 DEF Swept
    <2> QED
      BY <1>0, <1>1, <1>2, <2>1, <2>2 DEF Swept, SweepStates
  <1>3. CASE s # None /\ ~AreDuplicates(c, s)
    <2>1. Round(sweep, c, newer) = sweep
      BY <1>3 DEF Round
    <2> QED
      BY <2>1 DEF Swept
  <1>4. CASE s # None /\ AreDuplicates(c, s) /\ more_complete(c, s, newer)
    <2> DEFINE next == [Retire(sweep, s, c) EXCEPT !.survivor = c, !.promoted = TRUE]
    <2>1. Round(sweep, c, newer) = next
      BY <1>4 DEF Round
    <2>2. s \in Ingests
      BY <1>1, <1>4
    <2>3. /\ next.survivor = c /\ next.promoted = TRUE
          /\ next.status = [sweep.status EXCEPT ![s] = "superseded"]
          /\ next.superseded_by = [sweep.superseded_by EXCEPT ![s] = c]
      BY DEF Retire, SweepStates
    <2>4. next \in SweepStates
      BY <1>0, <1>1, <2>2 DEF Retire, SweepStates
    <2> HIDE DEF next
    <2>5. e # None => next.status[e] = "superseded"
      BY <1>0, <1>1, <2>2, <2>3 DEF Swept
    <2>6. ASSUME NEW b \in Ingests
          PROVE  \/ next.status[b] = status[b] /\ next.superseded_by[b] = superseded_by[b]
                 \/ /\ b \in done \cup {c, e} /\ b # c
                    /\ next.status[b] = "superseded" /\ next.superseded_by[b] # None
      <3>1. CASE b = s
        BY <1>0, <1>1, <2>2, <2>3, <3>1
      <3>2. CASE b # s
        BY <1>0, <1>1, <2>2, <2>3, <3>2 DEF Swept
      <3> QED
        BY <3>1, <3>2
    <2>7. Swept(next, done \cup {c})
      BY <2>3, <2>5, <2>6 DEF Swept
    <2> QED
      BY <2>1, <2>4, <2>7
  <1>5. CASE s # None /\ AreDuplicates(c, s) /\ ~more_complete(c, s, newer)
    <2> DEFINE next == Retire(sweep, c, s)
    <2>1. Round(sweep, c, newer) = next
      BY <1>5 DEF Round
    <2>2. /\ next.survivor = s /\ next.promoted = sweep.promoted
          /\ next.status = [sweep.status EXCEPT ![c] = "superseded"]
          /\ next.superseded_by = [sweep.superseded_by EXCEPT ![c] = s]
      BY DEF Retire, SweepStates
    <2>3. next \in SweepStates
      BY <1>0, <1>1 DEF Retire, SweepStates
    <2> HIDE DEF next
    <2>4. next.promoted /\ e # None => next.status[e] = "superseded"
      BY <1>0, <1>1, <2>2 DEF Swept
    <2>5. ASSUME NEW b \in Ingests
          PROVE  \/ next.status[b] = status[b] /\ next.superseded_by[b] = superseded_by[b]
                 \/ /\ b \in done \cup {c, e} /\ b # s
                    /\ next.status[b] = "superseded" /\ next.superseded_by[b] # None
                    /\ ~next.promoted /\ e # None => AreDuplicates(b, e)
      <3>1. CASE b = c
        <4>1. ~next.promoted /\ e # None => AreDuplicates(b, e)
          BY <1>5, <2>2, <3>1 DEF Swept
        <4> QED
          BY <1>0, <1>1, <1>5, <2>2, <3>1, <4>1
      <3>2. CASE b # c
        BY <1>0, <1>1, <2>2, <3>2 DEF Swept
      <3> QED
        BY <3>1, <3>2
    <2>6. Swept(next, done \cup {c})
      BY <2>2, <2>4, <2>5 DEF Swept
    <2> QED
      BY <2>1, <2>3, <2>6
  <1> QED
    BY <1>2, <1>3, <1>4, <1>5

\* The candidates of a sweep are finitely many, and each is looked at once.
LEMMA SweepSweeps ==
    ASSUME TypeOK, IsFiniteSet(Candidates), canonical_belief_id \notin Candidates,
           NEW rows \in Seqs!SetToSeqs(Candidates), NEW newer
    PROVE  \E done \in SUBSET Candidates :
               Sweep(rows, newer) \in SweepStates /\ Swept(Sweep(rows, newer), done)
  <1> DEFINE after == Rounds(rows, newer)
             Done(n) == {rows[i] : i \in 1..n}
             T == {n \in Nat : n <= Len(rows) /\ ~(after[n] \in SweepStates /\ Swept(after[n], Done(n)))}
  <1>1. PICK size \in Nat : size = Cardinality(Candidates)
    BY FS_CardinalityType
  <1>2. /\ rows \in [1..size -> Candidates]
        /\ \A i, j \in 1..size : i # j => rows[i] # rows[j]
    <2>1. Seqs!Cardinality(Candidates) = size
      BY <1>1, Zenon DEF Cardinality, Seqs!Cardinality
    <2> QED
      BY <2>1 DEF Seqs!SetToSeqs
  <1>3. Len(rows) = size
    BY <1>2
  <1>4. /\ after[0] = BeforeSweep
        /\ \A n \in 1..size : after[n] = Round(after[n - 1], rows[n], newer)
    BY <1>3, RoundByRound
  <1>5. ASSUME NEW n \in Nat, n <= size, \A m \in T : n <= m, n \in T
        PROVE  FALSE
    <2> HIDE DEF after
    <2>1. T = {m \in Nat : m <= size /\ ~(after[m] \in SweepStates /\ Swept(after[m], Done(m)))}
      BY <1>3
    <2>2. CASE n = 0
      <3>1. after[0] \in SweepStates
        <4>1. BeforeSweep \in SweepStates
          BY DEF BeforeSweep, SweepStates, TypeOK
        <4> QED
          BY <1>4, <4>1
      <3>2. Swept(after[0], Done(0))
        <4>1. Swept(BeforeSweep, Done(0))
          BY DEF BeforeSweep, Swept
        <4> QED
          BY <1>4, <4>1
      <3> QED
        BY <1>5, <2>1, <2>2, <3>1, <3>2
    <2>3. CASE n # 0
      <3>1. n - 1 \in Nat /\ n - 1 <= size /\ n \in 1..size /\ ~(n <= n - 1)
        BY <1>5, <2>3
      <3>2. n - 1 \notin T
        BY <1>5, <3>1
      <3>3. after[n - 1] \in SweepStates /\ Swept(after[n - 1], Done(n - 1))
        BY <2>1, <3>1, <3>2
      <3>4. Done(n - 1) \in SUBSET Candidates /\ rows[n] \in Candidates \ Done(n - 1)
        BY <1>2, <3>1
      <3>5. Done(n) = Done(n - 1) \cup {rows[n]}
        BY <3>1
      <3>6. PICK before, row, seen : before = after[n - 1] /\ row = rows[n] /\ seen = Done(n - 1)
        OBVIOUS
      <3>7. Round(before, row, newer) \in SweepStates
            /\ Swept(Round(before, row, newer), seen \cup {row})
        BY <3>3, <3>4, <3>6, RoundSweeps
      <3>8. after[n] \in SweepStates /\ Swept(after[n], Done(n))
        BY <1>4, <3>1, <3>5, <3>6, <3>7
      <3> QED
        BY <1>5, <2>1, <3>8
    <2> QED
      BY <2>2, <2>3
  <1>6. Done(size) \in SUBSET Candidates
    BY <1>2
  <1>7. after[size] \in SweepStates /\ Swept(after[size], Done(size))
    <2>1. T = {}
      <3>1. T \in SUBSET Nat
        OBVIOUS
      <3>2. ASSUME T # {} PROVE FALSE
        <4>1. PICK n \in T : \A m \in T : n <= m
          BY <3>1, <3>2, LeastNumber
        <4>2. n \in Nat /\ n <= size
          BY <1>3, <4>1
        <4> QED
          BY <1>5, <4>1, <4>2
      <3> QED
        BY <3>2
    <2>2. size \in Nat /\ size <= Len(rows)
      BY <1>3
    <2>3. size \notin {n \in Nat : n <= Len(rows) /\ ~(after[n] \in SweepStates /\ Swept(after[n], Done(n)))}
      BY <2>1
    <2> HIDE DEF after, Done
    <2> QED
      BY <2>2, <2>3
  <1>8. Sweep(rows, newer) = after[size]
    BY <1>3 DEF Sweep
  <1> QED
    BY <1>6, <1>7, <1>8

-----------------------------------------------------------------------------
(* What holds of the subject whatever calls, workers and jobs do.           *)

\* A belief nothing has retired points to no other; one that is retired, or
\* archived, points to another.
Settled(b) ==
    /\ status[b] \in {"absent", "candidate"} => superseded_by[b] = None
    /\ status[b] = "superseded" => superseded_by[b] # None
    /\ archived[b] => superseded_by[b] # None

\* What a process is about to decide about, if its version holds, is not
\* retired, and is in conflict with the answer.
JudgesConflict(p) ==
    pc[p] \in Judging /\ expected[p] = version =>
        superseded_by[target[p]] = None /\ Detection(target[p]) = "conflict"

Rows == {b \in Ingests : status[b] # "absent"}

\* The inductive invariant of the subject with its two jobs.
JobsInv ==
    /\ IInv
    /\ \A b \in Ingests : Settled(b)
    /\ \A p \in Processes : JudgesConflict(p)
    /\ IsFiniteSet(Rows)

\* What a step may do to belief b: insert it, or mark it, without retiring it;
\* or retire it, for a duplicate of the answer unless the version moves.
RowStep(b) ==
    /\ status[b] # "absent" => claim'[b] = claim[b]
    /\ \/ /\ superseded_by'[b] = superseded_by[b]
          /\ \/ status'[b] \in {status[b], "canonical", "contested"}
             \/ status[b] = "absent" /\ status'[b] = "candidate"
       \/ /\ status[b] # "absent" /\ status'[b] = "superseded"
          /\ superseded_by'[b] # None
          /\ version' = version /\ canonical_belief_id # None =>
                Detection(b) = "duplicate"

\* A step of that kind leaves beliefs settled.
LEMMA StaysSettled ==
    ASSUME NEW b \in Ingests, Settled(b), RowStep(b), archived' = archived
    PROVE  Settled(b)'
  <1>1. archived'[b] <=> archived[b]
    BY Zenon
  <1>2. superseded_by[b] # None => superseded_by'[b] # None
    BY DEF RowStep
  <1>3. /\ status'[b] \in {"absent", "candidate"} => superseded_by'[b] = None
        /\ status'[b] = "superseded" => superseded_by'[b] # None
    BY DEF RowStep, Settled
  <1>4. archived'[b] => superseded_by'[b] # None
    BY <1>1, <1>2, Zenon DEF Settled
  <1> QED
    BY <1>3, <1>4, Zenon DEF Settled

\* It takes nothing away from what another process judges.
LEMMA OthersJudgeOn ==
    ASSUME TypeOK, TypeOK', NEW p, Frame(p), \A b \in Ingests : RowStep(b),
           NEW q \in Processes \ {p}, LocalInv(q), JudgesConflict(q)
    PROVE  JudgesConflict(q)'
  <1>1. SUFFICES ASSUME pc'[q] \in Judging, expected'[q] = version'
                 PROVE  superseded_by'[target'[q]] = None /\ Detection(target[q])' = "conflict"
    BY DEF JudgesConflict
  <1>2. /\ pc[q] \in Judging /\ target'[q] = target[q]
        /\ expected[q] = version /\ version' = version
    BY <1>1 DEF Frame, LocalInv, TypeOK
  <1>3. PICK b \in Ingests, e \in Ingests :
            /\ b = target[q] /\ e = canonical_belief_id /\ e = canonical_belief_id'
            /\ status[b] # "absent" /\ status[e] # "absent" /\ e # None
    BY <1>2, ProcessAssumption DEF Frame, LocalInv, Inserted, Processes
  <1>4. claim'[b] = claim[b] /\ claim'[e] = claim[e]
    BY <1>3 DEF RowStep
  <1>5. superseded_by[b] = None /\ Detection(b) = "conflict"
    BY <1>2, <1>3 DEF JudgesConflict
  <1>6. superseded_by'[b] = superseded_by[b]
    BY <1>2, <1>3, <1>5 DEF RowStep
  <1>7. Detection(b)' = Detection(b)
    BY <1>3, <1>4 DEF Detection
  <1> QED
    BY <1>2, <1>3, <1>5, <1>6, <1>7

\* A step that touches no row of beliefs but for its age.
LEMMA QuietRows ==
    ASSUME UNCHANGED <<status, superseded_by, claim>>
    PROVE  \A b \in Ingests : RowStep(b)
  BY DEF RowStep

\* A process whose call is over judges nothing.
LEMMA ReturnJudges ==
    ASSUME TypeOK, NEW p \in Processes, NEW outcome \in Returned, Return(p, outcome)
    PROVE  JudgesConflict(p)'
  <1>1. pc'[p] \in Returned \cup {"idle"}
    BY DEF TypeOK, Return, Goto
  <1> QED
    BY <1>1 DEF JudgesConflict, Returned, Judging

LEMMA IngestJobs ==
    ASSUME IInv, TypeOK', NEW i \in Ingests, IngestStep(i),
           Settled(i), JudgesConflict(i)
    PROVE  (\A b \in Ingests : RowStep(b)) /\ JudgesConflict(i)'
  <1>0. i \in Processes /\ TypeOK /\ StoreInv /\ LocalInv(i)
    BY DEF IInv, Processes
  <1>1. CASE OpenSubject(i)
    <2>1. status[i] = "absent" /\ pc'[i] = "detect"
      BY <1>0, <1>1 DEF OpenSubject, LocalInv, TypeOK, Goto
    <2>2. ASSUME NEW b \in Ingests PROVE RowStep(b)
      BY <1>0, <1>1, <2>1 DEF OpenSubject, RowStep, TypeOK
    <2> QED
      BY <2>1, <2>2 DEF JudgesConflict, Judging
  <1>2. CASE UnknownSource(i)
    BY <1>0, <1>2, QuietRows, ReturnJudges DEF UnknownSource, Returned, beliefRows
  <1>3. ASSUME InsertCandidate(i), UNCHANGED <<superseded_by, claim>>, pc[i] = "detect"
        PROVE  \A b \in Ingests : RowStep(b)
    <2>1. status[i] = "absent"
      BY <1>0, <1>3 DEF LocalInv
    <2> QED
      BY <1>0, <1>3, <2>1 DEF InsertCandidate, RowStep, TypeOK
  <1>4. CASE InsertFirst(i)
    BY <1>0, <1>3, <1>4 DEF InsertFirst, JudgesConflict, Judging, Goto, TypeOK
  <1>5. CASE RefreshCanonical(i)
    BY <1>0, <1>5, QuietRows, ReturnJudges DEF RefreshCanonical, Returned
  <1>6. CASE InsertUnrelated(i)
    BY <1>0, <1>3, <1>6, ReturnJudges DEF InsertUnrelated, Returned
  <1>7. CASE InsertConflicting(i)
    <2>1. status[i] = "absent" /\ target[i] = i
      BY <1>0, <1>7 DEF InsertConflicting, LocalInv
    <2>2. superseded_by'[i] = None /\ target'[i] = i
      BY <1>7, <2>1 DEF InsertConflicting, Settled
    <2>3. Detection(i)' = "conflict"
      BY <1>7 DEF InsertConflicting, Detection, subjectRow
    <2>4. JudgesConflict(i)'
      BY <2>2, <2>3 DEF JudgesConflict
    <2> QED
      BY <1>3, <1>7, <2>4 DEF InsertConflicting
  <1>8. CASE VerifyAgainstLedger(i)
    BY <1>8, QuietRows
    DEF VerifyAgainstLedger, JudgesConflict, Judging, Detection, subjectRow, beliefRows
  <1> QED
    BY <1>1, <1>2, <1>4, <1>5, <1>6, <1>7, <1>8 DEF IngestStep

LEMMA PickJobs ==
    ASSUME IInv, NEW w \in Workers, NEW b \in Ingests, PickCandidate(w, b)
    PROVE  (\A c \in Ingests : RowStep(c)) /\ JudgesConflict(w)'
  <1>1. w \in Processes /\ TypeOK
    BY DEF IInv, Processes
  <1>2. pc'[w] = "pending"
    BY <1>1 DEF PickCandidate, TypeOK, Goto
  <1> QED
    BY <1>2, QuietRows DEF PickCandidate, JudgesConflict, Judging, beliefRows

LEMMA PendingJobs ==
    ASSUME IInv, TypeOK', NEW p \in Processes, PendingStep(p),
           \A b \in Ingests : Settled(b)
    PROVE  (\A b \in Ingests : RowStep(b)) /\ JudgesConflict(p)'
  <1>0. TypeOK /\ LocalInv(p)
    BY DEF IInv
  <1>1. CASE SkipPending(p)
    <2>1. PICK outcome \in {"no_conflict", "done"} : Return(p, outcome)
      BY <1>1 DEF SkipPending
    <2>2. outcome \in Returned
      BY DEF Returned
    <2> QED
      BY <1>0, <1>1, <2>1, <2>2, QuietRows, ReturnJudges DEF SkipPending, beliefRows
  <1>2. CASE AdoptVacantSubject(p)
    BY <1>0, <1>2, QuietRows
    DEF AdoptVacantSubject, JudgesConflict, Judging, TypeOK, Goto, beliefRows
  <1>3. CASE MergePending(p)
    <2>1. PICK n \in Ingests : n = target[p] /\ status[n] # "absent"
      BY <1>0, <1>3 DEF MergePending, StillPending, LocalInv, Inserted
    <2>2. Detection(n) = "duplicate" /\ canonical_belief_id # None
      BY <1>3, <2>1 DEF MergePending, Detection
    <2>3. /\ status' = [status EXCEPT ![n] = "superseded"]
          /\ superseded_by' = [superseded_by EXCEPT ![n] = canonical_belief_id]
          /\ claim' = claim
      BY <1>3, <2>1 DEF MergePending
    <2>4. ASSUME NEW b \in Ingests PROVE RowStep(b)
      <3>1. CASE b = n
        BY <1>0, <2>1, <2>2, <2>3, <3>1 DEF RowStep, TypeOK
      <3>2. CASE b # n
        BY <1>0, <2>3, <3>2 DEF RowStep, TypeOK
      <3> QED
        BY <3>1, <3>2
    <2>5. Return(p, "done") /\ "done" \in Returned
      BY <1>3 DEF MergePending, Returned
    <2> QED
      BY <1>0, <2>4, <2>5, ReturnJudges
  <1>4. CASE JudgePending(p)
    <2>1. PICK n \in Ingests : n = target[p] /\ status[n] = "candidate"
      BY <1>0, <1>4 DEF JudgePending, StillPending, LocalInv, Inserted
    <2>2. superseded_by'[n] = None /\ target'[p] = n
      BY <1>4, <2>1 DEF JudgePending, Settled, beliefRows
    <2>3. Detection(n)' = "conflict"
      BY <1>4, <2>1 DEF JudgePending, Detection, subjectRow, beliefRows
    <2>4. JudgesConflict(p)'
      BY <2>2, <2>3 DEF JudgesConflict
    <2> QED
      BY <1>4, <2>4, QuietRows DEF JudgePending, beliefRows
  <1>5. CASE RereadOldSnapshot(p)
    BY <1>0, <1>5, QuietRows, ReturnJudges
    DEF RereadOldSnapshot, Returned, beliefRows
  <1> QED
    BY <1>1, <1>2, <1>3, <1>4, <1>5 DEF PendingStep

LEMMA CommitJobs ==
    ASSUME IInv, TypeOK', NEW p \in Processes, CommitStep(p), JudgesConflict(p)
    PROVE  (\A b \in Ingests : RowStep(b)) /\ JudgesConflict(p)'
  <1>0. TypeOK /\ LocalInv(p) /\ version \in Nat
    BY DEF IInv, TypeOK
  <1>1. CASE Arbitrate(p)
    BY <1>1, QuietRows
    DEF Arbitrate, JudgesConflict, Judging, Detection, subjectRow, beliefRows
  <1>2. CASE PromoteFirst(p)
    <2>1. status' = [status EXCEPT ![target[p]] = "canonical"]
          /\ UNCHANGED <<superseded_by, claim>>
      BY <1>2 DEF PromoteFirst
    <2>2. ASSUME NEW b \in Ingests PROVE RowStep(b)
      BY <1>0, <2>1 DEF RowStep, TypeOK
    <2>3. Return(p, "done") /\ "done" \in Returned
      BY <1>2 DEF PromoteFirst, Returned
    <2> QED
      BY <1>0, <2>2, <2>3, ReturnJudges
  <1>3. CASE LoseFirst(p)
    BY <1>0, <1>3, QuietRows
    DEF LoseFirst, JudgesConflict, Judging, TypeOK, Goto, beliefRows
  <1>4. CASE CommitResolution(p)
    <2>1. PICK winner \in Ingests, loser \in Ingests :
            /\ winner = decision[p].winner /\ loser = decision[p].loser
            /\ status[loser] # "absent" /\ winner # loser
      BY <1>0, <1>4, CommitJudgesAnswer DEF CommitResolution, Inserted
    <2>2. /\ status' = [status EXCEPT ![winner] = "canonical", ![loser] = "superseded"]
          /\ superseded_by' = [superseded_by EXCEPT ![loser] = winner]
          /\ claim' = claim /\ version' # version /\ winner # None
      BY <1>0, <1>4, <2>1, ProcessAssumption
      DEF CommitResolution, Supersede, NextVersion, Processes
    <2>3. ASSUME NEW b \in Ingests PROVE RowStep(b)
      <3>1. CASE b = loser
        BY <1>0, <2>1, <2>2, <3>1 DEF RowStep, TypeOK
      <3>2. CASE b # loser
        BY <1>0, <2>1, <2>2, <3>2 DEF RowStep, TypeOK
      <3> QED
        BY <3>1, <3>2
    <2>4. Return(p, "done") /\ "done" \in Returned
      BY <1>4 DEF CommitResolution, Returned
    <2> QED
      BY <1>0, <2>3, <2>4, ReturnJudges
  <1>5. CASE RaiseStale(p)
    BY <1>0, <1>5, QuietRows, ReturnJudges DEF RaiseStale, Returned, beliefRows
  <1>6. CASE CommitContested(p)
    <2>1. /\ status' = [status EXCEPT ![existing[p]] = "contested",
                                      ![target[p]] = "contested"]
          /\ UNCHANGED <<superseded_by, claim>>
      BY <1>6 DEF CommitContested
    <2>2. ASSUME NEW b \in Ingests PROVE RowStep(b)
      BY <1>0, <2>1 DEF RowStep, TypeOK
    <2>3. Return(p, "contested") /\ "contested" \in Returned
      BY <1>6 DEF CommitContested, Returned
    <2> QED
      BY <1>0, <2>2, <2>3, ReturnJudges
  <1> QED
    BY <1>1, <1>2, <1>3, <1>4, <1>5, <1>6 DEF CommitStep

LEMMA FaultJobs ==
    ASSUME IInv, NEW p \in Processes, SerializationFailure(p) \/ Abort(p),
           JudgesConflict(p)
    PROVE  (\A b \in Ingests : RowStep(b)) /\ JudgesConflict(p)'
  <1>0. TypeOK /\ UNCHANGED <<subjectRow, beliefRows>>
    BY DEF IInv, SerializationFailure, Abort
  <1>1. CASE Return(p, "error")
    BY <1>0, <1>1, QuietRows, ReturnJudges DEF Returned, beliefRows
  <1>2. CASE UNCHANGED <<pc, target, expected, existing, decision>>
    BY <1>0, <1>2, QuietRows
    DEF JudgesConflict, Detection, subjectRow, beliefRows
  <1> QED
    BY <1>1, <1>2 DEF SerializationFailure, Abort

\* A step of process p, as far as the jobs' invariant goes.
LEMMA StepKeepsJobs ==
    ASSUME JobsInv, IInv', NEW p, Frame(p), archived' = archived,
           \A b \in Ingests : RowStep(b),
           p \in Processes => JudgesConflict(p)'
    PROVE  JobsInv'
  <1>0. TypeOK /\ TypeOK'
    BY DEF JobsInv, IInv
  <1>1. ASSUME NEW b \in Ingests PROVE Settled(b)'
    BY StaysSettled DEF JobsInv
  <1>2. ASSUME NEW q \in Processes PROVE JudgesConflict(q)'
    <2>1. CASE q = p
      BY <2>1
    <2>2. CASE q # p
      BY <1>0, <2>2, OthersJudgeOn DEF JobsInv, IInv
    <2> QED
      BY <2>1, <2>2
  <1>3. IsFiniteSet(Rows')
    <2>1. Rows' \subseteq Rows \cup {p}
      BY DEF Rows, Frame
    <2>2. IsFiniteSet(Rows \cup {p})
      BY FS_AddElement DEF JobsInv
    <2> QED
      BY <2>1, <2>2, FS_Subset
  <1> QED
    BY <1>1, <1>2, <1>3 DEF JobsInv

LEMMA NextJobs ==
    ASSUME JobsInv, Next, archived' = archived
    PROVE  JobsInv'
  <1>0. IInv /\ IInv' /\ TypeOK' /\ \A b \in Ingests : Settled(b)
    <2>1. IInv'
      BY NextInv DEF JobsInv
    <2> QED
      BY <2>1 DEF JobsInv, IInv
  <1>1. ASSUME NEW i \in Ingests, IngestStep(i) PROVE JobsInv'
    <2>1. i \in Processes
      BY DEF Processes
    <2>2. Frame(i) /\ (\A b \in Ingests : RowStep(b)) /\ JudgesConflict(i)'
      BY <1>0, <1>1, <2>1, IngestInv, IngestJobs DEF JobsInv
    <2> QED
      BY <1>0, <2>2, StepKeepsJobs
  <1>2. ASSUME NEW w \in Workers, NEW b \in Ingests, PickCandidate(w, b) PROVE JobsInv'
    <2>1. Frame(w) /\ (\A c \in Ingests : RowStep(c)) /\ JudgesConflict(w)'
      BY <1>0, <1>2, PickInv, PickJobs
    <2> QED
      BY <1>0, <2>1, StepKeepsJobs
  <1>3. ASSUME NEW p \in Processes,
               \/ PendingStep(p) \/ CommitStep(p)
               \/ SerializationFailure(p) \/ Abort(p)
        PROVE  JobsInv'
    <2>1. Frame(p)
      BY <1>0, <1>3, PendingInv, CommitInv, FaultInv
    <2>2. (\A b \in Ingests : RowStep(b)) /\ JudgesConflict(p)'
      BY <1>0, <1>3, PendingJobs, CommitJobs, FaultJobs DEF JobsInv
    <2> QED
      BY <1>0, <2>1, <2>2, StepKeepsJobs
  <1>4. ASSUME UNCHANGED <<subjectRow, status, superseded_by, claim, pc, locals>>
        PROVE  JobsInv'
    <2>1. \A b \in Ingests : RowStep(b)
      BY <1>4, QuietRows
    <2>2. Frame(None)
      BY <1>0, <1>4 DEF Frame, subjectRow, locals, IInv, TypeOK
    <2>3. None \notin Processes
      BY ProcessAssumption
    <2> QED
      BY <1>0, <2>1, <2>2, <2>3, StepKeepsJobs
  <1>5. CASE TimePasses
    BY <1>4, <1>5 DEF TimePasses
  <1>6. CASE \E s \in LedgerStates : UpsertLedger(s)
    BY <1>4, <1>6 DEF UpsertLedger, beliefRows
  <1> QED
    BY <1>1, <1>2, <1>3, <1>5, <1>6 DEF Next

-----------------------------------------------------------------------------
(* Consolidation. *)

\* What a consolidation leaves of the subject.
LEMMA Consolidated ==
    ASSUME JobsInv, Consolidate
    PROVE  \E sweep \in SweepStates, done \in SUBSET Candidates :
            /\ Swept(sweep, done)
            /\ version' = ConsolidatedVersion(sweep)
            /\ canonical_belief_id' = ConsolidatedAnswer(sweep)
            /\ status' = IF sweep.promoted
                         THEN [sweep.status EXCEPT ![sweep.survivor] = "canonical"]
                         ELSE sweep.status
            /\ superseded_by' = sweep.superseded_by
  <1>1. PICK rows \in Seqs!SetToSeqs(Candidates), newer \in SUBSET Candidates :
            LET sweep == Sweep(rows, newer)
            IN  /\ version' = ConsolidatedVersion(sweep)
                /\ canonical_belief_id' = ConsolidatedAnswer(sweep)
                /\ status' = IF sweep.promoted
                             THEN [sweep.status EXCEPT ![sweep.survivor] = "canonical"]
                             ELSE sweep.status
                /\ superseded_by' = sweep.superseded_by
    BY DEF Consolidate
  <1>2. IsFiniteSet(Candidates)
    <2>1. Candidates \subseteq Rows
      BY DEF Candidates, Rows
    <2> QED
      BY <2>1, FS_Subset DEF JobsInv
  <1>3. TypeOK /\ canonical_belief_id \notin Candidates
    BY ProcessAssumption
    DEF JobsInv, IInv, StoreInv, AnswerIsStanding, Candidates, Processes
  <1>4. PICK done \in SUBSET Candidates :
            Sweep(rows, newer) \in SweepStates /\ Swept(Sweep(rows, newer), done)
    BY <1>2, <1>3, SweepSweeps
  <1> QED
    BY <1>1, <1>4

LEMMA ConsolidateJobs ==
    ASSUME JobsInv, Consolidate, archived' = archived
    PROVE  JobsInv'
  <1>0. /\ TypeOK /\ StoreInv /\ version \in Nat /\ version # 0
        /\ None \notin Ingests /\ None \notin Processes
        /\ UNCHANGED <<volatility, claim, age, resolutions, ledger, pc, locals, faults>>
    BY ProcessAssumption DEF JobsInv, IInv, TypeOK, Consolidate, Processes
  <1>1. PICK sweep \in SweepStates, done \in SUBSET Candidates :
            /\ Swept(sweep, done)
            /\ version' = ConsolidatedVersion(sweep)
            /\ canonical_belief_id' = ConsolidatedAnswer(sweep)
            /\ status' = IF sweep.promoted
                         THEN [sweep.status EXCEPT ![sweep.survivor] = "canonical"]
                         ELSE sweep.status
            /\ superseded_by' = sweep.superseded_by
    BY Consolidated
  <1>2. PICK e, s, promoted, marks :
            /\ e = canonical_belief_id /\ s = sweep.survivor
            /\ promoted = sweep.promoted /\ marks = sweep.status
    OBVIOUS
  <1>3. /\ e \in Ingests \cup {None} /\ s \in Ingests \cup {None}
        /\ promoted \in BOOLEAN /\ marks \in [Ingests -> Statuses]
        /\ superseded_by' \in [Ingests -> Ingests \cup {None}]
        /\ \A b \in done : b \in Ingests /\ status[b] = "candidate"
        /\ e \in Ingests => status[e] \in {"canonical", "contested"}
        /\ \A b \in Ingests : status[b] = "canonical" => b = e
    BY <1>0, <1>1, <1>2
    DEF SweepStates, TypeOK, Candidates, StoreInv, AnswerIsStanding, OneCanonical
  <1>4. /\ promoted => /\ s \in done /\ version' = version + 1
                       /\ canonical_belief_id' = s
                       /\ status' = [marks EXCEPT ![s] = "canonical"]
        /\ ~promoted => /\ version' = version /\ canonical_belief_id' = e
                        /\ status' = marks
                        /\ e # None => s = e
        /\ promoted /\ e # None => marks[e] = "superseded"
    BY <1>1, <1>2 DEF Swept, ConsolidatedVersion, ConsolidatedAnswer
  <1>5. \A b \in Ingests :
            \/ marks[b] = status[b] /\ superseded_by'[b] = superseded_by[b]
            \/ /\ b \in done \cup {e} /\ b # s
               /\ marks[b] = "superseded" /\ superseded_by'[b] # None
               /\ ~promoted /\ e # None => AreDuplicates(b, e)
    BY <1>1, <1>2 DEF Swept
  <1>6. StoreInv'
    <2>1. CASE promoted
      BY <1>0, <1>3, <1>4, <1>5, <2>1 DEF StoreInv, OneCanonical, AnswerIsStanding
    <2>2. CASE ~promoted
      BY <1>0, <1>3, <1>4, <1>5, <2>2 DEF StoreInv, OneCanonical, AnswerIsStanding
    <2> QED
      BY <2>1, <2>2
  <1>7. TypeOK'
    <2>1. /\ version' \in Nat /\ canonical_belief_id' \in Ingests \cup {None}
          /\ status' \in [Ingests -> Statuses]
      BY <1>0, <1>3, <1>4 DEF Statuses
    <2> QED
      BY <1>0, <1>3, <2>1 DEF TypeOK, locals
  <1>8. \A b \in Ingests : RowStep(b)
    <2>1. ASSUME NEW b \in Ingests, e # None PROVE AreDuplicates(b, e) => Detection(b) = "duplicate"
      BY <1>2, <2>1 DEF AreDuplicates, Detection
    <2>2. ASSUME NEW b \in Ingests, b # s, marks[b] = status[b], superseded_by'[b] = superseded_by[b]
          PROVE  RowStep(b)
      BY <1>0, <1>3, <1>4, <2>2 DEF RowStep
    <2>3. ASSUME NEW b \in Ingests, b = s PROVE RowStep(b)
      BY <1>0, <1>3, <1>4, <1>5, <2>3 DEF RowStep
    <2>4. ASSUME NEW b \in Ingests, b \in done \cup {e}, b # s,
                 marks[b] = "superseded", superseded_by'[b] # None,
                 ~promoted /\ e # None => AreDuplicates(b, e)
          PROVE  RowStep(b)
      <3>1. status[b] # "absent" /\ status'[b] = "superseded"
        BY <1>3, <1>4, <2>4
      <3>2. version' = version => ~promoted
        BY <1>0, <1>4
      <3> QED
        BY <1>0, <1>2, <2>1, <2>4, <3>1, <3>2 DEF RowStep
    <2> QED
      BY <1>5, <2>2, <2>3, <2>4
  <1>9. Frame(None)
    <2>1. version <= version' /\ (version' = version => canonical_belief_id' = canonical_belief_id)
      BY <1>0, <1>2, <1>4
    <2>2. \A b \in Ingests : status[b] = "absent" <=> status'[b] = "absent"
      BY <1>3, <1>4, <1>5
    <2> QED
      BY <1>0, <2>1, <2>2 DEF Frame, locals
  <1>10. IInv'
    <2>1. ASSUME NEW q \in Processes PROVE LocalInv(q)'
      BY <1>0, <1>7, <1>9, OthersUndisturbed DEF JobsInv, IInv
    <2> QED
      BY <1>6, <1>7, <2>1 DEF IInv
  <1> QED
    BY <1>0, <1>8, <1>9, <1>10, StepKeepsJobs

-----------------------------------------------------------------------------
(* Decay, and the theorems. *)

LEMMA DecayJobs == JobsInv /\ [DecayNext]_decayVars => JobsInv'
  <1> SUFFICES ASSUME JobsInv, [DecayNext]_decayVars
               PROVE  JobsInv'
    OBVIOUS
  <1>1. CASE ConsolidatedNext /\ UNCHANGED archived
    BY <1>1, NextJobs, ConsolidateJobs DEF ConsolidatedNext
  <1>2. ASSUME UNCHANGED vars, \A b \in Ingests : archived'[b] => superseded_by[b] # None
        PROVE  JobsInv'
    <2>1. IInv'
      BY <1>2, NextInv DEF JobsInv
    <2>2. /\ UNCHANGED <<version, canonical_belief_id, status, superseded_by, claim>>
          /\ UNCHANGED <<pc, target, expected>>
      BY <1>2 DEF vars, subjectRow, beliefRows, locals
    <2>3. ASSUME NEW b \in Ingests PROVE Settled(b)'
      BY <1>2, <2>2 DEF JobsInv, Settled
    <2>4. ASSUME NEW p \in Processes PROVE JudgesConflict(p)'
      BY <2>2 DEF JobsInv, JudgesConflict, Detection
    <2>5. IsFiniteSet(Rows')
      BY <2>2 DEF JobsInv, Rows
    <2> QED
      BY <2>1, <2>3, <2>4, <2>5 DEF JobsInv
  <1>3. CASE apply_decay
    <2>1. PICK aged \in SUBSET Ingests :
              archived' = [b \in Ingests |-> archived[b] \/ (Expired(b) /\ b \in aged)]
      BY <1>3 DEF apply_decay
    <2>2. ASSUME NEW b \in Ingests, archived'[b] PROVE superseded_by[b] # None
      <3>1. archived[b] \/ Expired(b)
        BY <2>1, <2>2, Zenon
      <3> QED
        BY <3>1, Zenon DEF JobsInv, Settled, Expired
    <2> QED
      BY <1>2, <1>3, <2>2 DEF apply_decay
  <1>4. CASE UNCHANGED decayVars
    <2>1. UNCHANGED vars /\ archived' = archived
      BY <1>4 DEF decayVars
    <2>2. ASSUME NEW b \in Ingests, archived'[b] PROVE superseded_by[b] # None
      BY <2>1, <2>2, Zenon DEF JobsInv, Settled
    <2> QED
      BY <1>2, <2>1, <2>2
  <1> QED
    BY <1>1, <1>3, <1>4 DEF DecayNext

LEMMA JobsInit == DecayInit => JobsInv
  <1> SUFFICES ASSUME DecayInit
               PROVE  JobsInv
    OBVIOUS
  <1>1. IInv
    BY InitInv DEF DecayInit
  <1>2. ASSUME NEW b \in Ingests PROVE Settled(b)
    BY DEF DecayInit, Init, Settled
  <1>3. ASSUME NEW p \in Processes PROVE JudgesConflict(p)
    BY DEF DecayInit, Init, JudgesConflict, Judging
  <1>4. Rows = {}
    BY DEF DecayInit, Init, Rows
  <1> QED
    BY <1>1, <1>2, <1>3, <1>4, FS_EmptySet DEF JobsInv

\* Calls, workers, consolidation and decay, in any order, keep the store and
\* what each process remembers consistent.
THEOREM JobsInvariance == DecaySpec => []JobsInv
  BY JobsInit, DecayJobs, PTL DEF DecaySpec

\* search() and get_all() never show, by default, a belief that as_of() does
\* not call the answer, while both jobs change the rows they filter.
THEOREM ReadersAlwaysAgree == DecaySpec => []ReadersAgree
  <1>1. JobsInv => ReadersAgree
    BY DEF JobsInv, IInv, StoreInv, OneCanonical, ReadersAgree, Shown, AsOfCanonical
  <1> QED
    BY <1>1, JobsInvariance, PTL

\* Neither a merge by consolidation nor an escalation that comes after it leaves
\* the subject pointing to a belief that is superseded or pending.
THEOREM AnswerStandsThroughJobs == DecaySpec => []AnswerIsStanding
  <1>1. JobsInv => AnswerIsStanding
    BY DEF JobsInv, IInv, StoreInv
  <1> QED
    BY <1>1, JobsInvariance, PTL

\* Only a commit_resolution takes a version and a resolutions row together, and
\* only it and consolidation give a subject another answer.
LEMMA OnlyCommitsReplace ==
    ASSUME IInv, Next,
           \/ version' # version /\ resolutions' # resolutions
           \/ canonical_belief_id' # canonical_belief_id /\ canonical_belief_id # None
    PROVE  \E p \in Processes : CommitResolution(p)
  <1>1. CASE version' # version /\ canonical_belief_id # None
    BY <1>1, OnlyCommitsDecide
  <1>2. CASE version' = version
    <2>1. canonical_belief_id' = canonical_belief_id
      <3>1. TypeOK'
        BY TypeStep DEF IInv
      <3>2. ASSUME NEW i \in Ingests, IngestStep(i) PROVE canonical_belief_id' = canonical_belief_id
        BY <1>2, <3>1, <3>2, IngestInv DEF Frame
      <3>3. ASSUME NEW w \in Workers, NEW b \in Ingests, PickCandidate(w, b)
            PROVE  canonical_belief_id' = canonical_belief_id
        BY <3>3 DEF PickCandidate, subjectRow
      <3>4. ASSUME NEW p \in Processes,
                   \/ PendingStep(p) \/ CommitStep(p)
                   \/ SerializationFailure(p) \/ Abort(p)
            PROVE  canonical_belief_id' = canonical_belief_id
        BY <1>2, <3>1, <3>4, PendingInv, CommitInv, FaultInv DEF Frame
      <3>5. TimePasses \/ (\E s \in LedgerStates : UpsertLedger(s))
                => canonical_belief_id' = canonical_belief_id
        BY DEF TimePasses, UpsertLedger, subjectRow
      <3> QED
        BY <3>2, <3>3, <3>4, <3>5 DEF Next
    <2> QED
      BY <1>2, <2>1
  <1>3. CASE version' # version /\ resolutions' # resolutions
    <2>1. ASSUME NEW i \in Ingests, IngestStep(i) PROVE FALSE
      BY <1>3, <2>1
      DEF IngestStep, OpenSubject, UnknownSource, InsertFirst, RefreshCanonical,
          InsertUnrelated, InsertConflicting, VerifyAgainstLedger
    <2>2. ASSUME NEW w \in Workers, NEW b \in Ingests, PickCandidate(w, b) PROVE FALSE
      BY <1>3, <2>2 DEF PickCandidate
    <2>3. ASSUME NEW p \in Processes, PendingStep(p) PROVE FALSE
      BY <1>3, <2>3
      DEF PendingStep, SkipPending, AdoptVacantSubject, MergePending,
          JudgePending, RereadOldSnapshot
    <2>4. ASSUME NEW p \in Processes, CommitStep(p) PROVE CommitResolution(p)
      BY <1>3, <2>4
      DEF CommitStep, Arbitrate, PromoteFirst, LoseFirst, RaiseStale,
          CommitContested, subjectRow
    <2>5. ASSUME NEW p \in Processes, SerializationFailure(p) \/ Abort(p) PROVE FALSE
      BY <1>3, <2>5 DEF SerializationFailure, Abort
    <2>6. ~TimePasses /\ ~\E s \in LedgerStates : UpsertLedger(s)
      BY <1>3 DEF TimePasses, UpsertLedger
    <2> QED
      BY <2>1, <2>2, <2>3, <2>4, <2>5, <2>6 DEF Next
  <1> QED
    BY <1>1, <1>2, <1>3

\* A merge that gives the subject another answer makes every decision that was
\* read before it stale: none takes effect about a belief merged away.
THEOREM DecisionsSurviveConsolidation == DecaySpec => DecisionsAreAboutTheAnswer
  <1> DEFINE Names == version' # version /\ resolutions' # resolutions =>
                        LET row == resolutions'[Len(resolutions')]
                        IN  canonical_belief_id \in {row.winner, row.loser}
  <1>1. JobsInv /\ [DecayNext]_decayVars => [Names]_vars
    <2> SUFFICES ASSUME JobsInv, [DecayNext]_decayVars,
                        version' # version, resolutions' # resolutions
                 PROVE  LET row == resolutions'[Len(resolutions')]
                        IN  canonical_belief_id \in {row.winner, row.loser}
      OBVIOUS
    <2>1. Next
      BY DEF DecayNext, decayVars, vars, ConsolidatedNext, Consolidate, apply_decay,
             subjectRow
    <2>2. PICK p \in Processes : CommitResolution(p)
      BY <2>1, OnlyCommitsReplace DEF JobsInv
    <2>3. TypeOK /\ LocalInv(p)
      BY DEF JobsInv, IInv
    <2>4. PICK d \in Decisions :
            /\ d = decision[p] /\ canonical_belief_id \in {d.winner, d.loser}
            /\ resolutions' = Append(resolutions, d)
      BY <2>2, <2>3, CommitJudgesAnswer DEF CommitResolution, TypeOK
    <2>5. resolutions'[Len(resolutions')] = d
      BY <2>3, <2>4, AppendProperties DEF TypeOK
    <2> QED
      BY <2>4, <2>5
  <1> QED
    BY <1>1, JobsInvariance, PTL DEF DecaySpec, DecisionsAreAboutTheAnswer

\* An archived belief stays what it was when it was archived: no decision and no
\* merge in flight makes it the answer of a subject that has another.
THEOREM ArchivedStaysSettled == DecaySpec => ArchivedIsSettled
  <1> DEFINE Stays == \A b \in Ingests :
                        archived[b] /\ canonical_belief_id \notin {None, b} =>
                            canonical_belief_id' # b
  <1>1. JobsInv /\ [DecayNext]_decayVars => [Stays]_decayVars
    <2> SUFFICES ASSUME JobsInv, [DecayNext]_decayVars, NEW b \in Ingests,
                        archived[b], canonical_belief_id \notin {None, b},
                        canonical_belief_id' = b
                 PROVE  FALSE
      BY Zenon
    <2>1. superseded_by[b] # None
      BY Zenon DEF JobsInv, Settled
    <2>2. CASE Next
      <3>1. PICK p \in Processes : CommitResolution(p)
        BY <2>2, OnlyCommitsReplace DEF JobsInv
      <3>2. /\ pc[p] = "commit" /\ version = expected[p]
            /\ canonical_belief_id' = decision[p].winner
        BY <3>1 DEF CommitResolution, VersionHolds, NewAnswer
      <3>3. b \in {existing[p], target[p]} /\ canonical_belief_id = existing[p]
        BY <3>2 DEF JobsInv, IInv, LocalInv, DecidesPair, Judging
      <3>4. b = target[p]
        BY <3>3
      <3> QED
        BY <2>1, <3>2, <3>4 DEF JobsInv, JudgesConflict, Judging
    <2>3. CASE Consolidate
      <3>1. PICK sweep \in SweepStates, done \in SUBSET Candidates :
                Swept(sweep, done) /\ canonical_belief_id' = ConsolidatedAnswer(sweep)
        BY <2>3, Consolidated
      <3>2. b \in Candidates
        BY <3>1 DEF Swept, ConsolidatedAnswer
      <3> QED
        BY <2>1, <3>2 DEF JobsInv, Settled, Candidates
    <2> QED
      BY <2>2, <2>3
      DEF DecayNext, decayVars, vars, ConsolidatedNext, apply_decay, subjectRow
  <1> QED
    BY <1>1, JobsInvariance, PTL DEF DecaySpec, ArchivedIsSettled
================================================================================
