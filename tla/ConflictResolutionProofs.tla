----------------------- MODULE ConflictResolutionProofs -----------------------
(***************************************************************************)
(* Theorems about ConflictResolution for any calls, workers, claims,       *)
(* similarities, ledgers, retry limits and faults.                         *)
(*                                                                         *)
(* The argument: a process that is about to decide remembers the version   *)
(* it read before the answer it compared with (LocalInv), every change of  *)
(* the answer moves the version, so if the version still holds the answer  *)
(* does too, and replacing it leaves no second canonical belief behind.    *)
(***************************************************************************)
EXTENDS ConflictResolution, SequenceTheorems, TLAPS

Judging == {"verify", "arbitrate", "commit", "contest"}

Inserted(b) == b \in Ingests /\ status[b] # "absent"

\* p's decision is between the two beliefs it compared.
DecidesPair(p) ==
    \/ decision[p].winner = existing[p] /\ decision[p].loser = target[p]
    \/ decision[p].winner = target[p] /\ decision[p].loser = existing[p]

\* What process p may rely on at each of its steps.
LocalInv(p) ==
    /\ expected[p] <= version
    /\ pc[p] \in {"start", "detect"} => p \in Ingests /\ status[p] = "absent"
    /\ pc[p] \in {"detect", "verify"} => target[p] = p
    /\ pc[p] \in {"promote", "pending"} \cup Judging => Inserted(target[p])
    /\ pc[p] \in Judging =>
        /\ Inserted(existing[p])
        /\ existing[p] # target[p]
        /\ expected[p] = version => canonical_belief_id = existing[p]
    /\ pc[p] = "verify" => decision[p].winner = None \/ DecidesPair(p)
    /\ pc[p] = "commit" => DecidesPair(p)

\* What the rows of the store satisfy whatever the processes are doing.
StoreInv ==
    /\ version = 0 => canonical_belief_id = None
    /\ OneCanonical
    /\ AnswerIsStanding

\* The inductive invariant.
IInv == TypeOK /\ StoreInv /\ \A p \in Processes : LocalInv(p)

\* A step of p leaves the other processes' locals alone, inserts no belief but
\* p's own, deletes none, and changes the answer only with the version.
Frame(p) ==
    /\ \A q \in Processes \ {p} :
        /\ pc'[q] = pc[q] /\ target'[q] = target[q]
        /\ expected'[q] = expected[q] /\ existing'[q] = existing[q]
        /\ decision'[q] = decision[q]
    /\ \A b \in Ingests \ {p} : status[b] = "absent" => status'[b] = "absent"
    /\ \A b \in Ingests : status[b] # "absent" => status'[b] # "absent"
    /\ version <= version'
    /\ version' = version => canonical_belief_id' = canonical_belief_id

-----------------------------------------------------------------------------
(* The decisions the steps compute. *)

\* Rules and ledger leave a conflict open or decide it for one of the two
\* beliefs compared.
LEMMA DecisionOfPair ==
    ASSUME NEW e \in Ingests \cup {None}, NEW n \in Ingests \cup {None}
    PROVE  /\ Undecided \in Decisions
           /\ RuleDecision(e, n) \in {Undecided,
                For(n, e, "rule", "contradiction"), For(e, n, "rule", "contradiction")}
           /\ RuleDecision(e, n) \in Decisions
           /\ \A d \in Decisions : LedgerOr(e, n, d) \in Decisions
           /\ \A d : LedgerOr(e, n, d) \in {d,
                For(n, e, "ledger_verification", "contradiction"),
                For(e, n, "ledger_verification", "contradiction")}
  BY DEF Undecided, Decisions, RuleDecision, LedgerOr, For, VALID_VERDICTS

\* Whatever the models answer, an arbiter decision has a verdict of the schema.
LEMMA ArbiterVerdict ==
    ASSUME NEW equal, NEW d \in ArbiterDecisions(Verdicts, Confidences, equal)
    PROVE  d.verdict \in VALID_VERDICTS
  <1>1. CASE d = ArbitrationFailed
    BY <1>1 DEF ArbitrationFailed, VALID_VERDICTS
  <1>2. CASE d # ArbitrationFailed
    <2> DEFINE Raws == [winner : VALID_WINNERS, verdict : Verdicts,
                        confidence : Confidences, needs_human : BOOLEAN]
    <2>1. PICK raw \in Raws : d = Decide(raw, equal)
      BY <1>2 DEF ArbiterDecisions
    <2>2. raw.verdict \in Verdicts
      OBVIOUS
    <2>3. d.verdict = raw.verdict
      BY <2>1 DEF Decide
    <2> QED
      BY <2>2, <2>3, ModelAssumption
  <1> QED
    BY <1>1, <1>2

-----------------------------------------------------------------------------
(* Type correctness. *)

\* Leaving a call keeps the locals well typed.
LEMMA ReturnType ==
    ASSUME TypeOK, NEW p \in Processes, NEW outcome \in Returned,
           Return(p, outcome)
    PROVE  /\ pc' \in [Processes -> Steps]
           /\ target' \in [Processes -> Ingests \cup {None}]
           /\ expected' \in [Processes -> Nat]
           /\ existing' \in [Processes -> Ingests \cup {None}]
           /\ decision' \in [Processes -> Decisions]
           /\ attempt' \in [Processes -> 1..MAX_RETRIES]
  <1>1. Undecided \in Decisions
    BY DEF Undecided, Decisions, VALID_VERDICTS
  <1>2. outcome \in Steps /\ "idle" \in Steps
    BY DEF Steps, Returned
  <1> QED
    BY <1>1, <1>2, BoundAssumption DEF TypeOK, Return, Goto

LEMMA IngestType ==
    ASSUME TypeOK, NEW i \in Ingests, IngestStep(i)
    PROVE  TypeOK'
  <1> i \in Processes
    BY DEF Processes
  <1> USE DEF TypeOK
  <1>1. CASE OpenSubject(i)
    <2>1. version' \in Nat /\ volatility' \in {"stable", "volatile"}
      <3>1. CASE version = 0
        <4>1. version' = 1 /\ volatility' \in Volatilities
          BY <1>1, <3>1 DEF OpenSubject
        <4> QED
          BY <4>1, ModelAssumption
      <3>2. CASE version # 0
        BY <1>1, <3>2 DEF OpenSubject
      <3> QED
        BY <3>1, <3>2
    <2>2. PICK c \in Claims : claim' = [claim EXCEPT ![i] = c]
      BY <1>1 DEF OpenSubject
    <2>3. claim' \in [Ingests -> Claims \cup {None}]
      BY <2>2
    <2>4. "detect" \in Steps
      BY DEF Steps
    <2> QED
      BY <1>1, <2>1, <2>3, <2>4 DEF OpenSubject, Goto
  <1>2. CASE UnknownSource(i)
    <2>1. Return(i, "error") /\ "error" \in Returned
      BY <1>2 DEF UnknownSource, Returned
    <2> QED
      BY <1>2, <2>1, ReturnType DEF UnknownSource, subjectRow, beliefRows
  <1>3. CASE InsertFirst(i)
    BY <1>3 DEF InsertFirst, InsertCandidate, Goto, Steps, Statuses,
                subjectRow, locals
  <1>4. CASE RefreshCanonical(i)
    <2>1. Return(i, "done") /\ "done" \in Returned
      BY <1>4 DEF RefreshCanonical, Returned
    <2> QED
      BY <1>4, <2>1, ReturnType DEF RefreshCanonical, subjectRow
  <1>5. CASE InsertUnrelated(i)
    <2>1. Return(i, "no_conflict") /\ "no_conflict" \in Returned
      BY <1>5 DEF InsertUnrelated, Returned
    <2> QED
      BY <1>5, <2>1, ReturnType
      DEF InsertUnrelated, InsertCandidate, subjectRow, Statuses
  <1>6. CASE InsertConflicting(i)
    <2>1. RuleDecision(canonical_belief_id, i) \in Decisions
      BY DecisionOfPair
    <2> QED
      BY <1>6, <2>1
      DEF InsertConflicting, InsertCandidate, Goto, Steps, Statuses, subjectRow
  <1>7. CASE VerifyAgainstLedger(i)
    <2>1. LedgerOr(existing[i], i, decision[i]) \in Decisions
      BY DecisionOfPair
    <2> QED
      BY <1>7, <2>1
      DEF VerifyAgainstLedger, Goto, After, Steps, subjectRow, beliefRows
  <1> QED
    BY <1>1, <1>2, <1>3, <1>4, <1>5, <1>6, <1>7 DEF IngestStep

LEMMA PendingType ==
    ASSUME TypeOK, NEW p \in Processes, PendingStep(p)
    PROVE  TypeOK'
  <1> USE DEF TypeOK
  <1>1. CASE SkipPending(p)
    <2>1. PICK outcome \in {"no_conflict", "done"} : Return(p, outcome)
      BY <1>1 DEF SkipPending
    <2>2. outcome \in Returned
      BY DEF Returned
    <2> QED
      BY <1>1, <2>1, <2>2, ReturnType DEF SkipPending, subjectRow, beliefRows
  <1>2. CASE AdoptVacantSubject(p)
    BY <1>2 DEF AdoptVacantSubject, Goto, Steps, subjectRow, beliefRows
  <1>3. CASE MergePending(p)
    <2>1. Return(p, "done") /\ "done" \in Returned
      BY <1>3 DEF MergePending, Returned
    <2> QED
      BY <1>3, <2>1, ReturnType DEF MergePending, Statuses, subjectRow
  <1>4. CASE JudgePending(p)
    <2> DEFINE e == canonical_belief_id
               d == LedgerOr(e, target[p], RuleDecision(e, target[p]))
    <2>1. d \in Decisions
      BY DecisionOfPair
    <2>2. After(d) \in Steps
      BY DEF After, Steps
    <2>3. decision' = [decision EXCEPT ![p] = d] /\ Goto(p, After(d))
      BY <1>4 DEF JudgePending
    <2>4. decision' \in [Processes -> Decisions] /\ pc' \in [Processes -> Steps]
      BY <2>1, <2>2, <2>3 DEF Goto
    <2> QED
      BY <1>4, <2>4 DEF JudgePending, subjectRow, beliefRows
  <1>5. CASE RereadOldSnapshot(p)
    <2>1. Return(p, "error") /\ "error" \in Returned
      BY <1>5 DEF RereadOldSnapshot, Returned
    <2> QED
      BY <1>5, <2>1, ReturnType DEF RereadOldSnapshot, subjectRow, beliefRows
  <1> QED
    BY <1>1, <1>2, <1>3, <1>4, <1>5 DEF PendingStep

\* A decision of the arbiter names the two beliefs compared, or nobody.
LEMMA ArbitrateDecides ==
    ASSUME TypeOK, NEW p \in Processes, Arbitrate(p)
    PROVE  \E d \in Decisions :
            /\ decision' = [decision EXCEPT ![p] = d]
            /\ \/ /\ d.winner = existing[p] /\ d.loser = target[p]
                  /\ Goto(p, "commit") \/ Goto(p, "contest")
               \/ /\ d.winner = target[p] /\ d.loser = existing[p]
                  /\ Goto(p, "commit") \/ Goto(p, "contest")
               \/ Goto(p, "contest")
  <1> DEFINE equal == claim[existing[p]].tier = claim[target[p]].tier
             WinnerOf(a) == CASE a.winner = "A" -> existing[p]
                              [] a.winner = "B" -> target[p]
                              [] OTHER -> None
             LoserOf(a) == CASE a.winner = "A" -> target[p]
                             [] a.winner = "B" -> existing[p]
                             [] OTHER -> None
             D(a) == For(WinnerOf(a), LoserOf(a), "llm", a.verdict)
  <1>1. PICK a \in ArbiterDecisions(Verdicts, Confidences, equal) :
            /\ decision' = [decision EXCEPT ![p] = D(a)]
            /\ Goto(p, IF ~a.needs_human /\ WinnerOf(a) # None
                       THEN "commit" ELSE "contest")
    BY DEF Arbitrate
  <1>2. a.verdict \in VALID_VERDICTS
    BY ArbiterVerdict
  <1>3. /\ WinnerOf(a) \in Ingests \cup {None}
        /\ LoserOf(a) \in Ingests \cup {None}
    BY DEF TypeOK
  <1>4. D(a) \in Decisions
    BY <1>2, <1>3 DEF For, Decisions
  <1>5. D(a).winner = WinnerOf(a) /\ D(a).loser = LoserOf(a)
    BY DEF For
  <1>6. \/ WinnerOf(a) = existing[p] /\ LoserOf(a) = target[p]
        \/ WinnerOf(a) = target[p] /\ LoserOf(a) = existing[p]
        \/ WinnerOf(a) = None
    OBVIOUS
  <1> HIDE DEF D, WinnerOf, LoserOf
  <1> QED
    BY <1>1, <1>4, <1>5, <1>6

LEMMA CommitType ==
    ASSUME TypeOK, NEW p \in Processes, CommitStep(p)
    PROVE  TypeOK'
  <1> USE DEF TypeOK
  <1>1. CASE Arbitrate(p)
    <2>1. PICK d \in Decisions :
            /\ decision' = [decision EXCEPT ![p] = d]
            /\ Goto(p, "commit") \/ Goto(p, "contest")
      BY <1>1, ArbitrateDecides
    <2>2. pc' \in [Processes -> Steps]
      BY <2>1 DEF Goto, Steps
    <2> QED
      BY <1>1, <2>1, <2>2 DEF Arbitrate, subjectRow, beliefRows
  <1>2. CASE PromoteFirst(p)
    <2>1. Return(p, "done") /\ "done" \in Returned
      BY <1>2 DEF PromoteFirst, Returned
    <2>2. version' \in Nat
      BY <1>2 DEF PromoteFirst, NextVersion
    <2>3. /\ status' \in [Ingests -> Statuses]
          /\ canonical_belief_id' \in Ingests \cup {None}
      BY <1>2 DEF PromoteFirst, Statuses
    <2> QED
      BY <1>2, <2>1, <2>2, <2>3, ReturnType DEF PromoteFirst
  <1>3. CASE LoseFirst(p)
    BY <1>3, BoundAssumption
    DEF LoseFirst, Goto, Steps, subjectRow, beliefRows
  <1>4. CASE CommitResolution(p)
    <2>1. Return(p, "done") /\ "done" \in Returned
      BY <1>4 DEF CommitResolution, Returned
    <2>2. /\ decision[p] \in Decisions
          /\ decision[p].winner \in Ingests \cup {None}
      BY DEF Decisions
    <2>3. resolutions' \in Seq(Decisions)
      BY <1>4, <2>2, AppendProperties DEF CommitResolution
    <2>4. canonical_belief_id' \in Ingests \cup {None}
      BY <1>4, <2>2 DEF CommitResolution, NewAnswer
    <2>5. superseded_by' \in [Ingests -> Ingests \cup {None}]
      BY <1>4, <2>2 DEF CommitResolution, Supersede
    <2>6. status' \in [Ingests -> Statuses]
      BY <1>4 DEF CommitResolution, Statuses
    <2>7. version' \in Nat
      BY <1>4 DEF CommitResolution, NextVersion
    <2> QED
      BY <1>4, <2>1, <2>3, <2>4, <2>5, <2>6, <2>7, ReturnType
      DEF CommitResolution
  <1>5. CASE RaiseStale(p)
    <2>1. Return(p, "stale") /\ "stale" \in Returned
      BY <1>5 DEF RaiseStale, Returned
    <2> QED
      BY <1>5, <2>1, ReturnType DEF RaiseStale, subjectRow, beliefRows
  <1>6. CASE CommitContested(p)
    <2>1. Return(p, "contested") /\ "contested" \in Returned
      BY <1>6 DEF CommitContested, Returned
    <2>2. resolutions' \in Seq(Decisions)
      BY <1>6, AppendProperties DEF CommitContested
    <2>3. status' \in [Ingests -> Statuses]
      BY <1>6 DEF CommitContested, Statuses
    <2> QED
      BY <1>6, <2>1, <2>2, <2>3, ReturnType DEF CommitContested, subjectRow
  <1> QED
    BY <1>1, <1>2, <1>3, <1>4, <1>5, <1>6 DEF CommitStep

LEMMA TypeStep == TypeOK /\ [Next]_vars => TypeOK'
  <1> SUFFICES ASSUME TypeOK, [Next]_vars
               PROVE  TypeOK'
    OBVIOUS
  <1>1. CASE \E i \in Ingests : IngestStep(i)
    BY <1>1, IngestType
  <1>2. CASE \E w \in Workers, b \in Ingests : PickCandidate(w, b)
    <2> PICK w \in Workers, b \in Ingests : PickCandidate(w, b)
      BY <1>2
    <2>1. "pending" \in Steps
      BY DEF Steps
    <2> QED
      BY <2>1 DEF TypeOK, PickCandidate, Goto, subjectRow, beliefRows
  <1>3. CASE \E p \in Processes : PendingStep(p) \/ CommitStep(p)
    BY <1>3, PendingType, CommitType
  <1>4. CASE \E p \in Processes : SerializationFailure(p)
    <2> PICK p \in Processes : SerializationFailure(p)
      BY <1>4
    <2>1. faults' \in 0..MaxFaults
      BY BoundAssumption DEF TypeOK, SerializationFailure
    <2>2. CASE MayRetry(p)
      <3>1. attempt' \in [Processes -> 1..MAX_RETRIES]
        BY <2>2, BoundAssumption DEF TypeOK, SerializationFailure, MayRetry
      <3> QED
        BY <2>1, <2>2, <3>1 DEF TypeOK, SerializationFailure, subjectRow, beliefRows
    <2>3. CASE ~MayRetry(p)
      <3>1. Return(p, "error") /\ "error" \in Returned
        BY <2>3 DEF SerializationFailure, Returned
      <3> QED
        BY <2>1, <3>1, ReturnType
        DEF TypeOK, SerializationFailure, subjectRow, beliefRows
    <2> QED
      BY <2>2, <2>3
  <1>5. CASE \E p \in Processes : Abort(p)
    <2> PICK p \in Processes : Abort(p)
      BY <1>5
    <2>1. faults' \in 0..MaxFaults
      BY BoundAssumption DEF TypeOK, Abort
    <2>2. Return(p, "error") /\ "error" \in Returned
      BY DEF Abort, Returned
    <2> QED
      BY <2>1, <2>2, ReturnType DEF TypeOK, Abort, subjectRow, beliefRows
  <1>6. CASE TimePasses
    BY <1>6 DEF TypeOK, TimePasses, subjectRow, locals
  <1>7. CASE \E s \in LedgerStates : UpsertLedger(s)
    BY <1>7 DEF TypeOK, UpsertLedger, subjectRow, beliefRows, locals
  <1>8. CASE UNCHANGED vars
    BY <1>8 DEF TypeOK, vars, subjectRow, beliefRows, locals
  <1> QED
    BY <1>1, <1>2, <1>3, <1>4, <1>5, <1>6, <1>7, <1>8 DEF Next

LEMMA TypeInit == Init => TypeOK
  <1> SUFFICES ASSUME Init
               PROVE  TypeOK
    OBVIOUS
  <1>1. Undecided \in Decisions
    BY DEF Undecided, Decisions, VALID_VERDICTS
  <1>2. << >> \in Seq(Decisions)
    OBVIOUS
  <1> QED
    BY <1>1, <1>2, BoundAssumption DEF Init, TypeOK, Statuses, Steps, Returned

\* The rows of the store and the locals of every process keep their types, for
\* any number of calls, workers and claims.
THEOREM TypeCorrect == Spec => []TypeOK
  BY TypeInit, TypeStep, PTL DEF Spec

-----------------------------------------------------------------------------
(* What processes rely on. *)

\* Another process's step takes nothing away from what q relies on: as long as
\* the version q read still holds, so does the answer it compared with.
LEMMA OthersUndisturbed ==
    ASSUME TypeOK, TypeOK', NEW p, Frame(p),
           NEW q \in Processes \ {p}, LocalInv(q)
    PROVE  LocalInv(q)'
  <1>1. /\ expected[q] \in Nat /\ version \in Nat /\ version' \in Nat
        /\ version <= version' /\ expected[q] <= version
    BY DEF TypeOK, Frame, LocalInv
  <1>2. expected'[q] = version' => expected[q] = version /\ version' = version
    BY <1>1 DEF Frame
  <1> QED
    BY <1>1, <1>2 DEF Frame, LocalInv, Inserted, DecidesPair, Judging

\* A process whose call is over relies on nothing.
LEMMA ReturnLocal ==
    ASSUME TypeOK, TypeOK', NEW p \in Processes, NEW outcome \in Returned,
           Return(p, outcome)
    PROVE  /\ LocalInv(p)'
           /\ \A q \in Processes \ {p} :
                /\ pc'[q] = pc[q] /\ target'[q] = target[q]
                /\ expected'[q] = expected[q] /\ existing'[q] = existing[q]
                /\ decision'[q] = decision[q]
  <1>1. pc'[p] \in Returned \cup {"idle"} /\ expected'[p] = 0
    BY DEF TypeOK, Return, Goto
  <1>2. LocalInv(p)'
    BY <1>1 DEF LocalInv, Returned, Judging, TypeOK
  <1> QED
    BY <1>2 DEF TypeOK, Return, Goto

\* A step that touches neither the subject row's answer nor any status.
LEMMA QuietStore ==
    ASSUME StoreInv, UNCHANGED <<version, canonical_belief_id, status>>
    PROVE  StoreInv'
  BY DEF StoreInv, OneCanonical, AnswerIsStanding

\* A step that ends p's call and leaves answer and statuses alone.
LEMMA QuietReturn ==
    ASSUME TypeOK, TypeOK', StoreInv, NEW p \in Processes,
           NEW outcome \in Returned, Return(p, outcome),
           UNCHANGED <<version, canonical_belief_id, status>>
    PROVE  Frame(p) /\ LocalInv(p)' /\ StoreInv'
  <1>1. version <= version'
    BY DEF TypeOK
  <1> QED
    BY <1>1, ReturnLocal, QuietStore DEF Frame

\* The answer of a subject is an inserted belief.
LEMMA AnswerInserted ==
    ASSUME TypeOK, StoreInv, canonical_belief_id # None
    PROVE  Inserted(canonical_belief_id)
  BY DEF TypeOK, StoreInv, AnswerIsStanding, Inserted

\* Inserting a candidate disturbs neither the canonical belief nor the answer.
LEMMA InsertStore ==
    ASSUME TypeOK, StoreInv, NEW i \in Ingests, status[i] = "absent",
           InsertCandidate(i), UNCHANGED <<version, canonical_belief_id>>
    PROVE  StoreInv' /\ Inserted(i)' /\ canonical_belief_id # i
  <1>1. canonical_belief_id # i
    BY ProcessAssumption DEF StoreInv, AnswerIsStanding, Processes
  <1> QED
    BY <1>1
    DEF TypeOK, StoreInv, OneCanonical, AnswerIsStanding, InsertCandidate, Inserted

LEMMA IngestInv ==
    ASSUME IInv, TypeOK', NEW i \in Ingests, IngestStep(i)
    PROVE  Frame(i) /\ LocalInv(i)' /\ StoreInv'
  <1>0. /\ i \in Processes /\ TypeOK /\ StoreInv /\ LocalInv(i)
        /\ version \in Nat /\ version' \in Nat
    BY DEF IInv, Processes, TypeOK
  <1>1. CASE OpenSubject(i)
    <2>1. version <= version' /\ (version' = 0 => version = 0)
      BY <1>0, <1>1 DEF OpenSubject
    <2>2. StoreInv'
      BY <1>0, <1>1, <2>1
      DEF OpenSubject, StoreInv, OneCanonical, AnswerIsStanding
    <2>3. pc'[i] = "detect" /\ target'[i] = i /\ expected'[i] = version'
      BY <1>0, <1>1 DEF OpenSubject, TypeOK, Goto
    <2>4. LocalInv(i)'
      BY <1>0, <1>1, <2>3 DEF OpenSubject, LocalInv, Judging
    <2>5. Frame(i)
      BY <1>0, <1>1, <2>1 DEF OpenSubject, Frame, Goto, TypeOK
    <2> QED
      BY <2>2, <2>4, <2>5
  <1>2. CASE UnknownSource(i)
    BY <1>0, <1>2, QuietReturn
    DEF UnknownSource, Returned, subjectRow, beliefRows
  <1>3. CASE InsertFirst(i)
    <2>1. status[i] = "absent" /\ target[i] = i
      BY <1>0, <1>3 DEF InsertFirst, LocalInv
    <2>2. StoreInv' /\ Inserted(i)'
      BY <1>0, <1>3, <2>1, InsertStore DEF InsertFirst, subjectRow
    <2>3. pc'[i] = "promote"
      BY <1>0, <1>3 DEF InsertFirst, TypeOK, Goto
    <2>4. LocalInv(i)'
      BY <1>0, <1>3, <2>1, <2>2, <2>3
      DEF InsertFirst, LocalInv, Judging, subjectRow, locals
    <2>5. Frame(i)
      BY <1>0, <1>3
      DEF InsertFirst, InsertCandidate, Frame, Goto, TypeOK, subjectRow, locals
    <2> QED
      BY <2>2, <2>4, <2>5
  <1>4. CASE RefreshCanonical(i)
    BY <1>0, <1>4, QuietReturn DEF RefreshCanonical, Returned, subjectRow
  <1>5. CASE InsertUnrelated(i)
    <2>1. status[i] = "absent"
      BY <1>0, <1>5 DEF InsertUnrelated, LocalInv
    <2>2. StoreInv'
      BY <1>0, <1>5, <2>1, InsertStore DEF InsertUnrelated, subjectRow
    <2>3. Return(i, "no_conflict") /\ "no_conflict" \in Returned
      BY <1>5 DEF InsertUnrelated, Returned
    <2>4. /\ \A b \in Ingests \ {i} : status'[b] = status[b]
          /\ status'[i] = "candidate"
      BY <1>0, <1>5 DEF InsertUnrelated, InsertCandidate, TypeOK
    <2>5. version <= version' /\ canonical_belief_id' = canonical_belief_id
      BY <1>0, <1>5 DEF InsertUnrelated, subjectRow
    <2>6. Frame(i)
      BY <1>0, <2>3, <2>4, <2>5, ReturnLocal DEF Frame
    <2> QED
      BY <1>0, <2>2, <2>3, <2>6, ReturnLocal
  <1>6. CASE InsertConflicting(i)
    <2> DEFINE e == canonical_belief_id
    <2>1. status[i] = "absent" /\ target[i] = i
      BY <1>0, <1>6 DEF InsertConflicting, LocalInv
    <2>2. StoreInv' /\ Inserted(i)' /\ e # i
      BY <1>0, <1>6, <2>1, InsertStore DEF InsertConflicting, subjectRow
    <2>3. e # None
      BY <1>6 DEF InsertConflicting, Detection
    <2>4. Inserted(e)'
      BY <1>0, <1>6, <2>2, <2>3, AnswerInserted
      DEF InsertConflicting, InsertCandidate, Inserted, TypeOK, subjectRow
    <2>5. /\ pc'[i] = "verify" /\ existing'[i] = e
          /\ decision'[i] = RuleDecision(e, i) /\ target'[i] = i
      BY <1>0, <1>6, <2>1 DEF InsertConflicting, TypeOK, Goto
    <2>6. decision'[i].winner = None \/ DecidesPair(i)'
      <3>1. e \in Ingests \cup {None}
        BY <1>0 DEF TypeOK
      <3>2. \/ decision'[i] = Undecided
            \/ decision'[i] = For(i, e, "rule", "contradiction")
            \/ decision'[i] = For(e, i, "rule", "contradiction")
        BY <2>5, <3>1, DecisionOfPair
      <3> QED
        BY <2>5, <3>2 DEF Undecided, For, DecidesPair
    <2>7. LocalInv(i)'
      BY <1>0, <1>6, <2>2, <2>4, <2>5, <2>6
      DEF InsertConflicting, LocalInv, Judging, subjectRow
    <2>8. Frame(i)
      BY <1>0, <1>6
      DEF InsertConflicting, InsertCandidate, Frame, Goto, TypeOK, subjectRow
    <2> QED
      BY <2>2, <2>7, <2>8
  <1>7. CASE VerifyAgainstLedger(i)
    <2> DEFINE d == LedgerOr(existing[i], i, decision[i])
    <2>1. StoreInv'
      BY <1>0, <1>7, QuietStore
      DEF VerifyAgainstLedger, subjectRow, beliefRows
    <2>2. /\ Inserted(existing[i]) /\ Inserted(target[i]) /\ target[i] = i
          /\ existing[i] # i
          /\ decision[i].winner = None \/ DecidesPair(i)
      BY <1>0, <1>7 DEF VerifyAgainstLedger, LocalInv, Judging
    <2>3. d \in {decision[i],
                 For(i, existing[i], "ledger_verification", "contradiction"),
                 For(existing[i], i, "ledger_verification", "contradiction")}
      BY <2>2, DecisionOfPair DEF Inserted
    <2>4. pc'[i] = After(d) /\ decision'[i] = d
      BY <1>0, <1>7 DEF VerifyAgainstLedger, TypeOK, Goto
    <2>5. d.winner # None => DecidesPair(i)'
      BY <1>7, <2>2, <2>3, <2>4 DEF VerifyAgainstLedger, DecidesPair, For
    <2>6. LocalInv(i)'
      BY <1>0, <1>7, <2>2, <2>4, <2>5
      DEF VerifyAgainstLedger, LocalInv, Judging, After, Inserted, subjectRow,
          beliefRows
    <2>7. Frame(i)
      BY <1>0, <1>7
      DEF VerifyAgainstLedger, Frame, Goto, TypeOK, subjectRow, beliefRows
    <2> QED
      BY <2>1, <2>6, <2>7
  <1> QED
    BY <1>1, <1>2, <1>3, <1>4, <1>5, <1>6, <1>7 DEF IngestStep

LEMMA PickInv ==
    ASSUME IInv, TypeOK', NEW w \in Workers, NEW b \in Ingests,
           PickCandidate(w, b)
    PROVE  Frame(w) /\ LocalInv(w)' /\ StoreInv'
  <1>1. w \in Processes /\ TypeOK /\ StoreInv /\ LocalInv(w)
    BY DEF IInv, Processes
  <1>2. StoreInv'
    BY <1>1, QuietStore DEF PickCandidate, subjectRow, beliefRows
  <1>3. pc'[w] = "pending" /\ target'[w] = b
    BY <1>1 DEF PickCandidate, TypeOK, Goto
  <1>4. Inserted(b)'
    BY DEF PickCandidate, Inserted, beliefRows
  <1>5. LocalInv(w)'
    BY <1>1, <1>3, <1>4 DEF PickCandidate, LocalInv, Judging, subjectRow
  <1>6. Frame(w)
    BY <1>1 DEF PickCandidate, Frame, Goto, TypeOK, subjectRow, beliefRows
  <1> QED
    BY <1>2, <1>5, <1>6

LEMMA PendingInv ==
    ASSUME IInv, TypeOK', NEW p \in Processes, PendingStep(p)
    PROVE  Frame(p) /\ LocalInv(p)' /\ StoreInv'
  <1>0. TypeOK /\ StoreInv /\ LocalInv(p) /\ version \in Nat
    BY DEF IInv, TypeOK
  <1>1. CASE SkipPending(p)
    <2>1. PICK outcome \in {"no_conflict", "done"} : Return(p, outcome)
      BY <1>1 DEF SkipPending
    <2>2. outcome \in Returned
      BY DEF Returned
    <2> QED
      BY <1>0, <1>1, <2>1, <2>2, QuietReturn
      DEF SkipPending, subjectRow, beliefRows
  <1>2. CASE AdoptVacantSubject(p)
    <2>1. StoreInv'
      BY <1>0, <1>2, QuietStore
      DEF AdoptVacantSubject, subjectRow, beliefRows
    <2>2. pc'[p] = "promote" /\ expected'[p] = version
      BY <1>0, <1>2 DEF AdoptVacantSubject, TypeOK, Goto
    <2>3. Inserted(target[p])
      BY <1>0, <1>2 DEF AdoptVacantSubject, StillPending, LocalInv
    <2>4. LocalInv(p)'
      BY <1>0, <1>2, <2>2, <2>3
      DEF AdoptVacantSubject, LocalInv, Judging, Inserted, subjectRow, beliefRows
    <2>5. Frame(p)
      BY <1>0, <1>2
      DEF AdoptVacantSubject, Frame, Goto, TypeOK, subjectRow, beliefRows
    <2> QED
      BY <2>1, <2>4, <2>5
  <1>3. CASE MergePending(p)
    <2>1. /\ Inserted(target[p]) /\ canonical_belief_id # target[p]
          /\ status' = [status EXCEPT ![target[p]] = "superseded"]
          /\ UNCHANGED <<version, canonical_belief_id>>
      BY <1>0, <1>3 DEF MergePending, StillPending, LocalInv, subjectRow
    <2>2. StoreInv'
      BY <1>0, <2>1
      DEF TypeOK, StoreInv, OneCanonical, AnswerIsStanding, Inserted
    <2>3. Return(p, "done") /\ "done" \in Returned
      BY <1>3 DEF MergePending, Returned
    <2>4. \A b \in Ingests : status[b] = "absent" <=> status'[b] = "absent"
      BY <1>0, <2>1 DEF TypeOK, Inserted
    <2>5. version <= version' /\ canonical_belief_id' = canonical_belief_id
      BY <1>0, <2>1
    <2>6. Frame(p)
      BY <1>0, <2>3, <2>4, <2>5, ReturnLocal DEF Frame
    <2> QED
      BY <1>0, <2>2, <2>3, <2>6, ReturnLocal
  <1>4. CASE JudgePending(p)
    <2> DEFINE e == canonical_belief_id
               n == target[p]
               r == RuleDecision(e, n)
               d == LedgerOr(e, n, r)
    <2>1. StoreInv'
      BY <1>0, <1>4, QuietStore DEF JudgePending, subjectRow, beliefRows
    <2>2. e # None /\ e # n /\ Inserted(n)
      BY <1>0, <1>4 DEF JudgePending, StillPending, Detection, LocalInv
    <2>3. Inserted(e)
      BY <1>0, <2>2, AnswerInserted
    <2>4. /\ pc'[p] = After(d) /\ decision'[p] = d
          /\ existing'[p] = e /\ expected'[p] = version /\ target'[p] = n
      BY <1>0, <1>4 DEF JudgePending, TypeOK, Goto
    <2>5. d.winner = None \/ DecidesPair(p)'
      <3>1. d \in {r, For(n, e, "ledger_verification", "contradiction"),
                      For(e, n, "ledger_verification", "contradiction")}
        BY <2>2, <2>3, DecisionOfPair DEF Inserted
      <3>2. r \in {Undecided, For(n, e, "rule", "contradiction"),
                      For(e, n, "rule", "contradiction")}
        BY <2>2, <2>3, DecisionOfPair DEF Inserted
      <3> QED
        BY <2>4, <3>1, <3>2 DEF DecidesPair, For, Undecided
    <2>6. LocalInv(p)'
      BY <1>0, <1>4, <2>2, <2>3, <2>4, <2>5
      DEF JudgePending, LocalInv, Judging, After, Inserted, subjectRow, beliefRows
    <2>7. Frame(p)
      BY <1>0, <1>4
      DEF JudgePending, Frame, Goto, TypeOK, subjectRow, beliefRows
    <2> QED
      BY <2>1, <2>6, <2>7
  <1>5. CASE RereadOldSnapshot(p)
    BY <1>0, <1>5, QuietReturn
    DEF RereadOldSnapshot, Returned, subjectRow, beliefRows
  <1> QED
    BY <1>1, <1>2, <1>3, <1>4, <1>5 DEF PendingStep

\* A process that commits while the version it read still holds decides between
\* the answer that stands and the other belief it compared.
LEMMA CommitJudgesAnswer ==
    ASSUME NEW p \in Processes, TypeOK, LocalInv(p),
           pc[p] = "commit", VersionHolds(p)
    PROVE  LET d == decision[p]
           IN  /\ Inserted(d.winner) /\ Inserted(d.loser) /\ d.winner # d.loser
               /\ canonical_belief_id \in {d.winner, d.loser}
  BY DEF TypeOK, LocalInv, VersionHolds, Judging, DecidesPair

LEMMA CommitInv ==
    ASSUME IInv, TypeOK', NEW p \in Processes, CommitStep(p)
    PROVE  Frame(p) /\ LocalInv(p)' /\ StoreInv'
  <1>0. TypeOK /\ StoreInv /\ LocalInv(p) /\ version \in Nat
    BY DEF IInv, TypeOK
  <1>1. CASE Arbitrate(p)
    <2>1. PICK d \in Decisions :
            /\ decision' = [decision EXCEPT ![p] = d]
            /\ \/ /\ d.winner = existing[p] /\ d.loser = target[p]
                  /\ Goto(p, "commit") \/ Goto(p, "contest")
               \/ /\ d.winner = target[p] /\ d.loser = existing[p]
                  /\ Goto(p, "commit") \/ Goto(p, "contest")
               \/ Goto(p, "contest")
      BY <1>0, <1>1, ArbitrateDecides
    <2>2. StoreInv'
      BY <1>0, <1>1, QuietStore DEF Arbitrate, subjectRow, beliefRows
    <2>3. decision'[p] = d /\ pc'[p] \in {"commit", "contest"}
      BY <1>0, <2>1 DEF TypeOK, Goto
    <2>4. pc'[p] = "commit" => DecidesPair(p)'
      BY <1>0, <1>1, <2>1, <2>3 DEF Arbitrate, TypeOK, Goto, DecidesPair
    <2>5. LocalInv(p)'
      BY <1>0, <1>1, <2>3, <2>4
      DEF Arbitrate, LocalInv, Judging, Inserted, subjectRow, beliefRows
    <2>6. Frame(p)
      BY <1>0, <1>1, <2>1
      DEF Arbitrate, Frame, Goto, TypeOK, subjectRow, beliefRows
    <2> QED
      BY <2>2, <2>5, <2>6
  <1>2. CASE PromoteFirst(p)
    <2>1. /\ Inserted(target[p]) /\ canonical_belief_id = None
          /\ version' = version + 1 /\ canonical_belief_id' = target[p]
          /\ status' = [status EXCEPT ![target[p]] = "canonical"]
      BY <1>0, <1>2 DEF PromoteFirst, StillVacant, NextVersion, LocalInv
    <2>2. \A b \in Ingests : status[b] # "canonical"
      BY <1>0, <2>1, ProcessAssumption DEF StoreInv, OneCanonical, Processes
    <2>3. StoreInv'
      BY <1>0, <2>1, <2>2
      DEF TypeOK, StoreInv, OneCanonical, AnswerIsStanding, Inserted
    <2>4. Return(p, "done") /\ "done" \in Returned
      BY <1>2 DEF PromoteFirst, Returned
    <2>5. \A b \in Ingests : status[b] = "absent" <=> status'[b] = "absent"
      BY <1>0, <2>1 DEF TypeOK, Inserted
    <2>6. version <= version' /\ version' # version
      BY <1>0, <2>1
    <2>7. Frame(p)
      BY <1>0, <2>4, <2>5, <2>6, ReturnLocal DEF Frame
    <2> QED
      BY <1>0, <2>3, <2>4, <2>7, ReturnLocal
  <1>3. CASE LoseFirst(p)
    <2>1. StoreInv'
      BY <1>0, <1>3, QuietStore DEF LoseFirst, subjectRow, beliefRows
    <2>2. pc'[p] \in {"reread", "pending"} /\ Inserted(target[p])
      BY <1>0, <1>3 DEF LoseFirst, LocalInv, TypeOK, Goto
    <2>3. LocalInv(p)'
      BY <1>0, <1>3, <2>2
      DEF LoseFirst, LocalInv, Judging, Inserted, subjectRow, beliefRows
    <2>4. Frame(p)
      BY <1>0, <1>3 DEF LoseFirst, Frame, Goto, TypeOK, subjectRow, beliefRows
    <2> QED
      BY <2>1, <2>3, <2>4
  <1>4. CASE CommitResolution(p)
    <2> DEFINE d == decision[p]
    <2>1. /\ Inserted(d.winner) /\ Inserted(d.loser) /\ d.winner # d.loser
          /\ canonical_belief_id \in {d.winner, d.loser}
      BY <1>0, <1>4, CommitJudgesAnswer DEF CommitResolution
    <2>2. /\ version' = version + 1 /\ canonical_belief_id' = d.winner
          /\ status' = [status EXCEPT ![d.winner] = "canonical",
                                      ![d.loser] = "superseded"]
      BY <1>4 DEF CommitResolution, NextVersion, NewAnswer
    <2> HIDE DEF d
    <2>3. StoreInv'
      BY <1>0, <2>1, <2>2
      DEF TypeOK, StoreInv, OneCanonical, AnswerIsStanding, Inserted
    <2>4. Return(p, "done") /\ "done" \in Returned
      BY <1>4 DEF CommitResolution, Returned
    <2>5. \A b \in Ingests : status[b] = "absent" <=> status'[b] = "absent"
      BY <1>0, <2>1, <2>2 DEF TypeOK, Inserted
    <2>6. version <= version' /\ version' # version
      BY <1>0, <2>2
    <2>7. Frame(p)
      BY <1>0, <2>4, <2>5, <2>6, ReturnLocal DEF Frame
    <2> QED
      BY <1>0, <2>3, <2>4, <2>7, ReturnLocal
  <1>5. CASE RaiseStale(p)
    BY <1>0, <1>5, QuietReturn DEF RaiseStale, Returned, subjectRow, beliefRows
  <1>6. CASE CommitContested(p)
    <2>1. /\ Inserted(existing[p]) /\ Inserted(target[p])
          /\ UNCHANGED <<version, canonical_belief_id>>
          /\ status' = [status EXCEPT ![existing[p]] = "contested",
                                      ![target[p]] = "contested"]
      BY <1>0, <1>6 DEF CommitContested, LocalInv, Judging, subjectRow
    <2>2. StoreInv'
      BY <1>0, <2>1
      DEF TypeOK, StoreInv, OneCanonical, AnswerIsStanding, Inserted
    <2>3. Return(p, "contested") /\ "contested" \in Returned
      BY <1>6 DEF CommitContested, Returned
    <2>4. \A b \in Ingests : status[b] = "absent" <=> status'[b] = "absent"
      BY <1>0, <2>1 DEF TypeOK, Inserted
    <2>5. version <= version' /\ canonical_belief_id' = canonical_belief_id
      BY <1>0, <2>1
    <2>6. Frame(p)
      BY <1>0, <2>3, <2>4, <2>5, ReturnLocal DEF Frame
    <2> QED
      BY <1>0, <2>2, <2>3, <2>6, ReturnLocal
  <1> QED
    BY <1>1, <1>2, <1>3, <1>4, <1>5, <1>6 DEF CommitStep

LEMMA FaultInv ==
    ASSUME IInv, TypeOK', NEW p \in Processes,
           SerializationFailure(p) \/ Abort(p)
    PROVE  Frame(p) /\ LocalInv(p)' /\ StoreInv'
  <1>0. TypeOK /\ StoreInv /\ LocalInv(p) /\ version \in Nat
    BY DEF IInv, TypeOK
  <1>1. UNCHANGED <<version, canonical_belief_id, status>>
    BY DEF SerializationFailure, Abort, subjectRow, beliefRows
  <1>2. CASE Return(p, "error")
    BY <1>0, <1>1, <1>2, QuietReturn DEF Returned
  <1>3. CASE UNCHANGED <<pc, target, expected, existing, decision>>
    BY <1>0, <1>1, <1>3, QuietStore
    DEF Frame, LocalInv, Inserted, DecidesPair
  <1> QED
    BY <1>2, <1>3 DEF SerializationFailure, Abort

-----------------------------------------------------------------------------
LEMMA InitInv == Init => IInv
  <1> SUFFICES ASSUME Init
               PROVE  IInv
    OBVIOUS
  <1>1. TypeOK
    BY TypeInit
  <1>2. StoreInv
    BY DEF Init, StoreInv, OneCanonical, AnswerIsStanding
  <1>3. ASSUME NEW p \in Processes
        PROVE  LocalInv(p)
    BY <1>3 DEF Init, LocalInv, Judging
  <1> QED
    BY <1>1, <1>2, <1>3 DEF IInv

\* A step of p that keeps to the frame and leaves p what it relies on keeps the
\* whole invariant.
LEMMA StepOfProcess ==
    ASSUME IInv, TypeOK', NEW p \in Processes,
           Frame(p), LocalInv(p)', StoreInv'
    PROVE  IInv'
  <1>1. ASSUME NEW q \in Processes
        PROVE  LocalInv(q)'
    <2>1. CASE q = p
      BY <2>1
    <2>2. CASE q # p
      BY <2>2, OthersUndisturbed DEF IInv
    <2> QED
      BY <2>1, <2>2
  <1> QED
    BY <1>1 DEF IInv

LEMMA NextInv == IInv /\ [Next]_vars => IInv'
  <1> SUFFICES ASSUME IInv, [Next]_vars
               PROVE  IInv'
    OBVIOUS
  <1>0. TypeOK'
    BY TypeStep DEF IInv
  <1>1. ASSUME NEW i \in Ingests, IngestStep(i)
        PROVE  IInv'
    <2>1. i \in Processes
      BY DEF Processes
    <2>2. Frame(i) /\ LocalInv(i)' /\ StoreInv'
      BY <1>0, <1>1, IngestInv
    <2> QED
      BY <1>0, <2>1, <2>2, StepOfProcess
  <1>2. ASSUME NEW w \in Workers, NEW b \in Ingests, PickCandidate(w, b)
        PROVE  IInv'
    <2>1. w \in Processes
      BY DEF Processes
    <2>2. Frame(w) /\ LocalInv(w)' /\ StoreInv'
      BY <1>0, <1>2, PickInv
    <2> QED
      BY <1>0, <2>1, <2>2, StepOfProcess
  <1>3. ASSUME NEW p \in Processes,
               \/ PendingStep(p) \/ CommitStep(p)
               \/ SerializationFailure(p) \/ Abort(p)
        PROVE  IInv'
    <2>1. Frame(p) /\ LocalInv(p)' /\ StoreInv'
      BY <1>0, <1>3, PendingInv, CommitInv, FaultInv
    <2> QED
      BY <1>0, <2>1, StepOfProcess
  <1>4. ASSUME UNCHANGED <<version, canonical_belief_id, status, pc, locals>>
        PROVE  IInv'
    <2>1. StoreInv'
      BY <1>4, QuietStore DEF IInv
    <2>2. ASSUME NEW p \in Processes
          PROVE  LocalInv(p)'
      BY <1>4 DEF IInv, LocalInv, Inserted, DecidesPair, locals
    <2> QED
      BY <1>0, <2>1, <2>2 DEF IInv
  <1>5. CASE TimePasses
    BY <1>4, <1>5 DEF TimePasses, subjectRow
  <1>6. CASE \E s \in LedgerStates : UpsertLedger(s)
    BY <1>4, <1>6 DEF UpsertLedger, subjectRow, beliefRows
  <1>7. CASE UNCHANGED vars
    BY <1>4, <1>7 DEF vars, subjectRow, beliefRows
  <1> QED
    BY <1>1, <1>2, <1>3, <1>5, <1>6, <1>7 DEF Next

\* In every reachable state the inductive invariant holds: the optimistic version
\* check is enough to keep the store and every process's memory consistent.
THEOREM Invariance == Spec => []IInv
  BY InitInv, NextInv, PTL DEF Spec

\* However many calls and workers race about a subject, crash, retry or act on
\* stale decisions, never two of its beliefs are canonical at once, and the
\* canonical one is the one the subject row points to.
THEOREM OneCanonicalAlways == Spec => []OneCanonical
  <1>1. IInv => OneCanonical
    BY DEF IInv, StoreInv
  <1> QED
    BY <1>1, Invariance, PTL

\* The belief a subject points to is never superseded and never a candidate:
\* not even an escalation that comes too late, which checks no version, can
\* leave the subject without a standing answer.
THEOREM AnswerIsStandingAlways == Spec => []AnswerIsStanding
  <1>1. IInv => AnswerIsStanding
    BY DEF IInv, StoreInv
  <1> QED
    BY <1>1, Invariance, PTL
\* Of all steps only a commit_resolution gives a new version to a subject that
\* has an answer already.
LEMMA OnlyCommitsDecide ==
    ASSUME IInv, [Next]_vars, version' # version, canonical_belief_id # None
    PROVE  \E p \in Processes : CommitResolution(p)
  <1>0. version # 0
    BY DEF IInv, StoreInv
  <1>1. ASSUME NEW i \in Ingests, IngestStep(i)
        PROVE  FALSE
    BY <1>0, <1>1
    DEF IngestStep, OpenSubject, UnknownSource, InsertFirst, RefreshCanonical,
        InsertUnrelated, InsertConflicting, VerifyAgainstLedger, subjectRow
  <1>2. ASSUME NEW w \in Workers, NEW b \in Ingests, PickCandidate(w, b)
        PROVE  FALSE
    BY <1>2 DEF PickCandidate, subjectRow
  <1>3. ASSUME NEW p \in Processes, PendingStep(p)
        PROVE  FALSE
    BY <1>3
    DEF PendingStep, SkipPending, AdoptVacantSubject, MergePending,
        JudgePending, RereadOldSnapshot, subjectRow
  <1>4. ASSUME NEW p \in Processes, CommitStep(p)
        PROVE  CommitResolution(p)
    BY <1>4
    DEF CommitStep, Arbitrate, PromoteFirst, StillVacant, LoseFirst,
        RaiseStale, CommitContested, subjectRow
  <1>5. ASSUME NEW p \in Processes, SerializationFailure(p) \/ Abort(p)
        PROVE  FALSE
    BY <1>5 DEF SerializationFailure, Abort, subjectRow
  <1>6. ~TimePasses /\ ~\E s \in LedgerStates : UpsertLedger(s)
    BY DEF TimePasses, UpsertLedger, subjectRow
  <1>7. vars' # vars
    BY DEF vars, subjectRow
  <1> QED
    BY <1>1, <1>2, <1>3, <1>4, <1>5, <1>6, <1>7 DEF Next

\* Every decision that takes effect is in the resolutions table, as one row that
\* names the new answer and the answer it was compared with at that instant:
\* a decision about an older answer is never committed.
THEOREM EveryDecisionAudited == Spec => EveryDecisionIsAudited
  <1>1. IInv /\ [Next]_vars => [DecisionIsAudited]_vars
    <2> SUFFICES ASSUME IInv, [Next]_vars,
                        version' # version, canonical_belief_id # None
                 PROVE  DecisionIsAudited
      BY DEF DecisionIsAudited
    <2>1. PICK p \in Processes : CommitResolution(p)
      BY OnlyCommitsDecide
    <2> DEFINE d == decision[p]
    <2>2. /\ d.winner # d.loser /\ canonical_belief_id \in {d.winner, d.loser}
          /\ d \in Decisions /\ resolutions \in Seq(Decisions)
      <3>1. TypeOK /\ LocalInv(p)
        BY DEF IInv
      <3>2. pc[p] = "commit" /\ VersionHolds(p)
        BY <2>1 DEF CommitResolution
      <3> QED
        BY <3>1, <3>2, CommitJudgesAnswer DEF TypeOK
    <2>3. /\ resolutions' = Append(resolutions, d)
          /\ canonical_belief_id' = d.winner
      BY <2>1 DEF CommitResolution, NewAnswer
    <2>4. /\ Len(resolutions') = Len(resolutions) + 1
          /\ resolutions'[Len(resolutions')] = d
      <3> HIDE DEF d
      <3> QED
        BY <2>2, <2>3, AppendProperties
    <2> QED
      BY <2>2, <2>3, <2>4 DEF DecisionIsAudited
  <1> QED
    BY <1>1, Invariance, PTL DEF Spec, EveryDecisionIsAudited
=============================================================================
