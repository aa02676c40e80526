------------------------- MODULE AnswerRegisterProofs -------------------------
(***************************************************************************)
(* What becomes of the beliefs of a subject, for any calls, workers,       *)
(* claims and faults: ConflictResolution implements AnswerRegister, every  *)
(* chain of superseded_by ends at the answer, only the ledger lowers its   *)
(* tier, an escalation ends by a decision, and the newest resolutions row  *)
(* of a belief that lost is the decision it lost.                          *)
(*                                                                         *)
(* The argument: a decision retires one of two beliefs, and the version    *)
(* check makes the standing answer one of them. That nobody has retired    *)
(* the other one meanwhile does not follow from the version alone, for     *)
(* merging a duplicate leaves it as it is. It follows from detection: the  *)
(* candidate of a decision is in conflict with the answer of its version,  *)
(* and only a duplicate of that answer is merged.                          *)
(***************************************************************************)
EXTENDS ConflictResolutionProofs, Retrieval

Known(b) == claim[b] \in Claims

SameTier(p) == claim[existing[p]].tier = claim[target[p]].tier

WinnerTier(p) == claim[decision[p].winner].tier >= claim[decision[p].loser].tier

\* What process p may rely on, besides LocalInv: the tiers of what it decides
\* and, as long as the version it read holds, a candidate nobody retired.
FateLocal(p) ==
    /\ pc[p] = "detect" => version # 0 /\ Known(p)
    /\ pc[p] \in Judging =>
        /\ canonical_belief_id # None
        /\ expected[p] = version =>
            superseded_by[target[p]] = None /\ Detection(target[p]) = "conflict"
    /\ pc[p] = "verify" =>
        IF decision[p].winner = None THEN SameTier(p)
        ELSE decision[p].method = "rule" /\ WinnerTier(p)
    /\ pc[p] = "arbitrate" => SameTier(p)
    /\ pc[p] = "commit" =>
        /\ decision[p].method = "ledger_verification" \/ WinnerTier(p)
        /\ decision[p].method = "llm" => decision[p].verdict = "refinement"

\* What the rows satisfy, besides StoreInv.
FateStore ==
    /\ canonical_belief_id = None => version <= 1
    /\ \A b \in Ingests :
        /\ status[b] # "absent" => version # 0 /\ Known(b)
        /\ status[b] \in {"absent", "candidate"} => superseded_by[b] = None
        /\ status[b] = "contested" \/ superseded_by[b] # None =>
                canonical_belief_id # None
    /\ canonical_belief_id # None => superseded_by[canonical_belief_id] = None
    /\ SupersessionEndsAtAnswer

FateInv == FateStore /\ \A p \in Processes : FateLocal(p)

\* A step of p leaves stored claims alone, as well as those of other calls, takes
\* the answer from no subject, and without a new version retires no belief that
\* is in conflict with the answer.
FateFrame(p) ==
    /\ \A b \in Ingests : b # p \/ status[b] # "absent" => claim'[b] = claim[b]
    /\ canonical_belief_id # None => canonical_belief_id' # None
    /\ version' = version =>
        \A b \in Ingests :
            Detection(b) = "conflict" => superseded_by'[b] = superseded_by[b]

-----------------------------------------------------------------------------
(* Tiers. *)

\* What the rules decide is for the higher tier, what they leave open is equal.
LEMMA RulesKeepTier ==
    ASSUME NEW e \in Ingests, NEW n \in Ingests, Known(e), Known(n)
    PROVE  LET r == RuleDecision(e, n)
           IN  IF r.winner = None THEN claim[e].tier = claim[n].tier
               ELSE /\ r.method = "rule"
                    /\ claim[r.winner].tier >= claim[r.loser].tier
  <1> DEFINE outcome == apply_rules(RuleCandidate(e), RuleCandidate(n), volatility, 0)
  <1>1. claim[e].tier \in Int /\ claim[n].tier \in Int
    BY ClaimAssumption DEF Known
  <1>2. e # None /\ n # None
    BY ProcessAssumption DEF Processes
  <1>3. /\ RuleCandidate(e).tier = claim[e].tier
        /\ RuleCandidate(n).tier = claim[n].tier
    BY DEF RuleCandidate
  <1>4. /\ outcome = "new_wins" => claim[n].tier >= claim[e].tier
        /\ outcome = "existing_wins" => claim[e].tier >= claim[n].tier
        /\ outcome \notin {"new_wins", "existing_wins"} =>
                claim[e].tier = claim[n].tier
    BY <1>1, <1>3 DEF apply_rules
  <1> HIDE DEF outcome
  <1>5. RuleDecision(e, n) =
            IF outcome = "new_wins" THEN For(n, e, "rule", "contradiction")
            ELSE IF outcome = "existing_wins" THEN For(e, n, "rule", "contradiction")
            ELSE Undecided
    BY DEF RuleDecision, outcome
  <1> QED
    BY <1>2, <1>4, <1>5 DEF For, Undecided

\* Between equals, what the arbiter decides without a human is a refinement.
LEMMA EqualsRefine ==
    ASSUME NEW d \in ArbiterDecisions(Verdicts, Confidences, TRUE), ~d.needs_human
    PROVE  d.verdict = "refinement"
  <1> DEFINE Raws == [winner : VALID_WINNERS, verdict : Verdicts,
                      confidence : Confidences, needs_human : BOOLEAN]
  <1>1. d # ArbitrationFailed
    BY DEF ArbitrationFailed
  <1>2. PICK raw \in Raws : d = Decide(raw, TRUE)
    BY <1>1 DEF ArbiterDecisions
  <1>3. ~needs_human(raw, TRUE) /\ d.verdict = raw.verdict
    BY <1>2 DEF Decide
  <1> QED
    BY <1>3 DEF needs_human

-----------------------------------------------------------------------------
(* What other processes rely on. *)

LEMMA OthersFate ==
    ASSUME IInv, IInv', FateStore, NEW p \in Processes, Frame(p), FateFrame(p),
           NEW q \in Processes \ {p}, FateLocal(q)
    PROVE  FateLocal(q)'
  <1>1. /\ expected[q] \in Nat /\ version \in Nat /\ version' \in Nat
        /\ version <= version' /\ expected[q] <= version
    BY DEF IInv, TypeOK, Frame, LocalInv
  <1>2. /\ pc'[q] = pc[q] /\ target'[q] = target[q] /\ decision'[q] = decision[q]
        /\ expected'[q] = expected[q] /\ existing'[q] = existing[q]
    BY DEF Frame
  <1>3. LocalInv(q)
    BY DEF IInv
  <1>4. pc[q] = "detect" => (version # 0 /\ Known(q))'
    BY <1>1, <1>3 DEF FateLocal, LocalInv, FateFrame, Known
  <1>5. ASSUME pc[q] \in Judging
        PROVE  /\ Inserted(target[q]) /\ Inserted(existing[q])
               /\ claim'[target[q]] = claim[target[q]]
               /\ claim'[existing[q]] = claim[existing[q]]
               /\ canonical_belief_id # None /\ canonical_belief_id' # None
    BY <1>3, <1>5 DEF LocalInv, FateLocal, FateFrame, Inserted
  <1>6. ASSUME pc[q] \in Judging, expected[q] = version'
        PROVE  (superseded_by[target[q]] = None /\ Detection(target[q]) = "conflict")'
    <2>1. expected[q] = version /\ version' = version
      BY <1>1, <1>6
    <2>2. superseded_by[target[q]] = None /\ Detection(target[q]) = "conflict"
      BY <1>6, <2>1 DEF FateLocal
    <2>3. canonical_belief_id' = canonical_belief_id
      BY <2>1 DEF Frame
    <2>4. Inserted(canonical_belief_id)
      BY <1>5, <1>6, AnswerInserted DEF IInv
    <2>5. claim'[canonical_belief_id] = claim[canonical_belief_id]
      BY <2>4 DEF FateFrame, Inserted
    <2>6. superseded_by'[target[q]] = superseded_by[target[q]]
      BY <1>5, <1>6, <2>1, <2>2 DEF FateFrame, Inserted
    <2> QED
      BY <1>2, <1>5, <1>6, <2>2, <2>3, <2>5, <2>6 DEF Detection
  <1>7. pc[q] \in {"verify", "arbitrate", "commit"} => pc[q] \in Judging
    BY DEF Judging
  <1>8. /\ pc[q] = "verify" /\ decision[q].winner # None => DecidesPair(q)
        /\ pc[q] = "commit" => DecidesPair(q)
    BY <1>3 DEF LocalInv
  <1>9. /\ SameTier(q) /\ pc[q] \in Judging => SameTier(q)'
        /\ WinnerTier(q) /\ DecidesPair(q) /\ pc[q] \in Judging => WinnerTier(q)'
    BY <1>2, <1>5 DEF SameTier, WinnerTier, DecidesPair
  <1> QED
    BY <1>2, <1>4, <1>5, <1>6, <1>7, <1>8, <1>9 DEF FateLocal

\* A process whose call is over relies on nothing.
LEMMA ReturnFate ==
    ASSUME TypeOK, NEW p \in Processes, NEW outcome \in Returned,
           Return(p, outcome)
    PROVE  FateLocal(p)'
  <1>1. pc'[p] \in Returned \cup {"idle"}
    BY DEF TypeOK, Return, Goto
  <1> QED
    BY <1>1 DEF FateLocal, Returned, Judging

\* A step that retires no belief and leaves version, answer and claims alone.
LEMMA QuietFate ==
    ASSUME FateStore, NEW p \in Processes,
           UNCHANGED <<version, canonical_belief_id, status, superseded_by, claim>>
    PROVE  FateFrame(p) /\ FateStore'
  BY DEF FateFrame, FateStore, SupersessionEndsAtAnswer, Known

\* The same, when it inserts a candidate.
LEMMA InsertFate ==
    ASSUME TypeOK, FateStore, NEW i \in Ingests, status[i] = "absent",
           version # 0, Known(i), InsertCandidate(i),
           UNCHANGED <<version, canonical_belief_id, superseded_by, claim>>
    PROVE  FateFrame(i) /\ FateStore'
  BY DEF TypeOK, FateFrame, FateStore, SupersessionEndsAtAnswer, Known,
         InsertCandidate

\* When a belief that stands for itself is superseded by one that does too, which
\* is the answer from then on, no circle arises and all chains end at the answer.
LEMMA SupersedeKeepsChains ==
    ASSUME TypeOK, SupersessionEndsAtAnswer,
           NEW w \in Ingests, NEW l \in Ingests, w # l,
           superseded_by[w] = None,
           canonical_belief_id \in {w, l}, canonical_belief_id' = w,
           superseded_by' = [superseded_by EXCEPT ![l] = w],
           \A b \in Ingests : status'[b] = "superseded" =>
                b = l \/ status[b] = "superseded"
    PROVE  SupersessionEndsAtAnswer'
  <1> USE DEF TypeOK
  <1>0. None \notin Ingests
    BY ProcessAssumption DEF Processes
  <1>1. ASSUME NEW S \in (SUBSET Ingests) \ {{}}
        PROVE  \E b \in S : superseded_by'[b] \notin S
    <2>1. CASE l \notin S
      <3>1. PICK b \in S : superseded_by[b] \notin S
        BY DEF SupersessionEndsAtAnswer
      <3> QED
        BY <2>1, <3>1
    <2>2. CASE l \in S /\ w \notin S
      BY <2>2
    <2>3. CASE w \in S
      <3>1. superseded_by'[w] = None
        OBVIOUS
      <3> QED
        BY <1>0, <2>3, <3>1
    <2> QED
      BY <2>1, <2>2, <2>3
  <1>2. ASSUME NEW b \in Ingests, superseded_by'[b] # None
        PROVE  superseded_by'[b] = w \/ superseded_by'[superseded_by'[b]] # None
    <2>1. CASE b = l
      BY <2>1
    <2>2. CASE b # l
      <3>1. superseded_by'[b] = superseded_by[b] /\ superseded_by[b] \in Ingests
        BY <1>2, <2>2
      <3>2. \/ superseded_by[b] = canonical_belief_id
            \/ superseded_by[superseded_by[b]] # None
        BY <1>2, <3>1 DEF SupersessionEndsAtAnswer
      <3>3. superseded_by'[l] # None
        BY <1>0
      <3> QED
        BY <3>1, <3>2, <3>3
    <2> QED
      BY <2>1, <2>2
  <1>3. ASSUME NEW b \in Ingests, status'[b] = "superseded"
        PROVE  superseded_by'[b] # None
    BY <1>0, <1>3 DEF SupersessionEndsAtAnswer
  <1> QED
    BY <1>1, <1>2, <1>3 DEF SupersessionEndsAtAnswer

-----------------------------------------------------------------------------
LEMMA IngestFate ==
    ASSUME IInv, IInv', FateInv, NEW i \in Ingests, IngestStep(i)
    PROVE  FateFrame(i) /\ FateLocal(i)' /\ FateStore'
  <1>0. /\ i \in Processes /\ TypeOK /\ StoreInv /\ LocalInv(i)
        /\ FateStore /\ FateLocal(i)
        /\ version \in Nat
    BY DEF IInv, FateInv, Processes, TypeOK
  <1>1. CASE OpenSubject(i)
    <2>1. PICK c \in Claims : claim' = [claim EXCEPT ![i] = c]
      BY <1>1 DEF OpenSubject
    <2>2. /\ status[i] = "absent" /\ pc'[i] = "detect" /\ version' # 0
          /\ canonical_belief_id = None => version' <= 1
          /\ UNCHANGED <<canonical_belief_id, status, superseded_by>>
      BY <1>0, <1>1 DEF OpenSubject, LocalInv, TypeOK, Goto, FateStore
    <2>3. claim'[i] = c /\ \A b \in Ingests \ {i} : claim'[b] = claim[b]
      BY <1>0, <2>1 DEF TypeOK
    <2>4. FateFrame(i)
      BY <2>2, <2>3 DEF FateFrame
    <2>5. FateLocal(i)'
      BY <2>2, <2>3 DEF FateLocal, Known, Judging
    <2>6. FateStore'
      BY <1>0, <2>2, <2>3 DEF FateStore, SupersessionEndsAtAnswer, Known
    <2> QED
      BY <2>4, <2>5, <2>6
  <1>2. CASE UnknownSource(i)
    <2>1. Return(i, "error") /\ "error" \in Returned
      BY <1>2 DEF UnknownSource, Returned
    <2> QED
      BY <1>0, <1>2, <2>1, ReturnFate, QuietFate
      DEF UnknownSource, subjectRow, beliefRows
  <1>3. ASSUME pc[i] = "detect", InsertCandidate(i),
               UNCHANGED <<version, canonical_belief_id, superseded_by, claim>>
        PROVE  /\ FateFrame(i) /\ FateStore'
               /\ target[i] = i /\ Known(i) /\ superseded_by'[i] = None
    BY <1>0, <1>3, InsertFate DEF LocalInv, FateLocal, FateStore
  <1>4. CASE InsertFirst(i)
    <2>1. pc'[i] = "promote"
      BY <1>0, <1>4 DEF InsertFirst, TypeOK, Goto
    <2>2. FateLocal(i)'
      BY <2>1 DEF FateLocal, Judging
    <2> QED
      BY <1>3, <1>4, <2>2 DEF InsertFirst, subjectRow
  <1>5. CASE RefreshCanonical(i)
    <2>1. Return(i, "done") /\ "done" \in Returned
      BY <1>5 DEF RefreshCanonical, Returned
    <2> QED
      BY <1>0, <1>5, <2>1, ReturnFate, QuietFate DEF RefreshCanonical, subjectRow
  <1>6. CASE InsertUnrelated(i)
    <2>1. Return(i, "no_conflict") /\ "no_conflict" \in Returned
      BY <1>6 DEF InsertUnrelated, Returned
    <2> QED
      BY <1>0, <1>3, <1>6, <2>1, ReturnFate DEF InsertUnrelated, subjectRow
  <1>7. CASE InsertConflicting(i)
    <2> DEFINE e == canonical_belief_id
               r == RuleDecision(e, i)
    <2>1. /\ FateFrame(i) /\ FateStore' /\ Known(i) /\ superseded_by'[i] = None
          /\ UNCHANGED <<canonical_belief_id, claim>> /\ target[i] = i
      BY <1>3, <1>7 DEF InsertConflicting, subjectRow
    <2>2. e # None /\ Detection(i) = "conflict"
      BY <1>7 DEF InsertConflicting, Detection
    <2>3. e \in Ingests /\ Known(e)
      BY <1>0, <2>2, AnswerInserted DEF Inserted, FateStore
    <2>4. /\ pc'[i] = "verify" /\ existing'[i] = e /\ decision'[i] = r
          /\ target'[i] = i
      BY <1>0, <1>7, <2>1 DEF InsertConflicting, TypeOK, Goto
    <2>5. IF r.winner = None THEN claim[e].tier = claim[i].tier
          ELSE r.method = "rule" /\ claim[r.winner].tier >= claim[r.loser].tier
      BY <2>1, <2>3, RulesKeepTier
    <2>6. IF decision'[i].winner = None THEN SameTier(i)'
          ELSE decision'[i].method = "rule" /\ WinnerTier(i)'
      BY <2>1, <2>4, <2>5 DEF SameTier, WinnerTier
    <2>7. Detection(i)' = "conflict"
      BY <2>1, <2>2 DEF Detection
    <2>8. FateLocal(i)'
      BY <2>1, <2>2, <2>4, <2>6, <2>7 DEF FateLocal
    <2> QED
      BY <2>1, <2>8
  <1>8. CASE VerifyAgainstLedger(i)
    <2> DEFINE d == LedgerOr(existing[i], i, decision[i])
    <2>1. FateFrame(i) /\ FateStore'
      BY <1>0, <1>8, QuietFate DEF VerifyAgainstLedger, subjectRow, beliefRows
    <2>2. /\ pc'[i] = After(d) /\ decision'[i] = d
          /\ UNCHANGED <<version, canonical_belief_id, superseded_by, claim,
                         target, expected, existing>>
      BY <1>0, <1>8 DEF VerifyAgainstLedger, TypeOK, Goto, subjectRow, beliefRows
    <2>3. /\ pc[i] = "verify" /\ pc[i] \in Judging
          /\ existing[i] \in Ingests
      BY <1>0, <1>8 DEF VerifyAgainstLedger, LocalInv, Judging, Inserted
    <2>4. d = decision[i] \/ d.method = "ledger_verification"
      BY DecisionOfPair, <2>3 DEF For
    <2>5. existing[i] # None /\ i # None
      BY <2>3, ProcessAssumption DEF Processes
    <2>6. d.method = "ledger_verification" => d.winner # None \/ d = decision[i]
      BY <2>3, <2>5, DecisionOfPair DEF For
    <2>7. pc[i] \in Judging =>
            /\ canonical_belief_id' # None
            /\ expected'[i] = version' =>
                superseded_by'[target'[i]] = None /\ Detection(target[i])' = "conflict"
      BY <1>0, <2>2, <2>3 DEF FateLocal, Detection
    <2>8. ASSUME d = decision[i]
          PROVE  FateLocal(i)'
      <3>1. CASE d.winner = None
        <4>1. SameTier(i) /\ pc'[i] = "arbitrate"
          BY <1>0, <2>2, <2>3, <2>8, <3>1 DEF FateLocal, After
        <4> QED
          BY <2>2, <2>3, <2>7, <4>1 DEF FateLocal, SameTier, Judging
      <3>2. CASE d.winner # None
        <4>1. d.method = "rule" /\ WinnerTier(i) /\ pc'[i] = "commit"
          BY <1>0, <2>2, <2>3, <2>8, <3>2 DEF FateLocal, After
        <4>2. WinnerTier(i)' /\ decision'[i].method = "rule"
          BY <2>2, <2>8, <4>1 DEF WinnerTier
        <4> QED
          BY <2>2, <2>3, <2>7, <4>1, <4>2 DEF FateLocal, Judging
      <3> QED
        BY <3>1, <3>2
    <2>9. ASSUME d # decision[i]
          PROVE  FateLocal(i)'
      <3>1. d.method = "ledger_verification" /\ pc'[i] = "commit"
        BY <2>2, <2>4, <2>6, <2>9 DEF After
      <3> QED
        BY <2>2, <2>3, <2>7, <3>1 DEF FateLocal, Judging
    <2> QED
      BY <2>1, <2>8, <2>9
  <1> QED
    BY <1>1, <1>2, <1>4, <1>5, <1>6, <1>7, <1>8 DEF IngestStep

LEMMA PendingFate ==
    ASSUME IInv, IInv', FateInv, NEW p \in Processes, PendingStep(p)
    PROVE  FateFrame(p) /\ FateLocal(p)' /\ FateStore'
  <1>0. /\ TypeOK /\ StoreInv /\ LocalInv(p) /\ FateStore /\ FateLocal(p)
        /\ version \in Nat
    BY DEF IInv, FateInv, TypeOK
  <1>1. CASE SkipPending(p)
    <2>1. PICK outcome \in {"no_conflict", "done"} : Return(p, outcome)
      BY <1>1 DEF SkipPending
    <2>2. outcome \in Returned
      BY DEF Returned
    <2> QED
      BY <1>0, <1>1, <2>1, <2>2, ReturnFate, QuietFate
      DEF SkipPending, subjectRow, beliefRows
  <1>2. CASE AdoptVacantSubject(p)
    <2>1. pc'[p] = "promote"
      BY <1>0, <1>2 DEF AdoptVacantSubject, TypeOK, Goto
    <2>2. FateLocal(p)'
      BY <2>1 DEF FateLocal, Judging
    <2> QED
      BY <1>0, <1>2, <2>2, QuietFate DEF AdoptVacantSubject, subjectRow, beliefRows
  <1>3. CASE MergePending(p)
    <2> DEFINE e == canonical_belief_id
               t == target[p]
    <2>1. /\ Inserted(t) /\ status[t] = "candidate" /\ e # t
          /\ e # None /\ Detection(t) = "duplicate"
          /\ status' = [status EXCEPT ![t] = "superseded"]
          /\ superseded_by' = [superseded_by EXCEPT ![t] = e]
          /\ UNCHANGED <<version, canonical_belief_id, claim>>
      BY <1>0, <1>3
      DEF MergePending, StillPending, Detection, LocalInv, subjectRow
    <2>2. t \in Ingests /\ e \in Ingests /\ superseded_by[e] = None
      BY <1>0, <2>1, AnswerInserted DEF Inserted, FateStore
    <2>3. SupersessionEndsAtAnswer'
      BY <1>0, <2>1, <2>2, SupersedeKeepsChains DEF FateStore, TypeOK
    <2>4. FateStore'
      BY <1>0, <2>1, <2>2, <2>3 DEF FateStore, TypeOK, Known
    <2>5. FateFrame(p)
      BY <1>0, <2>1, <2>2 DEF FateFrame, TypeOK
    <2>6. Return(p, "done") /\ "done" \in Returned
      BY <1>3 DEF MergePending, Returned
    <2> QED
      BY <1>0, <2>4, <2>5, <2>6, ReturnFate
  <1>4. CASE JudgePending(p)
    <2> DEFINE e == canonical_belief_id
               n == target[p]
               r == RuleDecision(e, n)
               d == LedgerOr(e, n, r)
    <2>1. FateFrame(p) /\ FateStore'
      BY <1>0, <1>4, QuietFate DEF JudgePending, subjectRow, beliefRows
    <2>2. /\ pc'[p] = After(d) /\ decision'[p] = d /\ existing'[p] = e
          /\ target'[p] = n
          /\ UNCHANGED <<version, canonical_belief_id, superseded_by, claim>>
      BY <1>0, <1>4 DEF JudgePending, TypeOK, Goto, subjectRow, beliefRows
    <2>3. /\ e # None /\ Detection(n) = "conflict"
          /\ Inserted(n) /\ status[n] = "candidate"
      BY <1>0, <1>4 DEF JudgePending, StillPending, Detection, LocalInv
    <2>4. /\ e \in Ingests /\ n \in Ingests /\ Known(e) /\ Known(n)
          /\ superseded_by[n] = None
      BY <1>0, <2>3, AnswerInserted DEF Inserted, FateStore
    <2>5. e # None /\ n # None
      BY <2>3, <2>4, ProcessAssumption DEF Processes
    <2>6. pc'[p] \in {"arbitrate", "commit"}
      BY <2>2 DEF After
    <2>7. superseded_by'[target'[p]] = None /\ Detection(target[p])' = "conflict"
      BY <2>2, <2>3, <2>4 DEF Detection
    <2>8. IF r.winner = None THEN claim[e].tier = claim[n].tier
          ELSE r.method = "rule" /\ claim[r.winner].tier >= claim[r.loser].tier
      BY <2>4, RulesKeepTier
    <2>9. d = r \/ (d.method = "ledger_verification" /\ d.winner # None)
      BY <2>4, <2>5, DecisionOfPair DEF For
    <2> HIDE DEF d, r
    <2>10. pc'[p] = "arbitrate" => SameTier(p)'
      BY <2>2, <2>8, <2>9 DEF SameTier, After
    <2>11. pc'[p] = "commit" =>
            /\ d.method = "ledger_verification" \/ WinnerTier(p)'
            /\ d.method # "llm"
      BY <2>2, <2>8, <2>9 DEF WinnerTier, After
    <2>12. FateLocal(p)'
      BY <2>2, <2>3, <2>6, <2>7, <2>10, <2>11 DEF FateLocal
    <2> QED
      BY <2>1, <2>12
  <1>5. CASE RereadOldSnapshot(p)
    <2>1. Return(p, "error") /\ "error" \in Returned
      BY <1>5 DEF RereadOldSnapshot, Returned
    <2> QED
      BY <1>0, <1>5, <2>1, ReturnFate, QuietFate
      DEF RereadOldSnapshot, subjectRow, beliefRows
  <1> QED
    BY <1>1, <1>2, <1>3, <1>4, <1>5 DEF PendingStep

\* A process that commits while the version it read still holds decides between
\* two beliefs that nobody has retired, of which one is the answer.
LEMMA CommitOfStanding ==
    ASSUME IInv, FateInv, NEW p \in Processes, pc[p] = "commit", VersionHolds(p)
    PROVE  LET d == decision[p]
           IN  /\ d.winner \in Ingests /\ d.loser \in Ingests
               /\ d.winner # d.loser /\ canonical_belief_id \in {d.winner, d.loser}
               /\ superseded_by[d.winner] = None /\ superseded_by[d.loser] = None
               /\ status[d.winner] # "absent" /\ status[d.loser] # "absent"
  <1>1. /\ TypeOK /\ LocalInv(p) /\ FateStore /\ FateLocal(p) /\ pc[p] \in Judging
    BY DEF IInv, FateInv, Judging
  <1>2. canonical_belief_id = existing[p] /\ DecidesPair(p)
    BY <1>1 DEF LocalInv, VersionHolds
  <1>3. canonical_belief_id # None /\ superseded_by[target[p]] = None
    BY <1>1 DEF FateLocal, VersionHolds
  <1>4. superseded_by[existing[p]] = None
    BY <1>1, <1>2, <1>3 DEF FateStore
  <1> QED
    BY <1>1, <1>2, <1>3, <1>4, CommitJudgesAnswer DEF DecidesPair, Inserted

\* What the arbiter decides without a human keeps the tier, which is equal, and is
\* a refinement.
LEMMA ArbitrateFate ==
    ASSUME IInv, FateInv, NEW p \in Processes, Arbitrate(p)
    PROVE  FateLocal(p)'
  <1> DEFINE WinnerOf(a) == CASE a.winner = "A" -> existing[p]
                              [] a.winner = "B" -> target[p]
                              [] OTHER -> None
             LoserOf(a) == CASE a.winner = "A" -> target[p]
                             [] a.winner = "B" -> existing[p]
                             [] OTHER -> None
             D(a) == For(WinnerOf(a), LoserOf(a), "llm", a.verdict)
  <1>0. TypeOK /\ LocalInv(p) /\ FateStore /\ FateLocal(p)
    BY DEF IInv, FateInv
  <1>1. /\ pc[p] = "arbitrate" /\ pc[p] \in Judging /\ SameTier(p)
        /\ UNCHANGED <<version, canonical_belief_id, superseded_by, claim,
                       target, expected, existing>>
    BY <1>0 DEF Arbitrate, FateLocal, Judging, subjectRow, beliefRows
  <1>2. (claim[existing[p]].tier = claim[target[p]].tier) = TRUE
    BY <1>1 DEF SameTier
  <1>3. PICK a \in ArbiterDecisions(Verdicts, Confidences, TRUE) :
            /\ decision' = [decision EXCEPT ![p] = D(a)]
            /\ Goto(p, IF ~a.needs_human /\ WinnerOf(a) # None
                       THEN "commit" ELSE "contest")
    BY <1>2 DEF Arbitrate
  <1>4. /\ decision'[p] = D(a)
        /\ pc'[p] = IF ~a.needs_human /\ WinnerOf(a) # None
                    THEN "commit" ELSE "contest"
    BY <1>0, <1>3 DEF TypeOK, Goto
  <1>5. /\ D(a).method = "llm" /\ D(a).verdict = a.verdict
        /\ D(a).winner = WinnerOf(a) /\ D(a).loser = LoserOf(a)
    BY DEF For
  <1>6. WinnerOf(a) # None =>
            \/ WinnerOf(a) = existing[p] /\ LoserOf(a) = target[p]
            \/ WinnerOf(a) = target[p] /\ LoserOf(a) = existing[p]
    OBVIOUS
  <1> HIDE DEF D, WinnerOf, LoserOf
  <1>7. Known(existing[p]) /\ Known(target[p])
    BY <1>0, <1>1 DEF LocalInv, FateStore, Inserted
  <1>8. claim[existing[p]].tier \in Int /\ claim[target[p]].tier \in Int
    BY <1>7, ClaimAssumption DEF Known
  <1>9. pc'[p] = "commit" => WinnerTier(p)' /\ decision'[p].verdict = "refinement"
    <2> SUFFICES ASSUME pc'[p] = "commit"
                 PROVE  WinnerTier(p)' /\ decision'[p].verdict = "refinement"
      OBVIOUS
    <2>1. ~a.needs_human /\ WinnerOf(a) # None
      BY <1>4
    <2>2. decision'[p].verdict = "refinement"
      BY <1>4, <1>5, <2>1, EqualsRefine
    <2>3. claim[decision'[p].winner].tier >= claim[decision'[p].loser].tier
      BY <1>1, <1>4, <1>5, <1>6, <1>8, <2>1 DEF SameTier
    <2> QED
      BY <1>1, <2>2, <2>3 DEF WinnerTier
  <1>10. pc'[p] \in {"commit", "contest"}
    BY <1>4
  <1>11. /\ canonical_belief_id' # None
         /\ expected'[p] = version' =>
                superseded_by'[target'[p]] = None /\ Detection(target[p])' = "conflict"
    BY <1>0, <1>1 DEF FateLocal, Detection
  <1> QED
    BY <1>9, <1>10, <1>11 DEF FateLocal

LEMMA CommitFate ==
    ASSUME IInv, IInv', FateInv, NEW p \in Processes, CommitStep(p)
    PROVE  FateFrame(p) /\ FateLocal(p)' /\ FateStore'
  <1>0. /\ TypeOK /\ StoreInv /\ LocalInv(p) /\ FateStore /\ FateLocal(p)
        /\ version \in Nat
    BY DEF IInv, FateInv, TypeOK
  <1>1. CASE Arbitrate(p)
    BY <1>0, <1>1, ArbitrateFate, QuietFate DEF Arbitrate, subjectRow, beliefRows
  <1>2. CASE PromoteFirst(p)
    <2> DEFINE t == target[p]
    <2>1. /\ t \in Ingests /\ status[t] # "absent" /\ canonical_belief_id = None
          /\ version' = version + 1 /\ canonical_belief_id' = t
          /\ status' = [status EXCEPT ![t] = "canonical"]
          /\ UNCHANGED <<superseded_by, claim>>
      BY <1>0, <1>2 DEF PromoteFirst, StillVacant, NextVersion, LocalInv, Inserted
    <2>2. t # None
      BY <2>1, ProcessAssumption DEF Processes
    <2>3. \A b \in Ingests : superseded_by[b] = None
      BY <1>0, <2>1 DEF FateStore
    <2>4. SupersessionEndsAtAnswer'
      BY <1>0, <2>1, <2>3 DEF FateStore, SupersessionEndsAtAnswer, TypeOK
    <2>5. FateStore'
      BY <1>0, <2>1, <2>2, <2>3, <2>4 DEF FateStore, TypeOK, Known
    <2>6. FateFrame(p)
      BY <1>0, <2>1, <2>2 DEF FateFrame
    <2>7. Return(p, "done") /\ "done" \in Returned
      BY <1>2 DEF PromoteFirst, Returned
    <2> QED
      BY <1>0, <2>5, <2>6, <2>7, ReturnFate
  <1>3. CASE LoseFirst(p)
    <2>1. pc'[p] \in {"reread", "pending"}
      BY <1>0, <1>3 DEF LoseFirst, TypeOK, Goto
    <2>2. FateLocal(p)'
      BY <2>1 DEF FateLocal, Judging
    <2> QED
      BY <1>0, <1>3, <2>2, QuietFate DEF LoseFirst, subjectRow, beliefRows
  <1>4. CASE CommitResolution(p)
    <2> DEFINE w == decision[p].winner
               l == decision[p].loser
    <2>1. /\ w \in Ingests /\ l \in Ingests /\ w # l
          /\ canonical_belief_id \in {w, l}
          /\ superseded_by[w] = None /\ superseded_by[l] = None
          /\ status[w] # "absent" /\ status[l] # "absent"
      BY <1>4, CommitOfStanding DEF CommitResolution
    <2>2. /\ version' = version + 1 /\ canonical_belief_id' = w
          /\ status' = [status EXCEPT ![w] = "canonical", ![l] = "superseded"]
          /\ superseded_by' = [superseded_by EXCEPT ![l] = w]
          /\ UNCHANGED claim
      BY <1>4 DEF CommitResolution, NextVersion, NewAnswer, Supersede
    <2> HIDE DEF w, l
    <2>3. w # None
      BY <2>1, ProcessAssumption DEF Processes
    <2>4. SupersessionEndsAtAnswer'
      BY <1>0, <2>1, <2>2, SupersedeKeepsChains DEF FateStore, TypeOK
    <2>5. \A b \in Ingests :
            /\ status'[b] # "absent" => version' # 0 /\ Known(b)'
            /\ status'[b] \in {"absent", "candidate"} => superseded_by'[b] = None
      BY <1>0, <2>1, <2>2 DEF FateStore, TypeOK, Known
    <2>6. superseded_by'[w] = None
      BY <1>0, <2>1, <2>2 DEF TypeOK
    <2>7. FateStore'
      BY <2>2, <2>3, <2>4, <2>5, <2>6 DEF FateStore
    <2>8. FateFrame(p)
      BY <1>0, <2>2, <2>3 DEF FateFrame
    <2>9. Return(p, "done") /\ "done" \in Returned
      BY <1>4 DEF CommitResolution, Returned
    <2> QED
      BY <1>0, <2>7, <2>8, <2>9, ReturnFate
  <1>5. CASE RaiseStale(p)
    <2>1. Return(p, "stale") /\ "stale" \in Returned
      BY <1>5 DEF RaiseStale, Returned
    <2> QED
      BY <1>0, <1>5, <2>1, ReturnFate, QuietFate DEF RaiseStale, subjectRow, beliefRows
  <1>6. CASE CommitContested(p)
    <2>1. /\ Inserted(existing[p]) /\ Inserted(target[p])
          /\ canonical_belief_id # None
          /\ status' = [status EXCEPT ![existing[p]] = "contested",
                                      ![target[p]] = "contested"]
          /\ UNCHANGED <<version, canonical_belief_id, superseded_by, claim>>
      BY <1>0, <1>6 DEF CommitContested, LocalInv, FateLocal, Judging, subjectRow
    <2>2. \A b \in Ingests : status'[b] = status[b] \/
            (status[b] # "absent" /\ status'[b] = "contested")
      BY <1>0, <2>1 DEF TypeOK, Inserted
    <2>3. SupersessionEndsAtAnswer'
      BY <1>0, <2>1, <2>2 DEF FateStore, SupersessionEndsAtAnswer
    <2>4. FateStore'
      BY <1>0, <2>1, <2>2, <2>3 DEF FateStore, Known
    <2>5. FateFrame(p)
      BY <1>0, <2>1 DEF FateFrame
    <2>6. Return(p, "contested") /\ "contested" \in Returned
      BY <1>6 DEF CommitContested, Returned
    <2> QED
      BY <1>0, <2>4, <2>5, <2>6, ReturnFate
  <1> QED
    BY <1>1, <1>2, <1>3, <1>4, <1>5, <1>6 DEF CommitStep

LEMMA FaultFate ==
    ASSUME IInv, FateInv, NEW p \in Processes,
           SerializationFailure(p) \/ Abort(p)
    PROVE  FateFrame(p) /\ FateLocal(p)' /\ FateStore'
  <1>0. TypeOK /\ FateStore /\ FateLocal(p)
    BY DEF IInv, FateInv
  <1>1. UNCHANGED <<version, canonical_belief_id, status, superseded_by, claim>>
    BY DEF SerializationFailure, Abort, subjectRow, beliefRows
  <1>2. CASE Return(p, "error")
    BY <1>0, <1>1, <1>2, QuietFate, ReturnFate DEF Returned
  <1>3. CASE UNCHANGED <<pc, target, expected, existing, decision>>
    <2>1. FateLocal(p)'
      BY <1>0, <1>1, <1>3 DEF FateLocal, Known, SameTier, WinnerTier, Detection
    <2> QED
      BY <1>0, <1>1, <2>1, QuietFate
  <1> QED
    BY <1>2, <1>3 DEF SerializationFailure, Abort
-----------------------------------------------------------------------------
LEMMA FateInit == Init => FateInv
  <1> SUFFICES ASSUME Init
               PROVE  FateInv
    OBVIOUS
  <1>1. \A S \in (SUBSET Ingests) \ {{}} : \E b \in S : superseded_by[b] \notin S
    <2> SUFFICES ASSUME NEW S \in (SUBSET Ingests) \ {{}}
                 PROVE  \E b \in S : superseded_by[b] \notin S
      OBVIOUS
    <2>0. S \notin {{}}
      OBVIOUS
    <2>1. PICK b : b \in S
      <3>1. S # {}
        BY <2>0, Zenon
      <3> QED
        BY <3>1
    <2>2. superseded_by[b] = None
      BY <2>1 DEF Init
    <2> QED
      BY <2>1, <2>2, ProcessAssumption DEF Processes
  <1>2. SupersessionEndsAtAnswer
    BY <1>1 DEF Init, SupersessionEndsAtAnswer
  <1>3. FateStore
    BY <1>2 DEF Init, FateStore
  <1>4. ASSUME NEW p \in Processes
        PROVE  FateLocal(p)
    BY <1>4 DEF Init, FateLocal, Judging
  <1> QED
    BY <1>3, <1>4 DEF FateInv

LEMMA FateStepOfProcess ==
    ASSUME IInv, IInv', FateInv, NEW p \in Processes,
           Frame(p), FateFrame(p), FateLocal(p)', FateStore'
    PROVE  FateInv'
  <1>1. ASSUME NEW q \in Processes
        PROVE  FateLocal(q)'
    <2>1. CASE q = p
      BY <2>1
    <2>2. CASE q # p
      BY <2>2, OthersFate DEF FateInv
    <2> QED
      BY <2>1, <2>2
  <1> QED
    BY <1>1 DEF FateInv

LEMMA FateNext == IInv /\ FateInv /\ [Next]_vars => FateInv'
  <1> SUFFICES ASSUME IInv, FateInv, [Next]_vars
               PROVE  FateInv'
    OBVIOUS
  <1>0. IInv' /\ TypeOK'
    BY NextInv DEF IInv
  <1>1. ASSUME NEW i \in Ingests, IngestStep(i)
        PROVE  FateInv'
    <2>1. i \in Processes
      BY DEF Processes
    <2>2. Frame(i) /\ FateFrame(i) /\ FateLocal(i)' /\ FateStore'
      BY <1>0, <1>1, IngestInv, IngestFate
    <2> QED
      BY <1>0, <2>1, <2>2, FateStepOfProcess
  <1>2. ASSUME NEW w \in Workers, NEW b \in Ingests, PickCandidate(w, b)
        PROVE  FateInv'
    <2>1. w \in Processes /\ TypeOK
      BY DEF Processes, IInv
    <2>2. pc'[w] = "pending"
      BY <1>2, <2>1 DEF PickCandidate, TypeOK, Goto
    <2>3. FateLocal(w)'
      BY <2>2 DEF FateLocal, Judging
    <2>4. FateFrame(w) /\ FateStore'
      BY <1>2, <2>1, QuietFate DEF PickCandidate, FateInv, subjectRow, beliefRows
    <2>5. Frame(w)
      BY <1>0, <1>2, PickInv
    <2> QED
      BY <1>0, <2>1, <2>3, <2>4, <2>5, FateStepOfProcess
  <1>3. ASSUME NEW p \in Processes,
               \/ PendingStep(p) \/ CommitStep(p)
               \/ SerializationFailure(p) \/ Abort(p)
        PROVE  FateInv'
    <2>1. Frame(p)
      BY <1>0, <1>3, PendingInv, CommitInv, FaultInv
    <2>2. FateFrame(p) /\ FateLocal(p)' /\ FateStore'
      BY <1>0, <1>3, PendingFate, CommitFate, FaultFate
    <2> QED
      BY <1>0, <2>1, <2>2, FateStepOfProcess
  <1>4. ASSUME UNCHANGED <<version, canonical_belief_id, status, superseded_by,
                           claim, pc, locals>>
        PROVE  FateInv'
    <2>1. FateStore'
      BY <1>4 DEF FateInv, FateStore, SupersessionEndsAtAnswer, Known
    <2>2. ASSUME NEW p \in Processes
          PROVE  FateLocal(p)'
      BY <1>4 DEF FateInv, FateLocal, Known, SameTier, WinnerTier, Detection, locals
    <2> QED
      BY <2>1, <2>2 DEF FateInv
  <1>5. CASE TimePasses
    BY <1>4, <1>5 DEF TimePasses, subjectRow
  <1>6. CASE \E s \in LedgerStates : UpsertLedger(s)
    BY <1>4, <1>6 DEF UpsertLedger, subjectRow, beliefRows
  <1>7. CASE UNCHANGED vars
    BY <1>4, <1>7 DEF vars, subjectRow, beliefRows
  <1> QED
    BY <1>1, <1>2, <1>3, <1>5, <1>6, <1>7 DEF Next

LEMMA FateInvariance == Spec => [](IInv /\ FateInv)
  <1>1. Init => IInv /\ FateInv
    BY InitInv, FateInit
  <1>2. IInv /\ FateInv /\ [Next]_vars => (IInv /\ FateInv)'
    BY NextInv, FateNext
  <1> QED
    BY <1>1, <1>2, PTL DEF Spec

-----------------------------------------------------------------------------
\* A step decides nothing, retires nothing and ends no escalation, except for the
\* three kinds of step that do.
LEMMA StepKinds ==
    ASSUME IInv, FateInv, [Next]_vars
    PROVE  \/ /\ UNCHANGED <<canonical_belief_id, superseded_by>>
              /\ version' = version
                    \/ (version = 0 /\ version' = 1 /\ UNCHANGED resolutions)
              /\ \A b \in Ingests :
                    status[b] = "contested" => status'[b] = "contested"
           \/ \E p \in Processes :
                    PromoteFirst(p) \/ MergePending(p) \/ CommitResolution(p)
  <1> DEFINE Quiet == /\ UNCHANGED <<canonical_belief_id, superseded_by>>
                      /\ version' = version
                            \/ (version = 0 /\ version' = 1 /\ UNCHANGED resolutions)
                      /\ \A b \in Ingests :
                            status[b] = "contested" => status'[b] = "contested"
  <1>0. TypeOK
    BY DEF IInv
  <1>1. ASSUME NEW i \in Ingests, IngestStep(i)
        PROVE  Quiet
    <2>1. pc[i] = "detect" => status[i] = "absent"
      BY DEF IInv, LocalInv, Processes
    <2> QED
      BY <1>0, <1>1, <2>1
      DEF IngestStep, OpenSubject, UnknownSource, InsertFirst, RefreshCanonical,
          InsertUnrelated, InsertConflicting, VerifyAgainstLedger,
          InsertCandidate, TypeOK, subjectRow, beliefRows
  <1>2. ASSUME NEW w \in Workers, NEW b \in Ingests, PickCandidate(w, b)
        PROVE  Quiet
    BY <1>2 DEF PickCandidate, subjectRow, beliefRows
  <1>3. ASSUME NEW p \in Processes, PendingStep(p), ~MergePending(p)
        PROVE  Quiet
    BY <1>3
    DEF PendingStep, SkipPending, AdoptVacantSubject, JudgePending,
        RereadOldSnapshot, subjectRow, beliefRows
  <1>4. ASSUME NEW p \in Processes, CommitStep(p),
               ~PromoteFirst(p), ~CommitResolution(p)
        PROVE  Quiet
    BY <1>0, <1>4
    DEF CommitStep, Arbitrate, LoseFirst, RaiseStale, CommitContested, TypeOK,
        subjectRow, beliefRows
  <1>5. ASSUME NEW p \in Processes, SerializationFailure(p) \/ Abort(p)
        PROVE  Quiet
    BY <1>5 DEF SerializationFailure, Abort, subjectRow, beliefRows
  <1>6. TimePasses \/ (\E s \in LedgerStates : UpsertLedger(s)) => Quiet
    BY DEF TimePasses, UpsertLedger, subjectRow, beliefRows
  <1>7. UNCHANGED vars => Quiet
    BY DEF vars, subjectRow, beliefRows
  <1> HIDE DEF Quiet
  <1>8. Quiet \/ \E p \in Processes :
            PromoteFirst(p) \/ MergePending(p) \/ CommitResolution(p)
    BY <1>1, <1>2, <1>3, <1>4, <1>5, <1>6, <1>7 DEF Next
  <1> QED
    BY <1>8 DEF Quiet

\* The row a decision leaves in the audit table.
LEMMA CommitLogs ==
    ASSUME IInv, NEW p \in Processes, CommitResolution(p)
    PROVE  /\ Len(resolutions') = Len(resolutions) + 1
           /\ resolutions'[Len(resolutions')] = decision[p]
  <1>1. decision[p] \in Decisions /\ resolutions \in Seq(Decisions)
    BY DEF IInv, TypeOK
  <1> QED
    BY <1>1, AppendProperties DEF CommitResolution
-----------------------------------------------------------------------------
\* The register's steps, one challenger at a time.
LEMMA RegisterSteps ==
    ASSUME NEW b \in Register!Challengers,
           \/ Register!First(b) \/ Register!Overturn(b)
           \/ Register!Uphold(b) \/ Register!Merge(b)
    PROVE  Register!Next
  BY DEF Register!Next

\* The detailed specification implements the abstract one: whatever races, the
\* subject goes through the decisions of a register, each against the answer of
\* its moment, and no belief that was retired is decided about again.
THEOREM ImplementsAnswerRegister == Spec => ImplementsRegister
  <1> DEFINE retired == {b \in Ingests : superseded_by[b] # None}
  <1>1. Init => Register!Init
    <2> SUFFICES ASSUME Init
                 PROVE  Register!Init
      OBVIOUS
    <2>1. retired = {}
      BY DEF Init
    <2> QED
      BY <2>1 DEF Init, Register!Init
  <1>2. IInv /\ FateInv /\ [Next]_vars => [Register!Next]_(Register!vars)
    <2> SUFFICES ASSUME IInv, FateInv, [Next]_vars
                 PROVE  [Register!Next]_(Register!vars)
      OBVIOUS
    <2>0. TypeOK /\ StoreInv /\ FateStore /\ version \in Nat
      BY DEF IInv, FateInv, TypeOK
    <2>1. CASE /\ UNCHANGED <<canonical_belief_id, superseded_by>>
               /\ version' = version \/ (version = 0 /\ version' = 1)
      BY <2>1 DEF Register!Next, Register!Open, Register!vars
    <2>2. ASSUME NEW p \in Processes, PromoteFirst(p)
          PROVE  Register!Next
      <3>0. PICK t : t = target[p]
        OBVIOUS
      <3>1. /\ t \in Ingests /\ status[t] # "absent" /\ canonical_belief_id = None
            /\ version' = version + 1 /\ canonical_belief_id' = t
            /\ UNCHANGED superseded_by
        BY <2>2, <3>0
        DEF PromoteFirst, StillVacant, NextVersion, IInv, LocalInv, Inserted
      <3>2. version = 1 /\ superseded_by[t] = None
        BY <2>0, <3>1 DEF FateStore
      <3>3. t \in Register!Challengers
        BY <3>1, <3>2, ProcessAssumption DEF Register!Challengers, Processes
      <3>4. Register!First(t)
        BY <3>1, <3>2 DEF Register!First
      <3> QED
        BY <3>3, <3>4, RegisterSteps
    <2>3. ASSUME NEW p \in Processes, MergePending(p)
          PROVE  Register!Next
      <3>0. PICK t : t = target[p]
        OBVIOUS
      <3>1. /\ t \in Ingests /\ status[t] = "candidate"
            /\ canonical_belief_id # None /\ canonical_belief_id # t
            /\ superseded_by' = [superseded_by EXCEPT ![t] = canonical_belief_id]
            /\ UNCHANGED <<version, canonical_belief_id>>
        BY <2>3, <3>0
        DEF MergePending, StillPending, Detection, IInv, LocalInv, Inserted,
            subjectRow
      <3>2. superseded_by[t] = None
        BY <2>0, <3>1 DEF FateStore
      <3>3. retired' = retired \cup {t}
        BY <2>0, <3>1 DEF TypeOK
      <3>4. t \in Register!Challengers
        BY <3>1, <3>2 DEF Register!Challengers
      <3>5. Register!Merge(t)
        BY <3>1, <3>3 DEF Register!Merge
      <3> QED
        BY <3>4, <3>5, RegisterSteps
    <2>4. ASSUME NEW p \in Processes, CommitResolution(p)
          PROVE  Register!Next
      <3>0. PICK w, l : w = decision[p].winner /\ l = decision[p].loser
        OBVIOUS
      <3>1. /\ w \in Ingests /\ l \in Ingests /\ w # l
            /\ canonical_belief_id \in {w, l}
            /\ superseded_by[w] = None /\ superseded_by[l] = None
        BY <2>4, <3>0, CommitOfStanding DEF CommitResolution
      <3>2. /\ version' = version + 1 /\ canonical_belief_id' = w
            /\ superseded_by' = [superseded_by EXCEPT ![l] = w]
        BY <2>4, <3>0 DEF CommitResolution, NextVersion, NewAnswer, Supersede
      <3>3. canonical_belief_id # None /\ w # None
        BY <3>1, ProcessAssumption DEF Processes
      <3>4. retired' = retired \cup {l}
        BY <2>0, <3>1, <3>2, <3>3 DEF TypeOK
      <3>5. CASE canonical_belief_id = w
        <4>1. l \in Register!Challengers
          BY <3>1, <3>5 DEF Register!Challengers
        <4>2. Register!Uphold(l)
          BY <3>2, <3>3, <3>4, <3>5 DEF Register!Uphold
        <4> QED
          BY <4>1, <4>2, RegisterSteps
      <3>6. CASE canonical_belief_id = l
        <4>1. w \in Register!Challengers
          BY <3>1, <3>6 DEF Register!Challengers
        <4>2. Register!Overturn(w)
          BY <3>2, <3>3, <3>4, <3>6 DEF Register!Overturn
        <4> QED
          BY <4>1, <4>2, RegisterSteps
      <3> QED
        BY <3>1, <3>5, <3>6
    <2> QED
      BY <2>1, <2>2, <2>3, <2>4, StepKinds
  <1> QED
    BY <1>1, <1>2, FateInvariance, PTL DEF Spec, ImplementsRegister, Register!Spec

\* Every belief that lost or was merged is accounted for by the answer that
\* stands: following superseded_by never goes in a circle and ends there.
THEOREM ChainsEndAtAnswer == Spec => []SupersessionEndsAtAnswer
  <1>1. IInv /\ FateInv => SupersessionEndsAtAnswer
    BY DEF FateInv, FateStore
  <1> QED
    BY <1>1, FateInvariance, PTL

\* By rule or arbiter the answer's tier never falls, although each call compares
\* only two beliefs and other calls decide in between: only the ledger hands a
\* subject to a less authoritative source.
THEOREM TierKept == Spec => TierFallsOnlyToLedger
  <1> DEFINE A == canonical_belief_id # None =>
                    \/ claim[canonical_belief_id'].tier >= claim[canonical_belief_id].tier
                    \/ resolutions'[Len(resolutions')].method = "ledger_verification"
  <1>1. IInv /\ FateInv /\ [Next]_vars => [A]_vars
    <2> SUFFICES ASSUME IInv, FateInv, [Next]_vars, canonical_belief_id # None
                 PROVE  \/ claim[canonical_belief_id'].tier >= claim[canonical_belief_id].tier
                        \/ resolutions'[Len(resolutions')].method = "ledger_verification"
      OBVIOUS
    <2>0. TypeOK /\ StoreInv /\ FateStore
      BY DEF IInv, FateInv
    <2>1. claim[canonical_belief_id].tier \in Int
      BY <2>0, AnswerInserted, ClaimAssumption DEF Inserted, FateStore, Known
    <2>2. CASE canonical_belief_id' = canonical_belief_id
      BY <2>1, <2>2
    <2>3. ASSUME NEW p \in Processes, CommitResolution(p)
          PROVE  \/ claim[canonical_belief_id'].tier >= claim[canonical_belief_id].tier
                 \/ resolutions'[Len(resolutions')].method = "ledger_verification"
      <3>1. decision[p].method = "ledger_verification" \/ WinnerTier(p)
        BY <2>3 DEF CommitResolution, FateInv, FateLocal
      <3>2. canonical_belief_id \in {decision[p].winner, decision[p].loser}
        BY <2>3, CommitOfStanding DEF CommitResolution
      <3>3. canonical_belief_id' = decision[p].winner
        BY <2>3 DEF CommitResolution, NewAnswer
      <3> QED
        BY <2>1, <2>3, <3>1, <3>2, <3>3, CommitLogs DEF WinnerTier
    <2>4. \A p \in Processes : ~PromoteFirst(p)
      BY DEF PromoteFirst, StillVacant
    <2>5. \A p \in Processes :
            MergePending(p) => canonical_belief_id' = canonical_belief_id
      BY DEF MergePending, subjectRow
    <2> QED
      BY <2>2, <2>3, <2>4, <2>5, StepKinds
  <1> QED
    BY <1>1, FateInvariance, PTL DEF Spec, TierFallsOnlyToLedger

\* What a language model decides takes effect without a human only as a
\* refinement: every other conflict that gets as far as the arbiter is one of
\* equals, and is escalated.
THEOREM OnlyRefinementsCommitted == Spec => ArbiterCommitsOnlyRefinements
  <1> DEFINE A == LET row == resolutions'[Len(resolutions')]
                  IN  /\ version' # version
                      /\ resolutions' # resolutions
                      /\ row.method = "llm"
                      => row.verdict = "refinement"
  <1>1. IInv /\ FateInv /\ [Next]_vars => [A]_vars
    <2> SUFFICES ASSUME IInv, FateInv, [Next]_vars,
                        version' # version, resolutions' # resolutions,
                        resolutions'[Len(resolutions')].method = "llm"
                 PROVE  resolutions'[Len(resolutions')].verdict = "refinement"
      OBVIOUS
    <2>1. \A p \in Processes : ~PromoteFirst(p) /\ ~MergePending(p)
      BY DEF PromoteFirst, MergePending, subjectRow
    <2>2. PICK p \in Processes : CommitResolution(p)
      BY <2>1, StepKinds
    <2>3. decision[p].method = "llm" => decision[p].verdict = "refinement"
      BY <2>2 DEF CommitResolution, FateInv, FateLocal
    <2> QED
      BY <2>2, <2>3, CommitLogs
  <1> QED
    BY <1>1, FateInvariance, PTL DEF Spec, ArbiterCommitsOnlyRefinements

\* An escalation ends only by a decision whose row names the contested belief:
\* no promotion and no merging picks up a belief a human was asked about.
THEOREM EscalationsEndByDecision == Spec => EscalationEndsByDecision
  <1> DEFINE A == \A b \in Ingests :
                    status[b] = "contested" /\ status'[b] # "contested" =>
                        /\ Len(resolutions') = Len(resolutions) + 1
                        /\ LET row == resolutions'[Len(resolutions')]
                           IN  b \in {row.winner, row.loser}
  <1>1. IInv /\ FateInv /\ [Next]_vars => [A]_vars
    <2> SUFFICES ASSUME IInv, FateInv, [Next]_vars, NEW b \in Ingests,
                        status[b] = "contested", status'[b] # "contested"
                 PROVE  /\ Len(resolutions') = Len(resolutions) + 1
                        /\ b \in {resolutions'[Len(resolutions')].winner,
                                   resolutions'[Len(resolutions')].loser}
      OBVIOUS
    <2>0. TypeOK /\ canonical_belief_id # None
      BY DEF IInv, FateInv, FateStore
    <2>1. \A p \in Processes : ~PromoteFirst(p)
      BY <2>0 DEF PromoteFirst, StillVacant
    <2>2. \A p \in Processes : ~MergePending(p)
      BY <2>0 DEF MergePending, StillPending, TypeOK
    <2>3. PICK p \in Processes : CommitResolution(p)
      BY <2>1, <2>2, StepKinds
    <2>4. b \in {decision[p].winner, decision[p].loser}
      BY <2>0, <2>3 DEF CommitResolution, TypeOK
    <2> QED
      BY <2>3, <2>4, CommitLogs
  <1> QED
    BY <1>1, FateInvariance, PTL DEF Spec, EscalationEndsByDecision

-----------------------------------------------------------------------------
(* The rows that explain what became of a belief. *)

\* A belief nobody has decided about has no row; the newest row of one that is
\* superseded is the decision it lost, unless it was merged and has none.
Explained(b) ==
    /\ status[b] \in {"absent", "candidate"} => RowsOf(b) = {}
    /\ status[b] = "superseded" /\ RowsOf(b) # {} =>
        \E n \in RowsOf(b) :
            /\ \A m \in RowsOf(b) : m <= n
            /\ resolutions[n].loser = b /\ resolutions[n].winner = superseded_by[b]

\* An escalation is logged for the two beliefs that were compared, or for none.
EscalatesPair(p) ==
    pc[p] = "contest" =>
        DecidesPair(p) \/ (decision[p].winner = None /\ decision[p].loser = None)

HistoryInv ==
    (\A b \in Ingests : Explained(b)) /\ (\A p \in Processes : EscalatesPair(p))

\* A row that is appended is one more for the beliefs it names.
LEMMA RowAppended ==
    ASSUME TypeOK, NEW d \in Decisions, resolutions' = Append(resolutions, d), NEW b \in Ingests
    PROVE  LET last == Len(resolutions) + 1
           IN  /\ RowsOf(b)' = RowsOf(b) \cup (IF Names(d, b) THEN {last} ELSE {})
               /\ last \in Nat /\ \A n \in RowsOf(b) : n < last /\ resolutions'[n] = resolutions[n]
               /\ resolutions'[last] = d
  <1>1. PICK rows : rows = resolutions
    OBVIOUS
  <1>2. rows \in Seq(Decisions)
    BY <1>1 DEF TypeOK
  <1>3. /\ Len(Append(rows, d)) = Len(rows) + 1 /\ Len(rows) \in Nat
        /\ \A n \in 1..Len(rows) : Append(rows, d)[n] = rows[n]
        /\ Append(rows, d)[Len(rows) + 1] = d
        /\ DOMAIN rows = 1..Len(rows) /\ DOMAIN Append(rows, d) = 1..(Len(rows) + 1)
    BY <1>2, AppendProperties, LenProperties
  <1>4. RowsOf(b) = {n \in 1..Len(rows) : Names(rows[n], b)}
    BY <1>1, <1>3 DEF RowsOf
  <1>5. RowsOf(b)' = {n \in 1..(Len(rows) + 1) : Names(Append(rows, d)[n], b)}
    BY <1>1, <1>3 DEF RowsOf, Names
  <1> QED
    BY <1>1, <1>3, <1>4, <1>5

\* Without a new row that names it, a belief stays explained when its row does
\* not change, when it was a candidate, and when it does not end superseded.
LEMMA StaysExplained ==
    ASSUME NEW b \in Ingests, Explained(b), RowsOf(b)' = RowsOf(b),
           \A n \in RowsOf(b) : resolutions'[n] = resolutions[n],
           \/ status'[b] = status[b] /\ superseded_by'[b] = superseded_by[b]
           \/ status[b] \in {"absent", "candidate"}
           \/ status'[b] \notin {"absent", "candidate", "superseded"}
    PROVE  Explained(b)'
  BY DEF Explained

LEMMA QuietHistory ==
    ASSUME HistoryInv, UNCHANGED resolutions,
           \A b \in Ingests :
               \/ status'[b] = status[b] /\ superseded_by'[b] = superseded_by[b]
               \/ status[b] \in {"absent", "candidate"}
               \/ status'[b] \notin {"absent", "candidate", "superseded"}
    PROVE  \A b \in Ingests : Explained(b)'
  <1>1. \A b \in Ingests : RowsOf(b)' = RowsOf(b)
    BY DEF RowsOf
  <1> QED
    BY <1>1, StaysExplained DEF HistoryInv

LEMMA HistoryOfCommit ==
    ASSUME IInv, FateInv, HistoryInv, NEW p \in Processes, CommitResolution(p)
    PROVE  \A b \in Ingests : Explained(b)'
  <1>0. TypeOK
    BY DEF IInv
  <1>1. PICK d : d = decision[p]
    OBVIOUS
  <1>2. d \in Decisions /\ resolutions' = Append(resolutions, d)
    BY <1>0, <1>1 DEF TypeOK, CommitResolution
  <1>3. d.winner \in Ingests /\ d.loser \in Ingests /\ d.winner # d.loser
    BY <1>1, CommitOfStanding DEF CommitResolution
  <1>4. /\ status' = [status EXCEPT ![d.winner] = "canonical", ![d.loser] = "superseded"]
        /\ superseded_by' = [superseded_by EXCEPT ![d.loser] = d.winner]
    BY <1>1 DEF CommitResolution, Supersede
  <1> SUFFICES ASSUME NEW b \in Ingests
               PROVE  Explained(b)'
    OBVIOUS
  <1>5. PICK last : last = Len(resolutions) + 1
    OBVIOUS
  <1>6. /\ RowsOf(b)' = RowsOf(b) \cup (IF Names(d, b) THEN {last} ELSE {})
        /\ last \in Nat /\ \A n \in RowsOf(b) : n < last /\ resolutions'[n] = resolutions[n]
        /\ resolutions'[last] = d
    BY <1>0, <1>2, <1>5, RowAppended
  <1>7. Explained(b)
    BY DEF HistoryInv
  <1>8. CASE b = d.loser
    <2>1. status'[b] = "superseded" /\ superseded_by'[b] = d.winner
      BY <1>0, <1>3, <1>4, <1>8 DEF TypeOK
    <2>2. RowsOf(b)' = RowsOf(b) \cup {last}
      BY <1>6, <1>8 DEF Names
    <2>3. RowsOf(b) \subseteq Nat
      BY <1>0, LenProperties DEF TypeOK, RowsOf
    <2>4. \A m \in RowsOf(b)' : m <= last
      BY <1>6, <2>2, <2>3
    <2> QED
      BY <1>6, <1>8, <2>1, <2>2, <2>4 DEF Explained
  <1>9. CASE b = d.winner
    <2>1. status'[b] = "canonical"
      BY <1>0, <1>3, <1>4, <1>9 DEF TypeOK
    <2> QED
      BY <2>1 DEF Explained
  <1>10. CASE b \notin {d.winner, d.loser}
    <2>1. RowsOf(b)' = RowsOf(b)
      BY <1>6, <1>10 DEF Names
    <2>2. status'[b] = status[b] /\ superseded_by'[b] = superseded_by[b]
      BY <1>0, <1>4, <1>10 DEF TypeOK
    <2> QED
      BY <1>6, <1>7, <2>1, <2>2, StaysExplained
  <1> QED
    BY <1>8, <1>9, <1>10

LEMMA HistoryOfEscalation ==
    ASSUME IInv, HistoryInv, NEW p \in Processes, CommitContested(p)
    PROVE  \A b \in Ingests : Explained(b)'
  <1>0. TypeOK /\ LocalInv(p) /\ EscalatesPair(p)
    BY DEF IInv, HistoryInv
  <1>1. PICK d, e, t : d = decision[p] /\ e = existing[p] /\ t = target[p]
    OBVIOUS
  <1>2. d \in Decisions /\ resolutions' = Append(resolutions, d)
    BY <1>0, <1>1 DEF TypeOK, CommitContested
  <1>3. e \in Ingests /\ t \in Ingests
    BY <1>0, <1>1 DEF CommitContested, LocalInv, Inserted, Judging
  <1>4. status' = [status EXCEPT ![e] = "contested", ![t] = "contested"]
        /\ superseded_by' = superseded_by
    BY <1>1 DEF CommitContested
  <1>5. {d.winner, d.loser} \subseteq {e, t, None}
    BY <1>0, <1>1 DEF CommitContested, EscalatesPair, DecidesPair
  <1> SUFFICES ASSUME NEW b \in Ingests
               PROVE  Explained(b)'
    OBVIOUS
  <1>6. CASE b \in {e, t}
    <2>1. status'[b] = "contested"
      BY <1>0, <1>3, <1>4, <1>6 DEF TypeOK
    <2> QED
      BY <2>1 DEF Explained
  <1>7. CASE b \notin {e, t}
    <2>1. ~Names(d, b)
      BY <1>5, <1>7, ProcessAssumption DEF Names, Processes
    <2>2. /\ RowsOf(b)' = RowsOf(b)
          /\ \A n \in RowsOf(b) : resolutions'[n] = resolutions[n]
      BY <1>0, <1>2, <2>1, RowAppended
    <2>3. status'[b] = status[b] /\ superseded_by'[b] = superseded_by[b]
      BY <1>0, <1>4, <1>7 DEF TypeOK
    <2>4. Explained(b)
      BY DEF HistoryInv
    <2> QED
      BY <2>2, <2>3, <2>4, StaysExplained
  <1> QED
    BY <1>6, <1>7

\* Every other step retires candidates only, or leaves the rows as they are.
LEMMA HistoryOfOthers ==
    ASSUME IInv, [Next]_vars,
           ~ \E p \in Processes : CommitResolution(p) \/ CommitContested(p)
    PROVE  /\ UNCHANGED resolutions
           /\ \A b \in Ingests :
               \/ status'[b] = status[b] /\ superseded_by'[b] = superseded_by[b]
               \/ status[b] \in {"absent", "candidate"}
               \/ status'[b] \notin {"absent", "candidate", "superseded"}
  <1> DEFINE Quiet == /\ UNCHANGED resolutions
                      /\ \A b \in Ingests :
                            \/ status'[b] = status[b] /\ superseded_by'[b] = superseded_by[b]
                            \/ status[b] \in {"absent", "candidate"}
                            \/ status'[b] \notin {"absent", "candidate", "superseded"}
  <1>0. TypeOK
    BY DEF IInv
  <1>1. ASSUME NEW i \in Ingests, IngestStep(i)
        PROVE  Quiet
    <2>1. pc[i] = "detect" => status[i] = "absent"
      BY DEF IInv, LocalInv, Processes
    <2> QED
      BY <1>0, <1>1, <2>1
      DEF IngestStep, OpenSubject, UnknownSource, InsertFirst, RefreshCanonical,
          InsertUnrelated, InsertConflicting, VerifyAgainstLedger,
          InsertCandidate, TypeOK, subjectRow, beliefRows
  <1>2. ASSUME NEW w \in Workers, NEW b \in Ingests, PickCandidate(w, b)
        PROVE  Quiet
    BY <1>2 DEF PickCandidate, subjectRow, beliefRows
  <1>3. ASSUME NEW p \in Processes, PendingStep(p)
        PROVE  Quiet
    BY <1>0, <1>3
    DEF PendingStep, SkipPending, AdoptVacantSubject, MergePending, StillPending, JudgePending,
        RereadOldSnapshot, TypeOK, subjectRow, beliefRows
  <1>4. ASSUME NEW p \in Processes, CommitStep(p), ~CommitResolution(p), ~CommitContested(p)
        PROVE  Quiet
    BY <1>0, <1>4
    DEF CommitStep, Arbitrate, PromoteFirst, LoseFirst, RaiseStale, TypeOK,
        subjectRow, beliefRows
  <1>5. ASSUME NEW p \in Processes, SerializationFailure(p) \/ Abort(p)
        PROVE  Quiet
    BY <1>5 DEF SerializationFailure, Abort, subjectRow, beliefRows
  <1>6. TimePasses \/ (\E s \in LedgerStates : UpsertLedger(s)) => Quiet
    BY DEF TimePasses, UpsertLedger, subjectRow, beliefRows
  <1>7. UNCHANGED vars => Quiet
    BY DEF vars, subjectRow, beliefRows
  <1> HIDE DEF Quiet
  <1>8. Quiet
    BY <1>1, <1>2, <1>3, <1>4, <1>5, <1>6, <1>7 DEF Next
  <1> QED
    BY <1>8 DEF Quiet

\* A process comes to escalate by Arbitrate() only, and keeps what it escalates.
LEMMA ArbitrateEscalates ==
    ASSUME TypeOK, NEW p \in Processes, Arbitrate(p)
    PROVE  EscalatesPair(p)'
  <1> DEFINE WinnerOf(a) == CASE a.winner = "A" -> existing[p]
                              [] a.winner = "B" -> target[p]
                              [] OTHER -> None
             LoserOf(a) == CASE a.winner = "A" -> target[p]
                             [] a.winner = "B" -> existing[p]
                             [] OTHER -> None
  <1>1. PICK a \in ArbiterDecisions(Verdicts, Confidences,
                        claim[existing[p]].tier = claim[target[p]].tier) :
            decision' = [decision EXCEPT ![p] = For(WinnerOf(a), LoserOf(a), "llm", a.verdict)]
    BY DEF Arbitrate
  <1>2. decision'[p].winner = WinnerOf(a) /\ decision'[p].loser = LoserOf(a)
    BY <1>1 DEF TypeOK, For
  <1>3. \/ WinnerOf(a) = existing[p] /\ LoserOf(a) = target[p]
        \/ WinnerOf(a) = target[p] /\ LoserOf(a) = existing[p]
        \/ WinnerOf(a) = None /\ LoserOf(a) = None
    OBVIOUS
  <1>4. existing'[p] = existing[p] /\ target'[p] = target[p]
    BY DEF Arbitrate
  <1> HIDE DEF WinnerOf, LoserOf
  <1> QED
    BY <1>2, <1>3, <1>4 DEF EscalatesPair, DecidesPair

LEMMA KeepsEscalating ==
    ASSUME IInv, [Next]_vars, NEW p \in Processes, ~Arbitrate(p)
    PROVE  pc'[p] = "contest" =>
            pc[p] = "contest" /\ decision'[p] = decision[p]
                /\ existing'[p] = existing[p] /\ target'[p] = target[p]
  <1> DEFINE Keeps == pc'[p] = "contest" =>
                        pc[p] = "contest" /\ decision'[p] = decision[p]
                            /\ existing'[p] = existing[p] /\ target'[p] = target[p]
  <1>0. TypeOK
    BY DEF IInv
  <1>1. ASSUME NEW q \in Processes, NEW outcome \in Returned, Return(q, outcome)
        PROVE  Keeps
    BY <1>0, <1>1 DEF Return, Goto, TypeOK, Returned
  <1>2. ASSUME NEW i \in Ingests, IngestStep(i)
        PROVE  Keeps
    <2>1. CASE \E outcome \in Returned : Return(i, outcome)
      BY <1>1, <2>1 DEF Processes
    <2>2. CASE OpenSubject(i)
      BY <1>0, <2>2 DEF OpenSubject, Goto, TypeOK, Processes
    <2>3. CASE InsertFirst(i)
      BY <1>0, <2>3 DEF InsertFirst, Goto, TypeOK, Processes, locals
    <2>4. CASE InsertConflicting(i)
      BY <1>0, <2>4 DEF InsertConflicting, Goto, TypeOK, Processes
    <2>5. CASE VerifyAgainstLedger(i)
      <3> DEFINE d == LedgerOr(existing[i], i, decision[i])
      <3>1. /\ pc' = [pc EXCEPT ![i] = After(d)] /\ decision' = [decision EXCEPT ![i] = d]
            /\ UNCHANGED <<target, existing>>
        BY <2>5 DEF VerifyAgainstLedger, Goto
      <3>2. After(d) # "contest"
        BY DEF After
      <3> QED
        BY <1>0, <3>1, <3>2 DEF TypeOK, Processes
    <2> QED
      BY <1>2, <2>1, <2>2, <2>3, <2>4, <2>5
      DEF IngestStep, UnknownSource, RefreshCanonical, InsertUnrelated, Returned
  <1>3. ASSUME NEW w \in Workers, NEW b \in Ingests, PickCandidate(w, b)
        PROVE  Keeps
    BY <1>0, <1>3 DEF PickCandidate, Goto, TypeOK, Processes
  <1>4. ASSUME NEW q \in Processes, PendingStep(q)
        PROVE  Keeps
    <2>1. CASE \E outcome \in Returned : Return(q, outcome)
      BY <1>1, <2>1
    <2>2. CASE AdoptVacantSubject(q)
      BY <1>0, <2>2 DEF AdoptVacantSubject, Goto, TypeOK
    <2>3. CASE JudgePending(q)
      <3>1. PICK e, d : /\ existing' = [existing EXCEPT ![q] = e]
                        /\ decision' = [decision EXCEPT ![q] = d]
                        /\ pc' = [pc EXCEPT ![q] = After(d)] /\ target' = target
        BY <2>3 DEF JudgePending, Goto
      <3>2. After(d) # "contest"
        BY DEF After
      <3> QED
        BY <1>0, <3>1, <3>2 DEF TypeOK
    <2> QED
      BY <1>4, <2>1, <2>2, <2>3
      DEF PendingStep, SkipPending, MergePending, RereadOldSnapshot, Returned
  <1>5. ASSUME NEW q \in Processes, CommitStep(q)
        PROVE  Keeps
    <2>1. CASE \E outcome \in Returned : Return(q, outcome)
      BY <1>1, <2>1
    <2>2. CASE Arbitrate(q)
      <3>1. PICK d, where : /\ decision' = [decision EXCEPT ![q] = d]
                            /\ pc' = [pc EXCEPT ![q] = where]
                            /\ UNCHANGED <<target, existing>>
        BY <2>2 DEF Arbitrate, Goto
      <3>2. q # p
        BY <2>2
      <3> QED
        BY <1>0, <3>1, <3>2 DEF TypeOK
    <2>3. CASE LoseFirst(q)
      BY <1>0, <2>3 DEF LoseFirst, Goto, TypeOK
    <2> QED
      BY <1>5, <2>1, <2>2, <2>3
      DEF CommitStep, PromoteFirst, CommitResolution, RaiseStale, CommitContested, Returned
  <1>6. ASSUME NEW q \in Processes, SerializationFailure(q) \/ Abort(q)
        PROVE  Keeps
    <2>1. CASE Return(q, "error")
      BY <1>1, <2>1 DEF Returned
    <2>2. CASE UNCHANGED <<pc, target, expected, existing, decision>>
      BY <2>2
    <2> QED
      BY <1>6, <2>1, <2>2 DEF SerializationFailure, Abort
  <1>7. TimePasses \/ (\E s \in LedgerStates : UpsertLedger(s)) \/ UNCHANGED vars => Keeps
    BY DEF TimePasses, UpsertLedger, vars, locals
  <1> HIDE DEF Keeps
  <1>8. Keeps
    BY <1>2, <1>3, <1>4, <1>5, <1>6, <1>7 DEF Next
  <1> QED
    BY <1>8 DEF Keeps

LEMMA HistoryNext == IInv /\ FateInv /\ HistoryInv /\ [Next]_vars => HistoryInv'
  <1> SUFFICES ASSUME IInv, FateInv, HistoryInv, [Next]_vars
               PROVE  HistoryInv'
    OBVIOUS
  <1>1. \A b \in Ingests : Explained(b)'
    BY HistoryOfCommit, HistoryOfEscalation, HistoryOfOthers, QuietHistory
  <1>2. ASSUME NEW p \in Processes
        PROVE  EscalatesPair(p)'
    <2>1. CASE Arbitrate(p)
      BY <2>1, ArbitrateEscalates DEF IInv
    <2>2. CASE ~Arbitrate(p)
      BY <2>2, KeepsEscalating DEF HistoryInv, EscalatesPair, DecidesPair
    <2> QED
      BY <2>1, <2>2
  <1> QED
    BY <1>1, <1>2 DEF HistoryInv

\* Whatever escalations and late decisions write about it besides, the newest row
\* of a belief that lost says to whom, and superseded_by says the same.
THEOREM LatestRowExplains == Spec => []LatestRowExplainsFate
  <1>1. Init => HistoryInv
    <2> SUFFICES ASSUME Init
                 PROVE  HistoryInv
      OBVIOUS
    <2>1. \A b \in Ingests : RowsOf(b) = {} /\ status[b] = "absent"
      BY DEF Init, RowsOf
    <2>2. \A p \in Processes : pc[p] # "contest"
      BY DEF Init
    <2> QED
      BY <2>1, <2>2 DEF HistoryInv, Explained, EscalatesPair
  <1>2. IInv /\ HistoryInv => LatestRowExplainsFate
    <2> SUFFICES ASSUME IInv, HistoryInv, NEW b \in Ingests,
                        status[b] = "superseded", RowsOf(b) # {}
                 PROVE  /\ resolutions[LatestRow(b)].loser = b
                        /\ resolutions[LatestRow(b)].winner = superseded_by[b]
      BY DEF LatestRowExplainsFate
    <2>1. PICK n \in RowsOf(b) :
            /\ \A m \in RowsOf(b) : m <= n
            /\ resolutions[n].loser = b /\ resolutions[n].winner = superseded_by[b]
      BY DEF HistoryInv, Explained
    <2>2. RowsOf(b) \subseteq Nat
      BY LenProperties DEF IInv, TypeOK, RowsOf
    <2>3. LatestRow(b) \in RowsOf(b) /\ \A m \in RowsOf(b) : m <= LatestRow(b)
      BY <2>1 DEF LatestRow
    <2>4. LatestRow(b) = n
      BY <2>1, <2>2, <2>3
    <2> QED
      BY <2>1, <2>4
  <1> QED
    BY <1>1, <1>2, HistoryNext, FateInvariance, PTL DEF Spec
=============================================================================
