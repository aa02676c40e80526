---------------------------- MODULE ArbiterProofs ----------------------------
(***************************************************************************)
(* Theorems about one call of arbitrate(), for any number of retries and   *)
(* any confidences the models answer with.                                 *)
(***************************************************************************)
EXTENDS Arbiter, TLAPS

\* While a call runs, the requests sent are the attempts of the model given up
\* and those that precede the one in flight.
Running ==
    pc = "calling" =>
        /\ calls[model] = attempt - 1
        /\ model = "primary" => calls["fallback"] = 0 /\ total_attempts = 0
        /\ model = "fallback" =>
            /\ calls["primary"] = MAX_RETRIES_PER_MODEL + 1
            /\ total_attempts = MAX_RETRIES_PER_MODEL + 1

ArbiterType ==
    /\ equal_authority \in BOOLEAN
    /\ model \in Models
    /\ attempt \in 1..(MAX_RETRIES_PER_MODEL + 1)
    /\ total_attempts \in Nat
    /\ calls \in [Models -> Nat]

\* What ConflictResolution lets an arbitration decide.
ReckonedWith ==
    pc = "returned" =>
        decision.outcome \in ArbiterDecisions(VALID_VERDICTS, 0..100, equal_authority)

\* The inductive invariant.
AInv ==
    /\ ArbiterType /\ Running
    /\ AttemptsAreRequests /\ FallbackIsLastResort /\ EscalateDontForce
    /\ ReckonedWith

\* What arbitrate() makes of a valid answer.
LEMMA DecisionOfAnswer ==
    ASSUME NEW raw \in Answers, validate(raw), NEW equal \in BOOLEAN
    PROVE  LET d == Decide(raw, equal)
           IN  /\ d \in ArbiterDecisions(VALID_VERDICTS, 0..100, equal)
               /\ raw.winner # Unknown /\ raw.verdict # Unknown
               /\ d.winner = raw.winner /\ d.verdict = raw.verdict
               /\ ~d.needs_human <=>
                    /\ raw.confidence \in 60..100 /\ ~raw.needs_human
                    /\ equal => raw.verdict = "refinement"
  <1>1. /\ raw.winner \in VALID_WINNERS
        /\ raw.verdict \in VALID_VERDICTS /\ raw.confidence \in 0..100
        /\ raw.needs_human \in BOOLEAN
    BY DEF validate, Answers
  <1>2. Decide(raw, equal) \in ArbiterDecisions(VALID_VERDICTS, 0..100, equal)
    <2> DEFINE valid == [winner |-> raw.winner, verdict |-> raw.verdict,
                         confidence |-> raw.confidence, needs_human |-> raw.needs_human]
    <2>1. valid \in [winner : VALID_WINNERS, verdict : VALID_VERDICTS,
                     confidence : 0..100, needs_human : BOOLEAN]
      BY <1>1
    <2>2. Decide(raw, equal) = Decide(valid, equal)
      BY DEF Decide, needs_human
    <2> HIDE DEF valid
    <2> QED
      BY <2>1, <2>2 DEF ArbiterDecisions
  <1>3. ~needs_human(raw, equal) <=>
            /\ raw.confidence >= 60 /\ ~raw.needs_human
            /\ equal => raw.verdict = "refinement"
    BY <1>1 DEF needs_human, CONFIDENCE_ESCALATION_THRESHOLD
  <1> QED
    BY <1>1, <1>2, <1>3, UnknownAssumption DEF Decide

\* A request is one more of the model's, as long as it is within its retries.
LEMMA AskCounts ==
    ASSUME AInv, Ask
    PROVE  /\ pc = "calling" /\ calls[model] = attempt - 1
           /\ calls' = [calls EXCEPT ![model] = attempt]
           /\ attempt \in 1..(MAX_RETRIES_PER_MODEL + 1)
  <1>1. /\ pc = "calling" /\ calls[model] = attempt - 1
        /\ attempt \in 1..(MAX_RETRIES_PER_MODEL + 1)
    BY DEF AInv, ArbiterType, Running, Ask
  <1>2. ~(calls[model] > MAX_RETRIES_PER_MODEL + 1) /\ calls[model] + 1 = attempt
    BY <1>1, RetryAssumption
  <1> QED
    BY <1>1, <1>2 DEF Ask

LEMMA AInvInit == Init => AInv
  BY RetryAssumption
  DEF Init, AInv, ArbiterType, Running, Models, AttemptsAreRequests,
      FallbackIsLastResort, EscalateDontForce, ReckonedWith

LEMMA AInvNext == AInv /\ [Next]_vars => AInv'
  <1> SUFFICES ASSUME AInv, [Next]_vars
               PROVE  AInv'
    OBVIOUS
  <1> USE RetryAssumption
  <1>1. ASSUME NEW raw \in Answers, AcceptAnswer(raw)
        PROVE  AInv'
    <2> DEFINE d == Decide(raw, equal_authority)
    <2>1. /\ calls' = [calls EXCEPT ![model] = attempt] /\ pc = "calling"
          /\ pc' = "returned" /\ total_attempts' = total_attempts + attempt
          /\ decision' = Result(d, model, total_attempts')
          /\ heard' = raw /\ validate(raw)
          /\ UNCHANGED <<equal_authority, model, attempt>>
      BY <1>1, AskCounts DEF AcceptAnswer, Hear
    <2>2. equal_authority \in BOOLEAN
      BY DEF AInv, ArbiterType
    <2> HIDE DEF d
    <2>3. EscalateDontForce' /\ ReckonedWith'
      <3>1. decision'.outcome = d /\ heard' = raw /\ equal_authority' = equal_authority
        BY <2>1 DEF Result
      <3> QED
        BY <2>1, <2>2, <3>1, DecisionOfAnswer DEF EscalateDontForce, ReckonedWith, d
    <2>4. ArbiterType' /\ Running'
      BY <2>1 DEF AInv, ArbiterType, Running, Models
    <2>5. AttemptsAreRequests' /\ FallbackIsLastResort'
      BY <2>1 DEF AInv, ArbiterType, Running, Models, AttemptsAreRequests,
                  FallbackIsLastResort, Result
    <2> QED
      BY <2>3, <2>4, <2>5 DEF AInv
  <1>2. ASSUME NEW raw \in Answers, RetryModel(raw)
        PROVE  AInv'
    <2>1. /\ calls' = [calls EXCEPT ![model] = attempt] /\ pc = "calling"
          /\ ~OutOfRetries /\ attempt' = attempt + 1
          /\ UNCHANGED <<equal_authority, pc, model, total_attempts, decision>>
      BY <1>2, AskCounts DEF RetryModel, NextAttempt
    <2> QED
      BY <2>1
      DEF AInv, ArbiterType, Running, Models, OutOfRetries, AttemptsAreRequests,
          FallbackIsLastResort, EscalateDontForce, ReckonedWith
  <1>3. ASSUME NEW raw \in Answers, FallBack(raw)
        PROVE  AInv'
    <2>1. /\ calls' = [calls EXCEPT ![model] = attempt] /\ pc = "calling"
          /\ OutOfRetries /\ model = "primary" /\ model' = "fallback"
          /\ attempt' = 1
          /\ total_attempts' = total_attempts + MAX_RETRIES_PER_MODEL + 1
          /\ UNCHANGED <<equal_authority, pc, decision>>
      BY <1>3, AskCounts DEF FallBack, Spent, AInv, ArbiterType
    <2> QED
      BY <2>1
      DEF AInv, ArbiterType, Running, Models, OutOfRetries, AttemptsAreRequests,
          FallbackIsLastResort, EscalateDontForce, ReckonedWith
  <1>4. ASSUME NEW raw \in Answers, GiveUp(raw)
        PROVE  AInv'
    <2>1. /\ calls' = [calls EXCEPT ![model] = attempt] /\ pc = "calling"
          /\ OutOfRetries /\ model = "fallback" /\ pc' = "returned"
          /\ total_attempts' = total_attempts + MAX_RETRIES_PER_MODEL + 1
          /\ decision' = Result(ArbitrationFailed, model, total_attempts')
          /\ heard' = raw /\ ~validate(raw)
          /\ UNCHANGED <<equal_authority, model, attempt>>
      BY <1>4, AskCounts DEF GiveUp, Hear, Spent, AInv, ArbiterType
    <2>2. EscalateDontForce' /\ ReckonedWith'
      <3>1. decision'.outcome = ArbitrationFailed
        BY <2>1 DEF Result
      <3>2. ~(/\ raw.winner # Unknown /\ raw.verdict # Unknown
              /\ raw.confidence \in 60..100)
        BY <2>1 DEF validate, Answers
      <3> QED
        BY <2>1, <3>1, <3>2
        DEF EscalateDontForce, ReckonedWith, ArbiterDecisions, ArbitrationFailed
    <2> QED
      BY <2>1, <2>2
      DEF AInv, ArbiterType, Running, Models, OutOfRetries, AttemptsAreRequests,
          FallbackIsLastResort, Result
  <1>5. CASE TransportError
    <2>1. /\ calls' = [calls EXCEPT ![model] = attempt] /\ pc = "calling"
          /\ pc' = "raised"
          /\ UNCHANGED <<equal_authority, model, attempt, total_attempts, decision>>
      BY <1>5, AskCounts DEF TransportError
    <2> QED
      BY <2>1
      DEF AInv, ArbiterType, Running, Models, AttemptsAreRequests,
          FallbackIsLastResort, EscalateDontForce, ReckonedWith
  <1>6. CASE UNCHANGED vars
    BY <1>6
    DEF vars, AInv, ArbiterType, Running, AttemptsAreRequests,
        FallbackIsLastResort, EscalateDontForce, ReckonedWith
  <1> QED
    BY <1>1, <1>2, <1>3, <1>4, <1>5, <1>6 DEF Next

LEMMA ArbiterInvariance == Spec => []AInv
  BY AInvInit, AInvNext, PTL DEF Spec

\* However many retries a model is granted, the attempts arbitrate() reports,
\* which go into the audit trail, are the requests it sent to both models.
THEOREM AttemptsCounted == Spec => []AttemptsAreRequests
  <1>1. AInv => AttemptsAreRequests
    BY DEF AInv
  <1> QED
    BY <1>1, ArbiterInvariance, PTL

\* The fallback is asked only after the primary's last attempt has failed, and
\* neither model more often than its retries allow.
THEOREM FallbackLast == Spec => []FallbackIsLastResort
  <1>1. AInv => FallbackIsLastResort
    BY DEF AInv
  <1> QED
    BY <1>1, ArbiterInvariance, PTL

\* Whatever the models answer, in order or not, in whatever sequence: arbitrate()
\* leaves the human out exactly for an answer in order that is confident and
\* unflagged and, between equal tiers, a refinement; and commits what it says.
THEOREM EqualsEscalate == Spec => []EscalateDontForce
  <1>1. AInv => EscalateDontForce
    BY DEF AInv
  <1> QED
    BY <1>1, ArbiterInvariance, PTL

\* And every decision that comes back is one that an arbitration of
\* ConflictResolution may take.
THEOREM DecisionsReckonedWith == Spec => []ReckonedWith
  <1>1. AInv => ReckonedWith
    BY DEF AInv
  <1> QED
    BY <1>1, ArbiterInvariance, PTL
=============================================================================
