------------------------------- MODULE Arbiter -------------------------------
(***************************************************************************)
(* One call of arbitrate(): the primary model, then the fallback, each     *)
(* asked until an answer validates or its retries are used up.             *)
(***************************************************************************)
EXTENDS ConflictRules

CONSTANTS
    MAX_RETRIES_PER_MODEL,
    Confidences,            \* confidences a model may answer with, in percent
    Unknown                 \* a winner or a verdict that is none of the tool's

ASSUME RetryAssumption == MAX_RETRIES_PER_MODEL \in Nat
ASSUME ConfidenceAssumption == Confidences \subseteq Int
ASSUME UnknownAssumption == Unknown \notin VALID_WINNERS \cup VALID_VERDICTS

Models == {"primary", "fallback"}

VARIABLES
    equal_authority,    \* whether the two claims' sources share a tier
    pc,                 \* "calling", "returned" or "raised"
    model, attempt,     \* the model being asked, and for which time
    total_attempts,     \* attempts of the models given up
    decision,           \* what arbitrate() returns, once it does
    calls,              \* history: requests sent to each model
    heard               \* history: the latest answer to one

vars == <<equal_authority, pc, model, attempt, total_attempts, decision, calls, heard>>

\* What a model may answer. One that does not call the tool, or leaves out a
\* field, or whose flag is no Boolean or reasoning blank, has no known winner.
Answers ==
    [winner : VALID_WINNERS \cup {Unknown}, verdict : VALID_VERDICTS \cup {Unknown},
     confidence : Confidences, needs_human : BOOLEAN]

NothingHeard ==
    [winner |-> Unknown, verdict |-> Unknown, confidence |-> 0, needs_human |-> FALSE]

\* Mutant: a confidence of 85 is taken for 0.85 of certainty and more.
validate_unbounded(raw) ==
    /\ raw.winner \in VALID_WINNERS /\ raw.verdict \in VALID_VERDICTS
    /\ raw.confidence >= 0

validate(raw) ==
    /\ raw.winner \in VALID_WINNERS /\ raw.verdict \in VALID_VERDICTS
    /\ raw.confidence \in 0..100

\* What arbitrate() returns: a decision, the model it is owed to, the attempts.
Result(d, m, n) == [outcome |-> d, model_id |-> m, attempts |-> n]

Init ==
    /\ equal_authority \in BOOLEAN
    /\ pc = "calling"
    /\ model = "primary" /\ attempt = 1 /\ total_attempts = 0
    /\ decision = Result(ArbitrationFailed, "fallback", 0)
    /\ calls = [m \in Models |-> 0]
    /\ heard = NothingHeard

\* A request is sent. Above what a model's retries allow, the history only
\* alternates between two counts, so that it stays finite and a request is
\* always a step.
Ask ==
    /\ pc = "calling"
    /\ calls' = [calls EXCEPT ![model] =
                    IF @ > MAX_RETRIES_PER_MODEL + 1 THEN @ - 1 ELSE @ + 1]

\* The answer to it.
Hear(raw) == heard' = raw

\* Mutant: a model may be asked once more than that.
OutOfRetries_late == attempt > MAX_RETRIES_PER_MODEL + 1

OutOfRetries == attempt > MAX_RETRIES_PER_MODEL

\* Mutant: an invalid answer does not use up an attempt.
NextAttempt_same == attempt

NextAttempt == attempt + 1

\* The answer validates.
AcceptAnswer(raw) ==
    /\ Ask /\ Hear(raw) /\ validate(raw)
    /\ total_attempts' = total_attempts + attempt
    /\ decision' = Result(Decide(raw, equal_authority), model, total_attempts')
    /\ pc' = "returned"
    /\ UNCHANGED <<equal_authority, model, attempt>>

\* No tool call, or missing or invalid fields: the same model is asked again.
RetryModel(raw) ==
    /\ Ask /\ Hear(raw) /\ ~validate(raw)
    /\ ~OutOfRetries
    /\ attempt' = NextAttempt
    /\ UNCHANGED <<equal_authority, pc, model, total_attempts, decision>>

\* Mutant: only the last attempt of the model given up is counted.
Spent_one == 1

Spent == MAX_RETRIES_PER_MODEL + 1

\* The model's last attempt is invalid too: on to the fallback.
FallBack(raw) ==
    /\ Ask /\ Hear(raw) /\ ~validate(raw)
    /\ OutOfRetries /\ model = "primary"
    /\ model' = "fallback" /\ attempt' = 1
    /\ total_attempts' = total_attempts + Spent
    /\ UNCHANGED <<equal_authority, pc, decision>>

\* Neither model has produced a valid answer: a human is asked.
GiveUp(raw) ==
    /\ Ask /\ Hear(raw) /\ ~validate(raw)
    /\ OutOfRetries /\ model = "fallback"
    /\ total_attempts' = total_attempts + Spent
    /\ decision' = Result(ArbitrationFailed, model, total_attempts')
    /\ pc' = "returned"
    /\ UNCHANGED <<equal_authority, model, attempt>>

\* A transport error outlasts botocore's own retries: no handler catches it.
TransportError ==
    /\ Ask
    /\ pc' = "raised"
    /\ UNCHANGED <<equal_authority, model, attempt, total_attempts, decision, heard>>

Next ==
    \/ \E raw \in Answers :
        AcceptAnswer(raw) \/ RetryModel(raw) \/ FallBack(raw) \/ GiveUp(raw)
    \/ TransportError

Spec == Init /\ [][Next]_vars /\ WF_vars(Next)

-----------------------------------------------------------------------------
\* The attempts reported with a decision are the requests really sent, over
\* both models: falling back neither loses nor counts twice a failed attempt.
AttemptsAreRequests ==
    pc = "returned" => decision.attempts = calls["primary"] + calls["fallback"]

\* The fallback model is asked only when the primary has had all its attempts,
\* and no model is asked more often than its retries allow.
FallbackIsLastResort ==
    /\ \A m \in Models : calls[m] <= MAX_RETRIES_PER_MODEL + 1
    /\ calls["fallback"] > 0 => calls["primary"] = MAX_RETRIES_PER_MODEL + 1

\* A human is left out exactly when the answer the decision rests on, the last one
\* heard, is in order, at least 60 and at most 100 percent sure and unflagged, and,
\* between equal tiers, a refinement: nothing is forced through, and nothing
\* confident is held up. What is then committed is what that answer says; and a
\* claim is named the winner, which an escalation records too, only where that
\* answer names it.
EscalateDontForce ==
    pc = "returned" =>
        LET d == decision.outcome
        IN  /\ ~d.needs_human <=>
                 /\ heard.winner # Unknown /\ heard.verdict # Unknown
                 /\ heard.confidence \in 60..100 /\ ~heard.needs_human
                 /\ equal_authority => heard.verdict = "refinement"
            /\ ~d.needs_human => d.winner = heard.winner /\ d.verdict = heard.verdict
            /\ d.winner \in {"A", "B"} => d.winner = heard.winner

\* A call of arbitrate() ends, whatever the models answer, provided they do.
ArbitrationEnds == <>(pc # "calling")
=============================================================================
