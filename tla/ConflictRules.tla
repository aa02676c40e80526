---------------------------- MODULE ConflictRules ----------------------------
(***************************************************************************)
(* The pure decisions of the pipeline: which similarity band a pair of     *)
(* claims falls in, which claim the deterministic rules prefer, which one  *)
(* a ledger row confirms, and when an arbiter's answer needs a human.      *)
(* Similarities and confidences are percentages, times are seconds.        *)
(***************************************************************************)
EXTENDS Integers

-----------------------------------------------------------------------------
(* Stage 1: similarity bands. *)

DUPLICATE_THRESHOLD   == 90
NO_CONFLICT_THRESHOLD == 40

classify_similarity(similarity) ==
    IF similarity > DUPLICATE_THRESHOLD THEN "duplicate"
    ELSE IF similarity < NO_CONFLICT_THRESHOLD THEN "no_conflict"
    ELSE "conflict"

-----------------------------------------------------------------------------
(* Stage 2: the deterministic rules, first match wins. *)

CONFIDENCE_FLOOR == 30
RECENCY_MULTIPLE == 10

RuleOutcomes == {"existing_wins", "new_wins", "needs_llm"}

\* A claim observed after `now` (clock skew) counts as observed now.
Age(claim, now) ==
    IF claim.observed_at > now THEN 0 ELSE now - claim.observed_at

\* The code's epsilon, a billionth of a second in place of a zero age, changes
\* nothing in whole seconds.
MuchFresher(a, b, volatility, now) ==
    /\ volatility = "volatile"
    /\ Age(b, now) > Age(a, now)
    /\ Age(b, now) > RECENCY_MULTIPLE * Age(a, now)

BelowFloor(claim) == claim.confidence < CONFIDENCE_FLOOR

\* Mutant: the more confident claim wins, with no floor at all.
ClearsFloorAlone_compare(a, b) == a.confidence > b.confidence

\* Mutant: nobody asks whether the other claim is below the floor too.
ClearsFloorAlone_unchecked(a, b) == BelowFloor(b)

ClearsFloorAlone(a, b) == ~BelowFloor(a) /\ BelowFloor(b)

\* Mutant: recency is tried before the authority tier.
apply_rules_recency_first(existing, new, volatility, now) ==
    CASE MuchFresher(existing, new, volatility, now) -> "existing_wins"
      [] MuchFresher(new, existing, volatility, now) -> "new_wins"
      [] OTHER ->
            CASE existing.tier > new.tier -> "existing_wins"
              [] new.tier > existing.tier -> "new_wins"
              [] OTHER -> "needs_llm"

apply_rules(existing, new, volatility, now) ==
    IF existing.tier # new.tier
    THEN IF existing.tier > new.tier THEN "existing_wins" ELSE "new_wins"
    ELSE IF MuchFresher(new, existing, volatility, now) THEN "new_wins"
    ELSE IF MuchFresher(existing, new, volatility, now) THEN "existing_wins"
    ELSE IF ClearsFloorAlone(new, existing) THEN "new_wins"
    ELSE IF ClearsFloorAlone(existing, new) THEN "existing_wins"
    ELSE "needs_llm"

-----------------------------------------------------------------------------
(* Ground truth: a ledger row decides only if it confirms one side alone.  *)

\* Mutant: where both claims match, the existing one stays.
ledger_winner_ties(existing_matches, new_matches) ==
    IF existing_matches THEN "existing"
    ELSE IF new_matches THEN "new"
    ELSE "undecided"

ledger_winner(existing_matches, new_matches) ==
    IF existing_matches /\ ~new_matches THEN "existing"
    ELSE IF new_matches /\ ~existing_matches THEN "new"
    ELSE "undecided"

-----------------------------------------------------------------------------
(* Stage 3: what the arbiter makes of a model's validated answer.          *)

CONFIDENCE_ESCALATION_THRESHOLD == 60

VALID_WINNERS  == {"A", "B", "neither"}
VALID_VERDICTS == {"contradiction", "refinement", "temporal_shift", "both_valid"}

\* Mutant: equal authority escalates nothing.
needs_human_any_authority(raw, equal_authority) ==
    raw.needs_human \/ raw.confidence < CONFIDENCE_ESCALATION_THRESHOLD

needs_human(raw, equal_authority) ==
    LET model_confident == raw.confidence >= CONFIDENCE_ESCALATION_THRESHOLD
        is_autonomous_refinement ==
            raw.verdict = "refinement" /\ model_confident /\ ~raw.needs_human
    IN  \/ raw.needs_human
        \/ ~model_confident
        \/ equal_authority /\ ~is_autonomous_refinement

\* The decision of a validated answer: A is the existing claim, B the new one.
Decide(raw, equal_authority) ==
    [winner      |-> raw.winner,
     verdict     |-> raw.verdict,
     needs_human |-> needs_human(raw, equal_authority)]

\* The decision when neither model produced a valid answer.
ArbitrationFailed ==
    [winner |-> "neither", verdict |-> "contradiction", needs_human |-> TRUE]

\* Every decision arbitrate() can return when models use these verdicts and
\* confidences.
ArbiterDecisions(verdicts, confidences, equal_authority) ==
    {ArbitrationFailed} \cup
    {Decide(raw, equal_authority) :
        raw \in [winner : VALID_WINNERS, verdict : verdicts,
                 confidence : confidences, needs_human : BOOLEAN]}
=============================================================================
