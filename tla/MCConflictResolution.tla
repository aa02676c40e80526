------------------------- MODULE MCConflictResolution -------------------------
(***************************************************************************)
(* Small instances of ConflictResolution.                                  *)
(***************************************************************************)
EXTENDS DocumentedClaims, TLC

CONSTANTS i1, i2, i3, w1, w2

\* Two paraphrases of one statement, one that contradicts both, and one about
\* something else that nevertheless shares wording with the contradiction:
\* similarity is not transitive.
MCTexts == {"processed", "refunded", "pending", "shipped"}

Alike == {{"processed", "refunded"}}
Unlike == {{"processed", "shipped"}, {"refunded", "shipped"}}

MCSimilarity ==
    [pair \in MCTexts \X MCTexts |->
        IF pair[1] = pair[2] THEN 100
        ELSE IF {pair[1], pair[2]} \in Alike THEN 91
        ELSE IF {pair[1], pair[2]} \in Unlike THEN 39
        ELSE 90]

MCLedgerStates == {"processed"}

MCConfirms ==
    [t \in MCTexts |-> IF t \in {"processed", "refunded"} THEN {"processed"} ELSE {}]

C(t, tier, confidence) == [text |-> t, tier |-> tier, confidence |-> confidence]

\* Equal and unequal tiers, agreeing, contradicting and unrelated texts, and a
\* claim below the confidence floor.
MCClaims ==
    {C("processed", 2, 85), C("refunded", 3, 85), C("pending", 2, 85),
     C("pending", 3, 20), C("shipped", 2, 85)}

\* For three calls and a worker: a claim everyone contradicts, in two tiers.
RaceClaims == {C("processed", 2, 85), C("pending", 2, 85), C("pending", 3, 85)}

NoConfirms == [t \in MCTexts |-> {}]

Symmetry == Permutations(Ingests) \cup Permutations(Workers)
=============================================================================
