-------------------------------- MODULE MCJobs --------------------------------
(***************************************************************************)
(* A small instance of the two jobs, consolidation and decay.              *)
(***************************************************************************)
EXTENDS Decay, TLC

CONSTANTS i1, i2, i3, w1

\* Two paraphrases, one longer than the other, and a contradiction of both.
MCTexts == {"processed", "refunded", "pending"}

MCSimilarity ==
    [pair \in MCTexts \X MCTexts |->
        IF pair[1] = pair[2] THEN 100
        ELSE IF "pending" \in {pair[1], pair[2]} THEN 90 ELSE 91]

MCTextLength == [t \in MCTexts |-> IF t = "refunded" THEN 2 ELSE 1]

C(t, tier) == [text |-> t, tier |-> tier, confidence |-> 85]

MCClaims == {C("processed", 2), C("refunded", 3), C("pending", 2)}

NoConfirms == [t \in MCTexts |-> {}]

Symmetry == Permutations(Ingests)
=============================================================================
