-------------------------- MODULE MCResolutionWorker --------------------------
(***************************************************************************)
(* A small instance of ResolutionWorker.                                   *)
(***************************************************************************)
EXTENDS ResolutionWorker, TLC

CONSTANTS i1, i2, w1, o1, o2

\* A claim, its contradiction and an unrelated one.
MCTexts == {"processed", "pending", "shipped"}

MCSimilarity ==
    [pair \in MCTexts \X MCTexts |->
        IF pair[1] = pair[2] THEN 100
        ELSE IF pair \in {<<"processed", "shipped">>, <<"shipped", "processed">>}
        THEN 39 ELSE 90]

C(t, tier) == [text |-> t, tier |-> tier, confidence |-> 85]

MCClaims == {C("processed", 2), C("pending", 3), C("shipped", 2)}

NoConfirms == [t \in MCTexts |-> {}]

\* Of the candidates of other subjects one is older than both calls' beliefs,
\* one observed between them.
MCObservedFirst == (o1 :> 1) @@ (i1 :> 2) @@ (o2 :> 3) @@ (i2 :> 4)
===============================================================================
