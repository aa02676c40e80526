--------------------------- MODULE MCConflictRules ---------------------------
(***************************************************************************)
(* Claims about one subject arrive one at a time; at every point all of    *)
(* them are compared with each other, at one instant, in both orders. Or   *)
(* a verifier is asked about two texts, with any record in its ledger. The *)
(* phrases are every keyword of the tables, and phrases of no table: the   *)
(* negation of a keyword, a word that happens to contain one, a statement  *)
(* in other words, a state without keywords, silence. Or two texts are     *)
(* given their subject keys.                                               *)
(***************************************************************************)
EXTENDS SubjectKey

Nothing == "nothing"

\* Phrases of no table, and the state a reader takes them to assert.
OtherPhrases ==
    [refund |-> {"was not completed", "not pending", "no longer pending",
                 "the money went through", "cancelled", Nothing},
     carrier |-> {"not ups", "groups", "ontrac", Nothing}]

MCPhrases ==
    [refund_status |->
        STATUS_KEYWORDS.processed \cup STATUS_KEYWORDS.pending
            \cup OtherPhrases.refund,
     shipping_carrier |->
        UNION {CARRIER_KEYWORDS[c] : c \in DOMAIN CARRIER_KEYWORDS}
            \cup OtherPhrases.carrier,
     shipping_address |-> {Nothing}]

AllPhrases == UNION {MCPhrases[a] : a \in DOMAIN MCPhrases}

MCContains ==
    [p \in AllPhrases |->
        {p} \cup
        CASE p \in {"not yet processed", "hasn't been processed",
                    "has not been processed"} -> {"processed"}
          [] p \in {"still pending", "not pending", "no longer pending"} ->
                {"pending"}
          [] p = "was not completed" -> {"completed"}
          [] p \in {"not ups", "groups"} -> {"ups"}
          [] OTHER -> {}]

MCAsserts ==
    [p \in AllPhrases |->
        CASE p \in STATUS_KEYWORDS.processed
                \cup {"not pending", "no longer pending", "the money went through"} ->
                "processed"
          [] p \in STATUS_KEYWORDS.pending \cup {"was not completed"} -> "pending"
          [] p \in {Nothing, "not ups", "groups"} -> Nothing
          [] OTHER -> p]

-----------------------------------------------------------------------------
CONSTANTS Tiers, Confidences, Observed, Now, MaxClaims

ASSUME ArrivalAssumption ==
    /\ Tiers \subseteq Int /\ Confidences \subseteq Int
    /\ Observed \subseteq Int /\ Now \in Int
    /\ MaxClaims \in Nat

VARIABLES claims, volatility, question, paraphrases

vars == <<claims, volatility, question, paraphrases>>

Candidates == [tier : Tiers, confidence : Confidences, observed_at : Observed]

NoQuestion == [attribute |-> "none", record |-> None, existing |-> None, new |-> None]

Init ==
    /\ claims = << >>
    /\ volatility \in {"stable", "volatile"}
    /\ question = NoQuestion
    /\ paraphrases = << >>

\* Keywords of two attributes or of none, and up to two mentions of anything or
\* three of orders and users.
Texts ==
    LET three == {m \in Mentions : m.type \in {"order", "user"}}
    IN  [about : {{}, {"refund_status", "user_email"}},
         mentions : {<< >>} \cup [1..1 -> Mentions] \cup [1..2 -> Mentions]
                        \cup [1..3 -> three]]

NothingAsked == claims = << >> /\ question = NoQuestion /\ paraphrases = << >>

Arrive(c) ==
    /\ Len(claims) < MaxClaims /\ question = NoQuestion /\ paraphrases = << >>
    /\ claims' = Append(claims, c)
    /\ UNCHANGED <<volatility, question, paraphrases>>

\* Volatility is nothing to a verifier or a key, one value stands for both.
Ask(attribute, rec, existing, new) ==
    /\ NothingAsked /\ volatility = "stable"
    /\ question' = [attribute |-> attribute, record |-> rec,
                    existing |-> existing, new |-> new]
    /\ UNCHANGED <<claims, volatility, paraphrases>>

Paraphrase ==
    /\ NothingAsked /\ volatility = "stable"
    /\ \E one, other \in Texts :
        one.about = other.about /\ paraphrases' = <<one, other>>
    /\ UNCHANGED <<claims, volatility, question>>

Next ==
    \/ \E c \in Candidates : Arrive(c)
    \/ \E a \in DOMAIN Phrases :
        \E rec \in Records(a), existing, new \in Phrases[a] :
            Ask(a, rec, existing, new)
    \/ Paraphrase

Spec == Init /\ [][Next]_vars

Verdict(i, j) == apply_rules(claims[i], claims[j], volatility, Now)

\* claims[i] beats claims[j] when one of them is stored and the other arrives.
Beats(i, j) ==
    Verdict(i, j) = "existing_wins" \/ Verdict(j, i) = "new_wins"

-----------------------------------------------------------------------------
\* Which of two claims is already stored and which one is new does not change
\* the winner (apply_rules judges claims, not their order of arrival): a claim
\* that loses by a rule would have lost had it come first.
ArrivalOrderIsIrrelevant ==
    \A i, j \in DOMAIN claims :
        (Verdict(i, j) = "new_wins") <=> (Verdict(j, i) = "existing_wins")

\* The rules never go round in a circle at one instant: of any claims there is
\* one that none of them beats. Rule 2 is no order (three claims a factor of
\* seven apart beat only their second neighbour) and rule 3 cuts across it, yet
\* mixing them never lets claims unseat one another forever.
RulesNeverCycle ==
    \A S \in (SUBSET DOMAIN claims) \ {{}} :
        \E i \in S : \A j \in S : ~Beats(j, i)

\* A claim of a lower tier never beats one of a higher tier, whatever their
\* ages, confidences and the claims between them (rule 1 comes first): no chain
\* of rule victories carries a subject to a less authoritative source.
NoChainLowersTheTier ==
    \A i, j, k \in DOMAIN claims :
        /\ Beats(i, j) => claims[i].tier >= claims[j].tier
        /\ Beats(i, j) /\ Beats(j, k) => claims[i].tier >= claims[k].tier

\* claims[i] beats claims[j], whichever of them is stored, where the system of
\* record is asked first: its row confirms the claims in `confirmed`.
BeatsWithLedger(i, j, confirmed) ==
    LET side(e, n) == ledger_winner(e \in confirmed, n \in confirmed)
    IN  \/ side(i, j) = "existing" \/ side(j, i) = "new"
        \/ side(i, j) = "undecided" /\ Verdict(i, j) = "existing_wins"
        \/ side(j, i) = "undecided" /\ Verdict(j, i) = "new_wins"

\* Nor do the ledger and the rules go round in a circle together, whichever
\* claims the row of that instant confirms: the ledger, which overrules tier,
\* recency and confidence for some pairs of claims and leaves the rest to them,
\* never closes a circle of claims that unseat one another forever.
LedgerNeverCycles ==
    \A confirmed \in SUBSET DOMAIN claims :
        \A S \in (SUBSET DOMAIN claims) \ {{}} :
            \E i \in S : \A j \in S : ~BeatsWithLedger(j, i, confirmed)

Answer ==
    verify_against_ledger(question.attribute, question.record,
                          question.existing, question.new)

\* The words of the tables for what the record says.
Keywords(attribute, record) ==
    CASE attribute = "refund_status" /\ record \in DOMAIN STATUS_KEYWORDS ->
            STATUS_KEYWORDS[record]
      [] attribute = "shipping_carrier" ->
            IF record \in DOMAIN CARRIER_KEYWORDS THEN CARRIER_KEYWORDS[record]
            ELSE {record}
      [] OTHER -> {}


\* A claim is filed under a thing it really names, and two texts that paraphrase
\* each other under the same one, where they are compared, unless one of them
\* hides an id behind a filler word (see ParaphrasesMeet in SubjectKey).
SameSubjectSameKey ==
    paraphrases # << >> => ParaphrasesMeet(paraphrases[1], paraphrases[2])
=============================================================================
