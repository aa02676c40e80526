---------------------------- MODULE LedgerKeywords ----------------------------
(***************************************************************************)
(* The verifiers: which claim the row of a system of record confirms, as   *)
(* told by the keywords of the claims' texts.  Keywords are searched as    *)
(* substrings, so a text that says "has not been processed" also says      *)
(* "processed".  A text is represented by the one telling phrase in it.    *)
(***************************************************************************)
EXTENDS ConflictRules

CONSTANTS
    None,               \* no row
    Phrases,            \* what the text of a claim may say, by attribute
    Contains,           \* the phrases that are substrings of each phrase
    Asserts             \* what a reader takes each phrase to say

ASSUME PhraseAssumption ==
    \A p \in UNION {Phrases[a] : a \in DOMAIN Phrases} : p \in Contains[p]

STATUS_KEYWORDS ==
    [processed |-> {"processed", "completed", "was refunded", "refund issued",
                    "refunded successfully"},
     pending   |-> {"pending", "still pending", "not yet processed", "awaiting",
                    "in progress", "hasn't been processed",
                    "has not been processed"}]

CARRIER_KEYWORDS ==
    [fedex |-> {"fedex"}, ups |-> {"ups"}, usps |-> {"usps"}, dhl |-> {"dhl"}]


\* A refund status without keywords matches nothing.
matches_status(phrase, refund_status) ==
    /\ refund_status \in DOMAIN STATUS_KEYWORDS
    /\ Contains[phrase] \cap STATUS_KEYWORDS[refund_status] # {}

\* A carrier without keywords is searched for by its own name.
matches_carrier(phrase, carrier) ==
    IF carrier \in DOMAIN CARRIER_KEYWORDS
    THEN Contains[phrase] \cap CARRIER_KEYWORDS[carrier] # {}
    ELSE carrier \in Contains[phrase]

RefundStatuses == {"processed", "pending", "cancelled"}

Carriers == DOMAIN CARRIER_KEYWORDS \cup {"ontrac"}

\* What a system of record may hold about an order, by attribute.
Records(attribute) ==
    {None} \cup
    CASE attribute = "refund_status"    -> RefundStatuses
      [] attribute = "shipping_carrier" -> Carriers
      [] OTHER                          -> {}

verify_refund_status(record, existing, new) ==
    IF record = None THEN "undecided"
    ELSE ledger_winner(matches_status(existing, record),
                       matches_status(new, record))

verify_shipping_carrier(record, existing, new) ==
    IF record = None THEN "undecided"
    ELSE ledger_winner(matches_carrier(existing, record),
                       matches_carrier(new, record))

\* The registry: an attribute that has no verifier is not decided here.
verify_against_ledger(attribute, record, existing, new) ==
    CASE attribute = "refund_status" ->
            verify_refund_status(record, existing, new)
      [] attribute = "shipping_carrier" ->
            verify_shipping_carrier(record, existing, new)
      [] OTHER -> "undecided"
=============================================================================
