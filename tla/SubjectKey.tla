------------------------------ MODULE SubjectKey ------------------------------
(***************************************************************************)
(* Which subject a claim is about, as told by the keywords in its text and *)
(* by the words after "order", "user", "sku" and "ticket".  Two claims are *)
(* compared with each other only when they get the same key.  A text is    *)
(* the attributes whose keywords it contains, and its mentions of things   *)
(* in the order they come in it.                                           *)
(***************************************************************************)
EXTENDS LedgerKeywords, Sequences

Seqs == INSTANCE SequencesExt

CONSTANTS
    Identifiers,        \* ids as people write them, with a digit
    FillerWords         \* words without a digit that follow a type: "User with"

ASSUME WordAssumption == Identifiers \cap FillerWords = {}

\* Both tables in the order of the domain's file, which is the order of search.
ATTRIBUTE_KEYWORDS ==
    <<"shipping_carrier", "shipping_address", "refund_status",
      "subscription_status", "user_email", "stock_status", "tracking_number",
      "payment_status", "delivery_date", "order_status">>

ENTITY_PATTERNS == <<"order", "user", "sku", "ticket">>

Mentions == [type : {"order", "user", "sku", "ticket"},
             word : Identifiers \cup FillerWords]

\* The place where each pattern's search ends: the type's first mention, or 0.
FirstMention(text, type) ==
    Seqs!SelectInSeq(text.mentions, LAMBDA m : m.type = type)

\* Mutant: any word will do for an id.
LooksLikeId_any(word) == TRUE

\* At least one digit.
LooksLikeId(word) == word \in Identifiers

Identified(text, type) ==
    LET n == FirstMention(text, type)
    IN  n # 0 /\ LooksLikeId(text.mentions[n].word)

\* None leaves the claim to the language model.
assign_subject_key_heuristic(text) ==
    LET a == Seqs!SelectInSeq(ATTRIBUTE_KEYWORDS, LAMBDA name : name \in text.about)
        t == Seqs!SelectInSeq(ENTITY_PATTERNS, LAMBDA type : Identified(text, type))
    IN  IF a = 0 \/ t = 0 THEN None
        ELSE [attribute |-> ATTRIBUTE_KEYWORDS[a],
              entity |-> text.mentions[FirstMention(text, ENTITY_PATTERNS[t])]]

\* What a reader takes a text to be about: the things it really identifies.
Things(text) ==
    {m \in {text.mentions[n] : n \in DOMAIN text.mentions} : m.word \in Identifiers}

OneEach(text) == \A m, n \in Things(text) : m.type = n.type => m = n

\* The first word after a type's name is no id, and hides the id that comes
\* after a later one: the code looks at the pattern's first match only.
HidesAnId(text) ==
    \E thing \in Things(text) : ~Identified(text, thing.type)

-----------------------------------------------------------------------------
\* The key of a text names a thing the text really identifies, never a filler
\* word. And two texts that say the same about the same things, one of each type,
\* in whatever order, and get different keys, do so for one reason: one of them
\* hides an id. (With two things of one type the order decides: "order-1 and
\* order-2" and "order-2 and order-1" are filed apart.)
ParaphrasesMeet(one, other) ==
    LET key(text) == assign_subject_key_heuristic(text)
    IN  /\ \A text \in {one, other} :
            key(text) # None => key(text).entity \in Things(text)
        /\ /\ one.about = other.about
           /\ Things(one) = Things(other) /\ OneEach(one)
           /\ key(one) # key(other)
           => HidesAnId(one) \/ HidesAnId(other)
===============================================================================
