------------------------- MODULE ConflictRulesProofs -------------------------
(***************************************************************************)
(* Theorems about the deterministic rules, for any claims, however many,   *)
(* with any tiers, confidences and times of observation, and about the     *)
(* heuristic for subject keys, for texts of any length.                    *)
(***************************************************************************)
EXTENDS MCConflictRules, FiniteSetTheorems, SequenceTheorems,
        WellFoundedInduction, TLAPS

\* The existing claim a wins against the new claim b.
Prefers(a, b) == apply_rules(a, b, volatility, Now) = "existing_wins"

\* Rule 2 goes before rule 3, and neither contradicts itself.
Stronger(a, b) ==
    \/ MuchFresher(a, b, volatility, Now)
    \/ ~MuchFresher(b, a, volatility, Now) /\ ClearsFloorAlone(a, b)

ClaimsTyped == claims \in Seq(Candidates)

-----------------------------------------------------------------------------
LEMMA ClaimType ==
    ASSUME NEW a \in Candidates
    PROVE  a.tier \in Int /\ Age(a, Now) \in Nat
  <1>1. a.tier \in Int /\ a.observed_at \in Int /\ Now \in Int
    BY ArrivalAssumption DEF Candidates
  <1>2. Age(a, Now) \in Nat
    <2>1. CASE a.observed_at > Now
      BY <2>1 DEF Age
    <2>2. CASE ~(a.observed_at > Now)
      <3>1. Now - a.observed_at \in Nat
        BY <1>1, <2>2
      <3> QED
        BY <2>2, <3>1 DEF Age
    <2> QED
      BY <2>1, <2>2
  <1> QED
    BY <1>1, <1>2

\* Recency prefers at most one of two claims, a zero age included.
LEMMA RecencyIsOneSided ==
    ASSUME NEW a \in Candidates, NEW b \in Candidates
    PROVE  ~(MuchFresher(a, b, volatility, Now) /\ MuchFresher(b, a, volatility, Now))
  BY ClaimType DEF MuchFresher, RECENCY_MULTIPLE

\* The cascade of apply_rules in one formula, for the existing claim to win and
\* for the new one.
LEMMA RulesSpelledOut ==
    ASSUME NEW a \in Candidates, NEW b \in Candidates
    PROVE  /\ Prefers(a, b) <=>
                a.tier > b.tier \/ (a.tier = b.tier /\ Stronger(a, b))
           /\ apply_rules(a, b, volatility, Now) = "new_wins" <=>
                b.tier > a.tier \/ (a.tier = b.tier /\ Stronger(b, a))
  <1>1. a.tier \in Int /\ b.tier \in Int
    BY ClaimType
  <1>2. ~(ClearsFloorAlone(a, b) /\ ClearsFloorAlone(b, a))
    BY DEF ClearsFloorAlone
  <1> QED
    BY <1>1, <1>2, RecencyIsOneSided DEF Prefers, Stronger, apply_rules

\* The winner does not depend on which of two claims is stored and which is new.
LEMMA RulesAreSymmetric ==
    ASSUME NEW a \in Candidates, NEW b \in Candidates
    PROVE  apply_rules(a, b, volatility, Now) = "new_wins" <=> Prefers(b, a)
  BY RulesSpelledOut

\* What rules 2 and 3 add up to: a claim that is stronger weighs less. The age
\* of a claim below the floor counts ten times, so that the factor of ten rule 2
\* asks for makes up for the floor that rule 3 lets it ignore.
Weight(a) ==
    IF volatility = "volatile"
    THEN IF BelowFloor(a) THEN 20 * Age(a, Now) + 1 ELSE 2 * Age(a, Now)
    ELSE IF BelowFloor(a) THEN 1 ELSE 0

LEMMA StrongerWeighsLess ==
    ASSUME NEW a \in Candidates, NEW b \in Candidates
    PROVE  Weight(a) \in Nat /\ (Stronger(a, b) => Weight(a) < Weight(b))
  <1>1. Age(a, Now) \in Nat /\ Age(b, Now) \in Nat
    BY ClaimType
  <1> QED
    BY <1>1 DEF Weight, Stronger, MuchFresher, ClearsFloorAlone, RECENCY_MULTIPLE

\* By tier, then by weight: an order in which a preferred claim comes first.
AtLeast(a, b) ==
    a.tier > b.tier \/ (a.tier = b.tier /\ Weight(a) <= Weight(b))

LEMMA PreferredComesFirst ==
    ASSUME NEW a \in Candidates, NEW b \in Candidates
    PROVE  /\ AtLeast(a, b) \/ AtLeast(b, a)
           /\ \A c \in Candidates : AtLeast(a, b) /\ AtLeast(b, c) => AtLeast(a, c)
           /\ Prefers(a, b) => ~AtLeast(b, a) /\ a.tier >= b.tier
  <1>1. \A c \in Candidates : c.tier \in Int /\ Weight(c) \in Nat
    BY ClaimType, StrongerWeighsLess
  <1>2. Stronger(a, b) => Weight(a) < Weight(b)
    BY StrongerWeighsLess
  <1> QED
    BY <1>1, <1>2, RulesSpelledOut DEF AtLeast

\* A set of numbers that is not empty has a least one.
LEMMA LeastNumber ==
    ASSUME NEW S \in SUBSET Nat, S # {}
    PROVE  \E n \in S : \A m \in S : n <= m
  <1>1. \E R : IsWellFoundedOn(R, Nat) /\ \A m, n \in Nat : m < n => <<m, n>> \in R
    <2>1. IsWellFoundedOn(OpToRel(<, Nat), Nat)
      BY NatLessThanWellFounded
    <2>2. \A m, n \in Nat : m < n => <<m, n>> \in OpToRel(<, Nat)
      BY DEF OpToRel
    <2> QED
      BY <2>1, <2>2
  <1>2. PICK R : IsWellFoundedOn(R, Nat) /\ \A m, n \in Nat : m < n => <<m, n>> \in R
    BY <1>1
  <1>3. PICK n \in S : \A m \in S : ~(<<m, n>> \in R)
    <2>1. IsWellFoundedOn(R, Nat) /\ S \subseteq Nat
      BY <1>2
    <2> QED
      BY <2>1, WFMin
  <1>4. ASSUME NEW m \in S PROVE n <= m
    <2>1. m \in Nat /\ n \in Nat /\ ~(m < n)
      BY <1>2, <1>3
    <2> QED
      BY <2>1
  <1> QED
    BY <1>4

-----------------------------------------------------------------------------
LEMMA TypingOfClaims == Spec => []ClaimsTyped
  <1>1. Init => ClaimsTyped
    BY DEF Init, ClaimsTyped
  <1>2. ClaimsTyped /\ [Next]_vars => ClaimsTyped'
    <2> SUFFICES ASSUME ClaimsTyped, [Next]_vars
                 PROVE  ClaimsTyped'
      OBVIOUS
    <2>1. ASSUME NEW c \in Candidates, Arrive(c)
          PROVE  ClaimsTyped'
      BY <2>1 DEF Arrive, ClaimsTyped
    <2>2. ASSUME UNCHANGED claims
          PROVE  ClaimsTyped'
      BY <2>2 DEF ClaimsTyped
    <2> QED
      BY <2>1, <2>2 DEF Next, Ask, Paraphrase, vars
  <1> QED
    BY <1>1, <1>2, PTL DEF Spec

\* A claim beats another exactly when it is preferred to it as the existing one.
LEMMA BeatsIsPrefers ==
    ASSUME ClaimsTyped, NEW i \in DOMAIN claims, NEW j \in DOMAIN claims
    PROVE  /\ claims[i] \in Candidates /\ claims[j] \in Candidates
           /\ Beats(i, j) <=> Prefers(claims[i], claims[j])
  <1>1. claims[i] \in Candidates /\ claims[j] \in Candidates
    BY DEF ClaimsTyped
  <1> QED
    BY <1>1, RulesAreSymmetric DEF Beats, Verdict, Prefers

\* However many claims arrive, a claim that loses to another by a rule would
\* have lost had it come first.
THEOREM OrderIrrelevant == Spec => []ArrivalOrderIsIrrelevant
  <1>1. ClaimsTyped => ArrivalOrderIsIrrelevant
    <2> SUFFICES ASSUME ClaimsTyped, NEW i \in DOMAIN claims, NEW j \in DOMAIN claims
                 PROVE  Verdict(i, j) = "new_wins" <=> Verdict(j, i) = "existing_wins"
      BY DEF ArrivalOrderIsIrrelevant
    <2>1. claims[i] \in Candidates /\ claims[j] \in Candidates
      BY BeatsIsPrefers
    <2> QED
      BY <2>1, RulesAreSymmetric DEF Verdict, Prefers
  <1> QED
    BY <1>1, TypingOfClaims, PTL

\* Of finitely many claims one is at least as good as every other.
LEMMA BestOfClaims ==
    ASSUME ClaimsTyped, NEW S \in SUBSET DOMAIN claims, S # {}, IsFiniteSet(S)
    PROVE  \E i \in S : \A j \in S : AtLeast(claims[i], claims[j])
  <1> DEFINE Best(U) == \E i \in U : \A j \in U : AtLeast(claims[i], claims[j])
             Sets == {U \in SUBSET DOMAIN claims : U # {} /\ IsFiniteSet(U) /\ ~Best(U)}
             Sizes == {Cardinality(U) : U \in Sets}
  <1>1. ASSUME Sets # {} PROVE FALSE
    <2>1. Sizes \in SUBSET Nat /\ Sizes # {}
      BY <1>1, FS_CardinalityType
    <2>2. PICK n \in Sizes : \A m \in Sizes : n <= m
      BY <2>1, LeastNumber
    <2>3. PICK U \in Sets : Cardinality(U) = n
      BY <2>2
    <2>4. PICK x \in U : TRUE
      BY <2>3
    <2>5. IsFiniteSet(U \ {x}) /\ Cardinality(U \ {x}) = n - 1 /\ n \in Nat
      BY <2>1, <2>3, <2>4, FS_RemoveElement
    <2>6. U \ {x} \notin Sets
      <3>1. ~(n <= n - 1)
        BY <2>5
      <3>2. U \ {x} \in Sets => n - 1 \in Sizes
        BY <2>5
      <3> HIDE DEF Sets, Sizes
      <3> QED
        BY <2>2, <3>1, <3>2
    <2>7. AtLeast(claims[x], claims[x]) /\ claims[x] \in Candidates
      <3>1. claims[x] \in Candidates
        BY <2>3, <2>4 DEF ClaimsTyped
      <3> QED
        BY <3>1, PreferredComesFirst
    <2>8. CASE U \ {x} = {}
      <3>1. \A j \in U : j = x
        BY <2>8
      <3> QED
        BY <2>3, <2>4, <2>7, <3>1
    <2>9. CASE U \ {x} # {}
      <3>1. PICK i \in U \ {x} : \A j \in U \ {x} : AtLeast(claims[i], claims[j])
        BY <2>3, <2>5, <2>6, <2>9
      <3>2. \A j \in U : claims[j] \in Candidates
        BY <2>3 DEF ClaimsTyped
      <3>3. CASE AtLeast(claims[i], claims[x])
        <4>1. \A j \in U : AtLeast(claims[i], claims[j])
          BY <3>1, <3>3
        <4> QED
          BY <2>3, <3>1, <4>1
      <3>4. CASE ~AtLeast(claims[i], claims[x])
        <4>1. AtLeast(claims[x], claims[i])
          BY <2>4, <3>1, <3>2, <3>4, PreferredComesFirst
        <4>2. \A j \in U : AtLeast(claims[x], claims[j])
          BY <2>4, <2>7, <3>1, <3>2, <4>1, PreferredComesFirst
        <4> QED
          BY <2>3, <2>4, <4>2
      <3> QED
        BY <3>3, <3>4
    <2> QED
      BY <2>8, <2>9
  <1> QED
    BY <1>1

LEMMA ClaimsAreFinite ==
    ASSUME ClaimsTyped, NEW S \in SUBSET DOMAIN claims
    PROVE  IsFiniteSet(S)
  <1>1. DOMAIN claims = 1..Len(claims) /\ Len(claims) \in Nat
    BY DEF ClaimsTyped
  <1>2. IsFiniteSet(1..Len(claims))
    BY <1>1, FS_Interval
  <1> QED
    BY <1>1, <1>2, FS_Subset

\* Whatever their tiers, confidences and ages, clock skew included, and however
\* many they are, claims never beat one another in a circle, of any length.
THEOREM NoCircle == Spec => []RulesNeverCycle
  <1>1. ClaimsTyped => RulesNeverCycle
    <2> SUFFICES ASSUME ClaimsTyped, NEW S \in (SUBSET DOMAIN claims) \ {{}}
                 PROVE  \E i \in S : \A j \in S : ~Beats(j, i)
      BY DEF RulesNeverCycle
    <2>1. IsFiniteSet(S)
      BY ClaimsAreFinite
    <2>2. PICK i \in S : \A j \in S : AtLeast(claims[i], claims[j])
      BY <2>1, BestOfClaims
    <2>3. ASSUME NEW j \in S PROVE ~Beats(j, i)
      BY <2>2, BeatsIsPrefers, PreferredComesFirst
    <2> QED
      BY <2>3
  <1> QED
    BY <1>1, TypingOfClaims, PTL

\* Neither one rule victory nor a chain of two carries a subject to a less
\* authoritative source.
THEOREM TierNeverFallsByRule == Spec => []NoChainLowersTheTier
  <1>1. ClaimsTyped => NoChainLowersTheTier
    <2> SUFFICES ASSUME ClaimsTyped, NEW i \in DOMAIN claims,
                        NEW j \in DOMAIN claims, NEW k \in DOMAIN claims
                 PROVE  /\ Beats(i, j) => claims[i].tier >= claims[j].tier
                        /\ Beats(i, j) /\ Beats(j, k) =>
                                claims[i].tier >= claims[k].tier
      BY DEF NoChainLowersTheTier
    <2>1. /\ claims[i].tier \in Int /\ claims[j].tier \in Int
          /\ claims[k].tier \in Int
      BY BeatsIsPrefers, ClaimType
    <2> QED
      BY <2>1, BeatsIsPrefers, PreferredComesFirst
  <1> QED
    BY <1>1, TypingOfClaims, PTL

-----------------------------------------------------------------------------
(* The ledger before the rules. *)

\* One confirmed claim beats every claim that is not; between two of which both
\* or neither is confirmed, the rules decide.
LEMMA LedgerSplits ==
    ASSUME NEW i, NEW j, NEW confirmed, BeatsWithLedger(i, j, confirmed)
    PROVE  /\ j \in confirmed => i \in confirmed
           /\ (i \in confirmed <=> j \in confirmed) => Beats(i, j)
  BY DEF BeatsWithLedger, ledger_winner, Beats

\* However many claims there are and whichever of them the row of a system of
\* record confirms, ledger and rules together never beat claims in a circle: the
\* best of the confirmed claims, or of all if none is, is beaten by none.
THEOREM NoCircleWithLedger == Spec => []LedgerNeverCycles
  <1>1. ClaimsTyped => LedgerNeverCycles
    <2> SUFFICES ASSUME ClaimsTyped, NEW confirmed \in SUBSET DOMAIN claims,
                        NEW S \in (SUBSET DOMAIN claims) \ {{}}
                 PROVE  \E i \in S : \A j \in S : ~BeatsWithLedger(j, i, confirmed)
      BY DEF LedgerNeverCycles
    <2> DEFINE T == IF S \cap confirmed # {} THEN S \cap confirmed ELSE S
    <2>1. T \in (SUBSET DOMAIN claims) \ {{}} /\ T \subseteq S
      OBVIOUS
    <2>2. IsFiniteSet(T)
      BY <2>1, ClaimsAreFinite
    <2>3. PICK i \in T : \A j \in T : AtLeast(claims[i], claims[j])
      BY <2>1, <2>2, BestOfClaims
    <2>4. ASSUME NEW j \in T PROVE ~Beats(j, i)
      BY <2>1, <2>3, BeatsIsPrefers, PreferredComesFirst
    <2>5. ASSUME NEW j \in S, BeatsWithLedger(j, i, confirmed)
          PROVE  FALSE
      <3>1. i \in confirmed => j \in confirmed
        BY <2>5, LedgerSplits
      <3>2. j \in T /\ (j \in confirmed <=> i \in confirmed)
        BY <2>3, <3>1
      <3> QED
        BY <2>4, <2>5, <3>2, LedgerSplits
    <2> QED
      BY <2>1, <2>3, <2>5
  <1> QED
    BY <1>1, TypingOfClaims, PTL

-----------------------------------------------------------------------------
(* Subject keys. *)

TextTyped(text) == text.mentions \in Seq(Mentions)

\* The first mention of a type is at the least place where there is one.
LEMMA FirstMentionIsFirst ==
    ASSUME NEW text, TextTyped(text), NEW type
    PROVE  LET n == FirstMention(text, type)
           IN  /\ n # 0 <=> \E m \in DOMAIN text.mentions : text.mentions[m].type = type
               /\ n # 0 =>
                    /\ n \in DOMAIN text.mentions /\ text.mentions[n].type = type
                    /\ \A m \in DOMAIN text.mentions :
                          text.mentions[m].type = type => n <= m
  <1> DEFINE I == {m \in 1..Len(text.mentions) : text.mentions[m].type = type}
  <1>1. /\ DOMAIN text.mentions = 1..Len(text.mentions) /\ Len(text.mentions) \in Nat
        /\ I \in SUBSET Nat /\ 0 \notin I
    BY DEF TextTyped
  <1>2. FirstMention(text, type) = IF I # {} THEN CHOOSE n \in I : \A m \in I : n <= m ELSE 0
    BY DEF FirstMention, Seqs!SelectInSeq, Seqs!Min
  <1>3. CASE I = {}
    BY <1>1, <1>2, <1>3
  <1>4. CASE I # {}
    <2>1. \E n \in I : \A m \in I : n <= m
      BY <1>1, <1>4, LeastNumber
    <2>2. FirstMention(text, type) \in I /\ \A m \in I : FirstMention(text, type) <= m
      BY <1>2, <1>4, <2>1
    <2> QED
      BY <1>1, <1>4, <2>2
  <1> QED
    BY <1>3, <1>4

\* What identifies a text is a thing it names; and a text that hides no id is
\* identified by every type of which it names a thing.
LEMMA IdentifiedByThings ==
    ASSUME NEW text, TextTyped(text), NEW type
    PROVE  LET m == text.mentions[FirstMention(text, type)]
           IN  /\ Identified(text, type) => m \in Things(text) /\ m.type = type
               /\ ~HidesAnId(text) =>
                    (Identified(text, type) <=> \E thing \in Things(text) : thing.type = type)
  <1>1. PICK n : n = FirstMention(text, type)
    OBVIOUS
  <1>2. n # 0 => n \in DOMAIN text.mentions /\ text.mentions[n].type = type
    BY <1>1, FirstMentionIsFirst
  <1>3. Identified(text, type) <=> n # 0 /\ text.mentions[n].word \in Identifiers
    BY <1>1 DEF Identified, LooksLikeId
  <1>4. Identified(text, type) => text.mentions[n] \in Things(text) /\ text.mentions[n].type = type
    BY <1>2, <1>3 DEF Things
  <1> QED
    BY <1>1, <1>4 DEF HidesAnId

\* The mention a key takes is that of the first type of the table identified.
LEMMA KeySpelledOut ==
    ASSUME NEW text
    PROVE  LET key == assign_subject_key_heuristic(text)
               E == Seqs!SelectInSeq(ENTITY_PATTERNS, LAMBDA type : Identified(text, type))
           IN  key # None =>
                /\ E # 0 /\ Identified(text, ENTITY_PATTERNS[E])
                /\ key.entity = text.mentions[FirstMention(text, ENTITY_PATTERNS[E])]
  <1> DEFINE E == Seqs!SelectInSeq(ENTITY_PATTERNS, LAMBDA type : Identified(text, type))
             I == {n \in 1..Len(ENTITY_PATTERNS) : Identified(text, ENTITY_PATTERNS[n])}
  <1>1. E = IF I # {} THEN CHOOSE n \in I : \A m \in I : n <= m ELSE 0
    BY DEF Seqs!SelectInSeq, Seqs!Min
  <1>2. E # 0 => Identified(text, ENTITY_PATTERNS[E])
    <2>1. I \in SUBSET Nat
      OBVIOUS
    <2>2. I # {} => E \in I
      BY <1>1, <2>1, LeastNumber
    <2> QED
      BY <1>1, <2>2
  <1> HIDE DEF E, I
  <1> QED
    BY <1>2 DEF assign_subject_key_heuristic, E

\* However many things two texts name, in whatever order and however often, and
\* whatever the ids and filler words: a key names a thing its text identifies,
\* and texts about the same things, one of each type, that are filed apart are so
\* because one of them hides an id behind a filler word.
THEOREM ParaphrasesAlwaysMeet ==
    ASSUME NEW one, NEW other, TextTyped(one), TextTyped(other)
    PROVE  ParaphrasesMeet(one, other)
  <1>1. ASSUME NEW text, TextTyped(text), assign_subject_key_heuristic(text) # None
        PROVE  assign_subject_key_heuristic(text).entity \in Things(text)
    BY <1>1, KeySpelledOut, IdentifiedByThings
  <1>2. ASSUME one.about = other.about, Things(one) = Things(other), OneEach(one),
               ~HidesAnId(one), ~HidesAnId(other)
        PROVE  assign_subject_key_heuristic(one) = assign_subject_key_heuristic(other)
    <2> DEFINE A(text) == Seqs!SelectInSeq(ATTRIBUTE_KEYWORDS, LAMBDA name : name \in text.about)
               E(text) == Seqs!SelectInSeq(ENTITY_PATTERNS, LAMBDA type : Identified(text, type))
               K(text) == assign_subject_key_heuristic(text)
               M(text) == text.mentions[FirstMention(text, ENTITY_PATTERNS[E(text)])]
    <2>1. \A type : Identified(one, type) <=> Identified(other, type)
      BY <1>2, IdentifiedByThings
    <2>2. A(one) = A(other)
      BY <1>2 DEF Seqs!SelectInSeq
    <2>3. E(one) = E(other)
      <3>1. {n \in 1..Len(ENTITY_PATTERNS) : Identified(one, ENTITY_PATTERNS[n])}
              = {n \in 1..Len(ENTITY_PATTERNS) : Identified(other, ENTITY_PATTERNS[n])}
        BY <2>1
      <3> QED
        BY <3>1 DEF Seqs!SelectInSeq
    <2>4. \A text : K(text) = IF A(text) = 0 \/ E(text) = 0 THEN None
                     ELSE [attribute |-> ATTRIBUTE_KEYWORDS[A(text)], entity |-> M(text)]
      BY DEF assign_subject_key_heuristic
    <2>5. ASSUME E(one) # 0 PROVE M(one) = M(other)
      <3> DEFINE I == {n \in 1..Len(ENTITY_PATTERNS) : Identified(one, ENTITY_PATTERNS[n])}
      <3>1. E(one) = IF I # {} THEN CHOOSE n \in I : \A m \in I : n <= m ELSE 0
        BY DEF Seqs!SelectInSeq, Seqs!Min
      <3>2. I \in SUBSET Nat /\ I # {}
        BY <2>5, <3>1
      <3>3. E(one) \in I
        BY <3>1, <3>2, LeastNumber
      <3>4. PICK type : type = ENTITY_PATTERNS[E(one)] /\ Identified(one, type)
        BY <3>3
      <3>5. PICK m, n : /\ m = one.mentions[FirstMention(one, type)]
                        /\ n = other.mentions[FirstMention(other, type)]
        OBVIOUS
      <3>6. m \in Things(one) /\ m.type = type /\ n \in Things(one) /\ n.type = type
        BY <1>2, <2>1, <3>4, <3>5, IdentifiedByThings
      <3> QED
        BY <1>2, <2>3, <3>4, <3>5, <3>6 DEF OneEach
    <2> HIDE DEF A, E, K, M
    <2>6. K(one) = K(other)
      BY <2>2, <2>3, <2>4, <2>5
    <2> QED
      BY <2>6 DEF K
  <1> QED
    BY <1>1, <1>2 DEF ParaphrasesMeet

LEMMA TypingOfTexts ==
    Spec => [](paraphrases # << >> => TextTyped(paraphrases[1]) /\ TextTyped(paraphrases[2]))
  <1> DEFINE Typed == paraphrases # << >> =>
                        TextTyped(paraphrases[1]) /\ TextTyped(paraphrases[2])
  <1>1. Init => Typed
    BY DEF Init
  <1>2. Typed /\ [Next]_vars => Typed'
    <2> SUFFICES ASSUME Typed, [Next]_vars
                 PROVE  Typed'
      OBVIOUS
    <2>1. CASE Paraphrase
      <3>1. PICK one \in Texts, other \in Texts : paraphrases' = <<one, other>>
        BY <2>1 DEF Paraphrase
      <3>2. ASSUME NEW text \in Texts PROVE TextTyped(text)
        <4> DEFINE Three == {m \in Mentions : m.type \in {"order", "user"}}
        <4>1. \/ text.mentions = << >>
              \/ text.mentions \in [1..1 -> Mentions]
              \/ text.mentions \in [1..2 -> Mentions]
              \/ text.mentions \in [1..3 -> Three]
          BY DEF Texts
        <4>2. Three \subseteq Mentions
          OBVIOUS
        <4>3. text.mentions \in [1..3 -> Three] => text.mentions \in [1..3 -> Mentions]
          BY <4>2
        <4> HIDE DEF Three
        <4>4. [1..1 -> Mentions] \subseteq Seq(Mentions)
              /\ [1..2 -> Mentions] \subseteq Seq(Mentions)
              /\ [1..3 -> Mentions] \subseteq Seq(Mentions)
          BY SeqDef
        <4>5. << >> \in Seq(Mentions)
          BY EmptySeq
        <4> QED
          BY <4>1, <4>3, <4>4, <4>5 DEF TextTyped
      <3> QED
        BY <3>1, <3>2 DEF TextTyped
    <2>2. CASE UNCHANGED paraphrases
      BY <2>2 DEF TextTyped
    <2> QED
      BY <2>1, <2>2 DEF Next, Arrive, Ask, vars
  <1> QED
    BY <1>1, <1>2, PTL DEF Spec

\* No text is filed under a filler word; and two that say the same about the same
\* things, one of each type, are filed apart only where one of them hides an id.
THEOREM SameSubject == Spec => []SameSubjectSameKey
  <1>1. (paraphrases # << >> => TextTyped(paraphrases[1]) /\ TextTyped(paraphrases[2]))
            => SameSubjectSameKey
    BY ParaphrasesAlwaysMeet DEF SameSubjectSameKey
  <1> QED
    BY <1>1, TypingOfTexts, PTL
=============================================================================
