CONSTANTS
    None = None
    Phrases <- MCPhrases
    Contains <- MCContains
    Asserts <- MCAsserts
    Identifiers = {"12345"}
    FillerWords = {"with"}
    Tiers = {1, 2}
    Confidences = {20, 30, 80}
    Observed = {0, 99, 110, 111, 119, 121, 130}
    Now = 121
    MaxClaims = 3
SPECIFICATION Spec
INVARIANTS
    ArrivalOrderIsIrrelevant
    RulesNeverCycle
    NoChainLowersTheTier
    LedgerNeverCycles
    
    SameSubjectSameKey
CHECK_DEADLOCK FALSE
