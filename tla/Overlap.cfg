CONSTANTS
    i1 = i1
    i2 = i2
    i3 = i3
    w1 = w1
    w2 = w2
    None = None
    Ingests = {i1, i2}
    Workers = {w1, w2}
    Texts <- MCTexts
    Claims <- MCClaims
    Similarity <- MCSimilarity
    LedgerStates <- MCLedgerStates
    Confirms <- MCConfirms
    Volatilities = {"volatile"}
    Verdicts = {"contradiction", "refinement"}
    Confidences = {59, 60}
    MAX_RETRIES = 1
    MaxFaults = 1
SYMMETRY Symmetry
SPECIFICATION Spec
INVARIANTS
    TypeOK
    AnswerIsStanding
PROPERTIES
    TierFallsOnlyToLedger
    ArbiterCommitsOnlyRefinements
    ImplementsRegister
CHECK_DEADLOCK FALSE
