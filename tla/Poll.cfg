CONSTANTS
    i1 = i1
    i2 = i2
    w1 = w1
    o1 = o1
    o2 = o2
    None = None
    Ingests = {i1, i2}
    Workers = {w1}
    Texts <- MCTexts
    Claims <- MCClaims
    Similarity <- MCSimilarity
    LedgerStates = {}
    Confirms <- NoConfirms
    Volatilities = {"stable"}
    Verdicts = {"refinement"}
    Confidences = {60}
    MAX_RETRIES = 2
    MaxFaults = 2
    Others = {o1, o2}
    MaxSetbacks = 1
    POLL_LIMITS = {1, 2}
    ObservedFirst <- MCObservedFirst
SPECIFICATION PollSpec
PROPERTIES
    CandidatesGetResolved
CHECK_DEADLOCK FALSE
