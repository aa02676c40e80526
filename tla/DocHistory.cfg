CONSTANTS
    i1 = i1
    i2 = i2
    i3 = i3
    w1 = w1
    w2 = w2
    None = None
    Ingests = {i1, i2, i3}
    Workers = {}
    Texts <- MCTexts
    Claims <- RaceClaims
    Similarity <- MCSimilarity
    LedgerStates = {}
    Confirms <- NoConfirms
    Volatilities = {"stable"}
    Verdicts = {"refinement"}
    Confidences = {60}
    MAX_RETRIES = 2
    MaxFaults = 0
SPECIFICATION Spec
INVARIANTS
    HistoryExplainsFate
CHECK_DEADLOCK FALSE
