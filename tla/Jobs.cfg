CONSTANTS
    i1 = i1
    i2 = i2
    i3 = i3
    w1 = w1
    None = None
    Ingests = {i1, i2, i3}
    Workers = {w1}
    Texts <- MCTexts
    Claims <- MCClaims
    Similarity <- MCSimilarity
    TextLength <- MCTextLength
    LedgerStates = {}
    Confirms <- NoConfirms
    Volatilities = {"stable"}
    Verdicts = {"refinement"}
    Confidences = {60}
    MAX_RETRIES = 2
    MaxFaults = 0
SYMMETRY Symmetry
SPECIFICATION DecaySpec
INVARIANTS
    ReadersAgree
    AnswerIsStanding
PROPERTIES
    DecisionsAreAboutTheAnswer
    ArchivedIsSettled
CHECK_DEADLOCK FALSE
