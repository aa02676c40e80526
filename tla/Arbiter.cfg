CONSTANTS
    MAX_RETRIES_PER_MODEL = 2
    Confidences = {0, 59, 60, 100, 101}
    Unknown = Unknown
SPECIFICATION Spec
INVARIANTS
    AttemptsAreRequests
    FallbackIsLastResort
    EscalateDontForce
PROPERTIES
    ArbitrationEnds
CHECK_DEADLOCK FALSE
