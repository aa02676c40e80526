CONSTANTS
    Threads = {t1, t2}
    None = None
    MaxConn = 3
    MAX_RETRIES = 2
    MaxFaults = 2
SPECIFICATION Spec
INVARIANTS
    OnePool
    CallsReturnWhatTheyBorrow
    TwoConnectionsSuffice
PROPERTIES
    EveryCallEnds
CHECK_DEADLOCK FALSE
