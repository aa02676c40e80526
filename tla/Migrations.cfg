CONSTANTS
    Runners = {r1, r2, r3}
    NumFiles = 4
    MaxFaults = 2
SPECIFICATION Spec
INVARIANTS
    EachFileOnceInOrder
    ReportsAreTrue
PROPERTIES
    MigrationsComplete
