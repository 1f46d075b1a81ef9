SPECIFICATION SerialSpec
CONSTANTS
    r1 = r1
    r2 = r2
    r3 = r3
    Runners <- ThreeRunners
    MaxCrashes = 3
    MaxErrors = 3
INVARIANTS
    Exclusive
    HolderHasLock
PROPERTIES
    LockIsFreed
