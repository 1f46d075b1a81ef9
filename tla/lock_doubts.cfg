SPECIFICATION LockSpec
CONSTANTS
    r1 = r1
    r2 = r2
    r3 = r3
    Runners <- TwoRunners
    MaxCrashes = 0
    MaxErrors = 1
INVARIANTS
    Exclusive
\*  StaleMeansCrash
