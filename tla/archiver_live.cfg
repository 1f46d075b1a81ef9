SPECIFICATION FairSpec
CONSTANTS
    r1 = r1
    r2 = r2
    r3 = r3
    f1 = f1
    f2 = f2
    f3 = f3
    f4 = f4
    main = main
    dup = dup
    dup01 = dup01
    main3 = main3
    None = None
    Partial = Partial
    Runners <- OneRunner
    Files <- SomeIgnored
    Ignored <- IgnoredFiles
    Paths <- FewPaths
    Candidates <- FewCandidates
    MaxArrivals = 1
    MaxCrashes = 1
    MaxErrors = 1
CHECK_DEADLOCK FALSE
INVARIANTS
    SuccessIsRegistered
    RegisteredOnce
PROPERTIES
    RunEnds
    Drains
