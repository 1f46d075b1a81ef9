SPECIFICATION Spec
CONSTANTS
    r1 = r1
    r2 = r2
    r3 = r3
    f1 = f1
    f2 = f2
    f3 = f3
    f4 = f4
    main = main
    dup = dup
    dup01 = dup01
    main3 = main3
    None = None
    Partial = Partial
    Runners <- TwoRunners
    Files <- OneFile
    Ignored <- NoFiles
    Paths <- AllPaths
    Candidates <- AllCandidates
    MaxArrivals = 1
    MaxCrashes = 0
    MaxErrors = 0
CHECK_DEADLOCK FALSE
INVARIANT NoLossAtRest
