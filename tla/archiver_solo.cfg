SPECIFICATION SoloSpec
CONSTANTS
    r1 = r1
    r2 = r2
    r3 = r3
    f1 = f1
    f2 = f2
    f3 = f3
    f4 = f4
    main = main
    dup = dup
    dup01 = dup01
    main3 = main3
    None = None
    Partial = Partial
    Runners <- OneRunner
    Files <- AliasedFiles
    Ignored <- NoFiles
    Paths <- AllPaths
    Candidates <- AllCandidates
    MaxArrivals = 1
    MaxCrashes = 1
    MaxErrors = 2
CHECK_DEADLOCK FALSE
INVARIANTS
    NoLoss
    RegistrySound
    FaultFreeIsRegistered
PROPERTIES
    ArchiveStable
    ImplementsCustody
