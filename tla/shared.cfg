SPECIFICATION CarefulSpec
CONSTANTS
    r1 = r1
    c1 = c1
    c2 = c2
    f1 = f1
    f2 = f2
    f3 = f3
    main = main
    dup = dup
    dup01 = dup01
    bin1 = bin1
    bin2 = bin2
    None = None
    Partial = Partial
    Runners <- OneRunner
    Files <- ThreeFiles
    Ignored <- NoFiles
    Paths <- TwoPlaces
    Candidates <- AllCandidates
    MaxArrivals = 1
    MaxCrashes = 1
    MaxErrors = 2
    Clients <- OneClient
    TrashPlaces <- TwoTrashPlaces
    TrashNames <- AllTrashNames
SYMMETRY Symmetry
CHECK_DEADLOCK FALSE
INVARIANTS
    Kept
    RowsTrue
PROPERTIES
    RunUndisturbed
