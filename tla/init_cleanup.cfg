SPECIFICATION InitSpec
CONSTANTS
    f1 = f1
    f2 = f2
    f3 = f3
    main = main
    main01 = main01
    main0101 = main0101
    dup = dup
    dup01 = dup01
    dup0101 = dup0101
    s = s
    t = t
    s01 = s01
    xs = xs
    None = None
    Files <- TwoFiles
    Places <- AllPlaces
    Found <- Plain
    InDups <- Inside
    Dated <- Valid
    Ignored <- NoPlaces
    Original <- Looks
    Candidates <- Tries
    Jobs = 1
    MaxErrors = 0
    MaxBlind = 1
INVARIANT
    FilesSurvive
