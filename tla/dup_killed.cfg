SPECIFICATION DupSpec
CONSTANTS
    x = x
    y = y
    c1 = c1
    c2 = c2
    main = main
    mainb = mainb
    old = old
    dup = dup
    dupb = dupb
    side = side
    sideb = sideb
    oldside = oldside
    oldsideb = oldsideb
    NoFile = NoFile
    NoPlace = NoPlace
    NoRow = NoRow
    Ids <- NamedAlike
    Contents <- TwoContents
    Content <- AllButOne
    Ext <- ExtOf
    Places <- AllPlaces
    DupPlaces <- Dups
    Homes <- HomesOf
    Derived <- Primal
    Beside <- Sides
    Clients <- OneClient
    MaxErrors = 0
    MaxKills = 1
ACTION_CONSTRAINT OfferedSafely
CHECK_DEADLOCK FALSE
INVARIANT
    LastCopySurvives
