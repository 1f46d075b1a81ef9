SPECIFICATION TrashSpec
CONSTANTS
    fa = fa
    fb = fb
    c1 = c1
    c2 = c2
    hf = hf
    hg = hg
    t0 = t0
    t1 = t1
    u0 = u0
    u1 = u1
    NoFile = NoFile
    NoPlace = NoPlace
    Files <- TwoFiles
    Clients <- TwoClients
    Homes <- HomePlaces
    TrashPlaces <- TrashDir
    HomeOf <- Home
    TrashNames <- SameName
    MaxIds = 1
    MaxFaults = 0
    MaxCrashes = 0
CHECK_DEADLOCK FALSE
INVARIANTS
    FileSurvives
