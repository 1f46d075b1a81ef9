SPECIFICATION OrderlySpec
CONSTANTS
    f1 = f1
    f2 = f2
    u1 = u1
    u2 = u2
    l1 = l1
    l2 = l2
    s1 = s1
    s2 = s2
    n1 = n1
    n2 = n2
    people = people
    places = places
    NoName = NoName
    NoCat = NoCat
    NoFile = NoFile
    NoUser = NoUser
    Unlisted = Unlisted
    Unread = Unread
    Broken = Broken
    Files <- TwoFiles
    Users <- OneUser
    Loads <- OneLoad
    Saves <- OneSave
    Names <- TwoNames
    CatNames <- Categories
    DefaultCats <- Seeded
    MaxTags = 2
    MaxCats = 2
SYMMETRY Symmetry
INVARIANTS
    ReferencesHold
    NamesDiffer
PROPERTIES
    NoTagLost
