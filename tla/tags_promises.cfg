\* A choice of specification, with the values that show its loss:
SPECIFICATION HastySpec
\*  MovingSpec      with TwoFiles
\*  LeavingSpec
\*  EarlySpec
\*  SharingSpec     with TwoUsers
\*  UntaggedSpec
\*  RestartingSpec
\*  TagsSpec        also for the other two properties
CONSTANTS
    f1 = f1
    f2 = f2
    u1 = u1
    u2 = u2
    l1 = l1
    l2 = l2
    s1 = s1
    s2 = s2
    n1 = n1
    n2 = n2
    people = people
    places = places
    NoName = NoName
    NoCat = NoCat
    NoFile = NoFile
    NoUser = NoUser
    Unlisted = Unlisted
    Unread = Unread
    Broken = Broken
    Files <- OneFile
    Users <- OneUser
    Loads <- TwoLoads
    Saves <- TwoSaves
    Names <- OneName
    CatNames <- Categories
    DefaultCats <- Seeded
    MaxTags = 2
    MaxCats = 2
SYMMETRY Symmetry
CHECK_DEADLOCK FALSE
PROPERTIES
    NoTagLost
\*  RepliesStayOnTheirFile      with TwoFiles
\*  MergeKeepsTheTarget
