SPECIFICATION ProxySpec
CONSTANTS
    q1 = q1
    c1 = c1
    w1 = w1
    w2 = w2
    pa = pa
    pb = pb
    pc = pc
    NoFile = NoFile
    Partial = Partial
    Requests <- NoRequests
    Clients <- OneClient
    Slots <- OneSlot
    Files <- OneRow
    ProxyPaths <- OnePath
    ProxyOf <- Own
    Large = {1}
    Unsupported = {}
    MaxReboots = 0
    MaxFailures = 0
    MaxFaults = 0
CHECK_DEADLOCK FALSE
PROPERTIES
    QueuedIsTakenUp
