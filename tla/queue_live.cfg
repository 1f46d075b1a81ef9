SPECIFICATION PromptProxySpec
CONSTANTS
    q1 = q1
    c1 = c1
    w1 = w1
    w2 = w2
    pa = pa
    pb = pb
    pc = pc
    NoFile = NoFile
    Partial = Partial
    Requests <- NoRequests
    Clients <- NoRequests
    Slots <- OneSlot
    Files <- TwoRows
    ProxyPaths <- TwoPaths
    ProxyOf <- Own
    Large = {1, 2}
    Unsupported = {2}
    MaxReboots = 1
    MaxFailures = 0
    MaxFaults = 1
CHECK_DEADLOCK FALSE
PROPERTIES
    QueuedIsServed
    PauseFallsSilent
    ControlSpec
