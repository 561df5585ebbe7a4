\* Every call, section and stop ends.
SPECIFICATION FairSpec
CONSTANTS
    c1 = c1  c2 = c2  c3 = c3  d1 = d1  d2 = d2  x1 = x1  k1 = k1  k2 = k2
    None = None
    Clients = {c1, c2}
    Owners = {c2}
    Admins = {x1}
    Keys = {k1}
    RouteOf <- ByName
    ShardOf <- OneShard
    Lanes <- TwoLanes
    Capacity = 1
    Setups <- Few
PROPERTIES
    CallsComplete
    StopEnds
    SectionsEnd
CHECK_DEADLOCK FALSE
