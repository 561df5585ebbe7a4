\* Six engines: at the queue limit, stopped once and twice, with a section beside
\* operations and beside a stop, sharded.
SPECIFICATION Spec
CONSTANTS
    c1 = c1  c2 = c2  c3 = c3  d1 = d1  d2 = d2  x1 = x1  k1 = k1  k2 = k2
    None = None
    Clients = {c1, c2, c3, d1, d2}
    Owners = {c2, c3, d2}
    Admins = {x1}
    Keys = {k1, k2}
    RouteOf <- ByName
    ShardOf <- OneShard
    Lanes <- TwoLanes
    Capacity = 1
    Setups <- Engines
INVARIANTS
    ExclusiveAlone
    EffectsInOrder
    StopDrains
PROPERTY
    ServesAsExecutor
CHECK_DEADLOCK FALSE
