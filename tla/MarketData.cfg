\* Registering, naming and publishing two instruments beside reads and
\* setters of the lifetimes.
SPECIFICATION MarketSpec
CONSTANTS
    t1 = t1  t2 = t2  i1 = i1  i2 = i2
    Infinite = Infinite  None = None
    Threads = {t1, t2}
    Instruments = {i1, i2}
    Ids <- ThreeIds
    InGroup = TRUE
    Tunable <- TunedTiers
    Lifetimes <- Short
    DefaultTtl = 3
    SourceAges <- Ages
    MaxTime = 2
    MaxCalls = 4
INVARIANTS
    IdsStable
PROPERTIES
    LifetimeInForce
CHECK_DEADLOCK FALSE
