\* Checks beside retunes of the broker, asset and account axes, and three threads on a counter.
SPECIFICATION MCSpec
CONSTANTS
    None = None
    Threads = {t1, t2}
    Accounts = {a1}
    Assets = {x1}
    BrokerLimits <- Varied
    AssetLimits <- One
    AccountLimits <- One
    PairLimits <- NoLimits
    ShortestWindow = 2
    LargestBudget = 1
    MaxTime = 3
    MaxCalls = 3
    MaxRetunes = 2
    Callers = {u1, u2, u3}
    Limits <- TwoLimits
    MinWindow = 2
    MaxOrders = 1
    LastTick = 4
    MaxChecks = 3
SYMMETRY Symmetric
INVARIANTS
    NothingForgotten
    PreciseInOrder
    RetuneKeepsBudget
    LongRunRate
CHECK_DEADLOCK FALSE
