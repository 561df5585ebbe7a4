\* Finalizers of any operations beside readers; every plan of every kind.
SPECIFICATION MCSpec
CONSTANTS
    f1 = f1  f2 = f2  f3 = f3  r1 = r1  r2 = r2  Nobody = Nobody
    Readers = {r1, r2}
    Finalizers = {f1, f2, f3}
    MaxReads = 3
    Nothing = Nothing
    Kinds <- AllKinds
    Sources = {"order", "account", "group"}
    MaxSteps = 3
INVARIANTS
    ResolvedOnce
    ReadsLiveHandles
    NothingLeftOpen
    RetryVerdict
    FinallyOnce
PROPERTIES
    GivesAccess
    FinalizersReturn
    ChainResolves
CHECK_DEADLOCK FALSE
