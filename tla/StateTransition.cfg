CONSTANTS
    Accounts = {a1}
    Reports = {r1}
    Batches = {b1, b2}
    Transitions = {x1}
    MaxElements = 2
    MaxTransitions = 2
    NoOwner = NoOwner
    NoAccount = NoAccount
SPECIFICATION FairSpec
INVARIANT StableSnapshot
INVARIANT LeaseMatchesGuards
PROPERTY TransitionGetsIn
