CONSTANTS
    Accounts = {a1, a2}
    Groups = {default, g1}
    DEFAULT_ACCOUNT_GROUP = default
    OperatorCauses = {reason}
    Tokens = {token}
    Mutators = {w1, w2}
    Checkers = {c1}
    NoCause = NoCause
    NoAccount = NoAccount
    NoGroup = NoGroup
    NoThread = NoThread
SPECIFICATION Spec
SYMMETRY Symmetric
INVARIANT FlagsExact
INVARIANT NoMissedBlock
PROPERTY CauseOwnership
