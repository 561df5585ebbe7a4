\* Three accounts: adjusted near the limits, short of funds, limited in position; an index.
SPECIFICATION MCSpec
CONSTANTS
    o1 = o1  o2 = o2  o3 = o3  b1 = b1  None = None
    t1 = t1  t2 = t2  t3 = t3  k1 = k1  k2 = k2  NoCaller = NoCaller
    Orders = {o1, o2, o3}
    Adjusters = {b1}
    Sides <- BothSides
    Setups <- Accounts
    MaxReports = 2
    Callers = {t1, t2, t3}
    Keys = {k1, k2}
    AccountOf <- OneAccount
SYMMETRY Symmetric
CHECK_DEADLOCK FALSE
INVARIANT
    BooksBalance
    NoDoubleSpend
    PositionWithinLimit
    ListedOnceCreated
    ExactAtRest
