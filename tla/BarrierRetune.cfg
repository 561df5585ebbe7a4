\* Two reports beside retunes, membership, currency changes and unblocking;
\* the kill switch beside reports, orders, retunes and a retirement.
SPECIFICATION MCSpec
CONSTANTS
    a1 = a1  a2 = a2  g1 = g1  r1 = r1  t1 = t1  m1 = m1  m2 = m2
    usd = usd  eur = eur  Halted = Halted  None = None
    Accounts = {a1, a2}
    Groups = {g1}
    Currencies = {usd, eur}
    Reporters = {r1}
    Traders = {t1}
    Admins = {m1, m2}
    Barriers <- TwoBarriers
    Scopes <- GlobalAndGroup
    Deltas <- Losses
    Assertions <- Reset
    MaxReports = 2
    MaxRetunes = 3
    r2 = r2  NoBound = NoBound  Nothing = Nothing
    SettlementAssets = {usd, eur}
    Feeds = {r1, r2}
    Clients = {t1}
    Tuners = {m1}
    Bounds <- BothSides
    Results <- LossesAndGains
    ForcedPnls <- Zero
    MaxPnl = 3
    MaxUpdates = 3
INVARIANT
    BreachBlocked
    OrdersInsideBarrier
    RetunesKept
    NoOrderPastBreach
CHECK_DEADLOCK FALSE
