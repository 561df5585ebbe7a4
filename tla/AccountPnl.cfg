CONSTANTS
    Batches = {b1, b2}
    Reports = {r1, r2}
    Setups <- Ranges
    LowerBound <- BelowZero
    Deltas <- SomeDeltas
    Assertions <- AssertedValues
    MaxTokens = 3
    MaxReports = 3
    NoOwner = NoOwner
SPECIFICATION PnlSpec
SYMMETRY Symmetric
INVARIANT RollbackExact
