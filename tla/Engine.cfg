CONSTANTS
    Calls = {c1, c2}
    Accounts = {a1}
    Setups <- Engines
    Unreadable = Unreadable
    Operator = Operator
SPECIFICATION Spec
SYMMETRY Symmetric
INVARIANT AllOrNothing
INVARIANT KillSwitchVisible
INVARIANT FailedLeavesNoBlock
