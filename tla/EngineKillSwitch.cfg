CONSTANTS
    Calls = {c1, c2}
    Accounts = {a1}
    Setups <- BatchesAndReports
    Unreadable = Unreadable
    Operator = Operator
SPECIFICATION Spec
SYMMETRY Symmetric
INVARIANT KillSwitchStands
