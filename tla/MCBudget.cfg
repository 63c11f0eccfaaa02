CONSTANTS
    Hosts = {c1, c2}
    Limit = 4
    PerMinute = 2
    ClientShare = 2
    UnknownShare = 3
    MaxDay = 2
    MaxRestarts = 2
    NoHost = NoHost
SPECIFICATION BudgetSpec
INVARIANTS BudgetTypeOK BudgetKept SharesKept
