SPECIFICATION Spec
CONSTANTS
    Trades = {t1, t2, t3}
    NoTrade = NoTrade
    MaxOpen = 1
    MaxDailyLossR = 1
    MaxBar = 1
    Filters <- AllFilters
    Faults <- ProcessFaults
SYMMETRY TradeSymmetry
INVARIANT NoPrematureClose
PROPERTY ImplementsJournal
INVARIANT DiskAgrees
CHECK_DEADLOCK TRUE
