SPECIFICATION Spec
CONSTANTS
    Trades = {t1, t2, t3}
    NoTrade = NoTrade
    MaxOpen = 1
    MaxDailyLossR = 1
    MaxBar = 1
    Filters <- AllFilters
    Faults <- BrokerFaults
SYMMETRY TradeSymmetry
INVARIANT NoUnloggedClose
INVARIANT NoOrphanOrder
PROPERTY NoReentryOnSameBar
CHECK_DEADLOCK TRUE
