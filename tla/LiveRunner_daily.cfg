SPECIFICATION Spec
CONSTANTS
    Trades = {t1, t2}
    NoTrade = NoTrade
    MaxOpen = 1
    MaxDailyLossR = 1
    MaxBar = 1
    Filters <- AllFilters
    Faults <- NoFaults
PROPERTY NoEntryAfterDailyLoss
CHECK_DEADLOCK TRUE
