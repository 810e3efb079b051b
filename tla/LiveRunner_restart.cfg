SPECIFICATION FairSpec
CONSTANTS
    Trades = {t1, t2, t3}
    NoTrade = NoTrade
    MaxOpen = 1
    MaxDailyLossR = 1
    MaxBar = 1
    Filters <- AllFilters
    Faults <- StopOnly
INVARIANT TypeOK
INVARIANT ExposureBound
INVARIANT EveryPositionManaged
PROPERTY BrokerCloseIsJournalled
PROPERTY InvalidThesisIsClosed
CHECK_DEADLOCK TRUE
