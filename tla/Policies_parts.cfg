SPECIFICATION Spec
CONSTANTS
    NumAccounts = 3
    Symbols = {"XAUUSD", "NZDUSD", "USDCHF", "EURUSD", "USDJPY"}
    Risks = {75, 150}
    MaxHeat = 300
    MaxInstrumentHeat = 300
    MaxCorrelated = 2
    MaxSameDirection = 4
    Results <- LossOrDouble
    MaxDays = 4
    MaxPerDay = 3
    AttackUntil = 1
    PushDays = 1
    Names = {"c"}
    Balances = {100}
    TradeResults <- Tenths
    MinEquity = 90
    MaxEquity = 120
    MaxDaily = 10
    LosingDaysHalt = 1
    FailureWindow = 2
    ReclaimWindow = 3
    ChainBars = 4
    ExpireBars = 2
    BiasOn = TRUE
    BarsPerHour = 1
    PivotBars = 2
    Lookback = 3
    NumBars = 7
    BarsPerDay = 3
    ReclaimBarKinds <- ReclaimKinds
    ReversionBarKinds <- ReversionKinds
    SignalBars = {2, 3, 6, 7}
    MaxSignals = 3
    Risk = 2
    TargetResult = 4
    TimeoutResults <- BTTimeouts
    MidlineResults <- BTMid
    TimeExitBars = 2
    MaxDailyLoss = 20
    KillSwitch = 50
    MaxTradesPerDay = 1
    StopStreak = 2
    Profiles <- BTProfiles
    One = 10
    Boosts = {10, 15}
INVARIANT RoutedSafely
INVARIANT MirrorPairExclusive
INVARIANT DangerZoneSecured
INVARIANT PassedWithinLimits
 
INVARIANT OneOpenTrade
INVARIANT LossesBounded
INVARIANT DrawdownReported
INVARIANT SignalsDecided
PROPERTY HaltIsFinal
CHECK_DEADLOCK FALSE
