SPECIFICATION Spec
CONSTANTS
    NoId = NoId
    Settings <- AllSettings
    Alone = {"LONG"}
    MaxOpen = 1
    MaxPolls = 2
    MaxPollsElse = 1
    MaxStarts = 2
    FaultRows = 6
INVARIANT StandardChainsAccepted
INVARIANT EverySignalResolved
INVARIANT TradeEventsCorrelate
INVARIANT FunnelAddsUp
INVARIANT BlockOutcomeIsSlippage
CHECK_DEADLOCK FALSE
