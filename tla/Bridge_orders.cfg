SPECIFICATION Spec
CONSTANTS
    MaxTrade = 2
    LoopCloses = TRUE
    MismatchStreak = 2
    Faults <- OrderFaults
INVARIANT TypeOK
INVARIANT StreakIsEarned
INVARIANT NoNakedOrder
INVARIANT RegistryIsCurrent
