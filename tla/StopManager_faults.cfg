SPECIFICATION Spec
CONSTANTS
    Risk = 4
    BeTrigger = 4
    BeOffset = 1
    PartialTrigger = 4
    ClosePct = 50
    TrailActivation = 6
    TrailDistance = 4
    Enabled <- AllMechanisms
    Units = 5
    MaxLoss = 5
    MaxGain = 9
    Faults <- SeenFaults
INVARIANT TypeOK
INVARIANT BreakEvenKept
INVARIANT NoUnitsForgotten
