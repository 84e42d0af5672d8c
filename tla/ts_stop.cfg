SPECIFICATION FairSpec
CONSTANTS
    Service = {s1, s2}
    Remover = {r1, r2}
INVARIANTS TypeOK DelistedWasStopped PanicNeedsRivals
PROPERTY RemoveTakesEffect
CHECK_DEADLOCK FALSE
