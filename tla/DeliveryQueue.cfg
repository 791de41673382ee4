CONSTANTS
    bad = bad
    wrong = wrong
    odd = odd
    good = good
    long = long
    None = None
    Messages = {bad, wrong, odd, good, long}
    KindOf <- MCKindOf
    FaultKinds = {"lookup", "engine", "record", "respond"}
    MaxFaults = 1
    MaxLosses = 1

SPECIFICATION FairSpec
CHECK_DEADLOCK FALSE
INVARIANTS
    TypeOK
    EveryDeliveryIsHeld
    SettledMeansHandled
    RepeatedOnlyAfterLoss
PROPERTIES
    ImplementsWorkQueue
    EverythingSettles
