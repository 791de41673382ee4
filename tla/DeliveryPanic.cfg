CONSTANTS
    bad = bad
    wrong = wrong
    odd = odd
    good = good
    long = long
    None = None
    Messages = {good, long}
    KindOf <- MCKindOf
    FaultKinds = {}
    MaxFaults = 0
    MaxLosses = 0

SPECIFICATION FairSpec
CHECK_DEADLOCK FALSE
PROPERTY EveryMessageIsAnswered
