CONSTANTS
    w1 = w1
    w2 = w2
    e1 = e1
    e2 = e2
    e3 = e3
    acme = acme
    globex = globex
    r1 = r1
    r2 = r2
    None = None
    Workers = {w1, w2}
    Events = {e1, e2, e3}
    Tenants = {acme, globex}
    Rules = {r1, r2}
    TenantOf <- MCTenantOf
    MetricsOf <- MCMetricsOf
    Thresholds <- BothThresholds
    MaxMetrics = 2
    Minute = 2
    Window = 1
    MaxTime = 1
    MaxRuns = 3
    MaxFaults = 1
    MaxCrashes = 1

SPECIFICATION Spec
CHECK_DEADLOCK FALSE
SYMMETRY WorkerSymmetry
INVARIANTS
    TypeOK
    CountedTwiceOnlyFromOverlap
    BreachIsEarned
    OneBreachPerRun
    NoMetricsLost
