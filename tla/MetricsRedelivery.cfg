CONSTANTS
    w1 = w1
    w2 = w2
    e1 = e1
    e2 = e2
    e3 = e3
    acme = acme
    globex = globex
    r1 = r1
    r2 = r2
    None = None
    Workers = {w1}
    Events = {e1, e2}
    Tenants = {acme, globex}
    Rules = {r1, r2}
    TenantOf <- MCTenantOf
    MetricsOf <- MCMetricsOf
    Thresholds <- OneThreshold
    MaxMetrics = 2
    Minute = 2
    Window = 1
    MaxTime = 1
    MaxRuns = 3
    MaxFaults = 0
    MaxCrashes = 0

SPECIFICATION Spec
CHECK_DEADLOCK FALSE
INVARIANT OneBreachPerEvent
