CONSTANTS
    w1 = w1
    w2 = w2
    e1 = e1
    e2 = e2
    e3 = e3
    o1 = o1
    o2 = o2
    p1 = p1
    p2 = p2
    r1 = r1
    r2 = r2
    r3 = r3
    tBound = tBound
    tReview = tReview
    tPass = tPass
    parentType = parentType
    childType = childType
    None = None
    Workers = {w1, w2}
    Events = {e1, e2}
    Objects = {o1, o2}
    Playbooks = {p1, p2}
    Rules = {r1, r2, r3}
    Templates = {tBound, tReview, tPass}
    ObjectTypes = {parentType, childType}
    ObjectOf <- MCObjectOf
    EvalsOf <- MCEvalsOf
    MatchedPlaybooks <- MCMatchedPlaybooks
    ParentOf <- MCParentOf
    StoredTemplates = {tBound, tReview, tPass}
    TemplateInfo <- MCTemplateInfo
    MaxRuns = 3
    MaxFaults = 1
    MaxCrashes = 1

SPECIFICATION Spec
CHECK_DEADLOCK FALSE
SYMMETRY WorkerSymmetry
INVARIANTS
    TypeOK
    DuplicatesOnlyFromOverlap
    FeedAtMostOnce
    ReviewCovered
