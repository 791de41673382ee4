CONSTANTS
    k1 = k1
    k2 = k2
    text = text
    p1 = p1
    p2 = p2
    r1 = r1
    r2 = r2
    r3 = r3
    t1 = t1
    t2 = t2
    None = None
    NaN = NaN
    Keys = {k1, k2}
    Texts = {text}
    NumberIn <- MCNumberIn
    BoolIn <- MCBoolIn
    PartOf <- MCPartOf
    Epsilon = 1
    Playbooks = {p1, p2}
    Rules = {r1, r2, r3}
    ObjectTypes = {t1, t2}
    PlaybookInfo <- MCPlaybookInfo
    RuleInfo <- MCRuleInfo
    Bodies <- MCBodies
    MaxFaults = 0
    MaxEdits = 0

SPECIFICATION Spec
CHECK_DEADLOCK FALSE
INVARIANT FailFirstPerPlaybook
