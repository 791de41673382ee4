CONSTANTS
    None = None
    contract = contract
    upperContract = upperContract
    paddedContract = paddedContract
    cpp = cpp
    dotted = dotted
    crossed = crossed
    created = created
    paddedCreated = paddedCreated
    create = create
    upperCreated = upperCreated
    archived = archived
    r1 = r1
    r2 = r2
    r3 = r3
    pb1 = pb1
    pb2 = pb2
    v1 = v1
    acme = acme
    other = other
    NoName = NoName
    Default = Default
    email = email
    slack = slack
    teams = teams
    carrierPigeon = carrierPigeon
    k1 = k1
    k2 = k2
    one = one
    nan = nan
    yes = yes
    oneYes = oneYes
    NaN = NaN
    ev1 = ev1
    ev2 = ev2
    a1 = a1
    Keys = {k1, k2}
    Texts = {one, nan, yes, oneYes}
    Epsilon = 2
    Channels = {email, slack, teams}
    Empty = ""
    Minute = 2
    Now = 4
    Half = 4
    Events <- MCEvents
    MaxOrder = 4
    NumberIn <- MCNumberIn
    BoolIn <- MCBoolIn
    PartOf <- MCPartOf
    Folded <- MCFolded
    Mandatory <- MCMandatory
    Optional <- MCOptional
    Conditionals <- MCConditionals
    RuleSnapshots <- MCRuleSnapshots
    EventHead <- MCEventHead
    Wires <- MCWires
    Exprs <- MCExprs
    Triggers <- MCTriggers
    RoutingTables <- MCRoutingTables
    Requests <- MCRequests
    Outcomes <- MCOutcomes
    OtherOutcomes <- MCOtherOutcomes
    Payloads <- MCPayloads
    LookedFor <- MCLookedFor
    Spellings <- MCSpellings
    JsonValues <- MCJsonValues
    NewActions <- MCNewActions
    Routes <- MCRoutes
    Lower <- MCLower
    KindOf <- MCKindOf
    Trimmed <- MCTrimmed
    Found <- MCFound
    Literal <- MCLiteral

SPECIFICATION Spec
CHECK_DEADLOCK FALSE
INVARIANTS
    LogicsAreDual
    BetterEvidenceNeverHurts
    AssignedOnceInOrder
    DecidedOnEvidence
    StoreMatchesWhatConfigMatches
    RouteIsMostSpecific
    StoreHasWhatIsPublished
    MetricsSurviveStorage
    ListingsShowWhatWasStored
    SpellingDoesNotMatter
    DescriptionAddsOneKey
