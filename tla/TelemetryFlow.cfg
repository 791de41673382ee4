SPECIFICATION FairTelemetry
CHECK_DEADLOCK FALSE
CONSTANTS
    evaluated1 = evaluated1
    evaluated2 = evaluated2
    evaluated3 = evaluated3
    rejected = rejected
    Runs = {evaluated1, evaluated2, evaluated3, rejected}
    ErrorKinds = {"validation_failed", "assigner_failed"}
    OutcomeOf <- MCOutcomeOf
    Lines <- MCLines
    Capacity = 2
    BatchSize = 2
    MaxTroubles = 2
INVARIANTS
    TelemetryTypeOK
    LinesInOrder
    OvertakenOnlyUnanswered
    SnapshotAgreesWithLog
PROPERTIES
    ImplementsLogFeed
    BacklogIsWorkedOff
