SPECIFICATION ServiceSpec
CONSTANTS
    build = build
    make = make
    None = None
    Instances <- MCInstances
    recorder = recorder
    NumRuns = 2
    Runs <- MCRuns
    Jobs <- MCJobs
    Steps <- MCSteps
    StepsOf <- MCStepsOf
    ForeignEvents <- MCForeign
    NumEntries = 5
    Malformed = {}
    MaxAttempts = 2
    ReadCount = 2
    ClaimCount = 5
    MaxLen = 5
    MaxTrouble = 1
INVARIANTS
    ServiceTypeOK
    TablesFollowRuns
    RowsMissOnlyAfterTrouble
    SmoothRowsAreExact
PROPERTIES
    FinishedRowsStay
    EveryEndReachesItsRow
CHECK_DEADLOCK FALSE
