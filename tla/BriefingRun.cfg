CONSTANTS
    PersonalContexts = {"none", "no-exposures", "exposures"}
    LastRun = 2
    Runs <- MCRuns
    Configured = TRUE
    Failures = {"PROVIDER_TIMEOUT", "PROVIDER_RESPONSE_INVALID"}
    AllowRepair = TRUE
    MaxTransportRetries = 1
    MaxRepairs = 1
    ClockStepsBack = FALSE
SPECIFICATION Spec
INVARIANTS
    CompletedIsSound
    RunsAreAnswered
    ShownIsLatest
    BudgetsHold
PROPERTIES
    CancelledRunsStop
    LoadingEnds
CHECK_DEADLOCK FALSE
