SPECIFICATION FairSpec
CONSTANTS
    Processes = {p1}
    RetryDays <- TwoRetries
    GraceDays = 2
    SuspensionDays = 4
    TrialDays = 1
    AwareDates = FALSE
    InOrder = TRUE
    EndpointEvents <- NeededEvents
    ItemsByAttribute = FALSE
    MaxAttempts = 3
    MaxClock = 6
    MaxInvoices = 2
    MaxSubs = 2
    MaxTrials = 1
    MaxCancels = 1
    MaxFaults = 0
CHECK_DEADLOCK FALSE
INVARIANTS PaidUpHasAccess EndedGivesNothing
PROPERTY DunningEnds
