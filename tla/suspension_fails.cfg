SPECIFICATION FairSpec
CONSTANTS
    Processes = {p1}
    RetryDays <- TwoRetries
    GraceDays = 2
    SuspensionDays = 4
    TrialDays = 1
    AwareDates = TRUE
    InOrder = TRUE
    EndpointEvents <- NeededEvents
    ItemsByAttribute = FALSE
    MaxAttempts = 3
    MaxClock = 6
    MaxInvoices = 2
    MaxSubs = 1
    MaxTrials = 0
    MaxCancels = 0
    MaxFaults = 0
CHECK_DEADLOCK FALSE
PROPERTY DunningEnds
