SPECIFICATION Spec
CONSTANTS
    Processes = {p1}
    RetryDays <- TwoRetries
    GraceDays = 2
    SuspensionDays = 2
    TrialDays = 1
    AwareDates = FALSE
    InOrder = TRUE
    EndpointEvents <- NeededEvents
    ItemsByAttribute = FALSE
    MaxAttempts = 1
    MaxClock = 4
    MaxInvoices = 2
    MaxSubs = 1
    MaxTrials = 0
    MaxCancels = 0
    MaxFaults = 0
CHECK_DEADLOCK FALSE
INVARIANT PaidPlanTakesEffect
