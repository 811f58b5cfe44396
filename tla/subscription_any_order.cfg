SPECIFICATION Spec
CONSTANTS
    Processes = {p1, p2}
    RetryDays <- TwoRetries
    GraceDays = 1
    SuspensionDays = 2
    TrialDays = 1
    AwareDates = FALSE
    InOrder = FALSE
    EndpointEvents <- NeededEvents
    ItemsByAttribute = FALSE
    MaxAttempts = 1
    MaxClock = 2
    MaxInvoices = 2
    MaxSubs = 1
    MaxTrials = 0
    MaxCancels = 0
    MaxFaults = 1
CHECK_DEADLOCK FALSE
INVARIANTS TypeOK OneAllocationPerInvoice AccessMatchesDunning
PROPERTY SuspendedOnlyIfOverdue
SYMMETRY ProcessSymmetry
