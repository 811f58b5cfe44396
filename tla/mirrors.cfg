SPECIFICATION Spec
CONSTANTS
    Workers = {w1, w2}
    MaxRequests = 3
    MaxFaults = 1
    Channels = {a, b}
    NoChannel = none
    MaxConsents = 3
    BilledAddons = {x}
    MinPlan = 2
    ItemsByAttribute = TRUE
    MaxChanges = 3
    MaxPeriods = 1
    Metered = {sms}
    Cost = 2
    Daily = 2
    Monthly = 3
    Cooling = 1
    Allocated = 3
    Granted = {0, 4}
    Counts = {1, 2}
    TicksPerDay = 2
    MaxClock = 4
    MaxJobs = 3
    MaxAllocations = 1
    Answers = {a1, a2}
    NoAnswer = none
    MaxEdits = 1
    DaysPerWeek = 2
    SnapshotLimit = 5
    CallCounts = {1, 2}
    MaxDay = 5
    MaxByHand = 2
    MaxSteps = 3
    ReviewCounts = {10, 45, 120}
    Ratings = {30, 42, 50}
    PhotoCounts = {3, 6, 12}
    Emails = {e1}
    Roles = {viewer, admin}
    Keys = {preferences}
    Values = {on}
    Limits = {2}
    MaxWrites = 3
    Assets = {1, 2}
    PostUrls = {3}
    Attachments = {}
    Files = {f, g}
    BatchLimit = 1
    MaxRuns = 3
    MaxUrlEdits = 1
    Drafts = {d}
    NoDraft = none
    MaxPublishing = 4
SYMMETRY Symmetry
CHECK_DEADLOCK FALSE
INVARIANTS
    TypeOK ChannelsAreCurrent SubscriptionAgrees LimitsHoldOneByOne UsageIsCounted
    PostedIsLive WeekIsReported ProgressIsEarned SettingsAreKept
    MigrationIsSafe
PROPERTIES ImprovingPays UpgradesOnlyAdd
