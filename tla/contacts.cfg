SPECIFICATION FairSpec
CONSTANTS
    Requests = {r1}
    TwilioStatuses = {"queued", "sent", "delivered", "failed"}
    MaxAttempts = 2
    MaxAgain = 1
    Workers = {w1, w2}
    Calls = {c1, c2}
    NoCall = none
    MaxMessages = 1
    MaxReads = 1
    Drafts = {d1, d2}
    NoDraft = none
    MaxRetries = 1
    MaxRejects = 1
    Messages = {m1, m2}
    NoMessage = none
    MaxAnswering = 2
    MaxUpdates = 1
    MaxFaults = 1
CHECK_DEADLOCK FALSE
INVARIANTS
    TypeOK CountersMatchRows FailuresReachOwner StatusTellsWhatIsLive OffStopsReplies
PROPERTIES MessagesHaveReasons AcceptedIsSeenTo
