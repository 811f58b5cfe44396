SPECIFICATION Spec
CONSTANTS
    Requests = {r1}
    TwilioStatuses = {}
    MaxAttempts = 2
    MaxAgain = 0
    MaxFaults = 0
CHECK_DEADLOCK FALSE
PROPERTY NoTextAfterStop
