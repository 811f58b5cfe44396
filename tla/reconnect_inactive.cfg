SPECIFICATION Spec
CONSTANTS
    Workers = {w1}
    Channels = {a}
    NoChannel = none
    MaxConsents = 2
    MaxRequests = 2
CHECK_DEADLOCK FALSE
PROPERTY ReconnectedIsActive
