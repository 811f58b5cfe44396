SPECIFICATION FairSpec
CONSTANTS
    Workers = {w1, w2}
    Orders = {o1}
    Credits <- TwoCredits
    Amounts = {1}
    MaxRefunds = 0
    MaxRowOps = 0
    MaxFaults = 1
CHECK_DEADLOCK FALSE
PROPERTY PaymentsAreCredited
