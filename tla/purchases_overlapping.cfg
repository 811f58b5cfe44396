SPECIFICATION FairSpec
CONSTANTS
    Workers = {w1, w2}
    Orders = {o1}
    Credits <- TwoCredits
    Amounts = {1}
    MaxRefunds = 2
    MaxRowOps = 1
    MaxFaults = 1
CHECK_DEADLOCK FALSE
INVARIANTS TypeOK CreditedOnceIfPaid
PROPERTIES OrdersMoveForward PaymentsAreCreditedUnlessFaults
