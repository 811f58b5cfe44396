SPECIFICATION Spec
CONSTANTS
    Workers = {w1}
    Orders = {o1, o2}
    Credits <- TwoCredits
    Amounts = {1, 3}
    MaxRefunds = 1
    MaxRowOps = 2
    MaxFaults = 1
CHECK_DEADLOCK FALSE
INVARIANTS LedgerExplainsBalance OrdersExplainTransactions
PROPERTY ImplementsLedger
