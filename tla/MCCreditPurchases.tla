---- MODULE MCCreditPurchases ----
(* Small instances of CreditPurchases for TLC. *)
EXTENDS CreditPurchases, TLC

TwoCredits == [o \in Orders |-> 2]
WorkerSymmetry == Permutations(Workers)

\* CreditLedger's specification and its invariants, of the handlers' variables.
ImplementsLedger == Ledger!Spec
LedgerExplainsBalance == Ledger!LedgerExplainsBalance
OrdersExplainTransactions == Ledger!OrdersExplainTransactions
====
