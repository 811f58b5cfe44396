---- MODULE CreditLedger ----
(***************************************************************************)
(* What the credit service of one account promises, one operation at a     *)
(* time: purchase orders are opened, completed, closed and refunded, usage *)
(* is charged, the monthly allocation and grants are paid in, and the      *)
(* credit_transactions table records every one of them.  CreditPurchases   *)
(* describes the same service as requests that read first and commit       *)
(* later, and implements this module when requests do not overlap.         *)
(***************************************************************************)
EXTENDS PurchaseOrders

VARIABLES row,             \* the credit_balances row
          status,          \* CreditPurchaseOrder.status, NONE before the insert
          posted,          \* sum of credit_transactions.amount
          lapsed,          \* credits an allocation overwrote (no transaction says so)
          purchases,       \* PURCHASE transactions per order
          refunds          \* REFUND transactions per order

vars == <<row, status, posted, lapsed, purchases, refunds>>

Init ==
    /\ row = EmptyRow
    /\ status = [o \in Orders |-> "NONE"]
    /\ posted = 0
    /\ lapsed = 0
    /\ purchases = [o \in Orders |-> 0]
    /\ refunds = [o \in Orders |-> 0]

OpenOrder(o) ==
    /\ status[o] = "NONE"
    /\ status' = [status EXCEPT ![o] = "PENDING"]
    /\ UNCHANGED <<row, posted, lapsed, purchases, refunds>>

CompleteOrder(o) ==
    /\ status[o] = "PENDING"
    /\ status' = [status EXCEPT ![o] = "COMPLETED"]
    /\ row' = AddPurchase(row, Credits[o])
    /\ posted' = posted + Credits[o]
    /\ purchases' = [purchases EXCEPT ![o] = @ + 1]
    /\ UNCHANGED <<lapsed, refunds>>

CloseOrder(o, final) ==
    /\ status[o] = "PENDING"
    /\ status' = [status EXCEPT ![o] = final]
    /\ UNCHANGED <<row, posted, lapsed, purchases, refunds>>

RefundOrder(o) ==
    /\ status[o] = "COMPLETED"
    /\ status' = [status EXCEPT ![o] = "REFUNDED"]
    /\ row' = ClawBack(row, Credits[o])
    /\ posted' = posted - Recoverable(row, Credits[o])
    /\ refunds' = [refunds EXCEPT ![o] = @ + 1]
    /\ UNCHANGED <<lapsed, purchases>>

Charge(amount) ==
    /\ CanAfford(row, amount)
    /\ row' = Deduct(row, amount)
    /\ posted' = posted - amount
    /\ UNCHANGED <<status, lapsed, purchases, refunds>>

AllocateMonthly(amount) ==
    /\ row' = Allocate(row, amount)
    /\ posted' = posted + amount
    /\ lapsed' = lapsed + row["balance"]
    /\ UNCHANGED <<status, purchases, refunds>>

GrantCredits(column, amount) ==
    /\ row' = Grant(row, column, amount)
    /\ posted' = posted + amount
    /\ UNCHANGED <<status, lapsed, purchases, refunds>>

Next ==
    \/ \E o \in Orders : \/ OpenOrder(o)
                         \/ CompleteOrder(o)
                         \/ \E final \in {"EXPIRED", "CANCELED"} : CloseOrder(o, final)
                         \/ RefundOrder(o)
    \/ \E amount \in Amounts :
          \/ Charge(amount)
          \/ AllocateMonthly(amount)
          \/ \E column \in {"balance", "bonus"} : GrantCredits(column, amount)

Spec == Init /\ [][Next]_vars

-----------------------------------------------------------------------------
\* Every variable has its type; in particular the two balances and the three
\* lifetime counters of the row never go below zero.
TypeOK ==
    /\ row \in BalanceRow
    /\ status \in [Orders -> OrderStatuses]
    /\ posted \in Int
    /\ lapsed \in Nat
    /\ purchases \in [Orders -> Nat]
    /\ refunds \in [Orders -> Nat]

\* The credit_transactions table explains the balance: what it adds up to is
\* what the account can spend plus what monthly allocations overwrote.
LedgerExplainsBalance == TotalAvailable(row) + lapsed = posted

\* An order's transactions and its status agree: credits came in exactly once
\* for an order that was paid, and went out once for one that was refunded.
OrdersExplainTransactions ==
    \A o \in Orders :
        /\ purchases[o] = IF status[o] \in {"COMPLETED", "REFUNDED"} THEN 1 ELSE 0
        /\ refunds[o] = IF status[o] = "REFUNDED" THEN 1 ELSE 0
====
