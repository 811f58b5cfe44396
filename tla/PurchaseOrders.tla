---- MODULE PurchaseOrders ----
(***************************************************************************)
(* What CreditLedger and CreditPurchases share: the purchase orders of one *)
(* account, the size of the package each buys, and the amounts that other  *)
(* operations charge or pay in.                                            *)
(***************************************************************************)
EXTENDS CreditAccount

CONSTANTS Orders,          \* checkout sessions, one purchase order each
          Credits,         \* Credits[o]: CreditPurchaseOrder.credits_amount
          Amounts          \* sizes of charges, grants and monthly allocations

ASSUME CreditsAssumption == Credits \in [Orders -> Nat \ {0}]
ASSUME AmountsAssumption == Amounts \subseteq Nat \ {0}

\* CreditPurchaseOrder.status, NONE before the insert.
OrderStatuses ==
    {"NONE", "PENDING", "COMPLETED", "EXPIRED", "CANCELED", "REFUNDED"}
====
