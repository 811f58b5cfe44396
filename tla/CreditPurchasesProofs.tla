---- MODULE CreditPurchasesProofs ----
(***************************************************************************)
(* What the operations on a credit_balances row do, for every row and      *)
(* amount; what CreditPurchases keeps for any number of overlapping        *)
(* handlers, orders, refunds and faults; that one handler at a time        *)
(* implements CreditLedger; and what CreditLedger promises.                *)
(***************************************************************************)
EXTENDS MCCreditPurchases, TLAPS

\* Credits are taken from the two balances without overdrawing either, and the
\* total falls by exactly the amount (CreditBalance.deduct takes bonus first).
LEMMA TakeBonusFirstExact ==
    ASSUME NEW acct \in BalanceRow, NEW amount \in Nat, CanAfford(acct, amount)
    PROVE  /\ TakeBonusFirst(acct, amount) \in BalanceRow
           /\ TotalAvailable(TakeBonusFirst(acct, amount)) = TotalAvailable(acct) - amount
<1>1. /\ acct["balance"] \in Nat
      /\ acct["bonus"] \in Nat
      /\ acct["balance"] + acct["bonus"] >= amount
    BY DEF BalanceRow, Columns, CanAfford, TotalAvailable
<1>2. CASE acct["bonus"] <= amount
    BY <1>1, <1>2 DEF TakeBonusFirst, Lesser, TotalAvailable, BalanceRow, Columns
<1>3. CASE ~(acct["bonus"] <= amount)
    BY <1>1, <1>3 DEF TakeBonusFirst, Lesser, TotalAvailable, BalanceRow, Columns
<1> QED BY <1>2, <1>3

\* An overage charge that the account can afford leaves a legal row.
LEMMA DeductExact ==
    ASSUME NEW acct \in BalanceRow, NEW amount \in Nat, CanAfford(acct, amount)
    PROVE  /\ Deduct(acct, amount) \in BalanceRow
           /\ TotalAvailable(Deduct(acct, amount)) = TotalAvailable(acct) - amount
<1>1. /\ TakeBonusFirst(acct, amount) \in BalanceRow
      /\ TotalAvailable(TakeBonusFirst(acct, amount)) = TotalAvailable(acct) - amount
    BY TakeBonusFirstExact
<1> DEFINE taken == TakeBonusFirst(acct, amount)
<1>2. Deduct(acct, amount) = [taken EXCEPT !["used"] = @ + amount]
    BY DEF Deduct
<1> HIDE DEF taken
<1>3. taken \in BalanceRow /\ TotalAvailable(taken) = TotalAvailable(acct) - amount
    BY <1>1 DEF taken
<1> QED BY <1>2, <1>3 DEF BalanceRow, Columns, TotalAvailable

\* A purchase adds its credits to what can be spent.
LEMMA AddPurchaseExact ==
    ASSUME NEW acct \in BalanceRow, NEW credits \in Nat
    PROVE  /\ AddPurchase(acct, credits) \in BalanceRow
           /\ TotalAvailable(AddPurchase(acct, credits)) = TotalAvailable(acct) + credits
BY DEF AddPurchase, BalanceRow, Columns, TotalAvailable

\* A refund takes what is recoverable and nothing more, and no column of the
\* row goes below zero (refund_purchase clamps each of them).
LEMMA ClawBackExact ==
    ASSUME NEW acct \in BalanceRow, NEW credits \in Nat
    PROVE  /\ ClawBack(acct, credits) \in BalanceRow
           /\ Recoverable(acct, credits) \in Nat
           /\ TotalAvailable(ClawBack(acct, credits))
                = TotalAvailable(acct) - Recoverable(acct, credits)
<1>1. TotalAvailable(acct) \in Nat
    BY DEF TotalAvailable, BalanceRow, Columns
<1>2. /\ Recoverable(acct, credits) \in Nat
      /\ CanAfford(acct, Recoverable(acct, credits))
    BY <1>1 DEF Recoverable, Lesser, CanAfford
<1> DEFINE amount == Recoverable(acct, credits)
<1> DEFINE taken == TakeBonusFirst(acct, amount)
<1>3. taken \in BalanceRow /\ TotalAvailable(taken) = TotalAvailable(acct) - amount
    BY <1>2, TakeBonusFirstExact
<1>4. CASE amount = 0
    BY <1>1, <1>2, <1>4 DEF ClawBack
<1>5. CASE amount # 0
    <2>1. ClawBack(acct, credits) =
            [taken EXCEPT !["purchased"] = LessOrZero(@, credits),
                          !["received"] = LessOrZero(@, credits)]
        BY <1>5 DEF ClawBack
    <2> HIDE DEF taken
    <2>2. /\ LessOrZero(taken["purchased"], credits) \in Nat
          /\ LessOrZero(taken["received"], credits) \in Nat
        BY <1>3 DEF BalanceRow, Columns, LessOrZero
    <2>3. /\ ClawBack(acct, credits) \in BalanceRow
          /\ TotalAvailable(ClawBack(acct, credits)) = TotalAvailable(taken)
        BY <1>3, <2>1, <2>2 DEF BalanceRow, Columns, TotalAvailable
    <2> QED BY <1>2, <1>3, <2>3
<1> QED BY <1>4, <1>5

\* An allocation replaces the regular balance; what it overwrites plus what it
\* leaves accounts for the credits it pays in.
LEMMA AllocateExact ==
    ASSUME NEW acct \in BalanceRow, NEW monthly \in Nat
    PROVE  /\ Allocate(acct, monthly) \in BalanceRow
           /\ TotalAvailable(Allocate(acct, monthly))
                = TotalAvailable(acct) + monthly - acct["balance"]
BY DEF Allocate, BalanceRow, Columns, TotalAvailable

\* A grant adds its amount to one of the two balances.
LEMMA GrantExact ==
    ASSUME NEW acct \in BalanceRow, NEW amount \in Nat,
           NEW column \in {"balance", "bonus"}
    PROVE  /\ Grant(acct, column, amount) \in BalanceRow
           /\ TotalAvailable(Grant(acct, column, amount)) = TotalAvailable(acct) + amount
<1>1. CASE column = "balance"
    BY <1>1 DEF Grant, BalanceRow, Columns, TotalAvailable
<1>2. CASE column = "bonus"
    BY <1>2 DEF Grant, BalanceRow, Columns, TotalAvailable
<1> QED BY <1>1, <1>2

-----------------------------------------------------------------------------
\* A stale write is still a legal row: each column is either the committed value
\* or the one the handler computed from the row it had read.
LEMMA FlushIsRow ==
    ASSUME NEW w \in Workers, row \in BalanceRow, NEW new \in BalanceRow
    PROVE  Flush(w, new) \in BalanceRow
BY DEF Flush, BalanceRow

LEMMA JobTypes ==
    ASSUME NEW w \in Workers, TypeOK
    PROVE  /\ job[w].kind = "webhook" => job[w].event \in Events
           /\ job[w].kind \in {"checkout", "admin_refund"} => job[w].order \in Orders
           /\ job[w].kind \in {"charge", "allocate", "grant_bonus", "grant_balance"} =>
                 job[w].amount \in Amounts
           /\ IsRefund(w) \/ job[w].kind = "webhook" => OrderOf(w) \in Orders
BY DEF TypeOK, Jobs, RowJobs, OrderJobs, WebhookJobs, NoJob, Events,
       IsRefund, IsEvent, OrderOf

LEMMA EventType ==
    ASSUME NEW o \in Orders, TypeOK
    PROVE  /\ Event("completed", o, 0) \in Events
           /\ Event("expired", o, 0) \in Events
           /\ Event("failed", o, 0) \in Events
           /\ refunded[o] < MaxRefunds => Event("refunded", o, refunded[o] + 1) \in Events
BY BoundsAssumption DEF Event, Events, TypeOK

LEMMA EmptyRowType == EmptyRow \in BalanceRow
BY DEF EmptyRow, BalanceRow

LEMMA TypeInit == Init => TypeOK
BY BoundsAssumption, EmptyRowType
   DEF Init, TypeOK, OrderStatuses, Places, Jobs, NoJob

LEMMA TypeNext == TypeOK /\ HandlersAgree /\ [Next]_vars => TypeOK'
<1> SUFFICES ASSUME TypeOK, HandlersAgree, [Next]_vars PROVE TypeOK'
    OBVIOUS
<1> USE BoundsAssumption, EmptyRowType
<1>1. ASSUME NEW w \in Workers, NEW o \in Orders, CreateSession(w, o) PROVE TypeOK'
    BY <1>1 DEF CreateSession, Begin, TypeOK, database, Places, Jobs, OrderJobs
<1>2. ASSUME NEW w \in Workers, InsertOrder(w) PROVE TypeOK'
    BY <1>2 DEF InsertOrder, Finish, TypeOK, stripe, Places, Jobs, NoJob, OrderStatuses
<1>3. ASSUME NEW o \in Orders, Pay(o) PROVE TypeOK'
    BY <1>3, EventType DEF Pay, TypeOK, database, handlers
<1>4. ASSUME NEW o \in Orders, CloseSession(o) PROVE TypeOK'
    BY <1>4, EventType DEF CloseSession, TypeOK, database, handlers
<1>5. ASSUME NEW o \in Orders, DashboardRefund(o) PROVE TypeOK'
    BY <1>5, EventType DEF DashboardRefund, RefundPayment, TypeOK, database, handlers
<1>6. ASSUME NEW w \in Workers, NEW e \in emitted, RecordEvent(w, e) PROVE TypeOK'
    BY <1>6 DEF RecordEvent, Begin, TypeOK, stripe, Places, Jobs, WebhookJobs
<1>7. ASSUME NEW w \in Workers, NEW e \in emitted, DuplicateEvent(w, e) PROVE TypeOK'
    BY <1>7 DEF DuplicateEvent, TypeOK, database, handlers
<1>8. ASSUME NEW w \in Workers, LookupOrder(w) PROVE TypeOK'
    BY <1>8 DEF LookupOrder, Goto, TypeOK, database, stripe, Places
<1>9. ASSUME NEW w \in Workers, SkipOrder(w) PROVE TypeOK'
    BY <1>9, JobTypes DEF SkipOrder, Finish, Answer, TypeOK, database, Places, Jobs, NoJob
<1>10. ASSUME NEW w \in Workers, LookupPendingToClose(w) PROVE TypeOK'
    BY <1>10 DEF LookupPendingToClose, Goto, TypeOK, database, stripe, Places
<1>11. ASSUME NEW w \in Workers, NEW o \in Orders, AdminRefund(w, o) PROVE TypeOK'
    BY <1>11 DEF AdminRefund, Begin, TypeOK, database, stripe, Places, Jobs, OrderJobs
<1>12. ASSUME NEW w \in Workers, AdminRefundCall(w) PROVE TypeOK'
    <2>1. job[w].order \in Orders
        BY <1>12, JobTypes DEF AdminRefundCall, HandlersAgree
    <2> QED
      BY <1>12, <2>1, EventType
       DEF AdminRefundCall, RefundPayment, Goto, TypeOK, database, stripe, Places
<1>13. ASSUME NEW w \in Workers, NEW j \in RowJobs, StartRowJob(w, j) PROVE TypeOK'
    BY <1>13 DEF StartRowJob, Begin, TypeOK, database, stripe, Places, Jobs
<1>14. ASSUME NEW w \in Workers, LoadRow(w) PROVE TypeOK'
    BY <1>14 DEF LoadRow, TypeOK, database, stripe, Places
<1>15. ASSUME NEW w \in Workers, CommitEnds(w)
       PROVE  /\ recorded' \subseteq Events
              /\ pc' \in [Workers -> Places]
              /\ job' \in [Workers -> Jobs]
              /\ snap' \in [Workers -> BalanceRow]
              /\ session' \in [Orders -> {"none", "open", "paid", "closed", "refunded"}]
              /\ refunded' \in [Orders -> 0..MaxRefunds]
              /\ emitted' \subseteq Events
              /\ answered' \subseteq Events
              /\ rowOps' \in 0..MaxRowOps
              /\ faults' \in 0..MaxFaults
    BY <1>15, JobTypes DEF CommitEnds, Finish, Answer, TypeOK, Places, Jobs, NoJob
<1>16. ASSUME NEW w \in Workers, CommitPurchase(w) PROVE TypeOK'
    <2>1. OrderOf(w) \in Orders /\ Credits[OrderOf(w)] \in Nat
        BY <1>16, JobTypes, CreditsAssumption DEF CommitPurchase, IsEvent
    <2>2. snap[w] \in BalanceRow
        BY DEF TypeOK
    <2>3. row' \in BalanceRow
        BY <1>16, <2>1, <2>2, AddPurchaseExact, FlushIsRow DEF CommitPurchase, TypeOK
    <2> QED BY <1>15, <1>16, <2>1, <2>3 DEF CommitPurchase, TypeOK, OrderStatuses
<1>17. ASSUME NEW w \in Workers, CommitClose(w) PROVE TypeOK'
    BY <1>15, <1>17 DEF CommitClose, TypeOK, OrderStatuses
<1>18. ASSUME NEW w \in Workers, CommitRefund(w) PROVE TypeOK'
    <2>1. OrderOf(w) \in Orders /\ Credits[OrderOf(w)] \in Nat
        BY <1>18, JobTypes, CreditsAssumption DEF CommitRefund
    <2>2. snap[w] \in BalanceRow
        BY DEF TypeOK
    <2>3. row' \in BalanceRow /\ Recoverable(snap[w], Credits[OrderOf(w)]) \in Nat
        BY <1>18, <2>1, <2>2, ClawBackExact, FlushIsRow DEF CommitRefund, TypeOK
    <2> QED BY <1>15, <1>18, <2>1, <2>3 DEF CommitRefund, TypeOK, OrderStatuses
<1>19. ASSUME NEW w \in Workers, CommitCharge(w) PROVE TypeOK'
    <2>1. job[w].amount \in Nat /\ snap[w] \in BalanceRow
        BY <1>19, JobTypes, AmountsAssumption DEF CommitCharge, TypeOK
    <2>2. row' \in BalanceRow
        BY <1>19, <2>1, DeductExact, FlushIsRow DEF CommitCharge, TypeOK
    <2> QED BY <1>15, <1>19, <2>1, <2>2 DEF CommitCharge, TypeOK
<1>20. ASSUME NEW w \in Workers, RefuseCharge(w) PROVE TypeOK'
    BY <1>15, <1>20 DEF RefuseCharge, TypeOK
<1>21. ASSUME NEW w \in Workers, CommitAllocation(w) PROVE TypeOK'
    <2>1. job[w].amount \in Nat /\ snap[w] \in BalanceRow
        BY <1>21, JobTypes, AmountsAssumption DEF CommitAllocation, TypeOK
    <2>2. row' \in BalanceRow
        BY <1>21, <2>1, AllocateExact, FlushIsRow DEF CommitAllocation, TypeOK
    <2>3. snap[w]["balance"] \in Nat
        BY <2>1 DEF BalanceRow, Columns
    <2> QED BY <1>15, <1>21, <2>1, <2>2, <2>3 DEF CommitAllocation, TypeOK
<1>22. ASSUME NEW w \in Workers, CommitGrant(w) PROVE TypeOK'
    <2>1. job[w].amount \in Nat /\ snap[w] \in BalanceRow
        BY <1>22, JobTypes, AmountsAssumption DEF CommitGrant, TypeOK
    <2>2. row' \in BalanceRow
        BY <1>22, <2>1, GrantExact, FlushIsRow DEF CommitGrant, TypeOK
    <2> QED BY <1>15, <1>22, <2>1, <2>2 DEF CommitGrant, TypeOK
<1>23. ASSUME NEW w \in Workers, Crash(w) PROVE TypeOK'
    BY <1>23 DEF Crash, Finish, TypeOK, database, stripe, Places, Jobs, NoJob
<1>24. ASSUME NEW w \in Workers, HandlerError(w) PROVE TypeOK'
    BY <1>24, JobTypes DEF HandlerError, Finish, TypeOK, database, Places, Jobs, NoJob
<1>25. CASE UNCHANGED vars
    BY <1>25 DEF vars, database, handlers, stripe, TypeOK
<1> QED
    BY <1>1, <1>2, <1>3, <1>4, <1>5, <1>6, <1>7, <1>8, <1>9, <1>10, <1>11, <1>12,
       <1>13, <1>14, <1>16, <1>17, <1>18, <1>19, <1>20, <1>21, <1>22, <1>23,
       <1>24, <1>25 DEF Next, Steps, Deliver

-----------------------------------------------------------------------------
Rest == HandlersAgree /\ HandlersExclude /\ EventsAreTrue /\ CreditedOnceIfPaid

LEMMA RestInit == Init => Rest
BY DEF Init, Rest, HandlersAgree, HandlersExclude, EventsAreTrue,
       CreditedOnceIfPaid, NoJob, IsEvent, IsRefund, Closes

\* A handler that ends and leaves orders and events alone disturbs nobody.
LEMMA EndingKeepsRest ==
    ASSUME TypeOK, Rest, NEW w \in Workers,
           pc' = [pc EXCEPT ![w] = "idle"],
           job' = [job EXCEPT ![w] = NoJob],
           UNCHANGED <<status, purchases, recorded, session, emitted>>
    PROVE  Rest'
<1> USE DEF Rest, IsEvent, IsRefund, Closes, OrderOf, TypeOK, NoJob
<1>1. HandlersAgree'
    BY DEF HandlersAgree
<1>2. HandlersExclude'
    BY DEF HandlersExclude
<1>3. EventsAreTrue' /\ CreditedOnceIfPaid'
    BY DEF EventsAreTrue, CreditedOnceIfPaid
<1> QED BY <1>1, <1>2, <1>3

LEMMA RestNext == TypeOK /\ Rest /\ [Next]_vars => Rest'
<1> SUFFICES ASSUME TypeOK, Rest, [Next]_vars PROVE Rest'
    OBVIOUS
<1>a. ASSUME NEW w \in Workers, SkipOrder(w) PROVE Rest'
    BY <1>a, EndingKeepsRest DEF SkipOrder, Finish, database
<1>b. ASSUME NEW w \in Workers,
              CommitCharge(w) \/ RefuseCharge(w) \/ CommitAllocation(w) \/ CommitGrant(w)
       PROVE  Rest'
    <2>1. /\ pc' = [pc EXCEPT ![w] = "idle"]
          /\ job' = [job EXCEPT ![w] = NoJob]
          /\ UNCHANGED <<status, purchases, recorded, session, emitted>>
        BY <1>b DEF CommitCharge, RefuseCharge, CommitAllocation, CommitGrant,
                     CommitEnds, Finish
    <2> QED BY <2>1, EndingKeepsRest
<1>c. ASSUME NEW w \in Workers, Crash(w) \/ HandlerError(w) PROVE Rest'
    <2>1. /\ pc' = [pc EXCEPT ![w] = "idle"]
          /\ job' = [job EXCEPT ![w] = NoJob]
          /\ UNCHANGED <<status, purchases, recorded, session, emitted>>
        BY <1>c DEF Crash, HandlerError, Finish, database, stripe
    <2> QED BY <2>1, EndingKeepsRest
<1> USE DEF Rest, HandlersAgree, HandlersExclude, EventsAreTrue, CreditedOnceIfPaid,
            IsEvent, IsRefund, Closes, OrderOf, TypeOK
<1>1. ASSUME NEW w \in Workers, NEW o \in Orders, CreateSession(w, o) PROVE Rest'
    <2>1. HandlersAgree'
        BY <1>1 DEF CreateSession, Begin, database, NoJob
    <2>2. HandlersExclude'
        BY <1>1 DEF CreateSession, Begin, database, NoJob
    <2>3. EventsAreTrue' /\ CreditedOnceIfPaid'
        BY <1>1 DEF CreateSession, database
    <2> QED BY <2>1, <2>2, <2>3
<1>2. ASSUME NEW w \in Workers, InsertOrder(w) PROVE Rest'
    BY <1>2 DEF InsertOrder, Finish, stripe, NoJob
<1>3. ASSUME NEW o \in Orders, Pay(o) PROVE Rest'
    <2>1. \A e \in emitted : e.order = o => e.type = "refunded"
        BY <1>3 DEF Pay, Events
    <2>2. EventsAreTrue'
        BY <1>3, <2>1 DEF Pay, database, Event
    <2>3. CreditedOnceIfPaid' /\ HandlersAgree' /\ HandlersExclude'
        BY <1>3 DEF Pay, database, handlers
    <2> QED BY <2>2, <2>3
<1>4. ASSUME NEW o \in Orders, CloseSession(o) PROVE Rest'
    <2>1. \A e \in emitted : e.order = o => e.type = "refunded"
        BY <1>4 DEF CloseSession, Events
    <2>2. EventsAreTrue'
        BY <1>4, <2>1 DEF CloseSession, database, Event
    <2>3. CreditedOnceIfPaid' /\ HandlersAgree' /\ HandlersExclude'
        BY <1>4 DEF CloseSession, database, handlers
    <2> QED BY <2>2, <2>3
<1>5. ASSUME NEW o \in Orders, DashboardRefund(o) PROVE Rest'
    BY <1>5, EventType DEF DashboardRefund, RefundPayment, database, handlers, Event
<1>6. ASSUME NEW w \in Workers, NEW e \in emitted, RecordEvent(w, e) PROVE Rest'
    BY <1>6 DEF RecordEvent, Begin, stripe
<1>7. ASSUME NEW w \in Workers, NEW e \in emitted, DuplicateEvent(w, e) PROVE Rest'
    BY <1>7 DEF DuplicateEvent, database, handlers
<1>8. ASSUME NEW w \in Workers, LookupOrder(w) PROVE Rest'
    BY <1>8 DEF LookupOrder, Proceeds, Goto, database, stripe
<1>10. ASSUME NEW w \in Workers, LookupPendingToClose(w) PROVE Rest'
    BY <1>10 DEF LookupPendingToClose, Goto, database, stripe
<1>11. ASSUME NEW w \in Workers, NEW o \in Orders, AdminRefund(w, o) PROVE Rest'
    BY <1>11 DEF AdminRefund, Begin, database, stripe, NoJob
<1>12. ASSUME NEW w \in Workers, AdminRefundCall(w) PROVE Rest'
    <2>1. job[w].order \in Orders /\ pc[w] = "stripe_refund"
        BY <1>12, JobTypes DEF AdminRefundCall
    <2> DEFINE o == job[w].order
    <2>a. CASE RefundPayment(o, "refunded")
        BY <1>12, <2>1, <2>a DEF AdminRefundCall, RefundPayment, Goto, database, Event
    <2>b. CASE UNCHANGED stripe
        BY <1>12, <2>1, <2>b DEF AdminRefundCall, Goto, database, stripe
    <2> QED BY <1>12, <2>a, <2>b DEF AdminRefundCall
<1>13. ASSUME NEW w \in Workers, NEW j \in RowJobs, StartRowJob(w, j) PROVE Rest'
    BY <1>13 DEF StartRowJob, Begin, database, stripe, RowJobs, NoJob
<1>14. ASSUME NEW w \in Workers, LoadRow(w) PROVE Rest'
    BY <1>14 DEF LoadRow, database, stripe
<1>15. ASSUME NEW w \in Workers, CommitPurchase(w) PROVE Rest'
    <2> DEFINE o == job[w].event.order
    <2>1. /\ job[w].kind = "webhook" /\ job[w].event.type = "completed"
          /\ pc[w] = "commit" /\ OrderOf(w) = o
          /\ job[w].event \in recorded
          /\ status[o] = "PENDING" /\ session[o] \in {"paid", "refunded"}
        BY <1>15 DEF CommitPurchase, CommitEnds
    <2>2. o \in Orders
        BY <2>1, JobTypes
    <2>3. \A v \in Workers \ {w} :
             /\ IsEvent(v, "completed") => job[v].event.order # o
             /\ Closes(v) => job[v].event.order # o
             /\ pc[v] = "insert" => job[v].order # o
        <3>1. ASSUME NEW v \in Workers \ {w}, IsEvent(v, "completed"),
                     job[v].event.order = o
              PROVE  FALSE
            BY <2>1, <3>1
        <3>2. ASSUME NEW v \in Workers \ {w}, Closes(v),
                     job[v].event.order = o
              PROVE  FALSE
            BY <2>1, <3>2
        <3> QED BY <2>1, <3>1, <3>2
    <2>4. /\ status' = [status EXCEPT ![o] = "COMPLETED"]
          /\ purchases' = [purchases EXCEPT ![o] = @ + 1]
          /\ UNCHANGED <<recorded, session, emitted>>
          /\ pc' = [pc EXCEPT ![w] = "idle"]
          /\ job' = [job EXCEPT ![w] = NoJob]
        BY <1>15, <2>1 DEF CommitPurchase, CommitEnds, Finish
    <2>5. EventsAreTrue' /\ HandlersExclude'
        <3>1. EventsAreTrue'
            BY <2>1, <2>2, <2>4
        <3>2. HandlersExclude'
            BY <2>4 DEF NoJob
        <3> QED BY <3>1, <3>2
    <2>6. CreditedOnceIfPaid'
        BY <2>1, <2>2, <2>4
    <2>7. HandlersAgree'
        BY <2>2, <2>3, <2>4 DEF NoJob
    <2> QED BY <2>5, <2>6, <2>7
<1>16. ASSUME NEW w \in Workers, CommitClose(w) PROVE Rest'
    <2> DEFINE o == job[w].event.order
               final == IF IsEvent(w, "expired") THEN "EXPIRED" ELSE "CANCELED"
    <2>1. /\ Closes(w) /\ job[w].kind = "webhook" /\ OrderOf(w) = o
          /\ job[w].event \in recorded /\ job[w].event.type # "refunded"
          /\ status[o] = "PENDING" /\ session[o] = "closed"
        BY <1>16 DEF CommitClose, CommitEnds
    <2>2. o \in Orders
        BY <2>1, JobTypes
    <2>3. \A v \in Workers \ {w} :
             /\ IsEvent(v, "completed") => job[v].event.order # o
             /\ Closes(v) => job[v].event.order # o
             /\ pc[v] = "insert" => job[v].order # o
        BY <2>1
    <2>4. /\ status' = [status EXCEPT ![o] = final]
          /\ final \in {"EXPIRED", "CANCELED"}
          /\ UNCHANGED <<recorded, session, emitted, purchases>>
          /\ pc' = [pc EXCEPT ![w] = "idle"]
          /\ job' = [job EXCEPT ![w] = NoJob]
        BY <1>16, <2>1 DEF CommitClose, CommitEnds, Finish
    <2> HIDE DEF final
    <2>5. EventsAreTrue'
        BY <2>1, <2>2, <2>4
    <2>6. HandlersExclude'
        BY <2>4 DEF NoJob
    <2>7. CreditedOnceIfPaid'
        BY <2>1, <2>2, <2>4
    <2>8. HandlersAgree'
        BY <2>1, <2>2, <2>3, <2>4 DEF NoJob
    <2> QED BY <2>5, <2>6, <2>7, <2>8
<1>17. ASSUME NEW w \in Workers, CommitRefund(w) PROVE Rest'
    <2> DEFINE o == OrderOf(w)
    <2>1. IsRefund(w) /\ status[o] \in {"COMPLETED", "REFUNDED"}
        BY <1>17 DEF CommitRefund, CommitEnds
    <2>2. o \in Orders
        BY <2>1, JobTypes
    <2>3. /\ status' = [status EXCEPT ![o] = "REFUNDED"]
          /\ UNCHANGED <<recorded, session, emitted, purchases>>
          /\ pc' = [pc EXCEPT ![w] = "idle"]
          /\ job' = [job EXCEPT ![w] = NoJob]
        BY <1>17, <2>1 DEF CommitRefund, CommitEnds, Finish
    <2> HIDE DEF o
    <2>4. EventsAreTrue'
        BY <2>1, <2>2, <2>3
    <2>5. HandlersExclude'
        BY <2>3 DEF NoJob
    <2>6. CreditedOnceIfPaid'
        BY <2>1, <2>2, <2>3
    <2>7. HandlersAgree'
        BY <2>1, <2>2, <2>3 DEF NoJob
    <2> QED BY <2>4, <2>5, <2>6, <2>7
<1>20. CASE UNCHANGED vars
    BY <1>20 DEF vars, database, handlers, stripe
<1> QED
    BY <1>1, <1>2, <1>3, <1>4, <1>5, <1>6, <1>7, <1>8, <1>a, <1>10, <1>11, <1>12,
       <1>13, <1>14, <1>15, <1>16, <1>17, <1>b, <1>c, <1>20 DEF Next, Steps, Deliver

\* The inductive invariant holds initially and is kept by every step.
LEMMA PurchaseInvInductive ==
    /\ Init => PurchaseInv
    /\ PurchaseInv /\ [Next]_vars => PurchaseInv'
BY TypeInit, TypeNext, RestInit, RestNext DEF PurchaseInv, Rest

\* With any number of web instances, redeliveries, crashes and lost answers the
\* row stays legal (no balance below zero) and an order's credits are applied
\* once, only if it was paid, exactly when its status says so.
THEOREM PurchasesCorrect == Spec => [](TypeOK /\ CreditedOnceIfPaid)
<1>1. PurchaseInv => TypeOK /\ CreditedOnceIfPaid
    BY DEF PurchaseInv
<1> QED BY <1>1, PurchaseInvInductive, PTL DEF Spec

\* The types alone; in particular no balance ever goes below zero.
THEOREM TypesCorrect == Spec => []TypeOK
BY PurchasesCorrect, PTL

\* No stale commit takes an order back.
THEOREM OrdersOnlyMoveForward == Spec => OrdersMoveForward
<1> DEFINE Forward == \A o \in Orders : status'[o] # status[o] =>
          <<status[o], status'[o]>> \in
              {<<"NONE", "PENDING">>, <<"PENDING", "COMPLETED">>,
               <<"PENDING", "EXPIRED">>, <<"PENDING", "CANCELED">>,
               <<"COMPLETED", "REFUNDED">>}
<1>1. PurchaseInv /\ [Next]_vars => [Forward]_vars
    <2> SUFFICES ASSUME PurchaseInv, Next, NEW o \in Orders, status'[o] # status[o]
                 PROVE  <<status[o], status'[o]>> \in
                          {<<"NONE", "PENDING">>, <<"PENDING", "COMPLETED">>,
                           <<"PENDING", "EXPIRED">>, <<"PENDING", "CANCELED">>,
               <<"COMPLETED", "REFUNDED">>}
        OBVIOUS
    <2> USE DEF PurchaseInv, HandlersAgree, EventsAreTrue, CreditedOnceIfPaid, TypeOK,
                IsEvent, IsRefund, Closes, OrderOf
    <2>1. ASSUME NEW w \in Workers, InsertOrder(w)
          PROVE  status[o] = "NONE" /\ status'[o] = "PENDING"
        BY <2>1 DEF InsertOrder
    <2>2. ASSUME NEW w \in Workers, CommitPurchase(w)
          PROVE  status[o] = "PENDING" /\ status'[o] = "COMPLETED"
        BY <2>2 DEF CommitPurchase, CommitEnds
    <2>3. ASSUME NEW w \in Workers, CommitClose(w)
          PROVE  status[o] = "PENDING" /\ status'[o] \in {"EXPIRED", "CANCELED"}
        BY <2>3 DEF CommitClose, CommitEnds, OrderStatuses
    <2>4. ASSUME NEW w \in Workers, CommitRefund(w)
          PROVE  status[o] = "COMPLETED" /\ status'[o] = "REFUNDED"
        BY <2>4 DEF CommitRefund, CommitEnds
    <2>5. \/ \E w \in Workers : InsertOrder(w) \/ CommitPurchase(w)
                               \/ CommitClose(w) \/ CommitRefund(w)
          \/ status' = status
        BY DEF Next, Steps, Deliver, CreateSession, Pay, CloseSession, DashboardRefund,
               RecordEvent, DuplicateEvent, LookupOrder, SkipOrder,
               LookupPendingToClose, AdminRefund, AdminRefundCall, StartRowJob,
               LoadRow, CommitCharge, RefuseCharge, CommitAllocation, CommitGrant,
               Crash, HandlerError, database
    <2> QED BY <2>1, <2>2, <2>3, <2>4, <2>5
<1> QED BY <1>1, PurchaseInvInductive, PTL DEF Spec, OrdersMoveForward

-----------------------------------------------------------------------------
\* Requests do not overlap: one handler serves them all.
OneWorker == \E w : Workers = {w}

\* What the only handler has read is still so when it commits.
ReadsAreFresh ==
    \A w \in Workers :
        /\ pc[w] = "commit" /\ ~Closes(w) => snap[w] = row
        /\ IsRefund(w) /\ pc[w] # "lookup" => status[OrderOf(w)] = "COMPLETED"

\* Nothing is flushed that was not computed, when the row is the one that was read.
LEMMA FlushOfFresh ==
    ASSUME NEW w \in Workers, snap[w] = row, row \in BalanceRow, NEW new \in BalanceRow
    PROVE  Flush(w, new) = new
BY DEF Flush, BalanceRow

\* Initially no handler has read anything.
LEMMA FreshInit == Init => ReadsAreFresh
BY DEF Init, ReadsAreFresh, NoJob, IsRefund, IsEvent

\* A handler that ends relies on nothing.
LEMMA FreshAtEnd ==
    ASSUME OneWorker, TypeOK, NEW w \in Workers, Finish(w)
    PROVE  ReadsAreFresh'
<1>1. \A v \in Workers : pc'[v] = "idle" /\ job'[v] = NoJob
    BY DEF OneWorker, Finish, TypeOK
<1> QED
    BY <1>1 DEF ReadsAreFresh, IsRefund, IsEvent, NoJob

\* With one handler nothing changes between its reads and its commit.
LEMMA FreshNext ==
    ASSUME OneWorker, PurchaseInv, ReadsAreFresh, [Next]_vars
    PROVE  ReadsAreFresh'
<1>1. TypeOK /\ HandlersAgree
    BY DEF PurchaseInv
<1>2. ASSUME UNCHANGED <<pc, job, snap, row, status>> PROVE ReadsAreFresh'
    BY <1>2 DEF ReadsAreFresh, Closes, IsRefund, IsEvent, OrderOf
<1>3. ASSUME NEW w \in Workers,
             \/ InsertOrder(w) \/ SkipOrder(w) \/ CommitPurchase(w) \/ CommitClose(w)
             \/ CommitRefund(w) \/ CommitCharge(w) \/ RefuseCharge(w)
             \/ CommitAllocation(w) \/ CommitGrant(w) \/ Crash(w) \/ HandlerError(w)
      PROVE  ReadsAreFresh'
    <2>1. Finish(w)
        BY <1>3 DEF InsertOrder, SkipOrder, CommitPurchase, CommitClose, CommitRefund,
               CommitCharge, RefuseCharge, CommitAllocation, CommitGrant, CommitEnds,
               Crash, HandlerError
    <2> QED BY <1>1, <2>1, FreshAtEnd
<1>4. ASSUME NEW w \in Workers, NEW j \in Jobs, NEW place \in Places,
             pc' = [pc EXCEPT ![w] = place], job' = [job EXCEPT ![w] = j],
             status' = status, place # "commit",
             j.kind = "admin_refund" => status[j.order] = "COMPLETED",
             j.kind = "webhook" => place = "lookup"
      PROVE  ReadsAreFresh'
    <2>1. \A v \in Workers : v = w
        BY DEF OneWorker
    <2>2. pc'[w] = place /\ job'[w] = j
        BY <1>1, <1>4 DEF TypeOK
    <2> QED
        BY <1>4, <2>1, <2>2 DEF ReadsAreFresh, IsRefund, IsEvent, OrderOf
<1>5. ASSUME NEW w \in Workers, NEW o \in Orders, CreateSession(w, o) PROVE ReadsAreFresh'
    BY <1>4, <1>5 DEF CreateSession, Begin, database, Jobs, OrderJobs, Places
<1>6. ASSUME NEW w \in Workers, NEW o \in Orders, AdminRefund(w, o) PROVE ReadsAreFresh'
    BY <1>4, <1>6 DEF AdminRefund, Begin, database, Jobs, OrderJobs, Places
<1>7. ASSUME NEW w \in Workers, NEW j \in RowJobs, StartRowJob(w, j) PROVE ReadsAreFresh'
    BY <1>4, <1>7 DEF StartRowJob, Begin, database, Jobs, RowJobs, Places
<1>8. ASSUME NEW w \in Workers, NEW e \in emitted, RecordEvent(w, e) PROVE ReadsAreFresh'
    BY <1>1, <1>4, <1>8 DEF RecordEvent, Begin, TypeOK, Jobs, WebhookJobs, Places
<1>9. ASSUME NEW w \in Workers, LookupOrder(w) PROVE ReadsAreFresh'
    <2>1. \A v \in Workers : v = w
        BY DEF OneWorker
    <2>2. /\ pc'[w] = "load" /\ job'[w] = job[w] /\ status' = status /\ Proceeds(w)
          /\ pc[w] = "lookup"
        BY <1>1, <1>9 DEF LookupOrder, Goto, database, TypeOK
    <2>3. job[w].kind = "webhook"
        BY <1>1, <2>2 DEF HandlersAgree
    <2> QED
        BY <2>1, <2>2, <2>3 DEF ReadsAreFresh, Proceeds, IsRefund, IsEvent, OrderOf
<1>10. ASSUME NEW w \in Workers, LookupPendingToClose(w) PROVE ReadsAreFresh'
    <2>1. \A v \in Workers : v = w
        BY DEF OneWorker
    <2>2. /\ job'[w] = job[w] /\ status' = status /\ Closes(w)
        BY <1>1, <1>10 DEF LookupPendingToClose, Goto, database, TypeOK
    <2> QED
        BY <2>1, <2>2 DEF ReadsAreFresh, Closes, IsRefund, IsEvent, OrderOf
<1>11. ASSUME NEW w \in Workers, AdminRefundCall(w) PROVE ReadsAreFresh'
    <2>1. \A v \in Workers : v = w
        BY DEF OneWorker
    <2>2. /\ pc'[w] = "load" /\ job'[w] = job[w] /\ status' = status
          /\ pc[w] = "stripe_refund"
        BY <1>1, <1>11 DEF AdminRefundCall, Goto, database, TypeOK
    <2> QED
        BY <2>1, <2>2 DEF ReadsAreFresh, IsRefund, IsEvent, OrderOf
<1>12. ASSUME NEW w \in Workers, LoadRow(w) PROVE ReadsAreFresh'
    <2>1. \A v \in Workers : v = w
        BY DEF OneWorker
    <2>2. /\ snap'[w] = row /\ row' = row /\ job'[w] = job[w] /\ status' = status
          /\ pc[w] = "load"
        BY <1>1, <1>12 DEF LoadRow, database, TypeOK
    <2> QED
        BY <2>1, <2>2 DEF ReadsAreFresh, IsRefund, IsEvent, OrderOf
<1>13. ASSUME \/ \E e \in emitted, w \in Workers : DuplicateEvent(w, e)
              \/ \E o \in Orders : Pay(o) \/ CloseSession(o) \/ DashboardRefund(o)
              \/ UNCHANGED vars
       PROVE  ReadsAreFresh'
    BY <1>2, <1>13
       DEF DuplicateEvent, Pay, CloseSession, DashboardRefund, vars, database, handlers
<1> QED
    BY <1>3, <1>5, <1>6, <1>7, <1>8, <1>9, <1>10, <1>11, <1>12, <1>13
       DEF Next, Steps, Deliver

\* The ledger's operations on the row are the handlers'.
LEMMA SameOperations ==
    ASSUME NEW r, NEW amount, NEW column
    PROVE  /\ Ledger!AddPurchase(r, amount) = AddPurchase(r, amount)
           /\ Ledger!ClawBack(r, amount) = ClawBack(r, amount)
           /\ Ledger!Recoverable(r, amount) = Recoverable(r, amount)
           /\ Ledger!CanAfford(r, amount) = CanAfford(r, amount)
           /\ Ledger!Deduct(r, amount) = Deduct(r, amount)
           /\ Ledger!Allocate(r, amount) = Allocate(r, amount)
           /\ Ledger!Grant(r, column, amount) = Grant(r, column, amount)
<1>1. /\ Ledger!AddPurchase(r, amount) = AddPurchase(r, amount)
      /\ Ledger!Allocate(r, amount) = Allocate(r, amount)
      /\ Ledger!Grant(r, column, amount) = Grant(r, column, amount)
    BY DEF Ledger!AddPurchase, Ledger!Allocate, Ledger!Grant, AddPurchase, Allocate, Grant
<1>2. /\ \A a, b : Ledger!Lesser(a, b) = Lesser(a, b)
      /\ \A a, b : Ledger!LessOrZero(a, b) = LessOrZero(a, b)
      /\ Ledger!TotalAvailable(r) = TotalAvailable(r)
    BY DEF Ledger!Lesser, Ledger!LessOrZero, Ledger!TotalAvailable, Lesser, LessOrZero,
           TotalAvailable
<1>3. /\ Ledger!CanAfford(r, amount) = CanAfford(r, amount)
      /\ Ledger!Recoverable(r, amount) = Recoverable(r, amount)
    BY <1>2, Zenon DEF Ledger!CanAfford, Ledger!Recoverable, CanAfford, Recoverable
<1>4. \A a : Ledger!TakeBonusFirst(r, a) = TakeBonusFirst(r, a)
    BY <1>2, Zenon DEF Ledger!TakeBonusFirst, TakeBonusFirst
<1>5. Ledger!Deduct(r, amount) = Deduct(r, amount)
    BY <1>4, Zenon DEF Ledger!Deduct, Deduct
<1>6. Ledger!ClawBack(r, amount) = ClawBack(r, amount)
    BY <1>2, <1>3, <1>4, Zenon DEF Ledger!ClawBack, ClawBack
<1> QED
    BY <1>1, <1>3, <1>5, <1>6

\* A commit by the only handler is the ledger's operation.
LEMMA CommitsAreOperations ==
    ASSUME OneWorker, PurchaseInv, ReadsAreFresh, NEW w \in Workers,
           \/ CommitPurchase(w) \/ CommitClose(w) \/ CommitRefund(w)
           \/ CommitCharge(w) \/ CommitAllocation(w) \/ CommitGrant(w)
    PROVE  Ledger!Next
<1>1. TypeOK /\ HandlersAgree /\ pc[w] = "commit"
    BY DEF PurchaseInv, CommitPurchase, CommitClose, CommitRefund, CommitCharge,
           CommitAllocation, CommitGrant, CommitEnds
<1>2. row \in BalanceRow /\ (~Closes(w) => snap[w] = row)
    BY <1>1 DEF TypeOK, ReadsAreFresh
<1>3. \A o \in Orders : Credits[o] \in Nat
    BY CreditsAssumption
<1>4. CASE CommitPurchase(w)
    <2> DEFINE o == OrderOf(w)
    <2>1. /\ IsEvent(w, "completed") /\ ~Closes(w)
          /\ row' = Flush(w, AddPurchase(snap[w], Credits[o]))
          /\ status' = [status EXCEPT ![o] = "COMPLETED"]
          /\ posted' = posted + Credits[o]
          /\ purchases' = [purchases EXCEPT ![o] = @ + 1]
          /\ refunds' = refunds /\ lapsed' = lapsed
        BY <1>4 DEF CommitPurchase, Closes, IsEvent
    <2>2. o \in Orders /\ status[o] = "PENDING"
        BY <1>1, <2>1, JobTypes DEF HandlersAgree, IsEvent
    <2>3. AddPurchase(row, Credits[o]) \in BalanceRow
        BY <1>2, <1>3, <2>2, AddPurchaseExact
    <2>4. row' = AddPurchase(row, Credits[o])
        BY <1>2, <2>1, <2>3, FlushOfFresh
    <2> HIDE DEF o
    <2> QED BY <2>1, <2>2, <2>4, SameOperations, Zenon
           DEF Ledger!Next, Ledger!CompleteOrder
<1>5. CASE CommitClose(w)
    <2> DEFINE o == OrderOf(w)
               final == IF IsEvent(w, "expired") THEN "EXPIRED" ELSE "CANCELED"
    <2>1. /\ status' = [status EXCEPT ![o] = final] /\ Closes(w)
          /\ row' = row /\ posted' = posted /\ purchases' = purchases
          /\ refunds' = refunds /\ lapsed' = lapsed
        BY <1>5 DEF CommitClose
    <2>2. o \in Orders /\ status[o] = "PENDING"
        BY <1>1, <2>1, JobTypes DEF HandlersAgree, Closes, IsEvent
    <2>3. final \in {"EXPIRED", "CANCELED"}
        OBVIOUS
    <2> HIDE DEF o, final
    <2> QED BY <2>1, <2>2, <2>3, Zenon DEF Ledger!Next, Ledger!CloseOrder
<1>6. CASE CommitRefund(w)
    <2> DEFINE o == OrderOf(w)
    <2>1. /\ IsRefund(w) /\ ~Closes(w)
          /\ row' = Flush(w, ClawBack(snap[w], Credits[o]))
          /\ status' = [status EXCEPT ![o] = "REFUNDED"]
          /\ posted' = posted - Recoverable(snap[w], Credits[o])
          /\ refunds' = [refunds EXCEPT ![o] = @ + 1]
          /\ purchases' = purchases /\ lapsed' = lapsed
        BY <1>6 DEF CommitRefund, Closes, IsRefund, IsEvent
    <2>2. o \in Orders /\ status[o] = "COMPLETED"
        BY <1>1, <2>1, JobTypes DEF ReadsAreFresh
    <2>3. ClawBack(row, Credits[o]) \in BalanceRow
        BY <1>2, <1>3, <2>2, ClawBackExact
    <2>4. row' = ClawBack(row, Credits[o]) /\ snap[w] = row
        BY <1>2, <2>1, <2>3, FlushOfFresh
    <2> HIDE DEF o
    <2>5. posted' = posted - Recoverable(row, Credits[o])
        BY <2>1, <2>4
    <2> QED BY <2>1, <2>2, <2>4, <2>5, SameOperations, Zenon
           DEF Ledger!Next, Ledger!RefundOrder
<1>7. CASE CommitCharge(w)
    <2> DEFINE amount == job[w].amount
    <2>1. /\ job[w].kind = "charge" /\ CanAfford(snap[w], amount)
          /\ row' = Flush(w, Deduct(snap[w], amount)) /\ posted' = posted - amount
          /\ status' = status /\ purchases' = purchases
          /\ refunds' = refunds /\ lapsed' = lapsed
        BY <1>7 DEF CommitCharge
    <2>2. amount \in Amounts /\ amount \in Nat /\ snap[w] = row
        BY <1>1, <1>2, <2>1, JobTypes, AmountsAssumption DEF Closes, IsEvent
    <2>3. Deduct(row, amount) \in BalanceRow /\ CanAfford(row, amount)
        BY <1>2, <2>1, <2>2, DeductExact
    <2>4. row' = Deduct(row, amount)
        BY <1>2, <2>1, <2>2, <2>3, FlushOfFresh
    <2> HIDE DEF amount
    <2> QED BY <2>1, <2>2, <2>3, <2>4, SameOperations, Zenon
           DEF Ledger!Next, Ledger!Charge
<1>8. CASE CommitAllocation(w)
    <2> DEFINE amount == job[w].amount
    <2>1. /\ job[w].kind = "allocate"
          /\ row' = Flush(w, Allocate(snap[w], amount)) /\ posted' = posted + amount
          /\ lapsed' = lapsed + snap[w]["balance"]
          /\ status' = status /\ purchases' = purchases /\ refunds' = refunds
        BY <1>8 DEF CommitAllocation
    <2>2. amount \in Amounts /\ amount \in Nat /\ snap[w] = row
        BY <1>1, <1>2, <2>1, JobTypes, AmountsAssumption DEF Closes, IsEvent
    <2>3. Allocate(row, amount) \in BalanceRow
        BY <1>2, <2>2, AllocateExact
    <2>4. row' = Allocate(row, amount) /\ lapsed' = lapsed + row["balance"]
        BY <1>2, <2>1, <2>2, <2>3, FlushOfFresh
    <2> HIDE DEF amount
    <2> QED BY <2>1, <2>2, <2>4, SameOperations, Zenon
           DEF Ledger!Next, Ledger!AllocateMonthly
<1>9. CASE CommitGrant(w)
    <2> DEFINE amount == job[w].amount
               column == IF job[w].kind = "grant_bonus" THEN "bonus" ELSE "balance"
    <2>1. /\ job[w].kind \in {"grant_bonus", "grant_balance"}
          /\ row' = Flush(w, Grant(snap[w], column, amount)) /\ posted' = posted + amount
          /\ status' = status /\ purchases' = purchases
          /\ refunds' = refunds /\ lapsed' = lapsed
        BY <1>9 DEF CommitGrant
    <2>2. amount \in Amounts /\ amount \in Nat /\ snap[w] = row
        BY <1>1, <1>2, <2>1, JobTypes, AmountsAssumption DEF Closes, IsEvent
    <2>3. column \in {"balance", "bonus"}
        OBVIOUS
    <2> HIDE DEF amount, column
    <2>4. Grant(row, column, amount) \in BalanceRow
        BY <1>2, <2>2, <2>3, GrantExact
    <2>5. row' = Grant(row, column, amount)
        BY <1>2, <2>1, <2>2, <2>4, FlushOfFresh
    <2> QED BY <2>1, <2>2, <2>3, <2>5, SameOperations, Zenon
           DEF Ledger!Next, Ledger!GrantCredits
<1> QED
    BY <1>4, <1>5, <1>6, <1>7, <1>8, <1>9

\* Every step of the only handler is an operation of the ledger, or none.
LEMMA StepsAreOperations ==
    ASSUME OneWorker, PurchaseInv, ReadsAreFresh, [Next]_vars
    PROVE  [Ledger!Next]_Ledger!vars
<1>1. ASSUME NEW w \in Workers, InsertOrder(w) PROVE Ledger!Next
    <2> DEFINE o == job[w].order
    <2>1. /\ pc[w] = "insert" /\ status' = [status EXCEPT ![o] = "PENDING"]
          /\ row' = row /\ posted' = posted /\ purchases' = purchases
          /\ refunds' = refunds /\ lapsed' = lapsed
        BY <1>1 DEF InsertOrder
    <2>2. o \in Orders /\ status[o] = "NONE"
        BY <2>1, JobTypes DEF PurchaseInv, HandlersAgree
    <2> HIDE DEF o
    <2> QED BY <2>1, <2>2, Zenon DEF Ledger!Next, Ledger!OpenOrder
<1>2. ASSUME UNCHANGED <<row, status, posted, lapsed, purchases, refunds>>
      PROVE  UNCHANGED Ledger!vars
    BY <1>2 DEF Ledger!vars
<1>3. \/ \E w \in Workers : InsertOrder(w)
      \/ \E w \in Workers :
            \/ CommitPurchase(w) \/ CommitClose(w) \/ CommitRefund(w)
            \/ CommitCharge(w) \/ CommitAllocation(w) \/ CommitGrant(w)
      \/ UNCHANGED <<row, status, posted, lapsed, purchases, refunds>>
    BY DEF Next, Steps, Deliver, CreateSession, Pay, CloseSession, DashboardRefund,
           RecordEvent, DuplicateEvent, LookupOrder, SkipOrder, LookupPendingToClose,
           AdminRefund, AdminRefundCall, StartRowJob, LoadRow, RefuseCharge, Crash,
           HandlerError, database, vars
<1> QED
    BY <1>1, <1>2, <1>3, CommitsAreOperations

\* When requests do not overlap, the handlers implement the ledger, whatever Stripe
\* redelivers, whichever handler crashes and whichever answer is lost.
THEOREM HandlersImplementLedger ==
    ASSUME OneWorker
    PROVE  Spec => ImplementsLedger
<1>1. Init => Ledger!Init
    BY DEF Init, Ledger!Init, Ledger!EmptyRow, Ledger!Columns, EmptyRow, Columns
<1> QED
    BY <1>1, PurchaseInvInductive, FreshInit, FreshNext, StepsAreOperations, PTL
       DEF Spec, ImplementsLedger, Ledger!Spec

\* The types of the ledger's variables.
LEMMA LedgerTypes ==
    Ledger!TypeOK <=> /\ row \in BalanceRow
                      /\ status \in [Orders -> OrderStatuses]
                      /\ posted \in Int
                      /\ lapsed \in Nat
                      /\ purchases \in [Orders -> Nat]
                      /\ refunds \in [Orders -> Nat]
BY DEF Ledger!TypeOK, Ledger!BalanceRow, Ledger!Columns, Ledger!OrderStatuses,
       BalanceRow, Columns, OrderStatuses

\* The empty account is legal, and explained by no transactions.
LEMMA LedgerInit ==
    Ledger!Init => Ledger!TypeOK /\ LedgerExplainsBalance /\ OrdersExplainTransactions
BY LedgerTypes
   DEF Ledger!Init, LedgerExplainsBalance, OrdersExplainTransactions,
       Ledger!LedgerExplainsBalance, Ledger!OrdersExplainTransactions,
       Ledger!TotalAvailable, Ledger!EmptyRow, Ledger!Columns, BalanceRow, Columns,
       OrderStatuses

\* Each operation leaves a legal row and legal counts.
LEMMA LedgerTypesKept ==
    ASSUME Ledger!TypeOK, [Ledger!Next]_Ledger!vars
    PROVE  Ledger!TypeOK'
<1>1. /\ row \in BalanceRow /\ status \in [Orders -> OrderStatuses] /\ posted \in Int
      /\ lapsed \in Nat /\ purchases \in [Orders -> Nat] /\ refunds \in [Orders -> Nat]
    BY LedgerTypes
<1>2. ASSUME /\ row' \in BalanceRow /\ status' \in [Orders -> OrderStatuses]
             /\ posted' \in Int /\ lapsed' \in Nat
             /\ purchases' \in [Orders -> Nat] /\ refunds' \in [Orders -> Nat]
      PROVE  Ledger!TypeOK'
    BY <1>2 DEF Ledger!TypeOK, Ledger!BalanceRow, Ledger!Columns, Ledger!OrderStatuses,
                BalanceRow, Columns, OrderStatuses
<1>3. /\ \A o \in Orders : Credits[o] \in Nat
      /\ \A amount \in Amounts : amount \in Nat
    BY CreditsAssumption, AmountsAssumption
<1>4. ASSUME NEW o \in Orders, Ledger!OpenOrder(o) PROVE Ledger!TypeOK'
    BY <1>1, <1>2, <1>4 DEF Ledger!OpenOrder, OrderStatuses
<1>5. ASSUME NEW o \in Orders, Ledger!CompleteOrder(o) PROVE Ledger!TypeOK'
    <2>1. row' = AddPurchase(row, Credits[o])
        BY <1>5, SameOperations DEF Ledger!CompleteOrder
    <2>2. row' \in BalanceRow
        BY <1>1, <1>3, <2>1, AddPurchaseExact
    <2> QED BY <1>1, <1>2, <1>3, <1>5, <2>2 DEF Ledger!CompleteOrder, OrderStatuses
<1>6. ASSUME NEW o \in Orders, NEW final \in {"EXPIRED", "CANCELED"},
             Ledger!CloseOrder(o, final)
      PROVE  Ledger!TypeOK'
    BY <1>1, <1>2, <1>6 DEF Ledger!CloseOrder, OrderStatuses
<1>7. ASSUME NEW o \in Orders, Ledger!RefundOrder(o) PROVE Ledger!TypeOK'
    <2> DEFINE taken == Recoverable(row, Credits[o])
    <2>1. row' = ClawBack(row, Credits[o]) /\ posted' = posted - taken
        BY <1>7, SameOperations DEF Ledger!RefundOrder
    <2>2. taken \in Nat /\ row' \in BalanceRow
        BY <1>1, <1>3, <2>1, ClawBackExact
    <2> HIDE DEF taken
    <2>3. posted' \in Int
        BY <1>1, <2>1, <2>2
    <2> QED BY <1>1, <1>2, <1>7, <2>2, <2>3 DEF Ledger!RefundOrder, OrderStatuses
<1>8. ASSUME NEW amount \in Amounts, Ledger!Charge(amount) PROVE Ledger!TypeOK'
    <2>1. row' = Deduct(row, amount) /\ CanAfford(row, amount)
        BY <1>8, SameOperations DEF Ledger!Charge
    <2>2. row' \in BalanceRow
        BY <1>1, <1>3, <2>1, DeductExact
    <2> QED BY <1>1, <1>2, <1>3, <1>8, <2>2 DEF Ledger!Charge
<1>9. ASSUME NEW amount \in Amounts, Ledger!AllocateMonthly(amount) PROVE Ledger!TypeOK'
    <2>1. row' = Allocate(row, amount)
        BY <1>9, SameOperations DEF Ledger!AllocateMonthly
    <2>2. row' \in BalanceRow /\ row["balance"] \in Nat
        BY <1>1, <1>3, <2>1, AllocateExact DEF BalanceRow, Columns
    <2> QED BY <1>1, <1>2, <1>3, <1>9, <2>2 DEF Ledger!AllocateMonthly
<1>10. ASSUME NEW amount \in Amounts, NEW column \in {"balance", "bonus"},
              Ledger!GrantCredits(column, amount)
       PROVE  Ledger!TypeOK'
    <2>1. row' = Grant(row, column, amount)
        BY <1>10, SameOperations DEF Ledger!GrantCredits
    <2>2. row' \in BalanceRow
        BY <1>1, <1>3, <2>1, GrantExact
    <2> QED BY <1>1, <1>2, <1>3, <1>10, <2>2 DEF Ledger!GrantCredits
<1>11. CASE UNCHANGED Ledger!vars
    BY <1>1, <1>2, <1>11 DEF Ledger!vars
<1> QED
    BY <1>4, <1>5, <1>6, <1>7, <1>8, <1>9, <1>10, <1>11 DEF Ledger!Next

\* Each operation posts what it moves the balance by.
LEMMA BalanceExplained ==
    ASSUME Ledger!TypeOK, [Ledger!Next]_Ledger!vars, LedgerExplainsBalance
    PROVE  LedgerExplainsBalance'
<1>1. row \in BalanceRow /\ posted \in Int /\ lapsed \in Nat
    BY LedgerTypes
<1>2. TotalAvailable(row) \in Nat /\ TotalAvailable(row) + lapsed = posted
    BY <1>1 DEF LedgerExplainsBalance, Ledger!LedgerExplainsBalance, Ledger!TotalAvailable,
                TotalAvailable, BalanceRow, Columns
<1>3. ASSUME TotalAvailable(row)' + lapsed' = posted' PROVE LedgerExplainsBalance'
    BY <1>3 DEF LedgerExplainsBalance, Ledger!LedgerExplainsBalance, Ledger!TotalAvailable,
                TotalAvailable
<1>4. /\ \A o \in Orders : Credits[o] \in Nat
      /\ \A amount \in Amounts : amount \in Nat
    BY CreditsAssumption, AmountsAssumption
<1>5. ASSUME row' = row, lapsed' = lapsed, posted' = posted PROVE LedgerExplainsBalance'
    BY <1>2, <1>3, <1>5 DEF TotalAvailable
<1>6. ASSUME NEW o \in Orders, Ledger!CompleteOrder(o) PROVE LedgerExplainsBalance'
    <2>1. /\ row' = AddPurchase(row, Credits[o])
          /\ posted' = posted + Credits[o] /\ lapsed' = lapsed
        BY <1>6, SameOperations DEF Ledger!CompleteOrder
    <2>2. TotalAvailable(row') = TotalAvailable(row) + Credits[o]
        BY <1>1, <1>4, <2>1, AddPurchaseExact
    <2> QED BY <1>1, <1>2, <1>3, <1>4, <2>1, <2>2
<1>7. ASSUME NEW o \in Orders, Ledger!RefundOrder(o) PROVE LedgerExplainsBalance'
    <2> DEFINE taken == Recoverable(row, Credits[o])
    <2>1. row' = ClawBack(row, Credits[o]) /\ posted' = posted - taken /\ lapsed' = lapsed
        BY <1>7, SameOperations DEF Ledger!RefundOrder
    <2>2. taken \in Nat /\ TotalAvailable(row') = TotalAvailable(row) - taken
        BY <1>1, <1>4, <2>1, ClawBackExact
    <2> HIDE DEF taken
    <2> QED BY <1>1, <1>2, <1>3, <2>1, <2>2
<1>8. ASSUME NEW amount \in Amounts, Ledger!Charge(amount) PROVE LedgerExplainsBalance'
    <2>1. /\ row' = Deduct(row, amount) /\ posted' = posted - amount /\ lapsed' = lapsed
          /\ CanAfford(row, amount)
        BY <1>8, SameOperations DEF Ledger!Charge
    <2>2. TotalAvailable(row') = TotalAvailable(row) - amount
        BY <1>1, <1>4, <2>1, DeductExact
    <2> QED BY <1>1, <1>2, <1>3, <1>4, <2>1, <2>2
<1>9. ASSUME NEW amount \in Amounts, Ledger!AllocateMonthly(amount)
      PROVE  LedgerExplainsBalance'
    <2>1. /\ row' = Allocate(row, amount) /\ posted' = posted + amount
          /\ lapsed' = lapsed + row["balance"]
        BY <1>9, SameOperations DEF Ledger!AllocateMonthly
    <2>2. TotalAvailable(row') = TotalAvailable(row) + amount - row["balance"]
        BY <1>1, <1>4, <2>1, AllocateExact
    <2>3. row["balance"] \in Nat
        BY <1>1 DEF BalanceRow, Columns
    <2> QED BY <1>1, <1>2, <1>3, <1>4, <2>1, <2>2, <2>3
<1>10. ASSUME NEW amount \in Amounts, NEW column \in {"balance", "bonus"},
              Ledger!GrantCredits(column, amount)
       PROVE  LedgerExplainsBalance'
    <2>1. row' = Grant(row, column, amount) /\ posted' = posted + amount /\ lapsed' = lapsed
        BY <1>10, SameOperations DEF Ledger!GrantCredits
    <2>2. TotalAvailable(row') = TotalAvailable(row) + amount
        BY <1>1, <1>4, <2>1, GrantExact
    <2> QED BY <1>1, <1>2, <1>3, <1>4, <2>1, <2>2
<1>11. ASSUME \/ UNCHANGED Ledger!vars
              \/ \E o \in Orders : Ledger!OpenOrder(o)
              \/ \E o \in Orders, final \in {"EXPIRED", "CANCELED"} :
                    Ledger!CloseOrder(o, final)
       PROVE  LedgerExplainsBalance'
    BY <1>5, <1>11 DEF Ledger!vars, Ledger!OpenOrder, Ledger!CloseOrder
<1> QED
    BY <1>6, <1>7, <1>8, <1>9, <1>10, <1>11 DEF Ledger!Next

\* Each operation on an order writes the transaction its new status stands for.
LEMMA TransactionsExplained ==
    ASSUME Ledger!TypeOK, [Ledger!Next]_Ledger!vars, OrdersExplainTransactions
    PROVE  OrdersExplainTransactions'
<1> USE LedgerTypes DEF OrdersExplainTransactions, Ledger!OrdersExplainTransactions, OrderStatuses
<1>1. ASSUME NEW o \in Orders,
             \/ Ledger!OpenOrder(o) \/ Ledger!CompleteOrder(o) \/ Ledger!RefundOrder(o)
             \/ \E final \in {"EXPIRED", "CANCELED"} : Ledger!CloseOrder(o, final)
      PROVE  OrdersExplainTransactions'
    BY <1>1 DEF Ledger!OpenOrder, Ledger!CompleteOrder, Ledger!RefundOrder, Ledger!CloseOrder
<1>2. ASSUME UNCHANGED <<status, purchases, refunds>> PROVE OrdersExplainTransactions'
    BY <1>2
<1>3. \/ \E o \in Orders :
            \/ Ledger!OpenOrder(o) \/ Ledger!CompleteOrder(o) \/ Ledger!RefundOrder(o)
            \/ \E final \in {"EXPIRED", "CANCELED"} : Ledger!CloseOrder(o, final)
      \/ UNCHANGED <<status, purchases, refunds>>
    BY
       DEF Ledger!Next, Ledger!Charge, Ledger!AllocateMonthly, Ledger!GrantCredits,
           Ledger!vars
<1> QED BY <1>1, <1>2, <1>3

\* The credit service, run one operation at a time, keeps its types (no balance
\* below zero), a ledger that explains the balance, and orders that explain
\* their transactions.
THEOREM LedgerCorrect ==
    Ledger!Spec => [](Ledger!TypeOK /\ LedgerExplainsBalance /\ OrdersExplainTransactions)
<1> DEFINE I == Ledger!TypeOK /\ LedgerExplainsBalance /\ OrdersExplainTransactions
<1>1. I /\ [Ledger!Next]_Ledger!vars => I'
    BY LedgerTypesKept, BalanceExplained, TransactionsExplained
<1> QED BY LedgerInit, <1>1, PTL DEF Ledger!Spec

\* When requests do not overlap, the transactions add up to the balance and what
\* allocations overwrote, and an order has the transactions of its status.
THEOREM TransactionsExplainTheRow ==
    ASSUME OneWorker
    PROVE  Spec => [](LedgerExplainsBalance /\ OrdersExplainTransactions)
BY HandlersImplementLedger, LedgerCorrect, PTL DEF ImplementsLedger
====
