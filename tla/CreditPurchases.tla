---- MODULE CreditPurchases ----
(***************************************************************************)
(* Credit purchases as the deployed program runs them: several request     *)
(* handlers (web instances, an admin's request, the usage callers) work on *)
(* the same credit_balances row and the same orders.  Each handler reads   *)
(* through its own database session and commits later; nothing locks the   *)
(* rows in between (READ COMMITTED, no SELECT FOR UPDATE), so a handler    *)
(* writes the columns it changed as absolute values over whatever was      *)
(* committed meanwhile.  Stripe delivers events at least once, in any      *)
(* order, until a handler has answered; a handler can crash at any point.  *)
(***************************************************************************)
EXTENDS PurchaseOrders

CONSTANTS Workers,         \* request handlers that may be active at once
          MaxRefunds,      \* bound: refunds Stripe makes of one payment
          MaxRowOps,       \* bound: charges, grants and allocations started
          MaxFaults        \* bound: crashed or failed handlers

ASSUME BoundsAssumption ==
    /\ MaxRefunds \in Nat
    /\ MaxRowOps \in Nat
    /\ MaxFaults \in Nat

VARIABLES
    \* the database
    row,                   \* the credit_balances row of the account
    status,                \* CreditPurchaseOrder.status, NONE before the insert
    recorded,              \* stripe_events: the event ids already inserted
    posted,                \* sum of credit_transactions.amount
    purchases,             \* PURCHASE transactions per order
    refunds,               \* REFUND transactions per order
    lapsed,                \* history: credits overwritten by allocations
    \* the handlers
    pc, job, snap,         \* where a handler is, its work, the row it has read
    \* Stripe
    session,               \* state of the checkout session and its payment
    refunded,              \* number of refunds made of the payment
    emitted, answered,     \* events sent out, events answered with a 200
    \* bounds
    rowOps, faults

database == <<row, status, recorded, posted, purchases, refunds, lapsed>>
handlers == <<pc, job, snap>>
stripe == <<session, refunded, emitted, answered>>
vars == <<database, handlers, stripe, rowOps, faults>>

Places == {"idle", "insert", "lookup", "stripe_refund", "load", "commit"}

\* Events carry a sequence number: Stripe sends one charge.refunded per refund.
Events == [type : {"completed", "expired", "failed", "refunded"},
           order : Orders, number : 0..MaxRefunds]
Event(type, o, n) == [type |-> type, order |-> o, number |-> n]

RowJobs == [kind : {"charge", "allocate", "grant_bonus", "grant_balance"},
            amount : Amounts]
OrderJobs == [kind : {"checkout", "admin_refund"}, order : Orders]
WebhookJobs == [kind : {"webhook"}, event : Events]
NoJob == [kind |-> "none"]
Jobs == RowJobs \cup OrderJobs \cup WebhookJobs \cup {NoJob}

Init ==
    /\ row = EmptyRow
    /\ status = [o \in Orders |-> "NONE"]
    /\ recorded = {}
    /\ posted = 0
    /\ purchases = [o \in Orders |-> 0]
    /\ refunds = [o \in Orders |-> 0]
    /\ lapsed = 0
    /\ pc = [w \in Workers |-> "idle"]
    /\ job = [w \in Workers |-> NoJob]
    /\ snap = [w \in Workers |-> EmptyRow]
    /\ session = [o \in Orders |-> "none"]
    /\ refunded = [o \in Orders |-> 0]
    /\ emitted = {}
    /\ answered = {}
    /\ rowOps = 0
    /\ faults = 0

-----------------------------------------------------------------------------
\* Control of a handler: start a job, go on to a place, end the request.

Begin(w, j, place) ==
    /\ pc[w] = "idle"
    /\ pc' = [pc EXCEPT ![w] = place]
    /\ job' = [job EXCEPT ![w] = j]
    /\ UNCHANGED snap

Goto(w, place) ==
    /\ pc' = [pc EXCEPT ![w] = place]
    /\ UNCHANGED <<job, snap>>

Finish(w) ==
    /\ pc' = [pc EXCEPT ![w] = "idle"]
    /\ job' = [job EXCEPT ![w] = NoJob]
    /\ snap' = [snap EXCEPT ![w] = EmptyRow]

\* A webhook handler ends with status 200, which stops Stripe's redelivery;
\* the answer can be lost after the work has been committed.
Answer(w) ==
    \/ /\ answered' = IF job[w].kind = "webhook"
                      THEN answered \cup {job[w].event} ELSE answered
       /\ UNCHANGED faults
    \/ /\ job[w].kind = "webhook"
       /\ faults < MaxFaults
       /\ faults' = faults + 1
       /\ UNCHANGED answered

\* What the session flushes: only columns that differ from the values it read.
Flush(w, new) ==
    [c \in Columns |-> IF new[c] = snap[w][c] THEN row[c] ELSE new[c]]

IsEvent(w, type) == job[w].kind = "webhook" /\ job[w].event.type = type
OrderOf(w) == IF job[w].kind = "webhook" THEN job[w].event.order ELSE job[w].order
Closes(w) == IsEvent(w, "expired") \/ IsEvent(w, "failed")
IsRefund(w) == IsEvent(w, "refunded") \/ job[w].kind = "admin_refund"

-----------------------------------------------------------------------------
\* create_purchase_checkout: Stripe's session first, the order row after it.
CreateSession(w, o) ==
    /\ session[o] = "none"
    /\ Begin(w, [kind |-> "checkout", order |-> o], "insert")
    /\ session' = [session EXCEPT ![o] = "open"]
    /\ UNCHANGED <<database, refunded, emitted, answered, rowOps, faults>>

InsertOrder(w) ==
    /\ pc[w] = "insert"
    /\ status' = [status EXCEPT ![job[w].order] = "PENDING"]
    /\ Finish(w)
    /\ UNCHANGED <<row, recorded, posted, purchases, refunds, lapsed,
                   stripe, rowOps, faults>>

-----------------------------------------------------------------------------
\* Stripe (external).  The customer gets the checkout URL with the answer to
\* create_purchase_checkout, so nobody pays before the order row exists.
Pay(o) ==
    /\ session[o] = "open"
    /\ status[o] # "NONE"
    /\ session' = [session EXCEPT ![o] = "paid"]
    /\ emitted' = emitted \cup {Event("completed", o, 0)}
    /\ UNCHANGED <<database, handlers, refunded, answered, rowOps, faults>>

\* The session times out, or a delayed payment method fails.
CloseSession(o) ==
    /\ session[o] = "open"
    /\ session' = [session EXCEPT ![o] = "closed"]
    /\ \E type \in {"expired", "failed"} :
          emitted' = emitted \cup {Event(type, o, 0)}
    /\ UNCHANGED <<database, handlers, refunded, answered, rowOps, faults>>

\* A refund of part of the payment, or of all that is left of it.
RefundPayment(o, state) ==
    /\ session[o] = "paid"
    /\ refunded[o] < MaxRefunds
    /\ session' = [session EXCEPT ![o] = state]
    /\ refunded' = [refunded EXCEPT ![o] = @ + 1]
    /\ emitted' = emitted \cup {Event("refunded", o, refunded[o] + 1)}
    /\ UNCHANGED answered

DashboardRefund(o) ==
    /\ \E state \in {"paid", "refunded"} : RefundPayment(o, state)
    /\ UNCHANGED <<database, handlers, rowOps, faults>>

-----------------------------------------------------------------------------
\* Mutant: the id is not looked for, as if event_id were not unique.
RecordEventAgain(w, e) ==
    /\ e \in emitted \ answered
    /\ Begin(w, [kind |-> "webhook", event |-> e], "lookup")
    /\ recorded' = recorded \cup {e}
    /\ UNCHANGED <<row, status, posted, purchases, refunds, lapsed,
                   stripe, rowOps, faults>>

\* Mutant: deduplicated by the order an event is about.
RecordOneEventPerOrder(w, e) ==
    /\ e \in emitted \ answered
    /\ \A r \in recorded : r.order # e.order
    /\ Begin(w, [kind |-> "webhook", event |-> e], "lookup")
    /\ recorded' = recorded \cup {e}
    /\ UNCHANGED <<row, status, posted, purchases, refunds, lapsed,
                   stripe, rowOps, faults>>

\* POST /webhooks/stripe: the event id is inserted and committed before the
\* event is processed; a second insert of the id fails on the unique index.
RecordEvent(w, e) ==
    /\ e \in emitted \ answered
    /\ e \notin recorded
    /\ Begin(w, [kind |-> "webhook", event |-> e], "lookup")
    /\ recorded' = recorded \cup {e}
    /\ UNCHANGED <<row, status, posted, purchases, refunds, lapsed,
                   stripe, rowOps, faults>>

DuplicateEvent(w, e) ==
    /\ e \in emitted \ answered
    /\ e \in recorded
    /\ pc[w] = "idle"
    /\ answered' = answered \cup {e}
    /\ UNCHANGED <<database, handlers, session, refunded, emitted, rowOps, faults>>

\* Mutant: already_refunded is not looked at.
ProceedsAgain(w) ==
    \/ IsEvent(w, "completed") /\ status[OrderOf(w)] = "PENDING"
    \/ IsEvent(w, "refunded") /\ status[OrderOf(w)] \in {"COMPLETED", "REFUNDED"}

\* The first query of the handler: the order by checkout session, or by payment
\* intent for refunds (stored only once the order has completed).
Proceeds(w) ==
    \/ IsEvent(w, "completed") /\ status[OrderOf(w)] = "PENDING"
    \/ IsEvent(w, "refunded") /\ status[OrderOf(w)] = "COMPLETED"

LookupOrder(w) ==
    /\ pc[w] = "lookup"
    /\ Proceeds(w)
    /\ Goto(w, "load")
    /\ UNCHANGED <<database, stripe, rowOps, faults>>

\* order_not_found, already_applied, order_not_pending, already_refunded,
\* order_not_completed and the no-ops of cancel_purchase_order
SkipOrder(w) ==
    /\ pc[w] = "lookup"
    /\ ~Proceeds(w)
    /\ ~(Closes(w) /\ status[OrderOf(w)] = "PENDING")
    /\ Finish(w)
    /\ Answer(w)
    /\ UNCHANGED <<database, session, refunded, emitted, rowOps>>

\* cancel_purchase_order reads PENDING and goes on to its own commit.
LookupPendingToClose(w) ==
    /\ pc[w] = "lookup"
    /\ Closes(w)
    /\ status[OrderOf(w)] = "PENDING"
    /\ Goto(w, "commit")
    /\ UNCHANGED <<database, stripe, rowOps, faults>>

\* process_refund of the admin router reads the order, then calls Stripe, then
\* refund_purchase; the session keeps the order object it has, so the status
\* checked after the call is the one read before it.
AdminRefund(w, o) ==
    /\ status[o] = "COMPLETED"
    /\ Begin(w, [kind |-> "admin_refund", order |-> o], "stripe_refund")
    /\ UNCHANGED <<database, stripe, rowOps, faults>>

AdminRefundCall(w) ==
    /\ pc[w] = "stripe_refund"
    /\ \/ RefundPayment(job[w].order, "refunded")
       \/ UNCHANGED stripe   \* Stripe refuses or cannot be reached: caught
    /\ Goto(w, "load")
    /\ UNCHANGED <<database, rowOps, faults>>

\* use_credits over the plan limits, process_payment, grant_bonus and
\* _grant_admin_credits begin by reading the balance row.
StartRowJob(w, j) ==
    /\ rowOps < MaxRowOps
    /\ rowOps' = rowOps + 1
    /\ Begin(w, j, "load")
    /\ UNCHANGED <<database, stripe, faults>>

LoadRow(w) ==
    /\ pc[w] = "load"
    /\ snap' = [snap EXCEPT ![w] = row]
    /\ pc' = [pc EXCEPT ![w] = "commit"]
    /\ UNCHANGED <<database, job, stripe, rowOps, faults>>

-----------------------------------------------------------------------------
\* The commits.

CommitEnds(w) ==
    /\ pc[w] = "commit"
    /\ Finish(w)
    /\ Answer(w)
    /\ UNCHANGED <<recorded, session, refunded, emitted, rowOps>>

CommitPurchase(w) ==
    /\ IsEvent(w, "completed")
    /\ CommitEnds(w)
    /\ LET o == OrderOf(w) IN
          /\ row' = Flush(w, AddPurchase(snap[w], Credits[o]))
          /\ status' = [status EXCEPT ![o] = "COMPLETED"]
          /\ posted' = posted + Credits[o]
          /\ purchases' = [purchases EXCEPT ![o] = @ + 1]
    /\ UNCHANGED <<refunds, lapsed>>

CommitClose(w) ==
    /\ Closes(w)
    /\ CommitEnds(w)
    /\ status' = [status EXCEPT ![OrderOf(w)] =
                     IF IsEvent(w, "expired") THEN "EXPIRED" ELSE "CANCELED"]
    /\ UNCHANGED <<row, posted, purchases, refunds, lapsed>>

\* Mutant: the transaction says the package's credits, not what was taken.
CommitRefundUnclamped(w) ==
    /\ IsRefund(w)
    /\ CommitEnds(w)
    /\ LET o == OrderOf(w) IN
          /\ row' = Flush(w, ClawBack(snap[w], Credits[o]))
          /\ status' = [status EXCEPT ![o] = "REFUNDED"]
          /\ posted' = posted - Credits[o]
          /\ refunds' = [refunds EXCEPT ![o] = @ + 1]
    /\ UNCHANGED <<purchases, lapsed>>

CommitRefund(w) ==
    /\ IsRefund(w)
    /\ CommitEnds(w)
    /\ LET o == OrderOf(w) IN
          /\ row' = Flush(w, ClawBack(snap[w], Credits[o]))
          /\ status' = [status EXCEPT ![o] = "REFUNDED"]
          /\ posted' = posted - Recoverable(snap[w], Credits[o])
          /\ refunds' = [refunds EXCEPT ![o] = @ + 1]
    /\ UNCHANGED <<purchases, lapsed>>

\* Mutant: can_afford compares with the wrong sign of equality.
CommitChargeOneShort(w) ==
    /\ job[w].kind = "charge"
    /\ TotalAvailable(snap[w]) + 1 >= job[w].amount
    /\ CommitEnds(w)
    /\ row' = Flush(w, Deduct(snap[w], job[w].amount))
    /\ posted' = posted - job[w].amount
    /\ UNCHANGED <<status, purchases, refunds, lapsed>>

CommitCharge(w) ==
    /\ job[w].kind = "charge"
    /\ CanAfford(snap[w], job[w].amount)
    /\ CommitEnds(w)
    /\ row' = Flush(w, Deduct(snap[w], job[w].amount))
    /\ posted' = posted - job[w].amount
    /\ UNCHANGED <<status, purchases, refunds, lapsed>>

\* insufficient_credits: nothing is written
RefuseCharge(w) ==
    /\ job[w].kind = "charge"
    /\ ~CanAfford(snap[w], job[w].amount)
    /\ CommitEnds(w)
    /\ UNCHANGED <<row, status, posted, purchases, refunds, lapsed>>

CommitAllocation(w) ==
    /\ job[w].kind = "allocate"
    /\ CommitEnds(w)
    /\ row' = Flush(w, Allocate(snap[w], job[w].amount))
    /\ posted' = posted + job[w].amount
    /\ lapsed' = lapsed + snap[w]["balance"]
    /\ UNCHANGED <<status, purchases, refunds>>

CommitGrant(w) ==
    /\ job[w].kind \in {"grant_bonus", "grant_balance"}
    /\ CommitEnds(w)
    /\ LET column == IF job[w].kind = "grant_bonus" THEN "bonus" ELSE "balance"
       IN  row' = Flush(w, Grant(snap[w], column, job[w].amount))
    /\ posted' = posted + job[w].amount
    /\ UNCHANGED <<status, purchases, refunds, lapsed>>

-----------------------------------------------------------------------------
\* The process dies: the open transaction is rolled back, Stripe has no answer.
Crash(w) ==
    /\ pc[w] # "idle"
    /\ faults < MaxFaults
    /\ faults' = faults + 1
    /\ Finish(w)
    /\ UNCHANGED <<database, stripe, rowOps>>

\* An exception while processing: rollback, a note to the admin, status 200.
HandlerError(w) ==
    /\ pc[w] # "idle"
    /\ job[w].kind = "webhook"
    /\ faults < MaxFaults
    /\ faults' = faults + 1
    /\ answered' = answered \cup {job[w].event}
    /\ Finish(w)
    /\ UNCHANGED <<database, session, refunded, emitted, rowOps>>

-----------------------------------------------------------------------------
Steps(w) ==
    \/ InsertOrder(w)
    \/ LookupOrder(w)
    \/ SkipOrder(w)
    \/ LookupPendingToClose(w)
    \/ AdminRefundCall(w)
    \/ LoadRow(w)
    \/ CommitPurchase(w)
    \/ CommitClose(w)
    \/ CommitRefund(w)
    \/ CommitCharge(w)
    \/ RefuseCharge(w)
    \/ CommitAllocation(w)
    \/ CommitGrant(w)

Deliver(e) == \E w \in Workers : RecordEvent(w, e) \/ DuplicateEvent(w, e)

Next ==
    \/ \E w \in Workers :
          \/ Steps(w)
          \/ Crash(w)
          \/ HandlerError(w)
          \/ \E o \in Orders : CreateSession(w, o) \/ AdminRefund(w, o)
          \/ \E j \in RowJobs : StartRowJob(w, j)
    \/ \E e \in emitted : Deliver(e)
    \/ \E o \in Orders : Pay(o) \/ CloseSession(o) \/ DashboardRefund(o)

Spec == Init /\ [][Next]_vars

\* A request that was begun is run to its end by the server, and Stripe keeps
\* delivering an event until it has an answer.
FairSpec ==
    /\ Spec
    /\ \A w \in Workers : WF_vars(Steps(w))
    /\ \A e \in Events : WF_vars(Deliver(e))

-----------------------------------------------------------------------------
\* What the requests implement when they do not overlap.
Ledger == INSTANCE CreditLedger WITH
    row <- row, status <- status, posted <- posted, lapsed <- lapsed,
    purchases <- purchases, refunds <- refunds

\* Types; the balances stay at or above zero whatever the interleaving.
TypeOK ==
    /\ row \in BalanceRow
    /\ status \in [Orders -> OrderStatuses]
    /\ recorded \subseteq Events
    /\ posted \in Int
    /\ purchases \in [Orders -> Nat]
    /\ refunds \in [Orders -> Nat]
    /\ lapsed \in Nat
    /\ pc \in [Workers -> Places]
    /\ job \in [Workers -> Jobs]
    /\ snap \in [Workers -> BalanceRow]
    /\ session \in [Orders -> {"none", "open", "paid", "closed", "refunded"}]
    /\ refunded \in [Orders -> 0..MaxRefunds]
    /\ emitted \subseteq Events
    /\ answered \subseteq Events
    /\ rowOps \in 0..MaxRowOps
    /\ faults \in 0..MaxFaults

\* Why the next two properties hold.  What a handler relies on after its reads:
\* the places its job leads to, the id its event has put into stripe_events, and
\* the order status its lookup saw, which nobody else can have changed except a
\* second refund of the same order.
HandlersAgree ==
    \A w \in Workers :
        /\ (pc[w] = "idle") <=> (job[w] = NoJob)
        /\ pc[w] = "insert" => /\ job[w].kind = "checkout"
                               /\ status[job[w].order] = "NONE"
                               /\ session[job[w].order] # "none"
        /\ pc[w] = "lookup" => job[w].kind = "webhook"
        /\ pc[w] = "stripe_refund" => job[w].kind = "admin_refund"
        /\ job[w].kind = "checkout" => pc[w] = "insert"
        /\ job[w].kind = "webhook" => job[w].event \in recorded
        /\ IsEvent(w, "completed") /\ pc[w] # "lookup" =>
              status[OrderOf(w)] = "PENDING"
        /\ IsRefund(w) /\ pc[w] # "lookup" =>
              status[OrderOf(w)] \in {"COMPLETED", "REFUNDED"}
        /\ Closes(w) /\ pc[w] # "lookup" =>
              pc[w] = "commit" /\ status[OrderOf(w)] = "PENDING"

\* No event is handled twice at once, and no order is inserted twice.
HandlersExclude ==
    \A v, w \in Workers :
        v # w => /\ job[v].kind = "webhook" /\ job[w].kind = "webhook" =>
                       job[v].event # job[w].event
                 /\ pc[v] = "insert" /\ pc[w] = "insert" =>
                       job[v].order # job[w].order

\* Stripe reports a checkout session either as paid or as closed, once, and
\* there is no order without a session.
EventsAreTrue ==
    /\ recorded \subseteq emitted
    /\ \A e \in emitted :
          /\ e.type = "completed" => session[e.order] \in {"paid", "refunded"}
          /\ e.type \in {"expired", "failed"} => session[e.order] = "closed"
    /\ \A e, f \in emitted :
          e.order = f.order /\ e.type # "refunded" /\ f.type # "refunded" => e = f
    /\ \A o \in Orders : session[o] = "none" => status[o] = "NONE"

\* Redelivered, overlapping and half-done events never credit an order twice,
\* never credit one that was not paid, and an order reads COMPLETED or REFUNDED
\* exactly when its credits were paid in (apply_purchase_from_webhook).
CreditedOnceIfPaid ==
    \A o \in Orders :
        /\ purchases[o] = IF status[o] \in {"COMPLETED", "REFUNDED"} THEN 1 ELSE 0
        /\ purchases[o] = 1 => session[o] \in {"paid", "refunded"}

PurchaseInv ==
    TypeOK /\ HandlersAgree /\ HandlersExclude /\ EventsAreTrue /\ CreditedOnceIfPaid

\* No commit, however stale what its handler read, takes an order back: a
\* status only moves forward along the order's life cycle.
OrdersMoveForward ==
    [][\A o \in Orders : status'[o] # status[o] =>
          <<status[o], status'[o]>> \in
              {<<"NONE", "PENDING">>, <<"PENDING", "COMPLETED">>,
               <<"PENDING", "EXPIRED">>, <<"PENDING", "CANCELED">>,
               <<"COMPLETED", "REFUNDED">>}]_vars

\* A payment ends up as credits on the account ("side effects happen exactly
\* once", /webhooks/stripe).
PaymentsAreCredited ==
    \A o \in Orders : session[o] = "paid" ~> purchases[o] = 1

\* The same for payments whose handling meets no crash and no error: neither
\* redelivery nor an event of another kind may use the order's turn up.
PaymentsAreCreditedUnlessFaults ==
    \A o \in Orders : session[o] = "paid" ~> purchases[o] = 1 \/ faults > 0
====
