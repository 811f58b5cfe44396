---- MODULE Subscriptions ----
(***************************************************************************)
(* The subscription of one account: Stripe's events, their handlers        *)
(* (app/services/billing.py), payment failures (dunning_service.py) and    *)
(* the daily jobs of the scheduler worker (app/workers/scheduler.py).      *)
(*                                                                         *)
(* Every handler and job loads the subscriptions row and later stores the  *)
(* columns it changed; processes that overlap do so between the two.       *)
(* Stripe delivers each event once (CreditPurchases has the redeliveries), *)
(* in the order of creation only if InOrder.  Time is counted in days.     *)
(***************************************************************************)
EXTENDS Integers, Sequences, SequencesExt

CONSTANTS Processes,       \* webhook workers, requests and the job runner
          RetryDays,       \* DUNNING_CONFIG retry_schedule_days
          GraceDays, SuspensionDays, TrialDays,
          AwareDates,      \* does the database return datetimes with a time zone?
          InOrder,         \* does Stripe deliver events in order?
          EndpointEvents,  \* the events the Stripe endpoint is configured for
          ItemsByAttribute, \* does a subscription of the Stripe library give its
                            \* items by attribute, as billing.py asks for them?
          MaxAttempts,     \* Stripe's own attempts at an open invoice
          MaxClock, MaxInvoices, MaxSubs, MaxTrials, MaxCancels,  \* bounds
          MaxFaults        \* bound: crashes

NoDate == -1

InvoiceEvents == {"invoice.paid", "invoice.payment_succeeded"}
EventKinds == {"checkout.session.completed", "customer.subscription.created",
               "customer.subscription.updated", "customer.subscription.deleted",
               "invoice.payment_failed"} \cup InvoiceEvents

ASSUME SubscriptionsAssumption ==
    /\ RetryDays \in Seq(Nat)
    /\ GraceDays \in Nat /\ SuspensionDays \in Nat /\ TrialDays \in Nat
    /\ AwareDates \in BOOLEAN /\ InOrder \in BOOLEAN /\ ItemsByAttribute \in BOOLEAN
    /\ EndpointEvents \subseteq EventKinds
    /\ MaxAttempts \in Nat \ {0}
    /\ MaxClock \in Nat /\ MaxInvoices \in Nat /\ MaxSubs \in Nat
    /\ MaxTrials \in Nat /\ MaxCancels \in Nat /\ MaxFaults \in Nat

VARIABLES
    clock,
    row,        \* the subscriptions row
    sub,        \* Stripe: id, status, failed attempts at the open invoice, invoices
    pool,       \* Stripe's events on their way
    pc, task, seen,  \* per process: its place, its work, <<time, row>> it loaded
    allocated,  \* history: <<invoice, plan>> of the monthly allocations
    overlapped, \* history: two processes have been at work on the row at once
    trialed,    \* history: a trial was started after a subscription
    trials, cancels, faults  \* bounds

vars == <<clock, row, sub, pool, pc, task, seen, allocated, overlapped, trialed,
          trials, cancels, faults>>

Date == 0..MaxClock \cup {NoDate}
Row == [plan : {"free", "paid"},
        status : {"active", "past_due", "canceled", "trialing"},
        access : {"active", "warning", "suspended"},
        dunning : {"none", "retrying", "grace_period", "restricted", "suspended"},
        started : Date, retries : Nat, retryAt : Int, graceEnds : Int,
        stripeSub : 0..MaxSubs, trialEnds : Int]

\* What registration stores.
NewRow == [plan |-> "free", status |-> "active", access |-> "active",
           dunning |-> "none", started |-> NoDate, retries |-> 0,
           retryAt |-> NoDate, graceEnds |-> NoDate, stripeSub |-> 0,
           trialEnds |-> NoDate]

\* The administrator may set the plan of an account Stripe does not know.
FirstRows == {NewRow, [NewRow EXCEPT !.plan = "paid"]}

Idle == [kind |-> "idle"]
Init ==
    /\ clock = 0
    /\ row \in FirstRows
    /\ sub = [id |-> 0, status |-> "none", open |-> 0, invoice |-> 0]
    /\ pool = <<>>
    /\ pc = [p \in Processes |-> "idle"]
    /\ task = [p \in Processes |-> Idle]
    /\ seen = [p \in Processes |-> <<0, NewRow>>]
    /\ allocated = <<>> /\ overlapped = FALSE /\ trialed = FALSE
    /\ trials = 0 /\ cancels = 0 /\ faults = 0

\* Subscription.is_active
IsActive(r, now) ==
    /\ r.access = "active"
    /\ r.status \in {"active", "trialing"}
    /\ ~(r.status = "trialing" /\ r.trialEnds # NoDate /\ r.trialEnds <= now)

-----------------------------------------------------------------------------
(* What the handlers make of the row they loaded. *)

\* Mutant: access_state stays what it was.
RecoverKeepingAccess(r) ==
    [r EXCEPT !.dunning = "none", !.started = NoDate, !.retries = 0,
              !.retryAt = NoDate, !.graceEnds = NoDate, !.status = "active"]

\* Mutant: the dunning state gets a value of the access state.
RecoverMixedUp(r) ==
    [r EXCEPT !.access = "active", !.dunning = "active", !.started = NoDate,
              !.retries = 0, !.retryAt = NoDate, !.graceEnds = NoDate,
              !.status = "active"]

\* DunningService._apply_active_state
Recover(r) ==
    [r EXCEPT !.access = "active", !.dunning = "none", !.started = NoDate,
              !.retries = 0, !.retryAt = NoDate, !.graceEnds = NoDate,
              !.status = "active"]

\* DunningService.handle_payment_failure
Fail(r, attempt, now) ==
    LET started == IF r.started = NoDate THEN now ELSE r.started
        retrying == attempt \in DOMAIN RetryDays
    IN  [r EXCEPT !.started = started, !.access = "warning",
                  !.status = "past_due", !.retries = attempt,
                  !.dunning = IF retrying THEN "retrying" ELSE "grace_period",
                  !.retryAt = IF retrying THEN started + RetryDays[attempt] ELSE NoDate,
                  !.graceEnds = IF retrying THEN NoDate ELSE now + GraceDays]

GraceIsOver(r, now) == r.dunning = "grace_period" /\ r.graceEnds <= now

\* Mutant: only subscriptions that went through their grace period.
IsOverdueAfterGrace(r, now) ==
    /\ r.dunning = "restricted"
    /\ r.started # NoDate
    /\ r.started + SuspensionDays <= now

IsOverdue(r, now) ==
    /\ r.dunning \notin {"none", "suspended"}
    /\ r.started # NoDate
    /\ r.started + SuspensionDays <= now

\* DunningService.check_grace_period_expiry and check_suspension, for a row
\* their query found.  The latter subtracts the stored date from a date without
\* a time zone: a TypeError, nothing stored, where stored dates have one.
RestrictRow(r) ==
    [r EXCEPT !.dunning = "restricted", !.access = "warning",
              !.status = "past_due", !.retryAt = NoDate]
SuspendRow(r) ==
    IF AwareDates
    THEN r
    ELSE [r EXCEPT !.access = "suspended", !.dunning = "suspended",
                   !.status = "canceled", !.retryAt = NoDate, !.graceEnds = NoDate]

\* Mutant: the row stays linked to the subscription that has ended.
DeletedKeepingLink(r, e) == [r EXCEPT !.plan = "free", !.status = "canceled"]

\* BillingService._handle_* of the subscription and checkout events.  Created sets
\* the plan, the status and the link, asks for stripe_sub.items.data and commits:
\* where items is the method of a dictionary it raises, and all is rolled back.
Created(r, e) == IF ItemsByAttribute
                 THEN [r EXCEPT !.plan = "paid", !.status = "active", !.stripeSub = e.sub]
                 ELSE r
Updated(r, e) == IF r.stripeSub = e.sub THEN [r EXCEPT !.status = e.status] ELSE r
Deleted(r, e) == IF r.stripeSub = e.sub
                 THEN [r EXCEPT !.plan = "free", !.status = "canceled", !.stripeSub = 0]
                 ELSE r

\* BillingService.start_trial: its refusals, and what it stores
TrialRefused(r, now) ==
    \/ r.plan = "free" /\ r.trialEnds # NoDate
    \/ r.plan = "paid" /\ r.status \in {"active", "trialing"} /\ IsActive(r, now)
Trial(r, now) == [r EXCEPT !.plan = "free", !.status = "trialing",
                           !.trialEnds = now + TrialDays, !.access = "active"]

Effect(t, r, now) ==
    CASE t.kind = "checkout.session.completed"    -> [r EXCEPT !.stripeSub = t.sub]
      [] t.kind = "customer.subscription.created" -> Created(r, t)
      [] t.kind = "customer.subscription.updated" -> Updated(r, t)
      [] t.kind = "customer.subscription.deleted" -> Deleted(r, t)
      [] t.kind \in InvoiceEvents \cup {"retry_paid"} -> Recover(r)
      [] t.kind = "invoice.payment_failed"        -> [r EXCEPT !.status = "past_due"]
      [] t.kind \in {"payment_failure", "retry_failed"} -> Fail(r, t.attempt, now)
      [] t.kind = "grace_check"                   -> RestrictRow(r)
      [] t.kind = "suspension_check"              -> SuspendRow(r)
      [] t.kind = "start_trial"                   -> Trial(r, now)
      [] t.kind = "cancel"                        -> [r EXCEPT !.status = "canceled"]

\* The session writes the columns that differ from what it loaded.
Merge(current, loaded, new) ==
    [c \in DOMAIN current |-> IF new[c] = loaded[c] THEN current[c] ELSE new[c]]

-----------------------------------------------------------------------------
(* Stripe. *)

About(kind) == [kind |-> kind, sub |-> sub.id', invoice |-> sub.invoice',
                attempt |-> sub.open', status |-> sub.status']
\* What is sent of an event: nothing, if the endpoint is not configured for it.
Told(kind) == IF kind \in EndpointEvents THEN <<About(kind)>> ELSE <<>>
Paid == Told("invoice.paid") \o Told("invoice.payment_succeeded")
Emit(events) == pool' = pool \o events
OnlyStripe == UNCHANGED <<clock, row, pc, task, seen, allocated, overlapped, trialed,
                          trials, cancels, faults>>

\* A checkout the customer paid.
Subscribe ==
    /\ sub.status \in {"none", "canceled"}
    /\ sub.id < MaxSubs /\ sub.invoice < MaxInvoices
    /\ sub' = [id |-> sub.id + 1, status |-> "active", open |-> 0,
               invoice |-> sub.invoice + 1]
    /\ Emit(Told("customer.subscription.created") \o Told("checkout.session.completed") \o Paid)
    /\ OnlyStripe

Renew ==
    /\ sub.status = "active" /\ sub.invoice < MaxInvoices
    /\ sub' = [sub EXCEPT !.invoice = @ + 1]
    /\ Emit(Paid)
    /\ OnlyStripe

RenewalFails ==
    /\ sub.status = "active" /\ sub.invoice < MaxInvoices
    /\ sub' = [sub EXCEPT !.invoice = @ + 1, !.open = 1, !.status = "past_due"]
    /\ Emit(Told("invoice.payment_failed") \o Told("customer.subscription.updated"))
    /\ OnlyStripe

AttemptFails ==
    /\ sub.status = "past_due" /\ sub.open < MaxAttempts
    /\ sub' = [sub EXCEPT !.open = @ + 1]
    /\ Emit(Told("invoice.payment_failed"))
    /\ OnlyStripe

AttemptPaid ==
    /\ sub.status = "past_due"
    /\ sub' = [sub EXCEPT !.open = 0, !.status = "active"]
    /\ Emit(Paid \o Told("customer.subscription.updated"))
    /\ OnlyStripe

GiveUp ==
    /\ sub.status = "past_due" /\ sub.open = MaxAttempts
    /\ sub' = [sub EXCEPT !.open = 0, !.status = "canceled"]
    /\ Emit(Told("customer.subscription.deleted"))
    /\ OnlyStripe

-----------------------------------------------------------------------------
(* The processes. *)

Start(p, t) ==
    /\ pc[p] = "idle"
    /\ pc' = [pc EXCEPT ![p] = "store"]
    /\ task' = [task EXCEPT ![p] = t]
    /\ seen' = [seen EXCEPT ![p] = <<clock, row>>]
    /\ overlapped' = (overlapped \/ \E q \in Processes : pc[q] # "idle")
    /\ trialed' = (trialed \/ (t.kind = "start_trial" /\ sub.id # 0))

\* Mutant: a delivered event is not remembered and may come again.
DeliverAgain(p) ==
    \E i \in DOMAIN pool :
        /\ InOrder => i = 1
        /\ Start(p, pool[i])
        /\ pool' \in {pool, RemoveAt(pool, i)}
        /\ UNCHANGED <<clock, row, sub, allocated, trials, cancels, faults>>

\* /webhooks/stripe: the event is recorded, its handler loads the row.
Deliver(p) ==
    \E i \in DOMAIN pool :
        /\ InOrder => i = 1
        /\ Start(p, pool[i])
        /\ pool' = RemoveAt(pool, i)
        /\ UNCHANGED <<clock, row, sub, allocated, trials, cancels, faults>>

\* dunning_check_job, one at a time; the notification that follows a restriction
\* commits it, the job's end a suspension.
StartGraceCheck(p) ==
    /\ \A q \in Processes : task[q].kind \notin {"grace_check", "suspension_check"}
    /\ GraceIsOver(row, clock)
    /\ Start(p, [kind |-> "grace_check"])
    /\ UNCHANGED <<clock, row, sub, pool, allocated, trials, cancels, faults>>

\* Mutant: the query of check_suspension misses the date.
StartSuspensionCheckEarly(p) ==
    /\ row.dunning \notin {"none", "suspended"}
    /\ Start(p, [kind |-> "suspension_check"])
    /\ UNCHANGED <<clock, row, sub, pool, allocated, trials, cancels, faults>>

StartSuspensionCheck(p) ==
    /\ \A q \in Processes : task[q].kind \notin {"grace_check", "suspension_check"}
    /\ IsOverdue(row, clock)
    /\ Start(p, [kind |-> "suspension_check"])
    /\ UNCHANGED <<clock, row, sub, pool, allocated, trials, cancels, faults>>

\* payment_retry_job: the query finds the subscription, Stripe attempts the
\* open invoice at once and tells the job the outcome.
RetryPayment(p) ==
    /\ row.dunning = "retrying" /\ row.retryAt <= clock
    /\ row.stripeSub # 0
    /\ sub.id = row.stripeSub /\ sub.status = "past_due"
    /\ \/ /\ sub' = [sub EXCEPT !.open = 0, !.status = "active"]
          /\ Emit(Paid \o Told("customer.subscription.updated"))
          /\ Start(p, [kind |-> "retry_paid"])
       \/ /\ sub.open < MaxAttempts
          /\ sub' = [sub EXCEPT !.open = @ + 1]
          /\ Emit(Told("invoice.payment_failed"))
          /\ LET byCount == row.retries + 1
                 byStripe == sub.open + 1
             IN  Start(p, [kind |-> "retry_failed",
                           attempt |-> IF byCount > byStripe THEN byCount ELSE byStripe])
    /\ UNCHANGED <<clock, row, allocated, trials, cancels, faults>>

StartTrial(p) ==
    /\ trials < MaxTrials
    /\ trials' = trials + 1
    /\ ~TrialRefused(row, clock)
    /\ Start(p, [kind |-> "start_trial"])
    /\ UNCHANGED <<clock, row, sub, pool, allocated, cancels, faults>>

\* cancel_subscription_with_reason, at once: Stripe first, then the row
CancelNow(p) ==
    /\ cancels < MaxCancels
    /\ cancels' = cancels + 1
    /\ row.stripeSub # 0 /\ row.stripeSub = sub.id
    /\ sub.status \in {"active", "past_due"}
    /\ sub' = [sub EXCEPT !.status = "canceled", !.open = 0]
    /\ Emit(Told("customer.subscription.deleted"))
    /\ Start(p, [kind |-> "cancel"])
    /\ UNCHANGED <<clock, row, allocated, trials, faults>>

\* _handle_invoice_paid: the credits are allocated in a session of their own,
\* for the plan of the row it loaded.
AllocateCredits(p) ==
    /\ pc[p] = "store"
    /\ task[p].kind \in InvoiceEvents
    /\ allocated' = Append(allocated, [invoice |-> task[p].invoice, plan |-> seen[p][2].plan])
    /\ pc' = [pc EXCEPT ![p] = "recover"]
    /\ UNCHANGED <<clock, row, sub, pool, task, seen, overlapped, trialed, trials, cancels, faults>>

\* The commit.  A failed payment has two: the status first, then, with the row
\* loaded again, the dunning state.
Store(p) ==
    /\ \/ pc[p] = "store" /\ task[p].kind \notin InvoiceEvents
       \/ pc[p] = "recover"
    /\ row' = Merge(row, seen[p][2], Effect(task[p], seen[p][2], seen[p][1]))
    /\ IF task[p].kind = "invoice.payment_failed"
       THEN /\ pc' = [pc EXCEPT ![p] = "reload"]
            /\ task' = [task EXCEPT ![p].kind = "payment_failure"]
            /\ UNCHANGED seen
       ELSE /\ pc' = [pc EXCEPT ![p] = "idle"]
            /\ task' = [task EXCEPT ![p] = Idle]
            /\ seen' = [seen EXCEPT ![p] = <<0, NewRow>>]
    /\ UNCHANGED <<clock, sub, pool, allocated, overlapped, trialed, trials, cancels, faults>>

Reload(p) ==
    /\ pc[p] = "reload"
    /\ pc' = [pc EXCEPT ![p] = "store"]
    /\ seen' = [seen EXCEPT ![p] = <<clock, row>>]
    /\ UNCHANGED <<clock, row, sub, pool, task, allocated, overlapped, trialed, trials, cancels, faults>>

\* The process dies, its session is rolled back; the recorded event is lost.
Crash(p) ==
    /\ faults < MaxFaults
    /\ faults' = faults + 1
    /\ pc[p] # "idle"
    /\ pc' = [pc EXCEPT ![p] = "idle"]
    /\ task' = [task EXCEPT ![p] = Idle]
    /\ seen' = [seen EXCEPT ![p] = <<0, NewRow>>]
    /\ UNCHANGED <<clock, row, sub, pool, allocated, overlapped, trialed, trials, cancels>>

Tick ==
    /\ clock < MaxClock
    /\ clock' = clock + 1
    /\ UNCHANGED <<row, sub, pool, pc, task, seen, allocated, overlapped, trialed, trials, cancels,
                   faults>>

Step(p) ==
    \/ Deliver(p)
    \/ StartGraceCheck(p)
    \/ StartSuspensionCheck(p)
    \/ RetryPayment(p)
    \/ StartTrial(p)
    \/ CancelNow(p)
    \/ AllocateCredits(p)
    \/ Store(p)
    \/ Reload(p)

Stripe ==
    \/ Subscribe \/ Renew \/ RenewalFails
    \/ AttemptFails \/ AttemptPaid \/ GiveUp

Next ==
    \/ Stripe
    \/ \E p \in Processes : Step(p) \/ Crash(p)
    \/ Tick

Spec == Init /\ [][Next]_vars

\* Time passes; what a process started goes on; the daily job runs and Stripe
\* keeps delivering.  Nobody has to pay.
FairSpec ==
    /\ Spec
    /\ WF_vars(Tick)
    /\ \A p \in Processes :
          /\ WF_vars(AllocateCredits(p) \/ Store(p) \/ Reload(p))
          /\ WF_vars(StartGraceCheck(p))
          /\ WF_vars(StartSuspensionCheck(p))
          /\ SF_vars(Deliver(p))

-----------------------------------------------------------------------------
TypeOK ==
    /\ clock \in 0..MaxClock
    /\ row \in Row
    /\ pc \in [Processes -> {"idle", "store", "recover", "reload"}]
    /\ \A p \in Processes : seen[p][2] \in Row
    /\ sub.open \in 0..MaxAttempts

\* "Check if subscription is in dunning state." answers for the access state;
\* the dunning state agrees with it, whatever the order of events and the crashes.
\* (One process at a time, and no trial, which restores access and not the rest.)
AccessMatchesDunning ==
    ~overlapped /\ ~trialed => (row.access # "active" <=> row.dunning # "none")

\* "Suspend subscriptions that have remained delinquent beyond the threshold":
\* what the row says when it is suspended, not what a stale copy of it said, unless
\* two processes have been at work on it.
SuspendedOnlyIfOverdue ==
    [][row.dunning # "suspended" /\ row'.dunning = "suspended"
       => IsOverdue(row, clock) \/ overlapped]_vars

\* An invoice resets the monthly credits once, whatever overlaps and dies: the event's
\* id is recorded before the event is handled.
OneAllocationPerInvoice ==
    \A i, j \in DOMAIN allocated : allocated[i].invoice = allocated[j].invoice => i = j

\* The runbook looks for the plan on the row after `customer.subscription.created`:
\* when everything Stripe said has been handled, the row has the plan the customer
\* pays for, and the credits allocated for the invoices are that plan's.  (A trial puts
\* its own plan on the row.)
PaidPlanTakesEffect ==
    /\ pool = <<>>
    /\ \A p \in Processes : pc[p] = "idle"
    /\ sub.status \in {"active", "past_due"} /\ ~trialed
    => row.plan = "paid" /\ \A i \in DOMAIN allocated : allocated[i].plan = "paid"

\* When everything Stripe said has been handled, a subscription that has ended, by a
\* cancellation or after the last attempt at an invoice, in dunning or out of it, gives
\* no access, plan or link any more, and a second one has not kept those of the first.
EndedGivesNothing ==
    /\ pool = <<>>
    /\ \A p \in Processes : pc[p] = "idle"
    /\ sub.status = "canceled" /\ ~trialed
    => row.plan = "free" /\ row.stripeSub = 0 /\ ~IsActive(row, clock)

\* When everything Stripe said has been handled, a customer who has paid has
\* access, after any failures, retries, cancellations and new subscriptions.  (A trial
\* started after a subscription takes access away when it runs out.)
PaidUpHasAccess ==
    /\ pool = <<>>
    /\ \A p \in Processes : pc[p] = "idle"
    /\ sub.status = "active" /\ ~trialed
    => IsActive(row, clock)

\* Dunning ends: with a payment or with the suspension.  (MaxClock leaves room
\* for the threshold.)
DunningEnds ==
    /\ row.dunning \notin {"none", "suspended"}
    /\ row.started + SuspensionDays <= MaxClock
    ~> row.dunning \in {"none", "suspended"}
====
