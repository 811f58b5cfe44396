---- MODULE PlanChanges ----
(***************************************************************************)
(* What the owner of a paid subscription does to it: change the plan,      *)
(* cancel, resume (app/services/billing.py), attach and detach add-ons     *)
(* (app/routers/billing.py).                                               *)
(*                                                                         *)
(* Each request reads the rows, calls Stripe, and commits the columns that *)
(* then differ from what it read; Stripe reports each change with an event *)
(* whose handler stores what it says.  Several processes serve requests,   *)
(* and one may die between the call and the commit.  Payments and dunning  *)
(* are in Subscriptions; prices, dates and reasons are left out.           *)
(***************************************************************************)
EXTENDS Integers, Sequences, FiniteSets

CONSTANTS Workers, Addons,
          MinPlan,       \* the plan the add-ons require
          ItemsByAttribute, \* does a subscription of the Stripe library give its
                            \* items by attribute, as billing.py asks for them?
          MaxRequests,   \* bound: requests
          MaxPeriods,    \* bound: renewals
          MaxFaults      \* bound: crashes

\* free, starter, pro
Plans == 0..2
\* What is assumed of the constants; the modules that instantiate this one state it.
PlanChangesAssumption ==
    /\ MinPlan \in Plans /\ ItemsByAttribute \in BOOLEAN
    /\ MaxRequests \in Nat /\ MaxPeriods \in Nat /\ MaxFaults \in Nat

VARIABLES
    row,         \* the subscriptions row
    attached,    \* the subscription_addons rows; no key makes an add-on unique
    stripe,      \* Stripe's subscription; items holds the add-on of each item made
    pool,        \* Stripe's events on their way, in order
    doing,       \* what each worker serves
    overlapped,  \* history: requests or events have overlapped (Meets)
    unstored,    \* history: a request has died after its call to Stripe
    lost,        \* history: an event has been lost in a crash
    requests, periods, faults  \* bounds

history == <<overlapped, unstored, lost>>
bounds == <<requests, periods, faults>>
vars == <<row, attached, stripe, pool, doing, history, bounds>>

Row == [plan : Plans, linked : BOOLEAN, status : {"active", "canceled"},
        ending : BOOLEAN, flags : SUBSET Addons]
Idle == [pc |-> "idle"]

Init ==
    /\ row \in {[plan |-> p, linked |-> TRUE, status |-> "active", ending |-> FALSE,
                 flags |-> {}] : p \in {1, 2}}
    /\ attached = <<>>
    /\ stripe = [status |-> "active", plan |-> row.plan, ending |-> FALSE,
                 items |-> <<>>, live |-> {}]
    /\ pool = <<>>
    /\ doing = [w \in Workers |-> Idle]
    /\ overlapped = FALSE /\ unstored = FALSE /\ lost = FALSE
    /\ requests = 0 /\ periods = 0 /\ faults = 0

At(w, pc) == doing[w].pc = pc
Quiet == pool = <<>> /\ \A w \in Workers : At(w, "idle")
Finish(w) == doing' = [doing EXCEPT ![w] = Idle]

\* What may go wrong when it overlaps: two requests, two events, the end of the
\* subscription and a request.
Meets(pc, kind, v) ==
    /\ ~At(v, "idle")
    /\ \/ (pc = "handle") = At(v, "handle")
       \/ kind = "deleted" \/ doing[v].kind = "deleted"

\* A free worker takes work up and reads the row; at is the add-on row it found.
Begin(w, pc, kind, plan, addons, at) ==
    /\ At(w, "idle")
    /\ doing' = [doing EXCEPT ![w] = [pc |-> pc, kind |-> kind, seen |-> row, plan |-> plan,
                                      addons |-> addons, at |-> at]]
    /\ overlapped' = (overlapped \/ \E v \in Workers \ {w} : Meets(pc, kind, v))
BeginRequest(w, pc, kind, plan, addons, at) ==
    /\ Begin(w, pc, kind, plan, addons, at)
    /\ requests < MaxRequests
    /\ requests' = requests + 1
    /\ UNCHANGED <<row, attached, stripe, pool, unstored, lost, periods, faults>>

\* The session writes the columns that differ from what it loaded.
Store(w, new) ==
    row' = [c \in DOMAIN row |-> IF new[c] = doing[w].seen[c] THEN row[c] ELSE new[c]]

Emit(kind) == pool' = Append(pool, [kind |-> kind, status |-> stripe'.status,
                                    ending |-> stripe'.ending])

-----------------------------------------------------------------------------
(* The requests, as far as their call to Stripe. *)

\* cancel_subscription, cancel_subscription_with_reason
Cancel(w) == row.linked /\ BeginRequest(w, "call", "cancel", 0, {}, 0)
CancelNow(w) == row.linked /\ BeginRequest(w, "call", "cancel_now", 0, {}, 0)

\* reactivate_subscription, resume_subscription
Resume(w) == row.linked /\ row.ending /\ BeginRequest(w, "call", "resume", 0, {}, 0)

\* change_subscription: the add-ons are the request's, the admin's are the row's
ChangePlan(w, plan, addons) ==
    row.linked /\ plan # 0 /\ BeginRequest(w, "call", "change", plan, addons, 0)

\* attach_addon's look for the add-on
Attached(a) ==
    {i \in DOMAIN attached : attached[i].addon = a
                             /\ attached[i].status \in {"active", "pending_cancel"}}

\* attach_addon: an add-on to be removed is only reactivated, without Stripe.
Attach(w, a) ==
    /\ row.linked
    /\ row.plan >= MinPlan
    /\ \/ Attached(a) = {} /\ BeginRequest(w, "call", "attach", 0, {a}, 0)
       \/ \E i \in Attached(a) :
             /\ attached[i].status = "pending_cancel"
             /\ BeginRequest(w, "commit", "reattach", 0, {a}, i)

\* detach_addon
Detach(w, a, immediate) ==
    \E i \in DOMAIN attached :
        /\ attached[i].addon = a /\ attached[i].status = "active"
        /\ BeginRequest(w, "call", IF immediate THEN "detach_now" ELSE "detach", 0, {a}, i)

-----------------------------------------------------------------------------
(* Stripe. *)

\* Stripe refuses to change a canceled subscription or to delete a deleted item.
\* Detaching at the period's end ignores the refusal.  A change of plan and a new
\* add-on ask for stripe_sub.items.data before they call: where items is the method of
\* a dictionary they raise.
Refuses(t) ==
    \/ t.kind \in {"change", "attach"} /\ ~ItemsByAttribute
    \/ stripe.status = "canceled" /\ t.kind # "detach"
    \/ t.kind = "detach_now" /\ attached[t.at].item \notin stripe.live

NewItem == Len(stripe.items) + 1
\* The one add-on of a request to attach.
TheAddon(t) == CHOOSE a \in t.addons : TRUE

Changed(t) ==
    CASE t.kind = "cancel"     -> [stripe EXCEPT !.ending = TRUE]
      [] t.kind = "cancel_now" -> [stripe EXCEPT !.status = "canceled", !.live = {}]
      [] t.kind = "resume"     -> [stripe EXCEPT !.ending = FALSE]
      [] t.kind = "change"     -> [stripe EXCEPT !.plan = t.plan]
      [] t.kind = "attach"     -> [stripe EXCEPT !.items = Append(@, TheAddon(t)),
                                                 !.live = @ \cup {NewItem}]
      [] t.kind = "detach"     -> stripe   \* a note in the item's metadata
      [] t.kind = "detach_now" -> [stripe EXCEPT !.live = @ \ {attached[t.at].item}]

CallStripe(w) ==
    /\ At(w, "call")
    /\ ~Refuses(doing[w])
    /\ stripe' = Changed(doing[w])
    /\ IF doing[w].kind = "detach" THEN UNCHANGED pool
       ELSE Emit(IF doing[w].kind = "cancel_now" THEN "deleted" ELSE "updated")
    /\ doing' = [doing EXCEPT ![w].pc = "commit",
                              ![w].at = IF doing[w].kind = "attach" THEN NewItem ELSE @]
    /\ UNCHANGED <<row, attached, history, bounds>>

StripeRefuses(w) ==
    /\ At(w, "call")
    /\ Refuses(doing[w])
    /\ Finish(w)
    /\ UNCHANGED <<row, attached, stripe, pool, history, bounds>>

\* The period ends, and with it a subscription that was to end; otherwise it is
\* renewed, and every live item billed.
Ends ==
    /\ stripe.status = "active" /\ stripe.ending
    /\ stripe' = [stripe EXCEPT !.status = "canceled", !.live = {}]
    /\ Emit("deleted")
    /\ UNCHANGED <<row, attached, doing, history, bounds>>
Renew ==
    /\ stripe.status = "active" /\ ~stripe.ending
    /\ periods < MaxPeriods
    /\ periods' = periods + 1
    /\ UNCHANGED <<row, attached, stripe, doing, history, requests, faults>>
    /\ Emit("updated")

-----------------------------------------------------------------------------
(* The requests' commits. *)

\* What becomes of an add-on's row.
NewStatus(kind) ==
    CASE kind = "reattach"   -> "active"
      [] kind = "detach"     -> "pending_cancel"
      [] kind = "detach_now" -> "canceled"

\* What becomes of the subscriptions row: a plan change replaces the add-on flags,
\* a reattached add-on does not get its flag back.
RowAfter(t) ==
    CASE t.kind = "cancel"     -> [t.seen EXCEPT !.ending = TRUE]
      [] t.kind = "cancel_now" -> [t.seen EXCEPT !.status = "canceled"]
      [] t.kind = "resume"     -> [t.seen EXCEPT !.ending = FALSE]
      [] t.kind = "change"     -> [t.seen EXCEPT !.plan = t.plan, !.flags = t.addons]
      [] t.kind = "attach"     -> [t.seen EXCEPT !.flags = @ \cup t.addons]
      [] t.kind = "reattach"   -> t.seen
      [] t.kind \in {"detach", "detach_now"} -> [t.seen EXCEPT !.flags = @ \ t.addons]

Commit(w) ==
    LET t == doing[w]
    IN  /\ At(w, "commit")
        /\ Store(w, RowAfter(t))
        /\ attached' =
              CASE t.kind = "attach" ->
                      Append(attached, [addon |-> stripe.items[t.at], status |-> "active", item |-> t.at])
                [] t.kind \in {"reattach", "detach", "detach_now"} ->
                      [attached EXCEPT ![t.at].status = NewStatus(t.kind)]
                [] OTHER -> attached
        /\ Finish(w)
        /\ UNCHANGED <<stripe, pool, history, bounds>>

-----------------------------------------------------------------------------
(* The events. *)

Deliver(w) ==
    /\ pool # <<>>
    /\ Begin(w, "handle", Head(pool).kind, 0, {}, Head(pool))
    /\ pool' = Tail(pool)
    /\ UNCHANGED <<row, attached, stripe, unstored, lost, bounds>>

\* Mutant: the event's cancellation is not copied.
UpdatedStatusOnly(r, e) == [r EXCEPT !.status = e.status]

\* _handle_subscription_updated does not look at the plan.
Updated(r, e) == [r EXCEPT !.status = e.status, !.ending = e.ending]
\* _handle_subscription_deleted
Deleted(r) == [r EXCEPT !.plan = 0, !.status = "canceled", !.linked = FALSE]

Handle(w) ==
    LET t == doing[w]
    IN  /\ At(w, "handle")
        /\ IF ~t.seen.linked THEN UNCHANGED row
           ELSE Store(w, IF t.kind = "updated" THEN Updated(t.seen, t.at) ELSE Deleted(t.seen))
        /\ Finish(w)
        /\ UNCHANGED <<attached, stripe, pool, history, bounds>>

\* The process dies; what it has not committed is rolled back, and the event it
\* handled was recorded as seen.
Crash(w) ==
    /\ ~At(w, "idle")
    /\ faults < MaxFaults
    /\ faults' = faults + 1
    /\ unstored' = (unstored \/ At(w, "commit"))
    /\ lost' = (lost \/ At(w, "handle"))
    /\ Finish(w)
    /\ UNCHANGED <<row, attached, stripe, pool, overlapped, requests, periods>>

-----------------------------------------------------------------------------
Next ==
    \/ \E w \in Workers :
          \/ Cancel(w) \/ CancelNow(w) \/ Resume(w)
          \/ \E plan \in Plans, addons \in SUBSET Addons : ChangePlan(w, plan, addons)
          \/ \E a \in Addons : Attach(w, a) \/ \E now \in BOOLEAN : Detach(w, a, now)
          \/ CallStripe(w) \/ StripeRefuses(w) \/ Commit(w)
          \/ Deliver(w) \/ Handle(w) \/ Crash(w)
    \/ Ends \/ Renew

Spec == Init /\ [][Next]_vars

-----------------------------------------------------------------------------
TypeOK ==
    /\ row \in Row
    /\ \A i \in DOMAIN attached :
          attached[i] \in [addon : Addons, status : {"active", "pending_cancel", "canceled"},
                           item : DOMAIN stripe.items]
    /\ stripe \in [status : {"active", "canceled"}, plan : Plans, ending : BOOLEAN,
                   items : Seq(Addons), live : SUBSET (DOMAIN stripe.items)]
    /\ \A w \in Workers : doing[w].pc \in {"idle", "call", "commit", "handle"}

\* Once Stripe's events are handled, the row says whether the subscription ends, even
\* if a request died before its commit: the event brings what the request did not
\* store.  (Requests and events one after the other.)
CancellationAgrees ==
    Quiet /\ ~overlapped /\ ~lost /\ row.linked => row.ending = stripe.ending

\* Nothing of the kind brings the plan, so it agrees unless a request died.
PlanAgrees ==
    Quiet /\ ~overlapped /\ ~unstored /\ ~lost =>
        row.plan = IF stripe.status = "active" THEN stripe.plan ELSE 0

\* What Stripe bills and what the account shows are the same add-ons, once each, if
\* no two requests overlapped and none died after its call.
BilledItemsAreAttached ==
    Quiet /\ ~overlapped /\ ~unstored /\ stripe.status = "active" =>
        \A a \in Addons :
            /\ Cardinality(Attached(a)) <= 1
            /\ {attached[i].item : i \in Attached(a)} = {n \in stripe.live : stripe.items[n] = a}
====
