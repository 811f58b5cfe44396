---- MODULE SubscriptionsProofs ----
(***************************************************************************)
(* The subscription keeps what is promised of it for any dunning schedule, *)
(* any number of processes, subscriptions, invoices, trials, cancellations *)
(* and crashes, and any time.                                              *)
(***************************************************************************)
EXTENDS Subscriptions, SequenceTheorems, TLAPS

-----------------------------------------------------------------------------
(* The types.                                                              *)

Day == 0..MaxClock
AboutInvoice(kinds) ==
    [kind : kinds, sub : 0..MaxSubs, invoice : 0..MaxInvoices, attempt : 0..MaxAttempts,
     status : {"active", "past_due", "canceled"}]
Event == AboutInvoice(EventKinds)
Retry == [kind : {"retry_failed"}, attempt : Nat]
Plain == [kind : {"retry_paid", "grace_check", "suspension_check", "start_trial", "cancel"}]
Work == Event \cup AboutInvoice({"payment_failure"}) \cup Retry \cup Plain

Sub == [id : 0..MaxSubs, status : {"none", "active", "past_due", "canceled"},
        open : 0..MaxAttempts, invoice : 0..MaxInvoices]

\* What is stored, here and at Stripe.
StoredTyped ==
    /\ clock \in Day
    /\ row \in Row
    /\ sub \in Sub
    /\ pool \in Seq(Event)
    /\ allocated \in Seq([invoice : 0..MaxInvoices, plan : {"free", "paid"}])
    /\ sub.id = 0 => sub.status = "none" /\ pool = <<>>

\* A process has work while it is not idle, and of a kind that fits its place.
WorkTyped ==
    /\ pc \in [Processes -> {"idle", "store", "recover", "reload"}]
    /\ task \in [Processes -> Work \cup {Idle}]
    /\ seen \in [Processes -> Day \X Row]
    /\ overlapped \in BOOLEAN /\ trialed \in BOOLEAN
    /\ \A p \in Processes :
          /\ pc[p] = "idle" => task[p] = Idle
          /\ pc[p] # "idle" => task[p] \in Work
          /\ pc[p] = "recover" => task[p].kind \in InvoiceEvents
          /\ pc[p] = "reload" => task[p].kind = "payment_failure"

Typed == StoredTyped /\ WorkTyped

LEMMA Days == /\ NoDate \in Date /\ NoDate \in Int
              /\ \A d \in Day : d \in Date /\ d \in Int
BY SubscriptionsAssumption DEF NoDate, Date, Day

\* What each kind of work does to the row.
LEMMA EffectOf ==
    ASSUME NEW t, NEW r, NEW now
    PROVE  /\ t.kind = "checkout.session.completed" =>
                 Effect(t, r, now) = [r EXCEPT !.stripeSub = t.sub]
           /\ t.kind = "customer.subscription.created" => Effect(t, r, now) = Created(r, t)
           /\ t.kind = "customer.subscription.updated" => Effect(t, r, now) = Updated(r, t)
           /\ t.kind = "customer.subscription.deleted" => Effect(t, r, now) = Deleted(r, t)
           /\ t.kind \in InvoiceEvents \cup {"retry_paid"} => Effect(t, r, now) = Recover(r)
           /\ t.kind = "invoice.payment_failed" =>
                 Effect(t, r, now) = [r EXCEPT !.status = "past_due"]
           /\ t.kind \in {"payment_failure", "retry_failed"} =>
                 Effect(t, r, now) = Fail(r, t.attempt, now)
           /\ t.kind = "grace_check" => Effect(t, r, now) = RestrictRow(r)
           /\ t.kind = "suspension_check" => Effect(t, r, now) = SuspendRow(r)
           /\ t.kind = "start_trial" => Effect(t, r, now) = Trial(r, now)
           /\ t.kind = "cancel" => Effect(t, r, now) = [r EXCEPT !.status = "canceled"]
BY DEF Effect, InvoiceEvents

LEMMA FailTyped == ASSUME NEW r \in Row, NEW attempt \in Nat, NEW now \in Day
                   PROVE  Fail(r, attempt, now) \in Row
<1> DEFINE started == IF r.started = NoDate THEN now ELSE r.started
           retrying == attempt \in DOMAIN RetryDays
           dunning == IF retrying THEN "retrying" ELSE "grace_period"
           retryAt == IF retrying THEN started + RetryDays[attempt] ELSE NoDate
           graceEnds == IF retrying THEN NoDate ELSE now + GraceDays
<1>1. started \in Date /\ started \in Int
    BY Days, SubscriptionsAssumption DEF Row, Date, Day
<1>2. retryAt \in Int /\ graceEnds \in Int
    BY <1>1, Days, SubscriptionsAssumption
<1>3. dunning \in {"retrying", "grace_period"}
    OBVIOUS
<1>4. Fail(r, attempt, now) =
        [r EXCEPT !.started = started, !.access = "warning", !.status = "past_due",
                  !.retries = attempt, !.dunning = dunning, !.retryAt = retryAt,
                  !.graceEnds = graceEnds]
    BY DEF Fail
<1> HIDE DEF started, dunning, retryAt, graceEnds
<1> QED BY <1>1, <1>2, <1>3, <1>4 DEF Row

LEMMA RecoverTyped == ASSUME NEW r \in Row PROVE Recover(r) \in Row
BY Days DEF Recover, Row

\* Whatever is done to a row leaves a row.
LEMMA EffectTyped == ASSUME NEW t \in Work, NEW r \in Row, NEW now \in Day
                     PROVE  Effect(t, r, now) \in Row
<1>1. CASE t \in Event
  <2>1. t.sub \in 0..MaxSubs /\ t.status \in {"active", "past_due", "canceled"}
        BY <1>1 DEF Event, AboutInvoice
  <2>2. t.kind \in EventKinds
        BY <1>1 DEF Event, AboutInvoice
  <2>3. Created(r, t) \in Row
        BY <2>1 DEF Created, Row
  <2>4. Updated(r, t) \in Row
        BY <2>1 DEF Updated, Row
  <2>5. 0 \in 0..MaxSubs
        BY SubscriptionsAssumption
  <2>6. Deleted(r, t) \in Row
        BY <2>5 DEF Deleted, Row
  <2>7. [r EXCEPT !.stripeSub = t.sub] \in Row /\ [r EXCEPT !.status = "past_due"] \in Row
        BY <2>1 DEF Row
  <2> QED BY <2>2, <2>3, <2>4, <2>6, <2>7, RecoverTyped, EffectOf DEF EventKinds
<1>2. CASE t \in AboutInvoice({"payment_failure"}) \cup Retry
  <2>1. t.kind \in {"payment_failure", "retry_failed"} /\ t.attempt \in Nat
        BY <1>2, SubscriptionsAssumption DEF AboutInvoice, Retry
  <2> QED BY <2>1, FailTyped, EffectOf
<1>3. CASE t \in Plain
  <2>1. t.kind \in {"retry_paid", "grace_check", "suspension_check", "start_trial", "cancel"}
        BY <1>3 DEF Plain
  <2>2. RestrictRow(r) \in Row /\ SuspendRow(r) \in Row
        BY Days DEF RestrictRow, SuspendRow, Row
  <2>3. now + TrialDays \in Int
        BY SubscriptionsAssumption, Days
  <2>4. Trial(r, now) \in Row
        BY <2>3 DEF Trial, Row
  <2>5. [r EXCEPT !.status = "canceled"] \in Row
        BY DEF Row
  <2> QED BY <2>1, <2>2, <2>4, <2>5, RecoverTyped, EffectOf
<1> QED BY <1>1, <1>2, <1>3 DEF Work

\* Storing some columns of a row leaves a row; storing all that was changed of the
\* row as it is leaves what was made of it.
LEMMA MergeTyped == ASSUME NEW current \in Row, NEW loaded \in Row, NEW new \in Row
                    PROVE  /\ Merge(current, loaded, new) \in Row
                           /\ current = loaded => Merge(current, loaded, new) = new
<1>1. DOMAIN current = {"plan", "status", "access", "dunning", "started", "retries",
                        "retryAt", "graceEnds", "stripeSub", "trialEnds"}
      /\ DOMAIN new = DOMAIN current
    BY DEF Row
<1>2. Merge(current, loaded, new) \in Row
    BY <1>1 DEF Row, Merge
<1>3. current = loaded => Merge(current, loaded, new) = new
    BY <1>1 DEF Row, Merge
<1> QED BY <1>2, <1>3

\* What is left of a sequence without one of its elements.
LEMMA RemoveAtFacts ==
    ASSUME NEW S, NEW s \in Seq(S), NEW i \in DOMAIN s
    PROVE  /\ RemoveAt(s, i) \in Seq(S)
           /\ Len(RemoveAt(s, i)) = Len(s) - 1
           /\ \A j \in 1..(Len(s) - 1) : RemoveAt(s, i)[j] = IF j < i THEN s[j] ELSE s[j + 1]
<1>1. i \in 1..Len(s)
    OBVIOUS
<1> DEFINE a == SubSeq(s, 1, i - 1)
           b == SubSeq(s, i + 1, Len(s))
<1>2. a \in Seq(S) /\ Len(a) = i - 1 /\ \A j \in 1..(i - 1) : a[j] = s[j]
    BY <1>1, SubSeqProperties
<1>3. b \in Seq(S) /\ Len(b) = Len(s) - i /\ \A j \in 1..(Len(s) - i) : b[j] = s[j + i]
    BY <1>1, SubSeqProperties
<1> HIDE DEF a, b
<1>4. /\ a \o b \in Seq(S) /\ Len(a \o b) = Len(a) + Len(b)
      /\ \A j \in 1..(Len(a) + Len(b)) : (a \o b)[j] = IF j <= Len(a) THEN a[j] ELSE b[j - Len(a)]
    BY <1>2, <1>3, ConcatProperties
<1>5. RemoveAt(s, i) = a \o b
    BY DEF RemoveAt, a, b
<1>6. Len(s) \in Nat /\ i \in Nat /\ i >= 1 /\ i <= Len(s)
    BY <1>1
<1>7. Len(a) + Len(b) = Len(s) - 1
    BY <1>2, <1>3, <1>6
<1>8. ASSUME NEW j \in 1..(Len(s) - 1)
      PROVE  (a \o b)[j] = IF j < i THEN s[j] ELSE s[j + 1]
  <2>1. (a \o b)[j] = IF j <= i - 1 THEN a[j] ELSE b[j - (i - 1)]
        BY <1>2, <1>4, <1>7
  <2>2. CASE j < i
        <3>1. j \in 1..(i - 1) /\ j <= i - 1
              BY <1>6, <2>2
        <3>2. a[j] = s[j]
              BY <1>2, <3>1
        <3> QED BY <2>1, <2>2, <3>1, <3>2
  <2>3. CASE ~(j < i)
        <3>1. /\ j - (i - 1) \in 1..(Len(s) - i) /\ (j - (i - 1)) + i = j + 1
              /\ ~(j <= i - 1)
              BY <1>6, <2>3
        <3>2. b[j - (i - 1)] = s[j + 1]
              BY <1>3, <3>1
        <3> QED BY <2>1, <2>3, <3>1, <3>2
  <2> QED BY <2>2, <2>3
<1>9. a \o b \in Seq(S) /\ Len(a \o b) = Len(s) - 1
    BY <1>4, <1>7
<1> QED BY <1>5, <1>8, <1>9

-----------------------------------------------------------------------------
(* What Stripe sends.                                                      *)

\* Events of these kinds, about sub as it has become.
SentOf(events, kinds) ==
    /\ events \in Seq(Event)
    /\ \A i \in 1..Len(events) : \E kind \in kinds : events[i] = About(kind)

LEMMA ToldSent == ASSUME sub' \in Sub, sub'.status # "none", NEW kind \in EventKinds
                  PROVE  /\ SentOf(Told(kind), {kind})
                         /\ Len(Told(kind)) = IF kind \in EndpointEvents THEN 1 ELSE 0
                         /\ kind \in EndpointEvents => Told(kind)[1].kind = kind
<1>1. /\ sub'.id \in 0..MaxSubs /\ sub'.invoice \in 0..MaxInvoices
      /\ sub'.open \in 0..MaxAttempts /\ sub'.status \in {"active", "past_due", "canceled"}
    BY DEF Sub
<1>2. About(kind) \in Event /\ About(kind).kind = kind
    BY <1>1 DEF About, Event, AboutInvoice
<1> QED BY <1>2 DEF Told, SentOf

LEMMA CatParts ==
    ASSUME NEW a \in Seq(Event), NEW b \in Seq(Event)
    PROVE  /\ a \o b \in Seq(Event)
           /\ Len(a) \in Nat /\ Len(b) \in Nat /\ Len(a \o b) = Len(a) + Len(b)
           /\ \A i \in 1..Len(a) : i \in 1..Len(a \o b) /\ (a \o b)[i] = a[i]
           /\ \A i \in 1..Len(b) : Len(a) + i \in 1..Len(a \o b) /\ (a \o b)[Len(a) + i] = b[i]
           /\ \A i \in 1..Len(a \o b) :
                  \/ i \in 1..Len(a)
                  \/ i - Len(a) \in 1..Len(b) /\ (a \o b)[i] = b[i - Len(a)]
<1>1. Len(a) \in Nat /\ Len(b) \in Nat
    OBVIOUS
<1>2. /\ a \o b \in Seq(Event) /\ Len(a \o b) = Len(a) + Len(b)
      /\ \A i \in 1..(Len(a) + Len(b)) : (a \o b)[i] = IF i <= Len(a) THEN a[i] ELSE b[i - Len(a)]
    BY <1>1, ConcatProperties
<1>3. ASSUME NEW i \in 1..Len(a \o b)
      PROVE  \/ i \in 1..Len(a)
             \/ i - Len(a) \in 1..Len(b) /\ (a \o b)[i] = b[i - Len(a)]
    BY <1>1, <1>2
<1>4. \A i \in 1..Len(b) : /\ Len(a) + i \in 1..(Len(a) + Len(b))
                            /\ (Len(a) + i) - Len(a) = i /\ ~(Len(a) + i <= Len(a))
    BY <1>1
<1>5. \A i \in 1..Len(b) : Len(a) + i \in 1..Len(a \o b) /\ (a \o b)[Len(a) + i] = b[i]
    BY <1>2, <1>4
<1>6. \A i \in 1..Len(a) : i \in 1..Len(a \o b) /\ (a \o b)[i] = a[i]
    BY <1>1, <1>2
<1> QED BY <1>1, <1>2, <1>3, <1>5, <1>6

LEMMA CatSent == ASSUME NEW K, NEW L, NEW a, NEW b, SentOf(a, K), SentOf(b, L)
                 PROVE  SentOf(a \o b, K \cup L)
<1>1. a \in Seq(Event) /\ b \in Seq(Event)
    BY DEF SentOf
<1>2. ASSUME NEW i \in 1..Len(a \o b)
      PROVE  \E kind \in K \cup L : (a \o b)[i] = About(kind)
  <2>1. \/ i \in 1..Len(a) /\ (a \o b)[i] = a[i]
        \/ i - Len(a) \in 1..Len(b) /\ (a \o b)[i] = b[i - Len(a)]
        BY <1>1, CatParts
  <2> QED BY <2>1 DEF SentOf
<1> QED BY <1>1, <1>2, CatParts DEF SentOf

\* A paid invoice is told of if the endpoint is configured for it, once if it is not
\* configured for both events.
OneInvoiceEvent == ~(InvoiceEvents \subseteq EndpointEvents)
SomeInvoiceEvent == InvoiceEvents \cap EndpointEvents # {}

LEMMA PaidSent == ASSUME sub' \in Sub, sub'.status # "none"
                  PROVE  /\ SentOf(Paid, InvoiceEvents)
                         /\ OneInvoiceEvent => Len(Paid) <= 1
                         /\ SomeInvoiceEvent => Len(Paid) >= 1
<1> DEFINE a == Told("invoice.paid")
           b == Told("invoice.payment_succeeded")
<1>1. /\ SentOf(a, {"invoice.paid"}) /\ SentOf(b, {"invoice.payment_succeeded"})
      /\ Len(a) = IF "invoice.paid" \in EndpointEvents THEN 1 ELSE 0
      /\ Len(b) = IF "invoice.payment_succeeded" \in EndpointEvents THEN 1 ELSE 0
    BY ToldSent DEF EventKinds, InvoiceEvents
<1> HIDE DEF a, b
<1>2. Paid = a \o b
    BY DEF Paid, a, b
<1>3. SentOf(a \o b, {"invoice.paid"} \cup {"invoice.payment_succeeded"})
    BY <1>1, CatSent
<1>4. Len(a \o b) = Len(a) + Len(b)
    BY <1>1, CatParts DEF SentOf
<1>5. {"invoice.paid"} \cup {"invoice.payment_succeeded"} = InvoiceEvents
    BY DEF InvoiceEvents
<1> QED BY <1>1, <1>2, <1>3, <1>5, <1>4 DEF OneInvoiceEvent, SomeInvoiceEvent, InvoiceEvents

\* What a customer has to be denied access for.
Bad(e) ==
    \/ e.kind \in {"invoice.payment_failed", "customer.subscription.deleted"}
    \/ e.kind = "customer.subscription.updated" /\ e.status # "active"

NewKinds == {"checkout.session.completed", "customer.subscription.created"}

\* What Stripe tells of a payment, of an attempt, of a subscription:
Tells(events) ==
    /\ SentOf(events, EventKinds)
    \* of a paid invoice, at most once, of the new one or of the one left open;
    /\ OneInvoiceEvent => \A i, j \in 1..Len(events) :
          events[i].kind \in InvoiceEvents /\ events[j].kind \in InvoiceEvents => i = j
    /\ \A i \in 1..Len(events) :
          events[i].kind \in InvoiceEvents =>
              /\ sub'.status = "active"
              /\ sub'.invoice > sub.invoice \/ sub.status = "past_due"
    /\ sub'.status = "past_due" => sub'.invoice > sub.invoice \/ sub.status = "past_due"
    \* of nothing bad while the subscription is paid, and that it is paid;
    /\ sub'.status = "active" =>
          /\ \A i \in 1..Len(events) : ~Bad(events[i])
          /\ SomeInvoiceEvent => \E i \in 1..Len(events) : events[i].kind \in InvoiceEvents
    \* of the end of a subscription nothing else;
    /\ \A i \in 1..Len(events) :
          events[i].kind = "customer.subscription.deleted" => sub'.status = "canceled"
    /\ sub'.status = "canceled" =>
          /\ sub.status \in {"active", "past_due"}
          /\ "customer.subscription.deleted" \in EndpointEvents =>
                Len(events) = 1 /\ events[1].kind = "customer.subscription.deleted"
    \* and of a link only to a new one, which it tells of.
    /\ \A i \in 1..Len(events) : events[i].sub = sub'.id
    /\ IF sub.status \in {"active", "past_due"}
       THEN sub'.id = sub.id /\ \A i \in 1..Len(events) : events[i].kind \notin NewKinds
       ELSE "checkout.session.completed" \in EndpointEvents =>
               \E i \in 1..Len(events) : events[i].kind = "checkout.session.completed"
Sends ==
    /\ sub' \in Sub /\ sub'.id # 0 /\ sub'.status # "none" /\ sub'.invoice >= sub.invoice
    /\ \E events : pool' = pool \o events /\ Tells(events)

LEMMA Kinds == ASSUME sub' \in Sub, NEW kinds, NEW events, SentOf(events, kinds)
               PROVE  /\ Len(events) \in Nat
                      /\ \A i \in 1..Len(events) : /\ events[i] = About(events[i].kind)
                                                   /\ events[i].kind \in kinds
                                                   /\ events[i].status = sub'.status
                                                   /\ events[i].sub = sub'.id
                      /\ kinds \subseteq EventKinds => SentOf(events, EventKinds)
<1>1. \A kind : /\ About(kind).kind = kind /\ About(kind).status = sub'.status
                 /\ About(kind).sub = sub'.id
    BY DEF About
<1> QED BY <1>1 DEF SentOf

\* Nothing else but a payment.
LEMMA PaidTells == ASSUME sub' \in Sub, sub'.status = "active",
                          sub.status = "active" /\ sub'.invoice > sub.invoice,
                          sub'.id = sub.id
                   PROVE  Tells(Paid)
<1>1. SentOf(Paid, InvoiceEvents)
    BY PaidSent
<1>2. InvoiceEvents \subseteq EventKinds
    BY DEF EventKinds
<1>3. /\ Len(Paid) \in Nat /\ SentOf(Paid, EventKinds)
      /\ \A i \in 1..Len(Paid) : Paid[i].kind \in InvoiceEvents /\ Paid[i].sub = sub'.id
    BY <1>1, <1>2, Kinds
<1>4. \A i \in 1..Len(Paid) : /\ ~Bad(Paid[i]) /\ Paid[i].kind # "customer.subscription.deleted"
                               /\ Paid[i].kind \notin NewKinds
    BY <1>3 DEF Bad, InvoiceEvents, NewKinds
<1>5. OneInvoiceEvent => \A i, j \in 1..Len(Paid) : i = j
    BY <1>3, PaidSent
<1>6. SomeInvoiceEvent => 1 \in 1..Len(Paid)
    BY <1>3, PaidSent
<1> QED BY <1>3, <1>4, <1>5, <1>6 DEF Tells

\* A payment of the open invoice, and that the subscription is no longer past due.
LEMMA AttemptPaidTells ==
    ASSUME sub' \in Sub, sub'.status = "active", sub.status = "past_due", sub'.id = sub.id
    PROVE  Tells(Paid \o Told("customer.subscription.updated"))
<1> DEFINE b == Told("customer.subscription.updated")
           events == Paid \o b
<1>1. SentOf(Paid, InvoiceEvents) /\ SentOf(b, {"customer.subscription.updated"})
    BY PaidSent, ToldSent DEF EventKinds
<1> HIDE DEF b
<1>2. InvoiceEvents \cup {"customer.subscription.updated"} \subseteq EventKinds
    BY DEF EventKinds
<1>3. SentOf(Paid \o b, InvoiceEvents \cup {"customer.subscription.updated"})
    BY <1>1, CatSent
<1>4. Paid \in Seq(Event) /\ b \in Seq(Event)
    BY <1>1 DEF SentOf
<1>5. /\ Len(Paid) \in Nat /\ Len(b) \in Nat /\ Len(Paid \o b) = Len(Paid) + Len(b)
      /\ \A i \in 1..Len(Paid) : i \in 1..Len(Paid \o b) /\ (Paid \o b)[i] = Paid[i]
      /\ \A i \in 1..Len(Paid \o b) :
            \/ i \in 1..Len(Paid)
            \/ i - Len(Paid) \in 1..Len(b) /\ (Paid \o b)[i] = b[i - Len(Paid)]
    BY <1>4, CatParts
<1> HIDE DEF events
<1> DEFINE kinds == InvoiceEvents \cup {"customer.subscription.updated"}
<1> HIDE DEF kinds
<1>6. SentOf(events, kinds) /\ kinds \subseteq EventKinds
    BY <1>2, <1>3 DEF events, kinds
<1>7. /\ SentOf(events, EventKinds)
      /\ \A i \in 1..Len(events) : /\ events[i].kind \in kinds /\ events[i].status = sub'.status
                                    /\ events[i].sub = sub'.id
    BY <1>6, Kinds
<1>8. \A i \in 1..Len(b) : b[i].kind \notin InvoiceEvents
    BY <1>1, Kinds DEF InvoiceEvents
<1>9. \A i \in 1..Len(events) : events[i].kind \in InvoiceEvents => i \in 1..Len(Paid)
    BY <1>5, <1>8 DEF events
<1>10. \A i \in 1..Len(events) : /\ ~Bad(events[i]) /\ events[i].kind # "customer.subscription.deleted"
                                  /\ events[i].kind \notin NewKinds
    BY <1>7 DEF Bad, InvoiceEvents, kinds, NewKinds
<1>11. OneInvoiceEvent => \A i, j \in 1..Len(Paid) : i = j
    BY <1>5, PaidSent
<1>12. OneInvoiceEvent => \A i, j \in 1..Len(events) :
          events[i].kind \in InvoiceEvents /\ events[j].kind \in InvoiceEvents => i = j
    BY <1>9, <1>11
<1>13. SomeInvoiceEvent => 1 \in 1..Len(events) /\ events[1].kind \in InvoiceEvents
  <2> SUFFICES ASSUME SomeInvoiceEvent
               PROVE  1 \in 1..Len(events) /\ events[1].kind \in InvoiceEvents
      OBVIOUS
  <2>1. 1 \in 1..Len(Paid)
        BY <1>5, PaidSent
  <2>2. Paid[1].kind \in InvoiceEvents
        BY <1>1, <2>1, Kinds
  <2> QED BY <1>5, <2>1, <2>2 DEF events
<1>14. Tells(events)
    BY <1>7, <1>10, <1>12, <1>13 DEF Tells
<1> QED BY <1>14 DEF events, b

\* A new subscription and its first payment.
LEMMA SubscribeTells ==
    ASSUME sub' \in Sub, sub'.status = "active", sub'.invoice > sub.invoice,
           sub.status \notin {"active", "past_due"}
    PROVE  Tells(Told("customer.subscription.created") \o Told("checkout.session.completed") \o Paid)
<1> DEFINE created == Told("customer.subscription.created")
           completed == Told("checkout.session.completed")
           a == created \o completed
           events == a \o Paid
           kinds == {"customer.subscription.created"} \cup {"checkout.session.completed"}
<1>1. /\ SentOf(created, {"customer.subscription.created"})
      /\ SentOf(completed, {"checkout.session.completed"})
      /\ SentOf(Paid, InvoiceEvents)
      /\ "checkout.session.completed" \in EndpointEvents =>
            Len(completed) = 1 /\ completed[1].kind = "checkout.session.completed"
    BY PaidSent, ToldSent DEF EventKinds
<1> HIDE DEF created, completed
<1> HIDE DEF kinds
<1>2. SentOf(a, kinds)
    BY <1>1, CatSent DEF kinds
<1>3. created \in Seq(Event) /\ completed \in Seq(Event) /\ Paid \in Seq(Event)
    BY <1>1 DEF SentOf
<1>4. /\ a \in Seq(Event) /\ Len(created) \in Nat
      /\ \A i \in 1..Len(completed) : /\ Len(created) + i \in 1..Len(a)
                                       /\ a[Len(created) + i] = completed[i]
    BY <1>3, CatParts
<1> HIDE DEF a
<1>5. SentOf(a \o Paid, kinds \cup InvoiceEvents)
    BY <1>1, <1>2, CatSent
<1>6. /\ Len(a) \in Nat /\ Len(Paid) \in Nat /\ Len(a \o Paid) = Len(a) + Len(Paid)
      /\ \A i \in 1..Len(a) : i \in 1..Len(a \o Paid) /\ (a \o Paid)[i] = a[i]
      /\ \A i \in 1..Len(Paid) : /\ Len(a) + i \in 1..Len(a \o Paid)
                                  /\ (a \o Paid)[Len(a) + i] = Paid[i]
      /\ \A i \in 1..Len(a \o Paid) : i \in 1..Len(a) \/ i - Len(a) \in 1..Len(Paid)
    BY <1>4, <1>3, CatParts
<1>7. kinds \cup InvoiceEvents \subseteq EventKinds
    BY DEF EventKinds, kinds
<1> HIDE DEF events
<1>8. /\ SentOf(events, EventKinds)
      /\ \A i \in 1..Len(events) : events[i].kind \in kinds \cup InvoiceEvents /\ events[i].sub = sub'.id
  <2> DEFINE all == kinds \cup InvoiceEvents
  <2> HIDE DEF all
  <2>1. SentOf(events, all) /\ all \subseteq EventKinds
        BY <1>5, <1>7 DEF events, all
  <2>2. /\ SentOf(events, EventKinds)
        /\ \A i \in 1..Len(events) : events[i].kind \in all /\ events[i].sub = sub'.id
        BY <2>1, Kinds
  <2> QED BY <2>2 DEF all
<1>9. \A i \in 1..Len(events) : ~Bad(events[i]) /\ events[i].kind # "customer.subscription.deleted"
    BY <1>8 DEF Bad, InvoiceEvents, kinds
<1>10. \A i \in 1..Len(a) : a[i].kind \notin InvoiceEvents
    BY <1>2, Kinds DEF InvoiceEvents, kinds
<1>11. \A i \in 1..Len(events) : events[i].kind \in InvoiceEvents => i - Len(a) \in 1..Len(Paid)
    BY <1>6, <1>10 DEF events
<1>12. OneInvoiceEvent => \A i, j \in 1..Len(events) :
          i - Len(a) \in 1..Len(Paid) /\ j - Len(a) \in 1..Len(Paid) => i = j
    BY <1>6, PaidSent
<1>13. SomeInvoiceEvent =>
           Len(a) + 1 \in 1..Len(events) /\ events[Len(a) + 1].kind \in InvoiceEvents
  <2> SUFFICES ASSUME SomeInvoiceEvent
               PROVE  Len(a) + 1 \in 1..Len(events) /\ events[Len(a) + 1].kind \in InvoiceEvents
      OBVIOUS
  <2>1. 1 \in 1..Len(Paid)
        BY <1>6, PaidSent
  <2>2. Paid[1].kind \in InvoiceEvents
        BY <1>1, <2>1, Kinds
  <2> QED BY <1>6, <2>1, <2>2 DEF events
<1>14. "checkout.session.completed" \in EndpointEvents =>
           \E i \in 1..Len(events) : events[i].kind = "checkout.session.completed"
  <2> SUFFICES ASSUME "checkout.session.completed" \in EndpointEvents
               PROVE  \E i \in 1..Len(events) : events[i].kind = "checkout.session.completed"
      OBVIOUS
  <2>1. 1 \in 1..Len(completed) /\ completed[1].kind = "checkout.session.completed"
        BY <1>1
  <2>2. /\ Len(created) + 1 \in 1..Len(a)
        /\ a[Len(created) + 1].kind = "checkout.session.completed"
        BY <1>4, <2>1
  <2> QED BY <1>6, <2>2 DEF events
<1>15. Tells(events)
    BY <1>8, <1>9, <1>11, <1>12, <1>13, <1>14 DEF Tells
<1>16. Told("customer.subscription.created") \o Told("checkout.session.completed") \o Paid = events
    BY DEF events, a, created, completed
<1> QED BY <1>15, <1>16

\* Nothing of a payment: a failed attempt, or the end.
LEMMA OtherwiseTells ==
    ASSUME sub' \in Sub, NEW events, NEW kinds \in SUBSET EventKinds, SentOf(events, kinds),
           kinds \cap (InvoiceEvents \cup NewKinds) = {}, sub'.id = sub.id,
           \/ /\ "customer.subscription.deleted" \notin kinds
              /\ sub'.status = "past_due"
              /\ \/ sub.status = "active" /\ sub'.invoice > sub.invoice
                 \/ sub.status = "past_due"
           \/ /\ sub'.status = "canceled" /\ sub.status \in {"active", "past_due"}
              /\ "customer.subscription.deleted" \in EndpointEvents =>
                    Len(events) = 1 /\ events[1].kind = "customer.subscription.deleted"
    PROVE  Tells(events)
BY Kinds DEF Tells

LEMMA Bounds == /\ MaxSubs \in Nat /\ MaxInvoices \in Nat /\ MaxAttempts \in Nat
                /\ 0 \in 0..MaxAttempts /\ 1 \in 0..MaxAttempts
                /\ \A n \in 0..MaxInvoices : /\ n + 1 > n /\ n + 1 >= n /\ n >= n
                                              /\ n < MaxInvoices => n + 1 \in 0..MaxInvoices
                /\ \A n \in 0..MaxSubs : n < MaxSubs => n + 1 \in 0..MaxSubs /\ n + 1 # 0
                /\ \A n \in 0..MaxAttempts : n < MaxAttempts => n + 1 \in 0..MaxAttempts
BY SubscriptionsAssumption

LEMMA StripeSends == ASSUME Typed, Stripe PROVE Sends /\ OnlyStripe
<1>1. /\ sub \in Sub /\ (sub.id = 0 => sub.status = "none")
      /\ sub.id \in 0..MaxSubs /\ sub.invoice \in 0..MaxInvoices /\ sub.open \in 0..MaxAttempts
    BY Bounds DEF Typed, StoredTyped, Sub
<1>2. CASE Subscribe
  <2>1. sub' \in Sub
      BY <1>1, <1>2, Bounds DEF Subscribe, Sub
  <2>2. /\ sub'.id # 0 /\ sub'.status = "active" /\ sub.status \notin {"active", "past_due"}
        /\ sub'.invoice > sub.invoice /\ sub'.invoice >= sub.invoice
      BY <2>1, <1>1, <1>2, Bounds DEF Subscribe, Sub
  <2> QED BY <1>2, <2>2, <2>1, SubscribeTells DEF Subscribe, Emit, Sends
<1>3. CASE Renew
  <2>1. sub' \in Sub
      BY <1>1, <1>3, Bounds DEF Renew, Sub
  <2>2. /\ sub'.id # 0 /\ sub'.id = sub.id /\ sub'.status = "active" /\ sub.status = "active"
        /\ sub'.invoice > sub.invoice /\ sub'.invoice >= sub.invoice
      BY <2>1, <1>1, <1>3, Bounds DEF Renew, Sub
  <2> QED BY <1>3, <2>2, <2>1, PaidTells DEF Renew, Emit, Sends
<1>4. CASE RenewalFails
  <2>1. /\ sub.invoice + 1 \in 0..MaxInvoices /\ 1 \in 0..MaxAttempts
        /\ sub' = [sub EXCEPT !.invoice = sub.invoice + 1, !.open = 1, !.status = "past_due"]
      BY <1>1, <1>4, Bounds DEF RenewalFails
  <2>2. sub' \in Sub
      BY <1>1, <2>1 DEF Sub
  <2>3. /\ sub'.id # 0 /\ sub'.id = sub.id /\ sub'.status = "past_due" /\ sub.status = "active"
        /\ sub'.invoice > sub.invoice /\ sub'.invoice >= sub.invoice
      BY <2>2, <1>1, <1>4, Bounds DEF RenewalFails, Sub
  <2>4. SentOf(Told("invoice.payment_failed") \o Told("customer.subscription.updated"),
               {"invoice.payment_failed"} \cup {"customer.subscription.updated"})
        BY <2>3, <2>2, ToldSent, CatSent DEF EventKinds
  <2>5. LET kinds == {"invoice.payment_failed"} \cup {"customer.subscription.updated"}
        IN  /\ kinds \in SUBSET EventKinds
            /\ kinds \cap (InvoiceEvents \cup NewKinds) = {}
            /\ "customer.subscription.deleted" \notin kinds
        BY DEF EventKinds, InvoiceEvents, NewKinds
  <2>6. Tells(Told("invoice.payment_failed") \o Told("customer.subscription.updated"))
        BY <2>3, <2>2, <2>4, <2>5, OtherwiseTells
  <2> QED BY <1>4, <2>3, <2>2, <2>6 DEF RenewalFails, Emit, Sends
<1>5. CASE AttemptFails
  <2>1. sub' \in Sub
      BY <1>1, <1>5, Bounds DEF AttemptFails, Sub
  <2>2. /\ sub'.id # 0 /\ sub'.id = sub.id /\ sub'.status = "past_due" /\ sub.status = "past_due"
        /\ sub'.invoice >= sub.invoice
      BY <2>1, <1>1, <1>5, Bounds DEF AttemptFails, Sub
  <2>3. Tells(Told("invoice.payment_failed"))
        BY <2>2, <2>1, ToldSent, OtherwiseTells DEF EventKinds, InvoiceEvents, NewKinds
  <2> QED BY <1>5, <2>2, <2>1, <2>3 DEF AttemptFails, Emit, Sends
<1>6. CASE AttemptPaid
  <2>1. sub' \in Sub
      BY <1>1, <1>6, Bounds DEF AttemptPaid, Sub
  <2>2. /\ sub'.id # 0 /\ sub'.id = sub.id /\ sub'.status = "active" /\ sub.status = "past_due"
        /\ sub'.invoice >= sub.invoice
      BY <2>1, <1>1, <1>6, Bounds DEF AttemptPaid, Sub
  <2> QED BY <1>6, <2>2, <2>1, AttemptPaidTells DEF AttemptPaid, Emit, Sends
<1>7. CASE GiveUp
  <2>1. sub' \in Sub
      BY <1>1, <1>7, Bounds DEF GiveUp, Sub
  <2>2. /\ sub'.id # 0 /\ sub'.id = sub.id /\ sub'.status = "canceled" /\ sub.status = "past_due"
        /\ sub'.invoice >= sub.invoice
      BY <2>1, <1>1, <1>7, Bounds DEF GiveUp, Sub
  <2>3. Tells(Told("customer.subscription.deleted"))
        BY <2>2, <2>1, ToldSent, OtherwiseTells DEF EventKinds, InvoiceEvents, NewKinds
  <2> QED BY <1>7, <2>2, <2>1, <2>3 DEF GiveUp, Emit, Sends
<1>8. OnlyStripe
    BY DEF Stripe, Subscribe, Renew, RenewalFails, AttemptFails, AttemptPaid, GiveUp
<1> QED BY <1>2, <1>3, <1>4, <1>5, <1>6, <1>7, <1>8 DEF Stripe

\* What the retry of a payment and a cancellation start with.
LEMMA RetrySends ==
    ASSUME Typed, NEW p \in Processes, RetryPayment(p)
    PROVE  /\ Sends
           /\ \/ sub'.status = "active" /\ Start(p, [kind |-> "retry_paid"])
              \/ /\ sub'.status = "past_due"
                 /\ \E attempt \in Nat : Start(p, [kind |-> "retry_failed", attempt |-> attempt])
           /\ sub.id # 0 /\ sub'.id = sub.id
           /\ UNCHANGED <<clock, row, allocated, trials, cancels, faults>>
<1>1. /\ sub \in Sub /\ (sub.id = 0 => sub.status = "none") /\ sub.status = "past_due"
      /\ sub.id \in 0..MaxSubs /\ sub.invoice \in 0..MaxInvoices /\ sub.open \in 0..MaxAttempts
      /\ sub.open \in Nat /\ row.retries \in Nat
    BY Bounds DEF Typed, StoredTyped, Sub, Row, RetryPayment
<1>2. CASE /\ sub' = [sub EXCEPT !.open = 0, !.status = "active"]
           /\ Emit(Paid \o Told("customer.subscription.updated"))
           /\ Start(p, [kind |-> "retry_paid"])
  <2>1. sub' \in Sub
      BY <1>1, <1>2, Bounds DEF Sub
  <2>2. /\ sub'.id # 0 /\ sub'.id = sub.id /\ sub'.status = "active"
        /\ sub'.invoice >= sub.invoice
      BY <2>1, <1>1, <1>2, Bounds DEF Sub
  <2> QED BY <1>1, <1>2, <2>2, <2>1, AttemptPaidTells DEF RetryPayment, Emit, Sends
<1>3. CASE /\ sub.open < MaxAttempts
           /\ sub' = [sub EXCEPT !.open = @ + 1]
           /\ Emit(Told("invoice.payment_failed"))
           /\ \E attempt \in Nat : Start(p, [kind |-> "retry_failed", attempt |-> attempt])
  <2>1. sub' \in Sub
      BY <1>1, <1>3, Bounds DEF Sub
  <2>2. /\ sub'.id # 0 /\ sub'.id = sub.id /\ sub'.status = "past_due"
        /\ sub'.invoice >= sub.invoice
      BY <2>1, <1>1, <1>3, Bounds DEF Sub
  <2>3. Tells(Told("invoice.payment_failed"))
        BY <1>1, <2>2, <2>1, ToldSent, OtherwiseTells DEF EventKinds, InvoiceEvents, NewKinds
  <2> QED BY <1>1, <1>3, <2>2, <2>1, <2>3 DEF RetryPayment, Emit, Sends
<1>4. \A m, n \in Nat : (IF m + 1 > n + 1 THEN m + 1 ELSE n + 1) \in Nat
    OBVIOUS
<1> QED BY <1>1, <1>2, <1>3, <1>4 DEF RetryPayment

LEMMA CancelSends ==
    ASSUME Typed, NEW p \in Processes, CancelNow(p)
    PROVE  /\ Sends
           /\ sub'.status = "canceled" /\ sub.id # 0 /\ sub'.id = sub.id
           /\ Start(p, [kind |-> "cancel"])
           /\ UNCHANGED <<clock, row, allocated, trials, faults>>
<1>1. /\ sub \in Sub /\ (sub.id = 0 => sub.status = "none") /\ sub.status \in {"active", "past_due"}
      /\ sub.id \in 0..MaxSubs /\ sub.invoice \in 0..MaxInvoices
    BY Bounds DEF Typed, StoredTyped, Sub, CancelNow
<1>2. sub' \in Sub
    BY <1>1, Bounds DEF CancelNow, Sub
<1>3. /\ sub'.id # 0 /\ sub'.id = sub.id /\ sub'.status = "canceled"
      /\ sub'.invoice >= sub.invoice
    BY <1>2, <1>1, Bounds DEF CancelNow, Sub
<1>4. Tells(Told("customer.subscription.deleted"))
    BY <1>1, <1>2, <1>3, ToldSent, OtherwiseTells DEF EventKinds, InvoiceEvents, NewKinds
<1> QED BY <1>1, <1>2, <1>3, <1>4 DEF CancelNow, Emit, Sends

\* The events on their way after that are those and then these.
LEMMA SentTyped == ASSUME Typed, Sends
                   PROVE  sub' \in Sub /\ pool' \in Seq(Event) /\ sub'.id # 0
<1>1. PICK events : pool' = pool \o events /\ Tells(events)
    BY DEF Sends
<1>2. events \in Seq(Event) /\ pool \in Seq(Event)
    BY <1>1 DEF Tells, SentOf, Typed, StoredTyped
<1> QED BY <1>1, <1>2, ConcatProperties DEF Sends

-----------------------------------------------------------------------------
(* The types are kept.                                                     *)

LEMMA StartTyped == ASSUME Typed, NEW p \in Processes, NEW t \in Work, Start(p, t)
                    PROVE  WorkTyped'
<1>1. /\ pc' \in [Processes -> {"idle", "store", "recover", "reload"}]
      /\ task' \in [Processes -> Work \cup {Idle}]
    BY DEF Typed, WorkTyped, Start
<1>2. seen' \in [Processes -> Day \X Row]
    BY DEF Typed, WorkTyped, StoredTyped, Start
<1>3. overlapped' \in BOOLEAN /\ trialed' \in BOOLEAN
    BY DEF Typed, WorkTyped, Start
<1>4. ASSUME NEW q \in Processes
      PROVE  /\ pc'[q] = "idle" => task'[q] = Idle
             /\ pc'[q] # "idle" => task'[q] \in Work
             /\ pc'[q] = "recover" => task'[q].kind \in InvoiceEvents
             /\ pc'[q] = "reload" => task'[q].kind = "payment_failure"
    BY DEF Typed, WorkTyped, Start
<1> QED BY <1>1, <1>2, <1>3, <1>4 DEF WorkTyped

\* What a crash does to a process, and the end of its work.
Drops(p) ==
    /\ pc' = [pc EXCEPT ![p] = "idle"]
    /\ task' = [task EXCEPT ![p] = Idle]
    /\ seen' = [seen EXCEPT ![p] = <<0, NewRow>>]

LEMMA NewRowTyped == 0 \in Day /\ NewRow \in Row
BY SubscriptionsAssumption, Days DEF Day, NewRow, Row

LEMMA DropsTyped ==
    ASSUME Typed, NEW p \in Processes, Drops(p), UNCHANGED <<overlapped, trialed>>
    PROVE  WorkTyped'
<1>1. seen' \in [Processes -> Day \X Row]
    BY NewRowTyped DEF Typed, WorkTyped, Drops
<1>2. /\ pc' \in [Processes -> {"idle", "store", "recover", "reload"}]
      /\ task' \in [Processes -> Work \cup {Idle}]
    BY DEF Typed, WorkTyped, Drops
<1>3. ASSUME NEW q \in Processes
      PROVE  /\ pc'[q] = "idle" => task'[q] = Idle
             /\ pc'[q] # "idle" => task'[q] \in Work
             /\ pc'[q] = "recover" => task'[q].kind \in InvoiceEvents
             /\ pc'[q] = "reload" => task'[q].kind = "payment_failure"
    BY DEF Typed, WorkTyped, Drops
<1> QED BY <1>1, <1>2, <1>3 DEF Typed, WorkTyped

\* A step of any process is one of these; those that take up work say so.
LEMMA StepStarts ==
    ASSUME Typed, NEW p \in Processes, Step(p)
    PROVE  \/ \E t \in Work : Start(p, t)
           \/ AllocateCredits(p) \/ Store(p) \/ Reload(p)
<1>1. CASE Deliver(p)
  <2>1. PICK i \in DOMAIN pool : Start(p, pool[i])
        BY <1>1 DEF Deliver
  <2>2. pool[i] \in Work
        BY DEF Typed, StoredTyped, Work
  <2> QED BY <2>1, <2>2
<1>2. \A kind \in {"retry_paid", "grace_check", "suspension_check", "start_trial", "cancel"} :
          [kind |-> kind] \in Work
    BY DEF Work, Plain
<1>3. \A attempt \in Nat : [kind |-> "retry_failed", attempt |-> attempt] \in Work
    BY DEF Work, Retry
<1>4. CASE StartGraceCheck(p) \/ StartSuspensionCheck(p) \/ StartTrial(p)
    BY <1>2, <1>4 DEF StartGraceCheck, StartSuspensionCheck, StartTrial
<1>5. CASE RetryPayment(p)
    BY <1>2, <1>3, <1>5, RetrySends
<1>6. CASE CancelNow(p)
    BY <1>2, <1>6, CancelSends
<1> QED BY <1>1, <1>4, <1>5, <1>6 DEF Step

\* What the processes leave of what is stored.
LEMMA StoredSame ==
    ASSUME Typed, NEW p \in Processes,
           \/ AllocateCredits(p) \/ Store(p) \/ Reload(p) \/ Crash(p)
    PROVE  UNCHANGED <<clock, sub, pool>>
BY DEF AllocateCredits, Store, Reload, Crash

\* A row is stored as the task made it of the row it had loaded, and that is a row.
LEMMA Stored ==
    ASSUME Typed, NEW p \in Processes, Store(p)
    PROVE  /\ task[p] \in Work /\ seen[p][2] \in Row /\ seen[p][1] \in Day /\ pc[p] # "idle"
           /\ LET new == Effect(task[p], seen[p][2], seen[p][1])
              IN  /\ new \in Row
                  /\ row' = Merge(row, seen[p][2], new)
                  /\ seen[p][2] = row => row' = new
           /\ row' \in Row
           /\ \/ task[p].kind = "invoice.payment_failed" /\ pc[p] = "store"
              \/ task[p].kind # "invoice.payment_failed" /\ Drops(p)
<1>1. /\ task[p] \in Work /\ seen[p][2] \in Row /\ seen[p][1] \in Day /\ pc[p] # "idle"
      /\ row \in Row
    BY DEF Typed, WorkTyped, StoredTyped, Store
<1>2. Effect(task[p], seen[p][2], seen[p][1]) \in Row
    BY <1>1, EffectTyped
<1>3. row' = Merge(row, seen[p][2], Effect(task[p], seen[p][2], seen[p][1]))
    BY DEF Store
<1>4. pc[p] = "store" \/ task[p].kind \in InvoiceEvents
    BY DEF Store, Typed, WorkTyped
<1>5. \/ task[p].kind = "invoice.payment_failed" /\ pc[p] = "store"
      \/ task[p].kind # "invoice.payment_failed" /\ Drops(p)
    BY <1>4 DEF Store, Drops, InvoiceEvents
<1> HIDE DEF Drops
<1> QED BY <1>1, <1>2, <1>3, <1>5, MergeTyped

LEMMA StoreTyped == ASSUME Typed, NEW p \in Processes, Store(p) PROVE Typed'
<1>1. /\ clock' = clock /\ sub' = sub /\ pool' = pool /\ allocated' = allocated
      /\ UNCHANGED <<overlapped, trialed>>
    BY DEF Store
<1>2. StoredTyped'
    BY <1>1, Stored DEF Typed, StoredTyped
<1>3. CASE task[p].kind = "invoice.payment_failed"
  <2>1. /\ pc' = [pc EXCEPT ![p] = "reload"] /\ seen' = seen
        /\ task' = [task EXCEPT ![p] = [task[p] EXCEPT !.kind = "payment_failure"]]
        BY <1>3 DEF Store
  <2>2. task[p] \in Event
        BY <1>3, Stored DEF Work, AboutInvoice, Retry, Plain
  <2>3. [task[p] EXCEPT !.kind = "payment_failure"] \in AboutInvoice({"payment_failure"})
        BY <2>2 DEF Event, AboutInvoice
  <2>4. [task[p] EXCEPT !.kind = "payment_failure"] \in Work
        BY <2>3 DEF Work
  <2>5. [task[p] EXCEPT !.kind = "payment_failure"].kind = "payment_failure"
        BY <2>3 DEF AboutInvoice
  <2>6. /\ pc' \in [Processes -> {"idle", "store", "recover", "reload"}]
        /\ task' \in [Processes -> Work \cup {Idle}]
        /\ pc'[p] = "reload" /\ task'[p] = [task[p] EXCEPT !.kind = "payment_failure"]
        /\ \A q \in Processes : q # p => pc'[q] = pc[q] /\ task'[q] = task[q]
        BY <2>1, <2>4 DEF Typed, WorkTyped
  <2>7. ASSUME NEW q \in Processes
        PROVE  /\ pc'[q] = "idle" => task'[q] = Idle
               /\ pc'[q] # "idle" => task'[q] \in Work
               /\ pc'[q] = "recover" => task'[q].kind \in InvoiceEvents
               /\ pc'[q] = "reload" => task'[q].kind = "payment_failure"
        BY <2>4, <2>5, <2>6 DEF Typed, WorkTyped
  <2> QED BY <1>1, <1>2, <2>1, <2>6, <2>7 DEF Typed, WorkTyped
<1>4. CASE task[p].kind # "invoice.payment_failed"
    BY <1>1, <1>2, <1>4, Stored, DropsTyped DEF Typed
<1> QED BY <1>3, <1>4

LEMMA TypedStep == ASSUME Typed, [Next]_vars PROVE Typed'
<1>1. CASE Stripe
  <2>1. /\ Sends /\ sub' \in Sub /\ pool' \in Seq(Event) /\ sub'.id # 0
        /\ UNCHANGED <<clock, row, pc, task, seen, allocated, overlapped, trialed>>
        BY <1>1, StripeSends, SentTyped DEF OnlyStripe
  <2> QED BY <2>1 DEF Typed, StoredTyped, WorkTyped
<1>2. ASSUME NEW p \in Processes, Step(p) PROVE Typed'
  <2>1. CASE \E t \in Work : Start(p, t)
    <3>1. WorkTyped'
          BY <2>1, StartTyped
    <3>2. CASE Deliver(p)
      <4>1. PICK i \in DOMAIN pool : pool' = RemoveAt(pool, i)
            BY <3>2 DEF Deliver
      <4>2. pool \in Seq(Event) /\ pool # <<>>
            BY <4>1 DEF Typed, StoredTyped
      <4>3. pool' \in Seq(Event)
            BY <4>1, <4>2, RemoveAtFacts
      <4>4. UNCHANGED <<clock, row, sub, allocated>>
            BY <3>2 DEF Deliver
      <4> QED BY <3>1, <4>2, <4>3, <4>4 DEF Typed, StoredTyped
    <3>3. CASE StartGraceCheck(p) \/ StartSuspensionCheck(p) \/ StartTrial(p)
      <4>1. UNCHANGED <<clock, row, sub, pool, allocated>>
            BY <3>3 DEF StartGraceCheck, StartSuspensionCheck, StartTrial
      <4> QED BY <3>1, <4>1 DEF Typed, StoredTyped
    <3>4. CASE RetryPayment(p) \/ CancelNow(p)
      <4>1. Sends /\ UNCHANGED <<clock, row, allocated>>
            BY <3>4, RetrySends, CancelSends
      <4>2. sub' \in Sub /\ pool' \in Seq(Event) /\ sub'.id # 0
            BY <4>1, SentTyped
      <4> QED BY <3>1, <4>1, <4>2 DEF Typed, StoredTyped
    <3>5. pc[p] = "idle" /\ pc'[p] = "store"
          BY <2>1 DEF Start, Typed, WorkTyped
    <3>6. ~AllocateCredits(p) /\ ~Store(p) /\ ~Reload(p)
          BY <3>5 DEF AllocateCredits, Store, Reload
    <3> QED BY <1>2, <3>2, <3>3, <3>4, <3>6 DEF Step
  <2>2. CASE AllocateCredits(p)
    <3>1. pc[p] = "store" /\ task[p] \in Event /\ seen[p][2] \in Row
          BY <2>2
             DEF AllocateCredits, Typed, WorkTyped, Work, Retry, Plain, AboutInvoice,
                 InvoiceEvents
    <3>2. [invoice |-> task[p].invoice, plan |-> seen[p][2].plan]
            \in [invoice : 0..MaxInvoices, plan : {"free", "paid"}]
          BY <3>1 DEF Event, AboutInvoice, Row
    <3>3. allocated' \in Seq([invoice : 0..MaxInvoices, plan : {"free", "paid"}])
          BY <2>2, <3>2 DEF AllocateCredits, Typed, StoredTyped
    <3>4. StoredTyped'
          BY <2>2, <3>3 DEF AllocateCredits, Typed, StoredTyped
    <3>5. WorkTyped'
          BY <2>2 DEF AllocateCredits, Typed, WorkTyped
    <3> QED BY <3>4, <3>5 DEF Typed
  <2>3. CASE Store(p)
    BY <2>3, StoreTyped
  <2>4. CASE Reload(p)
    <3>1. StoredTyped'
          BY <2>4 DEF Reload, Typed, StoredTyped
    <3>2. seen' \in [Processes -> Day \X Row]
          BY <2>4 DEF Reload, Typed, StoredTyped, WorkTyped
    <3>3. WorkTyped'
          BY <2>4, <3>2 DEF Reload, Typed, WorkTyped
    <3> QED BY <3>1, <3>3 DEF Typed
  <2> QED BY <1>2, <2>1, <2>2, <2>3, <2>4, StepStarts
<1>3. ASSUME NEW p \in Processes, Crash(p) PROVE Typed'
  <2>1. Drops(p) /\ UNCHANGED <<overlapped, trialed>>
        BY <1>3 DEF Crash, Drops
  <2>2. StoredTyped'
        BY <1>3 DEF Crash, Typed, StoredTyped
  <2> QED BY <2>1, <2>2, DropsTyped DEF Typed
<1>4. CASE Tick
  <2>1. clock' \in Day
        BY <1>4, SubscriptionsAssumption DEF Tick, Typed, StoredTyped, Day
  <2> QED BY <1>4, <2>1 DEF Tick, Typed, StoredTyped, WorkTyped
<1>5. CASE UNCHANGED vars
    BY <1>5 DEF vars, Typed, StoredTyped, WorkTyped
<1> QED BY <1>1, <1>2, <1>3, <1>4, <1>5 DEF Next

LEMMA TypedInit == Init => Typed
<1> SUFFICES ASSUME Init PROVE Typed
    OBVIOUS
<1>1. row \in Row
    BY NewRowTyped DEF Init, FirstRows, Row
<1>2. StoredTyped
    BY <1>1, NewRowTyped, Bounds DEF Init, StoredTyped, Sub
<1>3. WorkTyped
    BY NewRowTyped DEF Init, WorkTyped
<1> QED BY <1>2, <1>3 DEF Typed

-----------------------------------------------------------------------------
(* One process at a time.                                                  *)

\* While no two processes have been at work at once, the one at work knows the row.
Alone ==
    ~overlapped =>
        /\ \A p, q \in Processes : pc[p] # "idle" /\ pc[q] # "idle" => p = q
        /\ \A p \in Processes :
              pc[p] \in {"store", "recover"} => seen[p][2] = row /\ seen[p][1] <= clock

\* A process that takes a step is the only one, if there have not been two at once.
LEMMA Only ==
    ASSUME Typed, Alone, NEW p \in Processes, Step(p) \/ Crash(p), ~overlapped'
    PROVE  /\ ~overlapped
           /\ \A q \in Processes : q # p => /\ pc[q] = "idle" /\ task[q] = Idle
                                           /\ pc'[q] = "idle" /\ task'[q] = Idle
<1>1. ASSUME NEW t, Start(p, t)
      PROVE  /\ ~overlapped /\ \A q \in Processes : pc[q] = "idle"
             /\ \A q \in Processes : q # p => pc'[q] = pc[q] /\ task'[q] = task[q]
    BY <1>1 DEF Start, Typed, WorkTyped
<1>2. CASE AllocateCredits(p) \/ Store(p) \/ Reload(p) \/ Crash(p)
  <2>1. pc[p] # "idle" /\ overlapped' = overlapped
        BY <1>2 DEF AllocateCredits, Store, Reload, Crash
  <2>2. \A q \in Processes : q # p => pc'[q] = pc[q] /\ task'[q] = task[q]
        BY <1>2, Stored DEF AllocateCredits, Reload, Crash, Typed, WorkTyped, Drops, Store
  <2>3. \A q \in Processes : q # p => pc[q] = "idle"
        BY <2>1 DEF Alone
  <2> QED BY <2>1, <2>2, <2>3 DEF Typed, WorkTyped
<1> QED BY <1>1, <1>2, StepStarts DEF Typed, WorkTyped

\* The rows the steps leave alone.
LEMMA RowSame == ASSUME [Next]_vars, ~(\E p \in Processes : Store(p)) PROVE row' = row
BY DEF Next, vars, Stripe, Subscribe, Renew, RenewalFails, AttemptFails, AttemptPaid, GiveUp,
       OnlyStripe, Step, Deliver, StartGraceCheck, StartSuspensionCheck, RetryPayment, StartTrial,
       CancelNow, AllocateCredits, Reload, Crash, Tick

LEMMA ClockSame == ASSUME NEW p \in Processes, Step(p) \/ Crash(p) PROVE clock' = clock
BY DEF Step, Deliver, StartGraceCheck, StartSuspensionCheck, RetryPayment, StartTrial,
       CancelNow, AllocateCredits, Reload, Store, Crash

LEMMA StartsSame ==
    ASSUME Typed, NEW p \in Processes, NEW t, Step(p), Start(p, t)
    PROVE  /\ UNCHANGED <<clock, row, allocated, faults>>
           /\ ~Store(p) /\ ~AllocateCredits(p) /\ ~Reload(p)
<1>1. pc[p] = "idle" /\ pc'[p] = "store"
    BY DEF Start, Typed, WorkTyped
<1>2. ~Store(p) /\ ~AllocateCredits(p) /\ ~Reload(p)
    BY <1>1 DEF Store, AllocateCredits, Reload
<1> QED BY <1>2
           DEF Step, Deliver, StartGraceCheck, StartSuspensionCheck, RetryPayment, StartTrial,
               CancelNow

LEMMA AloneStep == ASSUME Typed, Typed', Alone, [Next]_vars PROVE Alone'
<1> SUFFICES ASSUME ~overlapped' PROVE Alone'
    BY DEF Alone
<1>1. CASE Stripe \/ Tick \/ UNCHANGED vars
  <2>1. UNCHANGED <<row, pc, seen, overlapped>>
        BY <1>1, StripeSends DEF OnlyStripe, Tick, vars
  <2>2. clock' = clock \/ clock' = clock + 1
        BY <1>1, StripeSends DEF OnlyStripe, Tick, vars
  <2>3. \A d \in Day : d <= clock => d <= clock'
        BY <2>2 DEF Typed, StoredTyped, Day
  <2>4. \A p \in Processes : seen[p][1] \in Day
        BY DEF Typed, WorkTyped
  <2> QED BY <2>1, <2>3, <2>4 DEF Alone
<1>2. ASSUME NEW p \in Processes, Step(p) \/ Crash(p) PROVE Alone'
  <2>1. /\ ~overlapped /\ clock' = clock
        /\ \A q \in Processes : q # p => pc'[q] = "idle"
        BY <1>2, Only, ClockSame
  <2>2. pc'[p] \in {"store", "recover"} => seen'[p][2] = row' /\ seen'[p][1] <= clock'
    <3>1. ASSUME NEW t, Step(p), Start(p, t) PROVE seen'[p][2] = row' /\ seen'[p][1] <= clock'
      <4>1. clock' = clock /\ row' = row
            BY <3>1, StartsSame
      <4>2. seen'[p] = <<clock, row>>
            BY <3>1 DEF Start, Typed, WorkTyped
      <4>3. clock <= clock
            BY DEF Typed, StoredTyped, Day
      <4> QED BY <4>1, <4>2, <4>3
    <3>2. CASE AllocateCredits(p)
          BY <3>2, <2>1 DEF AllocateCredits, Alone, Typed, WorkTyped
    <3>3. CASE Store(p) \/ Crash(p)
          BY <3>3, Stored DEF Store, Drops, Crash, Typed, WorkTyped
    <3>4. CASE Reload(p)
          BY <3>4 DEF Reload, Typed, WorkTyped, StoredTyped, Day
    <3> QED BY <1>2, <3>1, <3>2, <3>3, <3>4, StepStarts
  <2> QED BY <2>1, <2>2 DEF Alone
<1> QED BY <1>1, <1>2 DEF Next

\* So it stores what its work makes of the row as it is.
LEMMA StoresEffect ==
    ASSUME Typed, Alone, NEW p \in Processes, Store(p), ~overlapped
    PROVE  /\ row' = Effect(task[p], row, seen[p][1])
           /\ task[p] \in Work /\ row \in Row /\ seen[p][1] \in Day
<1>1. pc[p] \in {"store", "recover"}
    BY DEF Store
<1> QED BY <1>1, Stored DEF Alone

-----------------------------------------------------------------------------
(* The access state keeps in step with dunning.                            *)

InStep ==
    ~overlapped /\ ~trialed =>
        /\ row.access # "active" <=> row.dunning # "none"
        /\ sub.id = 0 => /\ row.dunning = "none"
                         /\ \A p \in Processes : task[p].kind \in {"idle", "start_trial"}
        /\ \A p \in Processes : task[p].kind = "start_trial" => row.dunning = "none"

LEMMA EffectInStep ==
    ASSUME NEW t \in Work, NEW r \in Row, NEW now \in Day,
           r.access # "active" <=> r.dunning # "none",
           t.kind = "start_trial" => r.dunning = "none"
    PROVE  LET new == Effect(t, r, now)
           IN  /\ new.access # "active" <=> new.dunning # "none"
               /\ t.kind = "start_trial" => new.dunning = "none"
<1> DEFINE Same(new) == new.access = r.access /\ new.dunning = r.dunning
<1>1. /\ Same([r EXCEPT !.stripeSub = t.sub]) /\ Same([r EXCEPT !.status = "past_due"])
      /\ Same([r EXCEPT !.status = "canceled"])
    BY DEF Row
<1>2. Same(Created(r, t)) /\ Same(Updated(r, t)) /\ Same(Deleted(r, t))
    BY DEF Row, Created, Updated, Deleted
<1>3. Recover(r).access = "active" /\ Recover(r).dunning = "none"
    BY DEF Row, Recover
<1>4. /\ Fail(r, t.attempt, now).access = "warning"
      /\ Fail(r, t.attempt, now).dunning \in {"retrying", "grace_period"}
    BY DEF Row, Fail
<1>5. RestrictRow(r).access = "warning" /\ RestrictRow(r).dunning = "restricted"
    BY DEF Row, RestrictRow
<1>6. \/ Same(SuspendRow(r))
      \/ SuspendRow(r).access = "suspended" /\ SuspendRow(r).dunning = "suspended"
    BY DEF Row, SuspendRow
<1>7. Trial(r, now).access = "active" /\ Trial(r, now).dunning = r.dunning
    BY DEF Row, Trial
<1>8. t.kind \in EventKinds \cup {"payment_failure", "retry_failed", "retry_paid", "grace_check",
                                   "suspension_check", "start_trial", "cancel"}
    BY DEF Work, Event, AboutInvoice, Retry, Plain
<1> HIDE DEF Same
<1>9. CASE t.kind \in {"checkout.session.completed", "invoice.payment_failed", "cancel",
                       "customer.subscription.created", "customer.subscription.updated",
                       "customer.subscription.deleted"}
  <2>1. Same(Effect(t, r, now))
        BY <1>1, <1>2, <1>9, EffectOf
  <2> QED BY <2>1, <1>9 DEF Same
<1>10. CASE t.kind \in {"payment_failure", "retry_failed", "grace_check"} \cup InvoiceEvents
                      \cup {"retry_paid"}
  <2>1. /\ Effect(t, r, now).access # "active" <=> Effect(t, r, now).dunning # "none"
        /\ t.kind # "start_trial"
        BY <1>3, <1>4, <1>5, <1>10, EffectOf DEF InvoiceEvents
  <2> QED BY <2>1
<1>11. CASE t.kind = "start_trial"
    BY <1>7, <1>11, EffectOf
<1>12. CASE t.kind = "suspension_check"
    BY <1>6, <1>12, EffectOf DEF Same
<1> QED BY <1>8, <1>9, <1>10, <1>11, <1>12 DEF EventKinds

LEMMA InStepStep == ASSUME Typed, Typed', Alone, InStep, [Next]_vars PROVE InStep'
<1> SUFFICES ASSUME ~overlapped', ~trialed' PROVE InStep'
    BY DEF InStep
<1>1. CASE Stripe \/ Tick \/ UNCHANGED vars
  <2>1. UNCHANGED <<row, task, overlapped, trialed>> /\ (sub' = sub \/ sub'.id # 0)
        BY <1>1, StripeSends DEF OnlyStripe, Sends, Tick, vars
  <2> QED BY <2>1 DEF InStep
<1>2. ASSUME NEW p \in Processes, Step(p) \/ Crash(p) PROVE InStep'
  <2>1. /\ ~overlapped
        /\ \A q \in Processes : q # p => task'[q] = Idle
        BY <1>2, Only
  <2>2. ASSUME NEW t \in Work, Step(p), Start(p, t) PROVE InStep'
    <3>1. ~trialed /\ (t.kind = "start_trial" => sub.id = 0) /\ task'[p] = t /\ row' = row
          BY <2>2, StartsSame DEF Start, Typed, WorkTyped
    <3>2. /\ row.access # "active" <=> row.dunning # "none"
          /\ sub.id = 0 => row.dunning = "none"
          BY <2>1, <3>1 DEF InStep
    <3>3. CASE Deliver(p)
      <4>1. sub' = sub /\ pool # <<>>
            BY <3>3 DEF Deliver
      <4>2. sub'.id # 0
            BY <4>1 DEF Typed, StoredTyped
      <4> QED BY <2>1, <3>1, <3>2, <4>1, <4>2 DEF InStep, Idle
    <3>4. CASE StartGraceCheck(p) \/ StartSuspensionCheck(p)
      <4>1. sub' = sub /\ row.dunning # "none"
            BY <3>4 DEF StartGraceCheck, StartSuspensionCheck, GraceIsOver, IsOverdue
      <4>2. t.kind # "start_trial"
            BY <3>1, <3>2, <4>1
      <4> QED BY <2>1, <3>1, <3>2, <4>1, <4>2 DEF InStep, Idle
    <3>5. CASE RetryPayment(p) \/ CancelNow(p)
      <4>1. sub.id # 0 /\ sub'.id = sub.id
            BY <3>5, RetrySends, CancelSends
      <4> QED BY <2>1, <3>1, <3>2, <4>1 DEF InStep, Idle
    <3>6. CASE StartTrial(p)
      <4>1. sub' = sub /\ task'[p].kind = "start_trial"
            BY <3>6 DEF StartTrial, Start, Typed, WorkTyped
      <4> QED BY <2>1, <3>1, <3>2, <4>1 DEF InStep, Idle
    <3> QED BY <2>2, <3>3, <3>4, <3>5, <3>6, StartsSame DEF Step
  <2>3. CASE Store(p)
    <3>1. /\ ~trialed /\ sub' = sub
          BY <2>3 DEF Store
    <3>2. /\ row' = Effect(task[p], row, seen[p][1])
          /\ task[p] \in Work /\ row \in Row /\ seen[p][1] \in Day
          BY <2>1, <2>3, StoresEffect
    <3>3. /\ row.access # "active" <=> row.dunning # "none"
          /\ task[p].kind = "start_trial" => row.dunning = "none"
          /\ sub.id = 0 => task[p].kind \in {"idle", "start_trial"}
          BY <2>1, <3>1 DEF InStep
    <3>4. /\ row'.access # "active" <=> row'.dunning # "none"
          /\ task[p].kind = "start_trial" => row'.dunning = "none"
          BY <3>2, <3>3, EffectInStep
    <3>5. task[p].kind # "idle"
          BY <3>2 DEF Work, Event, AboutInvoice, Retry, Plain, EventKinds, InvoiceEvents
    <3>6. \/ task'[p] = Idle
          \/ task'[p].kind = "payment_failure" /\ sub.id # 0
          BY <2>3, <3>3, <3>2 DEF Store, Typed, WorkTyped, Work
    <3> QED BY <2>1, <3>1, <3>3, <3>4, <3>5, <3>6 DEF InStep, Idle
  <2>4. CASE AllocateCredits(p) \/ Reload(p) \/ Crash(p)
    <3>1. /\ UNCHANGED <<row, sub, trialed>>
          /\ task'[p] = task[p] \/ task'[p] = Idle
          BY <2>4 DEF AllocateCredits, Reload, Crash, Typed, WorkTyped
    <3> QED BY <2>1, <3>1 DEF InStep, Idle
  <2> QED BY <1>2, <2>2, <2>3, <2>4, StepStarts
<1> QED BY <1>1, <1>2 DEF Next

-----------------------------------------------------------------------------
(* Only an overdue row is suspended.                                       *)

Overdue ==
    ~overlapped =>
        \A p \in Processes : task[p].kind = "suspension_check" => IsOverdue(row, clock)

LEMMA EffectSuspends ==
    ASSUME NEW t \in Work, NEW r \in Row, NEW now \in Day,
           r.dunning # "suspended", Effect(t, r, now).dunning = "suspended"
    PROVE  t.kind = "suspension_check"
<1> DEFINE Not(new) == new.dunning # "suspended"
<1>1. /\ Not([r EXCEPT !.stripeSub = t.sub]) /\ Not([r EXCEPT !.status = "past_due"])
      /\ Not([r EXCEPT !.status = "canceled"])
    BY DEF Row
<1>2. Not(Created(r, t)) /\ Not(Updated(r, t)) /\ Not(Deleted(r, t))
    BY DEF Row, Created, Updated, Deleted
<1>3. Not(Recover(r)) /\ Not(Fail(r, t.attempt, now)) /\ Not(RestrictRow(r)) /\ Not(Trial(r, now))
    BY DEF Row, Recover, Fail, RestrictRow, Trial
<1>4. t.kind \in EventKinds \cup {"payment_failure", "retry_failed", "retry_paid", "grace_check",
                                   "suspension_check", "start_trial", "cancel"}
    BY DEF Work, Event, AboutInvoice, Retry, Plain
<1> HIDE DEF Not
<1>5. CASE t.kind \in {"checkout.session.completed", "invoice.payment_failed", "cancel",
                       "customer.subscription.created", "customer.subscription.updated",
                       "customer.subscription.deleted"}
  <2>1. Not(Effect(t, r, now))
        BY <1>1, <1>2, <1>5, EffectOf
  <2> QED BY <2>1 DEF Not
<1>6. CASE t.kind \in {"payment_failure", "retry_failed", "grace_check", "start_trial"}
                     \cup (InvoiceEvents \cup {"retry_paid"})
  <2>1. Not(Effect(t, r, now))
        BY <1>3, <1>6, EffectOf
  <2> QED BY <2>1 DEF Not
<1> QED BY <1>4, <1>5, <1>6 DEF EventKinds

LEMMA OverdueStep == ASSUME Typed, Typed', Alone, Overdue, [Next]_vars PROVE Overdue'
<1> SUFFICES ASSUME ~overlapped' PROVE Overdue'
    BY DEF Overdue
<1>1. CASE Stripe \/ Tick \/ UNCHANGED vars
  <2>1. /\ UNCHANGED <<row, task, overlapped>>
        /\ clock' = clock \/ clock' = clock + 1
        BY <1>1, StripeSends DEF OnlyStripe, Tick, vars
  <2>2. IsOverdue(row, clock) => IsOverdue(row, clock')
    <3>1. /\ clock \in Nat /\ SuspensionDays \in Nat
          /\ row.started # NoDate => row.started \in Nat
          BY SubscriptionsAssumption DEF Typed, StoredTyped, Day, Row, Date, NoDate
    <3>2. row.started # NoDate /\ row.started + SuspensionDays <= clock
          => row.started + SuspensionDays <= clock'
          BY <2>1, <3>1
    <3> QED BY <3>2 DEF IsOverdue
  <2> QED BY <2>1, <2>2 DEF Overdue
<1>2. ASSUME NEW p \in Processes, Step(p) \/ Crash(p) PROVE Overdue'
  <2>1. /\ ~overlapped /\ clock' = clock
        /\ \A q \in Processes : q # p => task'[q].kind # "suspension_check"
        BY <1>2, Only, ClockSame DEF Idle
  <2>2. ASSUME NEW t, Step(p), Start(p, t) PROVE Overdue'
    <3>1. row' = row /\ task'[p] = t
          BY <2>2, StartsSame DEF Start, Typed, WorkTyped
    <3>2. CASE StartSuspensionCheck(p)
          BY <2>1, <3>1, <3>2 DEF StartSuspensionCheck, Overdue
    <3>3. CASE Deliver(p)
      <4>1. PICK i \in DOMAIN pool : task'[p] = pool[i]
            BY <3>3 DEF Deliver, Start, Typed, WorkTyped
      <4>2. pool[i] \in Event
            BY DEF Typed, StoredTyped
      <4>3. task'[p].kind # "suspension_check"
            BY <4>1, <4>2 DEF Event, AboutInvoice, EventKinds, InvoiceEvents
      <4> QED BY <2>1, <4>3 DEF Overdue
    <3>4. CASE StartGraceCheck(p) \/ RetryPayment(p) \/ StartTrial(p) \/ CancelNow(p)
      <4>1. task'[p].kind \in {"grace_check", "retry_paid", "retry_failed", "start_trial", "cancel"}
            BY <3>4
               DEF StartGraceCheck, RetryPayment, StartTrial, CancelNow, Start, Typed,
                   WorkTyped
      <4> QED BY <2>1, <4>1 DEF Overdue
    <3> QED BY <2>2, <3>2, <3>3, <3>4, StartsSame DEF Step
  <2>3. CASE Store(p) \/ Crash(p)
    <3>1. task'[p] = Idle \/ task'[p].kind = "payment_failure"
          BY <2>3 DEF Store, Crash, Typed, WorkTyped
    <3> QED BY <2>1, <3>1 DEF Overdue, Idle
  <2>4. CASE AllocateCredits(p) \/ Reload(p)
    <3>1. row' = row /\ task' = task
          BY <2>4 DEF AllocateCredits, Reload
    <3> QED BY <2>1, <3>1 DEF Overdue
  <2> QED BY <1>2, <2>2, <2>3, <2>4, StepStarts
<1> QED BY <1>1, <1>2 DEF Next

\* A step that suspends the row stores what the suspension check made of it.
LEMMA SuspendsOverdue ==
    ASSUME Typed, Typed', Alone, Overdue, [Next]_vars
    PROVE  row.dunning # "suspended" /\ row'.dunning = "suspended"
           => IsOverdue(row, clock) \/ overlapped
<1> SUFFICES ASSUME row.dunning # "suspended", row'.dunning = "suspended", ~overlapped
             PROVE  IsOverdue(row, clock)
    OBVIOUS
<1>1. PICK p \in Processes : Store(p)
    BY RowSame
<1>2. task[p].kind = "suspension_check"
    BY <1>1, StoresEffect, EffectSuspends
<1> QED BY <1>2 DEF Overdue

-----------------------------------------------------------------------------
(* One allocation for an invoice.                                          *)

ToAllocate(p) == pc[p] = "store" /\ task[p].kind \in InvoiceEvents
Claims(i) == pool[i].kind \in InvoiceEvents

\* An invoice is claimed by one event, one process or one allocation, and the open
\* one by none.
OneClaim ==
    /\ \A i, j \in DOMAIN pool :
          Claims(i) /\ Claims(j) /\ pool[i].invoice = pool[j].invoice => i = j
    /\ \A p, q \in Processes :
          ToAllocate(p) /\ ToAllocate(q) /\ task[p].invoice = task[q].invoice => p = q
    /\ OneAllocationPerInvoice
    /\ \A i \in DOMAIN pool : Claims(i) =>
          /\ \A p \in Processes : ToAllocate(p) => task[p].invoice # pool[i].invoice
          /\ \A j \in DOMAIN allocated : allocated[j].invoice # pool[i].invoice
    /\ \A p \in Processes : ToAllocate(p) =>
          \A j \in DOMAIN allocated : allocated[j].invoice # task[p].invoice

Billed(n) == n <= sub.invoice /\ (sub.status = "past_due" => n # sub.invoice)
ClaimsAreBilled ==
    /\ \A i \in DOMAIN pool : Claims(i) => Billed(pool[i].invoice)
    /\ \A p \in Processes : ToAllocate(p) => Billed(task[p].invoice)
    /\ \A j \in DOMAIN allocated : Billed(allocated[j].invoice)

LEMMA NumberedInvoices ==
    ASSUME Typed
    PROVE  /\ \A i \in DOMAIN pool : pool[i].invoice \in Nat
           /\ \A i \in DOMAIN allocated : allocated[i].invoice \in Nat
           /\ \A p \in Processes : ToAllocate(p) => task[p].invoice \in Nat
<1>1. \A e \in Event : e.invoice \in Nat
    BY Bounds DEF Event, AboutInvoice
<1>2. \A i \in DOMAIN pool : pool[i] \in Event
    BY DEF Typed, StoredTyped
<1>3. \A i \in DOMAIN allocated : allocated[i].invoice \in Nat
  <2> DEFINE Allocation == [invoice : 0..MaxInvoices, plan : {"free", "paid"}]
  <2>1. allocated \in Seq(Allocation)
        BY DEF Typed, StoredTyped
  <2>2. \A a \in Allocation : a.invoice \in Nat
        BY Bounds
  <2> HIDE DEF Allocation
  <2>3. \A i \in DOMAIN allocated : allocated[i] \in Allocation
        BY <2>1
  <2> QED BY <2>2, <2>3
<1>4. \A p \in Processes : ToAllocate(p) => task[p] \in Work
    BY DEF ToAllocate, Typed, WorkTyped
<1>5. \A t \in Work : t.kind \in InvoiceEvents => t \in Event
    BY DEF Work, Retry, Plain, AboutInvoice, InvoiceEvents
<1> QED BY <1>1, <1>2, <1>3, <1>4, <1>5 DEF ToAllocate

\* What is claimed stays so when Stripe sends more, for what it sends is of an invoice
\* nobody has claimed.
LEMMA SendsClaims ==
    ASSUME Typed, OneInvoiceEvent, OneClaim, ClaimsAreBilled, Sends, allocated' = allocated,
           \A p \in Processes : ToAllocate(p)' => ToAllocate(p) /\ task'[p] = task[p]
    PROVE  OneClaim' /\ ClaimsAreBilled'
<1>1. PICK events : pool' = pool \o events /\ Tells(events)
    BY DEF Sends
<1>2. /\ pool \in Seq(Event) /\ events \in Seq(Event) /\ SentOf(events, EventKinds)
      /\ sub \in Sub /\ sub' \in Sub /\ sub'.invoice >= sub.invoice
    BY <1>1 DEF Sends, Tells, SentOf, Typed, StoredTyped
<1>3. /\ \A i \in 1..Len(events) : events[i].invoice = sub'.invoice
      /\ \A i \in 1..Len(events) : events[i].kind \in InvoiceEvents =>
            sub'.status = "active" /\ (sub'.invoice > sub.invoice \/ sub.status = "past_due")
      /\ \A i, j \in 1..Len(events) :
            events[i].kind \in InvoiceEvents /\ events[j].kind \in InvoiceEvents => i = j
      /\ sub'.status = "past_due" => sub'.invoice > sub.invoice \/ sub.status = "past_due"
  <2>1. \A kind : About(kind).invoice = sub'.invoice
        BY DEF About
  <2>2. \A i \in 1..Len(events) : events[i].invoice = sub'.invoice
        BY <1>2, <2>1 DEF SentOf
  <2> QED BY <1>1, <2>2 DEF Tells
<1>4. /\ pool' \in Seq(Event) /\ Len(pool) \in Nat
      /\ \A i \in 1..Len(pool') :
            \/ i \in 1..Len(pool) /\ pool'[i] = pool[i]
            \/ i - Len(pool) \in 1..Len(events) /\ pool'[i] = events[i - Len(pool)]
    BY <1>1, <1>2, CatParts
<1>5. sub.invoice \in Nat /\ sub'.invoice \in Nat
    BY <1>2, Bounds DEF Sub
\* What was billed still is, and was not if it is sent.
<1>6. ASSUME NEW n \in Nat, Billed(n)
      PROVE  /\ Billed(n)'
             /\ \A i \in 1..Len(events) : events[i].kind \in InvoiceEvents => n # sub'.invoice
    BY <1>2, <1>3, <1>5, <1>6 DEF Billed
<1>7. ASSUME NEW n, n = sub'.invoice, sub'.status = "active" PROVE Billed(n)'
    BY <1>5, <1>7 DEF Billed
<1>8. /\ \A i \in DOMAIN pool : pool[i].invoice \in Nat
      /\ \A i \in DOMAIN allocated : allocated[i].invoice \in Nat
      /\ \A p \in Processes : ToAllocate(p) => task[p].invoice \in Nat
    BY NumberedInvoices
<1>9. DOMAIN pool = 1..Len(pool) /\ DOMAIN pool' = 1..Len(pool')
    BY <1>2, <1>4
<1>10. ASSUME NEW i \in DOMAIN pool', Claims(i)'
       PROVE  \/ i \in DOMAIN pool /\ Claims(i) /\ pool'[i] = pool[i]
              \/ /\ i - Len(pool) \in 1..Len(events) /\ events[i - Len(pool)].kind \in InvoiceEvents
                 /\ pool'[i].invoice = sub'.invoice
    BY <1>3, <1>4, <1>9, <1>10 DEF Claims
<1>11. ClaimsAreBilled'
  <2>1. ASSUME NEW i \in DOMAIN pool', Claims(i)' PROVE Billed(pool[i].invoice)'
    <3>1. ASSUME NEW n, n = pool'[i].invoice PROVE Billed(n)'
          BY <1>3, <1>6, <1>7, <1>8, <1>10, <2>1, <3>1 DEF ClaimsAreBilled
    <3> QED BY <3>1
  <2>2. ASSUME NEW p \in Processes, ToAllocate(p)' PROVE Billed(task[p].invoice)'
    <3>1. ASSUME NEW n, n = task'[p].invoice PROVE Billed(n)'
          BY <1>6, <1>8, <2>2, <3>1 DEF ClaimsAreBilled
    <3> QED BY <3>1
  <2>3. ASSUME NEW j \in DOMAIN allocated' PROVE Billed(allocated[j].invoice)'
    <3>1. ASSUME NEW n, n = allocated'[j].invoice PROVE Billed(n)'
          BY <1>6, <1>8, <2>3, <3>1 DEF ClaimsAreBilled
    <3> QED BY <3>1
  <2> QED BY <2>1, <2>2, <2>3 DEF ClaimsAreBilled
<1>12. ASSUME NEW i \in DOMAIN pool', NEW j \in DOMAIN pool', Claims(i)', Claims(j)',
              pool'[i].invoice = pool'[j].invoice
       PROVE  i = j
  <2>1. CASE i \in DOMAIN pool /\ Claims(i) /\ pool'[i] = pool[i]
        BY <1>6, <1>8, <1>10, <1>12, <2>1 DEF OneClaim, ClaimsAreBilled
  <2>2. CASE j \in DOMAIN pool /\ Claims(j) /\ pool'[j] = pool[j]
        BY <1>6, <1>8, <1>10, <1>12, <2>2 DEF OneClaim, ClaimsAreBilled
  <2>3. CASE /\ i - Len(pool) \in 1..Len(events) /\ events[i - Len(pool)].kind \in InvoiceEvents
             /\ j - Len(pool) \in 1..Len(events) /\ events[j - Len(pool)].kind \in InvoiceEvents
    <3>1. i - Len(pool) = j - Len(pool)
          BY <1>3, <2>3
    <3> QED BY <1>4, <1>9, <3>1
  <2> QED BY <1>10, <1>12, <2>1, <2>2, <2>3
<1>13. \A p, q \in Processes :
           ToAllocate(p)' /\ ToAllocate(q)' /\ task'[p].invoice = task'[q].invoice => p = q
    BY DEF OneClaim
<1>14. ASSUME NEW i \in DOMAIN pool', Claims(i)'
       PROVE  /\ \A p \in Processes : ToAllocate(p)' => task'[p].invoice # pool'[i].invoice
              /\ \A j \in DOMAIN allocated' : allocated'[j].invoice # pool'[i].invoice
  <2>1. CASE i \in DOMAIN pool /\ Claims(i) /\ pool'[i] = pool[i]
        BY <2>1 DEF OneClaim
  <2>2. CASE /\ i - Len(pool) \in 1..Len(events) /\ events[i - Len(pool)].kind \in InvoiceEvents
             /\ pool'[i].invoice = sub'.invoice
        BY <1>6, <1>8, <2>2 DEF ClaimsAreBilled
  <2> QED BY <1>10, <1>14, <2>1, <2>2
<1>15. \A p \in Processes : ToAllocate(p)' =>
           \A j \in DOMAIN allocated' : allocated'[j].invoice # task'[p].invoice
    BY DEF OneClaim
<1>16. OneAllocationPerInvoice'
    BY DEF OneClaim, OneAllocationPerInvoice
<1>17. OneClaim'
    BY <1>12, <1>13, <1>14, <1>15, <1>16 DEF OneClaim
<1> QED BY <1>11, <1>17

\* The delivery of an event passes its claim on to the process.
LEMMA DeliverClaims ==
    ASSUME Typed, Typed', OneClaim, ClaimsAreBilled, NEW p \in Processes, Deliver(p)
    PROVE  OneClaim' /\ ClaimsAreBilled'
<1>1. PICK i \in DOMAIN pool : Start(p, pool[i]) /\ pool' = RemoveAt(pool, i)
    BY DEF Deliver
<1> DEFINE from(j) == IF j < i THEN j ELSE j + 1
<1>2. /\ pool \in Seq(Event) /\ i \in 1..Len(pool) /\ DOMAIN pool = 1..Len(pool)
      /\ DOMAIN pool' = 1..Len(pool') /\ Len(pool) \in Nat
    BY DEF Typed, StoredTyped
<1>3. /\ Len(pool') = Len(pool) - 1
      /\ \A j \in 1..(Len(pool) - 1) : pool'[j] = IF j < i THEN pool[j] ELSE pool[j + 1]
    BY <1>1, <1>2, RemoveAtFacts
<1>4. \A j \in DOMAIN pool' : from(j) \in DOMAIN pool /\ from(j) # i /\ pool'[j] = pool[from(j)]
    BY <1>2, <1>3
<1>5. \A j, k \in DOMAIN pool' : from(j) = from(k) => j = k
    BY <1>2, <1>3
<1> HIDE DEF from
<1>6. /\ allocated' = allocated /\ sub' = sub
      /\ \A q \in Processes : q # p => pc'[q] = pc[q] /\ task'[q] = task[q]
      /\ ~ToAllocate(p) /\ task'[p] = pool[i]
    BY <1>1 DEF Deliver, Start, ToAllocate, Typed, WorkTyped
<1>7. \A q \in Processes : ToAllocate(q)' => \/ q # p /\ ToAllocate(q) /\ task'[q] = task[q]
                                             \/ q = p /\ Claims(i) /\ task'[q] = pool[i]
    BY <1>6 DEF ToAllocate, Claims
<1>8. \A j \in DOMAIN pool' : Claims(j)' => Claims(from(j))
    BY <1>4 DEF Claims
<1>9. \A n : Billed(n)' <=> Billed(n)
    BY <1>6 DEF Billed
<1>10. ClaimsAreBilled'
  <2>1. ASSUME NEW j \in DOMAIN pool', Claims(j)' PROVE Billed(pool[j].invoice)'
        BY <1>4, <1>6, <1>8, <2>1 DEF ClaimsAreBilled, Billed
  <2>2. ASSUME NEW q \in Processes, ToAllocate(q)' PROVE Billed(task[q].invoice)'
        BY <1>6, <1>7, <2>2 DEF ClaimsAreBilled, Billed
  <2>3. ASSUME NEW j \in DOMAIN allocated' PROVE Billed(allocated[j].invoice)'
        BY <1>6 DEF ClaimsAreBilled, Billed
  <2> QED BY <2>1, <2>2, <2>3 DEF ClaimsAreBilled
<1>11. \A j, k \in DOMAIN pool' :
           Claims(j)' /\ Claims(k)' /\ pool'[j].invoice = pool'[k].invoice => j = k
    BY <1>4, <1>5, <1>8 DEF OneClaim
<1>12. \A q, r \in Processes :
           ToAllocate(q)' /\ ToAllocate(r)' /\ task'[q].invoice = task'[r].invoice => q = r
    BY <1>7 DEF OneClaim
<1>13. ASSUME NEW j \in DOMAIN pool', Claims(j)'
       PROVE  /\ \A q \in Processes : ToAllocate(q)' => task'[q].invoice # pool'[j].invoice
              /\ \A k \in DOMAIN allocated' : allocated'[k].invoice # pool'[j].invoice
    BY <1>4, <1>6, <1>7, <1>8, <1>13 DEF OneClaim
<1>14. \A q \in Processes : ToAllocate(q)' =>
           \A k \in DOMAIN allocated' : allocated'[k].invoice # task'[q].invoice
    BY <1>6, <1>7 DEF OneClaim
<1>15. OneAllocationPerInvoice'
    BY <1>6 DEF OneClaim, OneAllocationPerInvoice
<1>16. OneClaim'
    BY <1>11, <1>12, <1>13, <1>14, <1>15 DEF OneClaim
<1> QED BY <1>10, <1>16

\* The allocation takes the process's claim over.
LEMMA AllocateClaims ==
    ASSUME Typed, Typed', OneClaim, ClaimsAreBilled, NEW p \in Processes, AllocateCredits(p)
    PROVE  OneClaim' /\ ClaimsAreBilled'
<1> DEFINE last == Len(allocated) + 1
<1>1. /\ pool' = pool /\ sub' = sub /\ task' = task /\ ToAllocate(p)
      /\ \A q \in Processes : ToAllocate(q)' => q # p /\ ToAllocate(q)
    BY DEF AllocateCredits, ToAllocate, Typed, WorkTyped
<1>2. /\ DOMAIN allocated' = DOMAIN allocated \cup {last} /\ last \notin DOMAIN allocated
      /\ \A j \in DOMAIN allocated : allocated'[j] = allocated[j]
      /\ allocated'[last].invoice = task[p].invoice
    BY DEF AllocateCredits, Typed, StoredTyped
<1> HIDE DEF last
<1>3. ClaimsAreBilled'
  <2>1. ASSUME NEW j \in DOMAIN pool', Claims(j)' PROVE Billed(pool[j].invoice)'
        BY <1>1, <2>1 DEF ClaimsAreBilled, Billed, Claims
  <2>2. ASSUME NEW q \in Processes, ToAllocate(q)' PROVE Billed(task[q].invoice)'
        BY <1>1, <2>2 DEF ClaimsAreBilled, Billed
  <2>3. ASSUME NEW j \in DOMAIN allocated' PROVE Billed(allocated[j].invoice)'
        BY <1>1, <1>2 DEF ClaimsAreBilled, Billed
  <2> QED BY <2>1, <2>2, <2>3 DEF ClaimsAreBilled
<1>4. \A j, k \in DOMAIN pool' :
          Claims(j)' /\ Claims(k)' /\ pool'[j].invoice = pool'[k].invoice => j = k
    BY <1>1 DEF OneClaim, Claims
<1>5. \A q, r \in Processes :
          ToAllocate(q)' /\ ToAllocate(r)' /\ task'[q].invoice = task'[r].invoice => q = r
    BY <1>1 DEF OneClaim
<1>6. ASSUME NEW j \in DOMAIN pool', Claims(j)'
      PROVE  /\ \A q \in Processes : ToAllocate(q)' => task'[q].invoice # pool'[j].invoice
             /\ \A k \in DOMAIN allocated' : allocated'[k].invoice # pool'[j].invoice
    BY <1>1, <1>2, <1>6 DEF OneClaim, Claims
<1>7. \A q \in Processes : ToAllocate(q)' =>
          \A k \in DOMAIN allocated' : allocated'[k].invoice # task'[q].invoice
    BY <1>1, <1>2 DEF OneClaim
<1>8. OneAllocationPerInvoice'
    BY <1>1, <1>2 DEF OneClaim, OneAllocationPerInvoice
<1>9. OneClaim'
    BY <1>4, <1>5, <1>6, <1>7, <1>8 DEF OneClaim
<1> QED BY <1>3, <1>9

\* The other steps claim nothing.
LEMMA NoNewClaims ==
    ASSUME Typed, OneClaim, ClaimsAreBilled, UNCHANGED <<sub, pool, allocated>>,
           \A p \in Processes : ToAllocate(p)' => ToAllocate(p) /\ task'[p] = task[p]
    PROVE  OneClaim' /\ ClaimsAreBilled'
BY DEF OneClaim, OneAllocationPerInvoice, ClaimsAreBilled, Billed, Claims

LEMMA ClaimsStep ==
    ASSUME Typed, Typed', OneInvoiceEvent, OneClaim, ClaimsAreBilled, [Next]_vars
    PROVE  OneClaim' /\ ClaimsAreBilled'
<1>1. CASE Stripe
  <2>1. Sends /\ UNCHANGED <<pc, task, allocated>>
        BY <1>1, StripeSends DEF OnlyStripe
  <2> QED BY <2>1, SendsClaims DEF ToAllocate
<1>2. CASE Tick \/ UNCHANGED vars
  <2>1. UNCHANGED <<sub, pool, allocated, pc, task>>
        BY <1>2 DEF Tick, vars
  <2> QED BY <2>1, NoNewClaims DEF ToAllocate
<1>3. ASSUME NEW p \in Processes, Step(p) \/ Crash(p) PROVE OneClaim' /\ ClaimsAreBilled'
  <2>1. ASSUME NEW t, t.kind \notin InvoiceEvents, Start(p, t)
        PROVE  \A q \in Processes : ToAllocate(q)' => ToAllocate(q) /\ task'[q] = task[q]
        BY <2>1 DEF Start, ToAllocate, Typed, WorkTyped
  <2>2. CASE StartGraceCheck(p) \/ StartSuspensionCheck(p) \/ StartTrial(p)
    <3>1. /\ UNCHANGED <<sub, pool, allocated>>
          /\ \E t : t.kind \notin InvoiceEvents /\ Start(p, t)
          BY <2>2 DEF StartGraceCheck, StartSuspensionCheck, StartTrial, InvoiceEvents
    <3> QED BY <2>1, <3>1, NoNewClaims
  <2>3. CASE RetryPayment(p) \/ CancelNow(p)
    <3>1. /\ Sends /\ allocated' = allocated
          /\ \E t : t.kind \notin InvoiceEvents /\ Start(p, t)
          BY <2>3, RetrySends, CancelSends DEF InvoiceEvents
    <3> QED BY <2>1, <3>1, SendsClaims
  <2>4. CASE Store(p) \/ Reload(p) \/ Crash(p)
    <3>1. UNCHANGED <<sub, pool, allocated>>
          BY <2>4 DEF Store, Reload, Crash
    <3>2. \A q \in Processes : q # p => pc'[q] = pc[q] /\ task'[q] = task[q]
          BY <2>4, Stored DEF Store, Reload, Crash, Drops, Typed, WorkTyped
    <3>3. ~ToAllocate(p)'
      <4>1. CASE Store(p) \/ Crash(p)
            BY <4>1, Stored DEF Store, Crash, Drops, ToAllocate, Typed, WorkTyped
      <4>2. CASE Reload(p)
            BY <4>2 DEF Reload, ToAllocate, Typed, WorkTyped, InvoiceEvents
      <4> QED BY <2>4, <4>1, <4>2
    <3>4. \A q \in Processes : ToAllocate(q)' => ToAllocate(q) /\ task'[q] = task[q]
          BY <3>2, <3>3 DEF ToAllocate
    <3> QED BY <3>1, <3>4, NoNewClaims
  <2> QED BY <1>3, <2>2, <2>3, <2>4, DeliverClaims, AllocateClaims DEF Step
<1> QED BY <1>1, <1>2, <1>3 DEF Next

-----------------------------------------------------------------------------
(* A customer who has paid gets access, events in order.                   *)

FaultsCounted == faults \in Nat

LEMMA FaultsStep == ASSUME FaultsCounted, [Next]_vars
                    PROVE  /\ FaultsCounted'
                           /\ faults' = 0 => faults = 0 /\ ~(\E p \in Processes : Crash(p))
<1>1. CASE \E p \in Processes : Crash(p)
    BY <1>1 DEF Crash, FaultsCounted
<1>2. CASE ~(\E p \in Processes : Crash(p))
  <2>1. faults' = faults
        BY <1>2
           DEF Next, vars, Stripe, Subscribe, Renew, RenewalFails, AttemptFails, AttemptPaid,
                    GiveUp, OnlyStripe, Step, Deliver, StartGraceCheck, StartSuspensionCheck,
                    RetryPayment, StartTrial, CancelNow, AllocateCredits, Store, Reload, Tick
  <2> QED BY <1>2, <2>1 DEF FaultsCounted
<1> QED BY <1>1, <1>2

LEMMA TrialsStay == ASSUME [Next]_vars, ~trialed' PROVE ~trialed
BY DEF Next, vars, Stripe, Subscribe, Renew, RenewalFails, AttemptFails, AttemptPaid,
       GiveUp, OnlyStripe, Step, Deliver, StartGraceCheck, StartSuspensionCheck, Start,
       RetryPayment, StartTrial, CancelNow, AllocateCredits, Store, Reload, Crash, Tick

DeniesAccess == {"payment_failure", "retry_failed", "cancel", "start_trial",
                 "grace_check", "suspension_check"}

\* The good news is on its way, at work, or has been handled: nothing bad follows it.
Announced == \E i \in DOMAIN pool : /\ pool[i].kind \in InvoiceEvents
                                    /\ \A j \in DOMAIN pool : j > i => ~Bad(pool[j])
NothingBad == \A i \in DOMAIN pool : ~Bad(pool[i])
BeingTold == /\ NothingBad
             /\ \E p \in Processes : task[p].kind \in InvoiceEvents \cup {"retry_paid"}
Granted == /\ NothingBad
           /\ \A p \in Processes : ~Bad(task[p]) /\ task[p].kind \notin DeniesAccess
           /\ row.status = "active" /\ row.access = "active"

Undisturbed == ~overlapped /\ ~trialed /\ faults = 0
WillHaveAccess == Undisturbed /\ sub.status = "active" => Announced \/ BeingTold \/ Granted

LEMMA SendsAnnounced ==
    ASSUME Typed, SomeInvoiceEvent, Sends, sub'.status = "active"
    PROVE  Announced'
<1>1. PICK events : pool' = pool \o events /\ Tells(events)
    BY DEF Sends
<1>2. pool \in Seq(Event) /\ events \in Seq(Event)
    BY <1>1 DEF Tells, SentOf, Typed, StoredTyped
<1>3. /\ \A i \in 1..Len(events) : ~Bad(events[i])
      /\ \E i \in 1..Len(events) : events[i].kind \in InvoiceEvents
    BY <1>1 DEF Tells
<1>4. PICK i \in 1..Len(events) : events[i].kind \in InvoiceEvents
    BY <1>3
<1>5. /\ Len(pool) \in Nat /\ Len(events) \in Nat
      /\ \A k \in 1..Len(pool') :
            \/ k \in 1..Len(pool)
            \/ k - Len(pool) \in 1..Len(events) /\ pool'[k] = events[k - Len(pool)]
      /\ Len(pool) + i \in 1..Len(pool') /\ pool'[Len(pool) + i] = events[i]
      /\ DOMAIN pool' = 1..Len(pool')
    BY <1>1, <1>2, CatParts
<1>6. ASSUME NEW k \in 1..Len(pool'), k > Len(pool) + i PROVE ~Bad(pool'[k])
  <2>1. k \notin 1..Len(pool)
        BY <1>5, <1>6
  <2> QED BY <1>3, <1>5, <2>1
<1>7. \A k \in 1..Len(pool') : k > Len(pool) + i => ~Bad(pool[k])'
    BY <1>6 DEF Bad
<1> QED BY <1>4, <1>5, <1>7 DEF Announced

\* What is left when the first event is delivered.
LEMMA DeliverFirst ==
    ASSUME Typed, Typed', InOrder, NEW p \in Processes, Deliver(p)
    PROVE  /\ Start(p, pool[1]) /\ task'[p] = pool[1] /\ pool[1] \in Event
           /\ 1 \in DOMAIN pool /\ Len(pool) \in Nat /\ Len(pool') = Len(pool) - 1
           /\ DOMAIN pool = 1..Len(pool) /\ DOMAIN pool' = 1..Len(pool')
           /\ \A j \in DOMAIN pool' : j + 1 \in DOMAIN pool /\ pool'[j] = pool[j + 1]
           /\ \A j \in DOMAIN pool : j > 1 => j - 1 \in DOMAIN pool' /\ pool'[j - 1] = pool[j]
           /\ UNCHANGED <<row, sub, allocated, faults>>
<1>1. /\ Start(p, pool[1]) /\ pool' = RemoveAt(pool, 1) /\ 1 \in DOMAIN pool
      /\ UNCHANGED <<row, sub, allocated, faults>>
    BY DEF Deliver
<1>2. /\ pool \in Seq(Event) /\ DOMAIN pool = 1..Len(pool) /\ Len(pool) \in Nat
      /\ DOMAIN pool' = 1..Len(pool') /\ pool[1] \in Event
    BY <1>1 DEF Typed, StoredTyped
<1>3. /\ Len(pool') = Len(pool) - 1
      /\ \A j \in 1..(Len(pool) - 1) : pool'[j] = IF j < 1 THEN pool[j] ELSE pool[j + 1]
    BY <1>1, <1>2, RemoveAtFacts
<1>4. \A j \in DOMAIN pool' : j + 1 \in DOMAIN pool /\ pool'[j] = pool[j + 1]
    BY <1>2, <1>3
<1>5. \A j \in DOMAIN pool : j > 1 => j - 1 \in DOMAIN pool' /\ pool'[j - 1] = pool[j]
  <2> SUFFICES ASSUME NEW j \in DOMAIN pool, j > 1
               PROVE  j - 1 \in DOMAIN pool' /\ pool'[j - 1] = pool[j]
      OBVIOUS
  <2>1. j - 1 \in 1..(Len(pool) - 1) /\ (j - 1) + 1 = j
        BY <1>2
  <2> QED BY <1>2, <1>3, <1>4, <2>1
<1>6. task'[p] = pool[1]
    BY <1>1 DEF Start, Typed, WorkTyped
<1> QED BY <1>1, <1>2, <1>3, <1>4, <1>5, <1>6

LEMMA DeliverAccess ==
    ASSUME Typed, Typed', InOrder, NEW p \in Processes, Deliver(p),
           \A q \in Processes : task[q] = Idle /\ (q # p => task'[q] = Idle),
           Announced \/ BeingTold \/ Granted
    PROVE  Announced' \/ BeingTold' \/ Granted'
<1>1. ~BeingTold
    BY DEF BeingTold, Idle, InvoiceEvents
<1>2. CASE Announced
  <2>1. PICK i \in DOMAIN pool : /\ pool[i].kind \in InvoiceEvents
                                 /\ \A j \in DOMAIN pool : j > i => ~Bad(pool[j])
        BY <1>2 DEF Announced
  <2>2. CASE i = 1
    <3>1. \A j \in DOMAIN pool' : j + 1 > 1 /\ pool'[j] = pool[j + 1] /\ j + 1 \in DOMAIN pool
          BY DeliverFirst
    <3>2. NothingBad'
          BY <2>1, <2>2, <3>1 DEF NothingBad, Bad
    <3>3. task'[p].kind \in InvoiceEvents
          BY <2>1, <2>2, DeliverFirst
    <3> QED BY <3>2, <3>3 DEF BeingTold
  <2>3. CASE i # 1
    <3>1. i > 1 /\ i - 1 \in DOMAIN pool' /\ pool'[i - 1] = pool[i]
          BY <2>3, DeliverFirst
    <3>2. \A j \in DOMAIN pool' : j > i - 1 => j + 1 > i
          BY <2>1, DeliverFirst
    <3>3. \A j \in DOMAIN pool' :
              j > i - 1 => j + 1 > i /\ pool'[j] = pool[j + 1] /\ j + 1 \in DOMAIN pool
          BY <3>2, DeliverFirst
    <3>4. \A j \in DOMAIN pool' : j > i - 1 => ~Bad(pool[j])'
          BY <2>1, <3>3 DEF Bad
    <3> QED BY <2>1, <3>1, <3>4 DEF Announced
  <2> QED BY <2>2, <2>3
<1>3. CASE Granted
  <2>1. NothingBad'
        BY <1>3, DeliverFirst DEF Granted, NothingBad, Bad
  <2>2. task'[p] = pool[1] /\ ~Bad(pool[1]) /\ pool[1].kind \in EventKinds
        BY <1>3, DeliverFirst DEF Granted, NothingBad, Event, AboutInvoice
  <2>3. \A q \in Processes : ~Bad(task[q])' /\ task'[q].kind \notin DeniesAccess
        BY <2>2 DEF Bad, DeniesAccess, EventKinds, InvoiceEvents, Idle
  <2> QED BY <1>3, <2>1, <2>3, DeliverFirst DEF Granted
<1> QED BY <1>1, <1>2, <1>3

LEMMA EffectGrants ==
    ASSUME NEW t \in Work, NEW r \in Row, NEW now \in Day
    PROVE  /\ t.kind \in InvoiceEvents \cup {"retry_paid"} =>
                  Effect(t, r, now).status = "active" /\ Effect(t, r, now).access = "active"
           /\ ~Bad(t) /\ t.kind \notin DeniesAccess /\ r.status = "active" /\ r.access = "active"
              => Effect(t, r, now).status = "active" /\ Effect(t, r, now).access = "active"
<1> DEFINE Good(new) == new.status = "active" /\ new.access = "active"
<1>1. Good(Recover(r))
    BY DEF Row, Recover
<1>2. t.kind \in InvoiceEvents \cup {"retry_paid"} => Good(Effect(t, r, now))
    BY <1>1, EffectOf
<1>3. ASSUME ~Bad(t), t.kind \notin DeniesAccess, Good(r)
      PROVE  Good(Effect(t, r, now))
  <2>1. /\ Good([r EXCEPT !.stripeSub = t.sub]) /\ Good(Created(r, t))
        /\ t.status = "active" => Good(Updated(r, t))
        BY <1>3 DEF Row, Created, Updated
  <2>2. t.kind \in EventKinds \cup DeniesAccess \cup {"retry_paid"}
        BY DEF Work, Event, AboutInvoice, Retry, Plain, DeniesAccess
  <2>3. t.kind \in EventKinds \/ t.kind = "retry_paid"
        BY <1>3, <2>2
  <2>4. /\ t.kind \notin {"invoice.payment_failed", "customer.subscription.deleted"}
        /\ t.kind = "customer.subscription.updated" => t.status = "active"
        BY <1>3 DEF Bad
  <2>5. \/ t.kind \in {"checkout.session.completed", "customer.subscription.created"}
                      \cup InvoiceEvents \cup {"retry_paid"}
        \/ t.kind = "customer.subscription.updated" /\ t.status = "active"
        BY <2>3, <2>4 DEF EventKinds, InvoiceEvents
  <2> HIDE DEF Good
  <2> QED BY <1>2, <2>1, <2>5, EffectOf
<1> QED BY <1>2, <1>3

LEMMA StoreAccess ==
    ASSUME Typed, Typed', Alone, ~overlapped, NEW p \in Processes, Store(p),
           \A q \in Processes : q # p => task[q] = Idle /\ task'[q] = Idle,
           Announced \/ BeingTold \/ Granted
    PROVE  Announced' \/ BeingTold' \/ Granted'
<1>1. pool' = pool /\ (NothingBad => NothingBad') /\ (Announced => Announced')
    BY DEF Store, NothingBad, Announced, Bad
<1>2. CASE BeingTold \/ Granted
  <2>1. task[p].kind \in InvoiceEvents \cup {"retry_paid"} \/ Granted
        BY <1>2 DEF BeingTold, Idle, InvoiceEvents
  <2>2. row'.status = "active" /\ row'.access = "active"
        BY <2>1, StoresEffect, EffectGrants DEF Granted
  <2>3. task[p].kind # "invoice.payment_failed"
        BY <2>1 DEF Granted, Bad, InvoiceEvents
  <2>4. \A q \in Processes : task'[q] = Idle
        BY <2>3, Stored DEF Drops, Typed, WorkTyped
  <2>5. \A q \in Processes : ~Bad(task[q])' /\ task'[q].kind \notin DeniesAccess
        BY <2>4 DEF Bad, Idle, DeniesAccess
  <2> QED BY <1>1, <1>2, <2>2, <2>5 DEF Granted, BeingTold
<1> QED BY <1>1, <1>2

LEMMA AccessStep ==
    ASSUME Typed, Typed', InOrder, SomeInvoiceEvent, Alone, InStep, FaultsCounted,
           WillHaveAccess, [Next]_vars
    PROVE  WillHaveAccess'
<1> SUFFICES ASSUME ~overlapped', ~trialed', faults' = 0, sub'.status = "active"
             PROVE  Announced' \/ BeingTold' \/ Granted'
    BY DEF WillHaveAccess, Undisturbed
<1>1. ~trialed /\ faults = 0 /\ ~(\E p \in Processes : Crash(p))
    BY TrialsStay, FaultsStep
<1>2. CASE Stripe
    BY <1>2, StripeSends, SendsAnnounced
<1>3. CASE Tick \/ UNCHANGED vars
  <2>1. UNCHANGED <<row, sub, pool, task, overlapped>>
        BY <1>3 DEF Tick, vars
  <2> QED BY <1>1, <2>1
             DEF WillHaveAccess, Undisturbed, Announced, BeingTold, Granted, NothingBad, Bad
<1>4. ASSUME NEW p \in Processes, Step(p) PROVE Announced' \/ BeingTold' \/ Granted'
  <2>1. ~overlapped /\ \A q \in Processes : q # p => task[q] = Idle /\ task'[q] = Idle
        BY <1>4, Only
  <2>2. sub' = sub => Announced \/ BeingTold \/ Granted
        BY <1>1, <2>1 DEF WillHaveAccess, Undisturbed
  <2>3. ASSUME NEW t, Start(p, t) PROVE \A q \in Processes : task[q] = Idle
        BY <2>1, <2>3 DEF Start, Typed, WorkTyped
  <2>4. CASE Deliver(p)
    <3>1. sub' = sub /\ \A q \in Processes : task[q] = Idle
          BY <2>3, <2>4, DeliverFirst
    <3> QED BY <2>1, <2>2, <2>4, <3>1, DeliverAccess
  <2>5. CASE StartGraceCheck(p) \/ StartSuspensionCheck(p)
    <3>1. sub' = sub /\ pool' = pool /\ \A q \in Processes : task[q] = Idle
          BY <2>3, <2>5 DEF StartGraceCheck, StartSuspensionCheck
    <3>2. row.dunning # "none"
          BY <2>5 DEF StartGraceCheck, StartSuspensionCheck, GraceIsOver, IsOverdue
    <3>3. ~Granted /\ ~BeingTold
          BY <1>1, <2>1, <3>1, <3>2 DEF InStep, Granted, BeingTold, Idle, InvoiceEvents
    <3> QED BY <2>2, <3>1, <3>3 DEF Announced, Bad
  <2>6. CASE RetryPayment(p) \/ CancelNow(p)
        BY <2>6, RetrySends, CancelSends, SendsAnnounced
  <2>7. CASE StartTrial(p)
    <3>1. sub' = sub /\ sub.id = 0
          BY <2>7 DEF StartTrial, Start
    <3> QED BY <3>1 DEF Typed, StoredTyped
  <2>8. CASE AllocateCredits(p) \/ Reload(p)
    <3>1. UNCHANGED <<row, sub, pool, task>>
          BY <2>8 DEF AllocateCredits, Reload
    <3> QED BY <2>2, <3>1 DEF Announced, BeingTold, Granted, NothingBad, Bad
  <2>9. CASE Store(p)
    <3>1. sub' = sub
          BY <2>9 DEF Store
    <3> QED BY <2>1, <2>2, <2>9, <3>1, StoreAccess
  <2> QED BY <1>4, <2>4, <2>5, <2>6, <2>7, <2>8, <2>9 DEF Step
<1> QED BY <1>1, <1>2, <1>3, <1>4 DEF Next

-----------------------------------------------------------------------------
(* A subscription that has ended leaves nothing, events in order.          *)

Completed == "checkout.session.completed"
Ended == "customer.subscription.deleted"
\* Handling this does not take the link to the subscription away.
Keeps(e, s) == e.kind # Ended /\ (e.kind \in NewKinds => e.sub = s)
Kept(from, to) == \A k \in DOMAIN pool : k > from /\ k < to => Keeps(pool[k], sub.id)
\* The row is linked to the subscription once the events before the n-th are handled.
Linking == \E p \in Processes : task[p].kind = Completed /\ task[p].sub = sub.id
Linked == row.stripeSub = sub.id /\ \A p \in Processes : Keeps(task[p], sub.id)
LinkedBy(n) ==
    \/ \E j \in DOMAIN pool : /\ j < n /\ pool[j].kind = Completed /\ pool[j].sub = sub.id
                              /\ Kept(j, n)
    \/ Kept(0, n) /\ (Linking \/ Linked)

OverRow(r) == /\ r.plan = "free" /\ r.stripeSub = 0
              /\ r.access # "active" \/ r.status \notin {"active", "trialing"}
Checks == {"idle", "grace_check", "suspension_check"}
\* The end is the last event on its way, at work, or has been handled.
LastIsEnd == /\ Len(pool) >= 1 /\ LinkedBy(Len(pool))
             /\ pool[Len(pool)].kind = Ended /\ pool[Len(pool)].sub = sub.id
Ending == /\ Len(pool) = 0 /\ row.stripeSub = sub.id
          /\ \E p \in Processes : task[p].kind = Ended /\ task[p].sub = sub.id
Over == Len(pool) = 0 /\ OverRow(row) /\ \A p \in Processes : task[p].kind \in Checks
WillEnd ==
    Undisturbed =>
        /\ sub.status \in {"active", "past_due"} => LinkedBy(Len(pool) + 1)
        /\ sub.status = "canceled" => LastIsEnd \/ Ending \/ Over

\* What Stripe sends ends what it ends, and links what is new.
LEMMA SendsEnd ==
    ASSUME Typed, Typed', Completed \in EndpointEvents, Ended \in EndpointEvents, Sends,
           row' = row, Undisturbed, WillEnd,
           \A p \in Processes :
              \/ task'[p] = task[p]
              \/ task[p] = Idle /\ task'[p].kind \in {"retry_paid", "retry_failed", "cancel"}
    PROVE  WillEnd'
<1>1. PICK events : pool' = pool \o events /\ Tells(events)
    BY DEF Sends
<1>2. pool \in Seq(Event) /\ events \in Seq(Event)
    BY <1>1 DEF Tells, SentOf, Typed, StoredTyped
<1>3. /\ Len(pool) \in Nat /\ Len(events) \in Nat /\ Len(pool') = Len(pool) + Len(events)
      /\ \A i \in 1..Len(pool) : i \in 1..Len(pool') /\ pool'[i] = pool[i]
      /\ \A i \in 1..Len(events) : Len(pool) + i \in 1..Len(pool') /\ pool'[Len(pool) + i] = events[i]
      /\ \A i \in 1..Len(pool') :
            \/ i \in 1..Len(pool)
            \/ i - Len(pool) \in 1..Len(events) /\ pool'[i] = events[i - Len(pool)]
      /\ DOMAIN pool = 1..Len(pool) /\ DOMAIN pool' = 1..Len(pool')
    BY <1>1, <1>2, CatParts
<1>4. /\ \A i \in 1..Len(events) : events[i].sub = sub'.id
      /\ \A i \in 1..Len(events) : events[i].kind = Ended => sub'.status = "canceled"
      /\ sub'.status = "canceled" =>
            /\ sub.status \in {"active", "past_due"}
            /\ Len(events) = 1 /\ events[1].kind = Ended
      /\ IF sub.status \in {"active", "past_due"}
         THEN sub'.id = sub.id /\ \A i \in 1..Len(events) : events[i].kind \notin NewKinds
         ELSE \E i \in 1..Len(events) : events[i].kind = Completed
    BY <1>1 DEF Tells, Ended, Completed, NewKinds
<1>5. sub'.status \in {"active", "past_due", "canceled"}
    BY DEF Sends, Sub
<1>6. CASE sub.status \in {"active", "past_due"}
  <2>1. LinkedBy(Len(pool) + 1) /\ sub'.id = sub.id
        BY <1>4, <1>6 DEF WillEnd
  <2>2. (Linking \/ Linked) => (Linking' \/ Linked')
    <3>1. Linking => Linking'
          BY <2>1 DEF Linking, Idle, Completed
    <3>2. Linked => Linked'
          BY <2>1 DEF Linked, Keeps, Ended, NewKinds, Completed
    <3> QED BY <3>1, <3>2
  <2>3. ASSUME NEW m \in Nat, m > Len(pool),
               \A k \in DOMAIN pool' : k > Len(pool) /\ k < m => pool'[k].kind # Ended
        PROVE  \A q \in {m} : LinkedBy(q)'
    <3>1. ASSUME NEW from, NEW k \in DOMAIN pool', k > from, k < m, Kept(from, Len(pool) + 1)
          PROVE  Keeps(pool'[k], sub.id)
      <4>1. CASE k \in 1..Len(pool)
        <5>1. k < Len(pool) + 1 /\ pool'[k] = pool[k] /\ k \in DOMAIN pool
              BY <1>3, <4>1
        <5> QED BY <3>1, <5>1 DEF Kept
      <4>2. CASE k \notin 1..Len(pool)
        <5>1. k - Len(pool) \in 1..Len(events) /\ pool'[k] = events[k - Len(pool)] /\ k > Len(pool)
              BY <1>3, <4>2
        <5> QED BY <1>4, <1>6, <2>3, <3>1, <5>1 DEF Keeps
      <4> QED BY <4>1, <4>2
    <3>2. \A from : Kept(from, Len(pool) + 1) => \A q \in {m} : Kept(from, q)'
          BY <2>1, <3>1 DEF Kept
    <3>3. \A j \in DOMAIN pool : j < Len(pool) + 1 => j \in DOMAIN pool' /\ pool'[j] = pool[j] /\ j < m
          BY <1>3, <2>3
    <3> QED BY <2>1, <2>2, <3>2, <3>3 DEF LinkedBy
  <2>4. CASE sub'.status \in {"active", "past_due"}
    <3>1. \A k \in DOMAIN pool' : k > Len(pool) => pool'[k].kind # Ended
      <4>1. \A k \in DOMAIN pool' : k > Len(pool) => k \notin 1..Len(pool)
            BY <1>3
      <4> QED BY <1>3, <1>4, <2>4, <4>1
    <3>2. ASSUME NEW m, m = Len(pool') + 1 PROVE LinkedBy(m)'
      <4>1. m \in Nat /\ m > Len(pool)
            BY <1>3, <3>2
      <4> QED BY <2>3, <3>1, <4>1
    <3>3. LinkedBy(Len(pool) + 1)'
          BY <3>2 DEF LinkedBy, Kept
    <3> QED BY <2>4, <3>3 DEF WillEnd
  <2>5. CASE sub'.status = "canceled"
    <3>1. /\ Len(pool') = Len(pool) + 1 /\ Len(pool') >= 1 /\ 1 \in 1..Len(events)
          /\ Len(pool') \in Nat /\ Len(pool') > Len(pool)
      <4>1. Len(events) = 1
            BY <1>4, <2>5
      <4>2. Len(pool') = Len(pool) + 1 /\ Len(pool) \in Nat
            BY <1>3, <4>1
      <4> QED BY <4>1, <4>2
    <3>2. pool'[Len(pool')] = events[1]
          BY <1>3, <3>1
    <3>3. \A k \in DOMAIN pool' : ~(k > Len(pool) /\ k < Len(pool'))
          BY <1>3, <3>1
    <3>4. ASSUME NEW m, m = Len(pool') PROVE LinkedBy(m)'
          BY <2>3, <3>1, <3>3, <3>4
    <3>5. LinkedBy(Len(pool))'
          BY <3>4 DEF LinkedBy, Kept
    <3> QED BY <1>4, <2>5, <3>1, <3>2, <3>5 DEF WillEnd, LastIsEnd
  <2> QED BY <1>5, <2>4, <2>5
<1>7. CASE sub.status \notin {"active", "past_due"}
  <2>1. PICK i \in 1..Len(events) : events[i].kind = Completed
        BY <1>4, <1>7
  <2>2. sub'.status \in {"active", "past_due"}
        BY <1>4, <1>5, <1>7
  <2>3. PICK j : j = Len(pool) + i
        OBVIOUS
  <2>4. /\ j \in DOMAIN pool' /\ j < Len(pool') + 1 /\ j > Len(pool)
        /\ pool'[j].kind = Completed /\ pool'[j].sub = sub'.id
        BY <1>3, <1>4, <2>1, <2>3
  <2>5. ASSUME NEW k \in DOMAIN pool', k > j PROVE Keeps(pool'[k], sub'.id)
    <3>1. k \notin 1..Len(pool)
          BY <1>3, <2>4, <2>5
    <3> QED BY <1>3, <1>4, <2>2, <3>1 DEF Keeps
  <2>6. \A m : Kept(j, m)'
        BY <2>5 DEF Kept
  <2>7. LinkedBy(Len(pool) + 1)'
        BY <2>4, <2>6 DEF LinkedBy
  <2> QED BY <2>2, <2>7 DEF WillEnd
<1> QED BY <1>6, <1>7

\* The delivery of the first event brings the link, or the end, nearer.
LEMMA DeliverEnd ==
    ASSUME Typed, Typed', InOrder, NEW p \in Processes, Deliver(p),
           \A q \in Processes : task[q] = Idle /\ (q # p => task'[q] = Idle),
           Undisturbed, WillEnd
    PROVE  WillEnd'
<1>1. /\ task'[p] = pool[1] /\ pool[1] \in Event /\ 1 \in DOMAIN pool
      /\ Len(pool) \in Nat /\ Len(pool') = Len(pool) - 1
      /\ DOMAIN pool = 1..Len(pool) /\ DOMAIN pool' = 1..Len(pool')
      /\ \A j \in DOMAIN pool' : j + 1 \in DOMAIN pool /\ pool'[j] = pool[j + 1]
      /\ \A j \in DOMAIN pool : j > 1 => j - 1 \in DOMAIN pool' /\ pool'[j - 1] = pool[j]
      /\ UNCHANGED <<row, sub>>
    BY DeliverFirst
<1>2. ~Linking /\ \A q \in Processes : task[q].kind = "idle"
    BY DEF Linking, Idle, Completed
<1>3. ASSUME NEW n \in Nat, n >= 1, LinkedBy(n + 1) PROVE \A m \in {n} : LinkedBy(m)'
  <2>1. ASSUME NEW from \in Nat, from >= 1, Kept(from, n + 1)
        PROVE  \A f \in {from - 1}, m \in {n} : Kept(f, m)'
    <3>1. ASSUME NEW k \in DOMAIN pool', k > from - 1, k < n
          PROVE  Keeps(pool'[k], sub.id)
      <4>1. k + 1 \in DOMAIN pool /\ k + 1 > from /\ k + 1 < n + 1 /\ pool'[k] = pool[k + 1]
            BY <1>1, <3>1
      <4> QED BY <2>1, <4>1 DEF Kept
    <3> QED BY <1>1, <3>1 DEF Kept
  <2>2. ASSUME NEW j \in DOMAIN pool, j < n + 1, pool[j].kind = Completed,
               pool[j].sub = sub.id, Kept(j, n + 1)
        PROVE  \A m \in {n} : LinkedBy(m)'
    <3>1. CASE j = 1
      <4>1. Linking'
            BY <1>1, <2>2, <3>1 DEF Linking
      <4>2. j \in Nat /\ j >= 1 /\ j - 1 = 0
            BY <3>1
      <4>3. \A m \in {n} : Kept(0, m)'
            BY <2>1, <2>2, <4>2
      <4> QED BY <4>1, <4>3 DEF LinkedBy
    <3>2. CASE j # 1
      <4>1. j > 1 /\ j \in Nat /\ j >= 1
            BY <1>1, <3>2
      <4>2. j - 1 \in DOMAIN pool' /\ pool'[j - 1] = pool[j] /\ j - 1 < n
            BY <1>1, <2>2, <4>1
      <4>3. \A m \in {n} : Kept(j - 1, m)'
        <5>1. \A f \in {j - 1}, m \in {n} : Kept(f, m)'
              BY <2>1, <2>2, <4>1
        <5> QED BY <5>1 DEF Kept
      <4> QED BY <1>1, <2>2, <4>2, <4>3 DEF LinkedBy
    <3> QED BY <3>1, <3>2
  <2>3. ASSUME Kept(0, n + 1), Linked PROVE \A m \in {n} : LinkedBy(m)'
    <3>1. Keeps(pool[1], sub.id)
          BY <1>1, <1>3, <2>3 DEF Kept
    <3>2. Linked'
          BY <1>1, <2>3, <3>1 DEF Linked, Keeps, Idle, Ended, NewKinds, Completed
    <3>3. Kept(1, n + 1)
          BY <1>1, <2>3 DEF Kept
    <3>4. \A m \in {n} : Kept(0, m)'
      <4>1. 1 \in Nat /\ 1 >= 1 /\ 1 - 1 = 0
            OBVIOUS
      <4> QED BY <2>1, <3>3, <4>1
    <3> QED BY <3>2, <3>4 DEF LinkedBy
  <2> QED BY <1>2, <1>3, <2>2, <2>3 DEF LinkedBy
<1>4. CASE sub.status \in {"active", "past_due"}
  <2>1. ASSUME NEW m, m = Len(pool') + 1 PROVE LinkedBy(m)'
    <3>1. m \in Nat /\ m >= 1 /\ m + 1 = Len(pool) + 1
          BY <1>1, <2>1
    <3>2. LinkedBy(m + 1)
          BY <1>4, <3>1 DEF WillEnd
    <3> QED BY <1>3, <3>1, <3>2
  <2>2. LinkedBy(Len(pool) + 1)'
        BY <2>1 DEF LinkedBy, Kept
  <2> QED BY <1>1, <1>4, <2>2 DEF WillEnd
<1>5. CASE sub.status = "canceled"
  <2>1. LastIsEnd
        BY <1>1, <1>5 DEF WillEnd, Ending, Over
  <2>2. CASE Len(pool) = 1
    <3>1. LinkedBy(1) /\ ~(\E j \in DOMAIN pool : j < 1)
          BY <1>1, <2>1, <2>2 DEF LastIsEnd
    <3>2. row.stripeSub = sub.id
          BY <1>2, <3>1 DEF LinkedBy, Linked
    <3>3. Ending'
          BY <1>1, <2>1, <2>2, <3>2 DEF LastIsEnd, Ending
    <3> QED BY <1>1, <1>5, <3>3 DEF WillEnd
  <2>3. CASE Len(pool) # 1
    <3>1. /\ Len(pool) > 1 /\ Len(pool') >= 1 /\ Len(pool') \in DOMAIN pool'
          /\ Len(pool') + 1 = Len(pool) /\ Len(pool') \in Nat
          BY <1>1, <2>3
    <3>2. pool'[Len(pool')] = pool[Len(pool)]
          BY <1>1, <3>1
    <3>3. ASSUME NEW m, m = Len(pool') PROVE LinkedBy(m)'
          BY <1>3, <2>1, <3>1, <3>3 DEF LastIsEnd
    <3>4. LinkedBy(Len(pool))'
          BY <3>3 DEF LinkedBy, Kept
    <3>5. LastIsEnd'
          BY <1>1, <2>1, <3>1, <3>2, <3>4 DEF LastIsEnd
    <3> QED BY <1>1, <1>5, <3>5 DEF WillEnd
  <2> QED BY <2>2, <2>3
<1> QED BY <1>1, <1>4, <1>5 DEF WillEnd

LEMMA EffectLinks ==
    ASSUME NEW t \in Work, NEW r \in Row, NEW now \in Day
    PROVE  /\ t.kind = Completed => Effect(t, r, now).stripeSub = t.sub
           /\ \A s : Keeps(t, s) /\ r.stripeSub = s => Effect(t, r, now).stripeSub = s
           /\ t.kind = Ended /\ r.stripeSub = t.sub => OverRow(Effect(t, r, now))
           /\ t.kind \in Checks /\ OverRow(r) => OverRow(Effect(t, r, now))
<1> DEFINE Same(new) == new.stripeSub = r.stripeSub
           new == Effect(t, r, now)
<1>1. t.kind \in EventKinds \cup {"payment_failure", "retry_failed", "retry_paid", "grace_check",
                                   "suspension_check", "start_trial", "cancel"}
    BY DEF Work, Event, AboutInvoice, Retry, Plain
<1>2. t.kind = Completed => new.stripeSub = t.sub
    BY EffectOf DEF Completed, Row
<1>3. t.kind = "customer.subscription.created" => new.stripeSub = t.sub \/ Same(new)
  <2>1. Created(r, t).stripeSub \in {t.sub, r.stripeSub}
        BY DEF Created, Row
  <2> QED BY <2>1, EffectOf
<1>4. t.kind \notin NewKinds \cup {Ended} => Same(new)
  <2>1. /\ Same([r EXCEPT !.status = "past_due"]) /\ Same([r EXCEPT !.status = "canceled"])
        /\ Same(Updated(r, t)) /\ Same(Recover(r)) /\ Same(Trial(r, now))
        BY DEF Row, Updated, Recover, Trial
  <2>2. Same(Fail(r, t.attempt, now)) /\ Same(RestrictRow(r)) /\ Same(SuspendRow(r))
        BY DEF Row, Fail, RestrictRow, SuspendRow
  <2> HIDE DEF Same, new
  <2>3. CASE t.kind \in {"customer.subscription.updated", "invoice.payment_failed", "cancel", "start_trial"}
                       \cup (InvoiceEvents \cup {"retry_paid"})
        BY <2>1, <2>3, EffectOf DEF new
  <2>4. CASE t.kind \in {"payment_failure", "retry_failed", "grace_check", "suspension_check"}
        BY <2>2, <2>4, EffectOf DEF new
  <2> QED BY <1>1, <2>3, <2>4 DEF EventKinds, NewKinds, Ended, Completed
<1>5. t.kind = Ended /\ r.stripeSub = t.sub => OverRow(new)
  <2>1. r.stripeSub = t.sub => OverRow(Deleted(r, t))
        BY DEF Deleted, OverRow, Row
  <2> QED BY <2>1, EffectOf DEF Ended
<1>6. t.kind \in Checks /\ OverRow(r) => OverRow(new)
  <2>1. OverRow(r) => OverRow(RestrictRow(r)) /\ OverRow(SuspendRow(r))
        BY DEF RestrictRow, SuspendRow, OverRow, Row
  <2>2. t.kind \in Checks => t.kind \in {"grace_check", "suspension_check"}
        BY <1>1 DEF Checks, EventKinds, InvoiceEvents
  <2> QED BY <2>1, <2>2, EffectOf
<1>7. ASSUME NEW s, Keeps(t, s), r.stripeSub = s PROVE new.stripeSub = s
    BY <1>2, <1>3, <1>4, <1>7 DEF Keeps, NewKinds, Completed
<1> QED BY <1>2, <1>5, <1>6, <1>7

LEMMA StoreEnd ==
    ASSUME Typed, Typed', Alone, NEW p \in Processes, Store(p),
           \A q \in Processes : q # p => task[q] = Idle /\ task'[q] = Idle,
           Undisturbed, WillEnd
    PROVE  WillEnd'
<1>1. UNCHANGED <<sub, pool>>
    BY DEF Store
<1>2. /\ row' = Effect(task[p], row, seen[p][1])
      /\ task[p] \in Work /\ row \in Row /\ seen[p][1] \in Day
    BY StoresEffect DEF Undisturbed
<1>3. /\ task[p].kind = Completed => row'.stripeSub = task[p].sub
      /\ \A s : Keeps(task[p], s) /\ row.stripeSub = s => row'.stripeSub = s
      /\ task[p].kind = Ended /\ row.stripeSub = task[p].sub => OverRow(row')
      /\ task[p].kind \in Checks /\ OverRow(row) => OverRow(row')
    BY <1>2, EffectLinks
<1>4. \/ task'[p] = Idle
      \/ task'[p].kind = "payment_failure" /\ task[p].kind = "invoice.payment_failed"
    BY DEF Store, Typed, WorkTyped
<1>5. \A q \in Processes : Keeps(task'[q], sub.id)
    BY <1>4 DEF Keeps, Idle, Ended, NewKinds, Completed
<1>6. Linking \/ Linked => Linked'
  <2>1. Linking => task[p].kind = Completed /\ task[p].sub = sub.id
        BY DEF Linking, Idle, Completed
  <2>2. Linked => row'.stripeSub = sub.id
        BY <1>3 DEF Linked
  <2> QED BY <1>1, <1>3, <1>5, <2>1, <2>2 DEF Linked
<1>7. ASSUME NEW n, LinkedBy(n) PROVE \A m \in {n} : LinkedBy(m)'
  <2>1. \A from : Kept(from, n) => \A m \in {n} : Kept(from, m)'
        BY <1>1 DEF Kept
  <2> QED BY <1>1, <1>6, <1>7, <2>1 DEF LinkedBy
<1>8. CASE sub.status \in {"active", "past_due"}
  <2>1. ASSUME NEW m, m = Len(pool) + 1 PROVE LinkedBy(m)'
        BY <1>7, <1>8, <2>1 DEF WillEnd
  <2>2. LinkedBy(Len(pool) + 1)'
        BY <1>1, <2>1 DEF LinkedBy, Kept
  <2> QED BY <1>1, <1>8, <2>2 DEF WillEnd
<1>9. CASE sub.status = "canceled"
  <2>1. CASE LastIsEnd
    <3>1. ASSUME NEW m, m = Len(pool) PROVE LinkedBy(m)'
          BY <1>7, <2>1, <3>1 DEF LastIsEnd
    <3>2. LinkedBy(Len(pool))'
          BY <1>1, <3>1 DEF LinkedBy, Kept
    <3>3. LastIsEnd'
          BY <1>1, <2>1, <3>2 DEF LastIsEnd
    <3> QED BY <1>1, <1>9, <3>3 DEF WillEnd
  <2>2. CASE Ending \/ Over
    <3>1. /\ Len(pool') = 0
          /\ OverRow(row')
          /\ task[p].kind \in Checks \cup {Ended}
      <4>1. CASE Ending
        <5>1. task[p].kind = Ended /\ task[p].sub = sub.id
              BY <4>1 DEF Ending, Idle, Ended
        <5> QED BY <1>1, <1>3, <4>1, <5>1 DEF Ending
      <4>2. CASE Over
            BY <1>1, <1>3, <4>2 DEF Over
      <4> QED BY <2>2, <4>1, <4>2
    <3>2. task'[p] = Idle
          BY <1>4, <3>1 DEF Checks, Ended
    <3>3. Over'
          BY <3>1, <3>2 DEF Over, Checks, Idle
    <3> QED BY <1>1, <1>9, <3>3 DEF WillEnd
  <2> QED BY <1>9, <2>1, <2>2 DEF WillEnd
<1> QED BY <1>1, <1>8, <1>9 DEF WillEnd

LEMMA EndStep ==
    ASSUME Typed, Typed', InOrder, Completed \in EndpointEvents, Ended \in EndpointEvents,
           Alone, FaultsCounted, WillEnd, [Next]_vars
    PROVE  WillEnd'
<1> SUFFICES ASSUME Undisturbed' PROVE WillEnd'
    BY DEF WillEnd
<1>1. ~trialed /\ faults = 0 /\ ~(\E p \in Processes : Crash(p))
    BY TrialsStay, FaultsStep DEF Undisturbed
<1>2. CASE Stripe
  <2>1. Sends /\ UNCHANGED <<row, task, overlapped>>
        BY <1>2, StripeSends DEF OnlyStripe
  <2> QED BY <1>1, <2>1, SendsEnd DEF Undisturbed
<1>3. ASSUME UNCHANGED <<row, sub, pool, task>>, ~overlapped PROVE WillEnd'
    BY <1>1, <1>3
       DEF WillEnd, Undisturbed, LastIsEnd, Ending, Over, LinkedBy, Linking, Linked, Kept
<1>4. CASE Tick \/ UNCHANGED vars
  <2>1. UNCHANGED <<row, sub, pool, task, overlapped>>
        BY <1>4 DEF Tick, vars
  <2> QED BY <1>3, <2>1 DEF Undisturbed
<1>5. ASSUME NEW p \in Processes, Step(p) PROVE WillEnd'
  <2>1. /\ ~overlapped /\ Undisturbed
        /\ \A q \in Processes : q # p => task[q] = Idle /\ task'[q] = Idle
        BY <1>1, <1>5, Only DEF Undisturbed
  <2>2. ASSUME NEW t, Start(p, t) PROVE task'[p] = t /\ \A q \in Processes : task[q] = Idle
        BY <2>1, <2>2 DEF Start, Typed, WorkTyped
  <2>3. CASE Deliver(p)
    <3>1. \A q \in Processes : task[q] = Idle
          BY <2>2, <2>3, DeliverFirst
    <3> QED BY <2>1, <2>3, <3>1, DeliverEnd
  <2>4. CASE StartGraceCheck(p) \/ StartSuspensionCheck(p)
    <3>1. /\ UNCHANGED <<row, sub, pool>>
          /\ \E t : Start(p, t) /\ t.kind \in {"grace_check", "suspension_check"}
          BY <2>4 DEF StartGraceCheck, StartSuspensionCheck
    <3>2. /\ \A q \in Processes : task[q] = Idle
          /\ \A q \in Processes : task'[q].kind \in Checks
          BY <2>1, <2>2, <3>1 DEF Checks, Idle
    <3>3. ~Linking /\ ~Ending /\ (Linked => Linked')
          BY <3>1, <3>2
             DEF Linking, Ending, Linked, Keeps, Idle, Completed, Ended, NewKinds, Checks
    <3>4. ASSUME NEW n, LinkedBy(n) PROVE \A m \in {n} : LinkedBy(m)'
      <4>1. \A from : Kept(from, n) => \A m \in {n} : Kept(from, m)'
            BY <3>1 DEF Kept
      <4> QED BY <3>1, <3>3, <3>4, <4>1 DEF LinkedBy
    <3>5. ASSUME NEW n, LinkedBy(n), n = Len(pool) \/ n = Len(pool) + 1
          PROVE  /\ n = Len(pool) => LinkedBy(Len(pool))'
                 /\ n = Len(pool) + 1 => LinkedBy(Len(pool) + 1)'
          BY <3>1, <3>4, <3>5 DEF LinkedBy, Kept
    <3>6. /\ LastIsEnd => LastIsEnd'
          /\ Over => Over'
          BY <3>1, <3>2, <3>5 DEF LastIsEnd, Over
    <3> QED BY <2>1, <3>1, <3>3, <3>5, <3>6 DEF WillEnd
  <2>5. CASE RetryPayment(p) \/ CancelNow(p)
    <3>1. /\ Sends /\ row' = row
          /\ \/ Start(p, [kind |-> "retry_paid"]) \/ Start(p, [kind |-> "cancel"])
             \/ \E attempt : Start(p, [kind |-> "retry_failed", attempt |-> attempt])
          BY <2>5, RetrySends, CancelSends
    <3>2. task[p] = Idle /\ task'[p].kind \in {"retry_paid", "retry_failed", "cancel"}
      <4>1. CASE Start(p, [kind |-> "retry_paid"])
            BY <2>2, <4>1
      <4>2. CASE Start(p, [kind |-> "cancel"])
            BY <2>2, <4>2
      <4>3. ASSUME NEW attempt, Start(p, [kind |-> "retry_failed", attempt |-> attempt])
            PROVE  task[p] = Idle /\ task'[p].kind \in {"retry_paid", "retry_failed", "cancel"}
            BY <2>2, <4>3
      <4> QED BY <3>1, <4>1, <4>2, <4>3
    <3> QED BY <2>1, <3>1, <3>2, SendsEnd
  <2>6. CASE StartTrial(p)
    <3>1. sub' = sub /\ sub.id = 0
          BY <2>6 DEF StartTrial, Start, Undisturbed
    <3> QED BY <3>1 DEF WillEnd, Typed, StoredTyped
  <2>7. CASE AllocateCredits(p) \/ Reload(p)
    <3>1. UNCHANGED <<row, sub, pool, task>>
          BY <2>7 DEF AllocateCredits, Reload
    <3> QED BY <1>3, <2>1, <3>1
  <2>8. CASE Store(p)
        BY <2>1, <2>8, StoreEnd
  <2> QED BY <1>5, <2>3, <2>4, <2>5, <2>6, <2>7, <2>8 DEF Step
<1> QED BY <1>1, <1>2, <1>4, <1>5 DEF Next

-----------------------------------------------------------------------------
(* The theorems.                                                           *)

\* What holds whatever the configuration of the endpoint and the order of delivery.
Held == Typed /\ Alone /\ InStep /\ Overdue /\ FaultsCounted

LEMMA HeldInit == Init => Held
<1> SUFFICES ASSUME Init PROVE Held
    OBVIOUS
<1>1. Alone /\ InStep /\ Overdue /\ FaultsCounted
    BY DEF Init, FirstRows, Alone, InStep, Overdue, FaultsCounted, NewRow, Idle
<1> QED BY <1>1, TypedInit DEF Held

LEMMA HeldStep == ASSUME Held, [Next]_vars PROVE Held'
<1>1. Typed'
    BY TypedStep DEF Held
<1> QED BY <1>1, AloneStep, InStepStep, OverdueStep, FaultsStep DEF Held

LEMMA AlwaysHeld == Spec => []Held
BY HeldInit, HeldStep, PTL DEF Spec

\* The row stays one a row can be, whatever order events come in, whatever dies and
\* whatever overlaps: no column takes the value of another's range.
THEOREM TypesCorrect == Spec => []TypeOK
<1>1. Held => TypeOK
    BY DEF Held, Typed, StoredTyped, WorkTyped, TypeOK, Sub, Day
<1> QED BY <1>1, AlwaysHeld, PTL

\* The access state says of the dunning state what is_in_dunning says it does, in any
\* order of events and with any crashes.
THEOREM AccessFollowsDunning == Spec => []AccessMatchesDunning
<1>1. Held => AccessMatchesDunning
    BY DEF Held, InStep, AccessMatchesDunning
<1> QED BY <1>1, AlwaysHeld, PTL

\* check_suspension suspends nobody whose row was not overdue when it was stored.
THEOREM OverdueSuspended == Spec => SuspendedOnlyIfOverdue
<1>1. Held /\ Held' /\ [Next]_vars
      => [row.dunning # "suspended" /\ row'.dunning = "suspended"
          => IsOverdue(row, clock) \/ overlapped]_vars
    BY SuspendsOverdue DEF Held
<1> QED BY <1>1, AlwaysHeld, PTL DEF Spec, SuspendedOnlyIfOverdue

\* A Stripe endpoint that is told of a paid invoice by one event allocates its credits
\* once, whatever overlaps, dies or comes out of order.  (Told by two, it does not.)
THEOREM InvoicesAllocatedOnce ==
    ASSUME OneInvoiceEvent
    PROVE  Spec => []OneAllocationPerInvoice
<1>1. Init => OneClaim /\ ClaimsAreBilled
    BY DEF Init, OneClaim, OneAllocationPerInvoice, ClaimsAreBilled, ToAllocate
<1>2. OneClaim /\ ClaimsAreBilled /\ Held /\ Held' /\ [Next]_vars => (OneClaim /\ ClaimsAreBilled)'
    BY ClaimsStep DEF Held
<1>3. OneClaim => OneAllocationPerInvoice
    BY DEF OneClaim
<1> QED BY <1>1, <1>2, <1>3, AlwaysHeld, PTL DEF Spec

\* With events in order, a customer whose payments have all been told of has access,
\* for as long as no two processes were at the row at once and none has died.
THEOREM PayingHasAccess ==
    ASSUME InOrder, SomeInvoiceEvent
    PROVE  Spec => [](~overlapped /\ faults = 0 => PaidUpHasAccess)
<1>1. Init => WillHaveAccess
    BY DEF Init, WillHaveAccess
<1>2. WillHaveAccess /\ Held /\ Held' /\ [Next]_vars => WillHaveAccess'
    BY AccessStep DEF Held
<1>3. WillHaveAccess /\ Held => (~overlapped /\ faults = 0 => PaidUpHasAccess)
  <2> SUFFICES ASSUME WillHaveAccess, Held, ~overlapped, faults = 0, pool = <<>>, ~trialed,
                      \A p \in Processes : pc[p] = "idle", sub.status = "active"
               PROVE  IsActive(row, clock)
      BY DEF PaidUpHasAccess
  <2>1. \A p \in Processes : task[p] = Idle
        BY DEF Held, Typed, WorkTyped
  <2>2. ~Announced /\ ~BeingTold
        BY <2>1 DEF Announced, BeingTold, Idle, InvoiceEvents
  <2>3. row.status = "active" /\ row.access = "active"
        BY <2>2 DEF WillHaveAccess, Undisturbed, Granted
  <2> QED BY <2>3 DEF IsActive
<1> QED BY <1>1, <1>2, <1>3, AlwaysHeld, PTL DEF Spec

\* With events in order, a subscription that has ended and been handled leaves the row
\* neither plan nor link nor access, however it ended, and however many came before it.
THEOREM EndedLeavesNothing ==
    ASSUME InOrder, "checkout.session.completed" \in EndpointEvents,
           "customer.subscription.deleted" \in EndpointEvents
    PROVE  Spec => [](~overlapped /\ faults = 0 => EndedGivesNothing)
<1>1. Init => WillEnd
    BY DEF Init, WillEnd
<1>2. WillEnd /\ Held /\ Held' /\ [Next]_vars => WillEnd'
    BY EndStep DEF Held, Completed, Ended
<1>3. WillEnd /\ Held => (~overlapped /\ faults = 0 => EndedGivesNothing)
  <2> SUFFICES ASSUME WillEnd, Held, ~overlapped, faults = 0, pool = <<>>, ~trialed,
                      \A p \in Processes : pc[p] = "idle", sub.status = "canceled"
               PROVE  row.plan = "free" /\ row.stripeSub = 0 /\ ~IsActive(row, clock)
      BY DEF EndedGivesNothing
  <2>1. Len(pool) = 0 /\ \A p \in Processes : task[p] = Idle
        BY DEF Held, Typed, WorkTyped
  <2>2. ~LastIsEnd /\ ~Ending
        BY <2>1 DEF LastIsEnd, Ending, Idle, Ended
  <2>3. OverRow(row)
        BY <2>2 DEF WillEnd, Undisturbed, Over
  <2> QED BY <2>3 DEF OverRow, IsActive
<1> QED BY <1>1, <1>2, <1>3, AlwaysHeld, PTL DEF Spec
====
