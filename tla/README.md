# LOCAL_SEO in TLA+

TLA+ models of the parts of LOCAL_SEO that move money, meter usage, decide who
has access, write to customers, publish to the outside world and keep rows that
mirror it, with the TLC runs that check them and the theorems TLAPS proves about
them.  Every definition is translated from the code under `src/`; `PROJECT.json`
maps each one to its lines, names each run's properties, and lists the hazards
the properties are aimed at.

* [The system](#the-system)
* [Inventory](#inventory)
* [Modules](#modules)
* [What each model says](#what-each-model-says)
* [Runs, bounds and results](#runs-bounds-and-results)
* [Where the code and its documents disagree](#where-the-code-and-its-documents-disagree)
* [Counterexamples outside the runs](#counterexamples-outside-the-runs)
* [Fairness](#fairness)
* [Proofs](#proofs)
* [What is not modelled](#what-is-not-modelled)
* [Plan](#plan)

## The system

LOCAL_SEO is a FastAPI application over PostgreSQL.  It runs as several web
instances (Cloud Run, `src/Dockerfile`, `src/cloudbuild.yaml`) and one worker
process (`python -m app.worker`) whose two APScheduler schedulers run the
periodic jobs.  All state is in the database.  A request or job opens a session
(`src/app/db/session.py:26`, `autoflush=False`, READ COMMITTED), reads rows,
decides, often awaits an outside service, and commits; no code takes a row lock.
Three things follow, and every model is built on them:

1. a handler's decision is made on a row it read earlier (`snap`, `seen`, or the
   guard of the action that begins the job), and its commit comes in a later
   action;
2. a commit writes the columns the handler changed, as absolute values, over
   whatever was committed meanwhile (`Flush`, `Merge`, `StoreRecord`);
3. a process can die between any two steps; its open transaction is rolled back,
   and what was done outside the database stays done.

The outside world are Stripe (events delivered at least once, in no promised
order, until answered with a 200), the publishing platforms, Twilio and the
people who use the product.

## Inventory

| Component | State | Operations | Hard behaviour | Correct if |
| --- | --- | --- | --- | --- |
| Credit purchases and balance (`services/credits.py`, `routers/webhooks.py`, `routers/admin.py`) | `credit_balances` row, `credit_purchase_orders`, `credit_transactions`, `stripe_events` | open, complete, close, refund an order; charge, grant, allocate | redelivery, overlapping handlers, crash after the event was recorded, refunds by two ways | an order is credited once, if paid; the ledger explains the balance; statuses only move forward; a payment ends as credits |
| Usage metering (`services/credits.py`) | `usage_records` per type and day, allocation date | preview, record, charge overage | preview, work and recording are three steps; midnight; allocation in between | limits hold; what was done is recorded, once |
| Plans and entitlements (`models/subscription.py`, `services/account_entitlements.py`, `services/feature_access.py`) | plan, add-ons, active | change of plan, suspension, questions about features | five tables in four files | an upgrade only adds |
| Subscriptions (`services/billing.py`) | `subscriptions` row, Stripe's subscription | checkout, created, updated, deleted, invoice paid and failed, trial, cancel | order of events, allocation in a session of its own | the paid plan is stored and allocated once per invoice; who paid has access |
| Plan changes and add-on billing (`services/billing.py`, `routers/billing.py`) | the row, `subscription_addons`, Stripe's items | change plan, cancel, resume, attach, detach | call to Stripe before the commit, events, crashes | row and subscription agree; what is billed is attached |
| Dunning (`services/dunning_service.py`, `workers/scheduler.py`) | access and dunning state, dates | failure, recovery, grace check, suspension check, payment retry | daily jobs against event handlers, two kinds of datetimes | dunning state and access agree; only overdue rows are suspended; dunning ends |
| Approval (`services/approval.py`, `routers/posts.py`, `services/magic_link.py`) | `posts` row: status, token, schedule; signed links | create, request, approve, reject, edit, delete, follow a signed link | approve against reject against edit, links on a post that moved on | nothing unapproved is published by the job |
| Publishing (`services/publisher.py`, `routers/posts.py`) | `posts` row, `publish_jobs`, the platform | publish, retry, job | stale list, double publication, lost answer, crash | published once; every publication accounted for; approved posts get published |
| Channels (`routers/oauth.py`, `services/publisher.py`) | `channels` rows | connect, reconnect, disconnect, refresh, use | refresh and consent overlap | the last consent's credentials, the right status, one row per type |
| Review requests (`jobs/review_booster_jobs.py`, `services/review_booster_service.py`) | request status and retry count, opt-outs, campaign counter | create, deliver, retry, callback, requeue, archive, opt out | callbacks out of order, crash after sending | a message only for a reason; never after STOP; failures reported |
| Missed calls (`services/call_text_back_service.py`) | call log, thread, counters | call report, incoming SMS, read | duplicate reports, thread inserted twice | one text per call or an alert; counts match |
| Review responses (`services/review_responder_service.py`) | draft, status | generate, approve, reject, retry | rival requests, lost answer | the status tells what Google shows |
| Social auto-responder (`services/social_responder.py`, `routers/social.py`) | settings, log | answer all, answer one, switch off | settings change during a run | each answer asked for and logged; off means off |
| Questions and answers (`routers/qa.py`) | question row | sync, draft, post | sync beside post, refusals | posted means live |
| Website drafts (`services/website_seo.py`) | draft row, channel | approve, reject, archive, publish | awaited website between load and commit | outcome of the last try on the rows |
| Snapshots and reports (`jobs/metric_jobs.py`, `services/metrics_service.py`) | one row per day or week | daily and weekly job, entries by hand | reports of later weeks, numbers for past days | every week is reported; reports add up |
| Onboarding (`services/onboarding_service.py`, `services/onboarding.py`) | checklist row; audit row | complete a step; start, select, analyse | JSON column, tasks that overlap or die | progress is earned; audits end, with the right numbers |
| Account settings (`services/agency.py`, `routers/notifications.py`, `services/credits.py`) | one JSON column | team, preferences, limits | one column, many writers | each writer's value is kept |
| Upload migration (`services/upload_migration.py`) | references, files | batch, cleanup | paging over a shrinking list, edits meanwhile | nothing becomes unreachable; the last page leaves nothing |
| Reliable publish queue, OAuth service, rate limiters, autopilot, analytics, authentication, storage, notifications, frontend | their own rows | - | - | see [What is not modelled](#what-is-not-modelled) |

They meet in few places: metering, invoices and purchases change the balance row
(`CreditAccount`); invoices allocate for the plan a subscription event stored;
approval and publication share the post's row, publication uses a channel; the
plan and the settings column decide the limits.  `PROJECT.json` has the full list
of components with their sources, and the hazards with the line where each bites.

## Modules

| Module | Role | Uses |
| --- | --- | --- |
| `CreditAccount` | the `credit_balances` row and the pure operations on it | - |
| `PurchaseOrders` | constants and statuses the two purchase models share | `CreditAccount` |
| `CreditLedger` | abstract specification: the credit service one operation at a time | `PurchaseOrders` |
| `CreditPurchases` | the handlers: webhook, checkout, refund, charge, grant, allocation, crashes, Stripe | `PurchaseOrders`, `Ledger == INSTANCE CreditLedger` |
| `Subscriptions` | billing events, dunning, daily jobs, Stripe's subscription | - |
| `PostPublishing`, `OnboardingAudits` | approval and publication; audits' background tasks | - |
| `Deliveries` | abstract specification: a message only for a reason of its own | - |
| `ReviewRequests`, `MissedCalls`, `ReviewResponses`, `SocialReplies` | the components that write to customers | `Delivery == INSTANCE Deliveries` |
| `UsageMetering` | preview, work, recording; days, months, cooldown, allocations | `CreditAccount` |
| `Connections`, `PlanChanges`, `QuestionAnswers`, `WebsiteDrafts`, `MetricReports`, `UploadMigration`, `OnboardingProgress`, `AccountSettings` | rows that mirror something else, under overlapping requests | - |
| `Entitlements`, `AuditScores` | pure computations, as operators, and the changes of their input | - |
| `MCCreditPurchases`, `MCSubscriptions` | instances for TLC | the module they name |
| `MCContacts`, `MCBackground`, `MCMirrors` | several components in one run | `INSTANCE` of each |
| `CreditPurchasesProofs`, `SubscriptionsProofs`, `DeliveriesProofs` | theorems | the module they name (the first: its MC module), TLAPS |
| `BackgroundProofs`, `ContactsProofs` | theorems | `MCBackground`, `MCContacts`, TLAPS |
| `MirrorsProofs`, `MirrorsOutsideProofs`, `MirrorsBillingProofs` | theorems, each module over the one before it | `MCMirrors`, TLAPS |

`CreditAccount` is shared: a purchase, a refund and an overage charge change the
row by the same operators, and the lemmas proved about them serve the serial
ledger, the handlers and the metering.  In `CreditPurchases` the metering's charge appears as a row job, in
`UsageMetering` the payment's allocation as `ProcessPayment`; `Subscriptions`
keeps of the allocation only which plan it was made for.

`MCContacts`, `MCBackground` and `MCMirrors` put components that share no state
into one run: `subject` is chosen at the start, only that component's actions are
enabled (`OnlyChannel /\ Channel!Refresh(w, c)`), and each property is the
conjunction of the components' own.  The state space is the sum of theirs, and
what holds in the run holds of each.  Since only one component moves, `MCMirrors`
gives them the same variables `v1` to `v14`; what a component does not use stays
`0` (`Unused8` and its like).

Mutated forms of some definitions stand beside the originals, marked `Mutant:`.
No specification uses them; each shows, put in place of its original, that a
plausible mistake in the code violates a property.

## What each model says

**Credits.**  `row` is the balance row: `balance`, `bonus` and the counters
`received`, `used`, `purchased`.  `AddPurchase`, `Deduct` (bonus first, then
balance), `ClawBack` (the same, clamped to what is there), `Allocate`
(overwrites the balance) and `Grant` are the service's arithmetic.  A handler's
`pc` says how far it is: `insert` (checkout session exists, order row not yet),
`lookup` (event id committed, order not yet read), `stripe_refund` (the admin's
call), `load`, `commit`.  `RecordEvent` is the insert into `stripe_events`, which
`/webhooks/stripe` commits before it processes the event; `DuplicateEvent` is
the answer to a redelivery.  `Answer` sends the 200, which can be lost; an
exception in a handler is answered with a 200 as well (`HandlerError`).  The
history variable `lapsed` holds the credits an allocation overwrote, because no
transaction records them.

**Metering.**  `Preview`, `Work`, `ReadUsage` and `CommitFree`, `CommitCharge`
or `Refuse` are the steps of every caller: ask, do the work, read the totals,
commit.  A record is dated when its session read the clock and keeps that date.
`MonthStart` is the date of the last allocation or, before the first, day one of
the month at the present time of day, as `now.replace(day=1)` computes it
(`credits.py:602`, `:806`): without an allocation the month's start slides forward
over day one as the day goes on and jumps back at midnight, where the refusal says
"Resets on the 1st." (`credits.py:848`).  `Init` has accounts with
a first allocation and without any, each with any bonus granted before (`Bonuses`).
A caller that was told it may go ahead fits the limits when it records.  The one
exception is `slid`, the callers between whose question and record that midnight
came: a lone caller is then charged, or refused, for what it was told is free.

**Subscriptions and dunning.**  `row` is the `subscriptions` row with the columns
that decide access; `sub` is Stripe's side.  `Effect` says what each handler makes
of the row it loaded, `Merge` writes the columns it changed into the present row.
`invoice.payment_failed` commits twice (`Store`, `Reload`, `Store`) as
`_handle_payment_failed` does, and the allocation of a paid invoice
(`AllocateCredits`) is committed in a session of its own before the row is.
`AwareDates` says which kind of datetimes the database returns, `InOrder` whether
events arrive as created, `EndpointEvents` which ones the endpoint is configured
for.  Each event is delivered once here: redelivery is `CreditPurchases`' subject.

**Plan changes.**  `Begin` loads the row (and the add-on's), `CallStripe` changes
Stripe's subscription and emits its event, `Commit` stores `RowAfter`; `Renew` and
`Ends` are Stripe at a period's end, `Deliver` and `Handle` the event's handler.
The model follows `app/models` and gives `subscription_addons` no unique key; the
migration `2024_12_26_addons_system.py:58` has one.

**Entitlements.**  The tables as functions of the plan, `EffectivePlan`,
`HasAccess`, `AccountFeatures`, `OfferedAddons`, `DailyLimit`; the actions change
the row in the ways billing, the admin and dunning do.

**Publishing.**  `Decide` and `Commit` are the two halves of approve and reject.
`StartBatch` is the job's query, `NextOfBatch` takes a post from its list without
another look at it, `Call` is the platform (`PlatformPublishes`, `PlatformRefuses`,
`AnswerLost`), and `CommitPosted` or `CommitFailed` stores the outcome with the
row in `publish_jobs`.  For a request `CommitFailedAgain` is the router's second
store of FAILED after the alert.  `copies` counts what the platform really has.
`links` are the posts for which signed links were sent: only posts without a token
get them, and following one (`FollowLink`) checks the signature, not the status.
`Delete` removes the row and its publish jobs; who comes back to it then fails
(`RowIsGone`), and the job gives up the rest of its list.

**Components that write to customers.**  Each keeps the product's rows, what the
provider accepted (`texts`, `replies`), and the grounds for it.  In
`ReviewRequests` the job takes requests from a list it read once, commits that the
attempt began, loads the row, waits and stores; Twilio's reports
(`Callback`) and the owner change the row meanwhile.  `MissedCalls` logs a call
under Twilio's id first, reads and writes counters, sends, then finds or creates
the thread, whose unique key one of two rivals violates (`LoseThreadRace`).
`ReviewResponses` publishes in the request that approves or retries.
`SocialReplies` goes through a list message by message and reads the settings again
after each commit.  All four are shown to implement `Deliveries` under a mapping
of `reasons` and `delivered`, by TLC on an instance and by proof for any.

**Rows that mirror something.**  `Connections`: `current` is the consent last
given for a row, a row's credentials are the number of theirs; `failing` remembers
the rows whose last refresh or publication failed and that have had no consent
since, which is what their status must tell (`StatusTellsLastAnswer`), and `met` the
rows any two requests overlapped on.  A process that dies between the provider's
answer and its commit is not modelled there: the row then keeps its status.
`QuestionAnswers`:
`google` is the answer shown there.  `WebsiteDrafts`: `latest` is what the website
has of a draft; `Stored` writes only values that differ from the loaded ones.
`MetricReports`: `daily` and `reports` by day, `due` the weeks the job has been
through.  `OnboardingProgress`: `row.data` is the JSON column, written only when
it was empty before.  `AccountSettings`: `asked` is what its writers last asked
for.  `UploadMigration`: `url` of each reference, files on `disk` and in the
`cloud`, the list `cleanup` that a run leaves.

**Audits.**  `OnboardingAudits` has the two background tasks with their commits;
`facts` is the place whose details a row holds, `rivals` the one whose competitors'
averages it is scored against.  An analysis that finds no competitors, or no location to
look around, leaves those of an earlier one in place (`alone`).  `AuditScores` computes the scores,
grade, losses and plan exactly (tenths instead of floats), and lets a business
improve one thing at a time.

## Runs, bounds and results

| Run | Instance | Shows |
| --- | --- | --- |
| `purchases_one_at_a_time` | 1 handler, 2 orders of 2 credits, amounts 1 and 3, 1 refund per payment, 2 row jobs, 1 fault | the handlers implement `CreditLedger`; the ledger explains the balance, the orders their transactions |
| `purchases_overlapping` | 2 handlers, 1 order, amount 1, 2 refunds, 1 row job, 1 fault, fair | types (no column below zero), credited once if paid, statuses only move forward, a payment becomes credits unless a fault hit |
| `crash_loses_payment` | as above without refunds and row jobs | expected violation: one crash and the payment never becomes credits |
| `subscription_in_order` | 1 process, 2 subscriptions, 2 invoices, 3 attempts, 6 days, retries on days 1 and 2, grace 2, suspension 4, 1 trial, 1 cancellation, fair | who paid has access; what has ended leaves no plan, link or access; dunning ends |
| `subscription_any_order` | 2 symmetric processes, 1 subscription, 2 invoices, events in any order, 1 crash | the row stays legal, one allocation per invoice, access agrees with dunning, only overdue rows are suspended |
| `plan_never_stored` | 1 process, 1 subscription, events in order, the Stripe library as pinned | expected violation: the paid plan is not on the row when everything is handled |
| `suspension_fails` | datetimes with a time zone | expected violation: dunning never ends |
| `background` | 1 post, 2 requests and the job, 2 submissions or uses of signed links, 1 use of a button, 1 edit, deletion or sending of links, 1 fault; 1 audit of 2 places, 2 tasks, 2 selections, 1 death; fair | posts: published once, accounted for, approved first, handled in the end; audits: details and competitors of the right business, and an end |
| `contacts` | 1 review request, 2 attempts, 1 requeue; 2 calls, 1 message; 1 review, 2 drafts; 2 messages, 1 change of settings; 2 workers, 1 fault; fair | each implements `Deliveries`; counters match rows; failures reach the owner; what is accepted is seen to |
| `stop_ignored` | 1 review request | expected violation: a text after STOP |
| `mirrors` | 2 workers, 3 requests, 1 fault per component; 2 channel rows, 1 add-on, 4 ticks, a bonus of 0 or 4 credits, 2 answers, 6 days in weeks of 2, 4 steps, 3 businesses' numbers, 3 references and 2 files, 1 draft, all plans and add-ons | rows agree with what they mirror, except in the named overlaps |
| `reconnect_inactive` | 1 worker, 1 channel row, 2 consents | expected violation: a channel connected again is inactive |

Why the bounds suffice.  Two actors are enough for every race the code has: each
is between one stale read and one commit of another actor.  One order shows all
races on an order, and two orders show, in the serial run, that orders do not
disturb one another through the row.  Amounts 1 and 3 around packages of 2 reach
the clamped refund, the refused charge and the charge that takes from both
columns; two refunds of one payment reach `already_refunded`.  Limits of 2 and 3
units with jobs of 1 and 2 reach both limits from below, exactly and above, and
four ticks at two a day cross midnight twice.  In the subscription runs two
retries replace the code's three (`<<1, 3, 5>>`): the control depends on whether
an attempt is within the schedule, which both have, and six days leave room for
schedule, grace period and suspension.  One post is enough because posts meet
only in the job's list, which takes them one after the other or, at a deleted one,
leaves them to its next run; a request, a review
and a draft are alone for the same reason, and two calls or messages are there
because they share counters, a thread or a list.  Weeks of two days in six
days have a week before, a week reported and a later one.  In `mirrors` three
requests let one overlap two others; `Entitlements` enumerates the real tables,
and `AuditScores` takes numbers from both sides of the code's tiers.
`MaxFaults`, `MaxRequests` and the other `Max...` constants bound how often the
environment acts and appear in guards only.  `contacts` and `background` use no
symmetry because they check liveness.

`CHECK_DEADLOCK FALSE` in every run: the system rests when the environment's
bounds are used up, or when nobody orders, pays or posts anything.

`LedgerExplainsBalance` and `ImplementsLedger` are properties of the serial run
on purpose: overlapping handlers do lose updates of the balance row, and no lock
prevents it.  What survives overlap is stated in `purchases_overlapping`, and
proved, as is the serial half for any bounds.  In the same way most of the other properties name the overlap that
breaks them (`overlapped`, `rivals`, `parted`, `refreshed`, `raced`): each of
these history variables is set exactly by that overlap, and every other
interleaving is checked.

## Where the code and its documents disagree

* `crash_loses_payment`: the endpoint promises that side effects happen exactly
  once; the event is recorded as seen before it is processed, so after a crash
  each redelivery is answered as a duplicate and the payment is lost.
* `suspension_fails`: on PostgreSQL the suspension subtracts a date with a time
  zone from one without.  The job dies on every run and nobody is suspended.
* `stop_ignored`: "You have been unsubscribed." is answered, and the job still
  sends what was pending or waits for its retry.
* `reconnect_inactive`: the owner is told to reconnect the channel and retry; the
  callback leaves `is_active` FALSE, so publishing still finds no channel.
* `plan_never_stored`: the handler of `customer.subscription.created` sets the plan,
  then reads `stripe_sub.items.data` (`services/billing.py:330`).  With the pinned
  stripe-python 7.10.0 `items` is the dictionary's method: the handler raises before
  its commit, everything is rolled back and the event answered with a 200, and nothing
  else stores the plan the customer pays for.

`PROJECT.json` quotes the lines.

## Counterexamples outside the runs

Each is found by TLC when the constant or exception named is changed, or seen in
the model as stated.  None is a run: but for the onboarding checklist, none contradicts
a promise the repository makes.

Money and access:

* `purchases_one_at_a_time` with `Workers = {w1, w2}`: two handlers lose an
  update of the balance row (`LedgerExplainsBalance`), and the admin's refund and
  the event it causes take the credits twice (`OrdersExplainTransactions`);
* `subscription_in_order` with `InOrder = FALSE`: a late failure puts a customer who
  has paid back into dunning (`PaidUpHasAccess`);
* `plan_never_stored` with `ItemsByAttribute = TRUE`, a Stripe library that answers:
  `PaidPlanTakesEffect` holds when events come in order.  With `InOrder = FALSE` the
  first invoice allocates the free plan, and without
  `customer.subscription.created` in `EndpointEvents`, as the list in
  `docs/STRIPE_SETUP.md:92` has it, the paid plan is never stored;
* `subscription_in_order` with both invoice events in `EndpointEvents`: each
  allocates (`OneAllocationPerInvoice`);
* overlapping processes in `Subscriptions`: the suspension is stored over a payment,
  and a failure stored over a recovery leaves dunning without a date;
* a trial started in dunning gives access and leaves the dunning state
  (`services/billing.py:955`);
* overlapping callers exceed the limits and lose one another's units
  (`UsageMetering` without `overlapped`), and without `slid` a lone caller with a bonus
  and no allocation is charged for what its preview took to be within the plan;
* a crash between Stripe's answer and the commit leaves the plan different for
  good; a plan change overlapping the subscription's deletion, and two requests
  for one add-on, part the row and what is billed (`PlanChanges` without
  `unstored`, `overlapped`).  A removal at the period's end leaves the item billed
  (`routers/billing.py:1488`), a pending add-on attached again keeps its removal,
  `change_subscription` overwrites `active_addons`, and a downgrade is immediate
  though the docstring says the next billing cycle (`services/billing.py:1093`);
* an admin's limits that the plan no longer allows make every preview fail, and the
  request that would clear them too (`routers/admin.py:954`);
* moves that are upgrades by price (`services/billing.py:1099`) lose features: from
  premium to calls_growth, say; `get_upgrade_options` (`feature_access.py:112`)
  lists starter to agency as upgrades of competitive_market, which cost less and
  have fewer features.  `UpgradesOnlyAdd` is stated within each family of plans.

Outside world:

* a queued post whose schedule is cleared is never due (`services/publisher.py:79`);
* a rejection that overlaps the job does not stop the publication
  (`JobPublishesApproved` without `overlapped`); a lost answer publishes twice;
* signed links sent for a published post approve it, and the job publishes it again
  (`PublishedOnce` without `reopened`, `services/magic_link.py:282`);
* a second auto-respond request answers again what is in the log
  (`routers/social.py:590`);
* an approved review response stays approved after a crash; two rival requests
  reply twice;
* `NextOffsetFinishes`: the runbook (`docs/UPLOAD_MIGRATION_APPLY_RUNBOOK_KR_2026-04-26.md:94`)
  and `next_apply_command` (`routers/admin.py:1462`) continue at `next_offset`;
  migrated references are gone from the next scan, so as many others are skipped
  (`services/upload_migration.py:532`).  Batches from offset 0 do finish, which is
  what `LastBatchIsLast` says.  `_apply_post` overwrites a URL set since the scan;
* an audit whose task dies (a timeout of httpx, no competitor with a rating, a
  restart) stays SEARCHING or ANALYZING; an analysis without competitors keeps the
  averages of an earlier one;
* overlapping writers of the settings column lose one another's keys;
* the onboarding checklist cannot be completed: its JSON column is changed in place
  and assigned to itself (`services/onboarding_service.py:67`), so only the first
  step's mark is stored, while the module's first comment (`:15`) counts on four steps a
  user can complete;
* in each of these overlaps, in the refresh that overlaps a reconnection, and in the
  call whose text loses the insert of its thread, nothing in the code keeps the two
  apart, so the claims are false there and no run states them;
* two overlapping website publications can leave "failed" on a published draft.

Seen while translating, and in the models as they are:

* audit scores: nothing writes `latest_post_date` and `has_description`, so the
  activity score is always 50, the total at most 87 and grade A+ unreachable;
* invitations of one address pile up; a change of role reaches the first, a removal
  all;
* question ids are full resource names, so the answer's URL is malformed; answers
  deleted at Google stay POSTED after a sync;
* `OAuthToken` rows are never created, so review publishing is refused in a
  deployment; the Instagram callback stores `instagram_account_id` where the
  publisher reads `ig_user_id`;
* `stripe_sub.items.data` raises with stripe-python 7.10.0 wherever it stands
  (`services/billing.py:330`, `1031`, `1118`, `1128`; `routers/billing.py:1291`, `1388`).
  `ItemsByAttribute` says whether the library answers.  It is `FALSE`, as pinned, in all
  subscription runs.  `mirrors` has it `TRUE`: with `FALSE` a change of plan and a new
  add-on fail before they call Stripe (`Refuses`), no add-on is ever attached, and neither
  could part row and subscription.  The theorems hold for both values.
  The deprecated webhook route, which is not modelled, commits the half-set row with the
  event's failure (`services/billing.py:235`);
* an add-on without a configured price is attached without an item at Stripe
  (`routers/billing.py:1394`), which is left out of `PlanChanges`;
* revision notes written into `generation_params` that has content are not stored,
  because the JSON column is changed in place (`services/approval.py:365`);
* fetching metrics from Google is not wired: carried numbers are summed as if they
  were measured; when a later week's report exists the job tries again and tells
  the owner that a report that exists could not be generated;
* website publishing sends the request's content, not the approved draft's, and
  without a draft's id needs no approval.

## Fairness

* `CreditPurchases`: weak fairness of each handler's steps (the server runs a
  request it has begun; a crash ends it) and of each event's delivery (Stripe
  retries until it has a 200).  Nothing makes a customer pay or an admin refund.
* `Subscriptions`: weak fairness of the clock, of a begun handler and of the
  daily checks, which the scheduler starts every day; strong fairness of
  delivery, because a delivery needs a process that the jobs keep busy now and
  then.  The retry job is not assumed to succeed and nobody has to pay.
* `PostPublishing`: weak fairness of the job, of a begun request and of time.
  The platform may refuse for ever: the property accepts FAILED as an answer.
* `ReviewRequests`: weak fairness of the delivery job, which the scheduler starts
  every five minutes, and of a retry's time.
* `ReviewResponses`, `OnboardingAudits`: weak fairness of a begun request or task,
  which may die.

The other models are checked for safety only: what their requests do has no later
step that anyone waits for.  The liveness runs use no symmetry.

## Proofs

All theorems hold for every value of the constants that satisfies the modules'
named assumptions: packages and amounts are positive, `Max...` bounds and limits
are naturals, a "no such" value is none of the real ones, the scanned references
are finitely many.  `TLC` evaluates the same assumptions on every run.  Where a
theorem has a hypothesis besides, it is named below.

Every invariant, action property and refinement of the passing runs is proved.
A property is seldom inductive as it stands; the strengthening follows the code's
own reason.  It says what an actor that is under way has read, why that is still
so when it commits, and who could have changed it.  Each step case is one action,
and a theorem ends with the temporal step from `Init`, the step and the
implication.  In the composed modules a step is one component's and leaves the
others alone, so an invariant is proved of its component and carried over.

**`CreditPurchasesProofs`.**  Each operation maps a legal row to a legal row and
moves the total as it should: `Deduct` takes exactly the amount if `CanAfford`,
`ClawBack` takes exactly `Recoverable`, `Allocate` replaces the balance.

* `PurchasesCorrect`, `TypesCorrect`, `OrdersOnlyMoveForward`, for any number of
  handlers, orders, redeliveries and faults.  `CreditedOnceIfPaid` is not
  inductive: a handler about to commit a purchase may have read the order long
  ago.  `PurchaseInv` adds what its decision rests on.  `HandlersAgree`: a handler
  of a completed event past its lookup still has a PENDING order before it, a
  refund a COMPLETED or REFUNDED one.  That nobody else moves the order meanwhile
  needs `HandlersExclude` (no two handlers work on the same event, because the
  unique index admits an id once) and `EventsAreTrue` (Stripe reports a session as
  paid or as closed, never both and once each).  The stale balance row never
  matters, since `CreditedOnceIfPaid` speaks of orders, and `TypeOK` survives
  because a mixture of columns of legal rows is legal.
* `HandlersImplementLedger`, under `OneWorker`: with one handler at a time what
  it read is still so at its commit (`ReadsAreFresh`), and each commit is one
  step of `CreditLedger`.  `LedgerCorrect` proves of the ledger that the
  transactions explain the balance and the orders their transactions;
  `TransactionsExplainTheRow` brings both back to the handlers.  The hypothesis is
  what the run has as well: with two handlers the property is false.

**`SubscriptionsProofs`.**  `Held` has the types, who is at the row (`Alone`),
that access and dunning columns are in step (`InStep`), what a suspension under way
has read (`Overdue`) and that every death is counted.

* `TypesCorrect`, `AccessFollowsDunning`, `OverdueSuspended`: in any order of
  events, without a hypothesis.
* `InvoicesAllocatedOnce`, under `OneInvoiceEvent` (the endpoint has at most one of
  the two events that report a paid invoice): an invoice is claimed by one event in
  the pool, one process or one allocation (`OneClaim`).
* `PayingHasAccess`, under `InOrder` and `SomeInvoiceEvent`, and
  `EndedLeavesNothing`, under `InOrder` and with the checkout's and the deleted event
  configured: what is still in the pool or in a process will give the row its
  access (`WillHaveAccess`), or take its plan and link (`WillEnd`).  Both speak of the time
  until processes overlap or one dies.  `subscription_in_order` has these constants,
  one process and no crash, so it checks the properties without the exception; the
  section on counterexamples shows what happens without each hypothesis.

**`BackgroundProofs`.**  `TypesCorrect`, `PostsPublishedOnce`,
`AllPublicationsRecorded`, `OnlyApprovedPublished` from `PostInv`: a place of an
actor fits its task, an actor that no other met has read the row as it is
(`OneAtATime`), what the job's list names was approved (`ListIsApproved`), what is
being published has no copy yet, and copies are the recorded ones, those about to
be and those lost (`Recorded`, a statement on cardinalities of finite sets).
`AuditResultsFit` from `AuditInv`: one task per audit, a task works for the place the
row names unless it was raced, and the competitors a completed row counts are that
place's unless the last analysis found none.

**`DeliveriesProofs`, `ContactsProofs`.**  `DeliveriesCorrect`, that no item is
delivered more often than there were reasons to, and `NothingIsTakenBack`.
`OnlyReasonedMessages`, that `ReviewRequests`, `MissedCalls`, `ReviewResponses` and
`SocialReplies` implement `Deliveries`: initial states map to initial states and
each action to a reason, a delivery or a stutter, for any items, workers and
faults.  `CountersAgree`, `OwnerHearsOfFailures`, `PublishedIsLive` and
`SwitchStopsRuns` come from the same invariants: `RequestInv` counts requests marked
as sent and remembers why each attempt began, `CallInv` has one handler to a call,
says what each step of it has left behind and relates the counters,
`ReplyInv` says what a request that no other met knows of Google, `SocialInv`
counts the answers that are logged, about to be or lost, and what a run may
still send once the switch is off.

**`MirrorsProofs`.**  The lemmas on the composition, on least elements and on sums,
and five components.

* `ChecklistIsEarned`: `ProgressInv` says of the row, and of the row each request
  has read, that a mark has its answer and no more are counted than were given.
* `ColumnKeepsEveryWriter`: without overlap there is one request, the column it
  read is the present one, and the column is what was asked for.
* `NoFileIsLost`: `UploadInv` says that a file whose new URL is about to be stored
  is in the bucket, unless its owner deleted it, that only posts set since name a
  file of the cleanup list, and that a batch from the start which announces no
  next one has taken every local reference.
* `BetterBusinessesScoreBetter`: every score, the grade, the losses and the plan
  are monotone.  The arithmetic is not linear; it is split into products and
  quotients, which the lemmas bound one at a time.
* `MovingUpOnlyAdds`: over the code's own tables of plans, features and limits.

**`MirrorsOutsideProofs`.**  `EveryWeekIsReported` (`MetricInv`: each week the job
has been through has its report, the report's numbers are the sums of the week's
snapshots unless one came later, and a warning is sent once),
`ChannelRowsAreCurrent` (`ChannelInv`: what a worker read is current unless its row
was refreshed or connected meanwhile; `AnswerInv`: a worker nobody met on its row has
read it as it is, and what it is about to store is how the provider answered it), `PostedAndPublishedAreLive` (`QuestionInv`,
`WebsiteInv`: a request no other met has read the row as it is, and what it is about
to store is what the platform has).

**`MirrorsBillingProofs`.**  `RowAndSubscriptionAgree` (`SubInv`: while no two
requests overlap, each difference between row and subscription is one that a
request under way is about to store or an event in the pool is about to tell, for
the end, the plan and the items apiece), `WorkIsCounted` and `LimitsHold`
(`UsageInv`: the entries and everything read of them are covered by work that was
done, without overlap a read is the total itself, and what a lone caller was told
still fits unless the month has begun earlier since), and `TypesCorrect`, the
types and bounds of all eleven components.

Only model-checked: the five liveness properties
(`PaymentsAreCreditedUnlessFaults`, `DunningEnds`, `ApprovedIsHandled`,
`AcceptedIsSeenTo`, `AuditsEnd`), since liveness under fairness is out of the
prover's reach, and the five properties that the violation runs refute.
Induction theorems that take an operator as a parameter cannot be used by the
installed provers; the sums are folds over finite sets, and what is needed of them
is proved by an induction on the cardinality written out in `MirrorsProofs`.

## What is not modelled

Text, prices, currencies, mails and notifications, and the rows that only report.
In the modelled components: disputes (an insert that fails when the payment is
unknown, `services/billing.py:609`), invoices' and payments' own rows, the second,
deprecated webhook route, the admin's batch that hands out monthly credits and
bulk grants, month ends and unlimited plans (`UsageMetering`), the text of posts and
revision notes (`PostPublishing`), replies the owner writes in an SMS thread,
bulk retries and bulk drafts, which are loops of operations the models have.

Whole components:

* the reliable publish queue: no process runs it and its adapters always refuse;
* the OAuth service and its token job: the rows they work on are never created;
* autopilot: nothing calls it;
* rate limiters and A/B tests: counters in one process's memory on which nothing
  else depends;
* authentication: stateless tokens and password hashing;
* content generation, analytics, SEO, competitors, ROI: calls to outside services
  and sums over rows, without interacting steps;
* storage clients, notifications, the frontend and the migrations: input and
  output, or declarations the models read.

## Plan

Done: every module planned, its runs, and a theorem for every property of a passing
run that is not liveness.  What a continuation could add, in this order:

1. disputes, bulk grants and the batch of monthly credits in `CreditPurchases`;
2. month ends and unlimited plans in `UsageMetering`;
3. `Subscriptions` and `PlanChanges` as one module: both write the row and share
   Stripe's subscription, and each has the other's requests left out;
4. the reliable publish queue and the OAuth token job, once something creates the
   rows they work on.
