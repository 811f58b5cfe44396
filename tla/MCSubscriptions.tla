---- MODULE MCSubscriptions ----
(* Small instances of Subscriptions for TLC. *)
EXTENDS Subscriptions, TLC

\* Two retries, then the grace period; the code has <<1, 3, 5>>.
TwoRetries == <<1, 2>>
ProcessSymmetry == Permutations(Processes)

\* The events billing.py needs; docs/STRIPE_SETUP.md ("Configure the webhook for at
\* least:") leaves out customer.subscription.created.
NeededEvents ==
    {"checkout.session.completed", "customer.subscription.created",
     "customer.subscription.updated", "customer.subscription.deleted",
     "invoice.payment_failed", "invoice.payment_succeeded"}
====
