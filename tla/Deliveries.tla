---- MODULE Deliveries ----
(***************************************************************************)
(* What the jobs and handlers that text or write to a customer promise: a  *)
(* message goes out only for a reason of its own, the first being that the *)
(* item exists, the others the recorded grounds for trying once more.      *)
(* ReviewRequests, MissedCalls, ReviewResponses and SocialReplies implement *)
(* this.                                                                   *)
(***************************************************************************)
EXTENDS Naturals

CONSTANT Items

VARIABLES
    reasons,    \* reasons to deliver each item so far
    delivered   \* messages the provider accepted for it

vars == <<reasons, delivered>>

Init ==
    /\ reasons = [i \in Items |-> 0]
    /\ delivered = [i \in Items |-> 0]

\* Something calls for a message, the first or one more, for each of the items.
Ask(items) ==
    /\ reasons' = [i \in Items |-> IF i \in items THEN reasons[i] + 1 ELSE reasons[i]]
    /\ UNCHANGED delivered

Deliver(i) ==
    /\ delivered[i] < reasons[i]
    /\ delivered' = [delivered EXCEPT ![i] = @ + 1]
    /\ UNCHANGED reasons

\* The message goes out and the sender does not learn of it.
DeliverUnnoticed(i) ==
    /\ delivered[i] < reasons[i]
    /\ delivered' = [delivered EXCEPT ![i] = @ + 1]
    /\ reasons' = [reasons EXCEPT ![i] = @ + 1]

Next ==
    \/ \E items \in SUBSET Items : Ask(items)
    \/ \E i \in Items : Deliver(i) \/ DeliverUnnoticed(i)

Spec == Init /\ [][Next]_vars

-----------------------------------------------------------------------------
TypeOK ==
    /\ reasons \in [Items -> Nat]
    /\ delivered \in [Items -> Nat]

\* No item is delivered more often than there were reasons to.
NeverMoreThanAsked == \A i \in Items : delivered[i] <= reasons[i]
====
