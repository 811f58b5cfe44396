---- MODULE DeliveriesProofs ----
(***************************************************************************)
(* Deliveries keeps its promise for any set of items: what is delivered    *)
(* never outruns the reasons there were.  That the four senders implement  *)
(* Deliveries (ContactsProofs) makes the promise theirs.                   *)
(***************************************************************************)
EXTENDS Deliveries, TLAPS

\* Inductive as it stands: only an asked-for message goes out, reasons never go.
IInv == TypeOK /\ NeverMoreThanAsked

\* No message and no reason at the start.
LEMMA InitIInv == Init => IInv
BY DEF Init, IInv, TypeOK, NeverMoreThanAsked

\* A reason comes: the reasons of some items grow by one, the deliveries stay.
LEMMA AskKeeps == ASSUME NEW items \in SUBSET Items, IInv, Ask(items)
                  PROVE  IInv'
<1>1. \A i \in Items : reasons'[i] \in Nat /\ reasons[i] <= reasons'[i]
      BY DEF Ask, IInv, TypeOK
<1>2. TypeOK'
      BY <1>1 DEF Ask, IInv, TypeOK
<1>3. NeverMoreThanAsked'
      BY <1>1 DEF Ask, IInv, TypeOK, NeverMoreThanAsked
<1>4. QED BY <1>2, <1>3 DEF IInv

\* A message goes out, noticed or not: only while there was a reason for it.
LEMMA DeliverKeeps == ASSUME NEW i \in Items, IInv, Deliver(i) \/ DeliverUnnoticed(i)
                      PROVE  IInv'
<1>1. CASE Deliver(i)
      BY <1>1 DEF Deliver, IInv, TypeOK, NeverMoreThanAsked
<1>2. CASE DeliverUnnoticed(i)
      BY <1>2 DEF DeliverUnnoticed, IInv, TypeOK, NeverMoreThanAsked
<1>3. QED BY <1>1, <1>2

\* The promise of every sender: no item is delivered more often than there were
\* reasons to.
THEOREM DeliveriesCorrect == Spec => [](TypeOK /\ NeverMoreThanAsked)
<1>1. IInv /\ [Next]_vars => IInv'
  <2> SUFFICES ASSUME IInv, [Next]_vars PROVE IInv'
      OBVIOUS
  <2>1. ASSUME NEW items \in SUBSET Items, Ask(items) PROVE IInv'
        BY <2>1, AskKeeps
  <2>2. ASSUME NEW i \in Items, Deliver(i) \/ DeliverUnnoticed(i) PROVE IInv'
        BY <2>2, DeliverKeeps
  <2>3. CASE UNCHANGED vars
        BY <2>3 DEF vars, IInv, TypeOK, NeverMoreThanAsked
  <2>4. QED BY <2>1, <2>2, <2>3 DEF Next
<1>2. QED BY InitIInv, <1>1, PTL DEF Spec, IInv

\* A step takes no message and no reason back.
THEOREM NothingIsTakenBack ==
    Spec => [][\A i \in Items : reasons[i] <= reasons'[i] /\ delivered[i] <= delivered'[i]]_vars
<1>1. TypeOK /\ [Next]_vars =>
          [\A i \in Items : reasons[i] <= reasons'[i] /\ delivered[i] <= delivered'[i]]_vars
  <2> SUFFICES ASSUME TypeOK, Next
               PROVE  \A i \in Items : reasons[i] <= reasons'[i] /\ delivered[i] <= delivered'[i]
      OBVIOUS
  <2>1. ASSUME NEW items \in SUBSET Items, Ask(items)
        PROVE  \A i \in Items : reasons[i] <= reasons'[i] /\ delivered[i] <= delivered'[i]
        BY <2>1 DEF Ask, TypeOK
  <2>2. ASSUME NEW j \in Items, Deliver(j) \/ DeliverUnnoticed(j)
        PROVE  \A i \in Items : reasons[i] <= reasons'[i] /\ delivered[i] <= delivered'[i]
        BY <2>2 DEF Deliver, DeliverUnnoticed, TypeOK
  <2>3. QED BY <2>1, <2>2 DEF Next
<1>2. QED BY DeliveriesCorrect, <1>1, PTL DEF Spec
====
