---- MODULE MirrorsBillingProofs ----
(***************************************************************************)
(* Proofs about the components of MCMirrors that a customer pays for: the  *)
(* plan and its add-ons against the Stripe subscription, and what is used  *)
(* against the limits.                                                     *)
(***************************************************************************)
EXTENDS MirrorsOutsideProofs, SequenceTheorems

-----------------------------------------------------------------------------
(* Plan changes. *)

\* Stripe's events, and what a worker serves.
SubEvents == [kind : {"updated", "deleted"}, status : {"active", "canceled"}, ending : BOOLEAN]
SubKinds == {"cancel", "cancel_now", "resume", "change", "attach", "reattach", "detach",
             "detach_now"}
SubRequests == [pc : {"call", "commit"}, kind : SubKinds, seen : Plan!Row, plan : Plan!Plans,
                addons : SUBSET BilledAddons, at : Nat]
SubHandlers == [pc : {"handle"}, kind : {"updated", "deleted"}, seen : Plan!Row,
                plan : Plan!Plans, addons : SUBSET BilledAddons, at : SubEvents]
AddonRows == [addon : BilledAddons, status : {"active", "pending_cancel", "canceled"}, item : Nat]

\* The types; the items' and rows' indices are any numbers.
SubTyped ==
    /\ v1 \in Plan!Row
    /\ v2 \in Seq(AddonRows)
    /\ v3 \in [status : {"active", "canceled"}, plan : Plan!Plans, ending : BOOLEAN,
               items : Seq(BilledAddons), live : SUBSET Nat]
    /\ v4 \in Seq(SubEvents)
    /\ v5 \in [Workers -> {Plan!Idle} \cup SubRequests \cup SubHandlers]
    /\ v6 \in BOOLEAN /\ v7 \in BOOLEAN /\ v8 \in BOOLEAN

\* A worker serves something, handles an event, is to commit a request of these kinds.
Serves(w) == v5[w].pc # "idle"
Handles(w) == v5[w].pc = "handle"
Commits(w, kinds) == v5[w].pc = "commit" /\ v5[w].kind \in kinds
Removals == {"reattach", "detach", "detach_now"}
\* The add-on rows that count, and the items they say are billed.
LiveRows == {i \in DOMAIN v2 : v2[i].status \in {"active", "pending_cancel"}}
ItemsOf(R) == {v2[i].item : i \in R}

\* An add-on's row names its item, and a request the row or the item it works on.
SubItems ==
    /\ v3.live \subseteq DOMAIN v3.items
    /\ \A i \in DOMAIN v2 : /\ v2[i].item \in DOMAIN v3.items
                            /\ v2[i].addon = v3.items[v2[i].item]
    /\ \A w \in Workers :
          /\ Commits(w, {"attach"}) =>
                v5[w].at \in DOMAIN v3.items /\ v3.items[v5[w].at] \in v5[w].addons
          /\ ~Handles(w) /\ Serves(w) /\ v5[w].kind = "attach" =>
                \E a \in BilledAddons : v5[w].addons = {a}
          /\ ~Handles(w) /\ Serves(w) /\ v5[w].kind \in Removals => v5[w].at \in DOMAIN v2
          /\ v5[w].pc = "call" => v5[w].kind # "reattach"

\* What does not overlap, and what a worker may have seen.
SubApart ==
    /\ ~v6 => \A u, w \in Workers :
                  u # w /\ Serves(u) /\ Serves(w) =>
                      Handles(u) # Handles(w) /\ v5[u].kind # "deleted"
    /\ \A w \in Workers : Serves(w) /\ v1.linked => v5[w].seen.linked

\* The last event on its way, or being handled, tells what was cancelled.
EndingTold ==
    ~v6 /\ ~v8 /\ v1.linked =>
        /\ v4 # <<>> => v4[Len(v4)].ending = v3.ending
        /\ \A w \in Workers : Handles(w) /\ v4 = <<>> =>
              /\ v5[w].at.ending = v3.ending
              /\ v1.ending = v5[w].seen.ending \/ v1.ending = v3.ending
        /\ v4 = <<>> /\ (\A w \in Workers : ~Handles(w)) => v1.ending = v3.ending
        /\ \A w \in Workers : /\ Commits(w, {"cancel"}) => v3.ending
                              /\ Commits(w, {"resume"}) => ~v3.ending

\* The plan is Stripe's, or about to be; a canceled subscription's end is on its way,
\* being handled, or known.
ActivePlan ==
    /\ v1.linked
    /\ \A i \in DOMAIN v4 : v4[i].kind # "deleted"
    /\ \A w \in Workers : Serves(w) => v5[w].kind # "deleted"
    /\ \A w \in Workers : Serves(w) /\ v5[w].kind = "change" => v5[w].seen.plan = v1.plan
    /\ \A w \in Workers : Commits(w, {"change"}) => v3.plan = v5[w].plan
    /\ (\A w \in Workers : ~Commits(w, {"change"})) => v1.plan = v3.plan
EndComes ==
    /\ v4 # <<>> /\ v1.linked
    /\ \A i \in DOMAIN v4 : v4[i].kind = "deleted" <=> i = Len(v4)
    /\ \A w \in Workers : Serves(w) => v5[w].kind # "deleted"
EndHandled ==
    /\ v4 = <<>>
    /\ \E w \in Workers : /\ Handles(w) /\ v5[w].kind = "deleted"
                          /\ v5[w].seen.linked /\ v5[w].seen.plan = v1.plan
EndKnown ==
    /\ v4 = <<>> /\ v1.plan = 0 /\ ~v1.linked
    /\ \A w \in Workers : Serves(w) => ~Handles(w) /\ v5[w].kind # "change"
PlanTold ==
    ~v6 /\ ~v7 /\ ~v8 =>
        IF v3.status = "active" THEN ActivePlan ELSE EndComes \/ EndHandled \/ EndKnown

\* The add-ons' live rows are the live items, but for those of a request that has
\* called Stripe.
ItemsTold ==
    ~v6 /\ ~v7 /\ v3.status = "active" =>
        /\ \A i, j \in LiveRows : v2[i].addon = v2[j].addon => i = j
        /\ \A w \in Workers : Serves(w) /\ ~Handles(w) =>
              /\ v5[w].kind = "attach" => \A i \in LiveRows : v2[i].addon \notin v5[w].addons
              /\ v5[w].kind \in Removals => v5[w].at \in LiveRows
        /\ \A w \in Workers : Commits(w, {"attach"}) =>
              v5[w].at \in v3.live /\ ItemsOf(LiveRows) = v3.live \ {v5[w].at}
        /\ \A w \in Workers : Commits(w, {"detach_now"}) =>
              ItemsOf(LiveRows \ {v5[w].at}) = v3.live
        /\ (\A w \in Workers : ~Commits(w, {"attach", "detach_now"})) => ItemsOf(LiveRows) = v3.live

\* The inductive invariant of plan changes.
SubInv ==
    /\ SubTyped
    /\ SubItems
    /\ SubApart
    /\ EndingTold
    /\ PlanTold
    /\ ItemsTold

\* The plans.
LEMMA SubPlans == Plan!Plans = {0, 1, 2}
  BY DEF Plan!Plans

\* The columns of a row.
LEMMA RowColumnsAre ==
    ASSUME NEW r \in Plan!Row
    PROVE  /\ r.plan \in Plan!Plans /\ r.linked \in BOOLEAN /\ r.status \in {"active", "canceled"}
           /\ r.ending \in BOOLEAN /\ r.flags \in SUBSET BilledAddons
           /\ r = [plan |-> r.plan, linked |-> r.linked, status |-> r.status,
                   ending |-> r.ending, flags |-> r.flags]
  BY DEF Plan!Row

\* A worker that serves something.
LEMMA SubServes ==
    ASSUME SubTyped, NEW w \in Workers, Serves(w)
    PROVE  /\ v5[w].seen \in Plan!Row
           /\ ~Handles(w) => v5[w] \in SubRequests
           /\ Handles(w) => v5[w] \in SubHandlers
<1>1. v5[w] \in {Plan!Idle} \cup SubRequests \cup SubHandlers
  BY DEF SubTyped
<1>2. v5[w] # Plan!Idle
  BY DEF Plan!Idle, Serves
<1>. QED
  BY <1>1, <1>2 DEF SubRequests, SubHandlers, Handles

\* What a request leaves in the row, as it had loaded it.
LEMMA RowAfterIs ==
    ASSUME NEW t \in SubRequests
    PROVE  /\ Plan!RowAfter(t) \in Plan!Row
           /\ Plan!RowAfter(t).linked = t.seen.linked
           /\ Plan!RowAfter(t).plan = (IF t.kind = "change" THEN t.plan ELSE t.seen.plan)
           /\ Plan!RowAfter(t).ending = (IF t.kind = "cancel" THEN TRUE
                                        ELSE IF t.kind = "resume" THEN FALSE ELSE t.seen.ending)
<1> DEFINE r == Plan!RowAfter(t)
<1>1. /\ t.seen \in Plan!Row /\ t.plan \in Plan!Plans /\ t.addons \in SUBSET BilledAddons
      /\ t.kind \in SubKinds
  BY DEF SubRequests
<1>2. \/ t.kind = "cancel" /\ r = [t.seen EXCEPT !.ending = TRUE]
      \/ t.kind = "cancel_now" /\ r = [t.seen EXCEPT !.status = "canceled"]
      \/ t.kind = "resume" /\ r = [t.seen EXCEPT !.ending = FALSE]
      \/ t.kind = "change" /\ r = [t.seen EXCEPT !.plan = t.plan, !.flags = t.addons]
      \/ t.kind = "attach" /\ r = [t.seen EXCEPT !.flags = @ \cup t.addons]
      \/ t.kind = "reattach" /\ r = t.seen
      \/ t.kind \in {"detach", "detach_now"} /\ r = [t.seen EXCEPT !.flags = @ \ t.addons]
  <2>1. CASE t.kind = "cancel"
    BY <2>1, Zenon DEF Plan!RowAfter
  <2>2. CASE t.kind = "cancel_now"
    BY <2>2, Zenon DEF Plan!RowAfter
  <2>3. CASE t.kind = "resume"
    BY <2>3, Zenon DEF Plan!RowAfter
  <2>4. CASE t.kind = "change"
    BY <2>4, Zenon DEF Plan!RowAfter
  <2>5. CASE t.kind = "attach"
    BY <2>5, Zenon DEF Plan!RowAfter
  <2>6. CASE t.kind = "reattach"
    BY <2>6, Zenon DEF Plan!RowAfter
  <2>7. CASE t.kind = "detach"
    BY <2>7, Zenon DEF Plan!RowAfter
  <2>8. CASE t.kind = "detach_now"
    BY <2>8, Zenon DEF Plan!RowAfter
  <2>. QED
    BY <1>1, <2>1, <2>2, <2>3, <2>4, <2>5, <2>6, <2>7, <2>8 DEF SubKinds
<1>. HIDE DEF r
<1>. SUFFICES /\ r \in Plan!Row
              /\ r.linked = t.seen.linked
              /\ r.plan = (IF t.kind = "change" THEN t.plan ELSE t.seen.plan)
              /\ r.ending = (IF t.kind = "cancel" THEN TRUE
                            ELSE IF t.kind = "resume" THEN FALSE ELSE t.seen.ending)
  BY DEF r
<1>3. CASE t.kind = "cancel"
  BY <1>1, <1>2, <1>3 DEF Plan!Row
<1>4. CASE t.kind = "cancel_now"
  BY <1>1, <1>2, <1>4 DEF Plan!Row
<1>5. CASE t.kind = "resume"
  BY <1>1, <1>2, <1>5 DEF Plan!Row
<1>6. CASE t.kind = "change"
  BY <1>1, <1>2, <1>6 DEF Plan!Row
<1>7. CASE t.kind = "attach"
  BY <1>1, <1>2, <1>7 DEF Plan!Row
<1>8. CASE t.kind = "reattach"
  BY <1>1, <1>2, <1>8
<1>9. CASE t.kind \in {"detach", "detach_now"}
  BY <1>1, <1>2, <1>9 DEF Plan!Row
<1>. QED
  BY <1>1, <1>3, <1>4, <1>5, <1>6, <1>7, <1>8, <1>9 DEF SubKinds

\* A row written: the columns that differ from what was seen.
LEMMA RowStored ==
    ASSUME NEW w, v1 \in Plan!Row, v5[w].seen \in Plan!Row, NEW new \in Plan!Row,
           Plan!Store(w, new)
    PROVE  /\ v1' \in Plan!Row
           /\ v1'.linked = IF new.linked = v5[w].seen.linked THEN v1.linked ELSE new.linked
           /\ v1'.plan = IF new.plan = v5[w].seen.plan THEN v1.plan ELSE new.plan
           /\ v1'.ending = IF new.ending = v5[w].seen.ending THEN v1.ending ELSE new.ending
<1> DEFINE s == v5[w].seen
<1>1. v1' = [c \in DOMAIN v1 |-> IF new[c] = s[c] THEN v1[c] ELSE new[c]]
  BY DEF Plan!Store
<1>2. s \in Plan!Row
  OBVIOUS
<1>. HIDE DEF s
<1>3. DOMAIN v1 = {"plan", "linked", "status", "ending", "flags"}
  BY SMT DEF Plan!Row
<1>4. /\ v1'["plan"] = IF new["plan"] = s["plan"] THEN v1["plan"] ELSE new["plan"]
      /\ v1'["linked"] = IF new["linked"] = s["linked"] THEN v1["linked"] ELSE new["linked"]
      /\ v1'["status"] = IF new["status"] = s["status"] THEN v1["status"] ELSE new["status"]
      /\ v1'["ending"] = IF new["ending"] = s["ending"] THEN v1["ending"] ELSE new["ending"]
      /\ v1'["flags"] = IF new["flags"] = s["flags"] THEN v1["flags"] ELSE new["flags"]
  BY <1>1, <1>3, Zenon
<1>5. v1' = [plan |-> v1'["plan"], linked |-> v1'["linked"], status |-> v1'["status"],
             ending |-> v1'["ending"], flags |-> v1'["flags"]]
  BY <1>1, <1>3, Zenon
<1>6. /\ v1["plan"] \in Plan!Plans /\ v1["linked"] \in BOOLEAN
      /\ v1["status"] \in {"active", "canceled"} /\ v1["ending"] \in BOOLEAN
      /\ v1["flags"] \in SUBSET BilledAddons
      /\ new["plan"] \in Plan!Plans /\ new["linked"] \in BOOLEAN
      /\ new["status"] \in {"active", "canceled"} /\ new["ending"] \in BOOLEAN
      /\ new["flags"] \in SUBSET BilledAddons
  BY DEF Plan!Row
<1>7. /\ v1'["plan"] \in Plan!Plans /\ v1'["linked"] \in BOOLEAN
      /\ v1'["status"] \in {"active", "canceled"} /\ v1'["ending"] \in BOOLEAN
      /\ v1'["flags"] \in SUBSET BilledAddons
  BY <1>4, <1>6, Zenon
<1>8. v1' \in Plan!Row
  BY <1>5, <1>7, Zenon DEF Plan!Row
<1>. QED
  BY <1>4, <1>8, Zenon DEF s

\* The call changes Stripe's subscription as asked.
SubChange(t, s) ==
    /\ s.status \in {"active", "canceled"} /\ s.plan \in Plan!Plans /\ s.ending \in BOOLEAN
    /\ s.items \in Seq(BilledAddons) /\ s.live \in SUBSET Nat
    /\ s = [status |-> s.status, plan |-> s.plan, ending |-> s.ending,
            items |-> s.items, live |-> s.live]
    /\ s.status = (IF t.kind = "cancel_now" THEN "canceled" ELSE v3.status)
    /\ s.plan = (IF t.kind = "change" THEN t.plan ELSE v3.plan)
    /\ s.ending = (IF t.kind = "cancel" THEN TRUE
                  ELSE IF t.kind = "resume" THEN FALSE ELSE v3.ending)
    /\ t.kind # "attach" => s.items = v3.items
    /\ t.kind = "attach" => \E a \in BilledAddons : t.addons = {a} /\ s.items = Append(v3.items, a)
    /\ s.live = (IF t.kind = "cancel_now" THEN {}
                ELSE IF t.kind = "attach" THEN v3.live \cup {Len(v3.items) + 1}
                ELSE IF t.kind = "detach_now" THEN v3.live \ {v2[t.at].item}
                ELSE v3.live)

\* The call changes it so.
LEMMA SubChanged ==
    ASSUME SubTyped, NEW t \in SubRequests, t.kind # "reattach",
           t.kind = "attach" => \E a \in BilledAddons : t.addons = {a},
           NEW s, s = Plan!Changed(t)
    PROVE  SubChange(t, s)
<1>1. /\ v3.status \in {"active", "canceled"} /\ v3.plan \in Plan!Plans /\ v3.ending \in BOOLEAN
      /\ v3.items \in Seq(BilledAddons) /\ v3.live \in SUBSET Nat
      /\ v3 = [status |-> v3.status, plan |-> v3.plan, ending |-> v3.ending,
               items |-> v3.items, live |-> v3.live]
  BY DEF SubTyped
<1>2. t.plan \in Plan!Plans /\ t.kind \in SubKinds
  BY DEF SubRequests
<1>3. CASE t.kind = "cancel"
  <2>1. s = [v3 EXCEPT !.ending = TRUE]
    BY <1>3, Zenon DEF Plan!Changed
  <2>. QED
    BY <1>1, <1>3, <2>1 DEF SubChange
<1>4. CASE t.kind = "cancel_now"
  <2>1. s = [v3 EXCEPT !.status = "canceled", !.live = {}]
    BY <1>4, Zenon DEF Plan!Changed
  <2>. QED
    BY <1>1, <1>4, <2>1 DEF SubChange
<1>5. CASE t.kind = "resume"
  <2>1. s = [v3 EXCEPT !.ending = FALSE]
    BY <1>5, Zenon DEF Plan!Changed
  <2>. QED
    BY <1>1, <1>5, <2>1 DEF SubChange
<1>6. CASE t.kind = "change"
  <2>1. s = [v3 EXCEPT !.plan = t.plan]
    BY <1>6, Zenon DEF Plan!Changed
  <2>. QED
    BY <1>1, <1>2, <1>6, <2>1 DEF SubChange
<1>7. CASE t.kind = "attach"
  <2>1. PICK a \in BilledAddons : t.addons = {a}
    BY <1>7
  <2>2. Plan!TheAddon(t) = a
    BY <2>1 DEF Plan!TheAddon
  <2>3. s = [v3 EXCEPT !.items = Append(v3.items, a), !.live = v3.live \cup {Plan!NewItem}]
    BY <1>7, <2>2, Zenon DEF Plan!Changed
  <2>4. Plan!NewItem = Len(v3.items) + 1 /\ Plan!NewItem \in Nat
    BY <1>1 DEF Plan!NewItem
  <2>5. Append(v3.items, a) \in Seq(BilledAddons)
    BY <1>1
  <2>6. /\ s.status = v3.status /\ s.plan = v3.plan /\ s.ending = v3.ending
        /\ s.items = Append(v3.items, a) /\ s.live = v3.live \cup {Plan!NewItem}
        /\ s = [status |-> s.status, plan |-> s.plan, ending |-> s.ending,
                items |-> s.items, live |-> s.live]
    BY <1>1, <2>3
  <2>7. s.items \in Seq(BilledAddons)
    BY <2>5, <2>6
  <2>8. s.live \in SUBSET Nat
    BY <1>1, <2>4, <2>6
  <2>9. /\ t.kind # "cancel_now" /\ t.kind # "change" /\ t.kind # "cancel" /\ t.kind # "resume"
        /\ t.kind # "detach_now"
    BY <1>7
  <2>. QED
    BY <1>1, <1>7, <2>1, <2>4, <2>6, <2>7, <2>8, <2>9, Zenon DEF SubChange
<1>8. CASE t.kind = "detach"
  <2>1. s = v3
    BY <1>8, Zenon DEF Plan!Changed
  <2>. QED
    BY <1>1, <1>8, <2>1 DEF SubChange
<1>9. CASE t.kind = "detach_now"
  <2>1. s = [v3 EXCEPT !.live = v3.live \ {v2[t.at].item}]
    BY <1>9, Zenon DEF Plan!Changed
  <2>. QED
    BY <1>1, <1>9, <2>1 DEF SubChange
<1>. QED
  BY <1>2, <1>3, <1>4, <1>5, <1>6, <1>7, <1>8, <1>9 DEF SubKinds

\* A call that is answered: t becomes r.
SubAnswers(w, t, r) ==
    /\ v1' = v1 /\ v2' = v2 /\ v6' = v6 /\ v7' = v7 /\ v8' = v8
    /\ v5[w] = t /\ v5' = [v5 EXCEPT ![w] = r]
    /\ t \in SubRequests /\ t.pc = "call" /\ r \in SubRequests /\ r.pc = "commit"
    /\ r.kind = t.kind /\ r.seen = t.seen /\ r.plan = t.plan /\ r.addons = t.addons
    /\ r.at = (IF t.kind = "attach" THEN Len(v3.items) + 1 ELSE t.at)
    /\ t.kind # "reattach"
    /\ t.kind = "detach" \/ v3.status = "active"
    /\ t.kind = "detach_now" => v2[t.at].item \in v3.live
    /\ t.kind = "detach" => v4' = v4
    /\ t.kind # "detach" =>
           \E e \in SubEvents : /\ v4' = Append(v4, e) /\ e.ending = v3'.ending
                                /\ e.kind = IF t.kind = "cancel_now" THEN "deleted" ELSE "updated"
\* With what it makes of Stripe's subscription.
SubCalls(w, t, r) == SubAnswers(w, t, r) /\ SubChange(t, v3')

\* A call that is not refused is one.
LEMMA SubCall ==
    ASSUME SubTyped, SubItems, NEW w \in Workers, Plan!CallStripe(w), NEW t, t = v5[w],
           NEW r, r = v5'[w]
    PROVE  SubAnswers(w, t, r) /\ v3' = Plan!Changed(t)
<1>1. /\ v1' = v1 /\ v2' = v2 /\ v6' = v6 /\ v7' = v7 /\ v8' = v8
      /\ v5[w].pc = "call" /\ ~Plan!Refuses(v5[w]) /\ v3' = Plan!Changed(v5[w])
      /\ v5' = [v5 EXCEPT ![w].pc = "commit",
                          ![w].at = IF v5[w].kind = "attach" THEN Plan!NewItem ELSE @]
      /\ IF v5[w].kind = "detach" THEN v4' = v4
         ELSE Plan!Emit(IF v5[w].kind = "cancel_now" THEN "deleted" ELSE "updated")
  BY Zenon DEF Plan!CallStripe, Plan!At, Plan!history
<1>2. t \in SubRequests /\ t.pc = "call"
  BY <1>1, SubServes DEF Serves, Handles
<1>3. /\ t.kind = "attach" => \E a \in BilledAddons : t.addons = {a}
      /\ t.kind # "reattach"
  BY <1>1, Zenon DEF SubItems, Serves, Handles
<1>4. /\ v3'.status \in {"active", "canceled"} /\ v3'.ending \in BOOLEAN
  <2>1. PICK s : s = v3'
    OBVIOUS
  <2>2. SubChange(t, s)
    BY <1>1, <1>2, <1>3, <2>1, SubChanged
  <2>. QED
    BY <2>1, <2>2 DEF SubChange
<1>5. Plan!NewItem = Len(v3.items) + 1 /\ Plan!NewItem \in Nat
  <2>1. v3.items \in Seq(BilledAddons)
    BY DEF SubTyped
  <2>. QED
    BY <2>1 DEF Plan!NewItem
<1>6. DOMAIN v5 = Workers
  BY DEF SubTyped
<1>7. /\ v5' = [v5 EXCEPT ![w] = r]
      /\ r = [t EXCEPT !.pc = "commit", !.at = IF t.kind = "attach" THEN Plan!NewItem ELSE t.at]
  <2>1. r = [[t EXCEPT !.pc = "commit"] EXCEPT !.at = IF t.kind = "attach" THEN Plan!NewItem ELSE t.at]
    BY <1>1, <1>2, <1>6
  <2>2. v5' = [v5 EXCEPT ![w] = r]
    BY <1>1, <1>6, <2>1
  <2>. QED
    BY <2>1, <2>2
<1>8. /\ r \in SubRequests /\ r.pc = "commit"
      /\ r.kind = t.kind /\ r.seen = t.seen /\ r.plan = t.plan /\ r.addons = t.addons
      /\ r.at = (IF t.kind = "attach" THEN Plan!NewItem ELSE t.at)
  BY <1>2, <1>5, <1>7 DEF SubRequests
<1>9. /\ t.kind = "detach" \/ v3.status = "active"
      /\ t.kind = "detach_now" => v2[t.at].item \in v3.live
  <2>1. v3.status \in {"active", "canceled"}
    BY DEF SubTyped
  <2>. QED
    BY <1>1, <2>1, Zenon DEF Plan!Refuses
<1>10. IF t.kind = "detach" THEN v4' = v4
       ELSE \E e \in SubEvents : /\ v4' = Append(v4, e) /\ e.ending = v3'.ending
                                 /\ e.kind = IF t.kind = "cancel_now" THEN "deleted" ELSE "updated"
  <2>1. CASE t.kind # "detach"
    <3>1. PICK k : k = IF t.kind = "cancel_now" THEN "deleted" ELSE "updated"
      OBVIOUS
    <3>2. v4' = Append(v4, [kind |-> k, status |-> v3'.status, ending |-> v3'.ending])
      BY <1>1, <2>1, <3>1, Zenon DEF Plan!Emit
    <3>3. k \in {"updated", "deleted"}
      BY <3>1
    <3>4. [kind |-> k, status |-> v3'.status, ending |-> v3'.ending] \in SubEvents
      BY <1>4, <3>3 DEF SubEvents
    <3>. QED
      BY <2>1, <3>1, <3>2, <3>4
  <2>. QED
    BY <1>1, <2>1
<1>. QED
  BY <1>1, <1>2, <1>3, <1>5, <1>7, <1>8, <1>9, <1>10, Zenon DEF SubAnswers

\* A worker takes up r.
SubStarts(w, r) ==
    /\ v5[w].pc = "idle" /\ v5' = [v5 EXCEPT ![w] = r]
    /\ r.seen = v1
    /\ v6' = (v6 \/ \E v \in Workers \ {w} : Plan!Meets(r.pc, r.kind, v))
    /\ v1' = v1 /\ v2' = v2 /\ v3' = v3 /\ v7' = v7 /\ v8' = v8
\* A request of the owner's or the admin's.
SubAsks(w, r) ==
    /\ r \in SubRequests
    /\ SubStarts(w, r) /\ v4' = v4
    /\ r.pc = "commit" <=> r.kind = "reattach"
    /\ r.kind = "attach" =>
           \E a \in BilledAddons : r.addons = {a} /\ \A i \in LiveRows : v2[i].addon # a
    /\ r.kind \in Removals => r.at \in LiveRows
    /\ v1.linked \/ r.kind \in {"detach", "detach_now"}

\* A request that begins is one.
LEMMA SubBegins ==
    ASSUME SubTyped, NEW w \in Workers, NEW pc \in {"call", "commit"}, NEW kind \in SubKinds,
           NEW plan \in Plan!Plans, NEW addons \in SUBSET BilledAddons, NEW at \in Nat,
           Plan!BeginRequest(w, pc, kind, plan, addons, at),
           NEW r, r = [pc |-> pc, kind |-> kind, seen |-> v1, plan |-> plan, addons |-> addons,
                       at |-> at],
           pc = "commit" <=> kind = "reattach",
           kind = "attach" => \E a \in BilledAddons : addons = {a} /\ \A i \in LiveRows : v2[i].addon # a,
           kind \in Removals => at \in LiveRows,
           v1.linked \/ kind \in {"detach", "detach_now"}
    PROVE  SubAsks(w, r)
<1>1. v1 \in Plan!Row
  BY DEF SubTyped
<1>2. r \in SubRequests
  BY <1>1 DEF SubRequests
<1>3. /\ r.pc = pc /\ r.kind = kind /\ r.seen = v1 /\ r.addons = addons /\ r.at = at
  OBVIOUS
<1>4. SubStarts(w, r) /\ v4' = v4
  BY <1>3, Zenon DEF Plan!BeginRequest, Plan!Begin, Plan!At, SubStarts
<1>. QED
  BY <1>2, <1>3, <1>4, Zenon DEF SubAsks

\* The rows of an add-on that count.
LEMMA SubAttached ==
    ASSUME NEW a
    PROVE  Plan!Attached(a) = {i \in LiveRows : v2[i].addon = a}
  BY DEF Plan!Attached, LiveRows

\* Every request that begins is one.
LEMMA SubStart ==
    ASSUME SubTyped, NEW w \in Workers,
           \/ Plan!Cancel(w) \/ Plan!CancelNow(w) \/ Plan!Resume(w)
           \/ \E plan \in Plan!Plans, addons \in SUBSET BilledAddons : Plan!ChangePlan(w, plan, addons)
           \/ \E a \in BilledAddons : Plan!Attach(w, a)
           \/ \E a \in BilledAddons, now \in BOOLEAN : Plan!Detach(w, a, now)
    PROVE  \E r : SubAsks(w, r)
<1>1. /\ 0 \in Plan!Plans /\ {} \in SUBSET BilledAddons /\ 0 \in Nat
      /\ "call" \in {"call", "commit"} /\ "commit" \in {"call", "commit"} /\ "call" # "commit"
  BY DEF Plan!Plans
<1>2. LiveRows \subseteq DOMAIN v2 /\ DOMAIN v2 \subseteq Nat
  <2>1. v2 \in Seq(AddonRows)
    BY DEF SubTyped
  <2>2. DOMAIN v2 = 1..Len(v2) /\ Len(v2) \in Nat
    BY <2>1
  <2>. QED
    BY <2>2 DEF LiveRows
<1>3. /\ \A k \in {"cancel", "cancel_now", "resume", "change"} :
              k \in SubKinds /\ k # "attach" /\ k \notin Removals /\ k # "reattach"
      /\ "attach" \in SubKinds /\ "attach" \notin Removals /\ "attach" # "reattach"
      /\ Removals \subseteq SubKinds /\ "attach" \notin Removals
      /\ "reattach" \in Removals /\ "detach" \in Removals /\ "detach_now" \in Removals
      /\ "detach" # "reattach" /\ "detach_now" # "reattach"
  BY DEF SubKinds, Removals
<1>4. ASSUME NEW k \in {"cancel", "cancel_now", "resume", "change"}, NEW p \in Plan!Plans,
             NEW addons \in SUBSET BilledAddons, v1.linked,
             Plan!BeginRequest(w, "call", k, p, addons, 0)
      PROVE  \E r : SubAsks(w, r)
  <2>1. SubAsks(w, [pc |-> "call", kind |-> k, seen |-> v1, plan |-> p, addons |-> addons, at |-> 0])
    BY <1>1, <1>3, <1>4, SubBegins
  <2>. QED
    BY <2>1
<1>5. CASE Plan!Cancel(w) \/ Plan!CancelNow(w) \/ Plan!Resume(w)
  <2>1. \E k \in {"cancel", "cancel_now", "resume", "change"} :
            v1.linked /\ Plan!BeginRequest(w, "call", k, 0, {}, 0)
    BY <1>5, Zenon DEF Plan!Cancel, Plan!CancelNow, Plan!Resume
  <2>. QED
    BY <1>1, <1>4, <2>1
<1>6. ASSUME NEW plan \in Plan!Plans, NEW addons \in SUBSET BilledAddons,
             Plan!ChangePlan(w, plan, addons)
      PROVE  \E r : SubAsks(w, r)
  <2>1. v1.linked /\ Plan!BeginRequest(w, "call", "change", plan, addons, 0)
    BY <1>6, Zenon DEF Plan!ChangePlan
  <2>. QED
    BY <1>4, <2>1
<1>7. ASSUME NEW a \in BilledAddons, Plan!Attach(w, a) PROVE \E r : SubAsks(w, r)
  <2>1. {a} \in SUBSET BilledAddons
    OBVIOUS
  <2>2. v1.linked
    BY <1>7, Zenon DEF Plan!Attach
  <2>3. CASE Plan!Attached(a) = {} /\ Plan!BeginRequest(w, "call", "attach", 0, {a}, 0)
    <3>1. \A i \in LiveRows : v2[i].addon # a
      BY <2>3, SubAttached
    <3>2. \E b \in BilledAddons : {a} = {b} /\ \A i \in LiveRows : v2[i].addon # b
      BY <3>1
    <3>3. SubAsks(w, [pc |-> "call", kind |-> "attach", seen |-> v1, plan |-> 0, addons |-> {a},
                      at |-> 0])
      BY <1>1, <1>3, <2>1, <2>2, <2>3, <3>2, SubBegins
    <3>. QED
      BY <3>3
  <2>4. CASE \E i \in Plan!Attached(a) : Plan!BeginRequest(w, "commit", "reattach", 0, {a}, i)
    <3>1. PICK i \in LiveRows : Plan!BeginRequest(w, "commit", "reattach", 0, {a}, i)
      BY <2>4, SubAttached
    <3>2. i \in Nat
      BY <1>2
    <3>3. SubAsks(w, [pc |-> "commit", kind |-> "reattach", seen |-> v1, plan |-> 0,
                      addons |-> {a}, at |-> i])
      BY <1>1, <1>3, <2>1, <2>2, <3>1, <3>2, SubBegins
    <3>. QED
      BY <3>3
  <2>. QED
    BY <1>7, <2>3, <2>4, Zenon DEF Plan!Attach
<1>8. ASSUME NEW a \in BilledAddons, NEW now \in BOOLEAN, Plan!Detach(w, a, now)
      PROVE  \E r : SubAsks(w, r)
  <2>1. {a} \in SUBSET BilledAddons
    OBVIOUS
  <2>2. PICK i \in DOMAIN v2 :
            /\ v2[i].status = "active"
            /\ Plan!BeginRequest(w, "call", IF now THEN "detach_now" ELSE "detach", 0, {a}, i)
    BY <1>8, Zenon DEF Plan!Detach
  <2>3. i \in LiveRows /\ i \in Nat
    BY <1>2, <2>2 DEF LiveRows
  <2>4. PICK k \in {"detach", "detach_now"} : Plan!BeginRequest(w, "call", k, 0, {a}, i)
    BY <2>2
  <2>5. k \in SubKinds /\ k \in Removals /\ k # "attach" /\ k # "reattach"
    BY <1>3, <2>4
  <2>6. SubAsks(w, [pc |-> "call", kind |-> k, seen |-> v1, plan |-> 0, addons |-> {a}, at |-> i])
    BY <1>1, <1>3, <2>1, <2>3, <2>4, <2>5, SubBegins
  <2>. QED
    BY <2>6
<1>. QED
  BY <1>5, <1>6, <1>7, <1>8

\* A worker has done with what it served.
SubLeaves(w) == Serves(w) /\ v5' = [v5 EXCEPT ![w] = Plan!Idle]
\* The rows and Stripe stay as they are.
SubRowsStay == v1' = v1 /\ v2' = v2 /\ v3' = v3
SubHistoryStays == v6' = v6 /\ v7' = v7 /\ v8' = v8

\* A call that is refused.
LEMMA SubRefused ==
    ASSUME NEW w \in Workers, Plan!StripeRefuses(w)
    PROVE  SubLeaves(w) /\ v5[w].pc = "call" /\ SubRowsStay /\ v4' = v4 /\ SubHistoryStays
  BY
     DEF Plan!StripeRefuses, Plan!At, Plan!Finish, Plan!history, Plan!bounds, SubLeaves,
         SubRowsStay,
         SubHistoryStays, Serves

\* A process dies.
LEMMA SubCrash ==
    ASSUME NEW w \in Workers, Plan!Crash(w)
    PROVE  /\ SubLeaves(w) /\ SubRowsStay /\ v4' = v4 /\ v6' = v6
           /\ v7' = (v7 \/ v5[w].pc = "commit") /\ v8' = (v8 \/ Handles(w))
  BY Zenon DEF Plan!Crash, Plan!At, Plan!Finish, SubLeaves, SubRowsStay, Serves, Handles

\* A period ends, and Stripe tells.
SubPeriod(e) ==
    /\ v1' = v1 /\ v2' = v2 /\ v5' = v5 /\ SubHistoryStays
    /\ v4' = Append(v4, e) /\ e \in SubEvents /\ e.ending = v3.ending
    /\ v3.status = "active"
    /\ v3'.plan = v3.plan /\ v3'.ending = v3.ending /\ v3'.items = v3.items
    /\ v3' = [status |-> v3'.status, plan |-> v3'.plan, ending |-> v3'.ending,
              items |-> v3'.items, live |-> v3'.live]
    /\ \/ v3'.status = "canceled" /\ v3'.live = {} /\ e.kind = "deleted"
       \/ v3'.status = "active" /\ v3'.live = v3.live /\ e.kind = "updated"

\* The end of the subscription, or its renewal.
LEMMA SubPeriodEnds ==
    ASSUME SubTyped, Plan!Ends \/ Plan!Renew
    PROVE  \E e : SubPeriod(e)
<1>1. /\ v3.status \in {"active", "canceled"} /\ v3.plan \in Plan!Plans /\ v3.ending \in BOOLEAN
      /\ v3 = [status |-> v3.status, plan |-> v3.plan, ending |-> v3.ending,
               items |-> v3.items, live |-> v3.live]
  BY DEF SubTyped
<1>2. v1' = v1 /\ v2' = v2 /\ v5' = v5 /\ SubHistoryStays /\ v3.status = "active"
  BY Zenon DEF Plan!Ends, Plan!Renew, Plan!history, SubHistoryStays
<1>3. CASE Plan!Ends
  <2>1. v3' = [v3 EXCEPT !.status = "canceled", !.live = {}] /\ Plan!Emit("deleted")
    BY <1>3, Zenon DEF Plan!Ends
  <2>2. /\ v3'.status = "canceled" /\ v3'.plan = v3.plan /\ v3'.ending = v3.ending
        /\ v3'.items = v3.items /\ v3'.live = {}
        /\ v3' = [status |-> v3'.status, plan |-> v3'.plan, ending |-> v3'.ending,
                  items |-> v3'.items, live |-> v3'.live]
    BY <1>1, <2>1
  <2>3. v4' = Append(v4, [kind |-> "deleted", status |-> v3'.status, ending |-> v3'.ending])
    BY <2>1, Zenon DEF Plan!Emit
  <2>4. [kind |-> "deleted", status |-> v3'.status, ending |-> v3'.ending] \in SubEvents
    BY <1>1, <2>2 DEF SubEvents
  <2>5. SubPeriod([kind |-> "deleted", status |-> v3'.status, ending |-> v3'.ending])
    BY <1>2, <2>2, <2>3, <2>4 DEF SubPeriod
  <2>. QED
    BY <2>5
<1>4. CASE Plan!Renew
  <2>1. v3' = v3 /\ Plan!Emit("updated")
    BY <1>4, Zenon DEF Plan!Renew
  <2>2. v4' = Append(v4, [kind |-> "updated", status |-> v3'.status, ending |-> v3'.ending])
    BY <2>1, Zenon DEF Plan!Emit
  <2>3. [kind |-> "updated", status |-> v3'.status, ending |-> v3'.ending] \in SubEvents
    BY <1>1, <2>1 DEF SubEvents
  <2>4. SubPeriod([kind |-> "updated", status |-> v3'.status, ending |-> v3'.ending])
    BY <1>1, <1>2, <2>1, <2>2, <2>3 DEF SubPeriod
  <2>. QED
    BY <2>4
<1>. QED
  BY <1>3, <1>4

\* An event is taken up.
LEMMA SubDelivered ==
    ASSUME SubTyped, NEW w \in Workers, Plan!Deliver(w)
    PROVE  /\ v4 # <<>> /\ v4' = Tail(v4) /\ Head(v4) \in SubEvents
           /\ \E r \in SubHandlers : SubStarts(w, r) /\ r.kind = Head(v4).kind /\ r.at = Head(v4)
<1> DEFINE r == [pc |-> "handle", kind |-> Head(v4).kind, seen |-> v1, plan |-> 0,
                 addons |-> {}, at |-> Head(v4)]
<1>1. /\ v4 # <<>> /\ v4' = Tail(v4)
      /\ v5[w].pc = "idle" /\ v5' = [v5 EXCEPT ![w] = r]
      /\ v6' = (v6 \/ \E v \in Workers \ {w} : Plan!Meets("handle", Head(v4).kind, v))
      /\ v1' = v1 /\ v2' = v2 /\ v3' = v3 /\ v7' = v7 /\ v8' = v8
  BY Zenon DEF Plan!Deliver, Plan!Begin, Plan!At
<1>2. Head(v4) \in SubEvents
  <2>1. v4 \in Seq(SubEvents)
    BY DEF SubTyped
  <2>. QED
    BY <1>1, <2>1
<1>3. r \in SubHandlers
  <2>1. PICK h : h = Head(v4)
    OBVIOUS
  <2>2. h \in SubEvents /\ h.kind \in {"updated", "deleted"}
    BY <1>2, <2>1 DEF SubEvents
  <2>3. v1 \in Plan!Row /\ 0 \in Plan!Plans
    BY SubPlans DEF SubTyped
  <2>. QED
    BY <2>1, <2>2, <2>3 DEF SubHandlers
<1>4. SubStarts(w, r)
  BY <1>1, Zenon DEF SubStarts
<1>. QED
  BY <1>1, <1>2, <1>3, <1>4

\* It is handled.
LEMMA SubHandled ==
    ASSUME SubTyped, NEW w \in Workers, Plan!Handle(w), NEW t, t = v5[w]
    PROVE  /\ t \in SubHandlers /\ Handles(w) /\ SubLeaves(w) /\ SubHistoryStays
           /\ v2' = v2 /\ v3' = v3 /\ v4' = v4 /\ v1' \in Plan!Row
           /\ ~t.seen.linked => v1' = v1
           /\ t.seen.linked /\ t.kind = "updated" =>
                /\ v1'.linked = v1.linked /\ v1'.plan = v1.plan
                /\ v1'.ending = IF t.at.ending = t.seen.ending THEN v1.ending ELSE t.at.ending
           /\ t.seen.linked /\ t.kind = "deleted" =>
                /\ ~v1'.linked
                /\ v1'.plan = IF t.seen.plan = 0 THEN v1.plan ELSE 0
<1>1. /\ v5[w].pc = "handle" /\ v5' = [v5 EXCEPT ![w] = Plan!Idle]
      /\ v2' = v2 /\ v3' = v3 /\ v4' = v4 /\ SubHistoryStays
      /\ IF ~t.seen.linked THEN v1' = v1
         ELSE Plan!Store(w, IF t.kind = "updated" THEN Plan!Updated(t.seen, t.at)
                            ELSE Plan!Deleted(t.seen))
  BY Zenon DEF Plan!Handle, Plan!At, Plan!Finish, Plan!history, SubHistoryStays
<1>2. /\ Serves(w) /\ Handles(w)
  BY <1>1 DEF Serves, Handles
<1>3. t \in SubHandlers /\ t.seen \in Plan!Row /\ t.at \in SubEvents
      /\ t.kind \in {"updated", "deleted"}
  BY <1>2, SubServes DEF SubHandlers
<1>4. v1 \in Plan!Row
  BY DEF SubTyped
<1>5. ASSUME NEW new, new = Plan!Updated(t.seen, t.at)
      PROVE  /\ new \in Plan!Row /\ new.linked = t.seen.linked /\ new.plan = t.seen.plan
             /\ new.ending = t.at.ending
  BY <1>3, <1>5 DEF Plan!Updated, Plan!Row, SubEvents
<1>6. ASSUME NEW new, new = Plan!Deleted(t.seen)
      PROVE  new \in Plan!Row /\ new.linked = FALSE /\ new.plan = 0
  <2>1. new = [t.seen EXCEPT !.plan = 0, !.status = "canceled", !.linked = FALSE]
    BY <1>6, Zenon DEF Plan!Deleted
  <2>2. 0 \in Plan!Plans
    BY SubPlans
  <2>. QED
    BY <1>3, <2>1, <2>2 DEF Plan!Row
<1>7. CASE ~t.seen.linked
  BY <1>1, <1>2, <1>3, <1>4, <1>7 DEF SubLeaves
<1>8. CASE t.seen.linked /\ t.kind = "updated"
  <2>1. PICK new : new = Plan!Updated(t.seen, t.at)
    OBVIOUS
  <2>2. Plan!Store(w, new)
    BY <1>1, <1>8, <2>1
  <2>3. /\ new \in Plan!Row /\ new.linked = t.seen.linked /\ new.plan = t.seen.plan
        /\ new.ending = t.at.ending
    BY <1>5, <2>1
  <2>4. /\ v1' \in Plan!Row
        /\ v1'.linked = IF new.linked = t.seen.linked THEN v1.linked ELSE new.linked
        /\ v1'.plan = IF new.plan = t.seen.plan THEN v1.plan ELSE new.plan
        /\ v1'.ending = IF new.ending = t.seen.ending THEN v1.ending ELSE new.ending
    BY <1>3, <1>4, <2>2, <2>3, RowStored
  <2>5. t.kind # "deleted"
    BY <1>8
  <2>. QED
    BY <1>1, <1>2, <1>3, <1>8, <2>3, <2>4, <2>5, Zenon DEF SubLeaves
<1>9. CASE t.seen.linked /\ t.kind = "deleted"
  <2>1. PICK new : new = Plan!Deleted(t.seen)
    OBVIOUS
  <2>2. Plan!Store(w, new)
    BY <1>1, <1>9, <2>1
  <2>3. new \in Plan!Row /\ new.linked = FALSE /\ new.plan = 0
    BY <1>6, <2>1
  <2>4. /\ v1' \in Plan!Row
        /\ v1'.linked = IF new.linked = t.seen.linked THEN v1.linked ELSE new.linked
        /\ v1'.plan = IF new.plan = t.seen.plan THEN v1.plan ELSE new.plan
    BY <1>3, <1>4, <2>2, <2>3, RowStored
  <2>5. /\ ~v1'.linked /\ v1'.plan = IF t.seen.plan = 0 THEN v1.plan ELSE 0
    <3>1. t.seen.linked \in BOOLEAN
      BY <1>3, RowColumnsAre
    <3>2. new.linked # t.seen.linked
      BY <1>9, <2>3, <3>1
    <3>. QED
      BY <2>3, <2>4, <3>2
  <2>6. t.kind # "updated"
    BY <1>9
  <2>. QED
    BY <1>1, <1>2, <1>3, <1>9, <2>4, <2>5, <2>6, Zenon DEF SubLeaves
<1>. QED
  BY <1>3, <1>7, <1>8, <1>9

\* What a request's commit makes of the add-on's row it works on.
SubRemoves(t, s) ==
    /\ s \in {"active", "pending_cancel", "canceled"}
    /\ t.kind = "detach_now" <=> s = "canceled"
    /\ DOMAIN v2' = DOMAIN v2 /\ v2' \in Seq(AddonRows)
    /\ \A i \in DOMAIN v2 : /\ v2'[i].addon = v2[i].addon /\ v2'[i].item = v2[i].item
                            /\ i # t.at => v2'[i].status = v2[i].status
    /\ v2'[t.at].status = s

\* A commit: only a plan change writes the plan, only a cancellation or its withdrawal
\* the ending.
SubCommits(w, t) ==
    /\ v5[w] = t /\ t \in SubRequests /\ t.pc = "commit" /\ SubLeaves(w) /\ SubHistoryStays
    /\ v3' = v3 /\ v4' = v4 /\ v1' \in Plan!Row
    /\ v1'.linked = v1.linked
    /\ v1'.plan = (IF t.kind # "change" \/ t.plan = t.seen.plan THEN v1.plan ELSE t.plan)
    /\ t.kind = "cancel" => v1'.ending \in {v1.ending, TRUE}
    /\ t.kind = "resume" => v1'.ending \in {v1.ending, FALSE}
    /\ t.kind \notin {"cancel", "resume"} => v1'.ending = v1.ending
    /\ t.kind = "attach" =>
           v2' = Append(v2, [addon |-> v3.items[t.at], status |-> "active", item |-> t.at])
    /\ t.kind \in Removals => \E s : SubRemoves(t, s)
    /\ t.kind \notin {"attach"} \cup Removals => v2' = v2

\* Commit is one.
LEMMA SubCommitted ==
    ASSUME SubTyped, SubItems, NEW w \in Workers, Plan!Commit(w), NEW t, t = v5[w]
    PROVE  SubCommits(w, t)
<1>1. /\ v5[w].pc = "commit" /\ v5' = [v5 EXCEPT ![w] = Plan!Idle]
      /\ v3' = v3 /\ v4' = v4 /\ SubHistoryStays /\ Plan!Store(w, Plan!RowAfter(t))
      /\ v2' = CASE t.kind = "attach" ->
                      Append(v2, [addon |-> v3.items[t.at], status |-> "active", item |-> t.at])
                 [] t.kind \in {"reattach", "detach", "detach_now"} ->
                      [v2 EXCEPT ![t.at].status = Plan!NewStatus(t.kind)]
                 [] OTHER -> v2
  BY Zenon DEF Plan!Commit, Plan!At, Plan!Finish, Plan!history, SubHistoryStays
<1>2. t \in SubRequests /\ t.pc = "commit" /\ Serves(w)
  BY <1>1, SubServes DEF Serves, Handles
<1>3. t.seen \in Plan!Row /\ t.kind \in SubKinds /\ t.plan \in Plan!Plans
  BY <1>2 DEF SubRequests
<1>4. /\ v1' \in Plan!Row /\ v1'.linked = v1.linked
      /\ v1'.plan = (IF t.kind # "change" \/ t.plan = t.seen.plan THEN v1.plan ELSE t.plan)
      /\ t.kind = "cancel" => v1'.ending \in {v1.ending, TRUE}
      /\ t.kind = "resume" => v1'.ending \in {v1.ending, FALSE}
      /\ t.kind \notin {"cancel", "resume"} => v1'.ending = v1.ending
  <2>1. PICK new : new = Plan!RowAfter(t)
    OBVIOUS
  <2>2. /\ new \in Plan!Row
        /\ new.linked = t.seen.linked
        /\ new.plan = (IF t.kind = "change" THEN t.plan ELSE t.seen.plan)
        /\ new.ending = (IF t.kind = "cancel" THEN TRUE
                        ELSE IF t.kind = "resume" THEN FALSE ELSE t.seen.ending)
    BY <1>2, <2>1, RowAfterIs
  <2>3. v1 \in Plan!Row /\ Plan!Store(w, new)
    BY <1>1, <2>1 DEF SubTyped
  <2>4. /\ v1' \in Plan!Row
        /\ v1'.linked = IF new.linked = t.seen.linked THEN v1.linked ELSE new.linked
        /\ v1'.plan = IF new.plan = t.seen.plan THEN v1.plan ELSE new.plan
        /\ v1'.ending = IF new.ending = t.seen.ending THEN v1.ending ELSE new.ending
    BY <1>3, <2>2, <2>3, RowStored
  <2>5. t.kind = "cancel" => v1'.ending \in {v1.ending, TRUE}
    BY <2>2, <2>4, Zenon
  <2>6. t.kind = "resume" => v1'.ending \in {v1.ending, FALSE}
    <3>1. "resume" # "cancel"
      OBVIOUS
    <3>. QED
      BY <2>2, <2>4, <3>1, Zenon
  <2>7. t.kind \notin {"cancel", "resume"} => v1'.ending = v1.ending
    BY <2>2, <2>4, Zenon
  <2>8. v1'.plan = (IF t.kind # "change" \/ t.plan = t.seen.plan THEN v1.plan ELSE t.plan)
    BY <2>2, <2>4, Zenon
  <2>. QED
    BY <2>2, <2>4, <2>5, <2>6, <2>7, <2>8
<1>5. t.kind = "attach" =>
          v2' = Append(v2, [addon |-> v3.items[t.at], status |-> "active", item |-> t.at])
  BY <1>1, Zenon
<1>6. t.kind \notin {"attach"} \cup Removals => v2' = v2
  BY <1>1, Zenon DEF Removals
<1>7. ASSUME t.kind \in Removals PROVE \E s : SubRemoves(t, s)
  <2>1. "reattach" # "attach" /\ "detach" # "attach" /\ "detach_now" # "attach"
    OBVIOUS
  <2>2. v2' = [v2 EXCEPT ![t.at].status = Plan!NewStatus(t.kind)]
    BY <1>1, <1>7, <2>1, Zenon DEF Removals
  <2>3. t.at \in DOMAIN v2 /\ v2 \in Seq(AddonRows)
    BY <1>2, <1>7 DEF SubItems, SubTyped, Serves, Handles
  <2>4. PICK s : s = Plan!NewStatus(t.kind)
    OBVIOUS
  <2>5. \/ t.kind = "reattach" /\ s = "active"
        \/ t.kind = "detach" /\ s = "pending_cancel"
        \/ t.kind = "detach_now" /\ s = "canceled"
    <3>1. CASE t.kind = "reattach"
      BY <2>4, <3>1, Zenon DEF Plan!NewStatus
    <3>2. CASE t.kind = "detach"
      BY <2>4, <3>2, Zenon DEF Plan!NewStatus
    <3>3. CASE t.kind = "detach_now"
      BY <2>4, <3>3, Zenon DEF Plan!NewStatus
    <3>. QED
      BY <1>7, <3>1, <3>2, <3>3 DEF Removals
  <2>6. /\ s \in {"active", "pending_cancel", "canceled"}
        /\ t.kind = "detach_now" <=> s = "canceled"
    BY <2>5
  <2>7. v2' = [v2 EXCEPT ![t.at] = [v2[t.at] EXCEPT !.status = s]]
    BY <2>2, <2>4
  <2>8. v2[t.at] \in AddonRows
    BY <2>3
  <2>9. PICK a : a = [v2[t.at] EXCEPT !.status = s]
    OBVIOUS
  <2>10. a \in AddonRows /\ a.addon = v2[t.at].addon /\ a.item = v2[t.at].item /\ a.status = s
    BY <2>6, <2>8, <2>9 DEF AddonRows
  <2>11. v2' = [v2 EXCEPT ![t.at] = a]
    BY <2>7, <2>9
  <2>12. v2' \in Seq(AddonRows) /\ DOMAIN v2' = DOMAIN v2
    BY <2>3, <2>10, <2>11
  <2>13. /\ v2'[t.at] = a
         /\ \A i \in DOMAIN v2 : i # t.at => v2'[i] = v2[i]
    BY <2>3, <2>11, Zenon
  <2>. QED
    BY <2>6, <2>10, <2>12, <2>13 DEF SubRemoves
<1>. QED
  BY <1>1, <1>2, <1>4, <1>5, <1>6, <1>7, Zenon DEF SubLeaves, SubCommits

\* CallStripe is one.
LEMMA SubCalled ==
    ASSUME SubTyped, SubItems, NEW w \in Workers, Plan!CallStripe(w)
    PROVE  \E t, r : SubCalls(w, t, r)
<1>1. PICK t : t = v5[w]
  OBVIOUS
<1>2. PICK r : r = v5'[w]
  OBVIOUS
<1>3. SubAnswers(w, t, r) /\ v3' = Plan!Changed(t)
  BY <1>1, <1>2, SubCall
<1>4. PICK s : s = v3'
  OBVIOUS
<1>5. s = Plan!Changed(t)
  BY <1>3, <1>4
<1>6. /\ t \in SubRequests /\ t.kind # "reattach"
      /\ t.kind = "attach" => \E a \in BilledAddons : t.addons = {a}
  <2>1. t \in SubRequests /\ t.kind # "reattach" /\ t.pc = "call"
    BY <1>3, Zenon DEF SubAnswers
  <2>2. ~Handles(w) /\ Serves(w)
    BY <1>1, <2>1 DEF Handles, Serves
  <2>. QED
    BY <1>1, <2>1, <2>2, Zenon DEF SubItems
<1>7. SubChange(t, s)
  BY <1>5, <1>6, SubChanged
<1>8. SubCalls(w, t, r)
  BY <1>3, <1>4, <1>7, Zenon DEF SubCalls, SubChange
<1>. QED
  BY <1>8

\* It is refused, or the process dies.
SubDrops(w) ==
    /\ SubLeaves(w) /\ SubRowsStay /\ v4' = v4 /\ v6' = v6
    /\ v7' \in BOOLEAN /\ v8' \in BOOLEAN /\ (v7 => v7') /\ (v8 => v8')
    /\ v5[w].pc = "commit" => v7'
    /\ Handles(w) => v8'
\* An event is taken up.
SubDelivers(w, r) ==
    /\ v4 # <<>> /\ v4' = Tail(v4) /\ Head(v4) \in SubEvents
    /\ r \in SubHandlers /\ SubStarts(w, r) /\ r.kind = Head(v4).kind /\ r.at = Head(v4)
\* An event is handled.
SubSees(w, t) ==
    /\ v5[w] = t /\ t \in SubHandlers /\ Handles(w) /\ SubLeaves(w) /\ SubHistoryStays
    /\ v2' = v2 /\ v3' = v3 /\ v4' = v4 /\ v1' \in Plan!Row
    /\ ~t.seen.linked => v1' = v1
    /\ t.seen.linked /\ t.kind = "updated" =>
         /\ v1'.linked = v1.linked /\ v1'.plan = v1.plan
         /\ v1'.ending = IF t.at.ending = t.seen.ending THEN v1.ending ELSE t.at.ending
    /\ t.seen.linked /\ t.kind = "deleted" =>
         /\ ~v1'.linked
         /\ v1'.plan = IF t.seen.plan = 0 THEN v1.plan ELSE 0

\* The steps, by what they do.
SubStep ==
    \/ \E w \in Workers : \/ \E r : SubAsks(w, r)
                          \/ \E t, r : SubCalls(w, t, r)
                          \/ SubDrops(w)
                          \/ \E t : SubCommits(w, t)
                          \/ \E r : SubDelivers(w, r)
                          \/ \E t : SubSees(w, t)
    \/ \E e : SubPeriod(e)

\* Every step is one of them.
LEMMA SubStepIs ==
    ASSUME SubTyped, SubItems, NextPlan
    PROVE  SubStep
<1>1. ASSUME NEW w \in Workers,
             \/ Plan!Cancel(w) \/ Plan!CancelNow(w) \/ Plan!Resume(w)
             \/ \E plan \in Plan!Plans, addons \in SUBSET BilledAddons : Plan!ChangePlan(w, plan, addons)
             \/ \E a \in BilledAddons : Plan!Attach(w, a)
             \/ \E a \in BilledAddons, now \in BOOLEAN : Plan!Detach(w, a, now)
      PROVE  SubStep
  <2>1. \E r : SubAsks(w, r)
    BY <1>1, SubStart
  <2>. QED
    BY <2>1, Zenon DEF SubStep
<1>2. ASSUME NEW w \in Workers, Plan!CallStripe(w) PROVE SubStep
  <2>1. \E t, r : SubCalls(w, t, r)
    BY <1>2, SubCalled
  <2>. QED
    BY <2>1, Zenon DEF SubStep
<1>3. ASSUME NEW w \in Workers, Plan!StripeRefuses(w) PROVE SubStep
  <2>1. SubDrops(w)
    <3>1. SubLeaves(w) /\ v5[w].pc = "call" /\ SubRowsStay /\ v4' = v4 /\ SubHistoryStays
      BY <1>3, SubRefused
    <3>2. v7 \in BOOLEAN /\ v8 \in BOOLEAN
      BY DEF SubTyped
    <3>3. v5[w].pc # "commit" /\ ~Handles(w)
      BY <3>1 DEF Handles
    <3>. QED
      BY <3>1, <3>2, <3>3, Zenon DEF SubDrops, SubHistoryStays
  <2>. QED
    BY <2>1, Zenon DEF SubStep
<1>4. ASSUME NEW w \in Workers, Plan!Crash(w) PROVE SubStep
  <2>1. SubDrops(w)
    <3>1. /\ SubLeaves(w) /\ SubRowsStay /\ v4' = v4 /\ v6' = v6
          /\ v7' = (v7 \/ v5[w].pc = "commit") /\ v8' = (v8 \/ Handles(w))
      BY <1>4, SubCrash
    <3>2. v7 \in BOOLEAN /\ v8 \in BOOLEAN
      BY DEF SubTyped
    <3>3. /\ v7' \in BOOLEAN /\ v8' \in BOOLEAN /\ (v7 => v7') /\ (v8 => v8')
          /\ v5[w].pc = "commit" => v7'
          /\ Handles(w) => v8'
      BY <3>1, <3>2, Zenon
    <3>. QED
      BY <3>1, <3>3, Zenon DEF SubDrops
  <2>. QED
    BY <2>1, Zenon DEF SubStep
<1>5. ASSUME NEW w \in Workers, Plan!Commit(w) PROVE SubStep
  <2>1. PICK t : t = v5[w]
    OBVIOUS
  <2>2. SubCommits(w, t)
    BY <1>5, <2>1, SubCommitted
  <2>. QED
    BY <2>2, Zenon DEF SubStep
<1>6. ASSUME NEW w \in Workers, Plan!Deliver(w) PROVE SubStep
  <2>1. /\ v4 # <<>> /\ v4' = Tail(v4) /\ Head(v4) \in SubEvents
        /\ \E r \in SubHandlers : SubStarts(w, r) /\ r.kind = Head(v4).kind /\ r.at = Head(v4)
    BY <1>6, SubDelivered
  <2>2. \E r : SubDelivers(w, r)
    BY <2>1, Zenon DEF SubDelivers
  <2>. QED
    BY <2>2, Zenon DEF SubStep
<1>7. ASSUME NEW w \in Workers, Plan!Handle(w) PROVE SubStep
  <2>1. PICK t : t = v5[w]
    OBVIOUS
  <2>2. SubSees(w, t)
    <3>1. /\ t \in SubHandlers /\ Handles(w) /\ SubLeaves(w) /\ SubHistoryStays
          /\ v2' = v2 /\ v3' = v3 /\ v4' = v4 /\ v1' \in Plan!Row
          /\ ~t.seen.linked => v1' = v1
          /\ t.seen.linked /\ t.kind = "updated" =>
               /\ v1'.linked = v1.linked /\ v1'.plan = v1.plan
               /\ v1'.ending = IF t.at.ending = t.seen.ending THEN v1.ending ELSE t.at.ending
          /\ t.seen.linked /\ t.kind = "deleted" =>
               /\ ~v1'.linked
               /\ v1'.plan = IF t.seen.plan = 0 THEN v1.plan ELSE 0
      BY <1>7, <2>1, SubHandled
    <3>. QED
      BY <2>1, <3>1, Zenon DEF SubSees
  <2>. QED
    BY <2>2, Zenon DEF SubStep
<1>8. ASSUME Plan!Ends \/ Plan!Renew PROVE SubStep
  <2>1. \E e : SubPeriod(e)
    BY <1>8, SubPeriodEnds
  <2>. QED
    BY <2>1, Zenon DEF SubStep
<1>. QED
  BY <1>1, <1>2, <1>3, <1>4, <1>5, <1>6, <1>7, <1>8, Zenon DEF NextPlan

\* What a worker may be at.
SubWork == {Plan!Idle} \cup SubRequests \cup SubHandlers

\* The others stay as they are.
LEMMA SubOthers ==
    ASSUME SubTyped, NEW w \in Workers, NEW r, v5' = [v5 EXCEPT ![w] = r]
    PROVE  /\ v5'[w] = r /\ \A u \in Workers : u # w => v5'[u] = v5[u]
           /\ r \in SubWork => v5' \in [Workers -> SubWork]
  BY DEF SubTyped, SubWork

\* An event appended to those on their way, or the first taken away.
LEMMA SubAppended ==
    ASSUME NEW p \in Seq(SubEvents), NEW e \in SubEvents, NEW q, q = Append(p, e)
    PROVE  /\ q \in Seq(SubEvents) /\ Len(q) = Len(p) + 1 /\ q # <<>> /\ q[Len(q)] = e
           /\ DOMAIN q = 1..Len(q) /\ DOMAIN p = 1..Len(p) /\ Len(p) \in Nat
           /\ \A i \in 1..Len(p) : q[i] = p[i]
  OBVIOUS

LEMMA SubTaken ==
    ASSUME NEW p \in Seq(SubEvents), p # <<>>, NEW q, q = Tail(p)
    PROVE  /\ q \in Seq(SubEvents) /\ Len(p) \in Nat /\ Len(q) = Len(p) - 1 /\ Head(p) = p[1]
           /\ DOMAIN q = 1..Len(q) /\ DOMAIN p = 1..Len(p)
           /\ \A i \in 1..Len(q) : q[i] = p[i + 1]
           /\ q = <<>> <=> Len(p) = 1
           /\ q # <<>> => q[Len(q)] = p[Len(p)]
<1>1. /\ q \in Seq(SubEvents) /\ Len(p) \in Nat /\ Len(q) = Len(p) - 1 /\ Head(p) = p[1]
      /\ DOMAIN q = 1..Len(q) /\ DOMAIN p = 1..Len(p)
      /\ \A i \in 1..Len(q) : q[i] = p[i + 1]
  OBVIOUS
<1>2. q = <<>> <=> Len(q) = 0
  <2>1. q \in Seq(SubEvents)
    BY <1>1
  <2>. QED
    BY <2>1, EmptySeq
<1>3. q # <<>> => Len(q) \in 1..Len(q)
  BY <1>1, <1>2
<1>. QED
  BY <1>1, <1>2, <1>3

\* The types are kept.
LEMMA SubTypedKept ==
    ASSUME SubTyped, SubItems, SubStep
    PROVE  SubTyped'
<1>1. /\ v1 \in Plan!Row /\ v2 \in Seq(AddonRows)
      /\ v3 \in [status : {"active", "canceled"}, plan : Plan!Plans, ending : BOOLEAN,
                 items : Seq(BilledAddons), live : SUBSET Nat]
      /\ v4 \in Seq(SubEvents) /\ v5 \in [Workers -> SubWork]
      /\ v6 \in BOOLEAN /\ v7 \in BOOLEAN /\ v8 \in BOOLEAN
  BY DEF SubTyped, SubWork
<1>2. ASSUME v1' \in Plan!Row, v2' \in Seq(AddonRows),
             v3' \in [status : {"active", "canceled"}, plan : Plan!Plans, ending : BOOLEAN,
                      items : Seq(BilledAddons), live : SUBSET Nat],
             v4' \in Seq(SubEvents), v5' \in [Workers -> SubWork],
             v6' \in BOOLEAN, v7' \in BOOLEAN, v8' \in BOOLEAN
      PROVE  SubTyped'
  BY <1>2, Zenon DEF SubTyped, SubWork
<1>3. Plan!Idle \in SubWork /\ SubRequests \subseteq SubWork /\ SubHandlers \subseteq SubWork
  BY DEF SubWork
<1>4. ASSUME NEW w \in Workers, SubLeaves(w) PROVE v5' \in [Workers -> SubWork]
  <2>1. v5' = [v5 EXCEPT ![w] = Plan!Idle]
    BY <1>4, Zenon DEF SubLeaves
  <2>. QED
    BY <1>3, <2>1, SubOthers
<1>5. ASSUME SubHistoryStays PROVE v6' \in BOOLEAN /\ v7' \in BOOLEAN /\ v8' \in BOOLEAN
  BY <1>1, <1>5, Zenon DEF SubHistoryStays
<1>6. ASSUME NEW w \in Workers, NEW r \in SubWork, SubStarts(w, r)
      PROVE  /\ v5' \in [Workers -> SubWork] /\ v6' \in BOOLEAN /\ v7' \in BOOLEAN /\ v8' \in BOOLEAN
             /\ v1' = v1 /\ v2' = v2 /\ v3' = v3
  <2>1. /\ v5' = [v5 EXCEPT ![w] = r]
        /\ v6' = (v6 \/ \E v \in Workers \ {w} : Plan!Meets(r.pc, r.kind, v))
        /\ v1' = v1 /\ v2' = v2 /\ v3' = v3 /\ v7' = v7 /\ v8' = v8
    BY <1>6, Zenon DEF SubStarts
  <2>2. v5' \in [Workers -> SubWork]
    BY <2>1, SubOthers
  <2>3. v6' \in BOOLEAN
    BY <2>1, Zenon
  <2>. QED
    BY <1>1, <2>1, <2>2, <2>3
<1>7. ASSUME NEW w \in Workers, NEW r, SubAsks(w, r) PROVE SubTyped'
  <2>1. r \in SubRequests /\ SubStarts(w, r) /\ v4' = v4
    BY <1>7, Zenon DEF SubAsks
  <2>. QED
    BY <1>1, <1>2, <1>3, <1>6, <2>1
<1>8. ASSUME NEW w \in Workers, NEW t, NEW r, SubCalls(w, t, r) PROVE SubTyped'
  <2>1. SubAnswers(w, t, r) /\ SubChange(t, v3')
    BY <1>8, Zenon DEF SubCalls
  <2>2. /\ v1' = v1 /\ v2' = v2 /\ v6' = v6 /\ v7' = v7 /\ v8' = v8
        /\ v5' = [v5 EXCEPT ![w] = r] /\ r \in SubRequests
        /\ v4' = v4 \/ \E e \in SubEvents : v4' = Append(v4, e)
    BY <2>1, Zenon DEF SubAnswers
  <2>3. v3' \in [status : {"active", "canceled"}, plan : Plan!Plans, ending : BOOLEAN,
                 items : Seq(BilledAddons), live : SUBSET Nat]
    <3>1. PICK s : s = v3'
      OBVIOUS
    <3>2. /\ s.status \in {"active", "canceled"} /\ s.plan \in Plan!Plans /\ s.ending \in BOOLEAN
          /\ s.items \in Seq(BilledAddons) /\ s.live \in SUBSET Nat
          /\ s = [status |-> s.status, plan |-> s.plan, ending |-> s.ending,
                  items |-> s.items, live |-> s.live]
      BY <2>1, <3>1, Zenon DEF SubChange
    <3>. QED
      BY <3>1, <3>2
  <2>4. v4' \in Seq(SubEvents)
    BY <1>1, <2>2, SubAppended
  <2>5. v5' \in [Workers -> SubWork]
    BY <1>3, <2>2, SubOthers
  <2>. QED
    BY <1>1, <1>2, <2>2, <2>3, <2>4, <2>5, Zenon
<1>9. ASSUME NEW w \in Workers, SubDrops(w) PROVE SubTyped'
  <2>1. SubLeaves(w) /\ SubRowsStay /\ v4' = v4 /\ v6' = v6 /\ v7' \in BOOLEAN /\ v8' \in BOOLEAN
    BY <1>9, Zenon DEF SubDrops
  <2>. QED
    BY <1>1, <1>2, <1>4, <2>1, Zenon DEF SubRowsStay
<1>10. ASSUME NEW w \in Workers, NEW t, SubCommits(w, t) PROVE SubTyped'
  <2>1. /\ v5[w] = t /\ t \in SubRequests /\ t.pc = "commit" /\ SubLeaves(w) /\ SubHistoryStays
        /\ v3' = v3 /\ v4' = v4 /\ v1' \in Plan!Row
        /\ t.kind = "attach" =>
              v2' = Append(v2, [addon |-> v3.items[t.at], status |-> "active", item |-> t.at])
        /\ t.kind \in Removals => \E s : SubRemoves(t, s)
        /\ t.kind \notin {"attach"} \cup Removals => v2' = v2
    BY <1>10, Zenon DEF SubCommits
  <2>2. v2' \in Seq(AddonRows)
    <3>1. CASE t.kind = "attach"
      <4>1. ~Handles(w) /\ Serves(w) /\ Commits(w, {"attach"})
        BY <2>1, <3>1 DEF Handles, Serves, Commits
      <4>2. t.at \in DOMAIN v3.items
        BY <2>1, <4>1, Zenon DEF SubItems
      <4>3. v3.items[t.at] \in BilledAddons
        BY <1>1, <4>2
      <4>4. t.at \in Nat
        BY <2>1 DEF SubRequests
      <4>5. [addon |-> v3.items[t.at], status |-> "active", item |-> t.at] \in AddonRows
        BY <4>3, <4>4 DEF AddonRows
      <4>6. PICK a : a = [addon |-> v3.items[t.at], status |-> "active", item |-> t.at]
        OBVIOUS
      <4>7. v2' = Append(v2, a) /\ a \in AddonRows
        BY <2>1, <3>1, <4>5, <4>6, Zenon
      <4>. QED
        BY <1>1, <4>7
    <3>2. CASE t.kind \in Removals
      BY <2>1, <3>2, Zenon DEF SubRemoves
    <3>. QED
      BY <1>1, <2>1, <3>1, <3>2
  <2>. QED
    BY <1>1, <1>2, <1>4, <1>5, <2>1, <2>2, Zenon
<1>11. ASSUME NEW w \in Workers, NEW r, SubDelivers(w, r) PROVE SubTyped'
  <2>1. v4 # <<>> /\ v4' = Tail(v4) /\ r \in SubHandlers /\ SubStarts(w, r)
    BY <1>11, Zenon DEF SubDelivers
  <2>2. v4' \in Seq(SubEvents)
    BY <1>1, <2>1, SubTaken
  <2>. QED
    BY <1>1, <1>2, <1>3, <1>6, <2>1, <2>2
<1>12. ASSUME NEW w \in Workers, NEW t, SubSees(w, t) PROVE SubTyped'
  <2>1. /\ SubLeaves(w) /\ SubHistoryStays /\ v2' = v2 /\ v3' = v3 /\ v4' = v4 /\ v1' \in Plan!Row
    BY <1>12, Zenon DEF SubSees
  <2>. QED
    BY <1>1, <1>2, <1>4, <1>5, <2>1, Zenon
<1>13. ASSUME NEW e, SubPeriod(e) PROVE SubTyped'
  <2>1. /\ v1' = v1 /\ v2' = v2 /\ v5' = v5 /\ SubHistoryStays
        /\ v4' = Append(v4, e) /\ e \in SubEvents
        /\ v3'.plan = v3.plan /\ v3'.ending = v3.ending /\ v3'.items = v3.items
        /\ v3' = [status |-> v3'.status, plan |-> v3'.plan, ending |-> v3'.ending,
                  items |-> v3'.items, live |-> v3'.live]
        /\ \/ v3'.status = "canceled" /\ v3'.live = {}
           \/ v3'.status = "active" /\ v3'.live = v3.live
    BY <1>13, Zenon DEF SubPeriod
  <2>2. v4' \in Seq(SubEvents)
    BY <1>1, <2>1, SubAppended
  <2>3. v3' \in [status : {"active", "canceled"}, plan : Plan!Plans, ending : BOOLEAN,
                 items : Seq(BilledAddons), live : SUBSET Nat]
    <3>1. PICK s : s = v3'
      OBVIOUS
    <3>2. /\ s.status \in {"active", "canceled"} /\ s.plan \in Plan!Plans /\ s.ending \in BOOLEAN
          /\ s.items \in Seq(BilledAddons) /\ s.live \in SUBSET Nat
          /\ s = [status |-> s.status, plan |-> s.plan, ending |-> s.ending,
                  items |-> s.items, live |-> s.live]
      BY <1>1, <2>1, <3>1
    <3>. QED
      BY <3>1, <3>2
  <2>. QED
    BY <1>1, <1>2, <1>5, <2>1, <2>2, <2>3, Zenon
<1>. QED
  BY <1>7, <1>8, <1>9, <1>10, <1>11, <1>12, <1>13, Zenon DEF SubStep

\* A worker that leaves is idle.
LEMMA SubIdle == Plan!Idle.pc = "idle"
  BY DEF Plan!Idle

LEMMA SubLeft ==
    ASSUME SubTyped, NEW w \in Workers, SubLeaves(w)
    PROVE  v5[w].pc # "idle" /\ v5'[w].pc = "idle" /\ \A u \in Workers : u # w => v5'[u] = v5[u]
<1>1. v5[w].pc # "idle" /\ v5' = [v5 EXCEPT ![w] = Plan!Idle]
  BY Zenon DEF SubLeaves, Serves
<1>2. v5'[w] = Plan!Idle /\ \A u \in Workers : u # w => v5'[u] = v5[u]
  BY <1>1, SubOthers
<1>. QED
  BY <1>1, <1>2, SubIdle, Zenon

\* Items and rows go on to agree.
LEMMA SubItemsKept ==
    ASSUME SubTyped, SubItems, SubStep
    PROVE  SubItems'
<1> DEFINE grows == \A n \in DOMAIN v3.items : n \in DOMAIN v3'.items /\ v3'.items[n] = v3.items[n]
           others(w) == \A u \in Workers : u # w => v5'[u] = v5[u]
           fits(r) ==
               /\ r.pc = "commit" /\ r.kind = "attach" =>
                     r.at \in DOMAIN v3'.items /\ v3'.items[r.at] \in r.addons
               /\ r.pc \notin {"idle", "handle"} =>
                     /\ r.kind = "attach" => \E a \in BilledAddons : r.addons = {a}
                     /\ r.kind \in Removals => r.at \in DOMAIN v2'
               /\ r.pc = "call" => r.kind # "reattach"
           rowsFit == \A i \in DOMAIN v2' : /\ v2'[i].item \in DOMAIN v3'.items
                                            /\ v2'[i].addon = v3'.items[v2'[i].item]
           oldFit == \A i \in DOMAIN v2 : /\ v2[i].item \in DOMAIN v3.items
                                          /\ v2[i].addon = v3.items[v2[i].item]
           old(r) ==
               /\ r.pc = "commit" /\ r.kind = "attach" =>
                     r.at \in DOMAIN v3.items /\ v3.items[r.at] \in r.addons
               /\ r.pc \notin {"idle", "handle"} =>
                     /\ r.kind = "attach" => \E a \in BilledAddons : r.addons = {a}
                     /\ r.kind \in Removals => r.at \in DOMAIN v2
               /\ r.pc = "call" => r.kind # "reattach"
<1>1. v3.live \subseteq DOMAIN v3.items /\ oldFit /\ \A u \in Workers : old(v5[u])
  BY DEF SubItems, Commits, Serves, Handles
<1>2. ASSUME v3'.live \subseteq DOMAIN v3'.items, rowsFit, \A u \in Workers : fits(v5'[u])
      PROVE  SubItems'
  BY <1>2 DEF SubItems, Commits, Serves, Handles
<1>3. ASSUME grows, DOMAIN v2 \subseteq DOMAIN v2', NEW u \in Workers PROVE fits(v5[u])
  BY <1>1, <1>3
<1>4. ASSUME v2' = v2, grows PROVE rowsFit /\ DOMAIN v2 \subseteq DOMAIN v2'
  BY <1>1, <1>4
<1>5. v3' = v3 => grows
  OBVIOUS
<1>. HIDE DEF grows, rowsFit, oldFit, fits, old
<1>6. ASSUME grows, DOMAIN v2 \subseteq DOMAIN v2', NEW w \in Workers, others(w), fits(v5'[w]),
             v3'.live \subseteq DOMAIN v3'.items, rowsFit
      PROVE  SubItems'
  <2>1. \A u \in Workers : fits(v5'[u])
    BY <1>3, <1>6
  <2>. QED
    BY <1>2, <1>6, <2>1
<1>7. ASSUME NEW r, r.pc \in {"idle", "handle"} PROVE fits(r)
  BY <1>7 DEF fits
<1>8. v2 \in Seq(AddonRows) /\ v3.items \in Seq(BilledAddons)
  BY DEF SubTyped
<1>9. ASSUME NEW w \in Workers, NEW r, SubAsks(w, r) PROVE SubItems'
  <2>1. /\ r \in SubRequests /\ SubStarts(w, r)
        /\ r.pc = "commit" <=> r.kind = "reattach"
        /\ r.kind = "attach" => \E a \in BilledAddons : r.addons = {a}
        /\ r.kind \in Removals => r.at \in LiveRows
    BY <1>9, Zenon DEF SubAsks
  <2>2. v1' = v1 /\ v2' = v2 /\ v3' = v3 /\ v5' = [v5 EXCEPT ![w] = r]
    BY <2>1, Zenon DEF SubStarts
  <2>3. v5'[w] = r /\ others(w)
    BY <2>2, SubOthers
  <2>4. r.pc \in {"call", "commit"}
    BY <2>1 DEF SubRequests
  <2>5. fits(r)
    <3>1. r.kind \in Removals => r.at \in DOMAIN v2'
      BY <2>1, <2>2 DEF LiveRows
    <3>2. r.pc = "call" => r.kind # "reattach"
      BY <2>1, <2>4
    <3>3. r.pc = "commit" => r.kind # "attach"
      BY <2>1
    <3>. QED
      BY <2>1, <3>1, <3>2, <3>3 DEF fits
  <2>. QED
    BY <1>1, <1>4, <1>5, <1>6, <2>2, <2>3, <2>5
<1>10. ASSUME NEW w \in Workers, NEW t, NEW r, SubCalls(w, t, r) PROVE SubItems'
  <2>1. SubAnswers(w, t, r) /\ SubChange(t, v3')
    BY <1>10, Zenon DEF SubCalls
  <2>2. /\ v2' = v2 /\ v5[w] = t /\ v5' = [v5 EXCEPT ![w] = r]
        /\ t.pc = "call" /\ r.pc = "commit" /\ r.kind = t.kind /\ r.addons = t.addons
        /\ r.at = (IF t.kind = "attach" THEN Len(v3.items) + 1 ELSE t.at)
    BY <2>1, Zenon DEF SubAnswers
  <2>3. /\ t.kind # "attach" => v3'.items = v3.items
        /\ t.kind = "attach" =>
              \E a \in BilledAddons : t.addons = {a} /\ v3'.items = Append(v3.items, a)
        /\ v3'.live = (IF t.kind = "cancel_now" THEN {}
                       ELSE IF t.kind = "attach" THEN v3.live \cup {Len(v3.items) + 1}
                       ELSE IF t.kind = "detach_now" THEN v3.live \ {v2[t.at].item}
                       ELSE v3.live)
    BY <2>1, Zenon DEF SubChange
  <2>4. v5'[w] = r /\ others(w)
    BY <2>2, SubOthers
  <2>5. old(t)
    BY <1>1, <2>2
  <2>6. CASE t.kind = "attach"
    <3>1. PICK a \in BilledAddons : t.addons = {a} /\ v3'.items = Append(v3.items, a)
      BY <2>3, <2>6
    <3>2. PICK n : n = Len(v3.items) + 1
      OBVIOUS
    <3>3. /\ DOMAIN v3'.items = DOMAIN v3.items \cup {n} /\ v3'.items[n] = a
          /\ \A i \in DOMAIN v3.items : v3'.items[i] = v3.items[i]
      <4>1. PICK q : q = Append(v3.items, a)
        OBVIOUS
      <4>2. PICK p : p = v3.items
        OBVIOUS
      <4>3. p \in Seq(BilledAddons) /\ q = Append(p, a) /\ n = Len(p) + 1
        BY <1>8, <3>2, <4>1, <4>2
      <4>4. DOMAIN q = DOMAIN p \cup {n} /\ q[n] = a /\ \A i \in DOMAIN p : q[i] = p[i]
        BY <4>3
      <4>. QED
        BY <3>1, <4>1, <4>2, <4>4
    <3>4. grows
      BY <3>3 DEF grows
    <3>5. v3'.live = v3.live \cup {n} /\ "attach" # "cancel_now"
      BY <2>3, <2>6, <3>2
    <3>6. r.at = n
      BY <2>2, <2>6, <3>2
    <3>7. fits(r)
      BY <2>2, <2>6, <3>1, <3>3, <3>6 DEF fits, Removals
    <3>. QED
      BY <1>1, <1>4, <1>6, <2>2, <2>4, <3>3, <3>4, <3>5, <3>7
  <2>7. CASE t.kind # "attach"
    <3>1. v3'.items = v3.items /\ r.at = t.at
      BY <2>2, <2>3, <2>7
    <3>2. grows
      BY <3>1 DEF grows
    <3>3. v3'.live \subseteq v3.live
      BY <2>3, <2>7
    <3>4. fits(r)
      BY <2>2, <2>5, <2>7, <3>1 DEF fits, old
    <3>. QED
      BY <1>1, <1>4, <1>6, <2>2, <2>4, <3>1, <3>2, <3>3, <3>4
  <2>. QED
    BY <2>6, <2>7
<1>11. ASSUME NEW w \in Workers, SubDrops(w) PROVE SubItems'
  <2>1. SubLeaves(w) /\ v2' = v2 /\ v3' = v3
    BY <1>11, Zenon DEF SubDrops, SubRowsStay
  <2>2. v5'[w].pc = "idle" /\ others(w)
    BY <2>1, SubLeft
  <2>. QED
    BY <1>1, <1>4, <1>5, <1>6, <1>7, <2>1, <2>2
<1>12. ASSUME NEW w \in Workers, NEW t, SubCommits(w, t) PROVE SubItems'
  <2>1. /\ v5[w] = t /\ t \in SubRequests /\ t.pc = "commit" /\ SubLeaves(w)
        /\ v3' = v3
        /\ t.kind = "attach" =>
              v2' = Append(v2, [addon |-> v3.items[t.at], status |-> "active", item |-> t.at])
        /\ t.kind \in Removals => \E s : SubRemoves(t, s)
        /\ t.kind \notin {"attach"} \cup Removals => v2' = v2
    BY <1>12, Zenon DEF SubCommits
  <2>2. v5'[w].pc = "idle" /\ others(w)
    BY <2>1, SubLeft
  <2>3. old(t)
    BY <1>1, <2>1
  <2>4. rowsFit /\ DOMAIN v2 \subseteq DOMAIN v2'
    <3>1. CASE t.kind = "attach"
      <4>1. t.at \in DOMAIN v3.items
        BY <2>1, <2>3, <3>1 DEF old
      <4>2. PICK b : b = [addon |-> v3.items[t.at], status |-> "active", item |-> t.at]
        OBVIOUS
      <4>3. v2' = Append(v2, b) /\ b.item = t.at /\ b.addon = v3.items[t.at]
        BY <2>1, <3>1, <4>2
      <4>4. /\ DOMAIN v2' = DOMAIN v2 \cup {Len(v2) + 1} /\ v2'[Len(v2) + 1] = b
            /\ \A i \in DOMAIN v2 : v2'[i] = v2[i]
        BY <1>8, <4>3
      <4>. QED
        BY <1>1, <2>1, <4>1, <4>3, <4>4 DEF rowsFit, oldFit
    <3>2. CASE t.kind \in Removals
      <4>1. PICK s : SubRemoves(t, s)
        BY <2>1, <3>2
      <4>2. /\ DOMAIN v2' = DOMAIN v2
            /\ \A i \in DOMAIN v2 : v2'[i].addon = v2[i].addon /\ v2'[i].item = v2[i].item
        BY <4>1, Zenon DEF SubRemoves
      <4>. QED
        BY <1>1, <2>1, <4>2 DEF rowsFit, oldFit
    <3>3. CASE t.kind \notin {"attach"} \cup Removals
      BY <1>4, <1>5, <2>1, <3>3
    <3>. QED
      BY <3>1, <3>2, <3>3
  <2>. QED
    BY <1>1, <1>5, <1>6, <1>7, <2>1, <2>2, <2>4
<1>13. ASSUME NEW w \in Workers, NEW r, SubDelivers(w, r) PROVE SubItems'
  <2>1. r \in SubHandlers /\ SubStarts(w, r)
    BY <1>13, Zenon DEF SubDelivers
  <2>2. v2' = v2 /\ v3' = v3 /\ v5' = [v5 EXCEPT ![w] = r]
    BY <2>1, Zenon DEF SubStarts
  <2>3. v5'[w] = r /\ others(w)
    BY <2>2, SubOthers
  <2>4. r.pc = "handle"
    BY <2>1 DEF SubHandlers
  <2>. QED
    BY <1>1, <1>4, <1>5, <1>6, <1>7, <2>2, <2>3, <2>4
<1>14. ASSUME NEW w \in Workers, NEW t, SubSees(w, t) PROVE SubItems'
  <2>1. SubLeaves(w) /\ v2' = v2 /\ v3' = v3
    BY <1>14, Zenon DEF SubSees
  <2>2. v5'[w].pc = "idle" /\ others(w)
    BY <2>1, SubLeft
  <2>. QED
    BY <1>1, <1>4, <1>5, <1>6, <1>7, <2>1, <2>2
<1>15. ASSUME NEW e, SubPeriod(e) PROVE SubItems'
  <2>1. /\ v2' = v2 /\ v5' = v5 /\ v3'.items = v3.items /\ v3'.live \subseteq v3.live
    BY <1>15, SMT DEF SubPeriod
  <2>2. grows
    BY <2>1 DEF grows
  <2>3. \A u \in Workers : fits(v5'[u])
    BY <1>3, <1>4, <2>1, <2>2
  <2>. QED
    BY <1>1, <1>2, <1>4, <2>1, <2>2, <2>3
<1>. QED
  BY <1>9, <1>10, <1>11, <1>12, <1>13, <1>14, <1>15, Zenon DEF SubStep

\* A worker that takes work up while nothing overlaps.
LEMMA SubStarted ==
    ASSUME SubTyped, NEW w \in Workers, NEW r, SubStarts(w, r)
    PROVE  /\ v5[w].pc = "idle" /\ v5'[w] = r /\ \A u \in Workers : u # w => v5'[u] = v5[u]
           /\ r.seen = v1 /\ v1' = v1 /\ v2' = v2 /\ v3' = v3 /\ v7' = v7 /\ v8' = v8
           /\ v6 => v6'
           /\ ~v6' => \A u \in Workers : u # w /\ Serves(u) =>
                          /\ Handles(u) <=> ~(r.pc = "handle")
                          /\ r.kind # "deleted" /\ v5[u].kind # "deleted"
<1>1. /\ v5[w].pc = "idle" /\ v5' = [v5 EXCEPT ![w] = r] /\ r.seen = v1
      /\ v6' = (v6 \/ \E v \in Workers \ {w} : Plan!Meets(r.pc, r.kind, v))
      /\ v1' = v1 /\ v2' = v2 /\ v3' = v3 /\ v7' = v7 /\ v8' = v8
  BY Zenon DEF SubStarts
<1>2. v5'[w] = r /\ \A u \in Workers : u # w => v5'[u] = v5[u]
  BY <1>1, SubOthers
<1>3. v6 => v6'
  BY <1>1, Zenon
<1>4. ASSUME ~v6', NEW u \in Workers, u # w, Serves(u)
      PROVE  (Handles(u) <=> ~(r.pc = "handle")) /\ r.kind # "deleted" /\ v5[u].kind # "deleted"
  <2>1. ~Plan!Meets(r.pc, r.kind, u)
    BY <1>1, <1>4, Zenon
  <2>. QED
    BY <1>4, <2>1 DEF Plan!Meets, Plan!At, Serves, Handles
<1>. QED
  BY <1>1, <1>2, <1>3, <1>4

\* What does not overlap stays apart.
LEMMA SubApartKept ==
    ASSUME SubTyped, SubApart, SubStep
    PROVE  SubApart'
<1>1. /\ ~v6 => \A u, w \in Workers : u # w /\ Serves(u) /\ Serves(w) =>
                    (Handles(u) <=> ~Handles(w)) /\ v5[u].kind # "deleted"
      /\ \A w \in Workers : Serves(w) /\ v1.linked => v5[w].seen.linked
  BY DEF SubApart, Handles
<1>2. ASSUME NEW w \in Workers, v6 => v6', v1'.linked => v1.linked,
             \A u \in Workers : u # w => v5'[u] = v5[u],
             v5'[w].pc = "idle" \/
                /\ ~v6' => \A u \in Workers : u # w /\ Serves(u) =>
                               /\ Handles(u) <=> ~(v5'[w].pc = "handle")
                               /\ v5'[w].kind # "deleted" /\ v5[u].kind # "deleted"
                /\ v1'.linked => v5'[w].seen.linked
      PROVE  SubApart'
  <2>1. ASSUME ~v6', NEW u \in Workers, NEW v \in Workers, u # v, Serves(u)', Serves(v)'
        PROVE  Handles(u)' # Handles(v)' /\ (v5[u].kind # "deleted")'
    <3>1. CASE u # w /\ v # w
      BY <1>1, <1>2, <2>1, <3>1 DEF Serves, Handles
    <3>2. CASE u = w
      BY <1>1, <1>2, <2>1, <3>2 DEF Serves, Handles
    <3>3. CASE v = w
      BY <1>1, <1>2, <2>1, <3>3 DEF Serves, Handles
    <3>. QED
      BY <3>1, <3>2, <3>3
  <2>2. ASSUME NEW u \in Workers, Serves(u)', v1'.linked PROVE v5'[u].seen.linked
    BY <1>1, <1>2, <2>2 DEF Serves
  <2>. QED
    BY <2>1, <2>2 DEF SubApart
<1>3. ASSUME NEW w \in Workers, NEW r, SubStarts(w, r) PROVE SubApart'
  BY <1>2, <1>3, SubStarted
<1>4. ASSUME NEW w \in Workers, SubLeaves(w), v6' = v6, v1'.linked => v1.linked
      PROVE  SubApart'
  BY <1>2, <1>4, SubLeft
<1>5. ASSUME NEW w \in Workers, NEW r, SubAsks(w, r) PROVE SubApart'
  BY <1>3, <1>5, Zenon DEF SubAsks
<1>6. ASSUME NEW w \in Workers, NEW t, NEW r, SubCalls(w, t, r) PROVE SubApart'
  <2>1. /\ v1' = v1 /\ v6' = v6 /\ v5[w] = t /\ v5' = [v5 EXCEPT ![w] = r]
        /\ t.pc = "call" /\ r.pc = "commit" /\ r.kind = t.kind /\ r.seen = t.seen
    BY <1>6, Zenon DEF SubCalls, SubAnswers
  <2>2. v5'[w] = r /\ \A u \in Workers : u # w => v5'[u] = v5[u]
    BY <2>1, SubOthers
  <2>3. Serves(w) /\ ~Handles(w)
    BY <2>1 DEF Serves, Handles
  <2>4. ~v6' => \A u \in Workers : u # w /\ Serves(u) =>
                    /\ Handles(u) <=> ~(r.pc = "handle")
                    /\ r.kind # "deleted" /\ v5[u].kind # "deleted"
    BY <1>1, <2>1, <2>3
  <2>5. v1'.linked => r.seen.linked
    BY <1>1, <2>1, <2>3
  <2>. QED
    BY <1>2, <2>1, <2>2, <2>4, <2>5
<1>7. ASSUME NEW w \in Workers, SubDrops(w) PROVE SubApart'
  BY <1>4, <1>7, Zenon DEF SubDrops, SubRowsStay
<1>8. ASSUME NEW w \in Workers, NEW t, SubCommits(w, t) PROVE SubApart'
  BY <1>4, <1>8, Zenon DEF SubCommits, SubHistoryStays
<1>9. ASSUME NEW w \in Workers, NEW r, SubDelivers(w, r) PROVE SubApart'
  BY <1>3, <1>9, Zenon DEF SubDelivers
<1>10. ASSUME NEW w \in Workers, NEW t, SubSees(w, t) PROVE SubApart'
  <2>1. /\ SubLeaves(w) /\ v6' = v6 /\ t \in SubHandlers
        /\ ~t.seen.linked => v1' = v1
        /\ t.seen.linked /\ t.kind = "updated" => v1'.linked = v1.linked
        /\ t.seen.linked /\ t.kind = "deleted" => ~v1'.linked
    BY <1>10, Zenon DEF SubSees, SubHistoryStays
  <2>2. t.kind \in {"updated", "deleted"}
    BY <2>1 DEF SubHandlers
  <2>3. v1'.linked => v1.linked
    BY <2>1, <2>2
  <2>. QED
    BY <1>4, <2>1, <2>3
<1>11. ASSUME NEW e, SubPeriod(e) PROVE SubApart'
  <2>1. v1' = v1 /\ v5' = v5 /\ v6' = v6
    BY <1>11, Zenon DEF SubPeriod, SubHistoryStays
  <2>. QED
    BY <1>1, <2>1 DEF SubApart, Serves, Handles
<1>. QED
  BY <1>5, <1>6, <1>7, <1>8, <1>9, <1>10, <1>11, Zenon DEF SubStep

\* While nothing overlaps, no second request is at work.
LEMMA SubAlone ==
    ASSUME SubApart, ~v6, NEW w \in Workers, Serves(w), NEW u \in Workers, u # w, Serves(u)
    PROVE  /\ v5[w].pc = "handle" <=> v5[u].pc # "handle"
           /\ v5[u].kind # "deleted" /\ v5[w].kind # "deleted"
  BY DEF SubApart, Serves, Handles

\* The ending goes on to be told.
LEMMA EndingKept ==
    ASSUME SubTyped, SubApart, EndingTold, SubStep
    PROVE  EndingTold'
<1> SUFFICES ASSUME ~v6', ~v8', v1'.linked
             PROVE  /\ v4' # <<>> => v4'[Len(v4')].ending = v3'.ending
                    /\ \A u \in Workers : v5'[u].pc = "handle" /\ v4' = <<>> =>
                          /\ v5'[u].at.ending = v3'.ending
                          /\ v1'.ending = v5'[u].seen.ending \/ v1'.ending = v3'.ending
                    /\ v4' = <<>> /\ (\A u \in Workers : v5'[u].pc # "handle") => v1'.ending = v3'.ending
                    /\ \A u \in Workers : /\ v5'[u].pc = "commit" /\ v5'[u].kind = "cancel" => v3'.ending
                                          /\ v5'[u].pc = "commit" /\ v5'[u].kind = "resume" => ~v3'.ending
  BY DEF EndingTold, Handles, Commits
<1> DEFINE last == v4 # <<>> => v4[Len(v4)].ending = v3.ending
           handled == \A u \in Workers : v5[u].pc = "handle" /\ v4 = <<>> =>
                          /\ v5[u].at.ending = v3.ending
                          /\ v1.ending = v5[u].seen.ending \/ v1.ending = v3.ending
           known == v4 = <<>> /\ (\A u \in Workers : v5[u].pc # "handle") => v1.ending = v3.ending
           asked == \A u \in Workers : /\ v5[u].pc = "commit" /\ v5[u].kind = "cancel" => v3.ending
                                       /\ v5[u].pc = "commit" /\ v5[u].kind = "resume" => ~v3.ending
<1>1. ~v6 /\ ~v8 /\ v1.linked => last /\ handled /\ known /\ asked
  BY DEF EndingTold, Handles, Commits
<1>2. ASSUME last', handled', known', asked'
      PROVE  /\ v4' # <<>> => v4'[Len(v4')].ending = v3'.ending
             /\ \A u \in Workers : v5'[u].pc = "handle" /\ v4' = <<>> =>
                   /\ v5'[u].at.ending = v3'.ending
                   /\ v1'.ending = v5'[u].seen.ending \/ v1'.ending = v3'.ending
             /\ v4' = <<>> /\ (\A u \in Workers : v5'[u].pc # "handle") => v1'.ending = v3'.ending
             /\ \A u \in Workers : /\ v5'[u].pc = "commit" /\ v5'[u].kind = "cancel" => v3'.ending
                                   /\ v5'[u].pc = "commit" /\ v5'[u].kind = "resume" => ~v3'.ending
  BY <1>2
<1>3. /\ v4 \in Seq(SubEvents) /\ v1 \in Plan!Row /\ v1.ending \in BOOLEAN /\ v3.ending \in BOOLEAN
  BY DEF SubTyped, Plan!Row
<1>4. ASSUME NEW w \in Workers, NEW r, SubAsks(w, r)
      PROVE  last' /\ handled' /\ known' /\ asked'
  <2>1. /\ r \in SubRequests /\ SubStarts(w, r) /\ v4' = v4
        /\ r.pc = "commit" <=> r.kind = "reattach"
    BY <1>4, Zenon DEF SubAsks
  <2>2. /\ v5[w].pc = "idle" /\ v5'[w] = r /\ \A u \in Workers : u # w => v5'[u] = v5[u]
        /\ v1' = v1 /\ v3' = v3 /\ ~v6 /\ ~v8
    BY <2>1, SubStarted
  <2>3. r.pc # "handle"
    BY <2>1 DEF SubRequests
  <2>4. last /\ handled /\ known /\ asked
    BY <1>1, <2>2
  <2>5. \A u \in Workers : v5'[u].pc = "handle" => v5[u].pc = "handle" /\ v5'[u] = v5[u]
    BY <2>2, <2>3
  <2>6. \A u \in Workers : v5[u].pc = "handle" => v5'[u].pc = "handle"
    BY <2>2
  <2>7. \A u \in Workers : v5'[u].pc = "commit" /\ v5'[u].kind \in {"cancel", "resume"} => v5'[u] = v5[u]
    BY <2>1, <2>2
  <2>. QED
    BY <2>1, <2>2, <2>4, <2>5, <2>6, <2>7
<1>5. ASSUME NEW w \in Workers, NEW t, NEW r, SubCalls(w, t, r)
      PROVE  last' /\ handled' /\ known' /\ asked'
  <2>1. SubAnswers(w, t, r) /\ SubChange(t, v3')
    BY <1>5, Zenon DEF SubCalls
  <2>2. /\ v1' = v1 /\ v6' = v6 /\ v8' = v8 /\ v5[w] = t /\ v5' = [v5 EXCEPT ![w] = r]
        /\ t.pc = "call" /\ r.pc = "commit" /\ r.kind = t.kind /\ r.seen = t.seen
        /\ t.kind = "detach" => v4' = v4
        /\ t.kind # "detach" =>
              \E e \in SubEvents : v4' = Append(v4, e) /\ e.ending = v3'.ending
    BY <2>1, Zenon DEF SubAnswers
  <2>3. v3'.ending = (IF t.kind = "cancel" THEN TRUE
                      ELSE IF t.kind = "resume" THEN FALSE ELSE v3.ending)
    BY <2>1, Zenon DEF SubChange
  <2>4. v5'[w] = r /\ \A u \in Workers : u # w => v5'[u] = v5[u]
    BY <2>2, SubOthers
  <2>5. last /\ handled /\ known /\ asked
    BY <1>1, <2>2
  <2>6. \A u \in Workers : u # w => v5[u].pc # "commit"
    <3>1. Serves(w)
      BY <2>2 DEF Serves
    <3>2. ASSUME NEW u \in Workers, u # w PROVE v5[u].pc # "commit"
      BY <2>2, <3>1, <3>2, SubAlone DEF Serves
    <3>. QED
      BY <3>2
  <2>7. asked'
    BY <2>2, <2>3, <2>4, <2>6
  <2>8. CASE t.kind = "detach"
    <3>1. v4' = v4 /\ v3'.ending = v3.ending
      BY <2>2, <2>3, <2>8
    <3>2. \A u \in Workers : v5'[u].pc = "handle" => v5[u].pc = "handle" /\ v5'[u] = v5[u]
      BY <2>2, <2>4
    <3>3. \A u \in Workers : v5[u].pc = "handle" => v5'[u].pc = "handle"
      BY <2>2, <2>4
    <3>. QED
      BY <2>2, <2>5, <2>7, <3>1, <3>2, <3>3
  <2>9. CASE t.kind # "detach"
    <3>1. PICK e \in SubEvents : v4' = Append(v4, e) /\ e.ending = v3'.ending
      BY <2>2, <2>9
    <3>2. PICK q : q = v4'
      OBVIOUS
    <3>3. q # <<>> /\ q[Len(q)] = e
      BY <1>3, <3>1, <3>2, SubAppended
    <3>. QED
      BY <2>7, <3>1, <3>2, <3>3
  <2>. QED
    BY <2>8, <2>9
<1>6. ASSUME NEW w \in Workers, SubDrops(w)
      PROVE  last' /\ handled' /\ known' /\ asked'
  <2>1. /\ SubLeaves(w) /\ v1' = v1 /\ v3' = v3 /\ v4' = v4 /\ ~v6 /\ ~v8 /\ v5[w].pc # "handle"
    BY <1>6, Zenon DEF SubDrops, SubRowsStay, Handles
  <2>2. v5'[w].pc = "idle" /\ \A u \in Workers : u # w => v5'[u] = v5[u]
    BY <2>1, SubLeft
  <2>3. last /\ handled /\ known /\ asked
    BY <1>1, <2>1
  <2>. QED
    BY <2>1, <2>2, <2>3
<1>7. ASSUME NEW w \in Workers, NEW t, SubCommits(w, t)
      PROVE  last' /\ handled' /\ known' /\ asked'
  <2>1. /\ v5[w] = t /\ t.pc = "commit" /\ SubLeaves(w) /\ v6' = v6 /\ v8' = v8
        /\ v3' = v3 /\ v4' = v4 /\ v1' \in Plan!Row /\ v1'.linked = v1.linked
        /\ t.kind = "cancel" => v1'.ending \in {v1.ending, TRUE}
        /\ t.kind = "resume" => v1'.ending \in {v1.ending, FALSE}
        /\ t.kind \notin {"cancel", "resume"} => v1'.ending = v1.ending
    BY <1>7, Zenon DEF SubCommits, SubHistoryStays
  <2>2. v5'[w].pc = "idle" /\ \A u \in Workers : u # w => v5'[u] = v5[u]
    BY <2>1, SubLeft
  <2>3. last /\ handled /\ known /\ asked
    BY <1>1, <2>1
  <2>4. v1'.ending = v1.ending \/ v1'.ending = v3.ending
    BY <1>3, <2>1, <2>3
  <2>. QED
    BY <2>1, <2>2, <2>3, <2>4
<1>8. ASSUME NEW w \in Workers, NEW r, SubDelivers(w, r)
      PROVE  last' /\ handled' /\ known' /\ asked'
  <2>1. /\ v4 # <<>> /\ v4' = Tail(v4)
        /\ r \in SubHandlers /\ SubStarts(w, r) /\ r.at = Head(v4)
    BY <1>8, Zenon DEF SubDelivers
  <2>2. /\ v5[w].pc = "idle" /\ v5'[w] = r /\ \A u \in Workers : u # w => v5'[u] = v5[u]
        /\ r.seen = v1 /\ v1' = v1 /\ v3' = v3 /\ ~v6 /\ ~v8
        /\ \A u \in Workers : u # w /\ Serves(u) => (Handles(u) <=> ~(r.pc = "handle"))
    BY <2>1, SubStarted
  <2>3. r.pc = "handle"
    BY <2>1 DEF SubHandlers
  <2>4. last /\ asked
    BY <1>1, <2>2
  <2>5. \A u \in Workers : u # w => v5'[u].pc # "handle"
    BY <2>2, <2>3 DEF Serves, Handles
  <2>6. PICK q : q = v4'
    OBVIOUS
  <2>7. /\ Len(v4) \in Nat /\ Head(v4) = v4[1]
        /\ q = <<>> <=> Len(v4) = 1
        /\ q # <<>> => q[Len(q)] = v4[Len(v4)]
    BY <1>3, <2>1, <2>6, SubTaken
  <2>8. last'
    BY <2>1, <2>2, <2>4, <2>6, <2>7
  <2>9. v4' = <<>> => r.at.ending = v3.ending
    BY <2>1, <2>4, <2>6, <2>7
  <2>10. handled'
    BY <2>2, <2>5, <2>9
  <2>. QED
    BY <2>2, <2>3, <2>4, <2>8, <2>10
<1>9. ASSUME NEW w \in Workers, NEW t, SubSees(w, t)
      PROVE  last' /\ handled' /\ known' /\ asked'
  <2>1. /\ v5[w] = t /\ t \in SubHandlers /\ v5[w].pc = "handle" /\ SubLeaves(w)
        /\ v6' = v6 /\ v8' = v8 /\ v3' = v3 /\ v4' = v4
        /\ ~t.seen.linked => v1' = v1
        /\ t.seen.linked /\ t.kind = "updated" =>
             /\ v1'.linked = v1.linked
             /\ v1'.ending = IF t.at.ending = t.seen.ending THEN v1.ending ELSE t.at.ending
        /\ t.seen.linked /\ t.kind = "deleted" => ~v1'.linked
    BY <1>9, Zenon DEF SubSees, SubHistoryStays, Handles
  <2>2. t.kind \in {"updated", "deleted"}
    BY <2>1 DEF SubHandlers
  <2>3. v1.linked /\ (t.seen.linked => t.kind = "updated")
    BY <2>1, <2>2
  <2>4. Serves(w)
    BY <2>1 DEF Serves
  <2>5. t.seen.linked
    BY <2>1, <2>3, <2>4 DEF SubApart
  <2>6. v5'[w].pc = "idle" /\ \A u \in Workers : u # w => v5'[u] = v5[u]
    BY <2>1, SubLeft
  <2>7. last /\ handled /\ known /\ asked
    BY <1>1, <2>1, <2>3
  <2>8. \A u \in Workers : v5'[u].pc # "handle"
    <3>1. ASSUME NEW u \in Workers, u # w PROVE v5[u].pc # "handle"
      BY <2>1, <2>4, <3>1, SubAlone DEF Serves
    <3>. QED
      BY <2>6, <3>1
  <2>9. v4 = <<>> => v1'.ending = v3.ending
    BY <2>1, <2>3, <2>5, <2>7
  <2>. QED
    BY <2>1, <2>6, <2>7, <2>8, <2>9
<1>10. ASSUME NEW e, SubPeriod(e)
       PROVE  last' /\ handled' /\ known' /\ asked'
  <2>1. /\ v1' = v1 /\ v5' = v5 /\ v6' = v6 /\ v8' = v8
        /\ v4' = Append(v4, e) /\ e \in SubEvents /\ e.ending = v3.ending /\ v3'.ending = v3.ending
    BY <1>10, Zenon DEF SubPeriod, SubHistoryStays
  <2>2. last /\ handled /\ known /\ asked
    BY <1>1, <2>1
  <2>3. PICK q : q = v4'
    OBVIOUS
  <2>4. q # <<>> /\ q[Len(q)] = e
    BY <1>3, <2>1, <2>3, SubAppended
  <2>. QED
    BY <2>1, <2>2, <2>3, <2>4
<1>. HIDE DEF last, handled, known, asked
<1>. QED
  BY <1>2, <1>4, <1>5, <1>6, <1>7, <1>8, <1>9, <1>10, Zenon DEF SubStep

\* Of an active subscription.
LEMMA ActivePlanKept ==
    ASSUME SubTyped, SubApart, PlanTold, SubStep, ~v6', ~v7', ~v8', v3'.status = "active"
    PROVE  ActivePlan'
<1> DEFINE linked == v1.linked
           events == \A i \in DOMAIN v4 : v4[i].kind # "deleted"
           work == \A u \in Workers : v5[u].pc # "idle" => v5[u].kind # "deleted"
           seen == \A u \in Workers : v5[u].pc # "idle" /\ v5[u].kind = "change" =>
                                          v5[u].seen.plan = v1.plan
           asked == \A u \in Workers : v5[u].pc = "commit" /\ v5[u].kind = "change" =>
                                           v3.plan = v5[u].plan
           same == (\A u \in Workers : ~(v5[u].pc = "commit" /\ v5[u].kind = "change")) =>
                       v1.plan = v3.plan
           all == linked /\ events /\ work /\ seen /\ asked /\ same
<1>1. ~v6 /\ ~v7 /\ ~v8 /\ v3.status = "active" => all
  BY DEF PlanTold, ActivePlan, Serves, Commits
<1>2. ASSUME linked', events', work', seen', asked', same' PROVE ActivePlan'
  BY <1>2 DEF ActivePlan, Serves, Commits
<1>3. /\ v4 \in Seq(SubEvents) /\ v1 \in Plan!Row
  BY DEF SubTyped
<1>4. ASSUME NEW w \in Workers, NEW r, SubAsks(w, r) PROVE ActivePlan'
  <2>1. /\ r \in SubRequests /\ SubStarts(w, r) /\ v4' = v4
        /\ r.pc = "commit" <=> r.kind = "reattach"
    BY <1>4, Zenon DEF SubAsks
  <2>2. /\ v5[w].pc = "idle" /\ v5'[w] = r /\ \A u \in Workers : u # w => v5'[u] = v5[u]
        /\ r.seen = v1 /\ v1' = v1 /\ v3' = v3 /\ ~v6 /\ ~v7 /\ ~v8
    BY <2>1, SubStarted
  <2>3. r.kind # "deleted"
    BY <2>1 DEF SubRequests, SubKinds
  <2>4. all
    BY <1>1, <2>2
  <2>5. linked' /\ events'
    BY <2>1, <2>2, <2>4
  <2>6. work' /\ seen'
    BY <2>2, <2>3, <2>4
  <2>7. asked' /\ same'
    BY <2>1, <2>2, <2>4
  <2>. QED
    BY <1>2, <2>5, <2>6, <2>7
<1>5. ASSUME NEW w \in Workers, NEW t, NEW r, SubCalls(w, t, r) PROVE ActivePlan'
  <2>1. SubAnswers(w, t, r) /\ SubChange(t, v3')
    BY <1>5, Zenon DEF SubCalls
  <2>2. /\ v1' = v1 /\ v6' = v6 /\ v7' = v7 /\ v8' = v8 /\ v5[w] = t /\ v5' = [v5 EXCEPT ![w] = r]
        /\ t.pc = "call" /\ r.pc = "commit" /\ r.kind = t.kind /\ r.seen = t.seen /\ r.plan = t.plan
        /\ t.kind = "detach" => v4' = v4
        /\ t.kind # "detach" =>
              \E e \in SubEvents : /\ v4' = Append(v4, e)
                                   /\ e.kind = IF t.kind = "cancel_now" THEN "deleted" ELSE "updated"
    BY <2>1, Zenon DEF SubAnswers
  <2>3. /\ v3'.plan = (IF t.kind = "change" THEN t.plan ELSE v3.plan)
        /\ v3'.status = (IF t.kind = "cancel_now" THEN "canceled" ELSE v3.status)
    BY <2>1, Zenon DEF SubChange
  <2>4. v5'[w] = r /\ \A u \in Workers : u # w => v5'[u] = v5[u]
    BY <2>2, SubOthers
  <2>5. t.kind # "cancel_now" /\ v3.status = "active"
    BY <2>3
  <2>6. all
    BY <1>1, <2>2, <2>5
  <2>7. \A u \in Workers : u # w => v5[u].pc # "commit"
    <3>1. ASSUME NEW u \in Workers, u # w PROVE v5[u].pc # "commit"
      BY <2>2, <3>1, SubAlone DEF Serves
    <3>. QED
      BY <3>1
  <2>8. linked' /\ events'
    <3>1. CASE t.kind = "detach"
      BY <2>2, <2>6, <3>1
    <3>2. CASE t.kind # "detach"
      <4>1. PICK e \in SubEvents : v4' = Append(v4, e) /\ e.kind = "updated"
        BY <2>2, <2>5, <3>2
      <4>2. PICK q : q = v4'
        OBVIOUS
      <4>3. \A i \in DOMAIN q : q[i] = e \/ (i \in DOMAIN v4 /\ q[i] = v4[i])
        BY <1>3, <4>1, <4>2, SubAppended
      <4>. QED
        BY <2>2, <2>6, <4>1, <4>2, <4>3
    <3>. QED
      BY <3>1, <3>2
  <2>9. work' /\ seen'
    BY <2>2, <2>4, <2>6
  <2>10. asked' /\ same'
    BY <2>2, <2>3, <2>4, <2>6, <2>7
  <2>. QED
    BY <1>2, <2>8, <2>9, <2>10
<1>6. ASSUME NEW w \in Workers, SubDrops(w) PROVE ActivePlan'
  <2>1. /\ SubLeaves(w) /\ v1' = v1 /\ v3' = v3 /\ v4' = v4 /\ ~v6 /\ ~v7 /\ ~v8
        /\ v5[w].pc # "commit"
    BY <1>6, Zenon DEF SubDrops, SubRowsStay
  <2>2. v5'[w].pc = "idle" /\ \A u \in Workers : u # w => v5'[u] = v5[u]
    BY <2>1, SubLeft
  <2>3. all
    BY <1>1, <2>1
  <2>. QED
    BY <1>2, <2>1, <2>2, <2>3
<1>7. ASSUME NEW w \in Workers, NEW t, SubCommits(w, t) PROVE ActivePlan'
  <2>1. /\ v5[w] = t /\ t \in SubRequests /\ t.pc = "commit" /\ SubLeaves(w)
        /\ v6' = v6 /\ v7' = v7 /\ v8' = v8
        /\ v3' = v3 /\ v4' = v4 /\ v1'.linked = v1.linked
        /\ v1'.plan = (IF t.kind # "change" \/ t.plan = t.seen.plan THEN v1.plan ELSE t.plan)
    BY <1>7, Zenon DEF SubCommits, SubHistoryStays
  <2>2. v5'[w].pc = "idle" /\ \A u \in Workers : u # w => v5'[u] = v5[u]
    BY <2>1, SubLeft
  <2>3. all
    BY <1>1, <2>1
  <2>4. \A u \in Workers : u # w /\ v5[u].pc # "idle" => v5[u].pc = "handle" /\ v5[u].kind # "change"
    <3>1. ASSUME NEW u \in Workers, u # w, v5[u].pc # "idle"
          PROVE  v5[u].pc = "handle" /\ v5[u].kind # "change"
      <4>1. v5[u].pc = "handle"
        BY <2>1, <3>1, SubAlone DEF Serves
      <4>2. v5[u] \in SubHandlers
        BY <4>1, SubServes DEF Serves, Handles
      <4>. QED
        BY <4>1, <4>2 DEF SubHandlers
    <3>. QED
      BY <3>1
  <2>5. linked' /\ events' /\ work'
    BY <2>1, <2>2, <2>3
  <2>6. seen' /\ asked'
    BY <2>2, <2>4
  <2>7. v1'.plan = v3'.plan
    <3>1. CASE t.kind = "change"
      <4>1. t.seen.plan = v1.plan /\ v3.plan = t.plan
        BY <2>1, <2>3, <3>1
      <4>. QED
        BY <2>1, <3>1, <4>1
    <3>2. CASE t.kind # "change"
      <4>1. \A u \in Workers : ~(v5[u].pc = "commit" /\ v5[u].kind = "change")
        BY <2>1, <2>4, <3>2
      <4>. QED
        BY <2>1, <2>3, <3>2, <4>1
    <3>. QED
      BY <3>1, <3>2
  <2>. QED
    BY <1>2, <2>5, <2>6, <2>7
<1>8. ASSUME NEW w \in Workers, NEW r, SubDelivers(w, r) PROVE ActivePlan'
  <2>1. /\ v4 # <<>> /\ v4' = Tail(v4)
        /\ r \in SubHandlers /\ SubStarts(w, r) /\ r.kind = Head(v4).kind
    BY <1>8, Zenon DEF SubDelivers
  <2>2. /\ v5[w].pc = "idle" /\ v5'[w] = r /\ \A u \in Workers : u # w => v5'[u] = v5[u]
        /\ r.seen = v1 /\ v1' = v1 /\ v3' = v3 /\ ~v6 /\ ~v7 /\ ~v8
    BY <2>1, SubStarted
  <2>3. r.pc = "handle" /\ r.kind # "change"
    BY <2>1 DEF SubHandlers
  <2>4. all
    BY <1>1, <2>2
  <2>5. PICK q : q = v4'
    OBVIOUS
  <2>6. /\ Head(v4) = v4[1] /\ 1 \in DOMAIN v4
        /\ \A i \in DOMAIN q : i + 1 \in DOMAIN v4 /\ q[i] = v4[i + 1]
    BY <1>3, <2>1, <2>5, SubTaken
  <2>7. linked' /\ events' /\ r.kind # "deleted"
    BY <2>1, <2>2, <2>4, <2>5, <2>6
  <2>8. work' /\ seen' /\ asked' /\ same'
    BY <2>2, <2>3, <2>4, <2>7
  <2>. QED
    BY <1>2, <2>7, <2>8
<1>9. ASSUME NEW w \in Workers, NEW t, SubSees(w, t) PROVE ActivePlan'
  <2>1. /\ v5[w] = t /\ t \in SubHandlers /\ v5[w].pc = "handle" /\ SubLeaves(w)
        /\ v6' = v6 /\ v7' = v7 /\ v8' = v8 /\ v3' = v3 /\ v4' = v4
        /\ ~t.seen.linked => v1' = v1
        /\ t.seen.linked /\ t.kind = "updated" => v1'.linked = v1.linked /\ v1'.plan = v1.plan
    BY <1>9, Zenon DEF SubSees, SubHistoryStays, Handles
  <2>2. t.kind \in {"updated", "deleted"}
    BY <2>1 DEF SubHandlers
  <2>3. all
    BY <1>1, <2>1
  <2>4. t.kind = "updated"
    BY <2>1, <2>2, <2>3
  <2>5. v1'.linked = v1.linked /\ v1'.plan = v1.plan
    BY <2>1, <2>4
  <2>6. v5'[w].pc = "idle" /\ \A u \in Workers : u # w => v5'[u] = v5[u]
    BY <2>1, SubLeft
  <2>. QED
    BY <1>2, <2>1, <2>3, <2>5, <2>6
<1>10. ASSUME NEW e, SubPeriod(e) PROVE ActivePlan'
  <2>1. /\ v1' = v1 /\ v5' = v5 /\ v6' = v6 /\ v7' = v7 /\ v8' = v8
        /\ v4' = Append(v4, e) /\ e \in SubEvents /\ v3.status = "active" /\ v3'.plan = v3.plan
        /\ v3'.status = "canceled" \/ e.kind = "updated"
    BY <1>10, Zenon DEF SubPeriod, SubHistoryStays
  <2>2. all
    BY <1>1, <2>1
  <2>3. PICK q : q = v4'
    OBVIOUS
  <2>4. \A i \in DOMAIN q : q[i] = e \/ (i \in DOMAIN v4 /\ q[i] = v4[i])
    BY <1>3, <2>1, <2>3, SubAppended
  <2>5. e.kind # "deleted"
    BY <2>1
  <2>6. events'
    BY <2>2, <2>3, <2>4, <2>5
  <2>. QED
    BY <1>2, <2>1, <2>2, <2>6
<1>. QED
  BY <1>4, <1>5, <1>6, <1>7, <1>8, <1>9, <1>10, Zenon DEF SubStep

\* Of a canceled one.
LEMMA EndedKept ==
    ASSUME SubTyped, SubApart, PlanTold, SubStep, ~v6', ~v7', ~v8', v3'.status = "canceled"
    PROVE  EndComes' \/ EndHandled' \/ EndKnown'
<1> DEFINE comes ==
               /\ v4 # <<>> /\ v1.linked
               /\ \A i \in DOMAIN v4 : v4[i].kind = "deleted" <=> i = Len(v4)
               /\ \A u \in Workers : v5[u].pc # "idle" => v5[u].kind # "deleted"
           handled ==
               /\ v4 = <<>>
               /\ \E h \in Workers : /\ v5[h].pc = "handle" /\ v5[h].kind = "deleted"
                                     /\ v5[h].seen.linked /\ v5[h].seen.plan = v1.plan
           known ==
               /\ v4 = <<>> /\ v1.plan = 0 /\ ~v1.linked
               /\ \A u \in Workers : v5[u].pc # "idle" => v5[u].pc # "handle" /\ v5[u].kind # "change"
<1>1. /\ ~v6 /\ ~v7 /\ ~v8 /\ v3.status = "canceled" => comes \/ handled \/ known
      /\ ~v6 /\ ~v7 /\ ~v8 /\ v3.status = "active" =>
             /\ v1.linked
             /\ \A i \in DOMAIN v4 : v4[i].kind # "deleted"
             /\ \A u \in Workers : v5[u].pc # "idle" => v5[u].kind # "deleted"
  BY DEF PlanTold, ActivePlan, EndComes, EndHandled, EndKnown, Serves, Handles
<1>2. comes' \/ handled' \/ known' => EndComes' \/ EndHandled' \/ EndKnown'
  BY DEF EndComes, EndHandled, EndKnown, Serves, Handles
<1>. SUFFICES comes' \/ handled' \/ known'
  BY <1>2
<1>3. /\ v4 \in Seq(SubEvents) /\ v1 \in Plan!Row /\ v3.status \in {"active", "canceled"}
  BY DEF SubTyped
<1>4. ASSUME NEW e \in SubEvents, v4' = Append(v4, e), e.kind = "deleted", v1.linked, v1' = v1,
             \A i \in DOMAIN v4 : v4[i].kind # "deleted",
             \A u \in Workers : v5'[u].pc # "idle" => v5'[u].kind # "deleted"
      PROVE  comes'
  <2>1. PICK q : q = v4'
    OBVIOUS
  <2>2. /\ Len(q) = Len(v4) + 1 /\ q # <<>> /\ q[Len(q)] = e
        /\ DOMAIN q = 1..Len(q) /\ DOMAIN v4 = 1..Len(v4) /\ Len(v4) \in Nat
        /\ \A i \in 1..Len(v4) : q[i] = v4[i]
    BY <1>3, <1>4, <2>1, SubAppended
  <2>3. \A i \in DOMAIN q : i = Len(q) \/ i \in DOMAIN v4
    BY <2>2
  <2>4. \A i \in DOMAIN v4 : i # Len(q) /\ q[i] = v4[i]
    BY <2>2
  <2>5. \A i \in DOMAIN q : q[i].kind = "deleted" <=> i = Len(q)
    BY <1>4, <2>2, <2>3, <2>4
  <2>. QED
    BY <1>4, <2>1, <2>2, <2>5
<1>5. ASSUME NEW w \in Workers, NEW r, SubAsks(w, r) PROVE comes' \/ handled' \/ known'
  <2>1. /\ r \in SubRequests /\ SubStarts(w, r) /\ v4' = v4
        /\ v1.linked \/ r.kind \in {"detach", "detach_now"}
    BY <1>5, Zenon DEF SubAsks
  <2>2. /\ v5[w].pc = "idle" /\ v5'[w] = r /\ \A u \in Workers : u # w => v5'[u] = v5[u]
        /\ v1' = v1 /\ v3' = v3 /\ ~v6 /\ ~v7 /\ ~v8
        /\ \A u \in Workers : u # w /\ Serves(u) => v5[u].kind # "deleted"
    BY <2>1, SubStarted
  <2>3. r.kind # "deleted" /\ r.pc # "handle"
    BY <2>1 DEF SubRequests, SubKinds
  <2>4. comes \/ handled \/ known
    BY <1>1, <2>2
  <2>5. ~handled
    BY <2>2 DEF Serves
  <2>6. CASE comes
    BY <2>1, <2>2, <2>3, <2>6
  <2>7. CASE known
    BY <2>1, <2>2, <2>3, <2>7
  <2>. QED
    BY <2>4, <2>5, <2>6, <2>7
<1>6. ASSUME NEW w \in Workers, NEW t, NEW r, SubCalls(w, t, r)
      PROVE  comes' \/ handled' \/ known'
  <2>1. SubAnswers(w, t, r) /\ SubChange(t, v3')
    BY <1>6, Zenon DEF SubCalls
  <2>2. /\ v1' = v1 /\ v6' = v6 /\ v7' = v7 /\ v8' = v8 /\ v5[w] = t /\ v5' = [v5 EXCEPT ![w] = r]
        /\ t \in SubRequests /\ t.pc = "call" /\ r.pc = "commit" /\ r.kind = t.kind
        /\ t.kind = "detach" \/ v3.status = "active"
        /\ t.kind = "detach" => v4' = v4
        /\ t.kind # "detach" =>
              \E e \in SubEvents : /\ v4' = Append(v4, e)
                                   /\ e.kind = IF t.kind = "cancel_now" THEN "deleted" ELSE "updated"
    BY <2>1, Zenon DEF SubAnswers
  <2>3. v3'.status = (IF t.kind = "cancel_now" THEN "canceled" ELSE v3.status)
    BY <2>1, Zenon DEF SubChange
  <2>4. v5'[w] = r /\ \A u \in Workers : u # w => v5'[u] = v5[u]
    BY <2>2, SubOthers
  <2>5. t.kind # "deleted"
    BY <2>2 DEF SubRequests, SubKinds
  <2>6. CASE t.kind = "cancel_now"
    <3>1. v3.status = "active" /\ ~v6 /\ ~v7 /\ ~v8
      BY <2>2, <2>6
    <3>2. /\ v1.linked
          /\ \A i \in DOMAIN v4 : v4[i].kind # "deleted"
          /\ \A u \in Workers : v5[u].pc # "idle" => v5[u].kind # "deleted"
      BY <1>1, <3>1
    <3>3. PICK e \in SubEvents : v4' = Append(v4, e) /\ e.kind = "deleted"
      BY <2>2, <2>6
    <3>4. \A u \in Workers : v5'[u].pc # "idle" => v5'[u].kind # "deleted"
      BY <2>2, <2>4, <2>5, <3>2
    <3>5. comes'
      BY <1>4, <2>2, <3>2, <3>3, <3>4
    <3>. QED
      BY <3>5
  <2>7. CASE t.kind # "cancel_now"
    <3>1. v3.status = "canceled" /\ ~v6 /\ ~v7 /\ ~v8
      BY <2>2, <2>3, <2>7
    <3>2. t.kind = "detach" /\ v4' = v4
      BY <2>2, <3>1
    <3>3. CASE comes
      BY <2>2, <2>4, <2>5, <3>2, <3>3
    <3>4. CASE handled
      <4>1. PICK h \in Workers : /\ v5[h].pc = "handle" /\ v5[h].kind = "deleted"
                                 /\ v5[h].seen.linked /\ v5[h].seen.plan = v1.plan
        BY <3>4
      <4>2. v5'[h] = v5[h]
        BY <2>2, <2>4, <4>1
      <4>3. handled'
        BY <2>2, <3>2, <3>4, <4>1, <4>2
      <4>. QED
        BY <4>3
    <3>5. CASE known
      BY <2>2, <2>4, <3>2, <3>5
    <3>. QED
      BY <1>1, <3>1, <3>3, <3>4, <3>5
  <2>. QED
    BY <2>6, <2>7
<1>7. ASSUME NEW w \in Workers, SubDrops(w) PROVE comes' \/ handled' \/ known'
  <2>1. /\ SubLeaves(w) /\ v1' = v1 /\ v3' = v3 /\ v4' = v4 /\ ~v6 /\ ~v7 /\ ~v8
        /\ v5[w].pc # "handle"
    BY <1>7, Zenon DEF SubDrops, SubRowsStay, Handles
  <2>2. v5'[w].pc = "idle" /\ \A u \in Workers : u # w => v5'[u] = v5[u]
    BY <2>1, SubLeft
  <2>3. CASE comes
    BY <2>1, <2>2, <2>3
  <2>4. CASE handled
    <3>1. PICK h \in Workers : /\ v5[h].pc = "handle" /\ v5[h].kind = "deleted"
                               /\ v5[h].seen.linked /\ v5[h].seen.plan = v1.plan
      BY <2>4
    <3>2. v5'[h] = v5[h]
      BY <2>1, <2>2, <3>1
    <3>3. handled'
      BY <2>1, <2>4, <3>1, <3>2
    <3>. QED
      BY <3>3
  <2>5. CASE known
    BY <2>1, <2>2, <2>5
  <2>. QED
    BY <1>1, <2>1, <2>3, <2>4, <2>5
<1>8. ASSUME NEW w \in Workers, NEW t, SubCommits(w, t) PROVE comes' \/ handled' \/ known'
  <2>1. /\ v5[w] = t /\ t \in SubRequests /\ t.pc = "commit" /\ SubLeaves(w)
        /\ ~v6 /\ ~v7 /\ ~v8
        /\ v3' = v3 /\ v4' = v4 /\ v1'.linked = v1.linked
        /\ t.kind # "change" => v1'.plan = v1.plan
    BY <1>8, Zenon DEF SubCommits, SubHistoryStays
  <2>2. v5'[w].pc = "idle" /\ \A u \in Workers : u # w => v5'[u] = v5[u]
    BY <2>1, SubLeft
  <2>3. comes \/ handled \/ known
    BY <1>1, <2>1
  <2>4. CASE comes
    BY <2>1, <2>2, <2>4
  <2>5. ~handled
    <3>1. ASSUME NEW h \in Workers, v5[h].pc = "handle", v5[h].kind = "deleted" PROVE FALSE
      <4>1. h # w /\ Serves(h) /\ Serves(w)
        BY <2>1, <3>1 DEF Serves
      <4>. QED
        BY <2>1, <3>1, <4>1, SubAlone
    <3>. QED
      BY <3>1
  <2>6. CASE known
    <3>1. t.kind # "change"
      BY <2>1, <2>6
    <3>. QED
      BY <2>1, <2>2, <2>6, <3>1
  <2>. QED
    BY <2>3, <2>4, <2>5, <2>6
<1>9. ASSUME NEW w \in Workers, NEW r, SubDelivers(w, r) PROVE comes' \/ handled' \/ known'
  <2>1. /\ v4 # <<>> /\ v4' = Tail(v4)
        /\ r \in SubHandlers /\ SubStarts(w, r) /\ r.kind = Head(v4).kind
    BY <1>9, Zenon DEF SubDelivers
  <2>2. /\ v5[w].pc = "idle" /\ v5'[w] = r /\ \A u \in Workers : u # w => v5'[u] = v5[u]
        /\ r.seen = v1 /\ v1' = v1 /\ v3' = v3 /\ ~v6 /\ ~v7 /\ ~v8
    BY <2>1, SubStarted
  <2>3. r.pc = "handle"
    BY <2>1 DEF SubHandlers
  <2>4. comes
    BY <1>1, <2>1, <2>2
  <2>5. PICK q : q = v4'
    OBVIOUS
  <2>6. /\ Len(v4) \in Nat /\ Len(q) = Len(v4) - 1 /\ Head(v4) = v4[1]
        /\ DOMAIN q = 1..Len(q) /\ DOMAIN v4 = 1..Len(v4)
        /\ \A i \in 1..Len(q) : q[i] = v4[i + 1]
        /\ q = <<>> <=> Len(v4) = 1
    <3>1. q = Tail(v4)
      BY <2>1, <2>5
    <3>2. /\ Len(v4) \in Nat /\ Len(q) = Len(v4) - 1 /\ Head(v4) = v4[1]
          /\ DOMAIN q = 1..Len(q) /\ DOMAIN v4 = 1..Len(v4)
      BY <1>3, <2>1, <3>1, SubTaken
    <3>3. q = <<>> <=> Len(v4) = 1
      <4>1. q \in Seq(SubEvents)
        BY <1>3, <2>1, <3>1, SubTaken
      <4>2. q = <<>> <=> Len(q) = 0
        BY <4>1, EmptySeq
      <4>. QED
        BY <3>2, <4>2
    <3>4. \A i \in 1..Len(q) : q[i] = v4[i + 1]
      BY <1>3, <2>1, <3>1, SubTaken
    <3>. QED
      BY <3>2, <3>3, <3>4
  <2>7. CASE Len(v4) = 1
    <3>1. q = <<>> /\ r.kind = "deleted"
      BY <2>1, <2>4, <2>6, <2>7
    <3>2. handled'
      BY <2>2, <2>3, <2>4, <2>5, <3>1
    <3>. QED
      BY <3>2
  <2>8. CASE Len(v4) # 1
    <3>1. q # <<>>
      BY <2>6, <2>8
    <3>2. 1 \in DOMAIN v4 /\ r.kind # "deleted"
      <4>1. Len(v4) # 0
        BY <1>3, <2>1, EmptySeq
      <4>2. 1 \in DOMAIN v4
        BY <2>6, <4>1
      <4>. QED
        BY <2>1, <2>4, <2>6, <2>8, <4>2
    <3>3. \A i \in DOMAIN q : q[i].kind = "deleted" <=> i = Len(q)
      <4>1. ASSUME NEW i \in DOMAIN q PROVE q[i].kind = "deleted" <=> i = Len(q)
        <5>1. i \in Nat /\ i + 1 \in DOMAIN v4 /\ q[i] = v4[i + 1]
          BY <2>6, <4>1
        <5>2. q[i].kind = "deleted" <=> i + 1 = Len(v4)
          BY <2>4, <5>1
        <5>. QED
          BY <2>6, <5>1, <5>2
      <4>. QED
        BY <4>1
    <3>4. comes'
      BY <2>2, <2>4, <2>5, <3>1, <3>2, <3>3
    <3>. QED
      BY <3>4
  <2>. QED
    BY <2>7, <2>8
<1>10. ASSUME NEW w \in Workers, NEW t, SubSees(w, t) PROVE comes' \/ handled' \/ known'
  <2>1. /\ v5[w] = t /\ t \in SubHandlers /\ v5[w].pc = "handle" /\ SubLeaves(w)
        /\ ~v6 /\ ~v7 /\ ~v8 /\ v3' = v3 /\ v4' = v4
        /\ ~t.seen.linked => v1' = v1
        /\ t.seen.linked /\ t.kind = "updated" => v1'.linked = v1.linked /\ v1'.plan = v1.plan
        /\ t.seen.linked /\ t.kind = "deleted" =>
             /\ ~v1'.linked
             /\ v1'.plan = IF t.seen.plan = 0 THEN v1.plan ELSE 0
    BY <1>10, Zenon DEF SubSees, SubHistoryStays, Handles
  <2>2. t.kind \in {"updated", "deleted"}
    BY <2>1 DEF SubHandlers
  <2>3. v5'[w].pc = "idle" /\ \A u \in Workers : u # w => v5'[u] = v5[u]
    BY <2>1, SubLeft
  <2>4. comes \/ handled
    BY <1>1, <2>1
  <2>5. CASE comes
    <3>1. t.kind = "updated"
      BY <2>1, <2>2, <2>5
    <3>2. v1'.linked
      BY <2>1, <2>5, <3>1
    <3>. QED
      BY <2>1, <2>3, <2>5, <3>2
  <2>6. CASE handled
    <3>1. PICK h \in Workers : /\ v5[h].pc = "handle" /\ v5[h].kind = "deleted"
                               /\ v5[h].seen.linked /\ v5[h].seen.plan = v1.plan
      BY <2>6
    <3>2. ASSUME NEW u \in Workers, u # h PROVE v5[u].pc = "idle"
      BY <2>1, <3>1, <3>2, SubAlone DEF Serves
    <3>3. h = w
      BY <2>1, <3>2
    <3>4. ~v1'.linked /\ v1'.plan = 0
      BY <2>1, <3>1, <3>3
    <3>5. \A u \in Workers : v5'[u].pc = "idle"
      BY <2>3, <3>2, <3>3
    <3>. QED
      BY <2>1, <2>6, <3>4, <3>5
  <2>. QED
    BY <2>4, <2>5, <2>6
<1>11. ASSUME NEW e, SubPeriod(e) PROVE comes' \/ handled' \/ known'
  <2>1. /\ v1' = v1 /\ v5' = v5 /\ ~v6 /\ ~v7 /\ ~v8
        /\ v4' = Append(v4, e) /\ e \in SubEvents /\ v3.status = "active"
        /\ v3'.status = "active" \/ e.kind = "deleted"
    BY <1>11, Zenon DEF SubPeriod, SubHistoryStays
  <2>2. e.kind = "deleted"
    BY <2>1
  <2>3. /\ v1.linked
        /\ \A i \in DOMAIN v4 : v4[i].kind # "deleted"
        /\ \A u \in Workers : v5[u].pc # "idle" => v5[u].kind # "deleted"
    BY <1>1, <2>1
  <2>4. comes'
    BY <1>4, <2>1, <2>2, <2>3
  <2>. QED
    BY <2>4
<1>. HIDE DEF comes, handled, known
<1>. QED
  BY <1>5, <1>6, <1>7, <1>8, <1>9, <1>10, <1>11, Zenon DEF SubStep

\* The plan goes on to be told.
LEMMA PlanToldKept ==
    ASSUME SubTyped, SubItems, SubApart, PlanTold, SubStep
    PROVE  PlanTold'
<1>1. v3'.status \in {"active", "canceled"}
  <2>1. SubTyped'
    BY SubTypedKept
  <2>. QED
    BY <2>1 DEF SubTyped
<1>. SUFFICES ASSUME ~v6', ~v7', ~v8'
              PROVE  IF v3'.status = "active" THEN ActivePlan' ELSE EndComes' \/ EndHandled' \/ EndKnown'
  BY Zenon DEF PlanTold
<1>2. CASE v3'.status = "active"
  BY <1>2, ActivePlanKept
<1>3. CASE v3'.status = "canceled"
  <2>1. v3'.status # "active"
    BY <1>3
  <2>. QED
    BY <1>3, <2>1, EndedKept
<1>. QED
  BY <1>1, <1>2, <1>3

\* The rows that count.
LEMMA LiveRowsAre ==
    /\ LiveRows \subseteq DOMAIN v2
    /\ v2' = v2 => LiveRows' = LiveRows
    /\ \A i : i \in LiveRows' <=> i \in DOMAIN v2' /\ v2'[i].status \in {"active", "pending_cancel"}
    /\ \A i : i \in LiveRows <=> i \in DOMAIN v2 /\ v2[i].status \in {"active", "pending_cancel"}
  BY DEF LiveRows

\* Rows and items go on to be the same but for the requests at work.
LEMMA ItemsToldKept ==
    ASSUME SubTyped, SubItems, SubApart, ItemsTold, SubStep
    PROVE  ItemsTold'
<1> SUFFICES ASSUME ~v6', ~v7', v3'.status = "active" PROVE ItemsTold'
  BY DEF ItemsTold
<1> DEFINE once == \A i, j \in LiveRows : v2[i].addon = v2[j].addon => i = j
           asked == \A u \in Workers : v5[u].pc \notin {"idle", "handle"} =>
                        /\ v5[u].kind = "attach" => \A i \in LiveRows : v2[i].addon \notin v5[u].addons
                        /\ v5[u].kind \in Removals => v5[u].at \in LiveRows
           made == \A u \in Workers : v5[u].pc = "commit" /\ v5[u].kind = "attach" =>
                       v5[u].at \in v3.live /\ {v2[i].item : i \in LiveRows} = v3.live \ {v5[u].at}
           removed == \A u \in Workers : v5[u].pc = "commit" /\ v5[u].kind = "detach_now" =>
                          {v2[i].item : i \in LiveRows \ {v5[u].at}} = v3.live
           same == (\A u \in Workers :
                        v5[u].pc = "commit" => v5[u].kind \notin {"attach", "detach_now"}) =>
                       {v2[i].item : i \in LiveRows} = v3.live
           all == once /\ asked /\ made /\ removed /\ same
<1>1. ~v6 /\ ~v7 /\ v3.status = "active" => all
  BY DEF ItemsTold, ItemsOf, Serves, Handles, Commits
<1>2. ASSUME once', asked', made', removed', same' PROVE ItemsTold'
  BY <1>2 DEF ItemsTold, ItemsOf, Serves, Handles, Commits
<1>3. /\ v2 \in Seq(AddonRows) /\ v3.items \in Seq(BilledAddons) /\ v3.live \subseteq DOMAIN v3.items
      /\ \A i \in DOMAIN v2 : v2[i].addon = v3.items[v2[i].item]
  BY DEF SubTyped, SubItems
\* No row changes, and a worker takes up or leaves what touches none.
<1>4. ASSUME NEW w \in Workers, v2' = v2, v3'.live = v3.live, ~v6, ~v7, v3.status = "active",
             \A u \in Workers : u # w => v5'[u] = v5[u],
             v5[w].pc # "commit" \/ v5[w].kind \notin {"attach", "detach_now"},
             v5'[w].pc = "commit" => v5'[w].kind \notin {"attach", "detach_now"},
             v5'[w].pc \notin {"idle", "handle"} =>
                 /\ v5'[w].kind = "attach" => \A i \in LiveRows : v2[i].addon \notin v5'[w].addons
                 /\ v5'[w].kind \in Removals => v5'[w].at \in LiveRows
      PROVE  ItemsTold'
  <2>1. all /\ LiveRows' = LiveRows
    BY <1>1, <1>4, LiveRowsAre
  <2>2. once' /\ asked'
    BY <1>4, <2>1
  <2>3. made' /\ removed'
    BY <1>4, <2>1
  <2>4. same'
    BY <1>4, <2>1
  <2>. QED
    BY <1>2, <2>2, <2>3, <2>4
<1>5. ASSUME NEW w \in Workers, NEW r, SubAsks(w, r) PROVE ItemsTold'
  <2>1. /\ SubStarts(w, r)
        /\ r.pc = "commit" <=> r.kind = "reattach"
        /\ r.kind = "attach" =>
              \E a \in BilledAddons : r.addons = {a} /\ \A i \in LiveRows : v2[i].addon # a
        /\ r.kind \in Removals => r.at \in LiveRows
    BY <1>5, Zenon DEF SubAsks
  <2>2. /\ v5[w].pc = "idle" /\ v5'[w] = r /\ \A u \in Workers : u # w => v5'[u] = v5[u]
        /\ v2' = v2 /\ v3' = v3 /\ ~v6 /\ ~v7
    BY <2>1, SubStarted
  <2>3. r.kind = "attach" => \A i \in LiveRows : v2[i].addon \notin r.addons
    BY <2>1
  <2>4. r.pc = "commit" => r.kind \notin {"attach", "detach_now"}
    BY <2>1
  <2>5. v3'.live = v3.live /\ v3.status = "active" /\ v5[w].pc # "commit"
    BY <2>2
  <2>. HIDE DEF once, asked, made, removed, same
  <2>. QED
    BY <1>4, <2>1, <2>2, <2>3, <2>4, <2>5
<1>6. ASSUME NEW w \in Workers, NEW t, NEW r, SubCalls(w, t, r) PROVE ItemsTold'
  <2>1. SubAnswers(w, t, r) /\ SubChange(t, v3')
    BY <1>6, Zenon DEF SubCalls
  <2>2. /\ v2' = v2 /\ v6' = v6 /\ v7' = v7 /\ v5[w] = t /\ v5' = [v5 EXCEPT ![w] = r]
        /\ t.pc = "call" /\ r.pc = "commit" /\ r.kind = t.kind /\ r.addons = t.addons
        /\ r.at = (IF t.kind = "attach" THEN Len(v3.items) + 1 ELSE t.at)
        /\ t.kind = "detach_now" => v2[t.at].item \in v3.live
    BY <2>1, Zenon DEF SubAnswers
  <2>3. /\ v3'.status = (IF t.kind = "cancel_now" THEN "canceled" ELSE v3.status)
        /\ v3'.live = (IF t.kind = "cancel_now" THEN {}
                       ELSE IF t.kind = "attach" THEN v3.live \cup {Len(v3.items) + 1}
                       ELSE IF t.kind = "detach_now" THEN v3.live \ {v2[t.at].item}
                       ELSE v3.live)
    BY <2>1, Zenon DEF SubChange
  <2>4. v5'[w] = r /\ \A u \in Workers : u # w => v5'[u] = v5[u]
    BY <2>2, SubOthers
  <2>5. t.kind # "cancel_now" /\ v3.status = "active" /\ ~v6 /\ ~v7
    BY <2>2, <2>3
  <2>6. all /\ LiveRows' = LiveRows
    BY <1>1, <2>2, <2>5, LiveRowsAre
  <2>7. \A u \in Workers : u # w => v5[u].pc \in {"idle", "handle"}
    <3>1. ASSUME NEW u \in Workers, u # w, v5[u].pc # "idle" PROVE v5[u].pc = "handle"
      BY <2>2, <2>5, <3>1, SubAlone DEF Serves
    <3>. QED
      BY <3>1
  <2>8. {v2[i].item : i \in LiveRows} = v3.live
    <3>1. \A u \in Workers : v5[u].pc = "commit" => v5[u].kind \notin {"attach", "detach_now"}
      BY <2>2, <2>7
    <3>. QED
      BY <2>6, <3>1
  <2>9. once' /\ asked'
    <3>1. r.kind \in Removals => r.at = t.at
      BY <2>2 DEF Removals
    <3>2. /\ r.kind = "attach" => \A i \in LiveRows : v2[i].addon \notin r.addons
          /\ r.kind \in Removals => r.at \in LiveRows
      BY <2>2, <2>6, <3>1
    <3>. QED
      BY <2>2, <2>4, <2>6, <2>7, <3>2
  <2>10. CASE t.kind = "attach"
    <3>1. PICK n : n = Len(v3.items) + 1
      OBVIOUS
    <3>2. n \notin v3.live
      <4>1. PICK p : p = v3.items
        OBVIOUS
      <4>2. p \in Seq(BilledAddons) /\ n = Len(p) + 1 /\ v3.live \subseteq DOMAIN p
        BY <1>3, <3>1, <4>1
      <4>. QED
        BY <4>2
    <3>3. v3'.live = v3.live \cup {n} /\ r.at = n
      BY <2>2, <2>3, <2>10, <3>1
    <3>4. r.at \in v3'.live /\ {v2[i].item : i \in LiveRows} = v3'.live \ {r.at}
      BY <2>8, <3>2, <3>3
    <3>5. made'
      BY <2>2, <2>4, <2>6, <2>7, <3>4
    <3>6. removed' /\ same'
      BY <2>2, <2>4, <2>7, <2>10
    <3>. QED
      BY <1>2, <2>9, <3>5, <3>6
  <2>11. CASE t.kind = "detach_now"
    <3>1. t.at \in LiveRows /\ r.at = t.at /\ v3'.live = v3.live \ {v2[t.at].item}
      BY <2>2, <2>3, <2>6, <2>11 DEF Removals
    <3>2. \A i \in LiveRows : v2[i].item = v2[t.at].item => i = t.at
      BY <1>3, <2>6, <3>1, LiveRowsAre
    <3>3. {v2[i].item : i \in LiveRows \ {t.at}} = v3.live \ {v2[t.at].item}
      BY <2>8, <3>1, <3>2
    <3>4. removed'
      BY <2>2, <2>4, <2>6, <2>7, <3>1, <3>3
    <3>5. made' /\ same'
      BY <2>2, <2>4, <2>7, <2>11
    <3>. QED
      BY <1>2, <2>9, <3>4, <3>5
  <2>12. CASE t.kind \notin {"attach", "detach_now"}
    <3>1. v3'.live = v3.live
      BY <2>3, <2>5, <2>12
    <3>2. made' /\ removed'
      BY <2>2, <2>4, <2>7, <2>12
    <3>3. same'
      BY <2>2, <2>6, <2>8, <3>1
    <3>. QED
      BY <1>2, <2>9, <3>2, <3>3
  <2>. QED
    BY <2>10, <2>11, <2>12
<1>7. ASSUME NEW w \in Workers, SubDrops(w) PROVE ItemsTold'
  <2>1. /\ SubLeaves(w) /\ v2' = v2 /\ v3' = v3 /\ ~v6 /\ ~v7 /\ v5[w].pc # "commit"
    BY <1>7, Zenon DEF SubDrops, SubRowsStay
  <2>2. v5'[w].pc = "idle" /\ \A u \in Workers : u # w => v5'[u] = v5[u]
    BY <2>1, SubLeft
  <2>3. v3'.live = v3.live /\ v3.status = "active"
    BY <2>1
  <2>. HIDE DEF once, asked, made, removed, same
  <2>. QED
    BY <1>4, <2>1, <2>2, <2>3
<1>8. ASSUME NEW w \in Workers, NEW t, SubCommits(w, t) PROVE ItemsTold'
  <2>1. /\ v5[w] = t /\ t \in SubRequests /\ t.pc = "commit" /\ SubLeaves(w) /\ v6' = v6 /\ v7' = v7
        /\ v3' = v3
        /\ t.kind = "attach" =>
              v2' = Append(v2, [addon |-> v3.items[t.at], status |-> "active", item |-> t.at])
        /\ t.kind \in Removals => \E s : SubRemoves(t, s)
        /\ t.kind \notin {"attach"} \cup Removals => v2' = v2
    BY <1>8, Zenon DEF SubCommits, SubHistoryStays
  <2>2. v5'[w].pc = "idle" /\ \A u \in Workers : u # w => v5'[u] = v5[u]
    BY <2>1, SubLeft
  <2>3. ~v6 /\ ~v7 /\ v3.status = "active" /\ all
    BY <1>1, <2>1
  <2>4. \A u \in Workers : v5'[u].pc \in {"idle", "handle"}
    <3>1. ASSUME NEW u \in Workers, u # w, v5[u].pc # "idle" PROVE v5[u].pc = "handle"
      BY <2>1, <2>3, <3>1, SubAlone DEF Serves
    <3>. QED
      BY <2>2, <3>1
  <2>5. asked' /\ made' /\ removed'
    BY <2>4
  <2>6. ASSUME once', {v2'[i].item : i \in LiveRows'} = v3'.live PROVE ItemsTold'
    BY <1>2, <2>5, <2>6
  <2>7. CASE t.kind = "attach"
    <3>1. PICK b : b = [addon |-> v3.items[t.at], status |-> "active", item |-> t.at]
      OBVIOUS
    <3>2. /\ v2' = Append(v2, b) /\ b.addon = v3.items[t.at] /\ b.status = "active" /\ b.item = t.at
      BY <2>1, <2>7, <3>1
    <3>3. PICK n : n = Len(v2) + 1
      OBVIOUS
    <3>4. /\ DOMAIN v2' = DOMAIN v2 \cup {n} /\ n \notin DOMAIN v2 /\ v2'[n] = b
          /\ \A i \in DOMAIN v2 : v2'[i] = v2[i]
      BY <1>3, <3>2, <3>3
    <3>5. LiveRows' = LiveRows \cup {n}
      BY <3>2, <3>4, LiveRowsAre
    <3>6. /\ \A i \in LiveRows : v2'[i] = v2[i] /\ v2[i].addon \notin t.addons
          /\ n \notin LiveRows
      BY <2>1, <2>3, <2>7, <3>4, LiveRowsAre
    <3>7. b.addon \in t.addons
      <4>1. Commits(w, {"attach"})
        BY <2>1, <2>7 DEF Commits
      <4>. QED
        BY <2>1, <3>2, <4>1 DEF SubItems
    <3>8. once'
      BY <2>3, <3>4, <3>5, <3>6, <3>7
    <3>9. b.item \in v3.live /\ {v2[i].item : i \in LiveRows} = v3.live \ {b.item}
      BY <2>1, <2>3, <2>7, <3>2
    <3>10. {v2'[i].item : i \in LiveRows'} = {v2[i].item : i \in LiveRows} \cup {b.item}
      BY <3>4, <3>5, <3>6
    <3>11. {v2'[i].item : i \in LiveRows'} = v3'.live
      BY <2>1, <3>9, <3>10
    <3>. QED
      BY <2>6, <3>8, <3>11
  <2>8. CASE t.kind \in Removals
    <3>1. PICK s : SubRemoves(t, s)
      BY <2>1, <2>8
    <3>2. /\ s \in {"active", "pending_cancel", "canceled"}
          /\ t.kind = "detach_now" <=> s = "canceled"
          /\ DOMAIN v2' = DOMAIN v2
          /\ \A i \in DOMAIN v2 : /\ v2'[i].addon = v2[i].addon /\ v2'[i].item = v2[i].item
                                  /\ i # t.at => v2'[i].status = v2[i].status
          /\ v2'[t.at].status = s
      BY <3>1, Zenon DEF SubRemoves
    <3>3. t.at \in LiveRows
      BY <2>1, <2>3, <2>8
    <3>4. LiveRows' \subseteq LiveRows /\ LiveRows \subseteq DOMAIN v2
      BY <3>2, <3>3, LiveRowsAre
    <3>5. once'
      BY <2>3, <3>2, <3>4
    <3>6. {v2'[i].item : i \in LiveRows'} = {v2[i].item : i \in LiveRows'}
      BY <3>2, <3>4
    <3>7. CASE s = "canceled"
      <4>1. LiveRows' = LiveRows \ {t.at}
        BY <3>2, <3>3, <3>7, LiveRowsAre
      <4>2. {v2[i].item : i \in LiveRows \ {t.at}} = v3.live
        BY <2>1, <2>3, <3>2, <3>7
      <4>3. {v2'[i].item : i \in LiveRows'} = v3'.live
        BY <2>1, <3>6, <4>1, <4>2
      <4>. QED
        BY <2>6, <3>5, <4>3
    <3>8. CASE s # "canceled"
      <4>1. LiveRows' = LiveRows
        BY <3>2, <3>3, <3>8, LiveRowsAre
      <4>2. \A u \in Workers : v5[u].pc = "commit" => v5[u].kind \notin {"attach", "detach_now"}
        <5>1. \A u \in Workers : u # w => v5[u].pc # "commit"
          BY <2>2, <2>4
        <5>2. t.kind \notin {"attach", "detach_now"}
          BY <2>8, <3>2, <3>8 DEF Removals
        <5>. QED
          BY <2>1, <5>1, <5>2
      <4>3. {v2[i].item : i \in LiveRows} = v3.live
        BY <2>3, <4>2
      <4>4. {v2'[i].item : i \in LiveRows'} = v3'.live
        BY <2>1, <3>6, <4>1, <4>3
      <4>. QED
        BY <2>6, <3>5, <4>4
    <3>. QED
      BY <3>7, <3>8
  <2>9. CASE t.kind \notin {"attach"} \cup Removals
    <3>1. t.kind \notin {"attach", "detach_now"} /\ v2' = v2 /\ v3'.live = v3.live
      BY <2>1, <2>9 DEF Removals
    <3>. HIDE DEF once, asked, made, removed, same
    <3>. QED
      BY <1>4, <2>1, <2>2, <2>3, <3>1
  <2>. QED
    BY <2>7, <2>8, <2>9
<1>9. ASSUME NEW w \in Workers, NEW r, SubDelivers(w, r) PROVE ItemsTold'
  <2>1. r \in SubHandlers /\ SubStarts(w, r)
    BY <1>9, Zenon DEF SubDelivers
  <2>2. /\ v5[w].pc = "idle" /\ v5'[w] = r /\ \A u \in Workers : u # w => v5'[u] = v5[u]
        /\ v2' = v2 /\ v3' = v3 /\ ~v6 /\ ~v7
    BY <2>1, SubStarted
  <2>3. r.pc = "handle" /\ v3'.live = v3.live /\ v3.status = "active"
    BY <2>1, <2>2 DEF SubHandlers
  <2>. HIDE DEF once, asked, made, removed, same
  <2>. QED
    BY <1>4, <2>2, <2>3
<1>10. ASSUME NEW w \in Workers, NEW t, SubSees(w, t) PROVE ItemsTold'
  <2>1. /\ SubLeaves(w) /\ v2' = v2 /\ v3' = v3 /\ ~v6 /\ ~v7 /\ v5[w].pc = "handle"
    BY <1>10, Zenon DEF SubSees, SubHistoryStays, Handles
  <2>2. v5'[w].pc = "idle" /\ \A u \in Workers : u # w => v5'[u] = v5[u]
    BY <2>1, SubLeft
  <2>3. v3'.live = v3.live /\ v3.status = "active"
    BY <2>1
  <2>. HIDE DEF once, asked, made, removed, same
  <2>. QED
    BY <1>4, <2>1, <2>2, <2>3
<1>11. ASSUME NEW e, SubPeriod(e) PROVE ItemsTold'
  <2>1. /\ v2' = v2 /\ v5' = v5 /\ ~v6 /\ ~v7 /\ v3.status = "active"
        /\ (v3'.status = "canceled" \/ v3'.live = v3.live)
    BY <1>11, Zenon DEF SubPeriod, SubHistoryStays
  <2>2. v3'.live = v3.live
    BY <2>1
  <2>3. all /\ LiveRows' = LiveRows
    BY <1>1, <2>1, LiveRowsAre
  <2>. QED
    BY <1>2, <2>1, <2>2, <2>3
<1>. HIDE DEF once, asked, made, removed, same
<1>. QED
  BY <1>5, <1>6, <1>7, <1>8, <1>9, <1>10, <1>11, Zenon DEF SubStep

\* It holds initially.
LEMMA SubInit ==
    ASSUME Plan!Init
    PROVE  SubInv
<1>1. /\ v1 \in {[plan |-> p, linked |-> TRUE, status |-> "active", ending |-> FALSE,
                  flags |-> {}] : p \in {1, 2}}
      /\ v2 = <<>>
      /\ v3 = [status |-> "active", plan |-> v1.plan, ending |-> FALSE, items |-> <<>>, live |-> {}]
      /\ v4 = <<>> /\ v5 = [w \in Workers |-> Plan!Idle]
      /\ v6 = FALSE /\ v7 = FALSE /\ v8 = FALSE
  BY Zenon DEF Plan!Init
<1>2. PICK p \in {1, 2} : v1 = [plan |-> p, linked |-> TRUE, status |-> "active", ending |-> FALSE,
                                flags |-> {}]
  BY <1>1
<1>3. v1.plan = p /\ v1.linked = TRUE /\ v1.ending = FALSE /\ p \in Plan!Plans
  BY <1>2, SubPlans
<1>4. v1 \in Plan!Row
  BY <1>2, <1>3 DEF Plan!Row
<1>5. /\ v3.status = "active" /\ v3.plan = p /\ v3.ending = FALSE /\ v3.items = <<>> /\ v3.live = {}
      /\ v3 = [status |-> "active", plan |-> p, ending |-> FALSE, items |-> <<>>, live |-> {}]
  BY <1>1, <1>3
<1>6. \A w \in Workers : v5[w].pc = "idle"
  BY <1>1, SubIdle
<1>7. SubTyped
  <2>1. v5 \in [Workers -> {Plan!Idle} \cup SubRequests \cup SubHandlers]
    BY <1>1
  <2>2. <<>> \in Seq(AddonRows) /\ <<>> \in Seq(SubEvents) /\ <<>> \in Seq(BilledAddons)
    OBVIOUS
  <2>3. v3 \in [status : {"active", "canceled"}, plan : Plan!Plans, ending : BOOLEAN,
                items : Seq(BilledAddons), live : SUBSET Nat]
    BY <1>3, <1>5, <2>2
  <2>. QED
    BY <1>1, <1>4, <2>1, <2>2, <2>3 DEF SubTyped
<1>8. LiveRows = {}
  BY <1>1 DEF LiveRows
<1>9. SubItems
  BY <1>1, <1>5, <1>6 DEF SubItems, Commits, Serves, Handles
<1>10. SubApart
  BY <1>6 DEF SubApart, Serves, Handles
<1>11. EndingTold
  BY <1>1, <1>3, <1>5, <1>6 DEF EndingTold, Handles, Commits
<1>12. PlanTold
  BY <1>1, <1>3, <1>5, <1>6 DEF PlanTold, ActivePlan, Serves, Commits
<1>13. ItemsTold
  BY <1>1, <1>5, <1>6, <1>8 DEF ItemsTold, ItemsOf, Serves, Handles, Commits
<1>. QED
  BY <1>7, <1>9, <1>10, <1>11, <1>12, <1>13 DEF SubInv

\* It is kept.
LEMMA SubSteps ==
    ASSUME SubInv, NextPlan \/ UNCHANGED vars
    PROVE  SubInv'
<1>1. SubTyped /\ SubItems /\ SubApart /\ EndingTold /\ PlanTold /\ ItemsTold
  BY DEF SubInv
<1>2. CASE NextPlan
  <2>1. SubStep
    BY <1>1, <1>2, SubStepIs
  <2>2. SubTyped' /\ SubItems' /\ SubApart'
    BY <1>1, <2>1, SubTypedKept, SubItemsKept, SubApartKept
  <2>3. EndingTold' /\ PlanTold' /\ ItemsTold'
    BY <1>1, <2>1, EndingKept, PlanToldKept, ItemsToldKept
  <2>. QED
    BY <2>2, <2>3 DEF SubInv
<1>3. CASE UNCHANGED vars
  <2>1. /\ v1' = v1 /\ v2' = v2 /\ v3' = v3 /\ v4' = v4 /\ v5' = v5 /\ v6' = v6 /\ v7' = v7
        /\ v8' = v8
    BY <1>3, Zenon DEF vars
  <2>2. SubTyped'
    BY <1>1, <2>1, Zenon DEF SubTyped
  <2>3. SubItems'
    BY <1>1, <2>1 DEF SubItems, Commits, Serves, Handles
  <2>4. SubApart'
    BY <1>1, <2>1 DEF SubApart, Serves, Handles
  <2>5. EndingTold'
    BY <1>1, <2>1 DEF EndingTold, Handles, Commits
  <2>6. PlanTold'
    BY <1>1, <2>1
       DEF PlanTold, ActivePlan, EndComes, EndHandled, EndKnown, Serves, Handles, Commits
  <2>7. ItemsTold'
    BY <1>1, <2>1 DEF ItemsTold, LiveRows, ItemsOf, Serves, Handles, Commits
  <2>. QED
    BY <2>2, <2>3, <2>4, <2>5, <2>6, <2>7 DEF SubInv
<1>. QED
  BY <1>2, <1>3

\* What it implies.
LEMMA SubMeans ==
    ASSUME SubInv
    PROVE  Plan!CancellationAgrees /\ Plan!PlanAgrees /\ Plan!BilledItemsAreAttached
<1>1. SubTyped /\ SubItems /\ EndingTold /\ PlanTold /\ ItemsTold
  BY DEF SubInv
<1>2. Plan!Quiet => v4 = <<>> /\ \A w \in Workers : v5[w].pc = "idle"
  BY DEF Plan!Quiet, Plan!At
<1>3. Plan!CancellationAgrees
  BY <1>1, <1>2 DEF Plan!CancellationAgrees, EndingTold, Handles
<1>4. Plan!PlanAgrees
  <2> SUFFICES ASSUME Plan!Quiet, ~v6, ~v7, ~v8
               PROVE  v1.plan = IF v3.status = "active" THEN v3.plan ELSE 0
    BY Zenon DEF Plan!PlanAgrees
  <2>1. CASE v3.status = "active"
    BY <1>1, <1>2, <2>1 DEF PlanTold, ActivePlan, Commits
  <2>2. CASE v3.status # "active"
    BY <1>1, <1>2, <2>2 DEF PlanTold, EndComes, EndHandled, EndKnown, Handles
  <2>. QED
    BY <2>1, <2>2
<1>5. Plan!BilledItemsAreAttached
  <2> SUFFICES ASSUME Plan!Quiet, ~v6, ~v7, v3.status = "active", NEW a \in BilledAddons
               PROVE  /\ Plan!Cardinality(Plan!Attached(a)) <= 1
                      /\ {v2[i].item : i \in Plan!Attached(a)} = {n \in v3.live : v3.items[n] = a}
    BY Zenon DEF Plan!BilledItemsAreAttached
  <2>1. /\ \A i, j \in LiveRows : v2[i].addon = v2[j].addon => i = j
        /\ {v2[i].item : i \in LiveRows} = v3.live
    BY <1>1, <1>2 DEF ItemsTold, ItemsOf, Commits
  <2>2. /\ LiveRows \subseteq DOMAIN v2
        /\ \A i \in DOMAIN v2 : v2[i].addon = v3.items[v2[i].item]
    BY <1>1, LiveRowsAre DEF SubItems
  <2>3. PICK A : A = Plan!Attached(a)
    OBVIOUS
  <2>4. A = {i \in LiveRows : v2[i].addon = a}
    BY <2>3, SubAttached
  <2>5. Cardinality(A) <= 1
    <3>1. CASE A = {}
      BY <3>1, FS_EmptySet
    <3>2. CASE A # {}
      <4>1. PICK i : i \in A
        BY <3>2
      <4>2. A = {i}
        BY <2>1, <2>4, <4>1
      <4>3. Cardinality(A) = 1
        BY <4>2, FS_Singleton
      <4>. QED
        BY <4>3
    <3>. QED
      BY <3>1, <3>2
  <2>6. Plan!Cardinality(A) = Cardinality(A)
    BY DEF Plan!Cardinality, Cardinality
  <2>7. {v2[i].item : i \in A} = {n \in v3.live : v3.items[n] = a}
    BY <2>1, <2>2, <2>4
  <2>. QED
    BY <2>3, <2>5, <2>6, <2>7, Zenon
<1>. QED
  BY <1>3, <1>4, <1>5

\* The types of plan changes.
LEMMA PlanTypes == ASSUME SubInv PROVE Plan!TypeOK
<1>1. SubTyped /\ SubItems
  BY DEF SubInv
<1>2. /\ v1 \in Plan!Row /\ v2 \in Seq(AddonRows)
      /\ v3 \in [status : {"active", "canceled"}, plan : Plan!Plans, ending : BOOLEAN,
                 items : Seq(BilledAddons), live : SUBSET Nat]
      /\ v5 \in [Workers -> {Plan!Idle} \cup SubRequests \cup SubHandlers]
  BY <1>1, Zenon DEF SubTyped
<1>3. /\ v3.live \subseteq DOMAIN v3.items
      /\ \A i \in DOMAIN v2 : v2[i].item \in DOMAIN v3.items
  BY <1>1, Zenon DEF SubItems
<1>4. v3 \in [status : {"active", "canceled"}, plan : Plan!Plans, ending : BOOLEAN,
              items : Seq(BilledAddons), live : SUBSET (DOMAIN v3.items)]
  <2>1. /\ v3 = [status |-> v3.status, plan |-> v3.plan, ending |-> v3.ending,
                 items |-> v3.items, live |-> v3.live]
        /\ v3.status \in {"active", "canceled"} /\ v3.plan \in Plan!Plans
        /\ v3.ending \in BOOLEAN /\ v3.items \in Seq(BilledAddons)
    BY <1>2, Zenon
  <2>2. v3.live \in SUBSET (DOMAIN v3.items)
    BY <1>3
  <2>. QED
    BY <2>1, <2>2, Zenon
<1>5. ASSUME NEW i \in DOMAIN v2
      PROVE  v2[i] \in [addon : BilledAddons,
                        status : {"active", "pending_cancel", "canceled"},
                        item : DOMAIN v3.items]
  <2>1. v2[i] \in AddonRows
    BY <1>2, SMT
  <2> DEFINE r == v2[i]
  <2>2. /\ r = [addon |-> r.addon, status |-> r.status, item |-> r.item]
        /\ r.addon \in BilledAddons /\ r.status \in {"active", "pending_cancel", "canceled"}
    BY <2>1, Zenon DEF AddonRows
  <2>3. r.item \in DOMAIN v3.items
    BY <1>3
  <2>. HIDE DEF r
  <2>4. r \in [addon : BilledAddons, status : {"active", "pending_cancel", "canceled"},
               item : DOMAIN v3.items]
    BY <2>2, <2>3, Zenon
  <2>. QED
    BY <2>4 DEF r
<1>6. ASSUME NEW w \in Workers PROVE v5[w].pc \in {"idle", "call", "commit", "handle"}
  <2>1. v5[w] = Plan!Idle \/ v5[w] \in SubRequests \/ v5[w] \in SubHandlers
    BY <1>2
  <2>. QED
    BY <2>1, SMT DEF Plan!Idle, SubRequests, SubHandlers
<1>. QED
  BY <1>2, <1>4, <1>5, <1>6, Zenon DEF Plan!TypeOK

SubOnly == subject = "plan" => SubInv

\* It holds in every reachable state of plan changes.
LEMMA SubAlways == Spec => []SubOnly
<1>1. Init => SubOnly
  BY SubInit, Zenon DEF Init, SubOnly
<1>2. SubOnly /\ [Next]_vars => SubOnly'
  <2>. SUFFICES ASSUME SubOnly, [Next]_vars PROVE SubOnly'
    OBVIOUS
  <2>1. subject' = subject
    BY SubjectStays
  <2>2. subject = "plan" => SubInv'
    BY StepOfSubject, SubSteps, Zenon DEF SubOnly
  <2>. QED
    BY <2>1, <2>2, Zenon DEF SubOnly
<1>. QED
  BY <1>1, <1>2, PTL DEF Spec

\* When nothing is under way, the row says whether the subscription ends, its plan and its
\* add-ons as Stripe has them, except after the overlaps, crashes and losses the
\* properties name (billing.py).
THEOREM RowAndSubscriptionAgree == Spec => []SubscriptionAgrees
<1>1. SubOnly => SubscriptionAgrees
  BY SubMeans, Zenon DEF SubOnly, SubscriptionAgrees
<1>. QED
  BY <1>1, SubAlways, PTL

-----------------------------------------------------------------------------
(* Metering. *)

\* The entries.
UsageRow == [date : Nat, count : Nat, lastUsed : Nat \cup {-1}]
UsageFree == [date : Nat, count : Nat]

\* Entries of a number of units each, and the entries of one day.
Weights(e) == [i \in DOMAIN e |-> e[i].count]
Entries(e) == /\ \E n \in Nat : DOMAIN e = 1..n
              /\ \A i \in DOMAIN e : e[i].count \in Nat /\ e[i].date \in Nat
OnDay(e, d) == {i \in DOMAIN e : Usage!Day(e[i].date) = d}

\* What is assumed of the constants.
LEMMA UsageConstants ==
    /\ Metered # {} => /\ Cost \in Nat /\ Daily \in Nat /\ Monthly \in Nat
                       /\ Daily <= Monthly
    /\ Allocated \in Nat
    /\ Granted \subseteq Nat
    /\ Counts \subseteq Nat \ {0} /\ TicksPerDay \in Nat /\ TicksPerDay > 0
<1>1. /\ [t \in Metered |-> Cost] \in [Metered -> Nat]
      /\ [t \in Metered |-> Daily] \in [Metered -> Nat]
      /\ [t \in Metered |-> Monthly] \in [Metered -> Nat]
      /\ \A t \in Metered : [u \in Metered |-> Daily][t] <= [u \in Metered |-> Monthly][t]
      /\ Allocated \in Nat /\ Granted \subseteq Nat
      /\ Counts \subseteq Nat \ {0} /\ TicksPerDay \in Nat \ {0}
  BY MirrorsAssumption, Zenon DEF MirrorsAssumption, Usage!MeteringAssumption
<1>. QED
  BY <1>1

\* Entries are finitely many.
LEMMA EntriesFinite ==
    ASSUME NEW e, Entries(e), NEW P \in SUBSET DOMAIN e
    PROVE  IsFiniteSet(P) /\ IsFiniteSet(DOMAIN e) /\ \A i \in DOMAIN e : Weights(e)[i] \in Nat
<1>1. PICK n \in Nat : DOMAIN e = 1..n
  BY DEF Entries
<1>2. 1 \in Int /\ n \in Int
  BY <1>1
<1>3. IsFiniteSet(1..n)
  BY <1>2, FS_Interval
<1>4. \A i \in DOMAIN e : e[i].count \in Nat
  BY Zenon DEF Entries
<1>5. \A i \in DOMAIN e : Weights(e)[i] \in Nat
  BY <1>4 DEF Weights
<1>. QED
  BY <1>1, <1>3, <1>5, FS_Subset

\* UnitsAt adds the units of the entries up.
LEMMA UnitsAreSum ==
    ASSUME NEW e, NEW P \in SUBSET DOMAIN e
    PROVE  Usage!UnitsAt(e, P) = Sum(P, Weights(e))
<1> DEFINE w == Weights(e)
           Q(f) == f = [s \in SUBSET P |->
                           IF s = {} THEN 0
                           ELSE LET x == CHOOSE x \in s : TRUE IN f[s \ {x}] + w[x]]
<1>1. Usage!UnitsAt(e, P) = (CHOOSE f : Q(f))[P]
  BY Zenon DEF Usage!UnitsAt, Usage!FoldFunctionOnSet, Usage!MapThenFoldSet, Weights
<1>2. ASSUME NEW f PROVE Q(f) <=> Adds(f, P, w)
  BY Zenon DEF Adds, Chosen
<1>. HIDE DEF Q, w
<1>3. (CHOOSE f : Q(f)) = (CHOOSE f : Adds(f, P, w))
  BY <1>2, Zenon
<1>. QED
  BY <1>1, <1>3, Zenon DEF Sum, w

LEMMA TypesUnitsAre == ASSUME NEW e PROVE Usage!TypesUnits(e) = Usage!UnitsAt(e, DOMAIN e)
  BY Zenon DEF Usage!TypesUnits

LEMMA UnitsNatural ==
    ASSUME NEW e, Entries(e), NEW P \in SUBSET DOMAIN e
    PROVE  Usage!UnitsAt(e, P) \in Nat
<1>1. \A i \in P : Weights(e)[i] \in Nat
  BY EntriesFinite
<1>2. Sum(P, Weights(e)) \in Nat
  BY <1>1, EntriesFinite, SumIsNatural
<1>. QED
  BY <1>2, UnitsAreSum

\* More entries have no fewer units.
LEMMA UnitsGrow ==
    ASSUME NEW e, Entries(e), NEW Q \in SUBSET DOMAIN e, NEW P \in SUBSET Q
    PROVE  Usage!UnitsAt(e, P) <= Usage!UnitsAt(e, Q)
<1>1. /\ \A i \in Q : Weights(e)[i] \in Nat
      /\ \A i \in P : Weights(e)[i] \in Nat /\ Weights(e)[i] <= Weights(e)[i]
  BY EntriesFinite, SMT
<1>2. IsFiniteSet(Q) /\ P \in SUBSET DOMAIN e
  BY EntriesFinite
<1>3. Sum(P, Weights(e)) <= Sum(Q, Weights(e))
  BY <1>1, <1>2, SumGrows
<1>. QED
  BY <1>2, <1>3, UnitsAreSum

\* Entry p gets n units more, or is a new entry of n units.
OneMore(e, f, p, n) ==
    /\ DOMAIN f = DOMAIN e \cup {p}
    /\ \A i \in DOMAIN e \ {p} : f[i] = e[i]
    /\ p \in DOMAIN e => f[p].count = e[p].count + n /\ f[p].date = e[p].date
    /\ p \notin DOMAIN e => f[p].count = n

LEMMA UnitsOneMore ==
    ASSUME NEW e, Entries(e), NEW f, Entries(f), NEW p, NEW n \in Nat, OneMore(e, f, p, n)
    PROVE  /\ Usage!TypesUnits(f) = Usage!TypesUnits(e) + n
           /\ \A d : Usage!UnitsAt(f, OnDay(f, d)) = Usage!UnitsAt(e, OnDay(e, d))
                     + IF Usage!Day(f[p].date) = d THEN n ELSE 0
<1>1. /\ p \in DOMAIN f /\ DOMAIN e \subseteq DOMAIN f /\ DOMAIN f = DOMAIN e \cup {p}
      /\ \A i \in DOMAIN e : i # p => f[i] = e[i]
      /\ p \in DOMAIN e => f[p].count = e[p].count + n /\ f[p].date = e[p].date
      /\ p \notin DOMAIN e => f[p].count = n
  BY DEF OneMore
<1>2. /\ \A i \in DOMAIN e : i # p => Weights(f)[i] = Weights(e)[i]
      /\ p \in DOMAIN e => Weights(f)[p] = Weights(e)[p] + n
      /\ p \notin DOMAIN e => Weights(f)[p] = n
  BY <1>1 DEF Weights
<1>3. ASSUME NEW P \in SUBSET DOMAIN e, p \in P \/ p \notin DOMAIN e
      PROVE  Usage!UnitsAt(f, P \cup {p}) = Usage!UnitsAt(e, P) + n
  <2>1. /\ IsFiniteSet(P) /\ \A i \in P : Weights(e)[i] \in Nat
        /\ \A i \in P : i # p => Weights(f)[i] = Weights(e)[i]
        /\ p \in P => Weights(f)[p] = Weights(e)[p] + n
        /\ p \notin P => Weights(f)[p] = n
    BY <1>2, <1>3, EntriesFinite
  <2>2. MoreBy(P, Weights(e), Weights(f), p, n)
    BY <2>1 DEF MoreBy
  <2>3. Sum(P \cup {p}, Weights(f)) = Sum(P, Weights(e)) + n
    BY <2>1, <2>2, SumOneMore
  <2>4. P \cup {p} \in SUBSET DOMAIN f
    BY <1>1
  <2>. QED
    BY <2>3, <2>4, UnitsAreSum
<1>4. ASSUME NEW P \in SUBSET DOMAIN e, p \notin P
      PROVE  Usage!UnitsAt(f, P) = Usage!UnitsAt(e, P)
  <2>1. \A i \in P : Weights(f)[i] = Weights(e)[i]
    BY <1>2, <1>4
  <2>2. P \in SUBSET DOMAIN f
    BY <1>1
  <2>. QED
    BY <2>1, <2>2, UnitsAreSum, SumDependsOn
<1>5. Usage!TypesUnits(f) = Usage!TypesUnits(e) + n
  <2>1. DOMAIN e \in SUBSET DOMAIN e /\ (p \in DOMAIN e \/ p \notin DOMAIN e)
    OBVIOUS
  <2>2. Usage!UnitsAt(f, DOMAIN e \cup {p}) = Usage!UnitsAt(e, DOMAIN e) + n
    BY <1>3, <2>1
  <2>. QED
    BY <1>1, <2>2, TypesUnitsAre
<1>6. ASSUME NEW d
      PROVE  Usage!UnitsAt(f, OnDay(f, d)) = Usage!UnitsAt(e, OnDay(e, d))
                     + IF Usage!Day(f[p].date) = d THEN n ELSE 0
  <2>1. OnDay(e, d) \in SUBSET DOMAIN e
    BY DEF OnDay
  <2>2. Usage!UnitsAt(e, OnDay(e, d)) \in Nat
    BY <2>1, UnitsNatural
  <2>3. CASE Usage!Day(f[p].date) = d
    <3>1. OnDay(f, d) = OnDay(e, d) \cup {p} /\ (p \in OnDay(e, d) \/ p \notin DOMAIN e)
      BY <1>1, <2>3 DEF OnDay
    <3>2. Usage!UnitsAt(f, OnDay(e, d) \cup {p}) = Usage!UnitsAt(e, OnDay(e, d)) + n
      BY <1>3, <2>1, <3>1
    <3>. QED
      BY <2>3, <3>1, <3>2
  <2>4. CASE Usage!Day(f[p].date) # d
    <3>1. OnDay(f, d) = OnDay(e, d) /\ p \notin OnDay(e, d)
      BY <1>1, <2>4 DEF OnDay
    <3>2. Usage!UnitsAt(f, OnDay(e, d)) = Usage!UnitsAt(e, OnDay(e, d))
      BY <1>4, <2>1, <3>1
    <3>. QED
      BY <2>2, <2>4, <3>1, <3>2, SMT
  <2>. QED
    BY <2>3, <2>4
<1>. QED
  BY <1>5, <1>6

\* The types, with a clock that has no end.
UsageJobs == [type : Metered \cup {"none"}, count : Nat]
UsageSeen == [now : Nat, row : Usage!BalanceRow, lastAllocation : Nat \cup {-1},
              daily : Nat, monthly : Nat, place : Nat, count : Nat]

UsageTyped ==
    /\ v1 \in Nat
    /\ v2 \in Usage!BalanceRow
    /\ v3 \in Nat \cup {-1}
    /\ v4 \in [Metered -> Seq(UsageRow)]
    /\ v5 \in [Workers -> {"idle", "work", "use", "commit"}]
    /\ v6 \in [Workers -> UsageJobs]
    /\ v7 \in [Workers -> UsageSeen]
    /\ v8 \in [Metered -> Nat]
    /\ v9 \in [Metered -> Seq(UsageFree)]
    /\ v10 \in [Metered -> Nat]
    /\ v11 \in BOOLEAN

\* What was recorded is of the past, and so is what a caller has read.
UsagePast ==
    /\ v3 <= v1
    /\ \A t \in Metered : \A i \in DOMAIN v4[t] : v4[t][i].date <= v1
    /\ \A w \in Workers : v5[w] = "commit" => v7[w].now <= v1

\* A caller has a job; the entry it read is one of its type.
UsagePlaces ==
    /\ \A w \in Workers : v5[w] # "idle" => v6[w].type \in Metered
    /\ \A w \in Workers : v5[w] = "commit" =>
           IF v7[w].place = 0 THEN v7[w].count = 0 ELSE v7[w].place \in DOMAIN v4[v6[w].type]

\* Callers whose work is done and not recorded, and the units of a type they did.
Unrecorded == {w \in Workers : v5[w] \in {"use", "commit"}}
Due(w, t) == IF v6[w].type = t THEN v6[w].count ELSE 0
Pending(t) == Sum(Unrecorded, [w \in Workers |-> Due(w, t)])

\* What holds in any case.
UsageBase ==
    /\ UsageTyped
    /\ UsagePast
    /\ UsagePlaces
    /\ IsFiniteSet(Unrecorded)

\* C is what was done for each entry: an entry, now or when a caller read it,
\* shows no more, and no more was done than that and what is still to be recorded.
Covers(t, C) ==
    /\ \A i \in DOMAIN v4[t] : v4[t][i].count <= C[i]
    /\ \A w \in Workers :
           v5[w] = "commit" /\ v6[w].type = t /\ v7[w].place # 0 => v7[w].count <= C[v7[w].place]
    /\ Sum(DOMAIN v4[t], C) + Pending(t) <= v8[t]
UsageCovered == \A t \in Metered : \E C \in [DOMAIN v4[t] -> Nat] : Covers(t, C)

LEMMA RowsAreEntries ==
    ASSUME UsageTyped, NEW t \in Metered
    PROVE  /\ Entries(v4[t]) /\ v4[t] \in Seq(UsageRow)
           /\ Entries(v9[t]) /\ v9[t] \in Seq(UsageFree)
<1>1. v4[t] \in Seq(UsageRow) /\ v9[t] \in Seq(UsageFree)
  BY DEF UsageTyped
<1>2. /\ Len(v4[t]) \in Nat /\ DOMAIN v4[t] = 1..Len(v4[t])
      /\ \A i \in DOMAIN v4[t] : v4[t][i] \in UsageRow
  BY <1>1, SMT
<1>3. /\ Len(v9[t]) \in Nat /\ DOMAIN v9[t] = 1..Len(v9[t])
      /\ \A i \in DOMAIN v9[t] : v9[t][i] \in UsageFree
  BY <1>1, SMT
<1>4. \A i \in DOMAIN v4[t] : v4[t][i].count \in Nat /\ v4[t][i].date \in Nat
  BY <1>2, SMT DEF UsageRow
<1>5. \A i \in DOMAIN v9[t] : v9[t][i].count \in Nat /\ v9[t][i].date \in Nat
  BY <1>3, SMT DEF UsageFree
<1>. QED
  BY <1>1, <1>2, <1>3, <1>4, <1>5, Zenon DEF Entries

LEMMA DueNatural ==
    ASSUME UsageTyped, NEW w \in Workers, NEW t
    PROVE  Due(w, t) \in Nat
  BY DEF UsageTyped, UsageJobs, Due

LEMMA PendingNatural ==
    ASSUME UsageBase, NEW t
    PROVE  Pending(t) \in Nat
<1>1. \A w \in Unrecorded : [u \in Workers |-> Due(u, t)][w] \in Nat
  BY DueNatural DEF UsageBase, Unrecorded
<1>. QED
  BY <1>1, SumIsNatural DEF UsageBase, Pending

\* The newest of today's entries, when there is one.
LEMMA NewestToday ==
    ASSUME UsageTyped, NEW t \in Metered
    PROVE  IF Usage!Today(t) = {} THEN Usage!TodaysRecord(t) = 0
           ELSE Usage!TodaysRecord(t) \in Usage!Today(t)
<1>1. CASE Usage!Today(t) = {}
  BY <1>1 DEF Usage!TodaysRecord
<1>2. CASE Usage!Today(t) # {}
  <2> DEFINE T == Usage!Today(t)
             n == Len(v4[t])
             D == {m \in Nat : n - m \in T}
  <2>1. n \in Nat /\ DOMAIN v4[t] = 1..n
    <3>1. v4[t] \in Seq(UsageRow)
      BY RowsAreEntries
    <3>. QED
      BY <3>1, SMT
  <2>2. T \subseteq 1..n
    BY <2>1 DEF Usage!Today
  <2>. HIDE DEF T, n
  <2>3. T # {}
    BY <1>2 DEF T
  <2>4. \A k \in T : n - k \in D /\ k \in Nat
    <3>1. \A k \in T : n - k \in Nat /\ n - (n - k) = k /\ k \in Nat
      BY <2>1, <2>2, SMT
    <3>. QED
      BY <3>1
  <2>5. D \in SUBSET Nat /\ D # {}
    BY <2>3, <2>4
  <2>6. PICK d \in D : \A e \in D : d <= e
    <3>. HIDE DEF D
    <3>. QED
      BY <2>5, LeastOf
  <2>7. PICK i \in T : i = n - d /\ d \in Nat
    BY <2>6
  <2>8. \A k \in T : k <= i
    <3>. HIDE DEF D
    <3>. QED
      BY <2>1, <2>4, <2>6, <2>7, SMT
  <2>9. Usage!TodaysRecord(t) = CHOOSE j \in T : \A k \in T : k <= j
    BY <1>2, Zenon DEF T, Usage!TodaysRecord
  <2>. HIDE DEF D
  <2>10. Usage!TodaysRecord(t) \in T
    BY <2>7, <2>8, <2>9
  <2>. QED
    BY <1>2, <2>10 DEF T
<1>. QED
  BY <1>1, <1>2

\* What storing a record does to the entries of its type.
LEMMA RecordStored ==
    ASSUME UsageBase, NEW w \in Workers, v5[w] = "commit", Usage!StoreRecord(w)
    PROVE  /\ v6[w].type \in Metered /\ v6[w].count \in Nat
           /\ v4' \in [Metered -> Seq(UsageRow)]
           /\ \A t \in Metered : t # v6[w].type => v4'[t] = v4[t]
           /\ \E p :
                 LET e == v4[v6[w].type]
                     f == v4'[v6[w].type] IN
                 /\ p = IF v7[w].place = 0 THEN Len(e) + 1 ELSE v7[w].place
                 /\ v7[w].place # 0 <=> p \in DOMAIN e
                 /\ DOMAIN f = DOMAIN e \cup {p}
                 /\ \A i \in DOMAIN e \ {p} : f[i] = e[i]
                 /\ f[p].count = v7[w].count + v6[w].count
                 /\ f[p].date = IF v7[w].place = 0 THEN v7[w].now ELSE e[p].date
                 /\ f[p].lastUsed = v7[w].now
<1> DEFINE t == v6[w].type
           e == v4[t]
           f == v4'[t]
           n == v7[w].count + v6[w].count
           p == IF v7[w].place = 0 THEN Len(e) + 1 ELSE v7[w].place
           new == [date |-> v7[w].now, count |-> n, lastUsed |-> v7[w].now]
           changed == [e EXCEPT ![v7[w].place].count = n, ![v7[w].place].lastUsed = v7[w].now]
<1>1. /\ t \in Metered /\ v6[w].count \in Nat /\ v4 \in [Metered -> Seq(UsageRow)]
      /\ v7[w].now \in Nat /\ v7[w].count \in Nat /\ v7[w].place \in Nat
  BY DEF UsageBase, UsageTyped, UsagePlaces, UsageJobs, UsageSeen
<1>2. /\ e \in Seq(UsageRow) /\ Len(e) \in Nat /\ DOMAIN e = 1..Len(e)
      /\ v7[w].place # 0 => v7[w].place \in DOMAIN e
  <2>1. e \in Seq(UsageRow)
    BY <1>1
  <2>2. v7[w].place # 0 => v7[w].place \in DOMAIN e
    BY DEF UsageBase, UsagePlaces
  <2>. QED
    BY <2>1, <2>2, SMT
<1>3. v4' = [v4 EXCEPT ![t] = IF v7[w].place = 0 THEN Append(e, new) ELSE changed]
  BY Zenon DEF Usage!StoreRecord
<1>4. n \in Nat
  BY <1>1
<1>. HIDE DEF t, n
<1>5. new \in UsageRow /\ new.count = n /\ new.date = v7[w].now /\ new.lastUsed = v7[w].now
  BY <1>1, <1>4 DEF UsageRow
<1>. HIDE DEF e, new, changed
<1>6. f = IF v7[w].place = 0 THEN Append(e, new) ELSE changed
  BY <1>1, <1>3
<1>7. ASSUME v7[w].place = 0
      PROVE  /\ f \in Seq(UsageRow) /\ DOMAIN f = DOMAIN e \cup {p} /\ p \notin DOMAIN e
             /\ \A i \in DOMAIN e \ {p} : f[i] = e[i]
             /\ f[p].count = n /\ f[p].date = v7[w].now /\ f[p].lastUsed = v7[w].now
  <2>1. f = Append(e, new) /\ p = Len(e) + 1
    BY <1>6, <1>7
  <2>. HIDE DEF f, p
  <2>2. /\ f \in Seq(UsageRow) /\ DOMAIN f = DOMAIN e \cup {p} /\ p \notin DOMAIN e
        /\ \A i \in DOMAIN e : f[i] = e[i]
        /\ f[p] = new
    BY <1>2, <1>5, <2>1, SMT
  <2>. QED
    BY <1>5, <2>2
<1>8. ASSUME v7[w].place # 0
      PROVE  /\ f \in Seq(UsageRow) /\ DOMAIN f = DOMAIN e \cup {p} /\ p \in DOMAIN e
             /\ \A i \in DOMAIN e \ {p} : f[i] = e[i]
             /\ f[p].count = n /\ f[p].date = e[p].date /\ f[p].lastUsed = v7[w].now
  <2>1. f = changed /\ p = v7[w].place /\ p \in DOMAIN e
    BY <1>2, <1>6, <1>8
  <2> DEFINE r == [e[p] EXCEPT !.count = n, !.lastUsed = v7[w].now]
  <2>2. changed = [e EXCEPT ![p] = r]
    <3>1. p = v7[w].place
      BY <2>1
    <3>. QED
      BY <3>1, Zenon DEF changed
  <2>3. e[p] \in UsageRow
    BY <1>2, <2>1
  <2>4. r \in UsageRow /\ r.count = n /\ r.date = e[p].date /\ r.lastUsed = v7[w].now
    BY <1>1, <1>4, <2>3 DEF UsageRow
  <2>. HIDE DEF f, p, r
  <2>5. f = [e EXCEPT ![p] = r]
    BY <2>1, <2>2
  <2>6. e \in [1..Len(e) -> UsageRow]
    BY <1>2, SMT
  <2>7. /\ f \in [1..Len(e) -> UsageRow] /\ DOMAIN f = DOMAIN e
        /\ \A i \in DOMAIN e : f[i] = IF i = p THEN r ELSE e[i]
    BY <1>2, <2>4, <2>5, <2>6
  <2>8. f \in Seq(UsageRow)
    BY <1>2, <2>7, SMT
  <2>. QED
    BY <2>1, <2>4, <2>7, <2>8
<1>9. f \in Seq(UsageRow)
  BY <1>7, <1>8
<1>10. v4' \in [Metered -> Seq(UsageRow)] /\ \A u \in Metered : u # t => v4'[u] = v4[u]
  <2>1. v4' = [v4 EXCEPT ![t] = f]
    BY <1>3, <1>6, Zenon
  <2>. HIDE DEF f
  <2>. QED
    BY <1>1, <1>9, <2>1
<1>11. /\ p = IF v7[w].place = 0 THEN Len(e) + 1 ELSE v7[w].place
       /\ v7[w].place # 0 <=> p \in DOMAIN e
       /\ DOMAIN f = DOMAIN e \cup {p}
       /\ \A i \in DOMAIN e \ {p} : f[i] = e[i]
       /\ f[p].count = n
       /\ f[p].date = IF v7[w].place = 0 THEN v7[w].now ELSE e[p].date
       /\ f[p].lastUsed = v7[w].now
  BY <1>7, <1>8
<1>. HIDE DEF f, p
<1>. QED
  BY <1>1, <1>10, <1>11, Zenon DEF e, f, t, n

\* Balance rows.
LEMMA EmptyUsageRow == Usage!EmptyRow \in Usage!BalanceRow
  BY DEF Usage!EmptyRow, Usage!BalanceRow, Usage!Columns

LEMMA GrantedRow ==
    ASSUME NEW n \in Nat
    PROVE  Usage!Grant(Usage!EmptyRow, "bonus", n) \in Usage!BalanceRow
  BY EmptyUsageRow DEF Usage!Grant, Usage!EmptyRow, Usage!BalanceRow, Usage!Columns

LEMMA AllocatedRow ==
    ASSUME NEW row \in Usage!BalanceRow, NEW n \in Nat
    PROVE  Usage!Allocate(row, n) \in Usage!BalanceRow
  BY DEF Usage!Allocate, Usage!BalanceRow, Usage!Columns

LEMMA ChargedRow ==
    ASSUME NEW row \in Usage!BalanceRow, NEW n \in Nat, Usage!CanAfford(row, n)
    PROVE  Usage!Deduct(row, n) \in Usage!BalanceRow
<1>1. Usage!TakeBonusFirst(row, n) \in Usage!BalanceRow
  BY DEF Usage!CanAfford, Usage!TotalAvailable, Usage!TakeBonusFirst, Usage!BalanceRow,
         Usage!Columns, Usage!Lesser
<1> DEFINE taken == Usage!TakeBonusFirst(row, n)
<1>2. Usage!Deduct(row, n) = [taken EXCEPT !["used"] = @ + n]
  BY DEF Usage!Deduct
<1>. HIDE DEF taken
<1>3. taken \in Usage!BalanceRow
  BY <1>1 DEF taken
<1>. QED
  BY <1>2, <1>3 DEF Usage!BalanceRow, Usage!Columns

LEMMA NoUsageJob == Usage!NoJob \in UsageJobs /\ Usage!Nothing \in UsageSeen
<1>1. Usage!NoJob \in UsageJobs
  BY DEF Usage!NoJob, UsageJobs
<1>2. Usage!Nothing \in UsageSeen
  BY EmptyUsageRow DEF Usage!Nothing, Usage!NoDate, UsageSeen
<1>. QED
  BY <1>1, <1>2

\* A request ends.
LEMMA FinishUsage ==
    ASSUME UsageTyped, NEW w \in Workers, Usage!Finish(w)
    PROVE  /\ v5' \in [Workers -> {"idle", "work", "use", "commit"}]
           /\ v6' \in [Workers -> UsageJobs] /\ v7' \in [Workers -> UsageSeen]
           /\ v5'[w] = "idle"
           /\ \A u \in Workers : u # w => v5'[u] = v5[u] /\ v6'[u] = v6[u] /\ v7'[u] = v7[u]
           /\ Unrecorded' = Unrecorded \ {w}
<1>1. /\ v5 \in [Workers -> {"idle", "work", "use", "commit"}]
      /\ v6 \in [Workers -> UsageJobs] /\ v7 \in [Workers -> UsageSeen]
  BY DEF UsageTyped
<1>2. /\ v5' = [v5 EXCEPT ![w] = "idle"]
      /\ v6' = [v6 EXCEPT ![w] = Usage!NoJob]
      /\ v7' = [v7 EXCEPT ![w] = Usage!Nothing]
  BY Zenon DEF Usage!Finish, Usage!Goto
<1>3. /\ v5' \in [Workers -> {"idle", "work", "use", "commit"}]
      /\ v6' \in [Workers -> UsageJobs] /\ v7' \in [Workers -> UsageSeen]
      /\ v5'[w] = "idle"
      /\ \A u \in Workers : u # w => v5'[u] = v5[u] /\ v6'[u] = v6[u] /\ v7'[u] = v7[u]
  BY <1>1, <1>2, NoUsageJob
<1>. QED
  BY <1>3 DEF Unrecorded

\* Leaving the callers whose work is not recorded.
LEMMA PendingLess ==
    ASSUME UsageBase, NEW w \in Unrecorded, Usage!Finish(w), NEW t
    PROVE  Pending(t)' + Due(w, t) = Pending(t) /\ Pending(t)' \in Nat
<1>1. w \in Workers /\ UsageTyped /\ IsFiniteSet(Unrecorded)
  BY DEF Unrecorded, UsageBase
<1>2. /\ Unrecorded' = Unrecorded \ {w}
      /\ \A u \in Workers : u # w => v6'[u] = v6[u]
  BY <1>1, FinishUsage
<1> DEFINE d == [u \in Workers |-> Due(u, t)]
           e == [u \in Workers |-> Due(u, t)']
<1>3. \A u \in Unrecorded : d[u] \in Nat
  BY <1>1, DueNatural DEF Unrecorded
<1>4. \A u \in Unrecorded \ {w} : e[u] = d[u]
  BY <1>2 DEF Due, Unrecorded
<1>5. d[w] = Due(w, t)
  BY <1>1
<1>6. Pending(t) = Sum(Unrecorded, d) /\ Pending(t)' = Sum(Unrecorded \ {w}, e)
  BY <1>2, Zenon DEF Pending
<1>. HIDE DEF d, e
<1>7. Sum(Unrecorded, d) = Sum(Unrecorded \ {w}, d) + d[w]
  BY <1>1, <1>3, SumWithout
<1>8. Sum(Unrecorded \ {w}, e) = Sum(Unrecorded \ {w}, d)
  BY <1>4, SumDependsOn
<1>9. Sum(Unrecorded \ {w}, d) \in Nat
  <2>1. IsFiniteSet(Unrecorded \ {w}) /\ \A u \in Unrecorded \ {w} : d[u] \in Nat
    BY <1>1, <1>3, FS_Subset
  <2>. QED
    BY <2>1, SumIsNatural
<1>. QED
  BY <1>5, <1>6, <1>7, <1>8, <1>9

\* Joining them.
LEMMA PendingMore ==
    ASSUME UsageBase, NEW w \in Workers, w \notin Unrecorded, Unrecorded' = Unrecorded \cup {w},
           v6' = v6, NEW t
    PROVE  Pending(t)' = Pending(t) + Due(w, t)
<1> DEFINE d == [u \in Workers |-> Due(u, t)]
<1>1. IsFiniteSet(Unrecorded) /\ \A u \in Unrecorded : d[u] \in Nat
  BY DueNatural DEF Unrecorded, UsageBase
<1>2. d[w] = Due(w, t) /\ Due(w, t) \in Nat
  BY DueNatural DEF UsageBase
<1>3. Pending(t) = Sum(Unrecorded, d) /\ Pending(t)' = Sum(Unrecorded \cup {w}, d)
  <2>1. \A u : Due(u, t)' = Due(u, t)
    BY DEF Due
  <2>. QED
    BY <2>1, Zenon DEF Pending
<1>. HIDE DEF d
<1>4. w \notin Unrecorded /\ d[w] \in Nat
  BY <1>2
<1>5. Sum(Unrecorded \cup {w}, d) = Sum(Unrecorded, d) + d[w]
  BY ONLY <1>1, <1>4, SumWith
<1>. QED
  BY <1>2, <1>3, <1>5

\* The sum of what is due depends on these callers and their jobs.
LEMMA PendingSame ==
    ASSUME Unrecorded' = Unrecorded, \A u \in Unrecorded : v6'[u] = v6[u], NEW t
    PROVE  Pending(t)' = Pending(t)
<1> DEFINE d == [u \in Workers |-> Due(u, t)]
           e == [u \in Workers |-> Due(u, t)']
<1>1. \A u \in Unrecorded : e[u] = d[u]
  BY DEF Due, Unrecorded
<1>2. Pending(t) = Sum(Unrecorded, d) /\ Pending(t)' = Sum(Unrecorded, e)
  BY Zenon DEF Pending
<1>. HIDE DEF d, e
<1>. QED
  BY <1>1, <1>2, SumDependsOn

\* The places.
Pcs == {"idle", "work", "use", "commit"}

\* UsageBase, part by part, and put together in the next state.
LEMMA BaseAre ==
    ASSUME UsageBase
    PROVE  /\ v1 \in Nat /\ v2 \in Usage!BalanceRow /\ v3 \in Nat \cup {-1}
           /\ v4 \in [Metered -> Seq(UsageRow)] /\ v5 \in [Workers -> Pcs]
           /\ v6 \in [Workers -> UsageJobs] /\ v7 \in [Workers -> UsageSeen]
           /\ v8 \in [Metered -> Nat] /\ v9 \in [Metered -> Seq(UsageFree)]
           /\ v10 \in [Metered -> Nat] /\ v11 \in BOOLEAN
           /\ v3 <= v1
           /\ \A t \in Metered : \A i \in DOMAIN v4[t] : v4[t][i].date <= v1
           /\ \A w \in Workers : v5[w] = "commit" => v7[w].now <= v1
           /\ \A w \in Workers : v5[w] # "idle" => v6[w].type \in Metered
           /\ \A w \in Workers : v5[w] = "commit" =>
                  IF v7[w].place = 0 THEN v7[w].count = 0
                  ELSE v7[w].place \in DOMAIN v4[v6[w].type]
           /\ IsFiniteSet(Unrecorded)
  BY Zenon DEF UsageBase, UsageTyped, UsagePast, UsagePlaces, Pcs

LEMMA BaseFrom ==
    ASSUME v1' \in Nat, v2' \in Usage!BalanceRow, v3' \in Nat \cup {-1},
           v4' \in [Metered -> Seq(UsageRow)], v5' \in [Workers -> Pcs],
           v6' \in [Workers -> UsageJobs], v7' \in [Workers -> UsageSeen],
           v8' \in [Metered -> Nat], v9' \in [Metered -> Seq(UsageFree)],
           v10' \in [Metered -> Nat], v11' \in BOOLEAN,
           v3' <= v1',
           \A t \in Metered : \A i \in DOMAIN v4'[t] : v4'[t][i].date <= v1',
           \A w \in Workers : v5'[w] = "commit" => v7'[w].now <= v1',
           \A w \in Workers : v5'[w] # "idle" => v6'[w].type \in Metered,
           \A w \in Workers : v5'[w] = "commit" =>
                  IF v7'[w].place = 0 THEN v7'[w].count = 0
                  ELSE v7'[w].place \in DOMAIN v4'[v6'[w].type],
           IsFiniteSet(Unrecorded')
    PROVE  UsageBase'
  BY Zenon DEF UsageBase, UsageTyped, UsagePast, UsagePlaces, Pcs

\* UsageBase is kept, action by action: a preview.
LEMMA UsagePreview ==
    ASSUME UsageBase, NEW w \in Workers, NEW t \in Metered, NEW n \in Counts,
           Usage!Preview(w, t, n)
    PROVE  /\ UsageBase' /\ v5[w] = "idle" /\ Unrecorded' = Unrecorded /\ w \notin Unrecorded
           /\ \A u \in Workers : u # w => v5'[u] = v5[u] /\ v6'[u] = v6[u]
           /\ v5'[w] = "work" /\ v6'[w].type = t /\ v6'[w].count = n /\ n \in Nat
           /\ v1' = v1 /\ v2' = v2 /\ v3' = v3 /\ v4' = v4 /\ v7' = v7 /\ v8' = v8
           /\ v9' = v9 /\ v10' = v10
           /\ ~v11' => ~v11 /\ \A v \in Workers : v5[v] = "idle"
           /\ Usage!WithinLimits(t, Usage!DailyTotal(t), Usage!MonthlyTotal(t), n)
<1>1. /\ v5[w] = "idle" /\ v5' = [v5 EXCEPT ![w] = "work"]
      /\ v6' = [v6 EXCEPT ![w] = [type |-> t, count |-> n]]
      /\ v11' = (v11 \/ \E v \in Workers : v5[v] # "idle")
      /\ v1' = v1 /\ v2' = v2 /\ v3' = v3 /\ v4' = v4 /\ v7' = v7 /\ v8' = v8
      /\ v9' = v9 /\ v10' = v10
      /\ Usage!WithinLimits(t, Usage!DailyTotal(t), Usage!MonthlyTotal(t), n)
  BY Zenon DEF Usage!Preview, Usage!Goto
<1>2. n \in Nat
  BY UsageConstants
<1>3. v11' \in BOOLEAN /\ (~v11' => ~v11 /\ \A v \in Workers : v5[v] = "idle")
  BY <1>1, BaseAre, Zenon
<1>4. [type |-> t, count |-> n] \in UsageJobs
  BY <1>2 DEF UsageJobs
<1>5. /\ v5' \in [Workers -> Pcs] /\ v6' \in [Workers -> UsageJobs]
      /\ v5'[w] = "work" /\ v6'[w].type = t /\ v6'[w].count = n
      /\ \A u \in Workers : u # w => v5'[u] = v5[u] /\ v6'[u] = v6[u]
  BY <1>1, <1>4, BaseAre DEF Pcs
<1>6. Unrecorded' = Unrecorded /\ w \notin Unrecorded
  BY <1>1, <1>5 DEF Unrecorded
<1>7. \A u \in Workers : v5'[u] # "idle" => v6'[u].type \in Metered
  BY <1>5, BaseAre
<1>8. \A u \in Workers : v5'[u] = "commit" => u # w /\ v5[u] = "commit" /\ v6'[u] = v6[u]
  BY <1>5
<1>9. UsageBase'
  BY <1>1, <1>3, <1>5, <1>6, <1>7, <1>8, BaseAre, BaseFrom, Zenon
<1>. QED
  BY <1>1, <1>2, <1>3, <1>5, <1>6, <1>9

\* The work is done.
LEMMA UsageWork ==
    ASSUME UsageBase, NEW w \in Workers, Usage!Work(w)
    PROVE  /\ UsageBase' /\ v5[w] = "work" /\ w \notin Unrecorded
           /\ \A u \in Workers : u # w => v5'[u] = v5[u] /\ v6'[u] = v6[u] /\ v7'[u] = v7[u]
           /\ v1' = v1 /\ v2' = v2 /\ v3' = v3 /\ v4' = v4
           /\ v9' = v9 /\ v10' = v10 /\ v11' = v11
           /\ \/ /\ v6' = v6 /\ v7' = v7 /\ v5'[w] = "use" /\ Unrecorded' = Unrecorded \cup {w}
                 /\ \A t \in Metered : v8'[t] = v8[t] + Due(w, t)
              \/ v8' = v8 /\ v5'[w] = "idle" /\ Unrecorded' = Unrecorded
<1>1. /\ v5[w] = "work" /\ w \notin Unrecorded
      /\ v1' = v1 /\ v2' = v2 /\ v3' = v3 /\ v4' = v4
      /\ v9' = v9 /\ v10' = v10 /\ v11' = v11
  BY DEF Usage!Work, Unrecorded
<1>2. CASE Usage!Finish(w) /\ v8' = v8
  <2>1. UsageTyped
    BY DEF UsageBase
  <2>2. /\ v5' \in [Workers -> Pcs]
        /\ v6' \in [Workers -> UsageJobs] /\ v7' \in [Workers -> UsageSeen]
        /\ v5'[w] = "idle"
        /\ \A u \in Workers : u # w => v5'[u] = v5[u] /\ v6'[u] = v6[u] /\ v7'[u] = v7[u]
        /\ Unrecorded' = Unrecorded \ {w}
    BY <1>2, <2>1, FinishUsage DEF Pcs
  <2>3. Unrecorded' = Unrecorded
    BY <1>1, <2>2
  <2>4. \A u \in Workers : v5'[u] # "idle" => u # w /\ v5[u] # "idle" /\ v6'[u] = v6[u]
    BY <2>2
  <2>5. \A u \in Workers : v5'[u] = "commit" => u # w /\ v5[u] = "commit" /\ v6'[u] = v6[u]
                                                   /\ v7'[u] = v7[u]
    BY <2>2
  <2>6. \A u \in Workers : v5'[u] # "idle" => v6'[u].type \in Metered
    BY <2>4, BaseAre
  <2>7. UsageBase'
    BY <1>1, <1>2, <2>2, <2>3, <2>5, <2>6, BaseAre, BaseFrom, Zenon
  <2>. QED
    BY <1>1, <1>2, <2>2, <2>3, <2>7
<1>3. CASE /\ v8' = [v8 EXCEPT ![v6[w].type] = @ + v6[w].count]
           /\ v5' = [v5 EXCEPT ![w] = "use"] /\ v6' = v6 /\ v7' = v7
  <2>1. v6[w].type \in Metered /\ v6[w].count \in Nat
    BY <1>1, BaseAre DEF UsageJobs
  <2>2. v8' \in [Metered -> Nat] /\ \A t \in Metered : v8'[t] = v8[t] + Due(w, t)
    <3>1. v8 \in [Metered -> Nat]
      BY BaseAre
    <3>2. v8' = [v8 EXCEPT ![v6[w].type] = v8[v6[w].type] + v6[w].count]
      BY <1>3, Zenon
    <3>3. v8[v6[w].type] \in Nat
      BY <2>1, <3>1
    <3>4. v8[v6[w].type] + v6[w].count \in Nat /\ \A t \in Metered : v8[t] \in Nat
      BY <2>1, <3>1, <3>3
    <3>5. v8' \in [Metered -> Nat]
      BY <2>1, <3>1, <3>2, <3>4
    <3>6. \A t \in Metered : v8'[t] = IF v6[w].type = t THEN v8[t] + v6[w].count ELSE v8[t]
      BY <2>1, <3>1, <3>2
    <3>. QED
      BY <2>1, <3>4, <3>5, <3>6 DEF Due
  <2>3. /\ v5' \in [Workers -> Pcs] /\ v5'[w] = "use"
        /\ \A u \in Workers : u # w => v5'[u] = v5[u]
    BY <1>3, BaseAre DEF Pcs
  <2>4. Unrecorded' = Unrecorded \cup {w} /\ IsFiniteSet(Unrecorded')
    <3>1. Unrecorded' = Unrecorded \cup {w}
      BY <2>3 DEF Unrecorded
    <3>. QED
      BY <3>1, BaseAre, FS_AddElement
  <2>5. \A u \in Workers : v5'[u] # "idle" => v6'[u].type \in Metered
    BY <1>3, <2>1, <2>3, BaseAre
  <2>6. \A u \in Workers : v5'[u] = "commit" => v5[u] = "commit"
    BY <2>3
  <2>7. UsageBase'
    BY <1>1, <1>3, <2>2, <2>3, <2>4, <2>5, <2>6, BaseAre, BaseFrom, Zenon
  <2>. QED
    BY <1>1, <1>3, <2>2, <2>3, <2>4, <2>7
<1>. QED
  BY <1>2, <1>3, Zenon DEF Usage!Work, Usage!Goto

LEMMA TotalsNatural ==
    ASSUME UsageTyped, NEW t \in Metered
    PROVE  Usage!DailyTotal(t) \in Nat /\ Usage!MonthlyTotal(t) \in Nat
<1>1. /\ Usage!Today(t) \in SUBSET DOMAIN v4[t]
      /\ {i \in DOMAIN v4[t] : v4[t][i].date >= Usage!MonthStart(v1)} \in SUBSET DOMAIN v4[t]
  BY DEF Usage!Today
<1>. QED
  BY <1>1, RowsAreEntries, UnitsNatural DEF Usage!DailyTotal, Usage!MonthlyTotal

\* A caller reads the totals and the entry it will write.
LEMMA UsageRead ==
    ASSUME UsageBase, NEW w \in Workers, Usage!ReadUsage(w)
    PROVE  /\ UsageBase' /\ v5[w] = "use" /\ v5'[w] = "commit" /\ Unrecorded' = Unrecorded
           /\ \A u \in Workers : u # w => v5'[u] = v5[u] /\ v7'[u] = v7[u]
           /\ v1' = v1 /\ v2' = v2 /\ v3' = v3 /\ v4' = v4 /\ v6' = v6 /\ v8' = v8
           /\ v9' = v9 /\ v10' = v10 /\ v11' = v11 /\ v12' = v12
           /\ v7'[w].now = v1 /\ v7'[w].row = v2
           /\ v6[w].type \in Metered
           /\ v7'[w].daily = Usage!DailyTotal(v6[w].type)
           /\ v7'[w].monthly = Usage!MonthlyTotal(v6[w].type)
           /\ v7'[w].place = Usage!TodaysRecord(v6[w].type)
           /\ v7'[w].place # 0 =>
                  /\ v7'[w].place \in Usage!Today(v6[w].type)
                  /\ v7'[w].count = v4[v6[w].type][v7'[w].place].count
           /\ v7'[w].place = 0 => v7'[w].count = 0
<1> DEFINE t == v6[w].type
           i == Usage!TodaysRecord(t)
           r == [now |-> v1, row |-> v2, lastAllocation |-> v3,
                daily |-> Usage!DailyTotal(t), monthly |-> Usage!MonthlyTotal(t),
                place |-> i, count |-> IF i = 0 THEN 0 ELSE v4[t][i].count]
<1>1. /\ v5[w] = "use" /\ v5' = [v5 EXCEPT ![w] = "commit"] /\ v7' = [v7 EXCEPT ![w] = r]
      /\ v1' = v1 /\ v2' = v2 /\ v3' = v3 /\ v4' = v4 /\ v6' = v6 /\ v8' = v8
      /\ v9' = v9 /\ v10' = v10 /\ v11' = v11 /\ v12' = v12
  BY Zenon DEF Usage!ReadUsage, Usage!Goto
<1>2. t \in Metered
  BY <1>1, BaseAre
<1>. HIDE DEF t
<1>3. UsageTyped
  BY DEF UsageBase
<1>4. Entries(v4[t]) /\ Usage!DailyTotal(t) \in Nat /\ Usage!MonthlyTotal(t) \in Nat
  BY <1>2, <1>3, RowsAreEntries, TotalsNatural
<1>5. i \in Nat /\ (i # 0 => i \in Usage!Today(t) /\ i \in DOMAIN v4[t])
  <2>1. \A k \in DOMAIN v4[t] : k \in Nat
    BY <1>4, SMT DEF Entries
  <2>2. Usage!Today(t) \subseteq DOMAIN v4[t]
    BY DEF Usage!Today
  <2>3. IF Usage!Today(t) = {} THEN i = 0 ELSE i \in Usage!Today(t)
    BY <1>2, <1>3, NewestToday
  <2>. HIDE DEF i
  <2>. QED
    BY <2>1, <2>2, <2>3
<1>. HIDE DEF i
<1>6. /\ r \in UsageSeen /\ r.now = v1 /\ r.row = v2 /\ r.daily = Usage!DailyTotal(t)
      /\ r.monthly = Usage!MonthlyTotal(t) /\ r.place = i
      /\ i # 0 => r.count = v4[t][i].count
      /\ i = 0 => r.count = 0
  <2>1. (IF i = 0 THEN 0 ELSE v4[t][i].count) \in Nat
    BY <1>4, <1>5 DEF Entries
  <2>. QED
    BY <1>4, <1>5, <2>1, BaseAre DEF UsageSeen
<1>. HIDE DEF r
<1>7. /\ v5' \in [Workers -> Pcs] /\ v7' \in [Workers -> UsageSeen]
      /\ v5'[w] = "commit" /\ v7'[w] = r
      /\ \A u \in Workers : u # w => v5'[u] = v5[u] /\ v7'[u] = v7[u]
  BY <1>1, <1>6, BaseAre DEF Pcs
<1>8. Unrecorded' = Unrecorded
  BY <1>1, <1>7 DEF Unrecorded
<1>9. \A u \in Workers : v5'[u] # "idle" => v6[u].type \in Metered
  BY <1>1, <1>7, BaseAre
<1>10. v1 <= v1
  BY BaseAre
<1>11. \A u \in Workers : v5'[u] = "commit" => v7'[u].now <= v1
  BY <1>6, <1>7, <1>10, BaseAre, Zenon
<1>12. \A u \in Workers : v5'[u] = "commit" =>
                  IF v7'[u].place = 0 THEN v7'[u].count = 0
                  ELSE v7'[u].place \in DOMAIN v4[v6[u].type]
  <2>1. ASSUME NEW u \in Workers, v5'[u] = "commit", u # w
        PROVE IF v7'[u].place = 0 THEN v7'[u].count = 0
                  ELSE v7'[u].place \in DOMAIN v4[v6[u].type]
    <3>1. v5[u] = "commit" /\ v7'[u] = v7[u]
      BY <1>7, <2>1
    <3>. QED
      BY <3>1, BaseAre, Zenon
  <2>2. IF v7'[w].place = 0 THEN v7'[w].count = 0 ELSE v7'[w].place \in DOMAIN v4[v6[w].type]
    BY <1>5, <1>6, <1>7 DEF t
  <2>. QED
    BY <2>1, <2>2
<1>13. UsageBase'
  BY <1>1, <1>7, <1>8, <1>9, <1>11, <1>12, BaseAre, BaseFrom, Zenon
<1>. QED
  BY <1>1, <1>2, <1>5, <1>6, <1>7, <1>8, <1>13, Zenon DEF t, i

\* What is the same of every store of a record.
UsageStores(w) ==
    /\ v5[w] = "commit" /\ Usage!StoreRecord(w) /\ Usage!Finish(w)
    /\ v1' = v1 /\ v3' = v3 /\ v8' = v8 /\ v10' = v10 /\ v11' = v11

\* The rows of the callers after one of them is done.
LEMMA PlacesStay ==
    ASSUME UsageBase, NEW w \in Workers, Usage!Finish(w), v1' = v1,
           \A t \in Metered : DOMAIN v4[t] \subseteq DOMAIN v4'[t]
    PROVE  /\ \A u \in Workers : v5'[u] = "commit" => v7'[u].now <= v1'
           /\ \A u \in Workers : v5'[u] # "idle" => v6'[u].type \in Metered
           /\ \A u \in Workers : v5'[u] = "commit" =>
                  IF v7'[u].place = 0 THEN v7'[u].count = 0
                  ELSE v7'[u].place \in DOMAIN v4'[v6'[u].type]
           /\ IsFiniteSet(Unrecorded')
<1>1. /\ v5'[w] = "idle"
      /\ \A u \in Workers : u # w => v5'[u] = v5[u] /\ v6'[u] = v6[u] /\ v7'[u] = v7[u]
      /\ Unrecorded' = Unrecorded \ {w}
  BY FinishUsage DEF UsageBase
<1>2. ASSUME NEW u \in Workers, v5'[u] # "idle"
      PROVE  u # w /\ v5[u] # "idle" /\ v6'[u] = v6[u] /\ v7'[u] = v7[u] /\ v5'[u] = v5[u]
             /\ v6'[u].type \in Metered
  BY <1>1, <1>2, BaseAre
<1>3. ASSUME NEW u \in Workers, v5'[u] = "commit"
      PROVE  /\ v7'[u].now <= v1'
             /\ IF v7'[u].place = 0 THEN v7'[u].count = 0
                ELSE v7'[u].place \in DOMAIN v4'[v6'[u].type]
  <2>1. v5[u] = "commit" /\ v6'[u] = v6[u] /\ v7'[u] = v7[u] /\ v6[u].type \in Metered
    BY <1>2, <1>3
  <2>2. /\ v7[u].now <= v1
        /\ IF v7[u].place = 0 THEN v7[u].count = 0 ELSE v7[u].place \in DOMAIN v4[v6[u].type]
    BY <2>1, BaseAre, Zenon
  <2>3. DOMAIN v4[v6[u].type] \subseteq DOMAIN v4'[v6[u].type]
    BY <2>1
  <2>. QED
    BY <2>1, <2>2, <2>3
<1>4. IsFiniteSet(Unrecorded')
  BY <1>1, BaseAre, FS_Subset
<1>. QED
  BY <1>2, <1>3, <1>4

\* An entry is stored: added, or counted up from what was read.
LEMMA UsageStored ==
    ASSUME UsageBase, NEW w \in Workers, UsageStores(w), v2' \in Usage!BalanceRow,
           v9' \in [Metered -> Seq(UsageFree)]
    PROVE  UsageBase'
<1>1. /\ v5[w] = "commit" /\ Usage!StoreRecord(w) /\ Usage!Finish(w)
      /\ v1' = v1 /\ v3' = v3 /\ v8' = v8 /\ v10' = v10 /\ v11' = v11
  BY Zenon DEF UsageStores
<1> DEFINE t == v6[w].type
           e == v4[t]
           f == v4'[t]
<1>2. /\ t \in Metered /\ v4' \in [Metered -> Seq(UsageRow)]
      /\ \A u \in Metered : u # t => v4'[u] = v4[u]
  BY <1>1, RecordStored, Zenon
<1>3. PICK p :
         /\ p = IF v7[w].place = 0 THEN Len(e) + 1 ELSE v7[w].place
         /\ v7[w].place # 0 <=> p \in DOMAIN e
         /\ DOMAIN f = DOMAIN e \cup {p}
         /\ \A i \in DOMAIN e \ {p} : f[i] = e[i]
         /\ f[p].count = v7[w].count + v6[w].count
         /\ f[p].date = IF v7[w].place = 0 THEN v7[w].now ELSE e[p].date
  BY <1>1, RecordStored
<1>4. ASSUME NEW i \in DOMAIN f PROVE f[i].date <= v1
  <2>1. v7[w].now <= v1 /\ \A k \in DOMAIN e : e[k].date <= v1
    BY <1>1, <1>2, BaseAre
  <2>. HIDE DEF e, f, t
  <2>2. CASE i # p
    BY <1>3, <2>1, <2>2
  <2>3. CASE i = p
    BY <1>3, <2>1, <2>3, Zenon
  <2>. QED
    BY <2>2, <2>3
<1>5. \A u \in Metered : DOMAIN v4[u] \subseteq DOMAIN v4'[u]
  BY <1>2, <1>3
<1>6. \A u \in Metered : \A i \in DOMAIN v4'[u] : v4'[u][i].date <= v1
  BY <1>2, <1>4, BaseAre
<1>7. /\ \A u \in Workers : v5'[u] = "commit" => v7'[u].now <= v1'
      /\ \A u \in Workers : v5'[u] # "idle" => v6'[u].type \in Metered
      /\ \A u \in Workers : v5'[u] = "commit" =>
             IF v7'[u].place = 0 THEN v7'[u].count = 0
             ELSE v7'[u].place \in DOMAIN v4'[v6'[u].type]
      /\ IsFiniteSet(Unrecorded')
  BY <1>1, <1>5, PlacesStay
<1>8. UsageTyped
  BY DEF UsageBase
<1>9. /\ v5' \in [Workers -> Pcs] /\ v6' \in [Workers -> UsageJobs]
      /\ v7' \in [Workers -> UsageSeen]
  BY <1>1, <1>8, FinishUsage DEF Pcs
<1>10. /\ v1' \in Nat /\ v3' \in Nat \cup {-1} /\ v3' <= v1' /\ v8' \in [Metered -> Nat]
       /\ v10' \in [Metered -> Nat] /\ v11' \in BOOLEAN
       /\ \A u \in Metered : \A i \in DOMAIN v4'[u] : v4'[u][i].date <= v1'
  BY <1>1, <1>6, BaseAre, Zenon
<1>. QED
  BY <1>2, <1>7, <1>9, <1>10, BaseFrom, Zenon

\* Within the limits.
LEMMA UsageCommitFree ==
    ASSUME UsageBase, NEW w \in Workers, Usage!CommitFree(w)
    PROVE  /\ UsageBase' /\ UsageStores(w) /\ Usage!Fits(w) /\ v2' = v2
           /\ \A t \in Metered : t # v6[w].type => v9'[t] = v9[t]
           /\ v9'[v6[w].type] = Append(v9[v6[w].type],
                                       [date |-> v7[w].now, count |-> v6[w].count])
           /\ [date |-> v7[w].now, count |-> v6[w].count] \in UsageFree
<1> DEFINE new == [date |-> v7[w].now, count |-> v6[w].count]
           t == v6[w].type
<1>1. /\ v5[w] = "commit" /\ Usage!Fits(w) /\ Usage!StoreRecord(w) /\ Usage!Finish(w)
      /\ v9' = [v9 EXCEPT ![t] = Append(v9[t], new)]
      /\ v1' = v1 /\ v2' = v2 /\ v3' = v3 /\ v8' = v8 /\ v10' = v10 /\ v11' = v11
  BY Zenon DEF Usage!CommitFree
<1>2. t \in Metered /\ new \in UsageFree
  BY <1>1, BaseAre DEF UsageJobs, UsageSeen, UsageFree
<1>. HIDE DEF t, new
<1>3. v9 \in [Metered -> Seq(UsageFree)]
  BY BaseAre
<1>4. Append(v9[t], new) \in Seq(UsageFree)
  BY <1>2, <1>3, SMT
<1>5. /\ v9' \in [Metered -> Seq(UsageFree)] /\ v9'[t] = Append(v9[t], new)
      /\ \A u \in Metered : u # t => v9'[u] = v9[u]
  BY <1>1, <1>2, <1>3, <1>4
<1>6. UsageStores(w)
  BY <1>1, Zenon DEF UsageStores
<1>7. v2' \in Usage!BalanceRow
  BY <1>1, BaseAre
<1>8. UsageBase'
  BY <1>5, <1>6, <1>7, UsageStored
<1>. QED
  BY <1>1, <1>2, <1>5, <1>6, <1>8 DEF t, new

\* Beyond them.
LEMMA UsageCommitCharge ==
    ASSUME UsageBase, NEW w \in Workers, Usage!CommitCharge(w)
    PROVE  /\ UsageBase' /\ UsageStores(w) /\ v9' = v9 /\ ~Usage!Fits(w)
           /\ Usage!CostOf(w) > 0 /\ Usage!CanAfford(v7[w].row, Usage!CostOf(w))
<1> DEFINE seen == v7[w].row
           new == Usage!Deduct(seen, Usage!CostOf(w))
<1>1. /\ v5[w] = "commit" /\ ~Usage!Fits(w) /\ Usage!StoreRecord(w) /\ Usage!Finish(w)
      /\ Usage!CostOf(w) > 0 /\ Usage!CanAfford(seen, Usage!CostOf(w))
      /\ v2' = [c \in Usage!Columns |-> IF new[c] = seen[c] THEN v2[c] ELSE new[c]]
      /\ v1' = v1 /\ v9' = v9 /\ v3' = v3 /\ v8' = v8 /\ v10' = v10 /\ v11' = v11
  BY Zenon DEF Usage!CommitCharge
<1>2. Usage!CostOf(w) \in Nat
  <2>1. v6[w].type \in Metered /\ v6[w].count \in Nat
    BY <1>1, BaseAre DEF UsageJobs
  <2>2. Cost \in Nat
    BY <2>1, UsageConstants
  <2>3. Usage!CostOf(w) = Cost * v6[w].count
    BY <2>1 DEF Usage!CostOf
  <2>. QED
    BY <2>1, <2>2, <2>3
<1>3. seen \in Usage!BalanceRow /\ v2 \in Usage!BalanceRow
  BY BaseAre DEF UsageSeen
<1>. HIDE DEF seen
<1>4. new \in Usage!BalanceRow
  BY <1>1, <1>2, <1>3, ChargedRow
<1>. HIDE DEF new
<1>5. v2' \in Usage!BalanceRow
  BY <1>1, <1>3, <1>4 DEF Usage!BalanceRow
<1>6. UsageStores(w)
  BY <1>1, Zenon DEF UsageStores
<1>7. v9' \in [Metered -> Seq(UsageFree)]
  BY <1>1, BaseAre
<1>8. UsageBase'
  BY <1>5, <1>6, <1>7, UsageStored
<1>. QED
  BY <1>1, <1>6, <1>8 DEF seen

\* Neither.
LEMMA UsageRefuse ==
    ASSUME UsageBase, NEW w \in Workers, Usage!Refuse(w)
    PROVE  /\ UsageBase' /\ v5[w] = "commit" /\ Usage!Finish(w) /\ ~Usage!Fits(w)
           /\ \A t \in Metered : v10'[t] = v10[t] + Due(w, t)
           /\ v1' = v1 /\ v2' = v2 /\ v3' = v3 /\ v4' = v4 /\ v8' = v8 /\ v9' = v9 /\ v11' = v11
<1>1. /\ v5[w] = "commit" /\ ~Usage!Fits(w) /\ Usage!Finish(w)
      /\ v10' = [v10 EXCEPT ![v6[w].type] = v10[v6[w].type] + v6[w].count]
      /\ v1' = v1 /\ v2' = v2 /\ v3' = v3 /\ v4' = v4 /\ v8' = v8 /\ v9' = v9 /\ v11' = v11
  BY Zenon DEF Usage!Refuse
<1>2. v6[w].type \in Metered /\ v6[w].count \in Nat /\ v10 \in [Metered -> Nat]
  BY <1>1, BaseAre DEF UsageJobs
<1>3. v10[v6[w].type] \in Nat /\ \A t \in Metered : v10[t] \in Nat
  BY <1>2
<1>4. v10[v6[w].type] + v6[w].count \in Nat
  BY <1>2, <1>3
<1>5. v10' \in [Metered -> Nat]
  BY <1>1, <1>2, <1>4
<1>6. \A t \in Metered : v10'[t] = IF v6[w].type = t THEN v10[t] + v6[w].count ELSE v10[t]
  BY <1>1, <1>2
<1>7. \A t \in Metered : v10'[t] = v10[t] + Due(w, t)
  BY <1>2, <1>3, <1>6 DEF Due
<1>8. UsageTyped /\ \A t \in Metered : DOMAIN v4[t] \subseteq DOMAIN v4'[t]
  BY <1>1 DEF UsageBase
<1>9. /\ \A u \in Workers : v5'[u] = "commit" => v7'[u].now <= v1'
      /\ \A u \in Workers : v5'[u] # "idle" => v6'[u].type \in Metered
      /\ \A u \in Workers : v5'[u] = "commit" =>
             IF v7'[u].place = 0 THEN v7'[u].count = 0
             ELSE v7'[u].place \in DOMAIN v4'[v6'[u].type]
      /\ IsFiniteSet(Unrecorded')
  BY <1>1, <1>8, PlacesStay
<1>10. /\ v5' \in [Workers -> Pcs] /\ v6' \in [Workers -> UsageJobs]
       /\ v7' \in [Workers -> UsageSeen]
  BY <1>1, <1>8, FinishUsage DEF Pcs
<1>11. UsageBase'
  BY <1>1, <1>5, <1>9, <1>10, BaseAre, BaseFrom, Zenon
<1>. QED
  BY <1>1, <1>7, <1>11

\* An invoice is paid.
LEMMA UsagePayment ==
    ASSUME UsageBase, Usage!ProcessPayment
    PROVE  /\ UsageBase' /\ Unrecorded' = Unrecorded /\ v3' = v1
           /\ v1' = v1 /\ v4' = v4 /\ v5' = v5 /\ v6' = v6 /\ v7' = v7 /\ v8' = v8 /\ v9' = v9
           /\ v10' = v10 /\ v11' = v11 /\ v12' = v12
<1>1. /\ v2' = Usage!Allocate(v2, Allocated) /\ v3' = v1
      /\ v1' = v1 /\ v4' = v4 /\ v5' = v5 /\ v6' = v6 /\ v7' = v7 /\ v8' = v8 /\ v9' = v9
      /\ v10' = v10 /\ v11' = v11 /\ v12' = v12
  BY DEF Usage!ProcessPayment
<1>2. v2' \in Usage!BalanceRow
  BY <1>1, AllocatedRow, BaseAre, UsageConstants
<1>3. v3' \in Nat \cup {-1} /\ v3' <= v1'
  BY <1>1, BaseAre
<1>4. Unrecorded' = Unrecorded
  BY <1>1 DEF Unrecorded
<1>5. UsageBase'
  BY <1>1, <1>2, <1>3, <1>4, BaseAre, BaseFrom, Zenon
<1>. QED
  BY <1>1, <1>2, <1>4, <1>5

\* Time goes on.
LEMMA UsageTick ==
    ASSUME UsageBase, Usage!Tick
    PROVE  /\ UsageBase' /\ Unrecorded' = Unrecorded /\ v1' = v1 + 1
           /\ v2' = v2 /\ v3' = v3 /\ v4' = v4 /\ v5' = v5 /\ v6' = v6 /\ v7' = v7 /\ v8' = v8
           /\ v9' = v9 /\ v10' = v10 /\ v11' = v11
           /\ v12' = IF Usage!MonthStart(v1') < Usage!MonthStart(v1)
                     THEN v12 \cup {w \in Workers : v5[w] \in {"work", "use"}} ELSE v12
<1>1. /\ v1' = v1 + 1
      /\ v2' = v2 /\ v3' = v3 /\ v4' = v4 /\ v5' = v5 /\ v6' = v6 /\ v7' = v7 /\ v8' = v8
      /\ v9' = v9 /\ v10' = v10 /\ v11' = v11
      /\ v12' = IF Usage!MonthStart(v1') < Usage!MonthStart(v1)
                THEN v12 \cup {w \in Workers : v5[w] \in {"work", "use"}} ELSE v12
  BY DEF Usage!Tick
<1>2. v1' \in Nat /\ \A x \in Int : x <= v1 => x <= v1'
  BY <1>1, BaseAre
<1>3. /\ v3 \in Int
      /\ \A t \in Metered : \A i \in DOMAIN v4[t] : v4[t][i].date \in Int
      /\ \A w \in Workers : v7[w].now \in Int
  <2>1. \A t \in Metered : Entries(v4[t])
    BY RowsAreEntries DEF UsageBase
  <2>2. \A w \in Workers : v7[w].now \in Nat
    BY BaseAre DEF UsageSeen
  <2>3. \A t \in Metered : \A i \in DOMAIN v4[t] : v4[t][i].date \in Nat
    BY <2>1, Zenon DEF Entries
  <2>. QED
    BY <2>2, <2>3, BaseAre
<1>4. /\ v3' <= v1'
      /\ \A t \in Metered : \A i \in DOMAIN v4'[t] : v4'[t][i].date <= v1'
      /\ \A w \in Workers : v5'[w] = "commit" => v7'[w].now <= v1'
  BY <1>1, <1>2, <1>3, BaseAre, Zenon
<1>5. Unrecorded' = Unrecorded
  BY <1>1 DEF Unrecorded
<1>6. UsageBase'
  BY <1>1, <1>2, <1>4, <1>5, BaseAre, BaseFrom, Zenon
<1>. QED
  BY <1>1, <1>5, <1>6

\* The entries stay, and what is still to be recorded accounts for new work.
LEMMA CoveredStays ==
    ASSUME UsageBase, UsageBase', UsageCovered, v4' = v4,
           \A t \in Metered : Pending(t)' + v8[t] <= Pending(t) + v8'[t],
           \A u \in Workers : v5'[u] = "commit" =>
               /\ v6'[u] = v6[u]
               /\ \/ v5[u] = "commit" /\ v7'[u] = v7[u]
                  \/ v7'[u].place # 0 =>
                         /\ v7'[u].place \in DOMAIN v4[v6[u].type]
                         /\ v7'[u].count = v4[v6[u].type][v7'[u].place].count
    PROVE  UsageCovered'
<1> SUFFICES ASSUME NEW t \in Metered
             PROVE  \E C \in [DOMAIN v4'[t] -> Nat] : Covers(t, C)'
  BY DEF UsageCovered
<1>1. PICK C \in [DOMAIN v4[t] -> Nat] : Covers(t, C)
  BY DEF UsageCovered
<1>2. /\ \A i \in DOMAIN v4[t] : v4[t][i].count <= C[i]
      /\ \A w \in Workers : v5[w] = "commit" /\ v6[w].type = t /\ v7[w].place # 0
                                => v7[w].count <= C[v7[w].place]
      /\ Sum(DOMAIN v4[t], C) + Pending(t) <= v8[t]
  BY <1>1, Zenon DEF Covers
<1>3. ASSUME NEW w \in Workers, v5'[w] = "commit", v6'[w].type = t, v7'[w].place # 0
      PROVE  v7'[w].count <= C[v7'[w].place]
  <2>1. CASE v5[w] = "commit" /\ v7'[w] = v7[w]
    BY <1>2, <1>3, <2>1
  <2>2. CASE /\ v7'[w].place \in DOMAIN v4[v6[w].type]
             /\ v7'[w].count = v4[v6[w].type][v7'[w].place].count
    <3>1. v6[w].type = t
      BY <1>3
    <3>. QED
      BY <1>2, <2>2, <3>1
  <2>. QED
    BY <1>3, <2>1, <2>2
<1>4. Sum(DOMAIN v4[t], C) + Pending(t)' <= v8'[t]
  <2>1. Sum(DOMAIN v4[t], C) \in Nat
    <3>1. Entries(v4[t]) /\ DOMAIN v4[t] \in SUBSET DOMAIN v4[t]
      BY RowsAreEntries DEF UsageBase
    <3>2. IsFiniteSet(DOMAIN v4[t]) /\ \A i \in DOMAIN v4[t] : C[i] \in Nat
      BY <3>1, EntriesFinite
    <3>. QED
      BY <3>2, SumIsNatural
  <2>2. Pending(t) \in Nat /\ Pending(t)' \in Nat
    <3>1. Pending(t) \in Nat
      BY PendingNatural
    <3>2. (UsageBase => Pending(t) \in Nat)'
      <4>1. UsageBase => Pending(t) \in Nat
        BY PendingNatural
      <4>. QED
        BY PendingNatural, PTL
    <3>. QED
      BY <3>1, <3>2
  <2>3. v8[t] \in Nat /\ v8'[t] \in Nat
    BY BaseAre DEF UsageBase, UsageTyped
  <2>4. Pending(t)' + v8[t] <= Pending(t) + v8'[t]
    OBVIOUS
  <2>. QED
    BY <1>2, <2>1, <2>2, <2>3, <2>4, SMT
<1>5. Covers(t, C)'
  BY <1>2, <1>3, <1>4, Zenon DEF Covers
<1>. QED
  BY <1>5

\* A record is stored: what was done for its entry is that much more.
LEMMA CoveredStored ==
    ASSUME UsageBase, UsageCovered, NEW w \in Workers, UsageStores(w)
    PROVE  UsageCovered'
<1>1. v5[w] = "commit" /\ Usage!StoreRecord(w) /\ Usage!Finish(w) /\ v8' = v8
  BY Zenon DEF UsageStores
<1>2. /\ v5'[w] = "idle"
      /\ \A u \in Workers : u # w => v5'[u] = v5[u] /\ v6'[u] = v6[u] /\ v7'[u] = v7[u]
      /\ w \in Unrecorded
  BY <1>1, FinishUsage DEF UsageBase, Unrecorded
<1>3. \A t \in Metered : t # v6[w].type => v4'[t] = v4[t]
  BY <1>1, RecordStored, Zenon
<1> SUFFICES ASSUME NEW t \in Metered
             PROVE  \E C \in [DOMAIN v4'[t] -> Nat] : Covers(t, C)'
  BY DEF UsageCovered
<1>4. PICK C \in [DOMAIN v4[t] -> Nat] : Covers(t, C)
  BY DEF UsageCovered
<1>5. /\ \A i \in DOMAIN v4[t] : v4[t][i].count <= C[i]
      /\ \A u \in Workers : v5[u] = "commit" /\ v6[u].type = t /\ v7[u].place # 0
                                => v7[u].count <= C[v7[u].place]
      /\ Sum(DOMAIN v4[t], C) + Pending(t) <= v8[t]
  BY <1>4, Zenon DEF Covers
<1>6. Pending(t)' + Due(w, t) = Pending(t) /\ Pending(t)' \in Nat
  BY <1>1, <1>2, PendingLess
<1>7. Entries(v4[t])
  BY RowsAreEntries DEF UsageBase
<1>8. IsFiniteSet(DOMAIN v4[t]) /\ \A i \in DOMAIN v4[t] : C[i] \in Nat /\ v4[t][i].count \in Nat
  <2>1. DOMAIN v4[t] \in SUBSET DOMAIN v4[t] /\ \A i \in DOMAIN v4[t] : v4[t][i].count \in Nat
    BY <1>7 DEF Entries
  <2>. QED
    BY <1>7, <2>1, EntriesFinite
<1>9. Sum(DOMAIN v4[t], C) \in Nat /\ v8[t] \in Nat
  BY <1>8, SumIsNatural, BaseAre
<1>10. CASE t # v6[w].type
  <2>1. v4'[t] = v4[t] /\ Due(w, t) = 0
    BY <1>3, <1>10 DEF Due
  <2>2. \A u \in Workers : v5'[u] = "commit" /\ v6'[u].type = t /\ v7'[u].place # 0
                                => v7'[u].count <= C[v7'[u].place]
    BY <1>2, <1>5
  <2>3. Sum(DOMAIN v4'[t], C) + Pending(t)' <= v8'[t]
    BY <1>1, <1>5, <1>6, <1>9, <2>1
  <2>4. Covers(t, C)'
    BY <1>5, <2>1, <2>2, <2>3, Zenon DEF Covers
  <2>. QED
    BY <2>1, <2>4
<1>11. CASE t = v6[w].type
  <2> DEFINE e == v4[t]
             f == v4'[t]
             n == v6[w].count
  <2>1. n \in Nat /\ v7[w].count \in Nat
    BY <1>1, BaseAre DEF UsageJobs, UsageSeen
  <2>2. PICK p :
           /\ p = IF v7[w].place = 0 THEN Len(e) + 1 ELSE v7[w].place
           /\ v7[w].place # 0 <=> p \in DOMAIN e
           /\ DOMAIN f = DOMAIN e \cup {p}
           /\ \A i \in DOMAIN e \ {p} : f[i] = e[i]
           /\ f[p].count = v7[w].count + n
    BY <1>1, <1>11, RecordStored, Zenon
  <2>3. v7[w].place = 0 => v7[w].count = 0
    BY <1>1, BaseAre
  <2>4. v7[w].place # 0 => p \in DOMAIN e /\ v7[w].count <= C[p]
    BY <1>1, <1>5, <1>11, <2>2
  <2>5. Due(w, t) = n
    BY <1>11 DEF Due
  <2>. HIDE DEF e, f, n
  <2>6. /\ \A i \in DOMAIN e : C[i] \in Nat /\ e[i].count \in Nat /\ e[i].count <= C[i]
        /\ IsFiniteSet(DOMAIN e) /\ Sum(DOMAIN e, C) + Pending(t) <= v8[t]
        /\ Sum(DOMAIN e, C) \in Nat
    BY <1>5, <1>8, <1>9 DEF e
  <2>7. PICK D \in [DOMAIN f -> Nat] :
           /\ \A i \in DOMAIN e : i # p => D[i] = C[i]
           /\ p \in DOMAIN e => D[p] = C[p] + n
           /\ p \notin DOMAIN e => D[p] = n
    <3> DEFINE G == [i \in DOMAIN f |-> IF i = p THEN (IF p \in DOMAIN e THEN C[p] + n ELSE n)
                                        ELSE C[i]]
    <3>1. /\ G \in [DOMAIN f -> Nat]
          /\ \A i \in DOMAIN e : i # p => G[i] = C[i]
          /\ p \in DOMAIN e => G[p] = C[p] + n
          /\ p \notin DOMAIN e => G[p] = n
      BY <2>1, <2>2, <2>6
    <3>. HIDE DEF G
    <3>. QED
      BY <3>1
  <2>8. \A i \in DOMAIN f : f[i].count <= D[i]
    <3>1. ASSUME NEW i \in DOMAIN f, i # p PROVE f[i].count <= D[i]
      BY <2>2, <2>7, <2>6, <3>1
    <3>2. f[p].count <= D[p]
      <4>1. CASE v7[w].place = 0
        <5>1. f[p].count = n /\ D[p] = n
          BY <2>1, <2>2, <2>3, <2>7, <4>1
        <5>. QED
          BY <2>1, <5>1
      <4>2. CASE v7[w].place # 0
        <5>1. f[p].count = v7[w].count + n /\ D[p] = C[p] + n /\ v7[w].count <= C[p]
              /\ C[p] \in Nat
          BY <2>2, <2>4, <2>7, <2>6, <4>2
        <5>. QED
          BY <2>1, <5>1
      <4>. QED
        BY <4>1, <4>2
    <3>. QED
      BY <3>1, <3>2
  <2>9. Sum(DOMAIN f, D) = Sum(DOMAIN e, C) + n
    <3> DEFINE S == DOMAIN e
    <3>1. IsFiniteSet(S) /\ MoreBy(S, C, D, p, n)
      BY <2>1, <2>7, <2>6 DEF MoreBy
    <3>. HIDE DEF S
    <3>2. Sum(S \cup {p}, D) = Sum(S, C) + n
      BY <3>1, SumOneMore
    <3>. QED
      BY <2>2, <3>2 DEF S
  <2>10. Sum(DOMAIN f, D) + Pending(t)' <= v8'[t]
    <3>1. Pending(t)' + n = Pending(t) /\ v8'[t] = v8[t]
      BY <1>1, <1>6, <2>5
    <3>. QED
      BY <1>6, <1>9, <2>1, <2>9, <2>6, <3>1, SMT
  <2>11. ASSUME NEW u \in Workers, v5'[u] = "commit", v6'[u].type = t, v7'[u].place # 0
         PROVE  v7'[u].count <= D[v7'[u].place]
    <3>1. u # w /\ v5[u] = "commit" /\ v6[u].type = t /\ v7'[u] = v7[u]
      BY <1>2, <2>11
    <3>2. v7[u].count <= C[v7[u].place] /\ v7[u].place \in DOMAIN e /\ v7[u].count \in Nat
      <4>1. v7[u].place \in DOMAIN e
        BY <2>11, <3>1, BaseAre DEF e
      <4>2. v7[u].count \in Nat
        BY BaseAre DEF UsageSeen
      <4>. QED
        BY <1>5, <2>11, <3>1, <4>1, <4>2
    <3>3. D[v7[u].place] = C[v7[u].place] \/ D[v7[u].place] = C[v7[u].place] + n
      BY <2>7, <3>2
    <3>4. C[v7[u].place] \in Nat
      BY <2>6, <3>2
    <3>. QED
      BY <2>1, <3>1, <3>2, <3>3, <3>4, SMT
  <2>12. Covers(t, D)'
    BY <2>8, <2>10, <2>11, Zenon DEF Covers, f
  <2>. QED
    BY <2>7, <2>12 DEF f
<1>. QED
  BY <1>10, <1>11

\* The entries from a time on.
Since(e, d) == {i \in DOMAIN e : e[i].date >= d}

\* All the work of a type was recorded, refused, or is still to be recorded.
AccountsFit(t) == Usage!TypesUnits(v4[t]) + v10[t] + Pending(t) = v8[t]

\* What went uncharged is part of what is on record, and within the limits; those
\* of the month where it began with an allocation, or where it is still beginning.
FreeFits(t) ==
    /\ \A d : Usage!UnitsAt(v9[t], OnDay(v9[t], d)) <= Usage!UnitsAt(v4[t], OnDay(v4[t], d))
    /\ \A d : Usage!UnitsAt(v9[t], OnDay(v9[t], d)) <= Daily
    /\ Usage!TypesUnits(v9[t]) <= Usage!TypesUnits(v4[t])
    /\ v1 = 0 \/ v3 = 0 => Usage!TypesUnits(v9[t]) <= Monthly

\* The units a caller has asked for still fit, those of the month unless that has begun
\* earlier since.
JobFitsLimits(w) ==
    v5[w] \in {"work", "use"} =>
        LET t == v6[w].type IN
        /\ Usage!UnitsAt(v4[t], OnDay(v4[t], Usage!Day(v1))) + v6[w].count <= Daily
        /\ w \notin v12 =>
               Usage!UnitsAt(v4[t], Since(v4[t], Usage!MonthStart(v1))) + v6[w].count <= Monthly

\* What a caller has read is still so, and it fits where what it asked for did.
ReadIsSo(w) ==
    v5[w] = "commit" =>
        LET t == v6[w].type IN
        /\ v7[w].daily = Usage!UnitsAt(v4[t], OnDay(v4[t], Usage!Day(v7[w].now)))
        /\ v7[w].now = 0 \/ v3 = 0 => v7[w].monthly = Usage!TypesUnits(v4[t])
        /\ w \notin v12 => Usage!Fits(w)
        /\ v7[w].place # 0 => /\ v7[w].count = v4[t][v7[w].place].count
                              /\ Usage!Day(v4[t][v7[w].place].date) = Usage!Day(v7[w].now)

\* As long as no two callers overlapped.
Alone ==
    /\ \A u, w \in Workers : v5[u] # "idle" /\ v5[w] # "idle" => u = w
    /\ \A t \in Metered : AccountsFit(t) /\ FreeFits(t)
    /\ \A w \in Workers : JobFitsLimits(w) /\ ReadIsSo(w)

\* The inductive invariant of metering.
UsageInv ==
    /\ UsageBase
    /\ UsageCovered
    /\ ~v11 => Alone

LEMMA DaysGoOn ==
    ASSUME NEW a \in Nat, NEW b \in Nat, a <= b
    PROVE  Usage!Day(a) \in Nat /\ Usage!Day(a) <= Usage!Day(b)
<1>1. TicksPerDay \in Nat /\ TicksPerDay > 0
  BY UsageConstants
<1>. QED
  BY <1>1, SMT DEF Usage!Day

\* Today's and this month's units.
LEMMA TotalsAre ==
    ASSUME NEW t \in Metered
    PROVE  /\ Usage!Today(t) = OnDay(v4[t], Usage!Day(v1))
           /\ Usage!DailyTotal(t) = Usage!UnitsAt(v4[t], OnDay(v4[t], Usage!Day(v1)))
           /\ Usage!MonthlyTotal(t) = Usage!UnitsAt(v4[t], Since(v4[t], Usage!MonthStart(v1)))
           /\ v3 # -1 => Usage!MonthStart(v1) = v3
           /\ v1 = 0 /\ v3 = -1 => Usage!MonthStart(v1) = 0
<1>1. Usage!Today(t) = OnDay(v4[t], Usage!Day(v1))
  BY DEF Usage!Today, OnDay
<1>2. TicksPerDay \in Nat /\ TicksPerDay > 0
  BY UsageConstants
<1>3. 0 % TicksPerDay = 0
  BY <1>2, SMT
<1>. QED
  BY <1>1, <1>3, Zenon DEF Usage!DailyTotal, Usage!MonthlyTotal, Since, Usage!MonthStart,
     Usage!NoDate

\* When the month began, on a day of the present time of day or with the allocation.
LEMMA MonthHasBegun ==
    ASSUME v3 \in Nat \cup {-1}, NEW now \in Nat
    PROVE  Usage!MonthStart(now) \in Nat
<1>1. TicksPerDay \in Nat /\ TicksPerDay > 0
  BY UsageConstants
<1>2. now % TicksPerDay \in Nat
  BY <1>1, SMT
<1>3. Usage!MonthStart(now) = IF v3 = -1 THEN now % TicksPerDay ELSE v3
  BY Zenon DEF Usage!MonthStart, Usage!NoDate
<1>. QED
  BY <1>2, <1>3, SMT

LEMMA LimitsAre ==
    ASSUME NEW t \in Metered, NEW d, NEW m, NEW n
    PROVE  Usage!WithinLimits(t, d, m, n) <=> d + n <= Daily /\ m + n <= Monthly
  BY Zenon DEF Usage!WithinLimits

LEMMA SetsOfEntries ==
    ASSUME NEW e
    PROVE  /\ \A d : OnDay(e, d) \in SUBSET DOMAIN e
           /\ \A d : Since(e, d) \in SUBSET DOMAIN e
  BY DEF OnDay, Since

\* Everything recorded is of the month where that starts at tick 0.
LEMMA AllSinceStart ==
    ASSUME NEW e, Entries(e)
    PROVE  Since(e, 0) = DOMAIN e
<1>1. \A i \in DOMAIN e : e[i].date >= 0
  BY SMT DEF Entries
<1>. QED
  BY <1>1 DEF Since

\* What an entry does not touch.
LEMMA AccountsStay ==
    ASSUME NEW t \in Metered, v4' = v4, v10' = v10, v8' = v8, Pending(t)' = Pending(t),
           AccountsFit(t)
    PROVE  AccountsFit(t)'
  BY Zenon DEF AccountsFit

LEMMA FreeStays ==
    ASSUME NEW t \in Metered, v4' = v4, v9' = v9, v1' = v1, v3' = v3, FreeFits(t)
    PROVE  FreeFits(t)'
  BY Zenon DEF FreeFits

LEMMA JobFitStays ==
    ASSUME NEW w, v4' = v4, v1' = v1, v3' = v3, v6'[w] = v6[w], v12' = v12,
           v5'[w] \in {"work", "use"} => v5[w] \in {"work", "use"}, JobFitsLimits(w)
    PROVE  JobFitsLimits(w)'
<1>1. Usage!MonthStart(v1)' = Usage!MonthStart(v1)
  BY Zenon DEF Usage!MonthStart
<1>. QED
  BY <1>1, Zenon DEF JobFitsLimits

LEMMA ReadStays ==
    ASSUME NEW w, v4' = v4, v3' = v3 \/ (v3' = 0 => v7[w].now = 0),
           v5'[w] = v5[w], v6'[w] = v6[w], v7'[w] = v7[w], v12 \subseteq v12', ReadIsSo(w)
    PROVE  ReadIsSo(w)'
<1>1. Usage!Fits(w)' <=> Usage!Fits(w)
  BY DEF Usage!Fits, Usage!WithinLimits
<1>2. SUFFICES ASSUME v5[w] = "commit"
               PROVE  ReadIsSo(w)'
  BY DEF ReadIsSo
<1>3. v3' = 0 \/ v7[w].now = 0 => v3 = 0 \/ v7[w].now = 0
  OBVIOUS
<1>. QED
  BY <1>1, <1>2, <1>3, Zenon DEF ReadIsSo

LEMMA IdleFits ==
    ASSUME NEW w, v5[w] = "idle"
    PROVE  JobFitsLimits(w) /\ ReadIsSo(w)
  BY DEF JobFitsLimits, ReadIsSo

\* UsageInv is kept, action by action.
LEMMA AlonePreview ==
    ASSUME UsageInv, NEW w \in Workers, NEW t \in Metered, NEW n \in Counts,
           Usage!Preview(w, t, n)
    PROVE  UsageInv'
<1>1. UsageBase
  BY DEF UsageInv
<1>2. /\ UsageBase' /\ v5[w] = "idle" /\ Unrecorded' = Unrecorded /\ w \notin Unrecorded
      /\ \A u \in Workers : u # w => v5'[u] = v5[u] /\ v6'[u] = v6[u]
      /\ v5'[w] = "work" /\ v6'[w].type = t /\ v6'[w].count = n /\ n \in Nat
      /\ v1' = v1 /\ v2' = v2 /\ v3' = v3 /\ v4' = v4 /\ v7' = v7 /\ v8' = v8
      /\ v9' = v9 /\ v10' = v10
      /\ ~v11' => ~v11 /\ \A v \in Workers : v5[v] = "idle"
      /\ Usage!WithinLimits(t, Usage!DailyTotal(t), Usage!MonthlyTotal(t), n)
  BY <1>1, UsagePreview
<1>3. \A u \in Unrecorded : v6'[u] = v6[u]
  BY <1>2 DEF Unrecorded
<1>4. \A s : Pending(s)' = Pending(s)
  BY <1>2, <1>3, PendingSame
<1>5. UsageCovered'
  <2>1. UsageCovered
    BY DEF UsageInv
  <2>2. \A s \in Metered : Pending(s)' + v8[s] <= Pending(s) + v8'[s]
    <3>1. ASSUME NEW s \in Metered PROVE Pending(s) + v8[s] <= Pending(s) + v8[s]
      <4>1. Pending(s) \in Nat /\ v8[s] \in Nat
        BY <1>1, PendingNatural, BaseAre
      <4>. QED
        BY <4>1
    <3>. QED
      BY <1>2, <1>4, <3>1, Zenon
  <2>3. \A u \in Workers : v5'[u] = "commit" => v6'[u] = v6[u] /\ v5[u] = "commit" /\ v7'[u] = v7[u]
    BY <1>2
  <2>. QED
    BY <1>1, <1>2, <2>1, <2>2, <2>3, CoveredStays, Zenon
<1>6. ASSUME ~v11' PROVE Alone'
  <2>1. Alone /\ \A v \in Workers : v5[v] = "idle"
    BY <1>2, <1>6 DEF UsageInv
  <2>2. \A u \in Workers : u # w => v5'[u] = "idle"
    BY <1>2, <2>1
  <2>3. \A s \in Metered : AccountsFit(s)' /\ FreeFits(s)'
    BY <1>2, <1>4, <2>1, AccountsStay, FreeStays, Zenon DEF Alone
  <2>4. JobFitsLimits(w)'
    <3>1. /\ Usage!DailyTotal(t) + n <= Daily /\ Usage!MonthlyTotal(t) + n <= Monthly
      BY <1>2, LimitsAre
    <3>2. /\ Usage!UnitsAt(v4[t], OnDay(v4[t], Usage!Day(v1))) + n <= Daily
          /\ Usage!UnitsAt(v4[t], Since(v4[t], Usage!MonthStart(v1))) + n <= Monthly
      BY <3>1, TotalsAre
    <3>3. Usage!MonthStart(v1)' = Usage!MonthStart(v1)
      BY <1>2, Zenon DEF Usage!MonthStart
    <3>. QED
      BY <1>2, <3>2, <3>3, Zenon DEF JobFitsLimits
  <2>5. \A u \in Workers : JobFitsLimits(u)' /\ ReadIsSo(u)'
    BY <1>2, <2>2, <2>4 DEF JobFitsLimits, ReadIsSo
  <2>6. \A u, v \in Workers : v5'[u] # "idle" /\ v5'[v] # "idle" => u = v
    BY <2>2
  <2>. QED
    BY <2>3, <2>5, <2>6, Zenon DEF Alone
<1>. QED
  BY <1>2, <1>5, <1>6, Zenon DEF UsageInv

LEMMA LastPending ==
    ASSUME UsageInv, NEW t \in Metered
    PROVE  Pending(t) \in Nat /\ v8[t] \in Nat /\ v10[t] \in Nat
           /\ Usage!TypesUnits(v4[t]) \in Nat
<1>1. UsageBase
  BY DEF UsageInv
<1>2. Entries(v4[t]) /\ DOMAIN v4[t] \in SUBSET DOMAIN v4[t]
  BY <1>1, RowsAreEntries DEF UsageBase
<1>3. Usage!TypesUnits(v4[t]) \in Nat
  BY <1>2, UnitsNatural, TypesUnitsAre
<1>. QED
  BY <1>1, <1>3, PendingNatural, BaseAre

\* A caller whose work is done goes on with the same job.
LEMMA WorkDone ==
    ASSUME UsageBase, NEW w \in Workers, Usage!Work(w), v5'[w] = "use"
    PROVE  v6' = v6 /\ v12' = v12
<1>1. CASE Usage!Finish(w)
  <2>1. v5'[w] = "idle"
    BY <1>1, FinishUsage DEF UsageBase
  <2>. QED
    BY <2>1
<1>. QED
  BY <1>1 DEF Usage!Work

\* The only caller's work is done, or fails.
LEMMA AloneWork ==
    ASSUME UsageInv, NEW w \in Workers, Usage!Work(w)
    PROVE  UsageInv'
<1>1. UsageBase
  BY DEF UsageInv
<1>2. /\ UsageBase' /\ v5[w] = "work" /\ w \notin Unrecorded
      /\ \A u \in Workers : u # w => v5'[u] = v5[u] /\ v6'[u] = v6[u] /\ v7'[u] = v7[u]
      /\ v1' = v1 /\ v2' = v2 /\ v3' = v3 /\ v4' = v4
      /\ v9' = v9 /\ v10' = v10 /\ v11' = v11
      /\ \/ /\ v6' = v6 /\ v7' = v7 /\ v5'[w] = "use" /\ Unrecorded' = Unrecorded \cup {w}
            /\ \A t \in Metered : v8'[t] = v8[t] + Due(w, t)
         \/ v8' = v8 /\ v5'[w] = "idle" /\ Unrecorded' = Unrecorded
  BY <1>1, UsageWork
<1>3. ASSUME NEW t \in Metered
      PROVE  \E d \in Nat : Pending(t)' = Pending(t) + d /\ v8'[t] = v8[t] + d
  <2>1. CASE /\ v6' = v6 /\ Unrecorded' = Unrecorded \cup {w}
             /\ \A s \in Metered : v8'[s] = v8[s] + Due(w, s)
    <3>1. Pending(t)' = Pending(t) + Due(w, t)
      BY <1>1, <1>2, <2>1, PendingMore
    <3>2. Due(w, t) \in Nat
      BY <1>1, DueNatural DEF UsageBase
    <3>. QED
      BY <2>1, <3>1, <3>2
  <2>2. CASE v8' = v8 /\ Unrecorded' = Unrecorded
    <3>1. \A u \in Unrecorded : v6'[u] = v6[u]
      BY <1>2 DEF Unrecorded
    <3>2. Pending(t)' = Pending(t)
      BY <2>2, <3>1, PendingSame
    <3>3. Pending(t)' = Pending(t) + 0 /\ v8'[t] = v8[t] + 0
      BY <2>2, <3>2, LastPending
    <3>4. 0 \in Nat
      OBVIOUS
    <3>. QED
      BY <3>3, <3>4, Zenon
  <2>. QED
    BY <1>2, <2>1, <2>2
<1>4. UsageCovered'
  <2>1. UsageCovered
    BY DEF UsageInv
  <2>2. \A s \in Metered : Pending(s)' + v8[s] <= Pending(s) + v8'[s]
    BY <1>3, LastPending
  <2>3. \A u \in Workers : v5'[u] = "commit" => v6'[u] = v6[u] /\ v5[u] = "commit" /\ v7'[u] = v7[u]
    BY <1>2
  <2>. QED
    BY <1>1, <1>2, <2>1, <2>2, <2>3, CoveredStays, Zenon
<1>5. ASSUME ~v11' PROVE Alone'
  <2>1. Alone
    BY <1>2, <1>5 DEF UsageInv
  <2>2. \A u \in Workers : u # w => v5[u] = "idle" /\ v5'[u] = "idle"
    BY <1>2, <2>1 DEF Alone
  <2>3. \A s \in Metered : FreeFits(s)'
    BY <1>2, <2>1, FreeStays, Zenon DEF Alone
  <2>4. \A s \in Metered : AccountsFit(s)'
    <3> TAKE s \in Metered
    <3>1. Usage!TypesUnits(v4[s]) + v10[s] + Pending(s) = v8[s]
      BY <2>1 DEF Alone, AccountsFit
    <3>2. PICK d \in Nat : Pending(s)' = Pending(s) + d /\ v8'[s] = v8[s] + d
      BY <1>3
    <3>3. Usage!TypesUnits(v4[s]) + v10[s] + (Pending(s) + d) = v8[s] + d
      BY <3>1, LastPending
    <3>. QED
      BY <1>2, <3>2, <3>3, Zenon DEF AccountsFit
  <2>5. JobFitsLimits(w)'
    <3>1. JobFitsLimits(w)
      BY <2>1 DEF Alone
    <3>2. CASE v5'[w] = "use"
      <4>1. v6' = v6 /\ v12' = v12
        BY <1>1, <3>2, WorkDone
      <4>. QED
        BY <1>2, <3>1, <4>1, JobFitStays
    <3>3. CASE v5'[w] = "idle"
      BY <3>3 DEF JobFitsLimits
    <3>. QED
      BY <1>2, <3>2, <3>3
  <2>6. \A u \in Workers : JobFitsLimits(u)' /\ ReadIsSo(u)'
    BY <1>2, <2>2, <2>5 DEF JobFitsLimits, ReadIsSo
  <2>7. \A u, v \in Workers : v5'[u] # "idle" /\ v5'[v] # "idle" => u = v
    BY <2>2
  <2>. QED
    BY <2>3, <2>4, <2>6, <2>7, Zenon DEF Alone
<1>. QED
  BY <1>2, <1>4, <1>5, Zenon DEF UsageInv

\* A caller's session reads the totals.
LEMMA AloneRead ==
    ASSUME UsageInv, NEW w \in Workers, Usage!ReadUsage(w)
    PROVE  UsageInv'
<1>1. UsageBase
  BY DEF UsageInv
<1> DEFINE t == v6[w].type
<1>2. /\ UsageBase' /\ v5[w] = "use" /\ v5'[w] = "commit" /\ Unrecorded' = Unrecorded
      /\ \A u \in Workers : u # w => v5'[u] = v5[u] /\ v7'[u] = v7[u]
      /\ v1' = v1 /\ v2' = v2 /\ v3' = v3 /\ v4' = v4 /\ v6' = v6 /\ v8' = v8
      /\ v9' = v9 /\ v10' = v10 /\ v11' = v11 /\ v12' = v12
      /\ v7'[w].now = v1 /\ v7'[w].row = v2 /\ t \in Metered
      /\ v7'[w].daily = Usage!DailyTotal(t) /\ v7'[w].monthly = Usage!MonthlyTotal(t)
      /\ v7'[w].place # 0 =>
             v7'[w].place \in Usage!Today(t) /\ v7'[w].count = v4[t][v7'[w].place].count
  BY <1>1, UsageRead, Zenon
<1>3. \A s : Pending(s)' = Pending(s)
  BY <1>2, PendingSame
<1>4. UsageCovered'
  <2>1. UsageCovered
    BY DEF UsageInv
  <2>2. \A s \in Metered : Pending(s)' + v8[s] <= Pending(s) + v8'[s]
    BY <1>2, <1>3, LastPending
  <2>3. Usage!Today(t) \subseteq DOMAIN v4[t]
    BY DEF Usage!Today
  <2>4. \A u \in Workers : v5'[u] = "commit" =>
               /\ v6'[u] = v6[u]
               /\ \/ v5[u] = "commit" /\ v7'[u] = v7[u]
                  \/ v7'[u].place # 0 =>
                         /\ v7'[u].place \in DOMAIN v4[v6[u].type]
                         /\ v7'[u].count = v4[v6[u].type][v7'[u].place].count
    BY <1>2, <2>3
  <2>. QED
    BY <1>1, <1>2, <2>1, <2>2, <2>4, CoveredStays, Zenon
<1>5. ASSUME ~v11' PROVE Alone'
  <2>1. Alone
    BY <1>2, <1>5 DEF UsageInv
  <2>2. \A u \in Workers : u # w => v5[u] = "idle" /\ v5'[u] = "idle"
    BY <1>2, <2>1 DEF Alone
  <2>3. \A s \in Metered : AccountsFit(s)' /\ FreeFits(s)'
    BY <1>2, <1>3, <2>1, AccountsStay, FreeStays, Zenon DEF Alone
  <2>4. ReadIsSo(w)'
    <3>1. /\ v7'[w].daily = Usage!UnitsAt(v4[t], OnDay(v4[t], Usage!Day(v1)))
          /\ v7'[w].monthly = Usage!UnitsAt(v4[t], Since(v4[t], Usage!MonthStart(v1)))
      BY <1>2, TotalsAre
    <3>2. v1 = 0 \/ v3 = 0 => v7'[w].monthly = Usage!TypesUnits(v4[t])
      <4>1. v1 = 0 \/ v3 = 0 => Usage!MonthStart(v1) = 0
        <5>1. v1 \in Nat /\ v3 \in Nat \cup {-1} /\ v3 <= v1
          BY <1>1, BaseAre
        <5>2. v1 = 0 => v3 = 0 \/ v3 = -1
          BY <5>1
        <5>3. v3 = 0 => v3 # -1
          OBVIOUS
        <5>. QED
          BY <1>2, <5>2, <5>3, TotalsAre
      <4>2. Entries(v4[t])
        BY <1>1, <1>2, RowsAreEntries DEF UsageBase
      <4>3. Since(v4[t], 0) = DOMAIN v4[t]
        BY <4>2, AllSinceStart
      <4>. QED
        BY <3>1, <4>1, <4>3, TypesUnitsAre
    <3>3. (w \notin v12 => Usage!Fits(w))'
      <4>1. SUFFICES ASSUME w \notin v12 PROVE Usage!Fits(w)'
        BY <1>2
      <4>2. /\ Usage!UnitsAt(v4[t], OnDay(v4[t], Usage!Day(v1))) + v6[w].count <= Daily
            /\ Usage!UnitsAt(v4[t], Since(v4[t], Usage!MonthStart(v1))) + v6[w].count <= Monthly
        BY <1>2, <2>1, <4>1, Zenon DEF Alone, JobFitsLimits
      <4>3. v7'[w].daily + v6[w].count <= Daily /\ v7'[w].monthly + v6[w].count <= Monthly
        BY <3>1, <4>2
      <4>4. Usage!WithinLimits(t, v7'[w].daily, v7'[w].monthly, v6[w].count)
        BY <1>2, <4>3, LimitsAre
      <4>. QED
        BY <1>2, <4>4 DEF Usage!Fits, Usage!WithinLimits
    <3>4. v7'[w].place # 0 => /\ v7'[w].count = v4[t][v7'[w].place].count
                              /\ Usage!Day(v4[t][v7'[w].place].date) = Usage!Day(v7'[w].now)
      <4>1. v7'[w].place # 0 => v7'[w].place \in OnDay(v4[t], Usage!Day(v1))
        BY <1>2, TotalsAre
      <4>. QED
        BY <1>2, <4>1 DEF OnDay
    <3>5. /\ v7'[w].daily = Usage!UnitsAt(v4'[t], OnDay(v4'[t], Usage!Day(v7'[w].now)))
          /\ v7'[w].now = 0 \/ v3' = 0 => v7'[w].monthly = Usage!TypesUnits(v4'[t])
          /\ v7'[w].place # 0 => /\ v7'[w].count = v4'[t][v7'[w].place].count
                                 /\ Usage!Day(v4'[t][v7'[w].place].date) = Usage!Day(v7'[w].now)
      BY <1>2, <3>1, <3>2, <3>4, Zenon
    <3>6. v6'[w].type = t
      BY <1>2
    <3>. HIDE DEF t
    <3>. QED
      BY <3>3, <3>5, <3>6, Zenon DEF ReadIsSo
  <2>5. JobFitsLimits(w)'
    BY <1>2 DEF JobFitsLimits
  <2>6. \A u \in Workers : JobFitsLimits(u)' /\ ReadIsSo(u)'
    BY <2>2, <2>4, <2>5 DEF JobFitsLimits, ReadIsSo
  <2>7. \A u, v \in Workers : v5'[u] # "idle" /\ v5'[v] # "idle" => u = v
    BY <2>2
  <2>. QED
    BY <2>3, <2>6, <2>7, Zenon DEF Alone
<1>. QED
  BY <1>2, <1>4, <1>5, Zenon DEF UsageInv

LEMMA AloneRefuse ==
    ASSUME UsageInv, NEW w \in Workers, Usage!Refuse(w)
    PROVE  UsageInv'
<1>1. UsageBase
  BY DEF UsageInv
<1>2. /\ UsageBase' /\ v5[w] = "commit" /\ Usage!Finish(w)
      /\ \A t \in Metered : v10'[t] = v10[t] + Due(w, t)
      /\ v1' = v1 /\ v2' = v2 /\ v3' = v3 /\ v4' = v4 /\ v8' = v8 /\ v9' = v9 /\ v11' = v11
  BY <1>1, UsageRefuse
<1>3. /\ v5'[w] = "idle" /\ w \in Unrecorded
      /\ \A u \in Workers : u # w => v5'[u] = v5[u] /\ v6'[u] = v6[u] /\ v7'[u] = v7[u]
  BY <1>1, <1>2, FinishUsage DEF UsageBase, Unrecorded
<1>4. ASSUME NEW t \in Metered
      PROVE  Pending(t)' + Due(w, t) = Pending(t) /\ Pending(t)' \in Nat /\ Due(w, t) \in Nat
  BY <1>1, <1>2, <1>3, PendingLess, DueNatural DEF UsageBase
<1>5. UsageCovered'
  <2>1. UsageCovered
    BY DEF UsageInv
  <2>2. \A s \in Metered : Pending(s)' + v8[s] <= Pending(s) + v8'[s]
    BY <1>2, <1>4, LastPending
  <2>3. \A u \in Workers : v5'[u] = "commit" => v6'[u] = v6[u] /\ v5[u] = "commit" /\ v7'[u] = v7[u]
    BY <1>3
  <2>. QED
    BY <1>1, <1>2, <2>1, <2>2, <2>3, CoveredStays, Zenon
<1>6. ASSUME ~v11' PROVE Alone'
  <2>1. Alone
    BY <1>2, <1>6 DEF UsageInv
  <2>2. \A u \in Workers : v5'[u] = "idle"
    BY <1>2, <1>3, <2>1 DEF Alone
  <2>3. \A s \in Metered : FreeFits(s)'
    BY <1>2, <2>1, FreeStays, Zenon DEF Alone
  <2>4. \A s \in Metered : AccountsFit(s)'
    <3> TAKE s \in Metered
    <3>1. Usage!TypesUnits(v4[s]) + v10[s] + Pending(s) = v8[s]
      BY <2>1 DEF Alone, AccountsFit
    <3>2. Usage!TypesUnits(v4[s]) + (v10[s] + Due(w, s)) + Pending(s)' = v8[s]
      BY <1>4, <3>1, LastPending
    <3>. QED
      BY <1>2, <3>2, Zenon DEF AccountsFit
  <2>5. \A u \in Workers : JobFitsLimits(u)' /\ ReadIsSo(u)'
    BY <2>2 DEF JobFitsLimits, ReadIsSo
  <2>. QED
    BY <2>2, <2>3, <2>4, <2>5, Zenon DEF Alone
<1>. QED
  BY <1>2, <1>5, <1>6, Zenon DEF UsageInv

\* The only caller stores a record: the units on record of its type grow by those it used,
\* on the day it read, and nobody is left with work to record.
LEMMA AloneStored ==
    ASSUME UsageInv, Alone, NEW w \in Workers, UsageStores(w), UsageBase'
    PROVE  /\ \A u \in Workers : v5'[u] = "idle"
           /\ \A t \in Metered : AccountsFit(t)'
           /\ v6[w].type \in Metered /\ v6[w].count \in Nat
           /\ \A t \in Metered : t # v6[w].type => v4'[t] = v4[t]
           /\ Usage!TypesUnits(v4'[v6[w].type]) = Usage!TypesUnits(v4[v6[w].type]) + v6[w].count
           /\ \A d : Usage!UnitsAt(v4'[v6[w].type], OnDay(v4'[v6[w].type], d)) =
                         Usage!UnitsAt(v4[v6[w].type], OnDay(v4[v6[w].type], d))
                             + IF Usage!Day(v7[w].now) = d THEN v6[w].count ELSE 0
<1>1. UsageBase
  BY DEF UsageInv
<1>2. /\ v5[w] = "commit" /\ Usage!StoreRecord(w) /\ Usage!Finish(w)
      /\ v8' = v8 /\ v10' = v10
  BY Zenon DEF UsageStores
<1>3. /\ v5'[w] = "idle" /\ w \in Unrecorded
      /\ \A u \in Workers : u # w => v5'[u] = v5[u]
  BY <1>1, <1>2, FinishUsage DEF UsageBase, Unrecorded
<1>4. \A u \in Workers : v5'[u] = "idle"
  BY <1>2, <1>3 DEF Alone
<1>5. ASSUME NEW t \in Metered
      PROVE  Pending(t)' + Due(w, t) = Pending(t) /\ Pending(t)' \in Nat /\ Due(w, t) \in Nat
  BY <1>1, <1>2, <1>3, PendingLess, DueNatural DEF UsageBase
<1>6. /\ v6[w].type \in Metered /\ v6[w].count \in Nat
      /\ \A t \in Metered : t # v6[w].type => v4'[t] = v4[t]
  BY <1>1, <1>2, RecordStored, Zenon
<1>7. ASSUME NEW t \in Metered, t # v6[w].type PROVE AccountsFit(t)'
  <2>1. AccountsFit(t)
    BY DEF Alone
  <2>2. v4'[t] = v4[t] /\ v10'[t] = v10[t] /\ v8'[t] = v8[t]
    BY <1>2, <1>6, <1>7
  <2>3. Pending(t)' = Pending(t)
    <3>1. Due(w, t) = 0
      BY <1>7 DEF Due
    <3>. QED
      BY <1>5, <3>1
  <2>. QED
    BY <2>1, <2>2, <2>3, Zenon DEF AccountsFit
<1>8. PICK t : t = v6[w].type
  OBVIOUS
<1>9. /\ Usage!TypesUnits(v4'[t]) = Usage!TypesUnits(v4[t]) + v6[w].count
      /\ \A d : Usage!UnitsAt(v4'[t], OnDay(v4'[t], d)) = Usage!UnitsAt(v4[t], OnDay(v4[t], d))
                    + IF Usage!Day(v7[w].now) = d THEN v6[w].count ELSE 0
      /\ AccountsFit(t)'
  <2> DEFINE e == v4[t]
             f == v4'[t]
             n == v6[w].count
             day == Usage!Day(v7[w].now)
  <2>1. t \in Metered /\ Entries(e)
    BY <1>1, <1>6, <1>8, RowsAreEntries DEF UsageBase
  <2>2. Entries(f)
    <3>1. v4' \in [Metered -> Seq(UsageRow)]
      BY Zenon DEF UsageBase, UsageTyped
    <3>2. f \in Seq(UsageRow)
      BY <2>1, <3>1
    <3>. HIDE DEF f
    <3>3. Len(f) \in Nat /\ DOMAIN f = 1..Len(f) /\ \A i \in DOMAIN f : f[i] \in UsageRow
      BY <3>2, SMT
    <3>4. \A i \in DOMAIN f : f[i].count \in Nat /\ f[i].date \in Nat
      BY <3>3, SMT DEF UsageRow
    <3>. QED
      BY <3>3, <3>4, Zenon DEF Entries
  <2>3. PICK p :
           /\ p = IF v7[w].place = 0 THEN Len(e) + 1 ELSE v7[w].place
           /\ v7[w].place # 0 <=> p \in DOMAIN e
           /\ DOMAIN f = DOMAIN e \cup {p}
           /\ \A i \in DOMAIN e \ {p} : f[i] = e[i]
           /\ f[p].count = v7[w].count + n
           /\ f[p].date = IF v7[w].place = 0 THEN v7[w].now ELSE e[p].date
    <3>1. \E p :
             LET x == v4[v6[w].type]
                 y == v4'[v6[w].type] IN
             /\ p = IF v7[w].place = 0 THEN Len(x) + 1 ELSE v7[w].place
             /\ v7[w].place # 0 <=> p \in DOMAIN x
             /\ DOMAIN y = DOMAIN x \cup {p}
             /\ \A i \in DOMAIN x \ {p} : y[i] = x[i]
             /\ y[p].count = v7[w].count + v6[w].count
             /\ y[p].date = IF v7[w].place = 0 THEN v7[w].now ELSE x[p].date
             /\ y[p].lastUsed = v7[w].now
      BY <1>1, <1>2, RecordStored
    <3>2. /\ e = v4[v6[w].type] /\ f = v4'[v6[w].type] /\ n = v6[w].count
      BY <1>8
    <3>. HIDE DEF e, f, n
    <3>. QED
      BY <3>1, <3>2, Zenon
  <2>4. v7[w].place # 0 => /\ v7[w].count = e[v7[w].place].count
                           /\ Usage!Day(e[v7[w].place].date) = day
    BY <1>2, <1>8, Zenon DEF Alone, ReadIsSo
  <2>5. v7[w].place = 0 => v7[w].count = 0
    BY <1>1, <1>2, BaseAre
  <2>6. n \in Nat /\ v7[w].count \in Nat
    BY <1>1, <1>6, BaseAre DEF UsageSeen
  <2>7. Usage!TypesUnits(e) + v10[t] + Pending(t) = v8[t]
    BY <2>1, Zenon DEF Alone, AccountsFit
  <2>8. /\ Pending(t)' + n = Pending(t) /\ Pending(t)' \in Nat
        /\ v8[t] \in Nat /\ v10[t] \in Nat /\ Usage!TypesUnits(e) \in Nat
    <3>1. Due(w, t) = n
      BY <1>8 DEF Due
    <3>. QED
      BY <1>5, <2>1, <3>1, LastPending
  <2>. HIDE DEF e, f, n, day
  <2>9. OneMore(e, f, p, n) /\ Usage!Day(f[p].date) = day
    <3>1. CASE v7[w].place = 0
      <4>1. p \notin DOMAIN e /\ f[p].count = n /\ f[p].date = v7[w].now
        BY <2>3, <2>5, <2>6, <3>1
      <4>. QED
        BY <2>3, <4>1 DEF OneMore, day
    <3>2. CASE v7[w].place # 0
      <4>1. p = v7[w].place /\ p \in DOMAIN e /\ f[p].date = e[p].date
            /\ f[p].count = e[p].count + n
        BY <2>3, <2>4, <3>2
      <4>2. Usage!Day(f[p].date) = day
        BY <2>4, <3>2, <4>1
      <4>. QED
        BY <2>3, <4>1, <4>2 DEF OneMore
    <3>. QED
      BY <3>1, <3>2
  <2>10. /\ Usage!TypesUnits(f) = Usage!TypesUnits(e) + n
         /\ \A d : Usage!UnitsAt(f, OnDay(f, d)) = Usage!UnitsAt(e, OnDay(e, d))
                     + IF day = d THEN n ELSE 0
    BY <2>1, <2>2, <2>6, <2>9, UnitsOneMore
  <2>11. Usage!TypesUnits(f) + v10[t] + Pending(t)' = v8[t]
    BY <2>6, <2>7, <2>8, <2>10, SMT
  <2>12. AccountsFit(t)'
    BY <1>2, <2>11, Zenon DEF AccountsFit, f
  <2>. QED
    BY <2>10, <2>12, Zenon DEF e, f, n, day
<1>10. \A s \in Metered : AccountsFit(s)'
  <2>1. ASSUME NEW s \in Metered PROVE AccountsFit(s)'
    BY <1>7, <1>8, <1>9
  <2>. QED
    BY <2>1
<1>. QED
  BY <1>4, <1>6, <1>8, <1>9, <1>10, Zenon

\* The only caller stores a record and is charged nothing.
LEMMA AloneFree ==
    ASSUME UsageInv, Alone, NEW w \in Workers, Usage!CommitFree(w), UsageBase'
    PROVE  Alone'
<1>1. UsageBase
  BY DEF UsageInv
<1>2. /\ UsageStores(w) /\ Usage!Fits(w)
      /\ \A t \in Metered : t # v6[w].type => v9'[t] = v9[t]
      /\ v9'[v6[w].type] = Append(v9[v6[w].type], [date |-> v7[w].now, count |-> v6[w].count])
      /\ [date |-> v7[w].now, count |-> v6[w].count] \in UsageFree
  BY <1>1, UsageCommitFree, Zenon
<1>3. v5[w] = "commit" /\ v1' = v1 /\ v3' = v3
  BY <1>2, Zenon DEF UsageStores
<1>4. /\ \A u \in Workers : v5'[u] = "idle"
      /\ \A t \in Metered : AccountsFit(t)'
      /\ v6[w].type \in Metered /\ v6[w].count \in Nat
      /\ \A t \in Metered : t # v6[w].type => v4'[t] = v4[t]
      /\ Usage!TypesUnits(v4'[v6[w].type]) = Usage!TypesUnits(v4[v6[w].type]) + v6[w].count
      /\ \A d : Usage!UnitsAt(v4'[v6[w].type], OnDay(v4'[v6[w].type], d)) =
                    Usage!UnitsAt(v4[v6[w].type], OnDay(v4[v6[w].type], d))
                        + IF Usage!Day(v7[w].now) = d THEN v6[w].count ELSE 0
  BY <1>2, AloneStored, Zenon
<1>5. ASSUME NEW t \in Metered, t # v6[w].type PROVE FreeFits(t)'
  <2>1. FreeFits(t) /\ v4'[t] = v4[t] /\ v9'[t] = v9[t]
    BY <1>2, <1>4, <1>5 DEF Alone
  <2>. QED
    BY <1>3, <2>1, Zenon DEF FreeFits
<1>6. ASSUME NEW t \in Metered, t = v6[w].type PROVE FreeFits(t)'
  <2> DEFINE e == v4[t]
             f == v4'[t]
             g == v9[t]
             h == v9'[t]
             n == v6[w].count
             day == Usage!Day(v7[w].now)
             x == [date |-> v7[w].now, count |-> n]
  <2>1. /\ Entries(e) /\ Entries(g) /\ g \in Seq(UsageFree)
    BY <1>1, RowsAreEntries DEF UsageBase
  <2>2. Entries(h)
    <3>1. v9' \in [Metered -> Seq(UsageFree)]
      BY Zenon DEF UsageBase, UsageTyped
    <3>2. h \in Seq(UsageFree)
      BY <3>1
    <3>. HIDE DEF h
    <3>3. Len(h) \in Nat /\ DOMAIN h = 1..Len(h) /\ \A i \in DOMAIN h : h[i] \in UsageFree
      BY <3>2, SMT
    <3>4. \A i \in DOMAIN h : h[i].count \in Nat /\ h[i].date \in Nat
      BY <3>3, SMT DEF UsageFree
    <3>. QED
      BY <3>3, <3>4, Zenon DEF Entries
  <2>3. /\ v7[w].daily = Usage!UnitsAt(e, OnDay(e, day))
        /\ v7[w].now = 0 \/ v3 = 0 => v7[w].monthly = Usage!TypesUnits(e)
    BY <1>3, <1>6, Zenon DEF Alone, ReadIsSo
  <2>4. v7[w].daily + n <= Daily /\ v7[w].monthly + n <= Monthly
    BY <1>2, <1>6, LimitsAre DEF Usage!Fits
  <2>5. /\ \A d : Usage!UnitsAt(g, OnDay(g, d)) <= Usage!UnitsAt(e, OnDay(e, d))
        /\ \A d : Usage!UnitsAt(g, OnDay(g, d)) <= Daily
        /\ Usage!TypesUnits(g) <= Usage!TypesUnits(e)
        /\ v1 = 0 \/ v3 = 0 => Usage!TypesUnits(g) <= Monthly
    BY Zenon DEF Alone, FreeFits
  <2>6. h = Append(g, x) /\ x.count = n /\ x.date = v7[w].now /\ x \in UsageFree
    BY <1>2, <1>6
  <2>7. /\ v7[w].now \in Nat /\ v7[w].now <= v1 /\ v1 \in Nat /\ Daily \in Int /\ Monthly \in Int
        /\ n \in Nat /\ Usage!TypesUnits(e) \in Nat
    BY <1>1, <1>3, <1>4, BaseAre, UsageConstants, LastPending DEF UsageSeen
  <2>8. /\ Usage!TypesUnits(f) = Usage!TypesUnits(e) + n
        /\ \A d : Usage!UnitsAt(f, OnDay(f, d)) = Usage!UnitsAt(e, OnDay(e, d))
                    + IF day = d THEN n ELSE 0
    BY <1>4, <1>6
  <2>. HIDE DEF e, f, g, h, x, n, day
  <2>9. PICK q : OneMore(g, h, q, n) /\ Usage!Day(h[q].date) = day
    <3>1. /\ DOMAIN h = DOMAIN g \cup {Len(g) + 1} /\ Len(g) + 1 \notin DOMAIN g
          /\ \A i \in DOMAIN g : h[i] = g[i]
          /\ h[Len(g) + 1] = x
      BY <2>1, <2>6, SMT
    <3>. QED
      BY <2>6, <3>1 DEF OneMore, day
  <2>10. /\ Usage!TypesUnits(h) = Usage!TypesUnits(g) + n
         /\ \A d : Usage!UnitsAt(h, OnDay(h, d)) = Usage!UnitsAt(g, OnDay(g, d))
                     + IF day = d THEN n ELSE 0
    BY <2>1, <2>2, <2>7, <2>9, UnitsOneMore
  <2>11. \A d : Usage!UnitsAt(e, OnDay(e, d)) \in Nat /\ Usage!UnitsAt(g, OnDay(g, d)) \in Nat
    BY <2>1, SetsOfEntries, UnitsNatural
  <2>12. Usage!TypesUnits(g) \in Nat
    BY <2>1, UnitsNatural, TypesUnitsAre
  <2>13. ASSUME NEW d
         PROVE  /\ Usage!UnitsAt(h, OnDay(h, d)) <= Usage!UnitsAt(f, OnDay(f, d))
                /\ Usage!UnitsAt(h, OnDay(h, d)) <= Daily
    <3> DEFINE a == Usage!UnitsAt(e, OnDay(e, d))
               b == Usage!UnitsAt(g, OnDay(g, d))
               i == IF day = d THEN n ELSE 0
    <3>1. /\ Usage!UnitsAt(f, OnDay(f, d)) = a + i /\ Usage!UnitsAt(h, OnDay(h, d)) = b + i
          /\ a \in Nat /\ b \in Nat /\ b <= a /\ b <= Daily
      BY <2>5, <2>8, <2>10, <2>11
    <3>2. day = d => a + n <= Daily
      BY <2>3, <2>4
    <3>3. i = IF day = d THEN n ELSE 0
      OBVIOUS
    <3>. HIDE DEF a, b, i
    <3>. QED
      BY <2>7, <3>1, <3>2, <3>3, SMT
  <2>14. Usage!TypesUnits(h) <= Usage!TypesUnits(f)
    BY <2>5, <2>7, <2>8, <2>10, <2>12, SMT
  <2>15. v1 = 0 \/ v3 = 0 => Usage!TypesUnits(h) <= Monthly
    <3>1. v1 = 0 => v7[w].now = 0
      BY <2>7
    <3>2. v1 = 0 \/ v3 = 0 => Usage!TypesUnits(e) + n <= Monthly
      BY <2>3, <2>4, <3>1
    <3>. QED
      BY <2>5, <2>7, <2>10, <2>12, <3>2, SMT
  <2>. QED
    BY <1>3, <2>13, <2>14, <2>15, Zenon DEF FreeFits, f, h
<1>7. \A t \in Metered : FreeFits(t)'
  BY <1>5, <1>6
<1>8. \A u \in Workers : JobFitsLimits(u)' /\ ReadIsSo(u)'
  BY <1>4 DEF JobFitsLimits, ReadIsSo
<1>. QED
  BY <1>4, <1>7, <1>8, Zenon DEF Alone

\* The only caller, for whom the month has begun earlier meanwhile, stores a record and
\* pays for it: nothing goes uncharged.
LEMMA AloneCharge ==
    ASSUME UsageInv, Alone, NEW w \in Workers, Usage!CommitCharge(w), UsageBase'
    PROVE  Alone'
<1>1. UsageBase
  BY DEF UsageInv
<1>2. UsageStores(w) /\ v9' = v9
  BY <1>1, UsageCommitCharge
<1>3. v1' = v1 /\ v3' = v3
  BY <1>2, Zenon DEF UsageStores
<1>4. /\ \A u \in Workers : v5'[u] = "idle"
      /\ \A t \in Metered : AccountsFit(t)'
      /\ v6[w].type \in Metered /\ v6[w].count \in Nat
      /\ \A t \in Metered : t # v6[w].type => v4'[t] = v4[t]
      /\ Usage!TypesUnits(v4'[v6[w].type]) = Usage!TypesUnits(v4[v6[w].type]) + v6[w].count
      /\ \A d : Usage!UnitsAt(v4'[v6[w].type], OnDay(v4'[v6[w].type], d)) =
                    Usage!UnitsAt(v4[v6[w].type], OnDay(v4[v6[w].type], d))
                        + IF Usage!Day(v7[w].now) = d THEN v6[w].count ELSE 0
  BY <1>2, AloneStored, Zenon
<1>5. ASSUME NEW t \in Metered PROVE FreeFits(t)'
  <2> DEFINE e == v4[t]
             f == v4'[t]
             g == v9[t]
             n == v6[w].count
             day == Usage!Day(v7[w].now)
  <2>1. FreeFits(t)
    BY DEF Alone
  <2>2. CASE t # v6[w].type
    BY <1>2, <1>3, <1>4, <2>1, <2>2, Zenon DEF FreeFits
  <2>3. CASE t = v6[w].type
    <3>1. Entries(e) /\ Entries(g)
      BY <1>1, RowsAreEntries DEF UsageBase
    <3>2. n \in Nat
      BY <1>4
    <3>3. /\ Usage!TypesUnits(f) = Usage!TypesUnits(e) + n
          /\ \A d : Usage!UnitsAt(f, OnDay(f, d)) = Usage!UnitsAt(e, OnDay(e, d))
                      + IF day = d THEN n ELSE 0
      BY <1>4, <2>3
    <3>4. /\ \A d : Usage!UnitsAt(g, OnDay(g, d)) <= Usage!UnitsAt(e, OnDay(e, d))
          /\ \A d : Usage!UnitsAt(g, OnDay(g, d)) <= Daily
          /\ Usage!TypesUnits(g) <= Usage!TypesUnits(e)
          /\ v1 = 0 \/ v3 = 0 => Usage!TypesUnits(g) <= Monthly
      BY <2>1, Zenon DEF FreeFits
    <3>. HIDE DEF e, f, g, n, day
    <3>5. \A d : Usage!UnitsAt(e, OnDay(e, d)) \in Nat /\ Usage!UnitsAt(g, OnDay(g, d)) \in Nat
      BY <3>1, SetsOfEntries, UnitsNatural
    <3>6. Usage!TypesUnits(g) \in Nat /\ Usage!TypesUnits(e) \in Nat
      BY <3>1, UnitsNatural, TypesUnitsAre
    <3>7. ASSUME NEW d
          PROVE  Usage!UnitsAt(g, OnDay(g, d)) <= Usage!UnitsAt(f, OnDay(f, d))
      <4> DEFINE a == Usage!UnitsAt(e, OnDay(e, d))
                 b == Usage!UnitsAt(g, OnDay(g, d))
                 i == IF day = d THEN n ELSE 0
      <4>1. Usage!UnitsAt(f, OnDay(f, d)) = a + i /\ a \in Nat /\ b \in Nat /\ b <= a
        BY <3>3, <3>4, <3>5
      <4>2. i \in Nat
        BY <3>2
      <4>. HIDE DEF a, i
      <4>3. b <= a + i
        <5>. HIDE DEF b
        <5>. QED
          BY <4>1, <4>2, SMT
      <4>. QED
        BY <4>1, <4>3, Zenon
    <3>8. Usage!TypesUnits(g) <= Usage!TypesUnits(f)
      BY <3>2, <3>3, <3>4, <3>6, SMT
    <3>. QED
      BY <1>2, <1>3, <3>4, <3>7, <3>8, Zenon DEF FreeFits, f, g
  <2>. QED
    BY <2>2, <2>3
<1>6. \A u \in Workers : JobFitsLimits(u)' /\ ReadIsSo(u)'
  BY <1>4 DEF JobFitsLimits, ReadIsSo
<1>. QED
  BY <1>4, <1>5, <1>6, Zenon DEF Alone

\* A caller commits.
LEMMA UsageCommits ==
    ASSUME UsageInv, NEW w \in Workers, Usage!CommitFree(w) \/ Usage!CommitCharge(w)
    PROVE  UsageInv'
<1>1. UsageBase /\ UsageCovered
  BY DEF UsageInv
<1>2. CASE Usage!CommitFree(w)
  <2>1. UsageBase' /\ UsageStores(w)
    BY <1>1, <1>2, UsageCommitFree
  <2>2. UsageCovered'
    BY <1>1, <2>1, CoveredStored
  <2>3. ~v11' => Alone'
    <3>1. v11' = v11
      BY <2>1 DEF UsageStores
    <3>. QED
      BY <1>2, <2>1, <3>1, AloneFree DEF UsageInv
  <2>. QED
    BY <2>1, <2>2, <2>3, Zenon DEF UsageInv
<1>3. CASE Usage!CommitCharge(w)
  <2>1. UsageBase' /\ UsageStores(w)
    BY <1>1, <1>3, UsageCommitCharge
  <2>2. UsageCovered'
    BY <1>1, <2>1, CoveredStored
  <2>3. ~v11' => Alone'
    <3>1. v11' = v11
      BY <2>1 DEF UsageStores
    <3>. QED
      BY <1>3, <2>1, <3>1, AloneCharge DEF UsageInv
  <2>. QED
    BY <2>1, <2>2, <2>3, Zenon DEF UsageInv
<1>. QED
  BY <1>2, <1>3

\* A monthly allocation: the month starts now, and what was used since is of today.
LEMMA AlonePayment ==
    ASSUME UsageInv, Usage!ProcessPayment
    PROVE  UsageInv'
<1>1. UsageBase /\ UsageCovered
  BY DEF UsageInv
<1>2. /\ UsageBase' /\ Unrecorded' = Unrecorded /\ v3' = v1
      /\ v1' = v1 /\ v4' = v4 /\ v5' = v5 /\ v6' = v6 /\ v7' = v7 /\ v8' = v8 /\ v9' = v9
      /\ v10' = v10 /\ v11' = v11 /\ v12' = v12
  BY <1>1, UsagePayment
<1>3. \A s : Pending(s)' = Pending(s)
  BY <1>2, PendingSame
<1>4. UsageCovered'
  <2>1. \A s \in Metered : Pending(s)' + v8[s] <= Pending(s) + v8'[s]
    BY <1>2, <1>3, LastPending
  <2>. QED
    BY <1>1, <1>2, <2>1, CoveredStays, Zenon
<1>5. ASSUME ~v11' PROVE Alone'
  <2>1. Alone
    BY <1>2, <1>5 DEF UsageInv
  <2>2. v1 \in Nat
    BY <1>1, BaseAre
  <2>3. \A s \in Metered : AccountsFit(s)'
    BY <1>2, <1>3, <2>1, AccountsStay, Zenon DEF Alone
  <2>4. \A s \in Metered : FreeFits(s)'
    <3> TAKE s \in Metered
    <3>1. FreeFits(s)
      BY <2>1 DEF Alone
    <3>2. v1' = 0 \/ v3' = 0 => v1 = 0
      BY <1>2
    <3>. QED
      BY <1>2, <3>1, <3>2, Zenon DEF FreeFits
  <2>5. ASSUME NEW w \in Workers PROVE JobFitsLimits(w)'
    <3>1. SUFFICES ASSUME v5[w] \in {"work", "use"} PROVE JobFitsLimits(w)'
      BY <1>2 DEF JobFitsLimits
    <3> DEFINE t == v6[w].type
               e == v4[t]
               day == OnDay(e, Usage!Day(v1))
               since == Since(e, v1)
    <3>2. Usage!UnitsAt(e, day) + v6[w].count <= Daily
      BY <2>1, <3>1, Zenon DEF Alone, JobFitsLimits
    <3>3. t \in Metered /\ v6[w].count \in Nat
      BY <1>1, <3>1, BaseAre DEF UsageJobs
    <3>4. Entries(e) /\ \A i \in DOMAIN e : e[i].date <= v1 /\ e[i].date \in Nat
      <4>1. Entries(e)
        BY <1>1, <3>3, RowsAreEntries DEF UsageBase
      <4>2. \A i \in DOMAIN e : e[i].date <= v1
        BY <1>1, <3>3, BaseAre
      <4>. QED
        BY <4>1, <4>2, Zenon DEF Entries
    <3>5. since \in SUBSET day /\ day \in SUBSET DOMAIN e
      <4>1. \A i \in DOMAIN e : e[i].date >= v1 => e[i].date = v1
        BY <2>2, <3>4, SMT
      <4>. QED
        BY <4>1 DEF Since, OnDay
    <3>6. Usage!UnitsAt(e, since) <= Usage!UnitsAt(e, day) /\ since \in SUBSET DOMAIN e
      BY <3>4, <3>5, UnitsGrow
    <3>7. Usage!UnitsAt(e, since) \in Nat /\ Usage!UnitsAt(e, day) \in Nat
      BY <3>4, <3>5, <3>6, UnitsNatural
    <3>8. Daily \in Nat /\ Monthly \in Nat /\ Daily <= Monthly
      BY <3>3, UsageConstants
    <3>9. Usage!UnitsAt(e, since) + v6[w].count <= Monthly
      <4>. HIDE DEF e, day, since
      <4>. QED
        BY <3>2, <3>3, <3>6, <3>7, <3>8, SMT
    <3>10. Usage!MonthStart(v1)' = v1
      <4>1. v3' # -1
        BY <1>2, <2>2
      <4>. QED
        BY <1>2, <4>1, Zenon DEF Usage!MonthStart, Usage!NoDate
    <3>. QED
      BY <1>2, <3>2, <3>9, <3>10, Zenon DEF JobFitsLimits
  <2>6. ASSUME NEW w \in Workers PROVE ReadIsSo(w)'
    <3>1. CASE v5[w] # "commit"
      BY <1>2, <3>1 DEF ReadIsSo
    <3>2. CASE v5[w] = "commit"
      <4>1. v3' = 0 => v7[w].now = 0
        <5>1. v7[w].now \in Nat /\ v7[w].now <= v1
          BY <1>1, <3>2, BaseAre DEF UsageSeen
        <5>. QED
          BY <1>2, <5>1
      <4>. QED
        BY <1>2, <2>1, <4>1, ReadStays DEF Alone
    <3>. QED
      BY <3>1, <3>2
  <2>7. \A u, w \in Workers : v5'[u] # "idle" /\ v5'[w] # "idle" => u = w
    BY <1>2, <2>1 DEF Alone
  <2>. QED
    BY <2>3, <2>4, <2>5, <2>6, <2>7, Zenon DEF Alone
<1>. QED
  BY <1>2, <1>4, <1>5, Zenon DEF UsageInv

\* Time goes on: the entries of the new day are among those of the old one.
LEMMA AloneTick ==
    ASSUME UsageInv, Usage!Tick
    PROVE  UsageInv'
<1>1. UsageBase /\ UsageCovered
  BY DEF UsageInv
<1>2. /\ UsageBase' /\ Unrecorded' = Unrecorded /\ v1' = v1 + 1
      /\ v2' = v2 /\ v3' = v3 /\ v4' = v4 /\ v5' = v5 /\ v6' = v6 /\ v7' = v7 /\ v8' = v8
      /\ v9' = v9 /\ v10' = v10 /\ v11' = v11
      /\ v12' = IF Usage!MonthStart(v1') < Usage!MonthStart(v1)
                THEN v12 \cup {w \in Workers : v5[w] \in {"work", "use"}} ELSE v12
  BY <1>1, UsageTick
<1>3. \A s : Pending(s)' = Pending(s)
  BY <1>2, PendingSame
<1>4. UsageCovered'
  <2>1. \A s \in Metered : Pending(s)' + v8[s] <= Pending(s) + v8'[s]
    BY <1>2, <1>3, LastPending
  <2>. QED
    BY <1>1, <1>2, <2>1, CoveredStays, Zenon
<1>5. ASSUME ~v11' PROVE Alone'
  <2>1. Alone
    BY <1>2, <1>5 DEF UsageInv
  <2>2. v1 \in Nat /\ v1' \in Nat /\ v1 <= v1' /\ v1' # 0
    BY <1>1, <1>2, BaseAre
  <2>3. \A s \in Metered : AccountsFit(s)'
    BY <1>2, <1>3, <2>1, AccountsStay, Zenon DEF Alone
  <2>4. \A s \in Metered : FreeFits(s)'
    <3> TAKE s \in Metered
    <3>1. FreeFits(s)
      BY <2>1 DEF Alone
    <3>2. v1' = 0 \/ v3' = 0 => v1 = 0 \/ v3 = 0
      BY <1>2, <2>2
    <3>. QED
      BY <1>2, <3>1, <3>2, Zenon DEF FreeFits
  <2>5. ASSUME NEW w \in Workers PROVE JobFitsLimits(w)'
    <3>1. SUFFICES ASSUME v5[w] \in {"work", "use"} PROVE JobFitsLimits(w)'
      BY <1>2 DEF JobFitsLimits
    <3> DEFINE t == v6[w].type
               e == v4[t]
               today == OnDay(e, Usage!Day(v1))
               next == OnDay(e, Usage!Day(v1'))
    <3>2. /\ Usage!UnitsAt(e, today) + v6[w].count <= Daily
          /\ w \notin v12 => Usage!UnitsAt(e, Since(e, Usage!MonthStart(v1))) + v6[w].count <= Monthly
      BY <2>1, <3>1, Zenon DEF Alone, JobFitsLimits
    <3>3. t \in Metered /\ v6[w].count \in Nat
      BY <1>1, <3>1, BaseAre DEF UsageJobs
    <3>4. Entries(e) /\ \A i \in DOMAIN e : e[i].date <= v1 /\ e[i].date \in Nat
      <4>1. Entries(e)
        BY <1>1, <3>3, RowsAreEntries DEF UsageBase
      <4>2. \A i \in DOMAIN e : e[i].date <= v1
        BY <1>1, <3>3, BaseAre
      <4>. QED
        BY <4>1, <4>2, Zenon DEF Entries
    <3>5. next \in SUBSET today /\ today \in SUBSET DOMAIN e
      <4>1. ASSUME NEW i \in DOMAIN e, Usage!Day(e[i].date) = Usage!Day(v1')
            PROVE  Usage!Day(e[i].date) = Usage!Day(v1)
        <5>1. /\ Usage!Day(e[i].date) \in Nat /\ Usage!Day(e[i].date) <= Usage!Day(v1)
              /\ Usage!Day(v1) \in Nat /\ Usage!Day(v1) <= Usage!Day(v1')
          BY <2>2, <3>4, DaysGoOn
        <5>. HIDE DEF e
        <5>. QED
          BY <4>1, <5>1, SMT
      <4>. QED
        BY <4>1 DEF OnDay
    <3>6. Usage!UnitsAt(e, next) <= Usage!UnitsAt(e, today) /\ next \in SUBSET DOMAIN e
      BY <3>4, <3>5, UnitsGrow
    <3>7. Usage!UnitsAt(e, next) \in Nat /\ Usage!UnitsAt(e, today) \in Nat
      BY <3>4, <3>5, <3>6, UnitsNatural
    <3>8. Daily \in Nat
      BY <3>3, UsageConstants
    <3>9. Usage!UnitsAt(e, next) + v6[w].count <= Daily
      <4>. HIDE DEF e, today, next
      <4>. QED
        BY <3>2, <3>3, <3>6, <3>7, <3>8, SMT
    <3>10. ASSUME w \notin v12'
           PROVE  Usage!UnitsAt(e, Since(e, Usage!MonthStart(v1'))) + v6[w].count <= Monthly
      <4> DEFINE old == Since(e, Usage!MonthStart(v1))
                 new == Since(e, Usage!MonthStart(v1'))
      <4>1. w \notin v12 /\ ~(Usage!MonthStart(v1') < Usage!MonthStart(v1))
        BY <1>2, <3>1, <3>10, Zenon
      <4>2. /\ Usage!MonthStart(v1) \in Nat /\ Usage!MonthStart(v1') \in Nat
            /\ Usage!MonthStart(v1) <= Usage!MonthStart(v1')
        <5>1. v3 \in Nat \cup {-1}
          BY <1>1, BaseAre
        <5>2. Usage!MonthStart(v1) \in Nat /\ Usage!MonthStart(v1') \in Nat
          BY <2>2, <5>1, MonthHasBegun
        <5>. QED
          BY <4>1, <5>2
      <4>3. new \in SUBSET old /\ old \in SUBSET DOMAIN e
        <5> DEFINE a == Usage!MonthStart(v1)
                   b == Usage!MonthStart(v1')
        <5>1. a \in Nat /\ b \in Nat /\ a <= b
          BY <4>2
        <5>. HIDE DEF a, b
        <5>2. \A i \in DOMAIN e : e[i].date >= b => e[i].date >= a
          BY <3>4, <5>1, SMT
        <5>. QED
          BY <5>2 DEF Since, a, b
      <4>4. Usage!UnitsAt(e, new) <= Usage!UnitsAt(e, old) /\ new \in SUBSET DOMAIN e
        BY <3>4, <4>3, UnitsGrow
      <4>5. Usage!UnitsAt(e, new) \in Nat /\ Usage!UnitsAt(e, old) \in Nat
        BY <3>4, <4>3, <4>4, UnitsNatural
      <4>6. Usage!UnitsAt(e, old) + v6[w].count <= Monthly /\ Monthly \in Nat
        BY <3>2, <3>3, <4>1, UsageConstants
      <4>7. Usage!UnitsAt(e, new) + v6[w].count <= Monthly
        <5>. HIDE DEF e, old, new
        <5>. QED
          BY <3>3, <4>4, <4>5, <4>6, SMT
      <4>. QED
        BY <4>7
    <3>11. Usage!MonthStart(v1)' = Usage!MonthStart(v1')
      BY <1>2, Zenon DEF Usage!MonthStart
    <3>. QED
      BY <1>2, <3>9, <3>10, <3>11, Zenon DEF JobFitsLimits
  <2>6. \A w \in Workers : ReadIsSo(w)'
    <3>1. v12 \subseteq v12'
      BY <1>2
    <3>. QED
      BY <1>2, <2>1, <3>1, ReadStays DEF Alone
  <2>7. \A u, w \in Workers : v5'[u] # "idle" /\ v5'[w] # "idle" => u = w
    BY <1>2, <2>1 DEF Alone
  <2>. QED
    BY <2>3, <2>4, <2>5, <2>6, <2>7, Zenon DEF Alone
<1>. QED
  BY <1>2, <1>4, <1>5, Zenon DEF UsageInv

\* It is kept.
LEMMA UsageSteps ==
    ASSUME UsageInv, NextUsage \/ UNCHANGED vars
    PROVE  UsageInv'
<1>1. ASSUME UNCHANGED vars PROVE UsageInv'
  <2>1. UsageBase /\ UsageCovered
    BY DEF UsageInv
  <2>2. /\ v1' = v1 /\ v2' = v2 /\ v3' = v3 /\ v4' = v4 /\ v5' = v5 /\ v6' = v6 /\ v7' = v7
        /\ v8' = v8 /\ v9' = v9 /\ v10' = v10 /\ v11' = v11 /\ v12' = v12
    BY <1>1 DEF vars
  <2>3. Unrecorded' = Unrecorded
    BY <2>2 DEF Unrecorded
  <2>4. UsageBase'
    BY <2>1, <2>2, <2>3, BaseAre, BaseFrom, Zenon
  <2>5. \A s : Pending(s)' = Pending(s)
    BY <2>2, <2>3, PendingSame
  <2>6. UsageCovered'
    <3>1. \A s \in Metered : Pending(s)' + v8[s] <= Pending(s) + v8'[s]
      BY <2>2, <2>5, LastPending
    <3>. QED
      BY <2>1, <2>2, <2>4, <3>1, CoveredStays, Zenon
  <2>7. ASSUME ~v11' PROVE Alone'
    <3>1. Alone
      BY <2>2, <2>7 DEF UsageInv
    <3>2. \A s \in Metered : AccountsFit(s)' /\ FreeFits(s)'
      BY <2>2, <2>5, <3>1, AccountsStay, FreeStays, Zenon DEF Alone
    <3>3. \A w \in Workers : JobFitsLimits(w)' /\ ReadIsSo(w)'
      BY <2>2, <3>1, JobFitStays, ReadStays DEF Alone
    <3>4. \A u, w \in Workers : v5'[u] # "idle" /\ v5'[w] # "idle" => u = w
      BY <2>2, <3>1 DEF Alone
    <3>. QED
      BY <3>2, <3>3, <3>4, Zenon DEF Alone
  <2>. QED
    BY <2>4, <2>6, <2>7, Zenon DEF UsageInv
<1>2. ASSUME NextUsage PROVE UsageInv'
  <2>1. \/ \E w \in Workers :
              \/ \E t \in Metered, n \in Counts : Usage!Preview(w, t, n)
              \/ Usage!Work(w) \/ Usage!ReadUsage(w) \/ Usage!Refuse(w)
              \/ Usage!CommitFree(w) \/ Usage!CommitCharge(w)
        \/ Usage!ProcessPayment \/ Usage!Tick
    BY <1>2, Zenon DEF NextUsage
  <2>. QED
    BY <2>1, AlonePreview, AloneWork, AloneRead, AloneRefuse, UsageCommits, AlonePayment,
       AloneTick, Zenon
<1>. QED
  BY <1>1, <1>2

\* It holds initially.
LEMMA UsageInit ==
    ASSUME Usage!Init
    PROVE  UsageInv
<1>1. /\ v1 = 0 /\ v4 = [t \in Metered |-> <<>>] /\ v5 = [w \in Workers |-> "idle"]
      /\ v6 = [w \in Workers |-> Usage!NoJob] /\ v7 = [w \in Workers |-> Usage!Nothing]
      /\ v8 = [t \in Metered |-> 0] /\ v9 = [t \in Metered |-> <<>>]
      /\ v10 = [t \in Metered |-> 0] /\ v11 = FALSE
      /\ \E bonus \in Granted :
            \/ v2 = Usage!Allocate(Usage!Grant(Usage!EmptyRow, "bonus", bonus), Allocated) /\ v3 = 0
            \/ v2 = Usage!Grant(Usage!EmptyRow, "bonus", bonus) /\ v3 = -1
  BY Zenon DEF Usage!Init, Usage!NoDate
<1>2. v2 \in Usage!BalanceRow /\ v3 \in Nat \cup {-1} /\ v3 <= v1
  <2>1. \A bonus \in Granted : Usage!Grant(Usage!EmptyRow, "bonus", bonus) \in Usage!BalanceRow
    BY GrantedRow, UsageConstants
  <2>2. Allocated \in Nat
    BY UsageConstants
  <2>. QED
    BY <1>1, <2>1, <2>2, AllocatedRow
<1>3. <<>> \in Seq(UsageRow) /\ <<>> \in Seq(UsageFree) /\ DOMAIN <<>> = {}
  BY SMT
<1>4. /\ v4 \in [Metered -> Seq(UsageRow)] /\ v9 \in [Metered -> Seq(UsageFree)]
      /\ v8 \in [Metered -> Nat] /\ v10 \in [Metered -> Nat]
  BY <1>1, <1>3
<1>5. /\ v5 \in [Workers -> Pcs] /\ v6 \in [Workers -> UsageJobs]
      /\ v7 \in [Workers -> UsageSeen]
      /\ \A w \in Workers : v5[w] = "idle"
  BY <1>1, NoUsageJob DEF Pcs
<1>6. Unrecorded = {} /\ IsFiniteSet(Unrecorded)
  <2>1. Unrecorded = {}
    BY <1>5 DEF Unrecorded
  <2>. QED
    BY <2>1, FS_EmptySet
<1>7. \A t \in Metered : v4[t] = <<>> /\ v9[t] = <<>> /\ v8[t] = 0 /\ v10[t] = 0
  BY <1>1
<1>8. UsageBase
  <2>1. UsageTyped
    BY <1>1, <1>2, <1>4, <1>5, Zenon DEF UsageTyped, Pcs
  <2>2. UsagePast /\ UsagePlaces
    BY <1>2, <1>3, <1>5, <1>7 DEF UsagePast, UsagePlaces
  <2>. QED
    BY <1>6, <2>1, <2>2 DEF UsageBase
<1>9. \A t : Pending(t) = 0
  BY <1>6, SumEmpty DEF Pending
<1>10. ASSUME NEW e, DOMAIN e = {}
       PROVE  /\ Usage!TypesUnits(e) = 0
              /\ \A d : Usage!UnitsAt(e, OnDay(e, d)) = 0
  <2>1. \A P \in SUBSET DOMAIN e : Usage!UnitsAt(e, P) = 0
    BY <1>10, UnitsAreSum, SumEmpty
  <2>2. \A d : OnDay(e, d) \in SUBSET DOMAIN e
    BY DEF OnDay
  <2>3. DOMAIN e \in SUBSET DOMAIN e
    OBVIOUS
  <2>. QED
    BY <2>1, <2>2, <2>3, TypesUnitsAre
<1>11. UsageCovered
  <2> SUFFICES ASSUME NEW t \in Metered
               PROVE  \E C \in [DOMAIN v4[t] -> Nat] : Covers(t, C)
    BY DEF UsageCovered
  <2>1. DOMAIN v4[t] = {} /\ v8[t] = 0
    BY <1>3, <1>7
  <2>2. PICK C : C \in [DOMAIN v4[t] -> Nat]
    <3>1. [i \in DOMAIN v4[t] |-> 0] \in [DOMAIN v4[t] -> Nat]
      OBVIOUS
    <3>. QED
      BY <3>1
  <2>3. Sum(DOMAIN v4[t], C) = 0
    BY <2>1, SumEmpty
  <2>4. Sum(DOMAIN v4[t], C) + Pending(t) <= v8[t]
    BY <1>9, <2>1, <2>3
  <2>5. Covers(t, C)
    BY <1>5, <2>1, <2>4 DEF Covers
  <2>. QED
    BY <2>2, <2>5
<1>12. Alone
  <2>1. ASSUME NEW t \in Metered PROVE AccountsFit(t) /\ FreeFits(t)
    <3>1. DOMAIN v4[t] = {} /\ DOMAIN v9[t] = {} /\ v8[t] = 0 /\ v10[t] = 0 /\ Pending(t) = 0
      BY <1>3, <1>7, <1>9
    <3>2. /\ Usage!TypesUnits(v4[t]) = 0 /\ Usage!TypesUnits(v9[t]) = 0
          /\ \A d : Usage!UnitsAt(v4[t], OnDay(v4[t], d)) = 0
          /\ \A d : Usage!UnitsAt(v9[t], OnDay(v9[t], d)) = 0
      BY <1>10, <3>1
    <3>3. 0 <= Daily /\ 0 <= Monthly /\ 0 <= 0 /\ 0 + 0 + 0 = 0
      BY <2>1, UsageConstants
    <3>. QED
      BY <3>1, <3>2, <3>3, Zenon DEF AccountsFit, FreeFits
  <2>2. \A w \in Workers : JobFitsLimits(w) /\ ReadIsSo(w)
    BY <1>5 DEF JobFitsLimits, ReadIsSo
  <2>. QED
    BY <1>2, <1>5, <2>1, <2>2, Zenon DEF Alone
<1>. QED
  BY <1>8, <1>11, <1>12 DEF UsageInv

\* What it implies.
LEMMA UsageMeans ==
    ASSUME UsageInv
    PROVE  Usage!WorkIsRecorded /\ Usage!NeverOvercounted /\ Usage!LimitsHoldOneByOne
<1>1. UsageBase /\ UsageCovered
  BY DEF UsageInv
<1>2. Usage!NeverOvercounted
  <2> SUFFICES ASSUME NEW t \in Metered PROVE Usage!TypesUnits(v4[t]) <= v8[t]
    BY DEF Usage!NeverOvercounted
  <2>1. PICK C \in [DOMAIN v4[t] -> Nat] : Covers(t, C)
    BY <1>1 DEF UsageCovered
  <2>2. /\ \A i \in DOMAIN v4[t] : v4[t][i].count <= C[i]
        /\ Sum(DOMAIN v4[t], C) + Pending(t) <= v8[t]
    BY <2>1, Zenon DEF Covers
  <2>3. Entries(v4[t]) /\ DOMAIN v4[t] \in SUBSET DOMAIN v4[t]
    BY <1>1, RowsAreEntries DEF UsageBase
  <2>4. /\ IsFiniteSet(DOMAIN v4[t])
        /\ \A i \in DOMAIN v4[t] : Weights(v4[t])[i] \in Nat /\ C[i] \in Nat
    BY <2>3, EntriesFinite
  <2>5. \A i \in DOMAIN v4[t] : Weights(v4[t])[i] <= C[i]
    BY <2>2 DEF Weights
  <2>6. Sum(DOMAIN v4[t], Weights(v4[t])) <= Sum(DOMAIN v4[t], C)
    BY <2>3, <2>4, <2>5, SumGrows
  <2>7. Usage!TypesUnits(v4[t]) = Sum(DOMAIN v4[t], Weights(v4[t]))
    BY <2>3, TypesUnitsAre, UnitsAreSum
  <2>8. Sum(DOMAIN v4[t], C) \in Nat
    BY <2>4, SumIsNatural
  <2>. QED
    BY <2>2, <2>6, <2>7, <2>8, LastPending, SMT
<1>3. Usage!WorkIsRecorded
  <2> SUFFICES ASSUME ~v11, \A w \in Workers : v5[w] = "idle", NEW t \in Metered
               PROVE  Usage!TypesUnits(v4[t]) + v10[t] = v8[t]
    BY DEF Usage!WorkIsRecorded
  <2>1. Unrecorded = {}
    BY DEF Unrecorded
  <2>2. Pending(t) = 0
    BY <2>1, SumEmpty DEF Pending
  <2>3. Usage!TypesUnits(v4[t]) + v10[t] + Pending(t) = v8[t]
    BY DEF UsageInv, Alone, AccountsFit
  <2>. QED
    BY <2>2, <2>3, LastPending
<1>4. Usage!LimitsHoldOneByOne
  <2> SUFFICES ASSUME ~v11
               PROVE  /\ Usage!DailyLimitHolds
                      /\ v3 = 0 => Usage!MonthlyLimitHolds
                      /\ \A w \in Workers \ v12 : v5[w] = "commit" => Usage!Fits(w)
    BY Zenon DEF Usage!LimitsHoldOneByOne
  <2>1. Alone
    BY DEF UsageInv
  <2>2. \A t \in Metered : /\ \A d : Usage!UnitsAt(v9[t], OnDay(v9[t], d)) <= Daily
                           /\ v3 = 0 => Usage!TypesUnits(v9[t]) <= Monthly
    BY <2>1, Zenon DEF Alone, FreeFits
  <2>3. Usage!DailyLimitHolds
    BY <2>2, Zenon DEF Usage!DailyLimitHolds, OnDay
  <2>4. v3 = 0 => Usage!MonthlyLimitHolds
    BY <2>2, Zenon DEF Usage!MonthlyLimitHolds
  <2>5. \A w \in Workers \ v12 : v5[w] = "commit" => Usage!Fits(w)
    BY <2>1, Zenon DEF Alone, ReadIsSo
  <2>. QED
    BY <2>3, <2>4, <2>5
<1>. QED
  BY <1>2, <1>3, <1>4

UsageOnly == subject = "usage" => UsageInv

\* It holds in every reachable state of metering.
LEMMA UsageAlways == Spec => []UsageOnly
<1>1. Init => UsageOnly
  BY UsageInit, Zenon DEF Init, UsageOnly
<1>2. UsageOnly /\ [Next]_vars => UsageOnly'
  <2>. SUFFICES ASSUME UsageOnly, [Next]_vars PROVE UsageOnly'
    OBVIOUS
  <2>1. subject' = subject
    BY SubjectStays
  <2>2. subject = "usage" => UsageInv'
    BY StepOfSubject, UsageSteps, Zenon DEF UsageOnly
  <2>. QED
    BY <2>1, <2>2, Zenon DEF UsageOnly
<1>. QED
  BY <1>1, <1>2, PTL DEF Spec

\* The records count the work done: never more than it, and without overlapping callers
\* all that was not refused (credits.py).
THEOREM WorkIsCounted == Spec => []UsageIsCounted
<1>1. UsageOnly => UsageIsCounted
  BY UsageMeans, Zenon DEF UsageOnly, UsageIsCounted
<1>. QED
  BY <1>1, UsageAlways, PTL

\* Callers that do not overlap use no more free units a day and a month than the plan
\* allows, also across midnight and an allocation, and one that was told it may go ahead
\* pays no credits and is not refused, unless midnight has moved the month's start back
\* (credits.py).
THEOREM LimitsHold == Spec => []LimitsHoldOneByOne
<1>1. UsageOnly => LimitsHoldOneByOne
  BY UsageMeans, Zenon DEF UsageOnly, LimitsHoldOneByOne
<1>. QED
  BY <1>1, UsageAlways, PTL

\* The bounds of the model, and when an entry was last used.
UsageBounded ==
    /\ v1 <= MaxClock
    /\ \A t \in Metered : \A i \in DOMAIN v4[t] : v4[t][i].lastUsed <= v1
    /\ v12 \subseteq Workers /\ v13 \in 0..MaxJobs /\ v14 \in 0..MaxAllocations

LEMMA BoundConstants == MaxClock \in Nat /\ MaxJobs \in Nat /\ MaxAllocations \in Nat
  BY MirrorsAssumption, Zenon DEF MirrorsAssumption, Usage!MeteringAssumption

\* They are kept.
LEMMA LastUsedStored ==
    ASSUME UsageInv, UsageBounded, NEW w \in Workers, v5[w] = "commit", Usage!StoreRecord(w)
    PROVE  \A t \in Metered : \A i \in DOMAIN v4'[t] : v4'[t][i].lastUsed <= v1
<1>1. UsageBase
  BY DEF UsageInv
<1> DEFINE t == v6[w].type
           e == v4[t]
           f == v4'[t]
<1>2. t \in Metered /\ \A u \in Metered : u # t => v4'[u] = v4[u]
  BY <1>1, RecordStored, Zenon
<1>3. PICK p :
         /\ DOMAIN f = DOMAIN e \cup {p}
         /\ \A i \in DOMAIN e \ {p} : f[i] = e[i]
         /\ f[p].lastUsed = v7[w].now
  BY <1>1, RecordStored, Zenon
<1>4. v7[w].now <= v1 /\ \A u \in Metered : \A k \in DOMAIN v4[u] : v4[u][k].lastUsed <= v1
  BY <1>1, BaseAre, Zenon DEF UsageBounded
<1>5. ASSUME NEW i \in DOMAIN f PROVE f[i].lastUsed <= v1
  <2>1. \A k \in DOMAIN e : e[k].lastUsed <= v1
    BY <1>2, <1>4
  <2>. HIDE DEF e, f, t
  <2>2. CASE i # p
    BY <1>3, <2>1, <2>2
  <2>3. CASE i = p
    BY <1>3, <1>4, <2>3, Zenon
  <2>. QED
    BY <2>2, <2>3
<1>. QED
  BY <1>2, <1>4, <1>5

LEMMA BoundsKept ==
    ASSUME UsageInv, UsageBounded, NextUsage \/ UNCHANGED vars
    PROVE  UsageBounded'
<1>1. /\ v1 \in Nat /\ v4 \in [Metered -> Seq(UsageRow)]
      /\ \A t \in Metered : \A i \in DOMAIN v4[t] : v4[t][i].lastUsed <= v1
      /\ v1 <= MaxClock /\ v12 \subseteq Workers /\ v13 \in 0..MaxJobs /\ v14 \in 0..MaxAllocations
  BY BaseAre, Zenon DEF UsageInv, UsageBounded
<1>2. ASSUME v1' = v1, v12' \subseteq Workers, v13' = v13, v14' = v14,
             \A t \in Metered : \A i \in DOMAIN v4'[t] : v4'[t][i].lastUsed <= v1
      PROVE  UsageBounded'
  BY <1>1, <1>2 DEF UsageBounded
<1>3. ASSUME NEW w \in Workers, NEW t \in Metered, NEW n \in Counts, Usage!Preview(w, t, n)
      PROVE  UsageBounded'
  <2>1. v1' = v1 /\ v4' = v4 /\ v12' = v12 /\ v13 < MaxJobs /\ v13' = v13 + 1 /\ v14' = v14
    BY <1>3, Zenon DEF Usage!Preview
  <2>2. v13' \in 0..MaxJobs
    BY <1>1, <2>1, BoundConstants
  <2>. QED
    BY <1>1, <2>1, <2>2, Zenon DEF UsageBounded
<1>4. ASSUME NEW w \in Workers, Usage!Work(w) \/ Usage!ReadUsage(w) \/ Usage!Refuse(w)
      PROVE  UsageBounded'
  <2>1. v1' = v1 /\ v4' = v4 /\ v13' = v13 /\ v14' = v14 /\ (v12' = v12 \/ v12' = v12 \ {w})
    BY <1>4, Zenon DEF Usage!Work, Usage!ReadUsage, Usage!Refuse, Usage!Finish
  <2>2. v12' \subseteq Workers
    BY <1>1, <2>1, Zenon
  <2>. QED
    BY <1>1, <1>2, <2>1, <2>2, Zenon
<1>5. ASSUME NEW w \in Workers, Usage!CommitFree(w) \/ Usage!CommitCharge(w)
      PROVE  UsageBounded'
  <2>1. /\ v5[w] = "commit" /\ Usage!StoreRecord(w) /\ v1' = v1 /\ v13' = v13 /\ v14' = v14
        /\ v12' = v12 \ {w}
    BY <1>5, Zenon DEF Usage!CommitFree, Usage!CommitCharge, Usage!Finish
  <2>2. v12' \subseteq Workers
    BY <1>1, <2>1, Zenon
  <2>. QED
    BY <1>2, <2>1, <2>2, LastUsedStored
<1>6. ASSUME Usage!ProcessPayment PROVE UsageBounded'
  <2>1. v1' = v1 /\ v4' = v4 /\ v12' = v12 /\ v13' = v13 /\ v14 < MaxAllocations /\ v14' = v14 + 1
    BY <1>6, Zenon DEF Usage!ProcessPayment
  <2>2. v14' \in 0..MaxAllocations
    BY <1>1, <2>1, BoundConstants
  <2>. QED
    BY <1>1, <2>1, <2>2, Zenon DEF UsageBounded
<1>7. ASSUME Usage!Tick PROVE UsageBounded'
  <2>1. v1 < MaxClock /\ v1' = v1 + 1 /\ v4' = v4 /\ v13' = v13 /\ v14' = v14
    BY <1>7, Zenon DEF Usage!Tick
  <2>2. \A t \in Metered : \A i \in DOMAIN v4[t] : v4[t][i].lastUsed <= v1 + 1
    <3> SUFFICES ASSUME NEW t \in Metered, NEW i \in DOMAIN v4[t]
                 PROVE  v4[t][i].lastUsed <= v1 + 1
      OBVIOUS
    <3>1. v4[t] \in Seq(UsageRow)
      BY <1>1
    <3>2. v4[t][i] \in UsageRow
      BY <3>1, SMT
    <3>3. v4[t][i].lastUsed \in Nat \cup {-1} /\ v4[t][i].lastUsed <= v1
      BY <1>1, <3>2, SMT DEF UsageRow
    <3> DEFINE last == v4[t][i].lastUsed
    <3>. HIDE DEF last
    <3>4. last <= v1 + 1
      BY <1>1, <3>3 DEF last
    <3>. QED
      BY <3>4 DEF last
  <2>3. v1' <= MaxClock
    BY <1>1, <2>1, BoundConstants
  <2>4. v12' \subseteq Workers
    <3>1. v12' = v12 \/ v12' = v12 \cup {w \in Workers : v5[w] \in {"work", "use"}}
      BY <1>7, Zenon DEF Usage!Tick
    <3>. QED
      BY <1>1, <3>1
  <2>. QED
    BY <1>1, <2>1, <2>2, <2>3, <2>4, Zenon DEF UsageBounded
<1>8. ASSUME UNCHANGED vars PROVE UsageBounded'
  <2>1. v1' = v1 /\ v4' = v4 /\ v12' = v12 /\ v13' = v13 /\ v14' = v14
    BY <1>8 DEF vars
  <2>. QED
    BY <1>1, <1>2, <2>1, Zenon
<1>9. ASSUME NextUsage PROVE UsageBounded'
  <2>1. \/ \E w \in Workers :
              \/ \E t \in Metered, n \in Counts : Usage!Preview(w, t, n)
              \/ Usage!Work(w) \/ Usage!ReadUsage(w) \/ Usage!Refuse(w)
              \/ Usage!CommitFree(w) \/ Usage!CommitCharge(w)
        \/ Usage!ProcessPayment \/ Usage!Tick
    BY <1>9, Zenon DEF NextUsage
  <2>. QED
    BY <2>1, <1>3, <1>4, <1>5, <1>6, <1>7, Zenon
<1>. QED
  BY <1>8, <1>9

\* The types of metering.
LEMMA UsageTypes == ASSUME UsageInv, UsageBounded PROVE Usage!TypeOK
<1>1. UsageBase
  BY DEF UsageInv
<1>2. /\ v1 \in Nat /\ v2 \in Usage!BalanceRow /\ v3 \in Nat \cup {-1}
      /\ v4 \in [Metered -> Seq(UsageRow)] /\ v5 \in [Workers -> Pcs]
      /\ v6 \in [Workers -> UsageJobs] /\ v7 \in [Workers -> UsageSeen]
      /\ v8 \in [Metered -> Nat] /\ v10 \in [Metered -> Nat] /\ v11 \in BOOLEAN
      /\ v3 <= v1 /\ \A t \in Metered : \A i \in DOMAIN v4[t] : v4[t][i].date <= v1
  BY <1>1, BaseAre, Zenon
<1>3. /\ v1 <= MaxClock
      /\ \A t \in Metered : \A i \in DOMAIN v4[t] : v4[t][i].lastUsed <= v1
      /\ v12 \subseteq Workers /\ v13 \in 0..MaxJobs /\ v14 \in 0..MaxAllocations
  BY Zenon DEF UsageBounded
<1>4. v1 \in 0..MaxClock /\ v3 \in 0..MaxClock \cup {-1}
  BY <1>2, <1>3, BoundConstants
<1>5. ASSUME NEW t \in Metered, NEW i \in DOMAIN v4[t]
      PROVE  v4[t][i] \in Usage!Record
  <2>1. v4[t] \in Seq(UsageRow)
    BY <1>2
  <2>2. v4[t][i] \in UsageRow
    BY <2>1, SMT
  <2> DEFINE r == v4[t][i]
  <2>3. r.date <= v1 /\ r.lastUsed <= v1
    BY <1>2, <1>3
  <2>. HIDE DEF r
  <2>4. /\ r = [date |-> r.date, count |-> r.count, lastUsed |-> r.lastUsed]
        /\ r.date \in Nat /\ r.count \in Nat /\ r.lastUsed \in Nat \cup {-1}
    BY <2>2, SMT DEF UsageRow, r
  <2>5. r.date \in 0..MaxClock /\ r.lastUsed \in 0..MaxClock \cup {-1}
    BY <1>2, <1>3, <2>3, <2>4, BoundConstants
  <2>6. r \in Usage!Record
    BY <2>4, <2>5, Zenon DEF Usage!Record, Usage!NoDate
  <2>. QED
    BY <2>6 DEF r
<1>6. ASSUME NEW w \in Workers
      PROVE  v6[w].type \in Metered \cup {"none"} /\ v7[w].row \in Usage!BalanceRow
  <2>1. v6[w] \in UsageJobs /\ v7[w] \in UsageSeen
    BY <1>2
  <2>. QED
    BY <2>1, SMT DEF UsageJobs, UsageSeen
<1>. QED
  BY <1>2, <1>3, <1>4, <1>5, <1>6, Zenon DEF Usage!TypeOK, Usage!NoDate, Pcs

BoundedOnly == subject = "usage" => UsageBounded

\* They hold in every reachable state of metering.
LEMMA BoundedAlways == Spec => []BoundedOnly
<1>1. Init => BoundedOnly
  <2>. SUFFICES ASSUME Init, subject = "usage" PROVE UsageBounded
    BY DEF BoundedOnly
  <2>1. /\ v1 = 0 /\ v4 = [t \in Metered |-> <<>>] /\ v12 = {} /\ v13 = 0 /\ v14 = 0
    BY Zenon DEF Init, Usage!Init
  <2>2. \A t \in Metered : DOMAIN v4[t] = {}
    BY <2>1, SMT
  <2>. QED
    BY <2>1, <2>2, BoundConstants DEF UsageBounded
<1>2. UsageOnly /\ BoundedOnly /\ [Next]_vars => BoundedOnly'
  <2>. SUFFICES ASSUME UsageOnly, BoundedOnly, [Next]_vars PROVE BoundedOnly'
    OBVIOUS
  <2>1. subject' = subject
    BY SubjectStays
  <2>2. subject = "usage" => UsageBounded'
    BY StepOfSubject, BoundsKept, Zenon DEF UsageOnly, BoundedOnly
  <2>. QED
    BY <2>1, <2>2, Zenon DEF BoundedOnly
<1>. QED
  BY <1>1, <1>2, UsageAlways, PTL DEF Spec

-----------------------------------------------------------------------------
\* Every component's variables keep their types and bounds: an account's balance is no
\* negative number however its callers overlap, scores stay in their ranges, an add-on's row
\* names an item of its subscription, an invitation's token was once issued, and no request
\* is at a place the code does not have.
THEOREM TypesCorrect == Spec => []TypeOK
<1> DEFINE All == /\ ChannelOnly /\ SubOnly /\ UsageOnly /\ BoundedOnly /\ OutcomeInv
                  /\ MetricOnly /\ ProgressOnly /\ ScoreOnly /\ SettingsOnly /\ UploadOnly
                  /\ FeatureOnly
<1>1. All => TypeOK
  <2>. SUFFICES ASSUME All PROVE TypeOK
    OBVIOUS
  <2>1. subject = "channel" => Channel!TypeOK
    <3>. SUFFICES ASSUME subject = "channel" PROVE Channel!TypeOK
      OBVIOUS
    <3>1. ChannelTyped /\ v10 \subseteq Channels /\ v11 \subseteq Channels
      BY Zenon DEF ChannelOnly, ChannelInv, AnswerInv
    <3>. QED
      BY <3>1, Zenon DEF ChannelTyped, ChannelRequests, ChannelPcs, Channel!TypeOK
  <2>2. subject = "plan" => Plan!TypeOK
    BY PlanTypes, Zenon DEF SubOnly
  <2>3. subject = "usage" => Usage!TypeOK
    BY UsageTypes, Zenon DEF UsageOnly, BoundedOnly
  <2>4. subject = "question" => Question!TypeOK
    BY QuestionTypes, Zenon DEF OutcomeInv
  <2>5. subject = "website" => Website!TypeOK
    BY WebsiteTypes, Zenon DEF OutcomeInv
  <2>6. subject = "metric" => Metric!TypeOK
    BY MetricTypes, Zenon DEF MetricOnly
  <2>7. subject = "progress" => Progress!TypeOK
    BY ProgressTypes, Zenon DEF ProgressOnly
  <2>8. subject = "score" => Score!TypeOK
    BY ScoreTypes, Zenon DEF ScoreOnly
  <2>9. subject = "settings" => Settings!TypeOK
    BY SettingsTypes, Zenon DEF SettingsOnly
  <2>10. subject = "upload" => Upload!TypeOK
    BY UploadTypes, Zenon DEF UploadOnly
  <2>11. subject = "feature" => Feature!TypeOK
    BY Zenon DEF FeatureOnly, Feature!TypeOK
  <2>. QED
    BY <2>1, <2>2, <2>3, <2>4, <2>5, <2>6, <2>7, <2>8, <2>9, <2>10, <2>11, Zenon DEF TypeOK
<1>. QED
  BY <1>1, ChannelAlways, SubAlways, UsageAlways, BoundedAlways, OutcomeAlways, MetricAlways,
     ProgressAlways, ScoreAlways, SettingsAlways, UploadAlways, FeatureAlways, PTL
====
