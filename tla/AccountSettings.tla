---- MODULE AccountSettings ----
(***************************************************************************)
(* The settings column of one account: the agency's team, its white label  *)
(* and report schedule (app/services/agency.py), notification preferences  *)
(* and presets (app/routers/notifications.py), and the admin's limits for  *)
(* the account (app/services/credits.py).  All are keys of one JSON value: *)
(* a request loads the value, changes its own key in a copy, and stores    *)
(* the whole copy, unless it is equal to what was loaded.                  *)
(*                                                                         *)
(* A limit is checked against the plan when it is stored and every time    *)
(* usage is previewed, charged or shown; the plan may change in between.   *)
(***************************************************************************)
EXTENDS Integers, FiniteSets, FiniteSetsExt

CONSTANTS Workers, Emails, Roles,
          Keys, Values,      \* the keys each with one writer, and what they may hold
          Plans, PlanDaily, PlanMonthly,  \* the limits of the plans
          Limits,            \* limits the admin sets
          MaxRequests        \* bound

NoLimit == -1
\* What is assumed of the constants; the modules that instantiate this one state it.
AccountSettingsAssumption ==
    /\ PlanDaily \in [Plans -> Nat] /\ PlanMonthly \in [Plans -> Nat]
    /\ \A p \in Plans : PlanDaily[p] <= PlanMonthly[p]
    /\ Limits \subseteq Nat
    /\ MaxRequests \in Nat

VARIABLES
    settings,    \* accounts.settings
    plan,        \* the account's entitlement
    doing,       \* requests in progress: what each is to store, and what it loaded
    asked,       \* history: whom, and which values, the requests answered leave in place
    checked,     \* history: the plan the limits were last checked against
    overlapped,  \* history: two requests were in progress at once
    requests     \* bound

vars == <<settings, plan, doing, asked, checked, overlapped, requests>>

\* A member has the token of its invitation for a name, also once it is deleted.
Members == [token : 1..MaxRequests, email : Emails, role : Roles, status : {"pending", "active"}]
Overrides == [daily : Limits \cup {NoLimit}, monthly : Limits \cup {NoLimit}]
NoOverrides == [daily |-> NoLimit, monthly |-> NoLimit]
Idle == [pc |-> "idle"]

Init ==
    /\ settings = [team |-> {}, other |-> [k \in Keys |-> "unset"], limits |-> NoOverrides]
    /\ plan \in Plans
    /\ doing = [w \in Workers |-> Idle]
    /\ asked = [team |-> {}, other |-> [k \in Keys |-> "unset"], limits |-> NoOverrides]
    /\ checked = plan
    /\ overlapped = FALSE
    /\ requests = 0

Or(limit, default) == IF limit = NoLimit THEN default ELSE limit
\* _apply_usage_limit_overrides raises no ValueError
Usable(limits, p) == Or(limits.daily, PlanDaily[p]) <= Or(limits.monthly, PlanMonthly[p])

-----------------------------------------------------------------------------
(* What a request does to the settings it has loaded. *)

Named(s, email) == {m \in s.team : m.email = email}
First(members) == CHOOSE m \in members : \A n \in members : m.token <= n.token
Replace(s, old, new) == [s EXCEPT !.team = (@ \ old) \cup new]

\* invite_team_member: whoever has been invited before is invited again
Invite(s, op) ==
    Replace(s, {}, {[token |-> op.token, email |-> op.email, role |-> op.role,
                     status |-> "pending"]})
\* accept_team_invite: a used or removed token is not found
Accept(s, op) ==
    LET found == {m \in s.team : m.token = op.token /\ m.status = "pending"}
    IN  Replace(s, found, {[m EXCEPT !.status = "active"] : m \in found})
\* update_team_member_role: the first of that address
SetRole(s, op) ==
    IF Named(s, op.email) = {} THEN s
    ELSE LET m == First(Named(s, op.email)) IN Replace(s, {m}, {[m EXCEPT !.role = op.role]})

\* Mutant: the first of that address only.
RemoveFirst(s, op) ==
    IF Named(s, op.email) = {} THEN s ELSE Replace(s, {First(Named(s, op.email))}, {})

\* remove_team_member
Remove(s, op) == Replace(s, Named(s, op.email), {})
\* white label, report schedule, preferences, presets
Put(s, op) == [s EXCEPT !.other[op.key] = op.value]
\* update_account_usage_limit_overrides
Override(s, op) == [s EXCEPT !.limits = op.limits]

Apply(s, op) ==
    CASE op.pc = "invite" -> Invite(s, op)
      [] op.pc = "accept" -> Accept(s, op)
      [] op.pc = "role" -> SetRole(s, op)
      [] op.pc = "remove" -> Remove(s, op)
      [] op.pc = "put" -> Put(s, op)
      [] op.pc = "override" -> Override(s, op)

-----------------------------------------------------------------------------
Load(w, op) ==
    /\ doing[w] = Idle
    /\ requests < MaxRequests
    /\ requests' = requests + 1
    /\ doing' = [doing EXCEPT ![w] = [pc |-> op.pc, op |-> op, seen |-> settings]]
    /\ overlapped' = (overlapped \/ \E v \in Workers : doing[v] # Idle)
    /\ UNCHANGED <<settings, plan, asked, checked>>

AskInvite(w, email, role) ==
    Load(w, [pc |-> "invite", token |-> requests + 1, email |-> email, role |-> role])
AskAccept(w, token) ==
    /\ token <= requests
    /\ Load(w, [pc |-> "accept", token |-> token])
AskRole(w, email, role) == Load(w, [pc |-> "role", email |-> email, role |-> role])
AskRemove(w, email) == Load(w, [pc |-> "remove", email |-> email])
AskPut(w, key, value) == Load(w, [pc |-> "put", key |-> key, value |-> value])

\* Limits that cannot be used are refused (400); limits stored before that cannot be
\* used any more fail the request before it starts (500).
AskOverride(w, limits) ==
    /\ Usable(settings.limits, plan) /\ Usable(limits, plan)
    /\ Load(w, [pc |-> "override", limits |-> limits, plan |-> plan])

Asked(op) ==
    CASE op.pc = "invite" -> [asked EXCEPT !.team = @ \cup {op.email}]
      [] op.pc = "remove" -> [asked EXCEPT !.team = @ \ {op.email}]
      [] op.pc = "put" -> [asked EXCEPT !.other[op.key] = op.value]
      [] op.pc = "override" -> [asked EXCEPT !.limits = op.limits]
      [] OTHER -> asked

Commit(w) ==
    LET op == doing[w].op
        seen == doing[w].seen
    IN
    /\ doing[w] # Idle
    /\ doing' = [doing EXCEPT ![w] = Idle]
    /\ settings' = IF Apply(seen, op) # seen THEN Apply(seen, op) ELSE settings
    /\ asked' = Asked(op)
    /\ checked' = IF op.pc = "override" THEN op.plan ELSE checked
    /\ UNCHANGED <<plan, overlapped, requests>>

\* A billing event or the admin changes the subscription.
ChangePlan(p) ==
    /\ p # plan
    /\ plan' = p
    /\ UNCHANGED <<settings, doing, asked, checked, overlapped, requests>>

Next ==
    \/ \E w \in Workers :
          \/ \E email \in Emails, role \in Roles :
                AskInvite(w, email, role) \/ AskRole(w, email, role)
          \/ \E token \in 1..MaxRequests : AskAccept(w, token)
          \/ \E email \in Emails : AskRemove(w, email)
          \/ \E key \in Keys, value \in Values : AskPut(w, key, value)
          \/ \E limits \in Overrides : AskOverride(w, limits)
          \/ Commit(w)
    \/ \E p \in Plans : ChangePlan(p)

Spec == Init /\ [][Next]_vars

-----------------------------------------------------------------------------
TypeOK ==
    /\ settings.team \subseteq Members
    /\ settings.other \in [Keys -> Values \cup {"unset"}]
    /\ settings.limits \in Overrides
    /\ plan \in Plans /\ checked \in Plans
    /\ requests \in 0..MaxRequests

\* Unless two requests overlapped, the column holds what its many writers left in it:
\* the people invited and not removed since, each key's last value, and the limits
\* the admin set last, which can be used unless the plan has changed since.
SettingsAreKept ==
    ~overlapped =>
        /\ {m.email : m \in settings.team} = asked.team
        /\ settings.other = asked.other
        /\ settings.limits = asked.limits
        /\ plan = checked => Usable(settings.limits, plan)
====
