---- MODULE Entitlements ----
(***************************************************************************)
(* What an account may use: the tables of plans and add-ons                *)
(* (app/models/subscription.py), the plan that counts                      *)
(* (account_entitlements.py), the question whether a feature is available  *)
(* and the list of the available ones (feature_access.py), the credits     *)
(* tier with its usage limits (credits.py).  The row changes as billing,   *)
(* dunning and the admin change it, each change at once: how they overlap  *)
(* and agree with Stripe is in Subscriptions and PlanChanges.              *)
(***************************************************************************)
EXTENDS Integers, FiniteSets

CONSTANT MaxChanges  \* bound

\* What is assumed of the constants; the modules that instantiate this one state it.
EntitlementsAssumption == MaxChanges \in Nat

VARIABLES
    row,     \* the subscriptions row: plan, whether it is_active, active_addons
    changes  \* bound

vars == <<row, changes>>

\* The managed plans on sale and the older ones still billed, each from the smallest up.
Managed == <<"free", "maps_starter", "calls_growth", "competitive_market">>
Older == <<"free", "starter", "pro", "premium", "agency", "enterprise">>
Listed(catalog) == {catalog[i] : i \in DOMAIN catalog}
Plans == Listed(Managed) \cup Listed(Older)

\* PLAN_PRICES, in dollars a month
PlanPrice ==
    [free |-> 0, maps_starter |-> 699, calls_growth |-> 999, competitive_market |-> 1499,
     starter |-> 99, pro |-> 149, premium |-> 249, agency |-> 499, enterprise |-> 999]

\* PLAN_FEATURES: what a plan has, without its two limits
MapsFeatures ==
    {"basic_dashboard", "google_posts", "review_collection", "ai_review_response",
     "weekly_report", "content_scheduler", "competitor_analysis"}
CallsFeatures ==
    MapsFeatures \cup {"qa_auto_response", "website_seo_basic", "missed_call_text_back",
                       "review_booster"}
MarketFeatures ==
    CallsFeatures \cup {"instagram_upload", "website_seo_full", "social_auto_responder",
                        "multi_location"}
StarterFeatures ==
    {"basic_dashboard", "google_posts", "review_collection", "ai_review_response",
     "weekly_report"}
\* Mutant: a feature of the smaller plan forgotten in the table of the next one.
ProFeaturesWithoutReports ==
    (StarterFeatures \ {"weekly_report"}) \cup
        {"instagram_upload", "content_scheduler", "qa_auto_response", "competitor_analysis",
         "website_seo_basic"}
ProFeatures ==
    StarterFeatures \cup {"instagram_upload", "content_scheduler", "qa_auto_response",
                          "competitor_analysis", "website_seo_basic"}
PremiumFeatures ==
    ProFeatures \cup {"website_seo_full", "missed_call_text_back", "review_booster",
                      "social_auto_responder"}
AgencyFeatures ==
    PremiumFeatures \cup {"video_generator", "white_label", "team_management", "multi_location"}
PlanFeatures ==
    [free |-> {"basic_dashboard"}, maps_starter |-> MapsFeatures,
     calls_growth |-> CallsFeatures, competitive_market |-> MarketFeatures,
     starter |-> StarterFeatures, pro |-> ProFeatures, premium |-> PremiumFeatures,
     agency |-> AgencyFeatures, enterprise |-> AgencyFeatures]
Features == UNION {PlanFeatures[p] : p \in Plans}

\* The limits of PLAN_FEATURES; -1 is no limit.
Locations ==
    [p \in Plans |-> CASE p \in {"agency", "enterprise"} -> -1
                       [] p = "competitive_market" -> 3 [] OTHER -> 1]
PostsPerMonth ==
    [free |-> 0, maps_starter |-> 30, calls_growth |-> 60, competitive_market |-> 120,
     starter |-> 30, pro |-> 60, premium |-> 120, agency |-> -1, enterprise |-> -1]

\* SUBSCRIPTION_PLAN_TO_CREDITS_TIER: free, starter, professional and agency are 1 to 4
CreditTier ==
    [free |-> 1, maps_starter |-> 2, calls_growth |-> 3, competitive_market |-> 4,
     starter |-> 2, pro |-> 3, premium |-> 3, agency |-> 4, enterprise |-> 4]
\* PLAN_CREDITS and USAGE_COOLDOWNS, tier by tier
MonthlyCredits == <<0, 100, 300, 1000>>
DailyUses ==
    [sms |-> <<0, 50, 200, 1000>>, ai_content |-> <<0, 20, 50, 200>>,
     ai_image |-> <<0, 15, 50, 200>>, ai_response |-> <<0, 50, 200, 1000>>,
     api_calls |-> <<1000, 5000, 20000, 100000>>]
MonthlyUses ==
    [sms |-> <<0, 500, 2000, 10000>>, ai_content |-> <<0, 200, 500, 2000>>,
     ai_image |-> <<0, 150, 500, 2000>>, ai_response |-> <<0, 500, 2000, 10000>>,
     api_calls |-> <<10000, 50000, 200000, 1000000>>]
Cooldown ==
    [sms |-> <<60, 10, 5, 2>>, ai_content |-> <<30, 10, 5, 2>>, ai_image |-> <<60, 30, 15, 5>>,
     ai_response |-> <<10, 5, 2, 1>>, api_calls |-> <<0, 0, 0, 0>>]
\* LEGACY_UNMIGRATED_USAGE_LIMITS, for accounts without a row
LegacyDailyUses ==
    [sms |-> 10, ai_content |-> 5, ai_image |-> 3, ai_response |-> 10, api_calls |-> 1000]
UsageTypes == DOMAIN DailyUses

\* The add-ons are named for the features they unlock, all but one.
Addons == {"missed_call_text_back", "review_booster", "website_seo",
           "social_auto_responder", "video_generator"}
FeatureOf(addon) == IF addon = "website_seo" THEN "website_seo_full" ELSE addon
AddonFeatures(addons) == {FeatureOf(a) : a \in addons}

-----------------------------------------------------------------------------
(* The row, and what is decided on it *)

\* Accounts from before billing have no row.
Legacy == [plan |-> "none", active |-> FALSE, addons |-> {}]
Row == {Legacy} \cup [plan : Plans, active : BOOLEAN, addons : SUBSET Addons]

\* resolve_account_entitlement
EffectivePlan(r) ==
    IF r = Legacy THEN "premium" ELSE IF r.active THEN r.plan ELSE "free"

\* check_feature_access, has_feature
HasAccess(r, feature) ==
    \/ feature \in PlanFeatures[EffectivePlan(r)]
    \/ r.active /\ \E a \in r.addons : FeatureOf(a) = feature
\* get_account_features, get_features
AccountFeatures(r) ==
    IF r.active THEN PlanFeatures[r.plan] \cup AddonFeatures(r.addons)
    ELSE PlanFeatures[EffectivePlan(r)]

\* get_upgrade_options: the add-ons offered
OfferedAddons(r) ==
    {a \in Addons \ r.addons : FeatureOf(a) \notin PlanFeatures[EffectivePlan(r)]}

\* _effective_usage_limits, without the account's own overrides
DailyLimit(r, type) ==
    IF r = Legacy THEN LegacyDailyUses[type] ELSE DailyUses[type][CreditTier[EffectivePlan(r)]]

Init == row \in {Legacy, [plan |-> "free", active |-> TRUE, addons |-> {}]} /\ changes = 0

Change(new) ==
    /\ changes < MaxChanges
    /\ changes' = changes + 1
    /\ row' = new

\* change_subscription: the plan with the add-ons asked for
ChangePlan(p, addons) ==
    row # Legacy /\ Change([row EXCEPT !.plan = p, !.addons = addons])
\* _set_account_plan without Stripe: a missing row is made first
SetPlan(p) ==
    Change(IF row = Legacy THEN [plan |-> p, active |-> TRUE, addons |-> {}]
           ELSE [row EXCEPT !.plan = p])
\* external to these tables: access_state and status, by dunning and Stripe's events
SetActive(active) == row # Legacy /\ Change([row EXCEPT !.active = active])

Next ==
    \/ \E p \in Plans, addons \in SUBSET Addons : ChangePlan(p, addons)
    \/ \E p \in Plans : SetPlan(p)
    \/ \E active \in BOOLEAN : SetActive(active)
Spec == Init /\ [][Next]_vars

-----------------------------------------------------------------------------
TypeOK == row \in Row /\ changes \in 0..MaxChanges

\* A larger limit, where -1 is none.
AtMost(limit, other) == other = -1 \/ (limit # -1 /\ limit <= other)
\* From a plan of a catalog to the same or a later one of it.
Up(p, q) ==
    \E catalog \in {Managed, Older} : \E i, j \in DOMAIN catalog :
        i <= j /\ catalog[i] = p /\ catalog[j] = q

\* The question whether a feature is available and the list of the available ones agree
\* on every row, and each add-on that is offered would unlock something.
AnswersAgree(r) ==
    /\ \A f \in Features : HasAccess(r, f) <=> f \in AccountFeatures(r)
    /\ \A a \in OfferedAddons(r) : FeatureOf(a) \notin AccountFeatures(r)

NothingLost(r, s) ==
    LET p == EffectivePlan(r) q == EffectivePlan(s) IN
    /\ AccountFeatures(r) \subseteq AccountFeatures(s)
    /\ AtMost(Locations[p], Locations[q]) /\ AtMost(PostsPerMonth[p], PostsPerMonth[q])
    /\ MonthlyCredits[CreditTier[p]] <= MonthlyCredits[CreditTier[q]]
    /\ \A t \in UsageTypes :
           /\ DailyLimit(r, t) <= DailyLimit(s, t)
           /\ MonthlyUses[t][CreditTier[p]] <= MonthlyUses[t][CreditTier[q]]
           /\ Cooldown[t][CreditTier[p]] >= Cooldown[t][CreditTier[q]]

\* Whatever plans, add-ons and suspensions came before, a customer who moves up in a
\* catalog, pays as much or more, and keeps the add-ons loses no feature and gets no smaller
\* limit; and the answers about the new row agree.
UpgradeOnlyAdds ==
    /\ AnswersAgree(row')
    /\ row.active /\ row'.active /\ Up(row.plan, row'.plan) /\ row.addons \subseteq row'.addons
           => PlanPrice[row.plan] <= PlanPrice[row'.plan] /\ NothingLost(row, row')
UpgradesOnlyAdd == [][UpgradeOnlyAdds]_vars
====
