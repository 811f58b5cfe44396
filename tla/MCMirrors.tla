---- MODULE MCMirrors ----
(***************************************************************************)
(* The components whose rows must agree with what happened elsewhere, for  *)
(* TLC: channel rows with the consents given (Channel), the subscription's *)
(* row and add-ons with Stripe (Plan), usage records with the work done    *)
(* (Usage), question rows with Google (Question), reports with snapshots   *)
(* (Metric), the checklist with the steps taken (Progress), an audit's     *)
(* scores with the business (Score), an account's settings with what was   *)
(* asked (Settings), references with the uploads (Upload), drafts with the *)
(* website (Website), features with the plan paid for (Feature).  They     *)
(* share no state, so each behaviour is one component's: v1, v2, ... are   *)
(* the variables of that component, in the order of its module.            *)
(***************************************************************************)
EXTENDS Integers, TLC

CONSTANTS Workers, MaxRequests, MaxFaults,
          Channels, NoChannel, MaxConsents,
          BilledAddons, MinPlan, ItemsByAttribute, MaxChanges, MaxPeriods,
          Metered, Cost, Daily, Monthly, Cooling, Allocated, Granted, Counts, TicksPerDay,
          MaxClock, MaxJobs, MaxAllocations,
          Answers, NoAnswer, MaxEdits,
          DaysPerWeek, SnapshotLimit, CallCounts, MaxDay, MaxByHand,
          MaxSteps,
          ReviewCounts, Ratings, PhotoCounts,
          Emails, Roles, Keys, Values, Limits, MaxWrites,
          Assets, PostUrls, Attachments, Files, BatchLimit, MaxRuns, MaxUrlEdits,
          Drafts, NoDraft, MaxPublishing

VARIABLES
    subject,  \* whose behaviour this is
    v1, v2, v3, v4, v5, v6, v7, v8, v9, v10, v11, v12, v13, v14  \* its variables

vars == <<subject, v1, v2, v3, v4, v5, v6, v7, v8, v9, v10, v11, v12, v13, v14>>

\* The code's four steps; two plans, one without texts; no, few and many competitors.
FourSteps == <<"run_audit", "view_insights", "generate_content", "generate_social_card">>
TwoPlans == {"free", "paid"}
DailyLimit == [p \in TwoPlans |-> IF p = "free" THEN 0 ELSE 1]
MonthlyLimit == [p \in TwoPlans |-> IF p = "free" THEN 0 ELSE 2]
ThreeMarkets == {[reviews |-> 0, rating |-> 0], [reviews |-> 20, rating |-> 40],
                 [reviews |-> 90, rating |-> 45]}

Channel == INSTANCE Connections WITH
    type <- v1, rows <- v2, doing <- v3, consents <- v4, current <- v5, refreshed <- v6,
    overlapped <- v7, connecting <- v8, requests <- v9, failing <- v10, met <- v11
Plan == INSTANCE PlanChanges WITH
    Addons <- BilledAddons, MaxRequests <- MaxChanges,
    row <- v1, attached <- v2, stripe <- v3, pool <- v4, doing <- v5, overlapped <- v6,
    unstored <- v7, lost <- v8, requests <- v9, periods <- v10, faults <- v11
Usage == INSTANCE UsageMetering WITH
    UsageTypes <- Metered, MonthlyCredits <- Allocated, Bonuses <- Granted,
    CreditCosts <- [t \in Metered |-> Cost], DailyLimit <- [t \in Metered |-> Daily],
    MonthlyLimit <- [t \in Metered |-> Monthly], Cooldown <- [t \in Metered |-> Cooling],
    clock <- v1, row <- v2, lastAllocation <- v3, records <- v4, pc <- v5, job <- v6,
    seen <- v7, done <- v8, free <- v9, refused <- v10, overlapped <- v11, slid <- v12,
    jobs <- v13, allocations <- v14
Question == INSTANCE QuestionAnswers WITH
    row <- v1, google <- v2, doing <- v3, drifted <- v4, requests <- v5, edits <- v6,
    faults <- v7
Metric == INSTANCE MetricReports WITH
    today <- v1, ran <- v2, job <- v3, daily <- v4, reports <- v5, warned <- v6, due <- v7,
    stale <- v8, byHand <- v9
Progress == INSTANCE OnboardingProgress WITH
    Steps <- FourSteps, MaxAnswers <- MaxSteps,
    row <- v1, doing <- v2, answered <- v3, overlapped <- v4, answers <- v5
Score == INSTANCE AuditScores WITH
    Markets <- ThreeMarkets,
    business <- v1, market <- v2
Settings == INSTANCE AccountSettings WITH
    Plans <- TwoPlans, PlanDaily <- DailyLimit, PlanMonthly <- MonthlyLimit,
    MaxRequests <- MaxWrites,
    settings <- v1, plan <- v2, doing <- v3, asked <- v4, checked <- v5, overlapped <- v6,
    requests <- v7
Upload == INSTANCE UploadMigration WITH
    Posts <- PostUrls, Limit <- BatchLimit, MaxEdits <- MaxUrlEdits,
    url <- v1, disk <- v2, cloud <- v3, run <- v4, next <- v5, cleanup <- v6, lost <- v7,
    sinceList <- v8, edited <- v9, done <- v10, paged <- v11, runs <- v12,
    edits <- v13, faults <- v14
Website == INSTANCE WebsiteDrafts WITH
    MaxRequests <- MaxPublishing,
    rows <- v1, connected <- v2, latest <- v3, doing <- v4, parted <- v5, mixed <- v6,
    unsure <- v7, tried <- v8, outcome <- v9, requests <- v10, faults <- v11
Feature == INSTANCE Entitlements WITH
    row <- v1, changes <- v2

ASSUME MirrorsAssumption ==
    /\ Channel!ConnectionsAssumption
    /\ Plan!PlanChangesAssumption
    /\ Usage!MeteringAssumption
    /\ Question!QuestionAnswersAssumption
    /\ Metric!MetricReportsAssumption
    /\ Progress!OnboardingProgressAssumption
    /\ Score!AuditScoresAssumption
    /\ Settings!AccountSettingsAssumption
    /\ Upload!UploadMigrationAssumption
    /\ Website!WebsiteDraftsAssumption
    /\ Feature!EntitlementsAssumption

\* The variables a component does not have.
Unused12 == v12 = 0 /\ v13 = 0 /\ v14 = 0
Unused10 == v10 = 0 /\ v11 = 0 /\ Unused12
Unused8 == v8 = 0 /\ v9 = 0 /\ Unused10
Unused6 == v6 = 0 /\ v7 = 0 /\ Unused8
Unused3 == v3 = 0 /\ v4 = 0 /\ v5 = 0 /\ Unused6

Init ==
    \/ subject = "channel" /\ Channel!Init /\ Unused12
    \/ subject = "plan" /\ Plan!Init /\ Unused12
    \/ subject = "usage" /\ Usage!Init
    \/ subject = "question" /\ Question!Init /\ Unused8
    \/ subject = "metric" /\ Metric!Init /\ Unused10
    \/ subject = "progress" /\ Progress!Init /\ Unused6
    \/ subject = "score" /\ Score!Init /\ Unused3
    \/ subject = "settings" /\ Settings!Init /\ Unused8
    \/ subject = "upload" /\ Upload!Init
    \/ subject = "website" /\ Website!Init /\ Unused12
    \/ subject = "feature" /\ Feature!Init /\ Unused3

OnlyChannel == subject = "channel" /\ UNCHANGED <<subject, v12, v13, v14>>
OnlyPlan == subject = "plan" /\ UNCHANGED <<subject, v12, v13, v14>>
OnlyUsage == subject = "usage" /\ UNCHANGED <<subject>>
OnlyQuestion == subject = "question" /\ UNCHANGED <<subject, v8, v9, v10, v11, v12, v13, v14>>
OnlyMetric == subject = "metric" /\ UNCHANGED <<subject, v10, v11, v12, v13, v14>>
OnlyProgress == /\ subject = "progress"
                /\ UNCHANGED <<subject, v6, v7, v8, v9, v10, v11, v12, v13, v14>>
OnlyScore ==
    subject = "score" /\ UNCHANGED <<subject, v3, v4, v5, v6, v7, v8, v9, v10, v11, v12, v13, v14>>
OnlySettings == subject = "settings" /\ UNCHANGED <<subject, v8, v9, v10, v11, v12, v13, v14>>
OnlyUpload == subject = "upload" /\ UNCHANGED <<subject>>
OnlyWebsite == subject = "website" /\ UNCHANGED <<subject, v12, v13, v14>>
OnlyFeature ==
    /\ subject = "feature"
    /\ UNCHANGED <<subject, v3, v4, v5, v6, v7, v8, v9, v10, v11, v12, v13, v14>>

NextChannel == \E w \in Workers :
    \/ OnlyChannel /\ Channel!Exchange(w)
    \/ OnlyChannel /\ Channel!Find(w)
    \/ OnlyChannel /\ Channel!Reconnect(w)
    \/ OnlyChannel /\ Channel!Connect(w)
    \/ \E c \in Channels : OnlyChannel /\ Channel!Disconnect(w, c)
    \/ OnlyChannel /\ Channel!CommitDisconnection(w)
    \/ \E c \in Channels : OnlyChannel /\ Channel!Refresh(w, c)
    \/ OnlyChannel /\ Channel!RefreshAnswered(w)
    \/ OnlyChannel /\ Channel!CommitRefresh(w)
    \/ OnlyChannel /\ Channel!MarkRefreshFailure(w)
    \/ \E c \in Channels : OnlyChannel /\ Channel!Publish(w, c)
    \/ OnlyChannel /\ Channel!PlatformAnswers(w)
    \/ OnlyChannel /\ Channel!StorePublished(w)
    \/ OnlyChannel /\ Channel!StoreFailure(w)

NextPlan ==
    \/ \E w \in Workers :
          \/ OnlyPlan /\ Plan!Cancel(w)
          \/ OnlyPlan /\ Plan!CancelNow(w)
          \/ OnlyPlan /\ Plan!Resume(w)
          \/ \E plan \in Plan!Plans, addons \in SUBSET BilledAddons :
                OnlyPlan /\ Plan!ChangePlan(w, plan, addons)
          \/ \E a \in BilledAddons : OnlyPlan /\ Plan!Attach(w, a)
          \/ \E a \in BilledAddons, now \in BOOLEAN : OnlyPlan /\ Plan!Detach(w, a, now)
          \/ OnlyPlan /\ Plan!CallStripe(w)
          \/ OnlyPlan /\ Plan!StripeRefuses(w)
          \/ OnlyPlan /\ Plan!Commit(w)
          \/ OnlyPlan /\ Plan!Deliver(w)
          \/ OnlyPlan /\ Plan!Handle(w)
          \/ OnlyPlan /\ Plan!Crash(w)
    \/ OnlyPlan /\ Plan!Ends
    \/ OnlyPlan /\ Plan!Renew

NextUsage ==
    \/ \E w \in Workers :
          \/ \E t \in Metered, n \in Counts : OnlyUsage /\ Usage!Preview(w, t, n)
          \/ OnlyUsage /\ Usage!Work(w)
          \/ OnlyUsage /\ Usage!ReadUsage(w)
          \/ OnlyUsage /\ Usage!CommitFree(w)
          \/ OnlyUsage /\ Usage!CommitCharge(w)
          \/ OnlyUsage /\ Usage!Refuse(w)
    \/ OnlyUsage /\ Usage!ProcessPayment
    \/ OnlyUsage /\ Usage!Tick

NextQuestion ==
    \/ \E w \in Workers :
          \/ OnlyQuestion /\ Question!Sync(w)
          \/ OnlyQuestion /\ Question!Upsert(w)
          \/ OnlyQuestion /\ Question!CommitSync(w)
          \/ OnlyQuestion /\ Question!Generate(w)
          \/ OnlyQuestion /\ Question!CommitUsage(w)
          \/ OnlyQuestion /\ Question!CommitDraft(w)
          \/ \E answer \in Answers : OnlyQuestion /\ Question!PostAnswer(w, answer)
          \/ OnlyQuestion /\ Question!GoogleAccepts(w)
          \/ OnlyQuestion /\ Question!GoogleRefuses(w)
          \/ OnlyQuestion /\ Question!ResponseLost(w)
          \/ OnlyQuestion /\ Question!CommitPosted(w)
          \/ OnlyQuestion /\ Question!CommitFailed(w)
          \/ OnlyQuestion /\ Question!Crash(w)
    \/ OnlyQuestion /\ Question!EditOnGoogle

NextMetric ==
    \/ OnlyMetric /\ Metric!SnapshotExists
    \/ OnlyMetric /\ Metric!CarryForward
    \/ OnlyMetric /\ Metric!Unavailable
    \/ OnlyMetric /\ Metric!StoreSnapshot
    \/ OnlyMetric /\ Metric!StartWeekly
    \/ OnlyMetric /\ Metric!StoreReport
    \/ \E d \in Metric!Days, calls \in CallCounts : OnlyMetric /\ Metric!EnterSnapshot(d, calls)
    \/ \E week \in Metric!Days : OnlyMetric /\ Metric!AskForReport(week)
    \/ OnlyMetric /\ Metric!NextDay

NextProgress == \E w \in Workers :
    \/ \E step \in Progress!AllSteps : OnlyProgress /\ Progress!Load(w, step)
    \/ OnlyProgress /\ Progress!AlreadyCompleted(w)
    \/ OnlyProgress /\ Progress!Complete(w)
    \/ OnlyProgress /\ Progress!InsertFails(w)

NextScore ==
    \/ OnlyScore /\ Score!EarnReviews
    \/ OnlyScore /\ Score!AddPhotos
    \/ OnlyScore /\ Score!FillIn

NextSettings ==
    \/ \E w \in Workers :
          \/ \E email \in Emails, role \in Roles :
                \/ OnlySettings /\ Settings!AskInvite(w, email, role)
                \/ OnlySettings /\ Settings!AskRole(w, email, role)
          \/ \E n \in 1..MaxWrites : OnlySettings /\ Settings!AskAccept(w, n)
          \/ \E email \in Emails : OnlySettings /\ Settings!AskRemove(w, email)
          \/ \E key \in Keys, value \in Values : OnlySettings /\ Settings!AskPut(w, key, value)
          \/ \E limits \in Settings!Overrides : OnlySettings /\ Settings!AskOverride(w, limits)
          \/ OnlySettings /\ Settings!Commit(w)
    \/ \E p \in TwoPlans : OnlySettings /\ Settings!ChangePlan(p)

NextUpload ==
    \/ \E s \in Upload!Sources : OnlyUpload /\ Upload!StartRun(s, 0)
    \/ \E s \in Upload!Sources : OnlyUpload /\ Upload!StartNext(s)
    \/ OnlyUpload /\ Upload!Copy
    \/ OnlyUpload /\ Upload!Missing
    \/ OnlyUpload /\ Upload!CopyFails
    \/ OnlyUpload /\ Upload!StoreReference
    \/ OnlyUpload /\ Upload!Finish
    \/ OnlyUpload /\ Upload!Crash
    \/ OnlyUpload /\ Upload!DeleteListed
    \/ \E p \in PostUrls, u \in Upload!Urls : OnlyUpload /\ Upload!SetPost(p, u)
    \/ \E a \in Assets : OnlyUpload /\ Upload!DeleteAsset(a)

NextWebsite == \E w \in Workers :
    \/ \E d \in Drafts, decision \in Website!Decisions :
          OnlyWebsite /\ Website!Decide(w, d, decision)
    \/ OnlyWebsite /\ Website!CommitDecision(w)
    \/ \E d \in Drafts \cup {NoDraft} : OnlyWebsite /\ Website!Publish(w, d)
    \/ OnlyWebsite /\ Website!WebsiteAccepts(w)
    \/ OnlyWebsite /\ Website!WebsiteRefuses(w)
    \/ OnlyWebsite /\ Website!AnswerLost(w)
    \/ OnlyWebsite /\ Website!StoreOutcome(w)
    \/ OnlyWebsite /\ Website!Crash(w)

NextFeature ==
    \/ \E p \in Feature!Plans, addons \in SUBSET Feature!Addons :
          OnlyFeature /\ Feature!ChangePlan(p, addons)
    \/ \E p \in Feature!Plans : OnlyFeature /\ Feature!SetPlan(p)
    \/ \E active \in BOOLEAN : OnlyFeature /\ Feature!SetActive(active)

Next ==
    \/ NextChannel \/ NextPlan \/ NextUsage \/ NextQuestion \/ NextMetric
    \/ NextProgress \/ NextScore \/ NextSettings \/ NextUpload \/ NextWebsite \/ NextFeature
Spec == Init /\ [][Next]_vars

Symmetry == Permutations(Workers)

-----------------------------------------------------------------------------
\* The components' types and properties: each of its own behaviours.
TypeOK ==
    /\ subject = "channel" => Channel!TypeOK
    /\ subject = "plan" => Plan!TypeOK
    /\ subject = "usage" => Usage!TypeOK
    /\ subject = "question" => Question!TypeOK
    /\ subject = "metric" => Metric!TypeOK
    /\ subject = "progress" => Progress!TypeOK
    /\ subject = "score" => Score!TypeOK
    /\ subject = "settings" => Settings!TypeOK
    /\ subject = "upload" => Upload!TypeOK
    /\ subject = "website" => Website!TypeOK
    /\ subject = "feature" => Feature!TypeOK

\* A channel row has the credentials of the last consent or none, and is the only one of
\* its type.  Connected has credentials and disconnected none; between requests, a row
\* says connected only if its last refresh or publication did not fail since that
\* consent, and expired or error only if it did.  Except after the named overlaps.
ChannelsAreCurrent ==
    subject = "channel" => /\ Channel!CredentialsAreCurrent
                           /\ Channel!StatusMatchesCredentials
                           /\ Channel!StatusTellsLastAnswer
                           /\ Channel!OneChannelPerType

\* The row and its subscription at Stripe agree when nothing is under way that
\* could part them: on what was cancelled, on the plan, and on what is billed.
SubscriptionAgrees ==
    subject = "plan" => /\ Plan!CancellationAgrees
                        /\ Plan!PlanAgrees
                        /\ Plan!BilledItemsAreAttached

\* The usage records count the work done: all of it when requests do not overlap,
\* and never more than it.
UsageIsCounted == subject = "usage" => Usage!WorkIsRecorded /\ Usage!NeverOvercounted

\* What a row says the other side has is there, as decided and published: the answer
\* on Google, the draft on the website.
PostedIsLive ==
    /\ subject = "question" => Question!PostedIsLive
    /\ subject = "website" => Website!OutcomesAreTold /\ Website!DecisionsAreWhole

\* Every week that ends gets its report, whose numbers add up, and at most one warning
\* that a day's numbers are not available.
WeekIsReported ==
    subject = "metric" => /\ Metric!WeekIsReported
                          /\ Metric!ReportsAddUp
                          /\ Metric!OneWarningPerWeek

\* No reference is left without its file, and the last page leaves none behind.
MigrationIsSafe ==
    subject = "upload" => Upload!ReferencesStayReachable /\ Upload!LastBatchIsLast

\* The components' other properties, under their own names.
LimitsHoldOneByOne == subject = "usage" => Usage!LimitsHoldOneByOne
ProgressIsEarned == subject = "progress" => Progress!ProgressIsEarned
UpgradesOnlyAdd == [][subject = "feature" => Feature!UpgradeOnlyAdds]_vars
ImprovingPays == [][subject = "score" => Score!ImprovementPays]_vars
SettingsAreKept == subject = "settings" => Settings!SettingsAreKept
====
