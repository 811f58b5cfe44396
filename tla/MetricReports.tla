---- MODULE MetricReports ----
(***************************************************************************)
(* The daily metric snapshots and weekly reports of one location           *)
(* (app/jobs/metric_jobs.py, app/services/metrics_service.py).  The daily  *)
(* job carries the last snapshot forward, since fetching the day's numbers *)
(* from Google is not wired; real numbers are entered by hand, for any     *)
(* day.  On Mondays a job writes the report of the week that is over; a    *)
(* report can also be asked for by hand, at any time.                      *)
(*                                                                         *)
(* Days are numbered from a Monday.  Calls stand for every number of a     *)
(* snapshot.  The weekly snapshot, stored with its report, is left out.    *)
(***************************************************************************)
EXTENDS Integers, FiniteSets, FiniteSetsExt

CONSTANTS DaysPerWeek,    \* 7
          SnapshotLimit,  \* most snapshots a query returns: 30
          CallCounts,     \* calls of a snapshot entered by hand
          MaxDay,         \* bound: the last day
          MaxByHand       \* bound: snapshots and reports made by hand

\* What is assumed of the constants; the modules that instantiate this one state it.
MetricReportsAssumption ==
    /\ DaysPerWeek \in Nat \ {0} /\ SnapshotLimit \in Nat /\ SnapshotLimit >= DaysPerWeek
    /\ CallCounts \subseteq Nat
    /\ MaxDay \in Nat /\ MaxByHand \in Nat

VARIABLES
    today,
    ran,      \* jobs that have run today
    job,      \* the job under way: what it found and is about to store
    daily,    \* metric_snapshots rows of type daily, unique by day
    reports,  \* weekly_reports rows, unique by report_week
    warned,   \* days with a daily_snapshot_unavailable notification
    due,      \* history: weeks the weekly job found snapshots of
    stale,    \* history: reports whose days got a snapshot afterwards
    byHand    \* bound

vars == <<today, ran, job, daily, reports, warned, due, stale, byHand>>

Days == 0..MaxDay
NoSnapshot == [calls |-> -1, source |-> "none"]
NoReport == [calls |-> -1, delta |-> 0]
NoJob == [pc |-> "idle", calls |-> -1]

HasSnapshot(d) == d \in Days /\ daily[d] # NoSnapshot
HasReport(week) == reports[week] # NoReport
Monday(d) == d - (d % DaysPerWeek)
LastWeek == Monday(today) - DaysPerWeek

Init ==
    /\ today = 0
    /\ ran = {}
    /\ job = NoJob
    /\ daily = [d \in Days |-> NoSnapshot]
    /\ reports = [d \in Days |-> NoReport]
    /\ warned = {} /\ due = {} /\ stale = {}
    /\ byHand = 0

\* get_snapshots: the newest of the days from first to last
Snapshots(first, last) ==
    LET all == {d \in first..last : HasSnapshot(d)}
    IN  {d \in all : Cardinality({e \in all : e > d}) < SnapshotLimit}
\* _aggregate_snapshots
CallsOf(days) == FoldSet(LAMBDA d, sum : sum + daily[d].calls, 0, days)

\* get_dashboard of a day for a period that ends with it
Dashboard(day, period) ==
    LET current == CallsOf(Snapshots(day - period + 1, day))
        previous == CallsOf(Snapshots(day - 2 * period + 1, day - period))
    IN  [calls |-> current, delta |-> current - previous]

\* generate_weekly_report
Report(week) ==
    LET current == CallsOf(Snapshots(week, week + DaysPerWeek - 1))
        previous == CallsOf(Snapshots(week - DaysPerWeek, week - 1))
    IN  [calls |-> current, delta |-> current - previous]

\* A new row; the reports about its day, or that compare with it, are stale.
AddSnapshot(d, calls, source) ==
    /\ daily' = [daily EXCEPT ![d] = [calls |-> calls, source |-> source]]
    /\ stale' = stale \cup {week \in Days : HasReport(week) /\
                               d \in week - DaysPerWeek .. week + DaysPerWeek - 1}

-----------------------------------------------------------------------------
(* enqueue_daily_snapshots, process_daily_snapshot *)

StartDaily ==
    /\ job = NoJob
    /\ ran = {}
    /\ ran' = {"daily"}

SnapshotExists ==
    /\ StartDaily
    /\ HasSnapshot(today)
    /\ UNCHANGED <<today, job, daily, reports, warned, due, stale, byHand>>

CarryForward ==
    /\ StartDaily
    /\ ~HasSnapshot(today)
    /\ \E d \in Snapshots(0, today - 1) :
          /\ \A e \in Snapshots(0, today - 1) : e <= d
          /\ job' = [pc |-> "snapshot", calls |-> daily[d].calls]
    /\ UNCHANGED <<today, daily, reports, warned, due, stale, byHand>>

\* A notification since the week's Monday.
WarnedThisWeek == \E d \in warned : d >= Monday(today)

\* Nothing to carry: no snapshot, and one warning a week.
Unavailable ==
    /\ StartDaily
    /\ \A d \in 0..today : ~HasSnapshot(d)
    /\ warned' = IF WarnedThisWeek THEN warned ELSE warned \cup {today}
    /\ UNCHANGED <<today, job, daily, reports, due, stale, byHand>>

\* A row entered by hand meanwhile fails the insert, and the owner is told.
StoreSnapshot ==
    /\ job.pc = "snapshot"
    /\ job' = NoJob
    /\ IF HasSnapshot(today) THEN UNCHANGED <<daily, stale>>
       ELSE AddSnapshot(today, job.calls, "carried")
    /\ UNCHANGED <<today, ran, reports, warned, due, byHand>>

-----------------------------------------------------------------------------
(* enqueue_weekly_reports, process_weekly_report: Mondays, an hour later *)

\* Mutant: a report of a later week passes for this one.
NewestReportCovers(week) == \E k \in Days : HasReport(k) /\ k >= week

\* existing_reports[0].report_week == report_week
NewestReportIs(week) ==
    HasReport(week) /\ \A k \in Days : HasReport(k) => k <= week

StartWeekly ==
    /\ job = NoJob
    /\ today = Monday(today) /\ today > 0
    /\ "weekly" \notin ran
    /\ ran' = ran \cup {"weekly"}
    /\ LET found == Snapshots(LastWeek, LastWeek + DaysPerWeek - 1) # {}
       IN  /\ due' = IF found THEN due \cup {LastWeek} ELSE due
           /\ job' = IF found /\ ~NewestReportIs(LastWeek)
                     THEN [NoJob EXCEPT !.pc = "report"] ELSE NoJob
    /\ UNCHANGED <<today, daily, reports, warned, stale, byHand>>

\* A report that exists already fails the insert, and the owner is told so.
StoreReport ==
    /\ job.pc = "report"
    /\ job' = NoJob
    /\ reports' = IF HasReport(LastWeek) THEN reports
                  ELSE [reports EXCEPT ![LastWeek] = Report(LastWeek)]
    /\ UNCHANGED <<today, ran, daily, warned, due, stale, byHand>>

-----------------------------------------------------------------------------
(* POST /metrics/snapshots/generate, POST /reports/weekly/generate *)

EnterSnapshot(d, calls) ==
    /\ byHand < MaxByHand
    /\ ~HasSnapshot(d)
    /\ byHand' = byHand + 1
    /\ AddSnapshot(d, calls, "entered")
    /\ UNCHANGED <<today, ran, job, reports, warned, due>>

\* report_week may be any day.
AskForReport(week) ==
    /\ byHand < MaxByHand
    /\ ~HasReport(week)
    /\ byHand' = byHand + 1
    /\ reports' = [reports EXCEPT ![week] = Report(week)]
    /\ UNCHANGED <<today, ran, job, daily, warned, due, stale>>

\* The process may have been down: a job that has not run is not made up for.
NextDay ==
    /\ job = NoJob
    /\ today < MaxDay
    /\ today' = today + 1
    /\ ran' = {}
    /\ UNCHANGED <<job, daily, reports, warned, due, stale, byHand>>

Next ==
    \/ SnapshotExists \/ CarryForward \/ Unavailable \/ StoreSnapshot
    \/ StartWeekly \/ StoreReport
    \/ \E d \in Days, calls \in CallCounts : EnterSnapshot(d, calls)
    \/ \E week \in Days : AskForReport(week)
    \/ NextDay

Spec == Init /\ [][Next]_vars

-----------------------------------------------------------------------------
TypeOK ==
    /\ today \in Days
    /\ ran \subseteq {"daily", "weekly"}
    /\ job \in [pc : {"idle", "snapshot", "report"}, calls : Nat \cup {-1}]
    /\ \A d \in Days :
          /\ daily[d] = NoSnapshot \/ daily[d] \in [calls : Nat, source : {"carried", "entered"}]
          /\ reports[d] = NoReport \/ reports[d] \in [calls : Nat, delta : Int]
    /\ warned \subseteq Days /\ due \subseteq Days /\ stale \subseteq Days
    /\ byHand \in 0..MaxByHand

\* A report and the dashboard of its week's last day agree on the calls and on the
\* difference to the week before, whoever wrote it and when, unless a snapshot of
\* those days came after the report.
ReportsAddUp ==
    \A week \in Days :
        HasReport(week) /\ week \notin stale =>
            reports[week] = Dashboard(week + DaysPerWeek - 1, DaysPerWeek)

\* Once the weekly job has run for a week with snapshots, the week has its report,
\* whatever was asked for by hand before, of later weeks too, or in between.
WeekIsReported == job = NoJob => \A week \in due : HasReport(week)

\* "Persist a throttled warning": one in a calendar week, on whichever days the
\* job ran.
OneWarningPerWeek ==
    \A d, e \in warned : Monday(d) = Monday(e) => d = e
====
