---- MODULE MirrorsOutsideProofs ----
(***************************************************************************)
(* Proofs about the components of MCMirrors whose rows mirror what is      *)
(* outside: platform statistics, connected channels, answers and websites. *)
(***************************************************************************)
EXTENDS MirrorsProofs

-----------------------------------------------------------------------------
(* Snapshots and reports. *)

\* The types, with any number of calls.
MetricJobs == [pc : {"idle", "snapshot", "report"}, calls : Nat \cup {-1}]
SnapshotRows == {Metric!NoSnapshot} \cup [calls : Nat, source : {"carried", "entered"}]
ReportRows == {Metric!NoReport} \cup [calls : Nat, delta : Int]

MetricTyped ==
    /\ v1 \in Metric!Days /\ v2 \subseteq {"daily", "weekly"} /\ v3 \in MetricJobs
    /\ v4 \in [Metric!Days -> SnapshotRows] /\ v5 \in [Metric!Days -> ReportRows]
    /\ v6 \subseteq Metric!Days /\ v7 \subseteq Metric!Days /\ v8 \subseteq Metric!Days
    /\ v9 \in 0..MaxByHand

\* The job under way has calls to store, or a week that is over to report on.
JobFits == /\ v3.pc = "snapshot" => v3.calls \in Nat
           /\ v3.pc = "report" => Metric!LastWeek \in Metric!Days

\* A week that was due has its report, or is the one being reported on.
WeeksReported == \A week \in v7 :
    Metric!HasReport(week) \/ (v3.pc = "report" /\ week = Metric!LastWeek)

\* A report none of whose days got a snapshot afterwards is what it would be now.
ReportsFit == \A week \in Metric!Days :
    Metric!HasReport(week) /\ week \notin v8 => v5[week] = Metric!Report(week)

\* The inductive invariant of snapshots and reports.
MetricInv ==
    /\ MetricTyped
    /\ JobFits
    /\ WeeksReported
    /\ ReportsFit
    /\ Metric!OneWarningPerWeek

\* What is assumed of the constants.
LEMMA MetricConstants ==
    /\ DaysPerWeek \in Nat /\ DaysPerWeek > 0 /\ SnapshotLimit \in Nat /\ CallCounts \subseteq Nat
    /\ MaxDay \in Nat /\ MaxByHand \in Nat
  BY MirrorsAssumption DEF MirrorsAssumption, Metric!MetricReportsAssumption

\* A week's Monday, of the days numbered from a Monday.
LEMMA MondayBounds ==
    ASSUME NEW d \in Nat
    PROVE  /\ Metric!Monday(d) \in Int /\ Metric!Monday(d) <= d
           /\ Metric!Monday(d) = d /\ d > 0 => d >= DaysPerWeek
<1>1. d % DaysPerWeek \in 0..DaysPerWeek - 1
  BY MetricConstants, SMT
<1>2. d < DaysPerWeek => d % DaysPerWeek = d
  BY MetricConstants, SMT
<1>. QED
  BY <1>1, <1>2, MetricConstants, SMT DEF Metric!Monday

LEMMA DaysAre == Metric!Days = 0..MaxDay
  BY DEF Metric!Days

\* A day that has a snapshot has one with a number.
LEMMA SnapshotRow ==
    ASSUME MetricTyped, NEW d, Metric!HasSnapshot(d)
    PROVE  d \in Metric!Days /\ v4[d] \in SnapshotRows /\ v4[d].calls \in Nat
<1>1. d \in Metric!Days /\ v4[d] # Metric!NoSnapshot
  BY DEF Metric!HasSnapshot
<1>2. v4[d] \in SnapshotRows
  BY <1>1 DEF MetricTyped
<1>3. v4[d] \in [calls : Nat, source : {"carried", "entered"}]
  BY <1>1, <1>2 DEF SnapshotRows
<1>. QED
  BY <1>1, <1>2, <1>3

\* CallsOf adds the calls of the days up.
LEMMA CallsAreSum ==
    ASSUME NEW days
    PROVE  Metric!CallsOf(days) = Sum(days, [d \in days |-> v4[d].calls])
<1> DEFINE w == [d \in days |-> v4[d].calls]
           P(f) == f = [s \in SUBSET days |->
                           IF s = {} THEN 0
                           ELSE LET x == CHOOSE x \in s : TRUE IN f[s \ {x}] + v4[x].calls]
<1>1. Metric!CallsOf(days) = (CHOOSE f : P(f))[days]
  BY Zenon DEF Metric!CallsOf, Metric!FoldSet, Metric!MapThenFoldSet
<1>2. ASSUME NEW f PROVE P(f) <=> Adds(f, days, w)
  <2>1. ASSUME NEW s \in SUBSET days, s # {}
        PROVE  f[s \ {CHOOSE x \in s : TRUE}] + v4[CHOOSE x \in s : TRUE].calls
               = f[s \ {Chosen(s)}] + w[Chosen(s)]
    <3>1. Chosen(s) \in days /\ Chosen(s) = CHOOSE x \in s : TRUE
      BY <2>1, ChosenIn DEF Chosen
    <3>2. w[Chosen(s)] = v4[Chosen(s)].calls
      BY <3>1
    <3>. QED
      BY <3>1, <3>2, Zenon
  <2>. QED
    BY <2>1, Zenon DEF Adds
<1>. HIDE DEF P, w
<1>3. (CHOOSE f : P(f)) = (CHOOSE f : Adds(f, days, w))
  BY <1>2, Zenon
<1>. QED
  BY <1>1, <1>3, Zenon DEF Sum, w

\* A week's snapshots.
LEMMA SnapshotsHave == \A a, b : \A d \in Metric!Snapshots(a,
    b) : d \in a..b /\ Metric!HasSnapshot(d)
  BY Zenon DEF Metric!Snapshots

\* The calls of any days with snapshots are a number.
LEMMA CallsAreNatural ==
    ASSUME MetricTyped, NEW a, NEW b
    PROVE  Metric!CallsOf(Metric!Snapshots(a, b)) \in Nat
<1> DEFINE days == Metric!Snapshots(a, b)
           w == [d \in days |-> v4[d].calls]
<1>1. \A d \in days : d \in Metric!Days /\ v4[d].calls \in Nat
  BY SnapshotsHave, SnapshotRow
<1>2. IsFiniteSet(Metric!Days)
  BY DaysAre, MetricConstants, FS_Interval, SMT
<1>3. IsFiniteSet(days)
  BY <1>1, <1>2, FS_Subset
<1>4. \A d \in days : w[d] \in Nat
  BY <1>1
<1>. HIDE DEF days, w
<1>5. Sum(days, w) \in Nat
  BY <1>3, <1>4, SumIsNatural
<1>. QED
  BY <1>5, CallsAreSum DEF days, w

\* A report has numbers.
LEMMA ReportTyped ==
    ASSUME MetricTyped, NEW week \in Metric!Days
    PROVE  Metric!Report(week) \in [calls : Nat, delta : Int] /\ Metric!Report(week) # Metric!NoReport
<1> DEFINE now == Metric!CallsOf(Metric!Snapshots(week, week + DaysPerWeek - 1))
           before == Metric!CallsOf(Metric!Snapshots(week - DaysPerWeek, week - 1))
<1>1. now \in Nat /\ before \in Nat
  BY CallsAreNatural
<1>2. Metric!Report(week) = [calls |-> now, delta |-> now - before]
  BY DEF Metric!Report
<1>. HIDE DEF now, before
<1>3. now - before \in Int
  BY <1>1
<1>4. [calls |-> now, delta |-> now - before].calls = now /\ now # -1
  BY <1>1, SMT
<1>5. Metric!NoReport.calls = -1
  BY DEF Metric!NoReport
<1>6. [calls |-> now, delta |-> now - before] \in [calls : Nat, delta : Int]
  BY <1>1, <1>3
<1>. QED
  BY <1>2, <1>4, <1>5, <1>6, Zenon

\* The dashboard of a week's last day adds the same days up as its report.
LEMMA DashboardIsReport ==
    ASSUME NEW week \in Metric!Days
    PROVE  Metric!Dashboard(week + DaysPerWeek - 1, DaysPerWeek) = Metric!Report(week)
<1>1. /\ (week + DaysPerWeek - 1) - DaysPerWeek + 1 = week
      /\ (week + DaysPerWeek - 1) - 2 * DaysPerWeek + 1 = week - DaysPerWeek
      /\ (week + DaysPerWeek - 1) - DaysPerWeek = week - 1
  BY DaysAre, MetricConstants, SMT
<1>. QED
  BY <1>1, Zenon DEF Metric!Dashboard, Metric!Report

\* The same of the next state.
LEMMA CallsAreSumNext ==
    ASSUME NEW a, NEW b
    PROVE  Metric!CallsOf(Metric!Snapshots(a, b))'
             = Sum(Metric!Snapshots(a, b)', [d \in Metric!Snapshots(a, b)' |-> v4'[d].calls])
<1> DEFINE w == [d \in Metric!Snapshots(a, b)' |-> v4'[d].calls]
           P(f) == f = [s \in SUBSET (Metric!Snapshots(a, b)') |->
                           IF s = {} THEN 0
                           ELSE LET x == CHOOSE x \in s : TRUE IN f[s \ {x}] + v4'[x].calls]
<1>1. Metric!CallsOf(Metric!Snapshots(a, b))' = (CHOOSE f : P(f))[Metric!Snapshots(a, b)']
  BY Zenon DEF Metric!CallsOf, Metric!FoldSet, Metric!MapThenFoldSet
<1>2. ASSUME NEW f PROVE P(f) <=> Adds(f, Metric!Snapshots(a, b)', w)
  <2>1. ASSUME NEW s \in SUBSET (Metric!Snapshots(a, b)'), s # {}
        PROVE  f[s \ {CHOOSE x \in s : TRUE}] + v4'[CHOOSE x \in s : TRUE].calls
               = f[s \ {Chosen(s)}] + w[Chosen(s)]
    <3>1. Chosen(s) \in Metric!Snapshots(a, b)' /\ Chosen(s) = CHOOSE x \in s : TRUE
      BY <2>1, ChosenIn DEF Chosen
    <3>2. w[Chosen(s)] = v4'[Chosen(s)].calls
      BY <3>1
    <3>. QED
      BY <3>1, <3>2, Zenon
  <2>. QED
    BY <2>1, Zenon DEF Adds
<1>. HIDE DEF P, w
<1>3. (CHOOSE f : P(f)) = (CHOOSE f : Adds(f, Metric!Snapshots(a, b)', w))
  BY <1>2, Zenon
<1>. QED
  BY <1>1, <1>3, Zenon DEF Sum, w

\* Days whose snapshots stay keep their calls.
LEMMA CallsStay ==
    ASSUME NEW a, NEW b, \A d \in a..b : v4'[d] = v4[d]
    PROVE  Metric!CallsOf(Metric!Snapshots(a, b))' = Metric!CallsOf(Metric!Snapshots(a, b))
<1>1. \A d \in a..b : Metric!HasSnapshot(d)' <=> Metric!HasSnapshot(d)
  BY Zenon DEF Metric!HasSnapshot, Metric!Days
<1>2. {d \in a..b : Metric!HasSnapshot(d)}' = {d \in a..b : Metric!HasSnapshot(d)}
  BY <1>1, Zenon
<1>3. Metric!Snapshots(a, b)' = Metric!Snapshots(a, b)
  BY <1>2, Zenon DEF Metric!Snapshots
<1>4. \A d \in Metric!Snapshots(a, b) : v4'[d] = v4[d]
  BY SnapshotsHave
<1>5. Metric!CallsOf(Metric!Snapshots(a, b))'
        = Sum(Metric!Snapshots(a, b)', [d \in Metric!Snapshots(a, b)' |-> v4'[d].calls])
  BY CallsAreSumNext
<1>6. Metric!CallsOf(Metric!Snapshots(a, b))
        = Sum(Metric!Snapshots(a, b), [d \in Metric!Snapshots(a, b) |-> v4[d].calls])
  BY CallsAreSum
<1>7. [d \in Metric!Snapshots(a, b) |-> v4'[d].calls]
        = [d \in Metric!Snapshots(a, b) |-> v4[d].calls]
  BY <1>4
<1>. QED
  BY <1>3, <1>5, <1>6, <1>7, Zenon

\* A report stays what it is when the snapshots of its two weeks do.
LEMMA ReportStays ==
    ASSUME NEW week, \A d \in week - DaysPerWeek .. week + DaysPerWeek - 1 : v4'[d] = v4[d],
           week \in Int
    PROVE  Metric!Report(week)' = Metric!Report(week)
<1>1. \A d \in week .. week + DaysPerWeek - 1 : v4'[d] = v4[d]
  BY MetricConstants, SMT
<1>2. \A d \in week - DaysPerWeek .. week - 1 : v4'[d] = v4[d]
  BY MetricConstants, SMT
<1>3. Metric!CallsOf(Metric!Snapshots(week, week + DaysPerWeek - 1))'
      = Metric!CallsOf(Metric!Snapshots(week, week + DaysPerWeek - 1))
  BY <1>1, CallsStay
<1>4. Metric!CallsOf(Metric!Snapshots(week - DaysPerWeek, week - 1))'
      = Metric!CallsOf(Metric!Snapshots(week - DaysPerWeek, week - 1))
  BY <1>2, CallsStay
<1>. QED
  BY <1>3, <1>4, Zenon DEF Metric!Report

\* ReportsFit depends on the snapshots, the reports and the days entered late.
LEMMA ReportsFitStays ==
    ASSUME ReportsFit, v4' = v4, v5' = v5, v8' = v8
    PROVE  ReportsFit'
<1>1. \A week \in Metric!Days : week \in Int
  BY DaysAre, MetricConstants, SMT
<1>2. \A week \in Metric!Days : Metric!Report(week)' = Metric!Report(week)
  BY <1>1, ReportStays
<1>. QED
  BY <1>2, Zenon DEF ReportsFit, Metric!HasReport, Metric!Days

\* A new row leaves no report behind that it makes wrong.
LEMMA ReportsFitAdd ==
    ASSUME MetricTyped, ReportsFit, v5' = v5,
           NEW d \in Metric!Days, NEW calls, NEW source, Metric!AddSnapshot(d, calls, source)
    PROVE  ReportsFit'
<1>1. /\ v4' = [v4 EXCEPT ![d] = [calls |-> calls, source |-> source]]
      /\ v8' = v8 \cup {week \in Metric!Days : Metric!HasReport(week) /\
                           d \in week - DaysPerWeek .. week + DaysPerWeek - 1}
  BY Zenon DEF Metric!AddSnapshot
<1>2. \A week \in Metric!Days : Metric!HasReport(week)' <=> Metric!HasReport(week)
  BY Zenon DEF Metric!HasReport
<1>3. \A e : e # d => v4'[e] = v4[e]
  BY <1>1 DEF MetricTyped
<1>4. SUFFICES ASSUME NEW week \in Metric!Days, Metric!HasReport(week), week \notin v8'
               PROVE  v5[week] = Metric!Report(week)'
  BY <1>2, Zenon DEF ReportsFit, Metric!Days
<1>5. week \notin v8 /\ d \notin week - DaysPerWeek .. week + DaysPerWeek - 1
  BY <1>1, <1>4, Zenon
<1>6. v5[week] = Metric!Report(week)
  BY <1>4, <1>5, Zenon DEF ReportsFit
<1>7. week \in Int
  BY DaysAre, MetricConstants, SMT
<1>8. \A e \in week - DaysPerWeek .. week + DaysPerWeek - 1 : v4'[e] = v4[e]
  BY <1>3, <1>5
<1>. QED
  BY <1>6, <1>7, <1>8, ReportStays

\* WeeksReported lasts while no report is under way.
LEMMA WeeksReportedStays ==
    ASSUME WeeksReported, v3.pc # "report", v5' = v5, v7' = v7
    PROVE  WeeksReported'
<1>1. \A week \in v7 : Metric!HasReport(week)
  BY Zenon DEF WeeksReported
<1>. QED
  BY <1>1, Zenon DEF WeeksReported, Metric!HasReport

LEMMA NoJobIs == Metric!NoJob \in MetricJobs /\ Metric!NoJob.pc = "idle"
  BY DEF Metric!NoJob, MetricJobs

\* A row to add: the day's, of these calls.
LEMMA AddedRow ==
    ASSUME NEW calls \in Nat, NEW source \in {"carried", "entered"}
    PROVE  [calls |-> calls, source |-> source] \in SnapshotRows
  BY DEF SnapshotRows

\* A snapshot that is stored has a number.
LEMMA AddSnapshotTyped ==
    ASSUME MetricTyped, NEW d \in Metric!Days, NEW calls \in Nat,
           NEW source \in {"carried", "entered"}, Metric!AddSnapshot(d, calls, source)
    PROVE  v4' \in [Metric!Days -> SnapshotRows] /\ v8' \subseteq Metric!Days
<1> DEFINE row == [calls |-> calls, source |-> source]
<1>1. /\ v4' = [v4 EXCEPT ![d] = row]
      /\ v8' = v8 \cup {week \in Metric!Days : Metric!HasReport(week) /\
                           d \in week - DaysPerWeek .. week + DaysPerWeek - 1}
  BY Zenon DEF Metric!AddSnapshot
<1>2. row \in SnapshotRows
  BY AddedRow
<1>. HIDE DEF row
<1>. QED
  BY <1>1, <1>2 DEF MetricTyped

\* A warning that looks for an earlier one is the week's only one.
LEMMA WarnOnce ==
    ASSUME MetricTyped, Metric!OneWarningPerWeek, ~Metric!WarnedThisWeek,
           v6' = v6 \cup {v1}
    PROVE  Metric!OneWarningPerWeek'
<1>1. v1 \in Nat /\ \A d \in v6 : d \in Nat
  BY DaysAre, MetricConstants, SMT DEF MetricTyped
<1>2. \A d \in v6 : ~(d >= Metric!Monday(v1))
  BY Zenon DEF Metric!WarnedThisWeek
<1>3. \A d \in v6 : Metric!Monday(d) # Metric!Monday(v1)
  BY <1>1, <1>2, MondayBounds, SMT
<1>4. \A d, e \in v6 : Metric!Monday(d) = Metric!Monday(e) => d = e
  BY Zenon DEF Metric!OneWarningPerWeek
<1>5. \A d, e \in v6' : Metric!Monday(d) = Metric!Monday(e) => d = e
  BY <1>3, <1>4, Zenon
<1>. QED
  BY <1>5, Zenon DEF Metric!OneWarningPerWeek, Metric!Monday

\* The daily job has found a day to carry, or has nothing to do.
LEMMA MetricDaily ==
    ASSUME MetricInv,
           Metric!SnapshotExists \/ Metric!CarryForward \/ Metric!Unavailable
    PROVE  MetricInv'
<1>1. /\ v3 = Metric!NoJob /\ v2' = {"daily"}
      /\ v1' = v1 /\ v4' = v4 /\ v5' = v5 /\ v7' = v7 /\ v8' = v8 /\ v9' = v9
  BY Zenon
     DEF Metric!SnapshotExists, Metric!CarryForward, Metric!Unavailable, Metric!StartDaily
<1>2. \/ v3' = v3
      \/ \E d : Metric!HasSnapshot(d) /\ v3' = [pc |-> "snapshot", calls |-> v4[d].calls]
  BY SnapshotsHave, Zenon
     DEF Metric!SnapshotExists, Metric!CarryForward, Metric!Unavailable
<1>3. v3' \in MetricJobs /\ v3'.pc # "report" /\ (v3'.pc = "snapshot" => v3'.calls \in Nat)
  <2>1. CASE v3' = v3
    BY <1>1, <2>1, NoJobIs, SMT
  <2>2. ASSUME NEW d, Metric!HasSnapshot(d), v3' = [pc |-> "snapshot", calls |-> v4[d].calls]
        PROVE  v3' \in MetricJobs /\ v3'.pc # "report" /\ v3'.calls \in Nat
    <3>1. v4[d].calls \in Nat
      BY <2>2, SnapshotRow DEF MetricInv
    <3>. QED
      BY <2>2, <3>1, SMT DEF MetricJobs
  <2>. QED
    BY <1>2, <2>1, <2>2
<1>4. v6' = v6 \/ (~Metric!WarnedThisWeek /\ v6' = v6 \cup {v1})
  BY Zenon DEF Metric!SnapshotExists, Metric!CarryForward, Metric!Unavailable
<1>5. Metric!OneWarningPerWeek'
  <2>1. CASE v6' = v6
    BY <2>1, Zenon DEF Metric!OneWarningPerWeek, Metric!Monday, MetricInv
  <2>. QED
    BY <1>4, <2>1, WarnOnce DEF MetricInv
<1>6. MetricTyped'
  <2>1. v6' \subseteq Metric!Days
    BY <1>4, SMT DEF MetricInv, MetricTyped
  <2>. QED
    BY <1>1, <1>3, <2>1, Zenon DEF MetricInv, MetricTyped, Metric!Days
<1>7. JobFits'
  BY <1>3, Zenon DEF JobFits
<1>8. WeeksReported'
  BY <1>1, NoJobIs, WeeksReportedStays DEF MetricInv
<1>9. ReportsFit'
  BY <1>1, ReportsFitStays DEF MetricInv
<1>. QED
  BY <1>5, <1>6, <1>7, <1>8, <1>9, Zenon DEF MetricInv

\* The daily job stores its snapshot.
LEMMA MetricStoreSnapshot ==
    ASSUME MetricInv, Metric!StoreSnapshot
    PROVE  MetricInv'
<1>1. /\ v3.pc = "snapshot" /\ v3' = Metric!NoJob
      /\ v1' = v1 /\ v2' = v2 /\ v5' = v5 /\ v6' = v6 /\ v7' = v7 /\ v9' = v9
      /\ (v4' = v4 /\ v8' = v8) \/ Metric!AddSnapshot(v1, v3.calls, "carried")
  BY Zenon DEF Metric!StoreSnapshot
<1>2. v3.calls \in Nat /\ v1 \in Metric!Days
  BY <1>1, Zenon DEF MetricInv, JobFits, MetricTyped
<1>3. v4' \in [Metric!Days -> SnapshotRows] /\ v8' \subseteq Metric!Days
  BY <1>1, <1>2, AddSnapshotTyped, Zenon DEF MetricInv, MetricTyped
<1>4. MetricTyped'
  BY <1>1, <1>3, NoJobIs, Zenon DEF MetricInv, MetricTyped, Metric!Days
<1>5. JobFits'
  BY <1>1, NoJobIs, SMT DEF JobFits
<1>6. WeeksReported'
  <2>1. v3.pc # "report"
    BY <1>1
  <2>. QED
    BY <1>1, <2>1, WeeksReportedStays DEF MetricInv
<1>7. ReportsFit'
  <2>1. CASE v4' = v4 /\ v8' = v8
    BY <1>1, <2>1, ReportsFitStays DEF MetricInv
  <2>2. CASE Metric!AddSnapshot(v1, v3.calls, "carried")
    BY <1>1, <1>2, <2>2, ReportsFitAdd DEF MetricInv
  <2>. QED
    BY <1>1, <2>1, <2>2
<1>8. Metric!OneWarningPerWeek'
  BY <1>1, Zenon DEF Metric!OneWarningPerWeek, Metric!Monday, MetricInv
<1>. QED
  BY <1>4, <1>5, <1>6, <1>7, <1>8, Zenon DEF MetricInv

\* Numbers entered by hand make the reports of their days, and of the week after, stale.
LEMMA MetricEnter ==
    ASSUME MetricInv, NEW d \in Metric!Days, NEW calls \in CallCounts,
           Metric!EnterSnapshot(d, calls)
    PROVE  MetricInv'
<1>1. /\ v9 < MaxByHand /\ v9' = v9 + 1 /\ Metric!AddSnapshot(d, calls, "entered")
      /\ v1' = v1 /\ v2' = v2 /\ v3' = v3 /\ v5' = v5 /\ v6' = v6 /\ v7' = v7
  BY Zenon DEF Metric!EnterSnapshot
<1>2. calls \in Nat
  BY MetricConstants
<1>3. v4' \in [Metric!Days -> SnapshotRows] /\ v8' \subseteq Metric!Days
  BY <1>1, <1>2, AddSnapshotTyped, Zenon DEF MetricInv
<1>4. v9' \in 0..MaxByHand
  BY <1>1, MetricConstants, SMT DEF MetricInv, MetricTyped
<1>5. MetricTyped'
  BY <1>1, <1>3, <1>4, Zenon DEF MetricInv, MetricTyped, Metric!Days
<1>6. JobFits'
  BY <1>1, Zenon DEF MetricInv, JobFits, Metric!LastWeek, Metric!Monday, Metric!Days
<1>7. WeeksReported'
  BY <1>1, Zenon
     DEF MetricInv, WeeksReported, Metric!HasReport, Metric!LastWeek, Metric!Monday
<1>8. ReportsFit'
  BY <1>1, <1>2, ReportsFitAdd DEF MetricInv
<1>9. Metric!OneWarningPerWeek'
  BY <1>1, Zenon DEF Metric!OneWarningPerWeek, Metric!Monday, MetricInv
<1>. QED
  BY <1>5, <1>6, <1>7, <1>8, <1>9, Zenon DEF MetricInv

\* The week that is over on a Monday is one of the days'.
LEMMA LastWeekIs ==
    ASSUME MetricTyped, v1 = Metric!Monday(v1), v1 > 0
    PROVE  Metric!LastWeek \in Metric!Days
<1>1. v1 \in Nat /\ v1 <= MaxDay
  BY DaysAre, MetricConstants, SMT DEF MetricTyped
<1>2. v1 >= DaysPerWeek
  BY <1>1, MondayBounds
<1>3. Metric!LastWeek = v1 - DaysPerWeek
  BY Zenon DEF Metric!LastWeek
<1>. QED
  BY <1>1, <1>2, <1>3, DaysAre, MetricConstants, SMT

\* The weekly job looks for last week's report.
LEMMA MetricStartWeekly ==
    ASSUME MetricInv, Metric!StartWeekly
    PROVE  MetricInv'
<1> DEFINE week == Metric!LastWeek
<1>1. /\ v3 = Metric!NoJob /\ v1 = Metric!Monday(v1) /\ v1 > 0 /\ v2' = v2 \cup {"weekly"}
      /\ v1' = v1 /\ v4' = v4 /\ v5' = v5 /\ v6' = v6 /\ v8' = v8 /\ v9' = v9
  BY Zenon DEF Metric!StartWeekly
<1>2. \/ v7' = v7 /\ v3' = Metric!NoJob
      \/ v7' = v7 \cup {week} /\ Metric!NewestReportIs(week) /\ v3' = Metric!NoJob
      \/ v7' = v7 \cup {week} /\ v3' = [Metric!NoJob EXCEPT !.pc = "report"]
  BY Zenon DEF Metric!StartWeekly
<1>3. week \in Metric!Days /\ week' = week
  <2>1. week \in Metric!Days
    BY <1>1, LastWeekIs DEF MetricInv
  <2>2. week' = week
    BY <1>1, Zenon DEF Metric!LastWeek, Metric!Monday
  <2>. QED
    BY <2>1, <2>2
<1>4. [Metric!NoJob EXCEPT !.pc = "report"] \in MetricJobs
      /\ [Metric!NoJob EXCEPT !.pc = "report"].pc = "report"
  BY DEF Metric!NoJob, MetricJobs
<1>. HIDE DEF week
<1>5. v3' \in MetricJobs /\ v3'.pc # "snapshot" /\ v7' \subseteq Metric!Days
  <2>1. v7 \subseteq Metric!Days
    BY Zenon DEF MetricInv, MetricTyped
  <2>2. v7' \subseteq Metric!Days
    BY <1>2, <1>3, <2>1
  <2>3. v3' = Metric!NoJob \/ v3' = [Metric!NoJob EXCEPT !.pc = "report"]
    BY <1>2, Zenon
  <2>4. v3' \in MetricJobs
    BY <1>4, <2>3, NoJobIs, Zenon
  <2>5. v3'.pc = "idle" \/ v3'.pc = "report"
    BY <1>4, <2>3, NoJobIs, Zenon
  <2>. QED
    BY <2>2, <2>4, <2>5
<1>6. v2' \subseteq {"daily", "weekly"}
  BY <1>1 DEF MetricInv, MetricTyped
<1>7. MetricTyped'
  BY <1>1, <1>5, <1>6, Zenon DEF MetricInv, MetricTyped, Metric!Days
<1>8. JobFits'
  <2>1. Metric!LastWeek' \in Metric!Days
    BY <1>3, Zenon DEF week
  <2>. QED
    BY <1>5, <2>1, Zenon DEF JobFits, Metric!Days
<1>9. \A k \in v7 : Metric!HasReport(k)
  <2>1. v3.pc # "report"
    BY <1>1, NoJobIs, SMT
  <2>. QED
    BY <2>1, Zenon DEF MetricInv, WeeksReported
<1>10. WeeksReported'
  <2>1. \A k : Metric!HasReport(k)' <=> Metric!HasReport(k)
    BY <1>1, Zenon DEF Metric!HasReport
  <2>2. Metric!NewestReportIs(week) => Metric!HasReport(week)
    BY Zenon DEF Metric!NewestReportIs
  <2>3. \A k \in v7' : Metric!HasReport(k) \/ (v3'.pc = "report" /\ k = week)
    BY <1>2, <1>4, <1>9, <2>2, Zenon
  <2>4. \A k \in v7' : Metric!HasReport(k)' \/ (v3'.pc = "report" /\ k = Metric!LastWeek')
    BY <1>3, <2>1, <2>3, Zenon DEF week
  <2>. QED
    BY <2>4, Zenon DEF WeeksReported
<1>11. ReportsFit'
  BY <1>1, ReportsFitStays DEF MetricInv
<1>12. Metric!OneWarningPerWeek'
  BY <1>1, Zenon DEF Metric!OneWarningPerWeek, Metric!Monday, MetricInv
<1>. QED
  BY <1>7, <1>8, <1>10, <1>11, <1>12, Zenon DEF MetricInv

\* What a new report, of any week without one, leaves true.
LEMMA NewReport ==
    ASSUME MetricInv, NEW week \in Metric!Days, ~Metric!HasReport(week),
           v5' = [v5 EXCEPT ![week] = Metric!Report(week)],
           v4' = v4, v8' = v8
    PROVE  /\ v5' \in [Metric!Days -> ReportRows]
           /\ \A k \in Metric!Days : Metric!HasReport(k)' <=> (Metric!HasReport(k) \/ k = week)
           /\ ReportsFit'
<1>1. Metric!Report(week) \in ReportRows /\ Metric!Report(week) # Metric!NoReport
  BY ReportTyped DEF MetricInv, ReportRows
<1>2. v5 \in [Metric!Days -> ReportRows]
  BY DEF MetricInv, MetricTyped
<1> DEFINE r == Metric!Report(week)
<1>3. v5' = [v5 EXCEPT ![week] = r] /\ r \in ReportRows /\ r # Metric!NoReport
  BY <1>1
<1>. HIDE DEF r
<1>4. v5' \in [Metric!Days -> ReportRows]
  BY <1>2, <1>3
<1>5. v5'[week] = r /\ \A k \in Metric!Days : k # week => v5'[k] = v5[k]
  BY <1>2, <1>3
<1>6. \A k \in Metric!Days : Metric!HasReport(k)' <=> (Metric!HasReport(k) \/ k = week)
  BY <1>3, <1>5, Zenon DEF Metric!HasReport, Metric!NoReport
<1>7. \A k \in Metric!Days : Metric!Report(k)' = Metric!Report(k)
  <2>1. \A k \in Metric!Days : k \in Int
    BY DaysAre, MetricConstants, SMT
  <2>. QED
    BY <2>1, ReportStays
<1>8. ReportsFit'
  <2>1. \A k \in Metric!Days : Metric!HasReport(k) /\ k \notin v8 => v5[k] = Metric!Report(k)
    BY Zenon DEF MetricInv, ReportsFit
  <2>2. \A k \in Metric!Days : Metric!HasReport(k)' /\ k \notin v8' => v5'[k] = Metric!Report(k)'
    BY <1>5, <1>6, <1>7, <2>1, Zenon DEF r
  <2>. QED
    BY <2>2, Zenon DEF ReportsFit, Metric!Days
<1>. QED
  BY <1>4, <1>6, <1>8

\* It stores the report.
LEMMA MetricStoreReport ==
    ASSUME MetricInv, Metric!StoreReport
    PROVE  MetricInv'
<1> DEFINE week == Metric!LastWeek
<1>1. /\ v3.pc = "report" /\ v3' = Metric!NoJob
      /\ v1' = v1 /\ v2' = v2 /\ v4' = v4 /\ v6' = v6 /\ v7' = v7 /\ v8' = v8 /\ v9' = v9
  BY Zenon DEF Metric!StoreReport
<1>2. \/ Metric!HasReport(week) /\ v5' = v5
      \/ ~Metric!HasReport(week) /\ v5' = [v5 EXCEPT ![week] = Metric!Report(week)]
  BY Zenon DEF Metric!StoreReport
<1>3. week \in Metric!Days /\ v7 \subseteq Metric!Days
  BY <1>1, Zenon DEF MetricInv, JobFits, MetricTyped
<1>. HIDE DEF week
<1>4. /\ v5' \in [Metric!Days -> ReportRows]
      /\ \A k \in Metric!Days : Metric!HasReport(k)' <=> (Metric!HasReport(k) \/ k = week)
      /\ ReportsFit'
  <2>1. CASE Metric!HasReport(week) /\ v5' = v5
    <3>1. ReportsFit'
      BY <1>1, <2>1, ReportsFitStays DEF MetricInv
    <3>. QED
      BY <2>1, <3>1, Zenon DEF MetricInv, MetricTyped, Metric!HasReport
  <2>2. CASE ~Metric!HasReport(week) /\ v5' = [v5 EXCEPT ![week] = Metric!Report(week)]
    BY <1>1, <1>3, <2>2, NewReport
  <2>. QED
    BY <1>2, <2>1, <2>2
<1>5. MetricTyped'
  BY <1>1, <1>4, NoJobIs, Zenon DEF MetricInv, MetricTyped, Metric!Days
<1>6. JobFits'
  BY <1>1, NoJobIs, SMT DEF JobFits
<1>7. WeeksReported'
  <2>1. \A k \in v7 : Metric!HasReport(k) \/ k = week
    BY Zenon DEF MetricInv, WeeksReported, week
  <2>2. \A k \in v7 : Metric!HasReport(k)'
    BY <1>3, <1>4, <2>1
  <2>. QED
    BY <1>1, <2>2, Zenon DEF WeeksReported
<1>8. Metric!OneWarningPerWeek'
  BY <1>1, Zenon DEF Metric!OneWarningPerWeek, Metric!Monday, MetricInv
<1>. QED
  BY <1>4, <1>5, <1>6, <1>7, <1>8, Zenon DEF MetricInv

\* A report asked for is computed as the job would.
LEMMA MetricAsk ==
    ASSUME MetricInv, NEW week \in Metric!Days, Metric!AskForReport(week)
    PROVE  MetricInv'
<1>1. /\ v9 < MaxByHand /\ v9' = v9 + 1 /\ ~Metric!HasReport(week)
      /\ v5' = [v5 EXCEPT ![week] = Metric!Report(week)]
      /\ v1' = v1 /\ v2' = v2 /\ v3' = v3 /\ v4' = v4 /\ v6' = v6 /\ v7' = v7 /\ v8' = v8
  BY Zenon DEF Metric!AskForReport
<1>2. /\ v5' \in [Metric!Days -> ReportRows]
      /\ \A k \in Metric!Days : Metric!HasReport(k)' <=> (Metric!HasReport(k) \/ k = week)
      /\ ReportsFit'
  BY <1>1, NewReport
<1>3. v9' \in 0..MaxByHand
  BY <1>1, MetricConstants, SMT DEF MetricInv, MetricTyped
<1>4. MetricTyped'
  BY <1>1, <1>2, <1>3, Zenon DEF MetricInv, MetricTyped, Metric!Days
<1>5. JobFits'
  BY <1>1, Zenon DEF MetricInv, JobFits, Metric!LastWeek, Metric!Monday, Metric!Days
<1>6. WeeksReported'
  <2>1. Metric!LastWeek' = Metric!LastWeek
    BY <1>1, Zenon DEF Metric!LastWeek, Metric!Monday
  <2>2. \A k \in v7 : k \in Metric!Days
    BY Zenon DEF MetricInv, MetricTyped
  <2>3. \A k \in v7 : Metric!HasReport(k)' \/ (v3.pc = "report" /\ k = Metric!LastWeek)
    BY <1>2, <2>2, Zenon DEF MetricInv, WeeksReported
  <2>. QED
    BY <1>1, <2>1, <2>3, Zenon DEF WeeksReported
<1>7. Metric!OneWarningPerWeek'
  BY <1>1, Zenon DEF Metric!OneWarningPerWeek, Metric!Monday, MetricInv
<1>. QED
  BY <1>2, <1>4, <1>5, <1>6, <1>7, Zenon DEF MetricInv

\* A day begins.
LEMMA MetricNextDay ==
    ASSUME MetricInv, Metric!NextDay
    PROVE  MetricInv'
<1>1. /\ v3 = Metric!NoJob /\ v1 < MaxDay /\ v1' = v1 + 1 /\ v2' = {}
      /\ v3' = v3 /\ v4' = v4 /\ v5' = v5 /\ v6' = v6 /\ v7' = v7 /\ v8' = v8 /\ v9' = v9
  BY Zenon DEF Metric!NextDay
<1>2. v1' \in Metric!Days
  BY <1>1, DaysAre, MetricConstants, SMT DEF MetricInv, MetricTyped
<1>3. v2' \subseteq {"daily", "weekly"}
  BY <1>1
<1>4. MetricTyped'
  BY <1>1, <1>2, <1>3, Zenon DEF MetricInv, MetricTyped, Metric!Days
<1>5. JobFits'
  BY <1>1, NoJobIs, SMT DEF JobFits
<1>6. WeeksReported'
  <2>1. v3.pc # "report"
    BY <1>1, NoJobIs, SMT
  <2>. QED
    BY <1>1, <2>1, WeeksReportedStays DEF MetricInv
<1>7. ReportsFit'
  BY <1>1, ReportsFitStays DEF MetricInv
<1>8. Metric!OneWarningPerWeek'
  BY <1>1, Zenon DEF Metric!OneWarningPerWeek, Metric!Monday, MetricInv
<1>. QED
  BY <1>4, <1>5, <1>6, <1>7, <1>8, Zenon DEF MetricInv

LEMMA MetricSame ==
    ASSUME MetricInv, UNCHANGED vars
    PROVE  MetricInv'
<1>1. v1' = v1 /\ v2' = v2 /\ v3' = v3 /\ v4' = v4 /\ v5' = v5 /\ v6' = v6 /\ v7' = v7
      /\ v8' = v8 /\ v9' = v9
  BY DEF vars
<1>2. MetricTyped'
  BY <1>1, Zenon DEF MetricInv, MetricTyped, Metric!Days
<1>3. JobFits' /\ WeeksReported'
  BY <1>1, Zenon DEF MetricInv, JobFits, WeeksReported, Metric!HasReport, Metric!LastWeek,
                     Metric!Monday, Metric!Days
<1>4. ReportsFit'
  BY <1>1, ReportsFitStays DEF MetricInv
<1>5. Metric!OneWarningPerWeek'
  BY <1>1, Zenon DEF Metric!OneWarningPerWeek, Metric!Monday, MetricInv
<1>. QED
  BY <1>2, <1>3, <1>4, <1>5, Zenon DEF MetricInv

\* It holds initially.
LEMMA MetricInit == ASSUME Metric!Init PROVE MetricInv
<1>1. /\ v1 = 0 /\ v2 = {} /\ v3 = Metric!NoJob /\ v6 = {} /\ v7 = {} /\ v8 = {} /\ v9 = 0
      /\ v4 = [d \in Metric!Days |-> Metric!NoSnapshot]
      /\ v5 = [d \in Metric!Days |-> Metric!NoReport]
  BY Zenon DEF Metric!Init
<1>2. v1 \in Metric!Days /\ v9 \in 0..MaxByHand
  BY <1>1, DaysAre, MetricConstants, SMT
<1>3. v4 \in [Metric!Days -> SnapshotRows] /\ v5 \in [Metric!Days -> ReportRows]
  BY <1>1 DEF SnapshotRows, ReportRows
<1>4. \A week \in Metric!Days : ~Metric!HasReport(week)
  BY <1>1 DEF Metric!HasReport
<1>5. v3 \in MetricJobs /\ v3.pc = "idle"
  BY <1>1, NoJobIs, SMT
<1>6. MetricTyped
  BY <1>1, <1>2, <1>3, <1>5 DEF MetricTyped
<1>7. JobFits
  BY <1>5, SMT DEF JobFits
<1>8. WeeksReported /\ Metric!OneWarningPerWeek
  BY <1>1 DEF WeeksReported, Metric!OneWarningPerWeek
<1>9. ReportsFit
  BY <1>4, Zenon DEF ReportsFit
<1>. QED
  BY <1>6, <1>7, <1>8, <1>9 DEF MetricInv

\* The types of the reports.
LEMMA MetricTypes == ASSUME MetricInv PROVE Metric!TypeOK
<1>1. MetricTyped
  BY DEF MetricInv
<1>2. ASSUME NEW d \in Metric!Days
      PROVE  /\ v4[d] = Metric!NoSnapshot \/ v4[d] \in [calls : Nat, source : {"carried", "entered"}]
             /\ v5[d] = Metric!NoReport \/ v5[d] \in [calls : Nat, delta : Int]
  <2>1. v4[d] \in SnapshotRows /\ v5[d] \in ReportRows
    BY <1>1, Zenon DEF MetricTyped
  <2>. QED
    BY <2>1, Zenon DEF SnapshotRows, ReportRows
<1>. QED
  BY <1>1, <1>2, Zenon DEF MetricTyped, MetricJobs, Metric!TypeOK

MetricOnly == subject = "metric" => MetricInv

\* It holds in every reachable state of the reports.
LEMMA MetricAlways == Spec => []MetricOnly
<1>1. Init => MetricOnly
  <2>1. Init /\ subject = "metric" => Metric!Init
    BY Zenon DEF Init
  <2>. QED
    BY <2>1, MetricInit DEF MetricOnly
<1>2. MetricOnly /\ [Next]_vars => MetricOnly'
  <2>1. ASSUME MetricInv, NextMetric PROVE MetricInv'
    <3>1. \/ Metric!SnapshotExists \/ Metric!CarryForward \/ Metric!Unavailable
          \/ Metric!StoreSnapshot \/ Metric!StartWeekly \/ Metric!StoreReport
          \/ \E d \in Metric!Days, calls \in CallCounts : Metric!EnterSnapshot(d, calls)
          \/ \E week \in Metric!Days : Metric!AskForReport(week)
          \/ Metric!NextDay
      BY <2>1, Zenon DEF NextMetric
    <3>. QED
      BY <2>1, <3>1, MetricDaily, MetricStoreSnapshot, MetricStartWeekly, MetricStoreReport,
         MetricEnter, MetricAsk, MetricNextDay, Zenon
  <2>. QED
    BY <2>1, MetricSame, SubjectStays, StepOfSubject DEF MetricOnly
<1>. QED
  BY <1>1, <1>2, PTL DEF Spec

\* The weekly job leaves every week with a report, whose numbers add up unless numbers
\* for its days came later, and a week's unavailable days are told once
\* (metric_jobs.py, metrics_service.py).
THEOREM EveryWeekIsReported == Spec => []WeekIsReported
<1>1. MetricOnly => WeekIsReported
  <2>. SUFFICES ASSUME MetricInv
                PROVE  Metric!WeekIsReported /\ Metric!ReportsAddUp /\ Metric!OneWarningPerWeek
    BY DEF WeekIsReported, MetricOnly
  <2>1. Metric!WeekIsReported
    <3>1. v3 = Metric!NoJob => v3.pc # "report"
      BY NoJobIs, SMT
    <3>. QED
      BY <3>1, Zenon DEF MetricInv, WeeksReported, Metric!WeekIsReported
  <2>2. Metric!ReportsAddUp
    BY DashboardIsReport, Zenon DEF MetricInv, ReportsFit, Metric!ReportsAddUp
  <2>. QED
    BY <2>1, <2>2 DEF MetricInv
<1>. QED
  BY <1>1, MetricAlways, PTL

-----------------------------------------------------------------------------
(* Channels. *)

\* The places and requests, and the requests that work on a row they have read.
ChannelPcs == {"idle", "find", "reconnect", "connect", "disconnect", "refresh", "store",
               "expire", "publish", "published", "failed"}
ChannelRequests == [pc : ChannelPcs, channel : Channels \cup {NoChannel}, seen : Channel!Row,
                    grant : 0..MaxConsents]
OnRow(w) == v3[w].pc \in Channel!Changes \cup Channel!Publications

\* The types of the rows and the requests.
ChannelTyped ==
    /\ v1 \in {"GBP", "INSTAGRAM"}
    /\ v2 \in [Channels -> Channel!Row]
    /\ \A c \in Channels : Channel!Exists(c) <=> v5[c] # 0
    /\ v3 \in [Workers -> ChannelRequests]
    /\ v4 \in 0..MaxConsents
    /\ v5 \in [Channels -> 0..v4]
    /\ v6 \subseteq Channels /\ v7 \subseteq Channels
    /\ v8 \in BOOLEAN
    /\ v9 \in 0..MaxRequests

\* What a request knows of the row it has read.
ChannelReads(w) ==
    LET c == v3[w].channel IN
    /\ OnRow(w) => c \in Channels /\ Channel!Exists(c)
    /\ v3[w].pc \in {"find", "reconnect", "connect"} =>
           v3[w].grant # 0 /\ v3[w].grant <= v4
    /\ v3[w].pc \in {"refresh", "store", "publish", "published"} => v3[w].seen.consent # 0
    /\ v3[w].pc \in Channel!Refreshes /\ c \notin v6 => v3[w].seen.consent \in {0, v5[c]}
    /\ v3[w].pc \in Channel!Changes /\ c \notin v7 =>
           /\ v3[w].seen.consent = v2[c].consent
           /\ v2[c].status = "disconnected" => v3[w].seen.status = "disconnected"
           /\ v3[w].seen.status = "disconnected" => v3[w].seen.consent = 0
    /\ v3[w].pc \in {"publish", "published"} /\ c \notin v7 => v2[c].consent # 0

\* Which requests may be under way on one row that is not marked.
ChannelApart(u, w) ==
    LET c == v3[u].channel IN
    u # w /\ v3[w].channel = c =>
        /\ c \notin v6 /\ v3[u].pc \in Channel!Refreshes => v3[w].pc \notin Channel!Changes
        /\ c \notin v7 /\ v3[u].pc \in Channel!Changes => v3[w].pc \notin Channel!Changes
        /\ c \notin v7 /\ v3[u].pc = "disconnect" => v3[w].pc \notin Channel!Publications

\* Of the callbacks that connect a first channel, one comes alone unless it is noted.
ChannelFirst ==
    ~v8 => /\ \A u, w \in Workers : v3[u].pc = "connect" /\ v3[w].pc = "connect" => u = w
           /\ \A w \in Workers : v3[w].pc = "connect" => \A c \in Channels : ~Channel!Exists(c)

\* The inductive invariant of channel rows.
ChannelInv ==
    /\ ChannelTyped
    /\ \A w \in Workers : ChannelReads(w)
    /\ \A u, w \in Workers : ChannelApart(u, w)
    /\ ChannelFirst
    /\ Channel!CredentialsAreCurrent
    /\ Channel!StatusMatchesCredentials
    /\ Channel!OneChannelPerType

\* What is assumed of the constants.
LEMMA ChannelConstants == NoChannel \notin Channels /\ MaxConsents \in Nat /\ MaxRequests \in Nat
  BY MirrorsAssumption DEF MirrorsAssumption, Channel!ConnectionsAssumption

\* The kinds of requests.
LEMMA ChannelSets ==
    /\ Channel!Refreshes = {"refresh", "store", "expire"}
    /\ Channel!Changes = {"refresh", "store", "expire", "reconnect", "disconnect"}
    /\ Channel!Publications = {"publish", "published", "failed"}
  BY SMT DEF Channel!Refreshes, Channel!Changes, Channel!Publications

\* The types, one by one.
LEMMA ChannelTypes ==
    ASSUME ChannelTyped
    PROVE  /\ v2 \in [Channels -> Channel!Row]
           /\ \A c \in Channels : Channel!Exists(c) <=> v5[c] # 0
           /\ v3 \in [Workers -> ChannelRequests]
           /\ v4 \in 0..MaxConsents
           /\ v5 \in [Channels -> 0..v4]
           /\ v6 \subseteq Channels /\ v7 \subseteq Channels
           /\ v8 \in BOOLEAN
           /\ v9 \in 0..MaxRequests
  BY Zenon DEF ChannelTyped

\* The row after an update of the columns that differ from what was read.
LEMMA StoredRow ==
    ASSUME NEW new \in Channel!Row, NEW seen \in Channel!Row, NEW old \in Channel!Row
    PROVE  LET s == [f \in DOMAIN new |-> IF new[f] = seen[f] THEN old[f] ELSE new[f]] IN
           /\ s \in Channel!Row
           /\ s.status = IF new.status = seen.status THEN old.status ELSE new.status
           /\ s.consent = IF new.consent = seen.consent THEN old.consent ELSE new.consent
<1> DEFINE s == [f \in DOMAIN new |-> IF new[f] = seen[f] THEN old[f] ELSE new[f]]
<1>1. DOMAIN new = {"status", "consent", "active"}
  BY SMT DEF Channel!Row
<1>2. /\ DOMAIN s = {"status", "consent", "active"} /\ s = [f \in DOMAIN s |-> s[f]]
      /\ \A f \in {"status", "consent", "active"} :
             s[f] = IF new[f] = seen[f] THEN old[f] ELSE new[f]
  BY <1>1, Zenon
<1>. HIDE DEF s
<1>3. /\ s.status = IF new.status = seen.status THEN old.status ELSE new.status
      /\ s.consent = IF new.consent = seen.consent THEN old.consent ELSE new.consent
      /\ s.active = IF new.active = seen.active THEN old.active ELSE new.active
  BY <1>2, SMT
<1>4. /\ s.status \in Channel!Statuses /\ s.consent \in 0..MaxConsents
      /\ s.active \in BOOLEAN
  BY <1>3, SMT DEF Channel!Row
<1>5. s \in Channel!Row
  BY <1>2, <1>4, SMT DEF Channel!Row
<1>. QED
  BY <1>3, <1>5 DEF s

\* The same, when the credentials are written in any case.
LEMMA StoredConsent ==
    ASSUME NEW new \in Channel!Row, NEW seen \in Channel!Row, NEW old \in Channel!Row
    PROVE  LET s == [f \in DOMAIN new |-> IF f # "consent" /\ new[f] = seen[f]
                                   THEN old[f] ELSE new[f]] IN
           /\ s \in Channel!Row
           /\ s.status = IF new.status = seen.status THEN old.status ELSE new.status
           /\ s.consent = new.consent
<1> DEFINE s == [f \in DOMAIN new |-> IF f # "consent" /\ new[f] = seen[f]
                                   THEN old[f] ELSE new[f]]
<1>1. DOMAIN new = {"status", "consent", "active"}
  BY SMT DEF Channel!Row
<1>2. /\ DOMAIN s = {"status", "consent", "active"} /\ s = [f \in DOMAIN s |-> s[f]]
      /\ \A f \in {"status", "consent", "active"} :
             s[f] = IF f # "consent" /\ new[f] = seen[f]
                                   THEN old[f] ELSE new[f]
  BY <1>1, Zenon
<1>. HIDE DEF s
<1>3. /\ s.status = IF new.status = seen.status THEN old.status ELSE new.status
      /\ s.consent = new.consent
      /\ s.active = IF new.active = seen.active THEN old.active ELSE new.active
  BY <1>2, SMT
<1>4. /\ s.status \in Channel!Statuses /\ s.consent \in 0..MaxConsents
      /\ s.active \in BOOLEAN
  BY <1>3, SMT DEF Channel!Row
<1>5. s \in Channel!Row
  BY <1>2, <1>4, SMT DEF Channel!Row
<1>. QED
  BY <1>3, <1>5 DEF s

\* A request that has read the row writes it.
LEMMA ChannelWrite ==
    ASSUME ChannelInv, NEW w \in Workers, NEW new \in Channel!Row, NEW k \in 1..v4,
           NEW c \in Channels, c = v3[w].channel,
           v2' = [v2 EXCEPT ![c] = new], v5' = [v5 EXCEPT ![c] = k],
           v3' = [v3 EXCEPT ![w] = Channel!Idle],
           v1' = v1, v4' = v4, v6' = v6, v7' = v7, v8' = v8, v9' = v9,
           OnRow(w), Channel!Exists(c), new.status # "none",
           k # v5[c] => v3[w].pc = "reconnect",
           v3[w].pc \in Channel!Publications =>
               /\ new.consent = v2[c].consent
               /\ new.status = "disconnected" => v2[c].status = "disconnected",
           c \notin v7 /\ new.consent = 0 /\ v2[c].consent # 0 => v3[w].pc = "disconnect",
           c \notin v6 => new.consent \in {0, k},
           c \notin v7 => /\ new.status = "connected" => new.consent # 0
                          /\ new.status = "disconnected" => new.consent = 0
    PROVE  ChannelInv'
<1>1. /\ v2 \in [Channels -> Channel!Row]
      /\ \A x \in Channels : Channel!Exists(x) <=> v5[x] # 0
      /\ v3 \in [Workers -> ChannelRequests]
      /\ v4 \in 0..MaxConsents
      /\ v5 \in [Channels -> 0..v4]
      /\ v6 \subseteq Channels /\ v7 \subseteq Channels
      /\ v8 \in BOOLEAN
      /\ v9 \in 0..MaxRequests
  BY ChannelTypes DEF ChannelInv
<1>2. /\ v2' \in [Channels -> Channel!Row] /\ v2'[c] = new
      /\ \A x \in Channels : x # c => v2'[x] = v2[x]
  BY <1>1, SMT
<1>3. /\ v5' \in [Channels -> 0..v4] /\ v5'[c] = k
      /\ \A x \in Channels : x # c => v5'[x] = v5[x]
  BY <1>1, SMT
<1>4. Channel!Idle \in ChannelRequests /\ Channel!Idle.pc = "idle"
  BY ChannelConstants, SMT DEF Channel!Idle, ChannelRequests, ChannelPcs, Channel!NoRow,
                               Channel!Row, Channel!Statuses
<1>5. /\ v3' \in [Workers -> ChannelRequests] /\ v3'[w].pc = "idle"
      /\ \A u \in Workers : u # w => v3'[u] = v3[u]
  BY <1>1, <1>4, SMT
<1>6. \A x \in Channels : Channel!Exists(x)' = Channel!Exists(x)
  BY <1>2, SMT DEF Channel!Exists
<1>7. ChannelTyped'
  <2>1. \A x \in Channels : Channel!Exists(x)' <=> v5'[x] # 0
    BY <1>1, <1>3, <1>6, SMT
  <2>2. v1' \in {"GBP", "INSTAGRAM"}
    BY DEF ChannelInv, ChannelTyped
  <2>. QED
    BY <1>1, <1>2, <1>3, <1>5, <2>1, <2>2, Zenon
       DEF ChannelTyped
<1>8. v3[w].pc \in Channel!Changes \cup Channel!Publications
  BY DEF OnRow
<1>9. ASSUME NEW u \in Workers PROVE ChannelReads(u)'
  <2>1. CASE u = w
    BY <1>5, <2>1, ChannelSets, SMT DEF ChannelReads, OnRow
  <2>2. CASE u # w
    <3>1. v3'[u] = v3[u] /\ ChannelReads(u) /\ ChannelApart(u, w) /\ ChannelApart(w, u)
      BY <1>5, <2>2 DEF ChannelInv
    <3> DEFINE d == v3[u].channel
    <3>2. CASE d # c \/ ~OnRow(u)
      <4>1. OnRow(u) => d \in Channels /\ v2'[d] = v2[d] /\ v5'[d] = v5[d]
        BY <1>2, <1>3, <3>1, <3>2 DEF ChannelReads
      <4>2. OnRow(u) => Channel!Exists(d)'
        BY <1>6, <3>1, <4>1 DEF ChannelReads
      <4>3. OnRow(u)' = OnRow(u)
        BY <3>1 DEF OnRow
      <4>. QED
        BY <3>1, <4>1, <4>2, <4>3, ChannelSets, SMT DEF ChannelReads, OnRow
    <3>3. CASE d = c /\ OnRow(u)
      <4>1. v2'[c].status # "none" /\ d \in Channels
        BY <1>2, <3>3, Zenon
      <4>2. v3[u].pc \in Channel!Refreshes /\ c \notin v6 => v5'[c] = v5[c]
        <5>1. v3[w].pc = "reconnect" => v3[w].pc \in Channel!Changes
          BY ChannelSets
        <5>. QED
          BY <1>3, <2>2, <3>1, <3>3, <5>1, Zenon DEF ChannelApart
      <4>3. v3[u].pc \in Channel!Changes /\ c \notin v7 =>
                /\ v2'[c].consent = v2[c].consent
                /\ v2'[c].status = "disconnected" => v2[c].status = "disconnected"
        BY <1>2, <1>8, <2>2, <3>1, <3>3, Zenon DEF ChannelApart
      <4>4. v3[u].pc \in {"publish", "published"} /\ c \notin v7 => v2'[c].consent # 0
        <5>1. v3[u].pc \in {"publish", "published"} => v3[u].pc \in Channel!Publications
          BY ChannelSets
        <5>2. v3[u].pc \in {"publish", "published"} /\ c \notin v7 =>
                  v3[w].pc # "disconnect" /\ v2[c].consent # 0
          BY <2>2, <3>1, <3>3, <5>1, Zenon DEF ChannelApart, ChannelReads
        <5>. QED
          BY <1>2, <5>2, Zenon
      <4>5. /\ v3[u].pc \in {"find", "reconnect", "connect"} =>
                   v3[u].grant # 0 /\ v3[u].grant <= v4
            /\ v3[u].pc \in {"refresh", "store", "publish", "published"} =>
                   v3[u].seen.consent # 0
            /\ v3[u].pc \in Channel!Refreshes /\ c \notin v6 =>
                   v3[u].seen.consent \in {0, v5[c]}
            /\ v3[u].pc \in Channel!Changes /\ c \notin v7 =>
                   /\ v3[u].seen.consent = v2[c].consent
                   /\ v2[c].status = "disconnected" => v3[u].seen.status = "disconnected"
                   /\ v3[u].seen.status = "disconnected" => v3[u].seen.consent = 0
        BY <3>1, <3>3, Zenon DEF ChannelReads
      <4>6. v3'[u] = v3[u] /\ v4' = v4 /\ v6' = v6 /\ v7' = v7 /\ d = c
        BY <3>1, <3>3
      <4>. QED
        BY <4>1, <4>2, <4>3, <4>4, <4>5, <4>6, Zenon DEF ChannelReads, Channel!Exists
    <3>. QED
      BY <3>2, <3>3
  <2>. QED
    BY <2>1, <2>2
<1>10. ASSUME NEW u \in Workers, NEW v \in Workers PROVE ChannelApart(u, v)'
  <2>1. CASE u = w \/ v = w
    BY <1>5, <2>1, ChannelSets, SMT DEF ChannelApart
  <2>2. CASE u # w /\ v # w
    BY <1>5, <2>2, Zenon DEF ChannelInv, ChannelApart
  <2>. QED
    BY <2>1, <2>2
<1>11. ChannelFirst'
  <2>1. \A u \in Workers : v3'[u].pc = "connect" => v3[u].pc = "connect"
    BY <1>5, SMT
  <2>. QED
    BY <1>6, <2>1, Zenon DEF ChannelInv, ChannelFirst
<1>12. Channel!CredentialsAreCurrent'
  BY <1>2, <1>3, Zenon DEF ChannelInv, Channel!CredentialsAreCurrent
<1>13. Channel!StatusMatchesCredentials'
  BY <1>2, Zenon DEF ChannelInv, Channel!StatusMatchesCredentials
<1>14. Channel!OneChannelPerType'
  BY <1>6, Zenon DEF ChannelInv, Channel!OneChannelPerType
<1>. QED
  BY <1>7, <1>9, <1>10, <1>11, <1>12, <1>13, <1>14, Zenon DEF ChannelInv

\* What a request knows lasts while its row stays.
LEMMA ChannelReadsStay ==
    ASSUME NEW u \in Workers, ChannelReads(u), v3'[u] = v3[u], v2' = v2, v5' = v5,
           v6 \subseteq v6', v7 \subseteq v7', v4 \in Nat, v4' = v4 \/ v4' = v4 + 1,
           v3[u].grant \in Nat
    PROVE  ChannelReads(u)'
<1>1. \A c : Channel!Exists(c)' = Channel!Exists(c)
  BY DEF Channel!Exists
<1>2. OnRow(u)' = OnRow(u)
  BY DEF OnRow
<1>3. v3[u].grant <= v4 => v3[u].grant <= v4'
  BY SMT
<1>. QED
  BY <1>1, <1>2, <1>3, Zenon DEF ChannelReads

\* So does which requests may be under way together.
LEMMA ChannelApartStays ==
    ASSUME NEW u \in Workers, NEW v \in Workers, ChannelApart(u, v),
           v6 \subseteq v6', v7 \subseteq v7',
           v3'[u].channel = v3[u].channel, v3'[v].channel = v3[v].channel,
           v3'[u].pc \in Channel!Refreshes => v3[u].pc \in Channel!Refreshes,
           v3'[u].pc \in Channel!Changes => v3[u].pc \in Channel!Changes,
           v3'[v].pc \in Channel!Changes => v3[v].pc \in Channel!Changes,
           v3'[v].pc \in Channel!Publications => v3[v].pc \in Channel!Publications,
           v3'[u].pc = "disconnect" => v3[u].pc = "disconnect"
    PROVE  ChannelApart(u, v)'
<1> DEFINE c == v3[u].channel
<1>1. v3'[v].channel = v3'[u].channel => v3[v].channel = c
  OBVIOUS
<1>2. c \notin v6' => c \notin v6
  OBVIOUS
<1>3. c \notin v7' => c \notin v7
  OBVIOUS
<1>. QED
  BY <1>1, <1>2, <1>3, Zenon DEF ChannelApart

\* A request reads the row.
LEMMA ChannelRead ==
    ASSUME ChannelInv, NEW w \in Workers, NEW d \in ChannelRequests, NEW c \in Channels,
           d.channel = c, d.seen = v2[c], Channel!Exists(c),
           d.pc \in Channel!Changes \cup Channel!Publications,
           d.pc = "reconnect" => d.grant # 0 /\ d.grant <= v4,
           d.pc \in {"refresh", "store", "publish", "published"} => v2[c].consent # 0,
           v3' = [v3 EXCEPT ![w] = d],
           v1' = v1, v2' = v2, v4' = v4, v5' = v5, v8' = v8, v9' \in 0..MaxRequests,
           v6 \subseteq v6', v7 \subseteq v7', v6' \subseteq Channels, v7' \subseteq Channels,
           c \notin v6' /\ d.pc \in Channel!Refreshes => ~Channel!Others(w, c, Channel!Changes),
           c \notin v6' /\ d.pc \in Channel!Changes => ~Channel!Others(w, c, Channel!Refreshes),
           c \notin v7' /\ d.pc \in Channel!Changes => ~Channel!Others(w, c, Channel!Changes),
           c \notin v7' /\ d.pc = "disconnect" => ~Channel!Others(w, c, Channel!Publications),
           c \notin v7' /\ d.pc \in Channel!Publications =>
               ~Channel!Others(w, c, {"disconnect"})
    PROVE  ChannelInv'
<1>1. /\ v2 \in [Channels -> Channel!Row]
      /\ \A x \in Channels : Channel!Exists(x) <=> v5[x] # 0
      /\ v3 \in [Workers -> ChannelRequests]
      /\ v4 \in 0..MaxConsents
      /\ v5 \in [Channels -> 0..v4]
      /\ v6 \subseteq Channels /\ v7 \subseteq Channels
      /\ v8 \in BOOLEAN
      /\ v9 \in 0..MaxRequests
  BY ChannelTypes DEF ChannelInv
<1>2. /\ v3' \in [Workers -> ChannelRequests] /\ v3'[w] = d
      /\ \A u \in Workers : u # w => v3'[u] = v3[u]
  BY <1>1, SMT
<1>3. \A x \in Channels : Channel!Exists(x)' = Channel!Exists(x)
  BY Zenon DEF Channel!Exists
<1>4. ChannelTyped'
  <2>1. \A x \in Channels : Channel!Exists(x)' <=> v5'[x] # 0
    BY <1>1, <1>3, SMT
  <2>2. v1' \in {"GBP", "INSTAGRAM"}
    BY DEF ChannelInv, ChannelTyped
  <2>. QED
    BY <1>1, <1>2, <2>1, <2>2, Zenon DEF ChannelTyped
<1>5. ASSUME NEW u \in Workers PROVE ChannelReads(u)'
  <2>1. CASE u = w
    <3>1. c \notin v6 => v2[c].consent \in {0, v5[c]}
      BY Zenon DEF ChannelInv, Channel!CredentialsAreCurrent
    <3>2. c \notin v7 => (v2[c].status = "disconnected" => v2[c].consent = 0)
      BY Zenon DEF ChannelInv, Channel!StatusMatchesCredentials
    <3>3. d.pc \notin {"find", "connect"}
      BY ChannelSets, SMT
    <3>4. v2[c].status # "none"
      BY DEF Channel!Exists
    <3>. QED
      BY <1>2, <2>1, <3>1, <3>2, <3>3, <3>4, SMT DEF ChannelReads, Channel!Exists
  <2>2. CASE u # w
    <3>1. v3'[u] = v3[u] /\ ChannelReads(u) /\ v3[u].grant \in Nat /\ v4 \in Nat
      BY <1>1, <1>2, <2>2, SMT DEF ChannelInv, ChannelRequests
    <3>. QED
      BY <3>1, ChannelReadsStay
  <2>. QED
    BY <2>1, <2>2
<1>6. ASSUME NEW u \in Workers, u # w, v3[u].channel = c
      PROVE  /\ c \notin v6' /\ d.pc \in Channel!Refreshes => v3[u].pc \notin Channel!Changes
             /\ c \notin v6' /\ d.pc \in Channel!Changes => v3[u].pc \notin Channel!Refreshes
             /\ c \notin v7' /\ d.pc \in Channel!Changes => v3[u].pc \notin Channel!Changes
             /\ c \notin v7' /\ d.pc = "disconnect" => v3[u].pc \notin Channel!Publications
             /\ c \notin v7' /\ d.pc \in Channel!Publications => v3[u].pc # "disconnect"
  BY <1>6, Zenon DEF Channel!Others
<1>7. ASSUME NEW u \in Workers, NEW v \in Workers PROVE ChannelApart(u, v)'
  <2>1. CASE u = w /\ v # w
    BY <1>2, <1>6, <2>1, Zenon DEF ChannelApart
  <2>2. CASE v = w /\ u # w
    BY <1>2, <1>6, <2>2, Zenon DEF ChannelApart
  <2>3. CASE u # w /\ v # w
    <3>1. ChannelApart(u, v) /\ v3'[u] = v3[u] /\ v3'[v] = v3[v]
      BY <1>2, <2>3 DEF ChannelInv
    <3>. QED
      BY <3>1, SMT DEF ChannelApart
  <2>4. CASE u = v
    BY <2>4 DEF ChannelApart
  <2>. QED
    BY <2>1, <2>2, <2>3, <2>4
<1>8. ChannelFirst'
  <2>1. d.pc # "connect"
    BY ChannelSets, SMT
  <2>2. \A u \in Workers : v3'[u].pc = "connect" => v3[u].pc = "connect"
    BY <1>2, <2>1, Zenon
  <2>. QED
    BY <1>3, <2>2, Zenon DEF ChannelInv, ChannelFirst
<1>9. Channel!CredentialsAreCurrent' /\ Channel!StatusMatchesCredentials'
  BY SMT DEF ChannelInv, Channel!CredentialsAreCurrent, Channel!StatusMatchesCredentials
<1>10. Channel!OneChannelPerType'
  BY <1>3, Zenon DEF ChannelInv, Channel!OneChannelPerType
<1>. QED
  BY <1>4, <1>5, <1>7, <1>8, <1>9, <1>10, Zenon DEF ChannelInv

\* A request on a row goes on.
LEMMA ChannelMove ==
    ASSUME ChannelInv, NEW w \in Workers, NEW pc \in ChannelPcs,
           \/ v3[w].pc = "refresh" /\ pc \in {"store", "expire"}
           \/ v3[w].pc = "publish" /\ pc \in {"published", "failed"},
           v3' = [v3 EXCEPT ![w].pc = pc],
           v1' = v1, v2' = v2, v4' = v4, v5' = v5, v6' = v6, v7' = v7, v8' = v8, v9' = v9
    PROVE  ChannelInv'
<1>1. /\ v2 \in [Channels -> Channel!Row]
      /\ \A x \in Channels : Channel!Exists(x) <=> v5[x] # 0
      /\ v3 \in [Workers -> ChannelRequests]
      /\ v4 \in 0..MaxConsents
      /\ v5 \in [Channels -> 0..v4]
      /\ v6 \subseteq Channels /\ v7 \subseteq Channels
      /\ v8 \in BOOLEAN
      /\ v9 \in 0..MaxRequests
  BY ChannelTypes DEF ChannelInv
<1>2. /\ v3' \in [Workers -> ChannelRequests] /\ v3'[w] = [v3[w] EXCEPT !.pc = pc]
      /\ \A u \in Workers : u # w => v3'[u] = v3[u]
  BY <1>1, SMT DEF ChannelRequests
<1>3. v3'[w].pc = pc /\ v3'[w].channel = v3[w].channel /\ v3'[w].seen = v3[w].seen
      /\ v3'[w].grant = v3[w].grant
  BY <1>1, <1>2, SMT DEF ChannelRequests
<1>4. /\ pc \notin {"find", "reconnect", "connect", "disconnect"}
      /\ pc \in {"refresh", "store", "publish", "published"} =>
             v3[w].pc \in {"refresh", "store", "publish", "published"}
      /\ pc \in {"publish", "published"} => v3[w].pc \in {"publish", "published"}
      /\ pc \in Channel!Refreshes <=> v3[w].pc \in Channel!Refreshes
      /\ pc \in Channel!Changes <=> v3[w].pc \in Channel!Changes
      /\ pc \in Channel!Publications <=> v3[w].pc \in Channel!Publications
      /\ v3[w].pc \notin {"find", "reconnect", "connect", "disconnect"}
  BY ChannelSets, SMT
<1>5. \A x \in Channels : Channel!Exists(x)' = Channel!Exists(x)
  BY Zenon DEF Channel!Exists
<1>6. ChannelTyped'
  <2>1. \A x \in Channels : Channel!Exists(x)' <=> v5'[x] # 0
    BY <1>1, <1>5, SMT
  <2>2. v1' \in {"GBP", "INSTAGRAM"}
    BY DEF ChannelInv, ChannelTyped
  <2>. QED
    BY <1>1, <1>2, <2>1, <2>2, Zenon DEF ChannelTyped
<1>7. ASSUME NEW u \in Workers PROVE ChannelReads(u)'
  <2>1. CASE u = w
    <3>1. ChannelReads(w)
      BY DEF ChannelInv
    <3>. QED
      BY <1>3, <1>4, <2>1, <3>1, SMT DEF ChannelReads, OnRow, Channel!Exists
  <2>2. CASE u # w
    <3>1. v3'[u] = v3[u] /\ ChannelReads(u) /\ v3[u].grant \in Nat /\ v4 \in Nat
      BY <1>1, <1>2, <2>2, SMT DEF ChannelInv, ChannelRequests
    <3>. QED
      BY <3>1, ChannelReadsStay
  <2>. QED
    BY <2>1, <2>2
<1>8. \A u \in Workers :
          /\ v3'[u].channel = v3[u].channel
          /\ v3'[u].pc \in Channel!Refreshes <=> v3[u].pc \in Channel!Refreshes
          /\ v3'[u].pc \in Channel!Changes <=> v3[u].pc \in Channel!Changes
          /\ v3'[u].pc \in Channel!Publications <=> v3[u].pc \in Channel!Publications
          /\ v3'[u].pc = "disconnect" <=> v3[u].pc = "disconnect"
          /\ v3'[u].pc = "connect" <=> v3[u].pc = "connect"
  BY <1>2, <1>3, <1>4, SMT
<1>9. ASSUME NEW u \in Workers, NEW v \in Workers PROVE ChannelApart(u, v)'
  <2>1. ChannelApart(u, v)
    BY DEF ChannelInv
  <2>. QED
    BY <1>8, <2>1, ChannelApartStays
<1>10. ChannelFirst'
  BY <1>5, <1>8, Zenon DEF ChannelInv, ChannelFirst
<1>11. Channel!CredentialsAreCurrent' /\ Channel!StatusMatchesCredentials'
  BY SMT DEF ChannelInv, Channel!CredentialsAreCurrent, Channel!StatusMatchesCredentials
<1>12. Channel!OneChannelPerType'
  BY <1>5, Zenon DEF ChannelInv, Channel!OneChannelPerType
<1>. QED
  BY <1>6, <1>7, <1>9, <1>10, <1>11, <1>12, Zenon DEF ChannelInv

\* What is known of a request that is about to write its row.
LEMMA ChannelAtRow ==
    ASSUME ChannelInv, NEW w \in Workers, OnRow(w)
    PROVE  LET c == v3[w].channel IN
           /\ c \in Channels /\ Channel!Exists(c) /\ v5[c] \in 1..v4
           /\ v2[c] \in Channel!Row /\ v3[w].seen \in Channel!Row /\ v2[c].status # "none"
           /\ v2 = [v2 EXCEPT ![c] = v2[c]] /\ v5 = [v5 EXCEPT ![c] = v5[c]]
           /\ c \notin v6 => v2[c].consent \in {0, v5[c]}
           /\ c \notin v7 => /\ v2[c].status = "connected" => v2[c].consent # 0
                             /\ v2[c].status = "disconnected" => v2[c].consent = 0
<1> DEFINE c == v3[w].channel
<1>1. ChannelReads(w) /\ v2 \in [Channels -> Channel!Row] /\ v3 \in [Workers -> ChannelRequests]
      /\ v5 \in [Channels -> 0..v4] /\ v4 \in 0..MaxConsents
      /\ (\A x \in Channels : Channel!Exists(x) <=> v5[x] # 0)
  BY ChannelTypes DEF ChannelInv
<1>2. c \in Channels /\ Channel!Exists(c)
  BY <1>1 DEF ChannelReads
<1>3. v3[w].seen \in Channel!Row
  BY <1>1, SMT DEF ChannelRequests
<1>4. v5[c] \in 1..v4
  BY <1>1, <1>2, ChannelConstants, SMT
<1>5. v2[c] \in Channel!Row /\ v2 = [v2 EXCEPT ![c] = v2[c]] /\ v5 = [v5 EXCEPT ![c] = v5[c]]
  BY <1>1, <1>2, SMT
<1>6. v2[c].status # "none"
  BY <1>2 DEF Channel!Exists
<1>7. c \notin v6 => v2[c].consent \in {0, v5[c]}
  BY <1>2, Zenon DEF ChannelInv, Channel!CredentialsAreCurrent
<1>8. c \notin v7 => /\ v2[c].status = "connected" => v2[c].consent # 0
                     /\ v2[c].status = "disconnected" => v2[c].consent = 0
  BY <1>2, Zenon DEF ChannelInv, Channel!StatusMatchesCredentials
<1>. QED
  BY <1>2, <1>3, <1>4, <1>5, <1>6, <1>7, <1>8

\* A column of a row is set.
LEMMA RowStatus ==
    ASSUME NEW r \in Channel!Row, NEW status \in Channel!Statuses
    PROVE  /\ [r EXCEPT !.status = status] \in Channel!Row
           /\ [r EXCEPT !.status = status].status = status
           /\ [r EXCEPT !.status = status].consent = r.consent
  BY SMT DEF Channel!Row

LEMMA RowConsent ==
    ASSUME NEW r \in Channel!Row, NEW consent \in 0..MaxConsents
    PROVE  /\ [r EXCEPT !.consent = consent] \in Channel!Row
           /\ [r EXCEPT !.consent = consent].status = r.status
           /\ [r EXCEPT !.consent = consent].consent = consent
  BY SMT DEF Channel!Row

LEMMA RowActive ==
    ASSUME NEW r \in Channel!Row, NEW active \in BOOLEAN
    PROVE  /\ [r EXCEPT !.active = active] \in Channel!Row
           /\ [r EXCEPT !.active = active].status = r.status
           /\ [r EXCEPT !.active = active].consent = r.consent
  BY SMT DEF Channel!Row

\* A request writes the status of its row, or leaves it if that is what it read.
ChannelWrites(w, status) ==
    LET c == v3[w].channel IN
    /\ \A x \in Channels : x # c => v2'[x] = v2[x]
    /\ v2'[c].status = IF status = v3[w].seen.status THEN v2[c].status ELSE status
    /\ v3' = [v3 EXCEPT ![w] = Channel!Idle]

\* A callback stores the credentials in the row it has found.
LEMMA ChannelReconnect ==
    ASSUME ChannelInv, NEW w \in Workers, Channel!Reconnect(w)
    PROVE  ChannelInv' /\ ChannelWrites(w, "connected")
<1> DEFINE c == v3[w].channel
           k == v3[w].grant
           seen == v3[w].seen
           change == [seen EXCEPT !.status = "connected", !.consent = k]
           row == [f \in DOMAIN change |-> IF f # "consent" /\ change[f] = seen[f]
                                           THEN v2[c][f] ELSE change[f]]
<1>1. /\ v3[w].pc = "reconnect"
      /\ v2' = [v2 EXCEPT ![c] = row] /\ v5' = [v5 EXCEPT ![c] = k]
      /\ v3' = [v3 EXCEPT ![w] = Channel!Idle]
      /\ v1' = v1 /\ v4' = v4 /\ v6' = v6 /\ v7' = v7 /\ v8' = v8 /\ v9' = v9
  BY Zenon DEF Channel!Reconnect, Channel!StoreConsent, Channel!Finish, Channel!At
<1>2. OnRow(w) /\ v3[w].pc \in Channel!Changes /\ v3[w].pc \notin Channel!Publications
  BY <1>1, ChannelSets, SMT DEF OnRow
<1>3. ChannelReads(w) /\ v3 \in [Workers -> ChannelRequests] /\ v4 \in 0..MaxConsents
  BY ChannelTypes DEF ChannelInv
<1>4. k # 0 /\ k <= v4
  BY <1>1, <1>3 DEF ChannelReads
<1>5. k \in 1..v4 /\ k \in 0..MaxConsents
  BY <1>3, <1>4, ChannelConstants, SMT DEF ChannelRequests
<1>6. /\ c \in Channels /\ Channel!Exists(c)
      /\ v2[c] \in Channel!Row /\ seen \in Channel!Row /\ v2[c].status # "none"
      /\ c \notin v7 => /\ v2[c].status = "connected" => v2[c].consent # 0
                        /\ v2[c].status = "disconnected" => v2[c].consent = 0
  BY <1>2, ChannelAtRow
<1>7. "connected" \in Channel!Statuses
  BY SMT DEF Channel!Statuses
<1>8. change \in Channel!Row /\ change.status = "connected" /\ change.consent = k
  <2> DEFINE connected == [seen EXCEPT !.status = "connected"]
             granted == [connected EXCEPT !.consent = k]
  <2>1. change = granted
    OBVIOUS
  <2>2. connected \in Channel!Row /\ connected.status = "connected"
    BY <1>6, <1>7, RowStatus
  <2>. HIDE DEF connected
  <2>3. granted \in Channel!Row /\ granted.status = "connected" /\ granted.consent = k
    BY <1>5, <2>2, RowConsent
  <2>. HIDE DEF granted, change
  <2>. QED
    BY <2>1, <2>3
<1>. HIDE DEF change
<1>9. /\ row \in Channel!Row
      /\ row.status = IF seen.status = "connected" THEN v2[c].status ELSE "connected"
      /\ row.consent = k
  BY <1>6, <1>8, StoredConsent
<1>10. c \notin v7 => (v2[c].status = "disconnected" => seen.status = "disconnected")
  BY <1>2, <1>3 DEF ChannelReads
<1>. HIDE DEF row, c, k, seen
<1>11. /\ row.status # "none" /\ row.consent # 0
       /\ c \notin v7 => row.status # "disconnected"
  BY <1>4, <1>6, <1>9, <1>10, SMT
<1>12. ChannelInv'
  BY <1>1, <1>2, <1>5, <1>6, <1>9, <1>11, ChannelWrite DEF c
<1>13. v2'[c] = row /\ \A x \in Channels : x # c => v2'[x] = v2[x]
  BY <1>1, <1>6, ChannelTypes, Zenon DEF ChannelInv
<1>. QED
  BY <1>1, <1>9, <1>12, <1>13, Zenon DEF ChannelWrites, c, seen

\* A disconnection is committed.
LEMMA ChannelDisconnected ==
    ASSUME ChannelInv, NEW w \in Workers, Channel!CommitDisconnection(w)
    PROVE  ChannelInv' /\ ChannelWrites(w, "disconnected")
<1> DEFINE c == v3[w].channel
           seen == v3[w].seen
           change == [seen EXCEPT !.status = "disconnected", !.consent = 0, !.active = FALSE]
           row == [f \in DOMAIN change |-> IF change[f] = seen[f]
                                           THEN v2[c][f] ELSE change[f]]
<1>1. /\ v3[w].pc = "disconnect"
      /\ v2' = [v2 EXCEPT ![c] = row] /\ v5' = v5
      /\ v3' = [v3 EXCEPT ![w] = Channel!Idle]
      /\ v1' = v1 /\ v4' = v4 /\ v6' = v6 /\ v7' = v7 /\ v8' = v8 /\ v9' = v9
  BY Zenon DEF Channel!CommitDisconnection, Channel!Store, Channel!Finish, Channel!At,
               Channel!history
<1>2. OnRow(w) /\ v3[w].pc \in Channel!Changes /\ v3[w].pc \notin Channel!Publications
  BY <1>1, ChannelSets, SMT DEF OnRow
<1>3. ChannelReads(w)
  BY DEF ChannelInv
<1>4. /\ c \in Channels /\ Channel!Exists(c) /\ v5[c] \in 1..v4
      /\ v2[c] \in Channel!Row /\ seen \in Channel!Row /\ v2[c].status # "none"
      /\ v5 = [v5 EXCEPT ![c] = v5[c]]
      /\ c \notin v6 => v2[c].consent \in {0, v5[c]}
      /\ c \notin v7 => /\ v2[c].status = "connected" => v2[c].consent # 0
                        /\ v2[c].status = "disconnected" => v2[c].consent = 0
  BY <1>2, ChannelAtRow
<1>5. "disconnected" \in Channel!Statuses /\ 0 \in 0..MaxConsents /\ FALSE \in BOOLEAN
  BY ChannelConstants, SMT DEF Channel!Statuses
<1>6. change \in Channel!Row /\ change.status = "disconnected" /\ change.consent = 0
  <2> DEFINE marked == [seen EXCEPT !.status = "disconnected"]
             emptied == [marked EXCEPT !.consent = 0]
             stopped == [emptied EXCEPT !.active = FALSE]
  <2>1. change = stopped
    OBVIOUS
  <2>2. marked \in Channel!Row /\ marked.status = "disconnected"
    BY <1>4, <1>5, RowStatus
  <2>. HIDE DEF marked
  <2>3. emptied \in Channel!Row /\ emptied.status = "disconnected" /\ emptied.consent = 0
    BY <1>5, <2>2, RowConsent
  <2>. HIDE DEF emptied
  <2>4. stopped \in Channel!Row /\ stopped.status = "disconnected" /\ stopped.consent = 0
    BY <1>5, <2>3, RowActive
  <2>. HIDE DEF stopped, change
  <2>. QED
    BY <2>1, <2>4
<1>. HIDE DEF change
<1>7. /\ row \in Channel!Row
      /\ row.status = IF "disconnected" = seen.status THEN v2[c].status ELSE "disconnected"
      /\ row.consent = IF 0 = seen.consent THEN v2[c].consent ELSE 0
  BY <1>4, <1>6, StoredRow
<1>8. c \notin v7 => /\ v2[c].status = "disconnected" => seen.status = "disconnected"
                     /\ seen.consent = v2[c].consent
                     /\ seen.status = "disconnected" => seen.consent = 0
  BY <1>2, <1>3 DEF ChannelReads
<1>. HIDE DEF row, c, seen
<1>9. /\ row.status # "none"
      /\ c \notin v6 => row.consent \in {0, v5[c]}
      /\ c \notin v7 => /\ row.status = "connected" => row.consent # 0
                        /\ row.status = "disconnected" => row.consent = 0
  BY <1>4, <1>7, <1>8, SMT
<1>10. v5' = [v5 EXCEPT ![c] = v5[c]]
  BY <1>1, <1>4
<1>11. ChannelInv'
  BY <1>1, <1>2, <1>4, <1>7, <1>9, <1>10, ChannelWrite DEF c
<1>12. v2'[c] = row /\ \A x \in Channels : x # c => v2'[x] = v2[x]
  BY <1>1, <1>4, ChannelTypes, Zenon DEF ChannelInv
<1>. QED
  BY <1>1, <1>7, <1>11, <1>12, Zenon DEF ChannelWrites, c, seen

\* A refresh stores the access token it was given.
LEMMA ChannelRefreshed ==
    ASSUME ChannelInv, NEW w \in Workers, Channel!CommitRefresh(w)
    PROVE  ChannelInv' /\ ChannelWrites(w, "connected")
<1> DEFINE c == v3[w].channel
           seen == v3[w].seen
           change == [seen EXCEPT !.status = "connected"]
           row == [f \in DOMAIN change |-> IF f # "consent" /\ change[f] = seen[f]
                                           THEN v2[c][f] ELSE change[f]]
<1>1. /\ v3[w].pc = "store"
      /\ v2' = [v2 EXCEPT ![c] = row] /\ v5' = v5
      /\ v3' = [v3 EXCEPT ![w] = Channel!Idle]
      /\ v1' = v1 /\ v4' = v4 /\ v6' = v6 /\ v7' = v7 /\ v8' = v8 /\ v9' = v9
  BY Zenon DEF Channel!CommitRefresh, Channel!StoreConsent, Channel!Finish, Channel!At,
               Channel!history
<1>2. OnRow(w) /\ v3[w].pc \in Channel!Changes /\ v3[w].pc \notin Channel!Publications
      /\ v3[w].pc \in Channel!Refreshes
  BY <1>1, ChannelSets, SMT DEF OnRow
<1>3. ChannelReads(w)
  BY DEF ChannelInv
<1>4. /\ c \in Channels /\ Channel!Exists(c) /\ v5[c] \in 1..v4
      /\ v2[c] \in Channel!Row /\ seen \in Channel!Row /\ v2[c].status # "none"
      /\ v5 = [v5 EXCEPT ![c] = v5[c]]
      /\ c \notin v7 => /\ v2[c].status = "connected" => v2[c].consent # 0
                        /\ v2[c].status = "disconnected" => v2[c].consent = 0
  BY <1>2, ChannelAtRow
<1>5. "connected" \in Channel!Statuses /\ 0 \in 0..MaxConsents
  BY ChannelConstants, SMT DEF Channel!Statuses
<1>6. change \in Channel!Row /\ change.status = "connected" /\ change.consent = seen.consent
  BY <1>4, <1>5, RowStatus
<1>. HIDE DEF change
<1>7. /\ row \in Channel!Row
      /\ row.status = IF "connected" = seen.status THEN v2[c].status ELSE "connected"
      /\ row.consent = seen.consent
  BY <1>4, <1>6, StoredConsent
<1>8. /\ seen.consent # 0
      /\ c \notin v6 => seen.consent \in {0, v5[c]}
      /\ c \notin v7 => (v2[c].status = "disconnected" => seen.status = "disconnected")
  BY <1>1, <1>2, <1>3 DEF ChannelReads
<1>. HIDE DEF row, c, seen
<1>9. /\ row.status # "none" /\ row.consent # 0
      /\ c \notin v6 => row.consent \in {0, v5[c]}
      /\ c \notin v7 => row.status # "disconnected"
  BY <1>4, <1>7, <1>8, SMT
<1>10. v5' = [v5 EXCEPT ![c] = v5[c]]
  BY <1>1, <1>4
<1>11. ChannelInv'
  BY <1>1, <1>2, <1>4, <1>7, <1>9, <1>10, ChannelWrite DEF c
<1>12. v2'[c] = row /\ \A x \in Channels : x # c => v2'[x] = v2[x]
  BY <1>1, <1>4, ChannelTypes, Zenon DEF ChannelInv
<1>. QED
  BY <1>1, <1>7, <1>11, <1>12, Zenon DEF ChannelWrites, c, seen

\* A refresh that failed and a publication leave the credentials as they are.
LEMMA ChannelOutcome ==
    ASSUME ChannelInv, NEW w \in Workers,
           \/ Channel!MarkRefreshFailure(w)
           \/ Channel!StorePublished(w)
           \/ Channel!StoreFailure(w)
    PROVE  /\ ChannelInv'
           /\ \E status \in {"connected", "expired", "error"} :
                  /\ status = "connected" <=> v3[w].pc = "published"
                  /\ ChannelWrites(w, status)
<1> DEFINE c == v3[w].channel
           seen == v3[w].seen
           change(status) == [seen EXCEPT !.status = status]
           row(status) == [f \in DOMAIN change(status) |->
                              IF change(status)[f] = seen[f] THEN v2[c][f] ELSE change(status)[f]]
<1>1. PICK status \in {"connected", "expired", "error"} :
         /\ v3[w].pc \in {"expire", "published", "failed"}
         /\ status = "connected" <=> v3[w].pc = "published"
         /\ v2' = [v2 EXCEPT ![c] = row(status)] /\ v5' = v5
         /\ v3' = [v3 EXCEPT ![w] = Channel!Idle]
         /\ v1' = v1 /\ v4' = v4 /\ v6' = v6 /\ v7' = v7 /\ v8' = v8 /\ v9' = v9
  <2>1. CASE Channel!MarkRefreshFailure(w)
    <3>1. v3[w].pc = "expire" /\ v2' = [v2 EXCEPT ![c] = row("expired")] /\ v5' = v5
          /\ v3' = [v3 EXCEPT ![w] = Channel!Idle]
          /\ v1' = v1 /\ v4' = v4 /\ v6' = v6 /\ v7' = v7 /\ v8' = v8 /\ v9' = v9
      BY <2>1, Zenon
         DEF Channel!MarkRefreshFailure, Channel!Store, Channel!Finish, Channel!At,
                         Channel!history
    <3>. HIDE DEF row
    <3>. QED
      BY <3>1, SMT
  <2>2. CASE Channel!StorePublished(w)
    <3>1. v3[w].pc = "published" /\ v2' = [v2 EXCEPT ![c] = row("connected")] /\ v5' = v5
          /\ v3' = [v3 EXCEPT ![w] = Channel!Idle]
          /\ v1' = v1 /\ v4' = v4 /\ v6' = v6 /\ v7' = v7 /\ v8' = v8 /\ v9' = v9
      BY <2>2, Zenon DEF Channel!StorePublished, Channel!Store, Channel!Finish, Channel!At,
                         Channel!history
    <3>. HIDE DEF row
    <3>. QED
      BY <3>1, SMT
  <2>3. CASE Channel!StoreFailure(w)
    <3>1. PICK s \in {"expired", "error"} : v2' = [v2 EXCEPT ![c] = row(s)]
      BY <2>3, Zenon DEF Channel!StoreFailure, Channel!Store
    <3>2. v3[w].pc = "failed" /\ v5' = v5
          /\ v3' = [v3 EXCEPT ![w] = Channel!Idle]
          /\ v1' = v1 /\ v4' = v4 /\ v6' = v6 /\ v7' = v7 /\ v8' = v8 /\ v9' = v9
      BY <2>3, Zenon DEF Channel!StoreFailure, Channel!Finish, Channel!At, Channel!history
    <3>3. s \in {"connected", "expired", "error"} /\ s # "connected"
      BY SMT
    <3>4. v3[w].pc \in {"expire", "published", "failed"} /\ v3[w].pc # "published"
      BY <3>2, SMT
    <3>. HIDE DEF row
    <3>. QED
      BY <3>1, <3>2, <3>3, <3>4, Zenon
  <2>. QED
    BY <2>1, <2>2, <2>3
<1>2. OnRow(w) /\ v3[w].pc # "reconnect"
  BY <1>1, ChannelSets, SMT DEF OnRow
<1>3. ChannelReads(w)
  BY DEF ChannelInv
<1>4. /\ c \in Channels /\ Channel!Exists(c) /\ v5[c] \in 1..v4
      /\ v2[c] \in Channel!Row /\ seen \in Channel!Row /\ v2[c].status # "none"
      /\ v5 = [v5 EXCEPT ![c] = v5[c]]
      /\ c \notin v6 => v2[c].consent \in {0, v5[c]}
      /\ c \notin v7 => /\ v2[c].status = "connected" => v2[c].consent # 0
                        /\ v2[c].status = "disconnected" => v2[c].consent = 0
  BY <1>2, ChannelAtRow
<1>5. status \in Channel!Statuses /\ 0 \in 0..MaxConsents
  BY ChannelConstants, SMT DEF Channel!Statuses
<1> DEFINE changed == [seen EXCEPT !.status = status]
           new == [f \in DOMAIN changed |-> IF changed[f] = seen[f] THEN v2[c][f] ELSE changed[f]]
<1>6. /\ changed \in Channel!Row /\ changed.status = status
      /\ changed.consent = seen.consent
  BY <1>4, <1>5, RowStatus
<1>7. v2' = [v2 EXCEPT ![c] = new]
  BY <1>1
<1>. HIDE DEF changed
<1>8. /\ new \in Channel!Row
      /\ new.status = IF status = seen.status THEN v2[c].status ELSE status
      /\ new.consent = v2[c].consent
  BY <1>4, <1>6, StoredRow
<1>9. status = "connected" /\ c \notin v7 => v2[c].consent # 0
  BY <1>1, <1>3 DEF ChannelReads
<1>10. v5' = [v5 EXCEPT ![c] = v5[c]]
  BY <1>1, <1>4
<1>. HIDE DEF new, row, c, seen
<1>11. /\ new.status # "none"
       /\ new.status = "disconnected" => v2[c].status = "disconnected"
       /\ c \notin v7 => /\ new.status = "connected" => new.consent # 0
                         /\ new.status = "disconnected" => new.consent = 0
  BY <1>1, <1>4, <1>8, <1>9, SMT
<1>12. ChannelInv'
  BY <1>1, <1>2, <1>4, <1>8, <1>10, <1>11, <1>7, ChannelWrite DEF c
<1>13. v2'[c] = new /\ \A x \in Channels : x # c => v2'[x] = v2[x]
  BY <1>4, <1>7, ChannelTypes, Zenon DEF ChannelInv
<1>14. ChannelWrites(w, status)
  BY <1>1, <1>8, <1>13, Zenon DEF ChannelWrites, c, seen
<1>. QED
  BY <1>1, <1>12, <1>14, Zenon

\* One element of a function is set twice.
LEMMA WrittenTwice ==
    ASSUME NEW S, NEW T, NEW f \in [S -> T], NEW s \in S, NEW x, NEW y
    PROVE  /\ [[f EXCEPT ![s] = x] EXCEPT ![s] = y] = [f EXCEPT ![s] = y]
           /\ [[f EXCEPT ![s] = x] EXCEPT ![s] = y][s] = y
<1> DEFINE once == [f EXCEPT ![s] = x]
           twice == [once EXCEPT ![s] = y]
           g == [e \in S |-> IF e = s THEN y ELSE f[e]]
<1>1. DOMAIN f = S
  OBVIOUS
<1>2. once = [e \in S |-> IF e = s THEN x ELSE f[e]]
  BY <1>1, Zenon
<1>3. [f EXCEPT ![s] = y] = g
  BY <1>1, Zenon
<1>. HIDE DEF once
<1>4. DOMAIN once = S
  BY <1>2, Zenon
<1>5. twice = [e \in S |-> IF e = s THEN y ELSE once[e]]
  BY <1>4, Zenon
<1>6. \A e \in S : e # s => once[e] = f[e]
  BY <1>2, Zenon
<1>7. twice = g
  BY <1>5, <1>6, Zenon
<1>8. g[s] = y
  BY Zenon
<1>. QED
  BY <1>3, <1>7, <1>8 DEF once

\* What a request becomes that has exchanged a consent, or has found a row.
LEMMA ExchangedRequest ==
    ASSUME ChannelInv, NEW w \in Workers, Channel!Exchange(w)
    PROVE  \E d \in ChannelRequests :
              /\ v3' = [v3 EXCEPT ![w] = d]
              /\ d.pc = "find" /\ d.channel = v3[w].channel /\ d.grant = v4 + 1
<1> DEFINE grant == v4 + 1
           found == [v3[w] EXCEPT !.pc = "find"]
           exchanged == [found EXCEPT !.grant = grant]
<1>1. v3 \in [Workers -> ChannelRequests] /\ grant \in 0..MaxConsents
  <2>1. v3 \in [Workers -> ChannelRequests] /\ v4 \in 0..MaxConsents
    BY ChannelTypes DEF ChannelInv
  <2>2. v4 < MaxConsents
    BY Zenon DEF Channel!Exchange
  <2>. QED
    BY <2>1, <2>2, ChannelConstants, SMT
<1>2. v3' = [v3 EXCEPT ![w].pc = "find", ![w].grant = grant]
  BY Zenon DEF Channel!Exchange
<1>. HIDE DEF grant
<1>3. exchanged \in ChannelRequests /\ exchanged.pc = "find" /\ exchanged.grant = grant
      /\ exchanged.channel = v3[w].channel
  <2>1. found \in ChannelRequests /\ found.pc = "find" /\ found.channel = v3[w].channel
    BY <1>1, SMT DEF ChannelRequests, ChannelPcs
  <2>. HIDE DEF found
  <2>. QED
    BY <1>1, <2>1, SMT DEF ChannelRequests
<1>4. v3' = [v3 EXCEPT ![w] = exchanged]
  <2> DEFINE once == [v3 EXCEPT ![w].pc = "find"]
  <2>1. once = [v3 EXCEPT ![w] = found] /\ once[w] = found
    BY <1>1, SMT DEF ChannelRequests
  <2>2. v3' = [once EXCEPT ![w].grant = grant]
    BY <1>2
  <2>. HIDE DEF once, found
  <2>3. v3' = [once EXCEPT ![w] = exchanged]
    BY <2>1, <2>2
  <2>. HIDE DEF exchanged
  <2>. QED
    BY <2>1, <2>3
<1>. HIDE DEF exchanged
<1>. QED
  BY <1>3, <1>4 DEF grant

LEMMA FoundRequest ==
    ASSUME ChannelInv, NEW w \in Workers, Channel!Find(w), \E c \in Channels : Channel!Exists(c)
    PROVE  \E c \in Channels, d \in ChannelRequests :
              /\ Channel!Exists(c) /\ v3' = [v3 EXCEPT ![w] = d]
              /\ d.pc = "reconnect" /\ d.channel = c /\ d.seen = v2[c] /\ d.grant = v3[w].grant
              /\ Channel!NoteOverlap(w, c, Channel!Refreshes, Channel!Changes) /\ v8' = v8
<1>1. PICK c \in Channels :
         /\ Channel!Exists(c)
         /\ v3' = [v3 EXCEPT ![w].pc = "reconnect", ![w].channel = c, ![w].seen = v2[c]]
         /\ Channel!NoteOverlap(w, c, Channel!Refreshes, Channel!Changes) /\ v8' = v8
  BY Zenon DEF Channel!Find
<1>2. v3 \in [Workers -> ChannelRequests] /\ v2[c] \in Channel!Row
  BY ChannelTypes DEF ChannelInv
<1> DEFINE moved == [v3[w] EXCEPT !.pc = "reconnect"]
           chosen == [moved EXCEPT !.channel = c]
           d == [chosen EXCEPT !.seen = v2[c]]
<1>3. v3' = [v3 EXCEPT ![w] = d]
  <2> DEFINE once == [v3 EXCEPT ![w].pc = "reconnect"]
             twice == [once EXCEPT ![w].channel = c]
  <2>1. once = [v3 EXCEPT ![w] = moved] /\ once[w] = moved
    BY <1>2, SMT DEF ChannelRequests
  <2>2. v3' = [twice EXCEPT ![w].seen = v2[c]]
    BY <1>1
  <2>. HIDE DEF once, moved
  <2>3. twice = [once EXCEPT ![w] = chosen]
    BY <2>1
  <2>. HIDE DEF chosen
  <2>4. twice = [v3 EXCEPT ![w] = chosen] /\ twice[w] = chosen
    BY <1>2, <2>1, <2>3, WrittenTwice
  <2>. HIDE DEF twice
  <2>5. v3' = [twice EXCEPT ![w] = d]
    BY <2>2, <2>4
  <2>. HIDE DEF d
  <2>. QED
    BY <2>4, <2>5
<1>4. d \in ChannelRequests /\ d.pc = "reconnect" /\ d.channel = c /\ d.seen = v2[c]
      /\ d.grant = v3[w].grant
  <2>1. moved \in ChannelRequests /\ moved.pc = "reconnect" /\ moved.grant = v3[w].grant
    BY <1>2, SMT DEF ChannelRequests, ChannelPcs
  <2>. HIDE DEF moved
  <2>2. chosen \in ChannelRequests /\ chosen.pc = "reconnect" /\ chosen.channel = c
        /\ chosen.grant = v3[w].grant
    BY <1>2, <2>1, SMT DEF ChannelRequests
  <2>. HIDE DEF chosen
  <2>. QED
    BY <1>2, <2>2, SMT DEF ChannelRequests
<1>. HIDE DEF d
<1>. QED
  BY <1>1, <1>3, <1>4

\* A consent is exchanged before the row is looked for.
LEMMA ChannelExchange ==
    ASSUME ChannelInv, NEW w \in Workers, Channel!Exchange(w)
    PROVE  ChannelInv'
<1>1. /\ v2 \in [Channels -> Channel!Row]
      /\ \A x \in Channels : Channel!Exists(x) <=> v5[x] # 0
      /\ v3 \in [Workers -> ChannelRequests]
      /\ v4 \in 0..MaxConsents
      /\ v5 \in [Channels -> 0..v4]
      /\ v6 \subseteq Channels /\ v7 \subseteq Channels
      /\ v8 \in BOOLEAN
      /\ v9 \in 0..MaxRequests
  BY ChannelTypes DEF ChannelInv
<1>2. /\ v3[w].pc = "idle" /\ v4 < MaxConsents /\ v4' = v4 + 1
      /\ v3' = [v3 EXCEPT ![w].pc = "find", ![w].grant = v4 + 1]
      /\ v1' = v1 /\ v2' = v2 /\ v5' = v5 /\ v6' = v6 /\ v7' = v7 /\ v8' = v8 /\ v9' = v9
  BY Zenon DEF Channel!Exchange, Channel!At, Channel!history
<1>3. v4' \in 0..MaxConsents /\ v4 + 1 # 0 /\ v5' \in [Channels -> 0..v4']
  BY <1>1, <1>2, ChannelConstants, SMT
<1>4. PICK exchanged \in ChannelRequests :
         /\ v3' = [v3 EXCEPT ![w] = exchanged]
         /\ exchanged.pc = "find" /\ exchanged.grant = v4 + 1
  BY ExchangedRequest, Zenon
<1>6. /\ v3' \in [Workers -> ChannelRequests] /\ v3'[w] = exchanged
      /\ \A u \in Workers : u # w => v3'[u] = v3[u]
  BY <1>1, <1>4, SMT
<1>7. \A x \in Channels : Channel!Exists(x)' = Channel!Exists(x)
  BY <1>2, Zenon DEF Channel!Exists
<1>8. ChannelTyped'
  <2>1. \A x \in Channels : Channel!Exists(x)' <=> v5'[x] # 0
    BY <1>1, <1>2, <1>7, SMT
  <2>2. v1' \in {"GBP", "INSTAGRAM"}
    BY <1>2 DEF ChannelInv, ChannelTyped
  <2>. QED
    BY <1>1, <1>2, <1>3, <1>6, <2>1, <2>2, Zenon
       DEF ChannelTyped
<1>9. ASSUME NEW u \in Workers PROVE ChannelReads(u)'
  <2>1. CASE u = w
    BY <1>2, <1>3, <1>4, <1>6, <2>1, ChannelSets, SMT DEF ChannelReads, OnRow
  <2>2. CASE u # w
    <3>1. v3'[u] = v3[u] /\ ChannelReads(u) /\ v3[u].grant \in Nat /\ v4 \in Nat
      BY <1>1, <1>6, <2>2, SMT DEF ChannelInv, ChannelRequests
    <3>. QED
      BY <1>2, <3>1, ChannelReadsStay
  <2>. QED
    BY <2>1, <2>2
<1>10. ASSUME NEW u \in Workers, NEW v \in Workers PROVE ChannelApart(u, v)'
  <2>1. CASE u = w \/ v = w
    BY <1>4, <1>6, <2>1, ChannelSets, SMT DEF ChannelApart
  <2>2. CASE u # w /\ v # w
    BY <1>2, <1>6, <2>2, Zenon DEF ChannelInv, ChannelApart
  <2>. QED
    BY <2>1, <2>2
<1>11. ChannelFirst'
  <2>1. \A u \in Workers : v3'[u].pc = "connect" => v3[u].pc = "connect"
    BY <1>4, <1>6, SMT
  <2>. QED
    BY <1>2, <1>7, <2>1, Zenon DEF ChannelInv, ChannelFirst
<1>12. Channel!CredentialsAreCurrent' /\ Channel!StatusMatchesCredentials'
  BY <1>2, SMT DEF ChannelInv, Channel!CredentialsAreCurrent, Channel!StatusMatchesCredentials
<1>13. Channel!OneChannelPerType'
  BY <1>2, <1>7, Zenon DEF ChannelInv, Channel!OneChannelPerType
<1>. QED
  BY <1>8, <1>9, <1>10, <1>11, <1>12, <1>13, Zenon DEF ChannelInv

\* A row is found: the request will connect it again.
LEMMA ChannelFound ==
    ASSUME ChannelInv, NEW w \in Workers, Channel!Find(w), \E c \in Channels : Channel!Exists(c)
    PROVE  ChannelInv'
<1>1. PICK c \in Channels, d \in ChannelRequests :
         /\ Channel!Exists(c) /\ v3' = [v3 EXCEPT ![w] = d]
         /\ d.pc = "reconnect" /\ d.channel = c /\ d.seen = v2[c] /\ d.grant = v3[w].grant
         /\ Channel!NoteOverlap(w, c, Channel!Refreshes, Channel!Changes) /\ v8' = v8
  BY FoundRequest
<1>2. /\ v3[w].pc = "find"
      /\ v1' = v1 /\ v2' = v2 /\ v4' = v4 /\ v5' = v5 /\ v9' = v9
  BY Zenon DEF Channel!Find, Channel!At
<1>3. /\ v2 \in [Channels -> Channel!Row] /\ v3 \in [Workers -> ChannelRequests]
      /\ v6 \subseteq Channels /\ v7 \subseteq Channels /\ v9 \in 0..MaxRequests
  BY ChannelTypes DEF ChannelInv
<1>4. v3[w].grant # 0 /\ v3[w].grant <= v4
  BY <1>2 DEF ChannelInv, ChannelReads
<1>5. /\ v6' = IF Channel!Others(w, c, Channel!Refreshes) THEN v6 \cup {c} ELSE v6
      /\ v7' = IF Channel!Others(w, c, Channel!Changes) THEN v7 \cup {c} ELSE v7
  BY <1>1, Zenon DEF Channel!NoteOverlap
<1>6. /\ v6 \subseteq v6' /\ v7 \subseteq v7' /\ v6' \subseteq Channels /\ v7' \subseteq Channels
      /\ c \notin v6' => ~Channel!Others(w, c, Channel!Refreshes)
      /\ c \notin v7' => ~Channel!Others(w, c, Channel!Changes)
  BY <1>3, <1>5, Zenon
<1>7. /\ d.pc \in Channel!Changes \cup Channel!Publications /\ d.pc \notin Channel!Refreshes
      /\ d.pc \notin Channel!Publications /\ d.pc # "disconnect"
      /\ d.pc \notin {"refresh", "store", "publish", "published"}
  BY <1>1, ChannelSets, SMT
<1>8. d.pc = "reconnect" => d.grant # 0 /\ d.grant <= v4
  BY <1>1, <1>4
<1>9. /\ c \notin v6' /\ d.pc \in Channel!Changes => ~Channel!Others(w, c, Channel!Refreshes)
      /\ c \notin v7' /\ d.pc \in Channel!Changes => ~Channel!Others(w, c, Channel!Changes)
  BY <1>6, Zenon
<1>10. /\ v8' = v8 /\ Channel!Exists(c) /\ v3' = [v3 EXCEPT ![w] = d]
       /\ d.channel = c /\ d.seen = v2[c]
       /\ c \in Channels /\ d \in ChannelRequests
  BY <1>1, Zenon
<1>11. v9' \in 0..MaxRequests /\ v6 \subseteq v6' /\ v7 \subseteq v7'
       /\ v6' \subseteq Channels /\ v7' \subseteq Channels
  BY <1>2, <1>3, <1>6, Zenon
<1>12. /\ d.pc \in Channel!Changes \cup Channel!Publications
       /\ d.pc \in {"refresh", "store", "publish", "published"} => v2[c].consent # 0
       /\ c \notin v6' /\ d.pc \in Channel!Refreshes => ~Channel!Others(w, c, Channel!Changes)
       /\ c \notin v7' /\ d.pc = "disconnect" => ~Channel!Others(w, c, Channel!Publications)
       /\ c \notin v7' /\ d.pc \in Channel!Publications => ~Channel!Others(w, c, {"disconnect"})
  <2>1. d.pc \in {"refresh", "store", "publish", "published"} => FALSE
    BY <1>7, SMT
  <2>. QED
    BY <1>7, <2>1, Zenon
<1>13. v1' = v1 /\ v2' = v2 /\ v4' = v4 /\ v5' = v5
  BY <1>2, Zenon
<1>. QED
  BY <1>8, <1>9, <1>10, <1>11, <1>12, <1>13, ChannelRead, Zenon

\* No row is found: the request will insert one.
LEMMA ChannelNotFound ==
    ASSUME ChannelInv, NEW w \in Workers, Channel!Find(w), ~\E c \in Channels : Channel!Exists(c)
    PROVE  ChannelInv'
<1>1. /\ v2 \in [Channels -> Channel!Row]
      /\ \A x \in Channels : Channel!Exists(x) <=> v5[x] # 0
      /\ v3 \in [Workers -> ChannelRequests]
      /\ v4 \in 0..MaxConsents
      /\ v5 \in [Channels -> 0..v4]
      /\ v6 \subseteq Channels /\ v7 \subseteq Channels
      /\ v8 \in BOOLEAN
      /\ v9 \in 0..MaxRequests
  BY ChannelTypes DEF ChannelInv
<1>2. /\ v3[w].pc = "find" /\ v3' = [v3 EXCEPT ![w].pc = "connect"]
      /\ v8' = (v8 \/ \E v \in Workers \ {w} : v3[v].pc = "connect")
      /\ v1' = v1 /\ v2' = v2 /\ v4' = v4 /\ v5' = v5 /\ v6' = v6 /\ v7' = v7 /\ v9' = v9
  BY Zenon DEF Channel!Find, Channel!At, Channel!Go
<1>3. /\ v3' \in [Workers -> ChannelRequests] /\ v3'[w] = [v3[w] EXCEPT !.pc = "connect"]
      /\ \A u \in Workers : u # w => v3'[u] = v3[u]
  BY <1>1, <1>2, SMT DEF ChannelRequests, ChannelPcs
<1>4. v3'[w].pc = "connect" /\ v3'[w].grant = v3[w].grant
  BY <1>1, <1>3, SMT DEF ChannelRequests
<1>5. \A x \in Channels : Channel!Exists(x)' = Channel!Exists(x)
  BY <1>2, Zenon DEF Channel!Exists
<1>6. v8' \in BOOLEAN
  BY <1>1, <1>2, Zenon
<1>7. ChannelTyped'
  <2>1. \A x \in Channels : Channel!Exists(x)' <=> v5'[x] # 0
    BY <1>1, <1>2, <1>5, SMT
  <2>2. v1' \in {"GBP", "INSTAGRAM"}
    BY <1>2 DEF ChannelInv, ChannelTyped
  <2>. QED
    BY <1>1, <1>2, <1>3, <1>6, <2>1, <2>2, Zenon
       DEF ChannelTyped
<1>8. ASSUME NEW u \in Workers PROVE ChannelReads(u)'
  <2>1. CASE u = w
    <3>1. v3[w].grant # 0 /\ v3[w].grant <= v4
      BY <1>2 DEF ChannelInv, ChannelReads
    <3>. QED
      BY <1>2, <1>4, <2>1, <3>1, ChannelSets, SMT DEF ChannelReads, OnRow
  <2>2. CASE u # w
    <3>1. v3'[u] = v3[u] /\ ChannelReads(u) /\ v3[u].grant \in Nat /\ v4 \in Nat
      BY <1>1, <1>3, <2>2, SMT DEF ChannelInv, ChannelRequests
    <3>. QED
      BY <1>2, <3>1, ChannelReadsStay
  <2>. QED
    BY <2>1, <2>2
<1>9. ASSUME NEW u \in Workers, NEW v \in Workers PROVE ChannelApart(u, v)'
  <2>1. CASE u = w \/ v = w
    <3>1. /\ v3'[w].pc \notin Channel!Refreshes /\ v3'[w].pc \notin Channel!Changes
          /\ v3'[w].pc \notin Channel!Publications /\ v3'[w].pc # "disconnect"
      BY <1>4, ChannelSets, SMT
    <3>. QED
      BY <2>1, <3>1, Zenon DEF ChannelApart
  <2>2. CASE u # w /\ v # w
    BY <1>2, <1>3, <2>2, Zenon DEF ChannelInv, ChannelApart
  <2>. QED
    BY <2>1, <2>2
<1>10. ChannelFirst'
  <2>1. ASSUME ~v8'
        PROVE \A u, v \in Workers : v3'[u].pc = "connect" /\ v3'[v].pc = "connect" => u = v
    <3>1. \A v \in Workers : v # w => v3'[v].pc # "connect"
      BY <1>2, <1>3, <2>1, Zenon
    <3>. QED
      BY <3>1, Zenon
  <2>2. \A c \in Channels : ~Channel!Exists(c)'
    BY <1>5, Zenon
  <2>. QED
    BY <2>1, <2>2, Zenon DEF ChannelFirst
<1>11. Channel!CredentialsAreCurrent' /\ Channel!StatusMatchesCredentials'
  BY <1>2, SMT DEF ChannelInv, Channel!CredentialsAreCurrent, Channel!StatusMatchesCredentials
<1>12. Channel!OneChannelPerType'
  BY <1>5, Zenon DEF Channel!OneChannelPerType
<1>. QED
  BY <1>7, <1>8, <1>9, <1>10, <1>11, <1>12, Zenon DEF ChannelInv

\* The first connection inserts a row.
LEMMA ChannelConnect ==
    ASSUME ChannelInv, NEW w \in Workers, Channel!Connect(w)
    PROVE  ChannelInv'
<1> DEFINE k == v3[w].grant
           new == [status |-> "connected", consent |-> k, active |-> TRUE]
<1>1. /\ v2 \in [Channels -> Channel!Row]
      /\ \A x \in Channels : Channel!Exists(x) <=> v5[x] # 0
      /\ v3 \in [Workers -> ChannelRequests]
      /\ v4 \in 0..MaxConsents
      /\ v5 \in [Channels -> 0..v4]
      /\ v6 \subseteq Channels /\ v7 \subseteq Channels
      /\ v8 \in BOOLEAN
      /\ v9 \in 0..MaxRequests
  BY ChannelTypes DEF ChannelInv
<1>2. PICK c \in Channels :
         /\ ~Channel!Exists(c) /\ v2' = [v2 EXCEPT ![c] = new] /\ v5' = [v5 EXCEPT ![c] = k]
  BY Zenon DEF Channel!Connect
<1>3. /\ v3[w].pc = "connect" /\ v3' = [v3 EXCEPT ![w] = Channel!Idle]
      /\ v1' = v1 /\ v4' = v4 /\ v6' = v6 /\ v7' = v7 /\ v8' = v8 /\ v9' = v9
  BY Zenon DEF Channel!Connect, Channel!At, Channel!Finish
<1>4. k # 0 /\ k <= v4
  BY <1>3 DEF ChannelInv, ChannelReads
<1>5. k \in 1..v4 /\ k \in 0..MaxConsents
  BY <1>1, <1>4, ChannelConstants, SMT DEF ChannelRequests
<1>6. new \in Channel!Row /\ new.status = "connected" /\ new.consent = k
  BY <1>5, SMT DEF Channel!Row, Channel!Statuses
<1>. HIDE DEF new, k
<1>7. /\ v2' \in [Channels -> Channel!Row] /\ v2'[c] = new
      /\ \A x \in Channels : x # c => v2'[x] = v2[x]
  BY <1>1, <1>2, <1>6, SMT
<1>8. /\ v5' \in [Channels -> 0..v4] /\ v5'[c] = k
      /\ \A x \in Channels : x # c => v5'[x] = v5[x]
  BY <1>1, <1>2, <1>5, SMT
<1>9. Channel!Idle \in ChannelRequests /\ Channel!Idle.pc = "idle"
  BY ChannelConstants, SMT DEF Channel!Idle, ChannelRequests, ChannelPcs, Channel!NoRow,
                               Channel!Row, Channel!Statuses
<1>10. /\ v3' \in [Workers -> ChannelRequests] /\ v3'[w].pc = "idle"
       /\ \A u \in Workers : u # w => v3'[u] = v3[u]
  BY <1>1, <1>3, <1>9, SMT
<1>11. /\ Channel!Exists(c)'
       /\ \A x \in Channels : x # c => Channel!Exists(x)' = Channel!Exists(x)
  BY <1>6, <1>7, SMT DEF Channel!Exists
<1>12. ChannelTyped'
  <2>1. \A x \in Channels : Channel!Exists(x)' <=> v5'[x] # 0
    BY <1>1, <1>4, <1>8, <1>11, SMT
  <2>2. v1' \in {"GBP", "INSTAGRAM"}
    BY <1>3 DEF ChannelInv, ChannelTyped
  <2>. QED
    BY <1>1, <1>3, <1>7, <1>8, <1>10, <2>1, <2>2, Zenon
       DEF ChannelTyped
<1>13. ASSUME NEW u \in Workers PROVE ChannelReads(u)'
  <2>1. CASE u = w
    BY <1>10, <2>1, ChannelSets, SMT DEF ChannelReads, OnRow
  <2>2. CASE u # w
    <3>1. v3'[u] = v3[u] /\ ChannelReads(u)
      BY <1>10, <2>2 DEF ChannelInv
    <3> DEFINE d == v3[u].channel
    <3>2. OnRow(u) => d \in Channels /\ d # c
      BY <1>2, <3>1 DEF ChannelReads
    <3>3. OnRow(u) => v2'[d] = v2[d] /\ v5'[d] = v5[d] /\ Channel!Exists(d)'
      BY <1>7, <1>8, <1>11, <3>1, <3>2 DEF ChannelReads
    <3>4. OnRow(u)' = OnRow(u)
      BY <3>1 DEF OnRow
    <3>. QED
      BY <1>3, <3>1, <3>2, <3>3, <3>4, ChannelSets, SMT DEF ChannelReads, OnRow
  <2>. QED
    BY <2>1, <2>2
<1>14. ASSUME NEW u \in Workers, NEW v \in Workers PROVE ChannelApart(u, v)'
  <2>1. CASE u = w \/ v = w
    BY <1>10, <2>1, ChannelSets, SMT DEF ChannelApart
  <2>2. CASE u # w /\ v # w
    BY <1>3, <1>10, <2>2, Zenon DEF ChannelInv, ChannelApart
  <2>. QED
    BY <2>1, <2>2
<1>15. ~v8 => /\ \A u \in Workers : v3[u].pc = "connect" => u = w
              /\ \A x \in Channels : ~Channel!Exists(x)
  BY <1>3, Zenon DEF ChannelInv, ChannelFirst
<1>16. ChannelFirst'
  <2>1. ~v8 => \A u \in Workers : v3'[u].pc # "connect"
    BY <1>10, <1>15, SMT
  <2>. QED
    BY <1>3, <2>1, Zenon DEF ChannelFirst
<1>17. Channel!CredentialsAreCurrent'
  BY <1>3, <1>6, <1>7, <1>8, Zenon DEF ChannelInv, Channel!CredentialsAreCurrent
<1>18. Channel!StatusMatchesCredentials'
  <2>1. new.status # "disconnected" /\ new.consent # 0
    BY <1>4, <1>6, SMT DEF k
  <2>. QED
    BY <1>3, <1>7, <2>1, Zenon DEF ChannelInv, Channel!StatusMatchesCredentials
<1>19. Channel!OneChannelPerType'
  BY <1>3, <1>11, <1>15, Zenon DEF Channel!OneChannelPerType
<1>. QED
  BY <1>12, <1>13, <1>14, <1>16, <1>17, <1>18, <1>19, Zenon DEF ChannelInv

\* An overlap is noted, and nothing is forgotten.
LEMMA ChannelNoted ==
    ASSUME NEW w \in Workers, NEW c \in Channels, NEW places, NEW others,
           Channel!NoteOverlap(w, c, places, others), v6 \subseteq Channels, v7 \subseteq Channels
    PROVE  /\ v6 \subseteq v6' /\ v7 \subseteq v7' /\ v6' \subseteq Channels /\ v7' \subseteq Channels
           /\ c \notin v6' => ~Channel!Others(w, c, places)
           /\ c \notin v7' => ~Channel!Others(w, c, others)
<1>1. /\ v6' = IF Channel!Others(w, c, places) THEN v6 \cup {c} ELSE v6
      /\ v7' = IF Channel!Others(w, c, others) THEN v7 \cup {c} ELSE v7
  BY Zenon DEF Channel!NoteOverlap
<1>. QED
  BY <1>1, Zenon

LEMMA ChannelOthers ==
    ASSUME NEW w, NEW c, NEW few, NEW many, few \subseteq many, Channel!Others(w, c, few)
    PROVE  Channel!Others(w, c, many)
  BY Zenon DEF Channel!Others

\* A disconnection, a refresh or a publication takes a row up.
LEMMA ChannelTaken ==
    ASSUME ChannelInv, NEW w \in Workers, NEW c \in Channels,
           Channel!Disconnect(w, c) \/ Channel!Refresh(w, c) \/ Channel!Publish(w, c)
    PROVE  ChannelInv'
<1>1. /\ v2 \in [Channels -> Channel!Row] /\ v9 \in 0..MaxRequests
      /\ v6 \subseteq Channels /\ v7 \subseteq Channels
  BY ChannelTypes DEF ChannelInv
<1>2. ASSUME NEW pc \in ChannelPcs, Channel!Read(w, c, pc)
      PROVE  LET d == [pc |-> pc, channel |-> c, seen |-> v2[c], grant |-> 0] IN
             /\ d \in ChannelRequests /\ v3' = [v3 EXCEPT ![w] = d] /\ v9' \in 0..MaxRequests
             /\ d.pc = pc /\ d.channel = c /\ d.seen = v2[c]
  <2>1. /\ v9 < MaxRequests /\ v9' = v9 + 1
        /\ v3' = [v3 EXCEPT ![w] = [pc |-> pc, channel |-> c, seen |-> v2[c], grant |-> 0]]
    BY <1>2, Zenon DEF Channel!Read
  <2>2. v9' \in 0..MaxRequests
    BY <1>1, <2>1, ChannelConstants, SMT
  <2>3. v2[c] \in Channel!Row
    BY <1>1
  <2>4. [pc |-> pc, channel |-> c, seen |-> v2[c], grant |-> 0] \in ChannelRequests
    BY <2>3, ChannelConstants, SMT DEF ChannelRequests
  <2>. QED
    BY <2>1, <2>2, <2>4
<1>3. CASE Channel!Disconnect(w, c)
  <2> DEFINE d == [pc |-> "disconnect", channel |-> c, seen |-> v2[c], grant |-> 0]
  <2>1. /\ Channel!Exists(c) /\ Channel!Read(w, c, "disconnect")
        /\ Channel!NoteOverlap(w, c, Channel!Refreshes, Channel!Changes \cup Channel!Publications)
        /\ v1' = v1 /\ v2' = v2 /\ v4' = v4 /\ v5' = v5 /\ v8' = v8
    BY <1>3, Zenon DEF Channel!Disconnect
  <2>2. "disconnect" \in ChannelPcs
    BY SMT DEF ChannelPcs
  <2>3. /\ d \in ChannelRequests /\ v3' = [v3 EXCEPT ![w] = d] /\ v9' \in 0..MaxRequests
        /\ d.pc = "disconnect" /\ d.channel = c /\ d.seen = v2[c]
    BY <1>2, <2>1, <2>2
  <2>. HIDE DEF d
  <2>4. /\ v6 \subseteq v6' /\ v7 \subseteq v7' /\ v6' \subseteq Channels /\ v7' \subseteq Channels
        /\ c \notin v6' => ~Channel!Others(w, c, Channel!Refreshes)
        /\ c \notin v7' => ~Channel!Others(w, c, Channel!Changes \cup Channel!Publications)
    BY <1>1, <2>1, ChannelNoted
  <2>5. c \notin v7' => /\ ~Channel!Others(w, c, Channel!Changes)
                        /\ ~Channel!Others(w, c, Channel!Publications)
    <3>1. /\ Channel!Changes \subseteq Channel!Changes \cup Channel!Publications
          /\ Channel!Publications \subseteq Channel!Changes \cup Channel!Publications
      OBVIOUS
    <3>. QED
      BY <2>4, <3>1, ChannelOthers, Zenon
  <2>6. /\ d.pc \in Channel!Changes \cup Channel!Publications
        /\ d.pc \notin Channel!Refreshes /\ d.pc \notin Channel!Publications
        /\ d.pc # "reconnect" /\ d.pc \notin {"refresh", "store", "publish", "published"}
    BY <2>3, ChannelSets, SMT
  <2>. QED
    BY <2>1, <2>3, <2>4, <2>5, <2>6, ChannelRead, Zenon
<1>4. CASE Channel!Refresh(w, c)
  <2> DEFINE pc == IF v2[c].consent = 0 THEN "expire" ELSE "refresh"
             d == [pc |-> pc, channel |-> c, seen |-> v2[c], grant |-> 0]
  <2>1. /\ Channel!Exists(c) /\ Channel!Read(w, c, pc)
        /\ Channel!NoteOverlap(w, c, Channel!Changes, Channel!Changes)
        /\ v1' = v1 /\ v2' = v2 /\ v4' = v4 /\ v5' = v5 /\ v8' = v8
    BY <1>4, Zenon DEF Channel!Refresh
  <2>2. pc \in ChannelPcs /\ pc \in {"refresh", "expire"}
        /\ (pc = "refresh" => v2[c].consent # 0)
    BY SMT DEF ChannelPcs
  <2>. HIDE DEF pc
  <2>3. /\ d \in ChannelRequests /\ v3' = [v3 EXCEPT ![w] = d] /\ v9' \in 0..MaxRequests
        /\ d.pc = pc /\ d.channel = c /\ d.seen = v2[c]
    BY <1>2, <2>1, <2>2
  <2>. HIDE DEF d
  <2>4. /\ v6 \subseteq v6' /\ v7 \subseteq v7' /\ v6' \subseteq Channels /\ v7' \subseteq Channels
        /\ c \notin v6' => ~Channel!Others(w, c, Channel!Changes)
        /\ c \notin v7' => ~Channel!Others(w, c, Channel!Changes)
    BY <1>1, <2>1, ChannelNoted
  <2>5. c \notin v6' => ~Channel!Others(w, c, Channel!Refreshes)
    <3>1. Channel!Refreshes \subseteq Channel!Changes
      BY ChannelSets, SMT
    <3>. QED
      BY <2>4, <3>1, ChannelOthers, Zenon
  <2>6. /\ d.pc \in Channel!Changes \cup Channel!Publications
        /\ d.pc \notin Channel!Publications
        /\ d.pc # "reconnect" /\ d.pc # "disconnect"
        /\ d.pc \in {"refresh", "store", "publish", "published"} => v2[c].consent # 0
    BY <2>2, <2>3, ChannelSets, SMT
  <2>. QED
    BY <2>1, <2>3, <2>4, <2>5, <2>6, ChannelRead, Zenon
<1>5. CASE Channel!Publish(w, c)
  <2> DEFINE pc == IF v2[c].consent = 0 \/ v1 = "INSTAGRAM" THEN "failed" ELSE "publish"
             d == [pc |-> pc, channel |-> c, seen |-> v2[c], grant |-> 0]
  <2>1. /\ Channel!Exists(c) /\ Channel!Read(w, c, pc)
        /\ Channel!NoteOverlap(w, c, {}, {"disconnect"})
        /\ v1' = v1 /\ v2' = v2 /\ v4' = v4 /\ v5' = v5 /\ v8' = v8
    BY <1>5, Zenon DEF Channel!Publish
  <2>2. pc \in ChannelPcs /\ pc \in {"publish", "failed"}
        /\ (pc = "publish" => v2[c].consent # 0)
    BY SMT DEF ChannelPcs
  <2>. HIDE DEF pc
  <2>3. /\ d \in ChannelRequests /\ v3' = [v3 EXCEPT ![w] = d] /\ v9' \in 0..MaxRequests
        /\ d.pc = pc /\ d.channel = c /\ d.seen = v2[c]
    BY <1>2, <2>1, <2>2
  <2>. HIDE DEF d
  <2>4. /\ v6 \subseteq v6' /\ v7 \subseteq v7' /\ v6' \subseteq Channels /\ v7' \subseteq Channels
        /\ c \notin v7' => ~Channel!Others(w, c, {"disconnect"})
    BY <1>1, <2>1, ChannelNoted
  <2>5. /\ d.pc \in Channel!Changes \cup Channel!Publications
        /\ d.pc \notin Channel!Changes /\ d.pc \notin Channel!Refreshes
        /\ d.pc # "reconnect" /\ d.pc # "disconnect"
        /\ d.pc \in {"refresh", "store", "publish", "published"} => v2[c].consent # 0
    BY <2>2, <2>3, ChannelSets, SMT
  <2>. QED
    BY <2>1, <2>3, <2>4, <2>5, ChannelRead, Zenon
<1>. QED
  BY <1>3, <1>4, <1>5

\* The provider answers a refresh or a publication.
LEMMA ChannelAnswered ==
    ASSUME ChannelInv, NEW w \in Workers,
           Channel!RefreshAnswered(w) \/ Channel!PlatformAnswers(w)
    PROVE  ChannelInv'
<1>1. PICK pc \in ChannelPcs :
         /\ \/ v3[w].pc = "refresh" /\ pc \in {"store", "expire"}
            \/ v3[w].pc = "publish" /\ pc \in {"published", "failed"}
         /\ v3' = [v3 EXCEPT ![w].pc = pc]
  <2>1. {"store", "expire", "published", "failed"} \subseteq ChannelPcs
    BY SMT DEF ChannelPcs
  <2>2. CASE Channel!RefreshAnswered(w)
    BY <2>1, <2>2, Zenon DEF Channel!RefreshAnswered, Channel!At, Channel!Go
  <2>3. CASE Channel!PlatformAnswers(w)
    BY <2>1, <2>3, Zenon DEF Channel!PlatformAnswers, Channel!At, Channel!Go
  <2>. QED
    BY <2>2, <2>3
<1>2. /\ v1' = v1 /\ v2' = v2 /\ v4' = v4 /\ v5' = v5 /\ v6' = v6 /\ v7' = v7 /\ v8' = v8
      /\ v9' = v9
  BY Zenon DEF Channel!RefreshAnswered, Channel!PlatformAnswers, Channel!history
<1>. QED
  BY <1>1, <1>2, ChannelMove

LEMMA ChannelStays == ASSUME ChannelInv, UNCHANGED vars PROVE ChannelInv'
<1>1. /\ v1' = v1 /\ v2' = v2 /\ v3' = v3 /\ v4' = v4 /\ v5' = v5 /\ v6' = v6 /\ v7' = v7
      /\ v8' = v8 /\ v9' = v9
  BY DEF vars
<1>2. \A x : Channel!Exists(x)' = Channel!Exists(x)
  BY <1>1, Zenon DEF Channel!Exists
<1>3. ChannelTyped'
  BY <1>1, <1>2, Zenon DEF ChannelInv, ChannelTyped
<1>4. \A w \in Workers : ChannelReads(w)'
  BY <1>1, <1>2, Zenon DEF ChannelInv, ChannelReads, OnRow
<1>5. \A u, w \in Workers : ChannelApart(u, w)'
  BY <1>1, Zenon DEF ChannelInv, ChannelApart
<1>6. ChannelFirst' /\ Channel!OneChannelPerType'
  BY <1>1, <1>2, Zenon DEF ChannelInv, ChannelFirst, Channel!OneChannelPerType
<1>7. Channel!CredentialsAreCurrent' /\ Channel!StatusMatchesCredentials'
  BY <1>1, Zenon
     DEF ChannelInv, Channel!CredentialsAreCurrent, Channel!StatusMatchesCredentials
<1>. QED
  BY <1>3, <1>4, <1>5, <1>6, <1>7 DEF ChannelInv

\* It is kept.
LEMMA ChannelStep == ASSUME ChannelInv, NextChannel PROVE ChannelInv'
<1>1. PICK w \in Workers :
         \/ Channel!Exchange(w) \/ Channel!Find(w) \/ Channel!Reconnect(w) \/ Channel!Connect(w)
         \/ \E c \in Channels :
               Channel!Disconnect(w, c) \/ Channel!Refresh(w, c) \/ Channel!Publish(w, c)
         \/ Channel!CommitDisconnection(w) \/ Channel!CommitRefresh(w)
         \/ Channel!RefreshAnswered(w) \/ Channel!PlatformAnswers(w)
         \/ Channel!MarkRefreshFailure(w) \/ Channel!StorePublished(w) \/ Channel!StoreFailure(w)
  BY Zenon DEF NextChannel
<1>2. CASE Channel!Exchange(w)
  BY <1>2, ChannelExchange
<1>3. CASE Channel!Find(w)
  BY <1>3, ChannelFound, ChannelNotFound
<1>4. CASE Channel!Reconnect(w)
  BY <1>4, ChannelReconnect
<1>5. CASE Channel!Connect(w)
  BY <1>5, ChannelConnect
<1>6. CASE \E c \in Channels :
              Channel!Disconnect(w, c) \/ Channel!Refresh(w, c) \/ Channel!Publish(w, c)
  BY <1>6, ChannelTaken
<1>7. CASE Channel!CommitDisconnection(w)
  BY <1>7, ChannelDisconnected
<1>8. CASE Channel!CommitRefresh(w)
  BY <1>8, ChannelRefreshed
<1>9. CASE Channel!RefreshAnswered(w) \/ Channel!PlatformAnswers(w)
  BY <1>9, ChannelAnswered
<1>10. CASE Channel!MarkRefreshFailure(w) \/ Channel!StorePublished(w) \/ Channel!StoreFailure(w)
  BY <1>10, ChannelOutcome
<1>. QED
  BY <1>1, <1>2, <1>3, <1>4, <1>5, <1>6, <1>7, <1>8, <1>9, <1>10

\* It holds initially.
LEMMA ChannelInit == ASSUME Channel!Init PROVE ChannelInv
<1>1. /\ v1 \in {"GBP", "INSTAGRAM"} /\ v2 = [c \in Channels |-> Channel!NoRow]
      /\ v3 = [w \in Workers |-> Channel!Idle] /\ v4 = 0 /\ v5 = [c \in Channels |-> 0]
      /\ v6 = {} /\ v7 = {} /\ v8 = FALSE /\ v9 = 0
  BY DEF Channel!Init
<1>2. /\ Channel!NoRow \in Channel!Row /\ Channel!NoRow.status = "none"
      /\ Channel!NoRow.consent = 0
  BY ChannelConstants, SMT DEF Channel!NoRow, Channel!Row, Channel!Statuses
<1>3. Channel!Idle \in ChannelRequests /\ Channel!Idle.pc = "idle"
  BY ChannelConstants, <1>2, SMT DEF Channel!Idle, ChannelRequests, ChannelPcs
<1>4. /\ v2 \in [Channels -> Channel!Row] /\ v3 \in [Workers -> ChannelRequests]
      /\ \A c \in Channels : v2[c].status = "none" /\ v2[c].consent = 0
      /\ \A w \in Workers : v3[w].pc = "idle"
  BY <1>1, <1>2, <1>3, Zenon
<1>5. /\ v4 \in 0..MaxConsents /\ v5 \in [Channels -> 0..v4] /\ v9 \in 0..MaxRequests
      /\ \A c \in Channels : v5[c] = 0
  BY <1>1, ChannelConstants, SMT
<1>6. \A c \in Channels : ~Channel!Exists(c)
  BY <1>4, Zenon DEF Channel!Exists
<1>7. ChannelTyped
  <2>1. v6 \subseteq Channels /\ v7 \subseteq Channels /\ v8 \in BOOLEAN
    BY <1>1, Zenon
  <2>2. \A c \in Channels : Channel!Exists(c) <=> v5[c] # 0
    BY <1>5, <1>6, Zenon
  <2>. QED
    BY <1>1, <1>4, <1>5, <2>1, <2>2, Zenon DEF ChannelTyped
<1>8. \A w \in Workers : ChannelReads(w)
  <2>1. /\ "idle" \notin Channel!Refreshes /\ "idle" \notin Channel!Changes
        /\ "idle" \notin Channel!Publications
        /\ "idle" \notin {"find", "reconnect", "connect"}
        /\ "idle" \notin {"refresh", "store", "publish", "published"}
        /\ "idle" \notin {"publish", "published"}
    BY ChannelSets, SMT
  <2>2. \A w \in Workers : ~OnRow(w)
    BY <1>4, <2>1, Zenon DEF OnRow
  <2>. QED
    BY <1>4, <2>1, <2>2, Zenon DEF ChannelReads
<1>9. \A u, w \in Workers : ChannelApart(u, w)
  BY <1>4, ChannelSets, SMT DEF ChannelApart
<1>10. ChannelFirst /\ Channel!OneChannelPerType
  BY <1>4, <1>6, SMT DEF ChannelFirst, Channel!OneChannelPerType
<1>11. Channel!CredentialsAreCurrent /\ Channel!StatusMatchesCredentials
  BY <1>4, SMT DEF Channel!CredentialsAreCurrent, Channel!StatusMatchesCredentials
<1>. QED
  BY <1>7, <1>8, <1>9, <1>10, <1>11 DEF ChannelInv

\* The rest is about what the last refresh or publication of a row was answered, which
\* v10 (failing) keeps, and about v11 (met), the rows two requests have overlapped on.

\* Of a row that only it works on, a request has read what is there, and knows how the
\* provider answered.
AnswerReads(w) ==
    LET c == v3[w].channel IN
    OnRow(w) /\ c \notin v11 =>
        /\ v3[w].seen = v2[c]
        /\ v3[w].pc \in {"store", "published"} => c \notin v10
        /\ v3[w].pc \in {"expire", "failed"} => c \in v10

AnswerFits(c) == /\ v2[c].status = "connected" => c \notin v10
                 /\ v2[c].status \in {"expired", "error"} => c \in v10
AnswerApart(u, w) ==
    u # w /\ v3[u].channel = v3[w].channel /\ v3[u].channel \in Channels => v3[u].channel \in v11

AnswerInv ==
    /\ v10 \subseteq Channels /\ v11 \subseteq Channels
    /\ \A w \in Workers : OnRow(w) \/ v3[w].channel = NoChannel
    /\ \A w \in Workers : AnswerReads(w)
    /\ \A u, w \in Workers : AnswerApart(u, w)
    /\ Channel!StatusTellsLastAnswer

\* A step of one request, at a row that no other works on unless that is noted.
LEMMA AnswerAt ==
    ASSUME ChannelInv, AnswerInv, NEW w \in Workers, NEW c \in Channels,
           NEW d \in ChannelRequests, v3' = [v3 EXCEPT ![w] = d],
           v3[w].channel \in {c, NoChannel}, d.channel \in {c, NoChannel},
           d.channel = c <=> d.pc \in Channel!Changes \cup Channel!Publications,
           \A x \in Channels : x # c => v2'[x] = v2[x] /\ (x \in v10' <=> x \in v10),
           v10' \subseteq Channels, v11' \subseteq Channels, v11 \subseteq v11',
           c \notin v11' => ~Channel!UsedByOther(w, c),
           d.channel = c /\ Channel!UsedByOther(w, c) => c \in v11',
           d.channel = c /\ c \notin v11' =>
               /\ d.seen = v2'[c]
               /\ d.pc \in {"store", "published"} => c \notin v10'
               /\ d.pc \in {"expire", "failed"} => c \in v10',
           d.channel # c /\ c \notin v11' => AnswerFits(c)'
    PROVE  AnswerInv'
<1>1. /\ v3 \in [Workers -> ChannelRequests] /\ NoChannel \notin Channels
  BY ChannelConstants, ChannelTypes DEF ChannelInv
<1>2. v3'[w] = d /\ \A u \in Workers : u # w => v3'[u] = v3[u]
  BY <1>1, Zenon
<1>3. \A u \in Workers \ {w} : v3[u].channel = c => c \in v11'
  BY Zenon DEF Channel!UsedByOther
<1>4. ASSUME NEW u \in Workers PROVE OnRow(u)' \/ v3'[u].channel = NoChannel
  <2>1. CASE u = w
    BY <1>2, <2>1, Zenon DEF OnRow, Channel!Changes, Channel!Publications, Channel!Refreshes
  <2>2. CASE u # w
    BY <1>2, <2>2, Zenon
       DEF OnRow, AnswerInv, Channel!Changes, Channel!Publications, Channel!Refreshes
  <2>. QED
    BY <2>1, <2>2
<1>5. ASSUME NEW u \in Workers PROVE AnswerReads(u)'
  <2>1. CASE u = w
    <3>1. OnRow(w)' => d.channel = c
      BY <1>2, Zenon DEF OnRow, Channel!Changes, Channel!Publications, Channel!Refreshes
    <3>2. ASSUME OnRow(w)', v3'[w].channel \notin v11'
          PROVE  /\ v3'[w].seen = v2'[v3'[w].channel]
                 /\ v3'[w].pc \in {"store", "published"} => v3'[w].channel \notin v10'
                 /\ v3'[w].pc \in {"expire", "failed"} => v3'[w].channel \in v10'
      <4>1. v3'[w] = d /\ d.channel = c /\ c \notin v11'
        BY <1>2, <3>1, <3>2
      <4>. QED
        BY <4>1
    <3>3. AnswerReads(w)'
      BY <3>2, Zenon DEF AnswerReads
    <3>. QED
      BY <2>1, <3>3
  <2>2. CASE u # w
    <3> DEFINE e == v3[u].channel
    <3>1. v3'[u] = v3[u] /\ AnswerReads(u) /\ (OnRow(u)' <=> OnRow(u))
      BY <1>2, <2>2, Zenon
         DEF AnswerInv, OnRow, Channel!Changes, Channel!Publications, Channel!Refreshes
    <3>2. OnRow(u) => e \in Channels
      BY Zenon DEF ChannelInv, ChannelReads
    <3>3. e \notin v11' => e # c /\ e \notin v11
      BY <1>3, <2>2, Zenon
    <3>4. OnRow(u) /\ e \notin v11' => v2'[e] = v2[e] /\ (e \in v10' <=> e \in v10)
      BY <3>2, <3>3, Zenon
    <3>. QED
      BY <3>1, <3>3, <3>4, Zenon DEF AnswerReads
  <2>. QED
    BY <2>1, <2>2
<1>6. ASSUME NEW u \in Workers, NEW v \in Workers PROVE AnswerApart(u, v)'
  <2> DEFINE e == v3'[u].channel
  <2>1. ASSUME u # v, e = v3'[v].channel, e \in Channels, u = w \/ v = w PROVE e \in v11'
    <3>1. CASE u = w
      <4>1. e = c /\ v \in Workers \ {w} /\ v3[v].channel = c
        BY <1>1, <1>2, <2>1, <3>1
      <4>. QED
        BY <1>3, <4>1
    <3>2. CASE v = w
      <4>1. e = c /\ u \in Workers \ {w} /\ v3[u].channel = c
        BY <1>1, <1>2, <2>1, <3>2
      <4>. QED
        BY <1>3, <4>1
    <3>. QED
      BY <2>1, <3>1, <3>2
  <2>2. CASE u # w /\ v # w
    BY <1>2, <2>2, Zenon DEF AnswerInv, AnswerApart
  <2>3. CASE u = w \/ v = w
    BY <2>1, <2>3, Zenon DEF AnswerApart
  <2>. QED
    BY <2>2, <2>3
<1>7. Channel!StatusTellsLastAnswer'
  <2>1. ASSUME NEW x \in Channels, x \notin v11', \A u \in Workers : v3'[u].channel # x
        PROVE  AnswerFits(x)'
    <3>1. CASE x = c
      BY <1>2, <2>1, <3>1, Zenon
    <3>2. CASE x # c
      <4>1. x \notin v11 /\ \A u \in Workers : v3[u].channel # x
        BY <1>1, <1>2, <2>1, <3>2, Zenon
      <4>2. AnswerFits(x)
        BY <4>1, Zenon DEF AnswerInv, AnswerFits, Channel!StatusTellsLastAnswer
      <4>. QED
        BY <3>2, <4>2, Zenon DEF AnswerFits
    <3>. QED
      BY <3>1, <3>2
  <2>. QED
    BY <2>1, Zenon DEF AnswerFits, Channel!StatusTellsLastAnswer
<1>. QED
  BY <1>4, <1>5, <1>6, <1>7, Zenon DEF AnswerInv

\* What a request that works on a row may rely on.
LEMMA AnswerOnRow ==
    ASSUME ChannelInv, AnswerInv, NEW w \in Workers, OnRow(w)
    PROVE  LET c == v3[w].channel IN
           /\ c \in Channels
           /\ c \notin v11 => /\ ~Channel!UsedByOther(w, c)
                              /\ v3[w].seen = v2[c]
                              /\ v3[w].pc \in {"store", "published"} => c \notin v10
                              /\ v3[w].pc \in {"expire", "failed"} => c \in v10
<1>1. v3[w].channel \in Channels
  BY Zenon DEF ChannelInv, ChannelReads
<1>. QED
  BY <1>1, Zenon DEF AnswerInv, AnswerReads, AnswerApart, Channel!UsedByOther

\* A request that has not found a row yet.
LEMMA AnswerAway ==
    ASSUME ChannelInv, AnswerInv, NEW w \in Workers, ~OnRow(w),
           NEW d \in ChannelRequests, v3' = [v3 EXCEPT ![w] = d],
           d.channel = v3[w].channel, d.pc \in {"find", "connect"},
           v2' = v2, v10' = v10, v11' = v11
    PROVE  AnswerInv'
<1>1. v3[w].channel = NoChannel /\ NoChannel \notin Channels
  BY ChannelConstants, Zenon DEF AnswerInv
<1>2. v3'[w] = d /\ \A u \in Workers : u # w => v3'[u] = v3[u]
  BY ChannelTypes, Zenon DEF ChannelInv
<1>3. \A u \in Workers : v3'[u].channel = v3[u].channel /\ (OnRow(u)' <=> OnRow(u))
  <2>1. d.pc \notin Channel!Changes \cup Channel!Publications
    BY ChannelSets, SMT
  <2>2. OnRow(w)' <=> OnRow(w)
    BY <1>2, <2>1, Zenon DEF OnRow, Channel!Changes, Channel!Publications, Channel!Refreshes
  <2>3. ASSUME NEW u \in Workers, u # w PROVE OnRow(u)' <=> OnRow(u)
    BY <1>2, <2>3, Zenon DEF OnRow, Channel!Changes, Channel!Publications, Channel!Refreshes
  <2>. QED
    BY <1>2, <2>2, <2>3, Zenon
<1>4. \A u \in Workers : OnRow(u) => v3'[u] = v3[u]
  BY <1>2, Zenon
<1>5. ASSUME NEW u \in Workers PROVE AnswerReads(u)'
  <2>1. AnswerReads(u) /\ (OnRow(u)' => OnRow(u) /\ v3'[u] = v3[u])
    BY <1>3, <1>4, Zenon DEF AnswerInv
  <2>2. ASSUME OnRow(u)', v3'[u].channel \notin v11'
        PROVE  /\ v3'[u].seen = v2'[v3'[u].channel]
               /\ v3'[u].pc \in {"store", "published"} => v3'[u].channel \notin v10'
               /\ v3'[u].pc \in {"expire", "failed"} => v3'[u].channel \in v10'
    <3>1. /\ v3'[u] = v3[u]
          /\ v3[u].seen = v2[v3[u].channel]
          /\ v3[u].pc \in {"store", "published"} => v3[u].channel \notin v10
          /\ v3[u].pc \in {"expire", "failed"} => v3[u].channel \in v10
      BY <2>1, <2>2 DEF AnswerReads
    <3>. QED
      BY <3>1
  <2>. QED
    BY <2>2, Zenon DEF AnswerReads
<1>6. ASSUME NEW u \in Workers, NEW v \in Workers PROVE AnswerApart(u, v)'
  <2>1. AnswerApart(u, v) /\ v3'[u].channel = v3[u].channel /\ v3'[v].channel = v3[v].channel
    BY <1>3, Zenon DEF AnswerInv
  <2>. QED
    BY <2>1 DEF AnswerApart
<1>7. Channel!StatusTellsLastAnswer'
  BY <1>3, Zenon DEF AnswerInv, Channel!StatusTellsLastAnswer
<1>. QED
  BY <1>3, <1>5, <1>6, <1>7, Zenon DEF AnswerInv

\* A request reads a row; one that fails by the code's own check is noted as failing.
LEMMA AnswerRead ==
    ASSUME ChannelInv, AnswerInv, NEW w \in Workers, NEW c \in Channels,
           NEW d \in ChannelRequests, v3' = [v3 EXCEPT ![w] = d], v3[w].pc \in {"idle", "find"},
           d.channel = c, d.seen = v2[c], v2' = v2,
           d.pc \in {"reconnect", "disconnect", "refresh", "expire", "publish", "failed"},
           v10' = IF d.pc \in {"expire", "failed"} THEN v10 \cup {c} ELSE v10,
           v11' = IF Channel!UsedByOther(w, c) THEN v11 \cup {c} ELSE v11
    PROVE  AnswerInv'
<1>1. v10 \subseteq Channels /\ v11 \subseteq Channels /\ NoChannel \notin Channels
  BY ChannelConstants DEF AnswerInv
<1>2. v3[w].channel = NoChannel
  BY ChannelSets, SMT DEF AnswerInv, OnRow
<1>3. /\ d.pc \in Channel!Changes \cup Channel!Publications
      /\ d.pc \notin {"store", "published"}
  BY ChannelSets, SMT
<1>4. d.pc \in {"expire", "failed"} => c \in v10'
  BY Zenon
<1>5. /\ \A x \in Channels : x # c => v2'[x] = v2[x] /\ (x \in v10' <=> x \in v10)
      /\ v10' \subseteq Channels /\ v11' \subseteq Channels /\ v11 \subseteq v11'
      /\ c \notin v11' => ~Channel!UsedByOther(w, c)
      /\ Channel!UsedByOther(w, c) => c \in v11'
      /\ d.seen = v2'[c]
  BY <1>1, Zenon
<1>. QED
  BY <1>2, <1>3, <1>4, <1>5, AnswerAt, Zenon

LEMMA AnswerTaken ==
    ASSUME ChannelInv, AnswerInv, NEW w \in Workers, NEW c \in Channels,
           Channel!Disconnect(w, c) \/ Channel!Refresh(w, c) \/ Channel!Publish(w, c)
    PROVE  AnswerInv'
<1>1. v2[c] \in Channel!Row
  BY ChannelTypes DEF ChannelInv
<1>2. PICK pc \in {"disconnect", "refresh", "expire", "publish", "failed"} :
         /\ Channel!Read(w, c, pc) /\ v2' = v2
         /\ v10' = IF pc \in {"expire", "failed"} THEN v10 \cup {c} ELSE v10
         /\ v11' = IF Channel!UsedByOther(w, c) THEN v11 \cup {c} ELSE v11
  <2>1. CASE Channel!Disconnect(w, c)
    <3>1. "disconnect" \notin {"expire", "failed"}
      BY SMT
    <3>. QED
      BY <2>1, <3>1, Zenon DEF Channel!Disconnect, Channel!NoteOverlap
  <2>2. CASE Channel!Refresh(w, c)
    <3>1. "refresh" \notin {"expire", "failed"}
      BY SMT
    <3>2. /\ \/ Channel!Read(w, c, "expire") /\ v10' = v10 \cup {c}
             \/ Channel!Read(w, c, "refresh") /\ v10' = v10
          /\ v2' = v2 /\ v11' = IF Channel!UsedByOther(w, c) THEN v11 \cup {c} ELSE v11
      BY <2>2, Zenon DEF Channel!Refresh, Channel!NoteOverlap, Channel!NoteAnswer
    <3>. QED
      BY <3>1, <3>2, Zenon
  <2>3. CASE Channel!Publish(w, c)
    <3>1. "publish" \notin {"expire", "failed"}
      BY SMT
    <3>2. /\ \/ Channel!Read(w, c, "failed") /\ v10' = v10 \cup {c}
             \/ Channel!Read(w, c, "publish") /\ v10' = v10
          /\ v2' = v2 /\ v11' = IF Channel!UsedByOther(w, c) THEN v11 \cup {c} ELSE v11
      BY <2>3, Zenon DEF Channel!Publish, Channel!NoteOverlap, Channel!NoteAnswer
    <3>. QED
      BY <3>1, <3>2, Zenon
  <2>. QED
    BY <2>1, <2>2, <2>3
<1> DEFINE d == [pc |-> pc, channel |-> c, seen |-> v2[c], grant |-> 0]
<1>3. v3[w].pc = "idle" /\ v3' = [v3 EXCEPT ![w] = d]
  BY <1>2, Zenon DEF Channel!Read, Channel!At
<1>4. d \in ChannelRequests
  BY <1>1, ChannelConstants, SMT DEF ChannelRequests, ChannelPcs
<1>5. d.pc = pc /\ d.channel = c /\ d.seen = v2[c]
  OBVIOUS
<1>6. pc \in {"reconnect", "disconnect", "refresh", "expire", "publish", "failed"}
      /\ v3[w].pc \in {"idle", "find"}
  BY <1>3, SMT
<1>. HIDE DEF d
<1>. QED
  BY <1>2, <1>3, <1>4, <1>5, <1>6, AnswerRead, Zenon

LEMMA AnswerFound ==
    ASSUME ChannelInv, AnswerInv, NEW w \in Workers, Channel!Find(w),
           \E c \in Channels : Channel!Exists(c)
    PROVE  AnswerInv'
<1>1. PICK c \in Channels, d \in ChannelRequests :
         /\ v3' = [v3 EXCEPT ![w] = d]
         /\ d.pc = "reconnect" /\ d.channel = c /\ d.seen = v2[c]
         /\ Channel!NoteOverlap(w, c, Channel!Refreshes, Channel!Changes)
  BY FoundRequest
<1>2. v3[w].pc = "find" /\ v2' = v2 /\ v10' = v10
      /\ v11' = IF Channel!UsedByOther(w, c) THEN v11 \cup {c} ELSE v11
  BY <1>1, Zenon DEF Channel!Find, Channel!At, Channel!NoteOverlap
<1>3. /\ v10' = IF d.pc \in {"expire", "failed"} THEN v10 \cup {c} ELSE v10
      /\ d.pc \in {"reconnect", "disconnect", "refresh", "expire", "publish", "failed"}
      /\ v3[w].pc \in {"idle", "find"}
  BY <1>1, <1>2, SMT
<1>. QED
  BY <1>1, <1>2, <1>3, AnswerRead, Zenon

LEMMA AnswerElsewhere ==
    ASSUME ChannelInv, AnswerInv, NEW w \in Workers,
           \/ Channel!Exchange(w)
           \/ Channel!Find(w) /\ ~\E c \in Channels : Channel!Exists(c)
    PROVE  AnswerInv'
<1>1. v3 \in [Workers -> ChannelRequests]
  BY ChannelTypes DEF ChannelInv
<1>2. ~OnRow(w) /\ v2' = v2 /\ v10' = v10 /\ v11' = v11
  <2>1. v3[w].pc = "idle" \/ v3[w].pc = "find"
    BY Zenon DEF Channel!Exchange, Channel!Find, Channel!At
  <2>2. v2' = v2 /\ v10' = v10 /\ v11' = v11
    BY Zenon DEF Channel!Exchange, Channel!Find, Channel!history
  <2>. QED
    BY <2>1, <2>2, ChannelSets, SMT DEF OnRow
<1>3. PICK d \in ChannelRequests :
         /\ v3' = [v3 EXCEPT ![w] = d]
         /\ d.channel = v3[w].channel /\ d.pc \in {"find", "connect"}
  <2>1. CASE Channel!Exchange(w)
    <3>1. PICK d \in ChannelRequests :
             v3' = [v3 EXCEPT ![w] = d] /\ d.pc = "find" /\ d.channel = v3[w].channel
      BY <2>1, ExchangedRequest, Zenon
    <3>2. d.pc \in {"find", "connect"}
      BY <3>1, SMT
    <3>. QED
      BY <3>1, <3>2, Zenon
  <2>2. CASE Channel!Find(w) /\ ~\E c \in Channels : Channel!Exists(c)
    <3> DEFINE d == [v3[w] EXCEPT !.pc = "connect"]
    <3>1. v3' = [v3 EXCEPT ![w] = d]
      BY <2>2, Zenon DEF Channel!Find, Channel!Go
    <3>2. d \in ChannelRequests /\ d.channel = v3[w].channel /\ d.pc = "connect"
      BY <1>1, SMT DEF ChannelRequests, ChannelPcs
    <3>3. d.pc \in {"find", "connect"}
      BY <3>2, SMT
    <3>. HIDE DEF d
    <3>. QED
      BY <3>1, <3>2, <3>3, Zenon
  <2>. QED
    BY <2>1, <2>2
<1>. QED
  BY <1>2, <1>3, AnswerAway

\* The provider's answer is noted.
LEMMA AnswerAnswered ==
    ASSUME ChannelInv, AnswerInv, NEW w \in Workers,
           Channel!RefreshAnswered(w) \/ Channel!PlatformAnswers(w)
    PROVE  AnswerInv'
<1>1. PICK c : c = v3[w].channel
  OBVIOUS
<1>2. PICK pc \in {"store", "expire", "published", "failed"} :
         /\ v3[w].pc \in {"refresh", "publish"} /\ v2' = v2 /\ v11' = v11
         /\ v3' = [v3 EXCEPT ![w].pc = pc]
         /\ v10' = IF pc \in {"expire", "failed"} THEN v10 \cup {c} ELSE v10 \ {c}
  <2>1. /\ "store" \notin {"expire", "failed"} /\ "published" \notin {"expire", "failed"}
    BY SMT
  <2>2. CASE Channel!RefreshAnswered(w)
    <3>1. PICK fails \in BOOLEAN : Channel!Go(w, IF fails THEN "expire" ELSE "store")
                                   /\ Channel!NoteAnswer(c, fails)
      BY <1>1, <2>2, Zenon DEF Channel!RefreshAnswered
    <3>2. v3[w].pc = "refresh" /\ v2' = v2 /\ v11' = v11
      BY <2>2, Zenon DEF Channel!RefreshAnswered, Channel!At
    <3>. QED
      BY <2>1, <3>1, <3>2, Zenon DEF Channel!Go, Channel!NoteAnswer
  <2>3. CASE Channel!PlatformAnswers(w)
    <3>1. PICK fails \in BOOLEAN : Channel!Go(w, IF fails THEN "failed" ELSE "published")
                                   /\ Channel!NoteAnswer(c, fails)
      BY <1>1, <2>3, Zenon DEF Channel!PlatformAnswers
    <3>2. v3[w].pc = "publish" /\ v2' = v2 /\ v11' = v11
      BY <2>3, Zenon DEF Channel!PlatformAnswers, Channel!At
    <3>. QED
      BY <2>1, <3>1, <3>2, Zenon DEF Channel!Go, Channel!NoteAnswer
  <2>. QED
    BY <2>2, <2>3
<1>3. v3 \in [Workers -> ChannelRequests] /\ NoChannel \notin Channels
  BY ChannelConstants, ChannelTypes DEF ChannelInv
<1> DEFINE d == [v3[w] EXCEPT !.pc = pc]
<1>4. /\ v3' = [v3 EXCEPT ![w] = d] /\ d \in ChannelRequests /\ d.pc = pc
      /\ d.channel = v3[w].channel /\ d.seen = v3[w].seen
  BY <1>2, <1>3, SMT DEF ChannelRequests, ChannelPcs
<1>. HIDE DEF d
<1>5. OnRow(w) /\ d.pc \in Channel!Changes \cup Channel!Publications
  BY <1>2, <1>4, ChannelSets, SMT DEF OnRow
<1>6. c \in Channels /\ (c \notin v11 => ~Channel!UsedByOther(w, c) /\ v3[w].seen = v2[c])
  BY <1>1, <1>5, AnswerOnRow
<1>7. v10 \subseteq Channels /\ v11 \subseteq Channels
  BY DEF AnswerInv
<1>8. /\ d.pc \in {"store", "published"} => c \notin v10'
      /\ d.pc \in {"expire", "failed"} => c \in v10'
  <2>1. d.pc \in {"store", "published"} => d.pc \notin {"expire", "failed"}
    BY SMT
  <2>. QED
    BY <1>2, <1>4, <2>1, Zenon
<1>9. /\ \A x \in Channels : x # c => v2'[x] = v2[x] /\ (x \in v10' <=> x \in v10)
      /\ v10' \subseteq Channels
  BY <1>2, <1>6, <1>7, Zenon
<1>10. v3[w].channel = c /\ d.channel = c
  BY <1>1, <1>4
<1>11. /\ v3[w].channel \in {c, NoChannel} /\ d.channel \in {c, NoChannel}
       /\ d.channel = c <=> d.pc \in Channel!Changes \cup Channel!Publications
       /\ v11' \subseteq Channels /\ v11 \subseteq v11'
       /\ c \notin v11' => ~Channel!UsedByOther(w, c) /\ d.seen = v2'[c]
  BY <1>2, <1>4, <1>5, <1>6, <1>7, <1>10
<1>. QED
  BY <1>4, <1>6, <1>8, <1>9, <1>10, <1>11, AnswerAt, Zenon

\* A request is done with its row, and the row tells how it went.
LEMMA AnswerWritten ==
    ASSUME ChannelInv, AnswerInv, NEW w \in Workers, OnRow(w),
           NEW status, ChannelWrites(w, status), v11' = v11,
           v10' = IF v3[w].pc = "reconnect" THEN v10 \ {v3[w].channel} ELSE v10,
           status = "connected" => v3[w].pc \in {"reconnect", "store", "published"},
           status \in {"expired", "error"} => v3[w].pc \in {"expire", "failed"}
    PROVE  AnswerInv'
<1>1. PICK c : c = v3[w].channel
  OBVIOUS
<1>2. /\ c \in Channels
      /\ c \notin v11 => /\ ~Channel!UsedByOther(w, c)
                         /\ v3[w].seen = v2[c]
                         /\ v3[w].pc \in {"store", "published"} => c \notin v10
                         /\ v3[w].pc \in {"expire", "failed"} => c \in v10
  BY <1>1, AnswerOnRow
<1>3. v10 \subseteq Channels /\ v11 \subseteq Channels /\ NoChannel \notin Channels
  BY ChannelConstants DEF AnswerInv
<1>4. /\ Channel!Idle \in ChannelRequests /\ Channel!Idle.channel = NoChannel
      /\ Channel!Idle.pc \notin Channel!Changes \cup Channel!Publications
  BY ChannelConstants, ChannelSets, SMT
     DEF Channel!Idle, ChannelRequests, ChannelPcs, Channel!NoRow, Channel!Row, Channel!Statuses
<1>5. /\ v3' = [v3 EXCEPT ![w] = Channel!Idle]
      /\ \A x \in Channels : x # c => v2'[x] = v2[x]
      /\ c \notin v11 => v2'[c].status = status
  BY <1>1, <1>2, Zenon DEF ChannelWrites
<1>6. \A x \in Channels : x # c => (x \in v10' <=> x \in v10)
  BY <1>1, Zenon
<1>7. c \notin v11 => AnswerFits(c)'
  <2>1. /\ v3[w].pc \in {"reconnect", "store", "published"} /\ c \notin v11 => c \notin v10'
        /\ v3[w].pc \in {"expire", "failed"} /\ c \notin v11 => c \in v10'
    <3>1. /\ v3[w].pc \in {"reconnect", "store", "published"} =>
                 v3[w].pc = "reconnect" \/ v3[w].pc \in {"store", "published"}
          /\ v3[w].pc \in {"expire", "failed"} => v3[w].pc # "reconnect"
      BY SMT
    <3>. QED
      BY <1>1, <1>2, <3>1, Zenon
  <2>2. c \notin v11 => /\ v2'[c].status = "connected" => c \notin v10'
                        /\ v2'[c].status \in {"expired", "error"} => c \in v10'
    BY <1>5, <2>1
  <2>. QED
    BY <2>2, Zenon DEF AnswerFits
<1>8. v10' \subseteq Channels
  BY <1>3, Zenon
<1>9. v3[w].channel = c /\ Channel!Idle.channel # c
  BY <1>1, <1>2, <1>3, <1>4
<1>10. /\ v3[w].channel \in {c, NoChannel} /\ Channel!Idle.channel \in {c, NoChannel}
       /\ Channel!Idle.channel = c <=> Channel!Idle.pc \in Channel!Changes \cup Channel!Publications
  BY <1>4, <1>9, Zenon
<1>11. /\ v11' \subseteq Channels /\ v11 \subseteq v11'
       /\ c \notin v11' => ~Channel!UsedByOther(w, c)
  BY <1>2, <1>3, Zenon
<1>12. Channel!Idle.channel # c /\ c \notin v11' => AnswerFits(c)'
  BY <1>7, Zenon
<1>. QED
  BY <1>2, <1>4, <1>5, <1>6, <1>8, <1>9, <1>10, <1>11, <1>12, AnswerAt, Zenon

LEMMA AnswerStored ==
    ASSUME ChannelInv, AnswerInv, NEW w \in Workers,
           \/ Channel!Reconnect(w) \/ Channel!CommitDisconnection(w) \/ Channel!CommitRefresh(w)
           \/ Channel!MarkRefreshFailure(w) \/ Channel!StorePublished(w)
           \/ Channel!StoreFailure(w)
    PROVE  AnswerInv'
<1>1. CASE Channel!Reconnect(w)
  <2>1. v3[w].pc = "reconnect" /\ v11' = v11 /\ v10' = v10 \ {v3[w].channel}
    BY <1>1, Zenon DEF Channel!Reconnect, Channel!At
  <2>2. OnRow(w) /\ "connected" \notin {"expired", "error"}
        /\ v3[w].pc \in {"reconnect", "store", "published"}
    BY <2>1, ChannelSets, SMT DEF OnRow
  <2>. QED
    BY <1>1, <2>1, <2>2, ChannelReconnect, AnswerWritten, Zenon
<1>2. CASE Channel!CommitDisconnection(w)
  <2>1. v3[w].pc = "disconnect" /\ v11' = v11 /\ v10' = v10
    BY <1>2, Zenon DEF Channel!CommitDisconnection, Channel!At, Channel!history
  <2>2. OnRow(w) /\ "disconnected" \notin {"expired", "error"} /\ v3[w].pc # "reconnect"
        /\ "disconnected" # "connected"
    BY <2>1, ChannelSets, SMT DEF OnRow
  <2>. QED
    BY <1>2, <2>1, <2>2, ChannelDisconnected, AnswerWritten, Zenon
<1>3. CASE Channel!CommitRefresh(w)
  <2>1. v3[w].pc = "store" /\ v11' = v11 /\ v10' = v10
    BY <1>3, Zenon DEF Channel!CommitRefresh, Channel!At, Channel!history
  <2>2. OnRow(w) /\ "connected" \notin {"expired", "error"} /\ v3[w].pc # "reconnect"
        /\ v3[w].pc \in {"reconnect", "store", "published"}
    BY <2>1, ChannelSets, SMT DEF OnRow
  <2>. QED
    BY <1>3, <2>1, <2>2, ChannelRefreshed, AnswerWritten, Zenon
<1>4. CASE Channel!MarkRefreshFailure(w) \/ Channel!StorePublished(w) \/ Channel!StoreFailure(w)
  <2>1. v3[w].pc \in {"expire", "published", "failed"} /\ v11' = v11 /\ v10' = v10
    BY <1>4, SMT DEF Channel!MarkRefreshFailure, Channel!StorePublished, Channel!StoreFailure,
                     Channel!At, Channel!history
  <2>2. PICK status \in {"connected", "expired", "error"} :
           /\ status = "connected" <=> v3[w].pc = "published"
           /\ ChannelWrites(w, status)
    BY <1>4, ChannelOutcome
  <2>3. OnRow(w) /\ v3[w].pc # "reconnect"
        /\ (status = "connected" => v3[w].pc \in {"reconnect", "store", "published"})
        /\ (status \in {"expired", "error"} => v3[w].pc \in {"expire", "failed"})
    BY <2>1, <2>2, ChannelSets, SMT DEF OnRow
  <2>. QED
    BY <2>1, <2>2, <2>3, AnswerWritten, Zenon
<1>. QED
  BY <1>1, <1>2, <1>3, <1>4

\* A row is inserted, on which nobody works yet.
LEMMA AnswerConnected ==
    ASSUME ChannelInv, AnswerInv, NEW w \in Workers, Channel!Connect(w)
    PROVE  AnswerInv'
<1> DEFINE new == [status |-> "connected", consent |-> v3[w].grant, active |-> TRUE]
<1>1. PICK c \in Channels :
         ~Channel!Exists(c) /\ v2' = [v2 EXCEPT ![c] = new] /\ v10' = v10 \ {c}
  BY Zenon DEF Channel!Connect
<1>2. v3[w].pc = "connect" /\ v3' = [v3 EXCEPT ![w] = Channel!Idle] /\ v11' = v11
  BY Zenon DEF Channel!Connect, Channel!At, Channel!Finish
<1>3. v3[w].channel = NoChannel
  BY <1>2, ChannelSets, SMT DEF AnswerInv, OnRow
<1>4. v10 \subseteq Channels /\ v11 \subseteq Channels /\ NoChannel \notin Channels
      /\ v2 \in [Channels -> Channel!Row]
  BY ChannelConstants, ChannelTypes DEF AnswerInv, ChannelInv
<1>5. ~Channel!UsedByOther(w, c)
  BY <1>1, <1>4, Zenon DEF AnswerInv, ChannelInv, ChannelReads, Channel!UsedByOther
<1>6. /\ Channel!Idle \in ChannelRequests /\ Channel!Idle.channel = NoChannel
      /\ Channel!Idle.pc \notin Channel!Changes \cup Channel!Publications
  BY ChannelConstants, ChannelSets, SMT
     DEF Channel!Idle, ChannelRequests, ChannelPcs, Channel!NoRow, Channel!Row, Channel!Statuses
<1>7. v2'[c].status = "connected" /\ \A x \in Channels : x # c => v2'[x] = v2[x]
  BY <1>1, <1>4, Zenon
<1>8. AnswerFits(c)'
  BY <1>1, <1>7, SMT DEF AnswerFits
<1>9. v10' \subseteq Channels /\ \A x \in Channels : x # c => (x \in v10' <=> x \in v10)
  BY <1>1, <1>4, Zenon
<1>. QED
  BY <1>2, <1>3, <1>4, <1>5, <1>6, <1>7, <1>8, <1>9, AnswerAt, Zenon

LEMMA AnswerStays == ASSUME AnswerInv, UNCHANGED vars PROVE AnswerInv'
<1>1. v2' = v2 /\ v3' = v3 /\ v10' = v10 /\ v11' = v11
  BY DEF vars
<1>2. \A w : OnRow(w)' <=> OnRow(w)
  BY <1>1, Zenon DEF OnRow, Channel!Changes, Channel!Publications, Channel!Refreshes
<1>. QED
  BY <1>1, <1>2, Zenon DEF AnswerInv, AnswerReads, AnswerApart, Channel!StatusTellsLastAnswer

LEMMA AnswerStep == ASSUME ChannelInv, AnswerInv, NextChannel PROVE AnswerInv'
<1>1. PICK w \in Workers :
         \/ Channel!Exchange(w) \/ Channel!Find(w) \/ Channel!Reconnect(w) \/ Channel!Connect(w)
         \/ \E c \in Channels :
               Channel!Disconnect(w, c) \/ Channel!Refresh(w, c) \/ Channel!Publish(w, c)
         \/ Channel!CommitDisconnection(w) \/ Channel!CommitRefresh(w)
         \/ Channel!RefreshAnswered(w) \/ Channel!PlatformAnswers(w)
         \/ Channel!MarkRefreshFailure(w) \/ Channel!StorePublished(w) \/ Channel!StoreFailure(w)
  BY Zenon DEF NextChannel
<1>2. CASE Channel!Exchange(w)
  BY <1>2, AnswerElsewhere
<1>3. CASE Channel!Find(w)
  BY <1>3, AnswerFound, AnswerElsewhere
<1>4. CASE Channel!Connect(w)
  BY <1>4, AnswerConnected
<1>5. CASE \E c \in Channels :
              Channel!Disconnect(w, c) \/ Channel!Refresh(w, c) \/ Channel!Publish(w, c)
  BY <1>5, AnswerTaken
<1>6. CASE Channel!RefreshAnswered(w) \/ Channel!PlatformAnswers(w)
  BY <1>6, AnswerAnswered
<1>7. CASE \/ Channel!Reconnect(w) \/ Channel!CommitDisconnection(w) \/ Channel!CommitRefresh(w)
           \/ Channel!MarkRefreshFailure(w) \/ Channel!StorePublished(w)
           \/ Channel!StoreFailure(w)
  BY <1>7, AnswerStored
<1>. QED
  BY <1>1, <1>2, <1>3, <1>4, <1>5, <1>6, <1>7

LEMMA AnswerInit == ASSUME Channel!Init PROVE AnswerInv
<1>1. /\ v2 = [c \in Channels |-> Channel!NoRow] /\ v3 = [w \in Workers |-> Channel!Idle]
      /\ v10 = {} /\ v11 = {}
  BY DEF Channel!Init
<1>2. /\ \A w \in Workers : v3[w].pc = "idle" /\ v3[w].channel = NoChannel
      /\ \A c \in Channels : v2[c].status = "none"
  BY <1>1, SMT DEF Channel!Idle, Channel!NoRow
<1>3. \A w \in Workers : ~OnRow(w)
  <2>1. "idle" \notin Channel!Changes \cup Channel!Publications
    BY ChannelSets, SMT
  <2>. QED
    BY <1>2, <2>1, Zenon DEF OnRow
<1>4. \A w \in Workers : AnswerReads(w)
  BY <1>3, Zenon DEF AnswerReads
<1>5. \A u, w \in Workers : AnswerApart(u, w)
  BY <1>2, ChannelConstants, Zenon DEF AnswerApart
<1>6. Channel!StatusTellsLastAnswer
  BY <1>2, SMT DEF Channel!StatusTellsLastAnswer
<1>. QED
  BY <1>1, <1>2, <1>4, <1>5, <1>6, Zenon DEF AnswerInv

ChannelOnly == subject = "channel" => ChannelInv /\ AnswerInv

\* It holds in every reachable state of the channels.
LEMMA ChannelAlways == Spec => []ChannelOnly
<1>1. Init => ChannelOnly
  <2>. SUFFICES ASSUME Init, subject = "channel" PROVE ChannelInv /\ AnswerInv
    BY DEF ChannelOnly
  <2>1. Channel!Init
    BY SMT DEF Init
  <2>. QED
    BY <2>1, ChannelInit, AnswerInit
<1>2. ChannelOnly /\ [Next]_vars => ChannelOnly'
  <2>. SUFFICES ASSUME ChannelOnly, [Next]_vars, subject' = "channel" PROVE ChannelInv' /\ AnswerInv'
    BY DEF ChannelOnly
  <2>1. subject = "channel" /\ ChannelInv /\ AnswerInv
    BY SubjectStays DEF ChannelOnly
  <2>2. NextChannel \/ UNCHANGED vars
    BY <2>1, StepOfSubject
  <2>. QED
    BY <2>1, <2>2, ChannelStep, ChannelStays, AnswerStep, AnswerStays
<1>. QED
  BY <1>1, <1>2, PTL DEF Spec

\* However connecting, disconnecting, refreshing and publishing interleave, a row's
\* credentials are those of the last consent unless a refresh overlapped another
\* change, its status says whether it has credentials unless changes overlapped, between
\* requests that have not overlapped it says connected only if the last refresh or
\* publication since the last consent went through, expired or error only if it failed,
\* and there is one row per provider unless first connections overlapped.
THEOREM ChannelRowsAreCurrent == Spec => []ChannelsAreCurrent
<1>1. ChannelOnly => ChannelsAreCurrent
  BY DEF ChannelOnly, ChannelInv, AnswerInv, ChannelsAreCurrent
<1>. QED
  BY <1>1, ChannelAlways, PTL

-----------------------------------------------------------------------------
(* Questions and answers. *)

\* The requests that may speak of what Google shows, and the types.
QuestionCalls == {"sync", "store_sync", "answer", "posted", "failed"}
QuestionJobs == [pc : {"idle", "generate", "expired"} \cup QuestionCalls,
                 seen : Question!Row, answer : Question!AnswerOrNone, alone : BOOLEAN]

QuestionTyped ==
    /\ v1 \in Question!Row
    /\ v2 \in Question!AnswerOrNone
    /\ v3 \in [Workers -> QuestionJobs]
    /\ v4 \in BOOLEAN
    /\ v5 \in 0..MaxRequests /\ v6 \in 0..MaxEdits /\ v7 \in 0..MaxFaults

\* Requests that sync or post; those no other overlapped; those that have read the row.
Asks(w) == v3[w].pc \in QuestionCalls
AloneAt(w) == Asks(w) /\ v3[w].alone
HasSeen(w) == AloneAt(w) /\ v3[w].pc # "sync"

\* The inductive invariant: a request that no other overlaps has read the row as it is,
\* and what Google answered it is what Google shows.
QuestionInv ==
    /\ QuestionTyped
    /\ \A w, v \in Workers : AloneAt(w) /\ Asks(v) => v = w
    /\ ~v4 => \A w \in Workers : Asks(w) => v3[w].alone
    /\ \A w \in Workers :
          /\ AloneAt(w) /\ v3[w].pc \in {"sync", "store_sync", "posted"} => v3[w].answer = v2
          /\ HasSeen(w) => /\ v3[w].seen.posted = v1.posted
                           /\ v1.status = "posted" => v3[w].seen.status = "posted"
    /\ Question!PostedIsLive

LEMMA CallsAre == Question!Syncing \cup Question!Posting = QuestionCalls
  BY DEF Question!Syncing, Question!Posting, QuestionCalls

\* A row stored: the columns that differ from what was seen.
LEMMA QuestionStore ==
    ASSUME v1 \in Question!Row, NEW w, v3[w].seen \in Question!Row, NEW new \in Question!Row,
           Question!Store(w, new), ~Question!Raced(w)
    PROVE  /\ v1' \in Question!Row
           /\ v1'.status = IF new.status = v3[w].seen.status THEN v1.status ELSE new.status
           /\ v1'.posted = IF new.posted = v3[w].seen.posted THEN v1.posted ELSE new.posted
<1>1. v1' = [c \in DOMAIN new |-> IF new[c] = v3[w].seen[c] THEN v1[c] ELSE new[c]]
  BY Zenon DEF Question!Store
<1>2. DOMAIN new = {"status", "posted"}
  BY DEF Question!Row
<1>3. /\ v1'.status = IF new.status = v3[w].seen.status THEN v1.status ELSE new.status
      /\ v1'.posted = IF new.posted = v3[w].seen.posted THEN v1.posted ELSE new.posted
  BY <1>1, <1>2
<1>4. v1' = [status |-> v1'.status, posted |-> v1'.posted]
  BY <1>1, <1>2
<1>5. v1'.status \in {"none", "pending", "draft", "posted", "failed"}
      /\ v1'.posted \in Question!AnswerOrNone
  BY <1>3 DEF Question!Row
<1>6. v1' \in Question!Row
  BY <1>4, <1>5 DEF Question!Row
<1>. QED
  BY <1>3, <1>6

\* A status stored over another one is lost: the row was not written.
LEMMA QuestionRaced ==
    ASSUME NEW w, NEW new, Question!Store(w, new), Question!Raced(w)
    PROVE  v1' = v1
  BY Zenon DEF Question!Store

LEMMA RacedIs ==
    ASSUME NEW w
    PROVE  Question!Raced(w) <=> (v3[w].seen.status = "none" /\ v1.status # "none")
  BY Zenon DEF Question!Raced, Question!Inserts

\* The types of a request.
LEMMA QuestionJob ==
    ASSUME QuestionTyped, NEW w \in Workers
    PROVE  /\ v3[w] \in QuestionJobs /\ v3[w].seen \in Question!Row
           /\ v3[w].answer \in Question!AnswerOrNone /\ v3[w].alone \in BOOLEAN
  BY DEF QuestionTyped, QuestionJobs

\* What is assumed of the constants.
LEMMA QuestionConstants ==
    /\ MaxRequests \in Nat /\ MaxEdits \in Nat /\ MaxFaults \in Nat
    /\ NoAnswer \in Question!AnswerOrNone /\ Answers \subseteq Question!AnswerOrNone
  BY MirrorsAssumption
     DEF MirrorsAssumption, Question!QuestionAnswersAssumption, Question!AnswerOrNone

LEMMA IdleIsJob == Question!Idle \in QuestionJobs /\ Question!Idle.pc = "idle"
                   /\ Question!Idle.pc \notin QuestionCalls
  BY QuestionConstants, SMT
     DEF Question!Idle, QuestionJobs, QuestionCalls, Question!NoRow, Question!Row

\* A request that is overlapped is marked.
LEMMA AloneSet ==
    ASSUME NEW r \in QuestionJobs, NEW b \in BOOLEAN
    PROVE  /\ [r EXCEPT !.alone = b] \in QuestionJobs
           /\ [r EXCEPT !.alone = b].alone = b
           /\ [r EXCEPT !.alone = b].pc = r.pc
           /\ [r EXCEPT !.alone = b].seen = r.seen
           /\ [r EXCEPT !.alone = b].answer = r.answer
  BY DEF QuestionJobs

\* One worker's request goes on, or ends.
LEMMA QuestionMove ==
    ASSUME QuestionInv, NEW w \in Workers, NEW r \in QuestionJobs,
           v3' = [v3 EXCEPT ![w] = r],
           r.pc \in QuestionCalls => Asks(w) /\ r.alone = v3[w].alone
    PROVE  /\ v3' \in [Workers -> QuestionJobs]
           /\ v3'[w] = r
           /\ \A v \in Workers : v # w => v3'[v] = v3[v]
           /\ \A u, v \in Workers : AloneAt(u)' /\ Asks(v)' => v = u
           /\ ~v4 => \A u \in Workers : Asks(u)' => v3'[u].alone
<1>1. v3 \in [Workers -> QuestionJobs]
  BY DEF QuestionInv, QuestionTyped
<1>2. v3' \in [Workers -> QuestionJobs] /\ v3'[w] = r
      /\ \A v \in Workers : v # w => v3'[v] = v3[v]
  BY <1>1
<1>3. \A u \in Workers : (Asks(u)' => Asks(u)) /\ (Asks(u)' => v3'[u].alone = v3[u].alone)
  BY <1>2, Zenon DEF Asks
<1>4. \A u \in Workers : AloneAt(u)' => AloneAt(u)
  BY <1>3, Zenon DEF AloneAt
<1>. QED
  BY <1>2, <1>3, <1>4, Zenon DEF QuestionInv

\* What the invariant says of a worker that others' steps leave alone.
LEMMA QuestionOther ==
    ASSUME NEW v \in Workers, v3'[v] = v3[v], v2' = v2, v1' = v1
    PROVE  /\ AloneAt(v)' = AloneAt(v) /\ HasSeen(v)' = HasSeen(v)
           /\ Asks(v)' = Asks(v)
<1>1. Asks(v)' = Asks(v)
  BY DEF Asks
<1>2. AloneAt(v)' = AloneAt(v)
  BY <1>1 DEF AloneAt
<1>. QED
  BY <1>1, <1>2 DEF HasSeen

\* A request that syncs or posts begins; it and those under way mark one another.
LEMMA QuestionStart ==
    ASSUME QuestionInv, NEW w \in Workers, NEW request \in QuestionJobs,
           Question!Start(w, request), v1' = v1, v2' = v2, v6' = v6, v7' = v7,
           request.pc \in {"sync", "generate", "answer"},
           request.pc = "sync" => request.answer = v2,
           request.pc = "answer" => request.seen = v1
    PROVE  QuestionInv'
<1> DEFINE rival == request.pc # "generate" /\ Question!Others(w) # {}
<1>1. /\ v3[w].pc = "idle" /\ v5 < MaxRequests /\ v5' = v5 + 1
      /\ v3' = [v \in Workers |->
                  IF v = w THEN [request EXCEPT !.alone = ~rival]
                  ELSE [v3[v] EXCEPT !.alone = v3[v].alone /\ (request.pc = "generate")]]
      /\ v4' = (v4 \/ rival)
  BY Zenon DEF Question!Start, Question!At
<1>2. rival \in BOOLEAN
  OBVIOUS
<1>3. \A v \in Workers : v3[v] \in QuestionJobs /\ v3[v].alone \in BOOLEAN
  BY QuestionJob DEF QuestionInv
<1>4. ~rival /\ request.pc # "generate" => \A v \in Workers : v # w => ~Asks(v)
  BY CallsAre, Zenon DEF Asks, Question!Others
<1>. HIDE DEF rival
<1>5. /\ v3'[w] \in QuestionJobs /\ v3'[w].alone = (~rival) /\ v3'[w].pc = request.pc
      /\ v3'[w].seen = request.seen /\ v3'[w].answer = request.answer
  <2>1. v3'[w] = [request EXCEPT !.alone = ~rival]
    BY <1>1, Zenon
  <2>2. (~rival) \in BOOLEAN
    BY <1>2
  <2>. QED
    BY <2>1, <2>2, AloneSet, Zenon
<1>6. ASSUME NEW v \in Workers, v # w
      PROVE  /\ v3'[v] \in QuestionJobs /\ v3'[v].pc = v3[v].pc
             /\ v3'[v].seen = v3[v].seen /\ v3'[v].answer = v3[v].answer
             /\ v3'[v].alone = (v3[v].alone /\ (request.pc = "generate"))
  <2> DEFINE b == v3[v].alone /\ (request.pc = "generate")
  <2>1. v3'[v] = [v3[v] EXCEPT !.alone = b]
    BY <1>1, <1>6, Zenon
  <2>2. b \in BOOLEAN
    OBVIOUS
  <2>3. b = (v3[v].alone /\ (request.pc = "generate"))
    OBVIOUS
  <2>. HIDE DEF b
  <2>4. v3'[v] \in QuestionJobs /\ v3'[v].alone = b /\ v3'[v].pc = v3[v].pc
        /\ v3'[v].seen = v3[v].seen /\ v3'[v].answer = v3[v].answer
    BY <1>3, <2>1, <2>2, AloneSet
  <2>. QED
    BY <2>3, <2>4, Zenon
<1>7. DOMAIN v3' = Workers /\ v3' = [v \in Workers |-> v3'[v]]
  BY <1>1, Zenon
<1>8. v3' \in [Workers -> QuestionJobs]
  BY <1>5, <1>6, <1>7, Zenon
<1>9. QuestionTyped'
  <2>1. v5' \in 0..MaxRequests
    BY <1>1, QuestionConstants, SMT DEF QuestionInv, QuestionTyped
  <2>2. v4' \in BOOLEAN
    BY <1>1
  <2>. QED
    BY <1>8, <2>1, <2>2, Zenon
       DEF QuestionInv, QuestionTyped, Question!Row, Question!AnswerOrNone
<1>10. /\ Asks(w)' <=> request.pc # "generate"
       /\ AloneAt(w)' <=> (request.pc # "generate" /\ ~rival)
  <2>1. Asks(w)' <=> request.pc # "generate"
    BY <1>5, SMT DEF Asks, QuestionCalls
  <2>2. AloneAt(w)' <=> (Asks(w)' /\ v3'[w].alone)
    BY Zenon DEF AloneAt
  <2>. QED
    BY <1>5, <2>1, <2>2, Zenon
<1>11. \A v \in Workers : v # w =>
         /\ Asks(v)' <=> Asks(v)
         /\ AloneAt(v)' <=> (AloneAt(v) /\ request.pc = "generate")
  BY <1>6, Zenon DEF Asks, AloneAt
<1>12. \A u, v \in Workers : AloneAt(u)' /\ Asks(v)' => v = u
  BY <1>4, <1>10, <1>11, Zenon DEF QuestionInv
<1>13. ~v4' => \A u \in Workers : Asks(u)' => v3'[u].alone
  <2>. SUFFICES ASSUME ~v4', NEW u \in Workers, Asks(u)' PROVE v3'[u].alone
    OBVIOUS
  <2>1. ~v4 /\ ~rival
    BY <1>1
  <2>2. CASE u = w
    BY <1>5, <2>1, <2>2, Zenon
  <2>3. CASE u # w
    <3>1. Asks(u)
      BY <1>11, <2>3
    <3>2. request.pc = "generate"
      BY <1>4, <2>1, <2>3, <3>1, Zenon
    <3>3. v3[u].alone
      BY <2>1, <3>1, Zenon DEF QuestionInv
    <3>. QED
      BY <1>6, <2>3, <3>2, <3>3, Zenon
  <2>. QED
    BY <2>2, <2>3
<1>14. ASSUME NEW u \in Workers
       PROVE  /\ AloneAt(u)' /\ v3'[u].pc \in {"sync", "store_sync", "posted"}
                    => v3'[u].answer = v2'
              /\ HasSeen(u)' => /\ v3'[u].seen.posted = v1'.posted
                                /\ v1'.status = "posted" => v3'[u].seen.status = "posted"
  <2>1. CASE u = w
    BY <1>5, <2>1, SMT DEF HasSeen, AloneAt, Asks, QuestionCalls
  <2>2. CASE u # w
    <3>1. AloneAt(u)' => AloneAt(u)
      BY <1>11, <2>2, Zenon
    <3>2. HasSeen(u)' => HasSeen(u)
      BY <1>6, <2>2, <3>1, Zenon DEF HasSeen
    <3>3. v3'[u].pc = v3[u].pc /\ v3'[u].seen = v3[u].seen /\ v3'[u].answer = v3[u].answer
      BY <1>6, <2>2
    <3>4. /\ AloneAt(u) /\ v3[u].pc \in {"sync", "store_sync", "posted"} => v3[u].answer = v2
          /\ HasSeen(u) => /\ v3[u].seen.posted = v1.posted
                           /\ v1.status = "posted" => v3[u].seen.status = "posted"
      BY Zenon DEF QuestionInv
    <3>. QED
      BY <3>1, <3>2, <3>3, <3>4
  <2>. QED
    BY <2>1, <2>2
<1>15. Question!PostedIsLive'
  <2>1. \A u \in Workers : Question!Unstored(u) => Question!Unstored(u)'
    BY <1>1, <1>6, SMT DEF Question!Unstored
  <2>2. ~v4' => ~v4
    BY <1>1
  <2>. QED
    BY <2>1, <2>2, Zenon DEF QuestionInv, Question!PostedIsLive
<1>. QED
  BY <1>9, <1>12, <1>13, <1>14, <1>15, Zenon DEF QuestionInv

\* The bounds.
QuestionBounds == v5 \in 0..MaxRequests /\ v6 \in 0..MaxEdits /\ v7 \in 0..MaxFaults

\* What is left to show of a worker's step.
LEMMA QuestionAfter ==
    ASSUME QuestionInv, NEW w \in Workers, NEW r \in QuestionJobs,
           v3' = [v3 EXCEPT ![w] = r],
           r.pc \in QuestionCalls => Asks(w) /\ r.alone = v3[w].alone,
           v1' \in Question!Row, v2' \in Question!AnswerOrNone, v4' \in BOOLEAN, QuestionBounds',
           v4 /\ ~v4' => AloneAt(w) /\ r.pc \notin QuestionCalls,
           \A v \in Workers : v # w /\ AloneAt(v) =>
               /\ v2' = v2 /\ v1'.posted = v1.posted
               /\ v1'.status = "posted" => v1.status = "posted",
           r.pc \in QuestionCalls /\ r.alone =>
               /\ r.pc \in {"sync", "store_sync", "posted"} => r.answer = v2'
               /\ r.pc # "sync" => /\ r.seen.posted = v1'.posted
                                   /\ v1'.status = "posted" => r.seen.status = "posted",
           Question!PostedIsLive'
    PROVE  QuestionInv'
<1>1. /\ v3' \in [Workers -> QuestionJobs]
      /\ v3'[w] = r
      /\ \A v \in Workers : v # w => v3'[v] = v3[v]
      /\ \A u, v \in Workers : AloneAt(u)' /\ Asks(v)' => v = u
      /\ ~v4 => \A u \in Workers : Asks(u)' => v3'[u].alone
  BY QuestionMove
<1>2. QuestionTyped'
  BY <1>1, Zenon DEF QuestionTyped, QuestionBounds, Question!Row, Question!AnswerOrNone
<1>3. ~v4' => \A u \in Workers : Asks(u)' => v3'[u].alone
  <2>1. CASE v4 /\ ~v4'
    <3>1. \A u \in Workers : u # w => ~Asks(u)
      BY <2>1, Zenon DEF QuestionInv
    <3>2. ~Asks(w)'
      BY <1>1, <2>1, Zenon DEF Asks
    <3>. QED
      BY <1>1, <3>1, <3>2, Zenon DEF Asks
  <2>. QED
    BY <1>1, <2>1
<1>4. ASSUME NEW u \in Workers
      PROVE  /\ AloneAt(u)' /\ v3'[u].pc \in {"sync", "store_sync", "posted"}
                   => v3'[u].answer = v2'
             /\ HasSeen(u)' => /\ v3'[u].seen.posted = v1'.posted
                               /\ v1'.status = "posted" => v3'[u].seen.status = "posted"
  <2>1. CASE u = w
    BY <1>1, <2>1, Zenon DEF HasSeen, AloneAt, Asks
  <2>2. CASE u # w
    <3>1. v3'[u] = v3[u]
      BY <1>1, <2>2
    <3>2. (AloneAt(u)' => AloneAt(u)) /\ (HasSeen(u)' => HasSeen(u))
      BY <3>1, Zenon DEF HasSeen, AloneAt, Asks
    <3>3. /\ AloneAt(u) /\ v3[u].pc \in {"sync", "store_sync", "posted"} => v3[u].answer = v2
          /\ HasSeen(u) => /\ v3[u].seen.posted = v1.posted
                           /\ v1.status = "posted" => v3[u].seen.status = "posted"
      BY Zenon DEF QuestionInv
    <3>4. AloneAt(u) => /\ v2' = v2 /\ v1'.posted = v1.posted
                        /\ v1'.status = "posted" => v1.status = "posted"
      BY <2>2
    <3>5. HasSeen(u) => AloneAt(u)
      BY DEF HasSeen
    <3>. QED
      BY <3>1, <3>2, <3>3, <3>4, <3>5
  <2>. QED
    BY <2>1, <2>2
<1>. QED
  BY <1>1, <1>2, <1>3, <1>4, Zenon DEF QuestionInv

\* Beside a request that asks Google, none is alone.
LEMMA NoneAlone ==
    ASSUME QuestionInv, NEW w \in Workers, Asks(w)
    PROVE  \A v \in Workers : v # w => ~AloneAt(v)
  BY Zenon DEF QuestionInv

LEMMA QuestionBoundsNow == ASSUME QuestionInv PROVE QuestionBounds
  BY DEF QuestionInv, QuestionTyped, QuestionBounds

\* What is posted stays live if no worker was about to store something else.
LEMMA PostedStays ==
    ASSUME QuestionInv, NEW w \in Workers, \A v \in Workers : v # w => v3'[v] = v3[v],
           v2' = v2, v1'.posted = v1.posted, v1'.status = "posted" => v1.status = "posted",
           ~v4' => ~v4, Question!Unstored(w) /\ ~v4' => Question!Unstored(w)'
    PROVE  Question!PostedIsLive'
<1>1. \A v \in Workers : ~v4' /\ Question!Unstored(v) => Question!Unstored(v)'
  BY Zenon DEF Question!Unstored
<1>. QED
  BY <1>1, Zenon DEF QuestionInv, Question!PostedIsLive

\* It is kept, action by action.
LEMMA QuestionUpsert ==
    ASSUME QuestionInv, NEW w \in Workers, Question!Upsert(w)
    PROVE  QuestionInv'
<1> DEFINE s == [v3[w] EXCEPT !.pc = "store_sync"]
           r == [s EXCEPT !.seen = v1]
           once == [v3 EXCEPT ![w] = s]
<1>1. /\ v3[w].pc = "sync" /\ v3' = [v3 EXCEPT ![w].pc = "store_sync", ![w].seen = v1]
      /\ v1' = v1 /\ v2' = v2 /\ v4' = v4 /\ v5' = v5 /\ v6' = v6 /\ v7' = v7
  BY DEF Question!Upsert, Question!At, Question!bounds
<1>2. v3 \in [Workers -> QuestionJobs] /\ v3[w] \in QuestionJobs /\ v1 \in Question!Row
      /\ v2 \in Question!AnswerOrNone /\ v4 \in BOOLEAN
  BY DEF QuestionInv, QuestionTyped
<1>3. s \in QuestionJobs /\ s.pc = "store_sync" /\ s.alone = v3[w].alone
      /\ s.answer = v3[w].answer
  BY <1>2 DEF QuestionJobs, QuestionCalls
<1>4. r \in QuestionJobs /\ r.pc = "store_sync" /\ r.alone = v3[w].alone
      /\ r.answer = v3[w].answer /\ r.seen = v1
  <2>. HIDE DEF s
  <2>. QED
    BY <1>2, <1>3 DEF QuestionJobs
<1>5. v3' = [v3 EXCEPT ![w] = r]
  <2>1. v3' = [once EXCEPT ![w].seen = v1] /\ once[w] = s
    BY <1>1, <1>2
  <2>2. [once EXCEPT ![w].seen = v1] = [once EXCEPT ![w] = r]
    BY <2>1
  <2>. HIDE DEF s, r
  <2>3. [once EXCEPT ![w] = r] = [v3 EXCEPT ![w] = r]
    BY <1>2, <1>3, WrittenTwice
  <2>. QED
    BY <2>1, <2>2, <2>3
<1>. HIDE DEF s, r, once
<1>6. Asks(w) /\ QuestionBounds'
  BY <1>1, QuestionBoundsNow, Zenon DEF Asks, QuestionCalls, QuestionBounds
<1>7. v3'[w] = r /\ \A v \in Workers : v # w => v3'[v] = v3[v]
  BY <1>2, <1>5
<1>8. Question!PostedIsLive'
  <2>1. ~Question!Unstored(w)
    BY <1>1, Zenon DEF Question!Unstored
  <2>. QED
    BY <1>1, <1>7, <2>1, PostedStays
<1>9. r.alone => r.answer = v2'
  <2>1. AloneAt(w) => v3[w].answer = v2
    BY <1>1, Zenon DEF QuestionInv
  <2>. QED
    BY <1>1, <1>4, <1>6, <2>1 DEF AloneAt
<1>. QED
  BY <1>1, <1>2, <1>4, <1>5, <1>6, <1>8, <1>9, QuestionAfter

\* Rows and their columns.
LEMMA RowTyped ==
    ASSUME NEW s \in Question!Row
    PROVE  /\ s.status \in {"none", "pending", "draft", "posted", "failed"}
           /\ s.posted \in Question!AnswerOrNone
  BY DEF Question!Row

LEMMA StatusSet ==
    ASSUME NEW s \in Question!Row, NEW t \in {"none", "pending", "draft", "posted", "failed"}
    PROVE  /\ [s EXCEPT !.status = t] \in Question!Row
           /\ [s EXCEPT !.status = t].status = t
           /\ [s EXCEPT !.status = t].posted = s.posted
  BY DEF Question!Row

LEMMA PostedRow ==
    ASSUME NEW a \in Question!AnswerOrNone
    PROVE  [status |-> "posted", posted |-> a] \in Question!Row
  BY DEF Question!Row

\* A sync stores what it found on Google.
LEMMA QuestionCommitSync ==
    ASSUME QuestionInv, NEW w \in Workers, Question!CommitSync(w)
    PROVE  QuestionInv'
<1> DEFINE new == Question!SyncedRow(v3[w].seen, v3[w].answer)
           seen == v3[w].seen
<1>1. /\ v3[w].pc = "store_sync" /\ Question!Store(w, new)
      /\ v4' = (v4 /\ (~v3[w].alone \/ Question!Raced(w) \/ v3[w].answer = NoAnswer))
      /\ v3' = [v3 EXCEPT ![w] = Question!Idle]
      /\ v2' = v2 /\ v5' = v5 /\ v6' = v6 /\ v7' = v7
  BY Zenon DEF Question!CommitSync, Question!At, Question!Finish, Question!bounds
<1>2. /\ v1 \in Question!Row /\ v2 \in Question!AnswerOrNone /\ v4 \in BOOLEAN
      /\ v3 \in [Workers -> QuestionJobs] /\ seen \in Question!Row
      /\ v3[w].answer \in Question!AnswerOrNone
  BY QuestionJob DEF QuestionInv, QuestionTyped
<1>3. /\ v3[w].answer # NoAnswer => new = [status |-> "posted", posted |-> v3[w].answer]
      /\ v3[w].answer = NoAnswer =>
           new = [seen EXCEPT !.status = IF seen.status = "none" THEN "pending" ELSE seen.status]
  BY Zenon DEF Question!SyncedRow
<1>4. /\ new \in Question!Row
      /\ v3[w].answer # NoAnswer => new.status = "posted" /\ new.posted = v3[w].answer
      /\ v3[w].answer = NoAnswer => /\ new.posted = seen.posted
                                    /\ new.status = "pending" \/ new.status = seen.status
  <2> DEFINE t == IF seen.status = "none" THEN "pending" ELSE seen.status
  <2>1. t \in {"none", "pending", "draft", "posted", "failed"}
        /\ (t = "pending" \/ t = seen.status)
    BY <1>2, RowTyped
  <2>2. v3[w].answer = NoAnswer => new = [seen EXCEPT !.status = t]
    BY <1>3
  <2>. HIDE DEF new, seen, t
  <2>3. [seen EXCEPT !.status = t] \in Question!Row /\ [seen EXCEPT !.status = t].status = t
        /\ [seen EXCEPT !.status = t].posted = seen.posted
    BY <1>2, <2>1, StatusSet
  <2>4. CASE v3[w].answer = NoAnswer
    BY <2>1, <2>2, <2>3, <2>4
  <2>5. CASE v3[w].answer # NoAnswer
    BY <1>2, <1>3, <2>5, PostedRow
  <2>. QED
    BY <2>4, <2>5
<1>. HIDE DEF new, seen
<1>5. Asks(w) /\ QuestionBounds'
  BY <1>1, QuestionBoundsNow, Zenon DEF Asks, QuestionCalls, QuestionBounds
<1>6. \/ Question!Raced(w) /\ v1' = v1
      \/ /\ ~Question!Raced(w) /\ v1' \in Question!Row
         /\ v1'.status = IF new.status = seen.status THEN v1.status ELSE new.status
         /\ v1'.posted = IF new.posted = seen.posted THEN v1.posted ELSE new.posted
  BY <1>1, <1>2, <1>4, QuestionStore, QuestionRaced DEF seen
<1>7. AloneAt(w) => v3[w].answer = v2 /\ seen.posted = v1.posted
  BY <1>1, <1>5, Zenon DEF QuestionInv, HasSeen, seen
<1>8. Question!PostedIsLive'
  <2>. SUFFICES ASSUME v1'.status = "posted", ~v4'
                PROVE  v1'.posted = v2' \/ \E v \in Workers : Question!Unstored(v)'
    BY DEF Question!PostedIsLive
  <2>1. v3[w].alone
    BY <1>1, <1>5, Zenon DEF QuestionInv
  <2>2. AloneAt(w)
    BY <1>5, <2>1 DEF AloneAt
  <2>3. CASE v4 \/ ~(Question!Raced(w) \/ v3[w].answer = NoAnswer)
    <3>1. ~Question!Raced(w) /\ v3[w].answer # NoAnswer
      BY <1>1, <2>1, <2>3
    <3>2. v1'.posted = new.posted
      BY <1>6, <1>7, <2>2, <3>1, Zenon
    <3>. QED
      BY <1>1, <1>4, <1>7, <2>2, <3>1, <3>2
  <2>4. CASE ~v4 /\ (Question!Raced(w) \/ v3[w].answer = NoAnswer)
    <3>1. v1'.posted = v1.posted /\ v1.status = "posted"
      BY <1>4, <1>6, <2>4, Zenon
    <3>2. \A v \in Workers : v # w => ~Asks(v)
      BY <2>2, Zenon DEF QuestionInv
    <3>3. \A v \in Workers : ~Question!Unstored(v)
      BY <1>1, <3>2, Zenon DEF Question!Unstored, Asks, QuestionCalls
    <3>4. v1.posted = v2
      BY <2>4, <3>1, <3>3, Zenon DEF QuestionInv, Question!PostedIsLive
    <3>. QED
      BY <1>1, <3>1, <3>4
  <2>. QED
    BY <2>3, <2>4
<1>9. v1' \in Question!Row /\ v4' \in BOOLEAN
  BY <1>1, <1>2, <1>6
<1>10. v4 /\ ~v4' => AloneAt(w)
  BY <1>1, <1>5 DEF AloneAt
<1>11. \A v \in Workers : v # w => ~AloneAt(v)
  BY <1>5, NoneAlone
<1>. QED
  BY <1>1, <1>2, <1>5, <1>8, <1>9, <1>10, <1>11, IdleIsJob, QuestionAfter, Zenon

\* A request goes on with Google's answer or without it.
LEMMA QuestionAsked ==
    ASSUME QuestionInv, NEW w \in Workers, v3[w].pc \in QuestionCalls, NEW r \in QuestionJobs,
           v3' = [v3 EXCEPT ![w] = r],
           r.pc \in {"posted", "failed"}, r.alone = v3[w].alone, r.seen = v3[w].seen,
           r.answer = v3[w].answer,
           v1' = v1, v2' \in Question!AnswerOrNone, r.pc = "posted" => v2' = v3[w].answer,
           v3[w].pc = "answer", v4' = v4, QuestionBounds'
    PROVE  QuestionInv'
<1>1. Asks(w)
  BY DEF Asks
<1>2. \A v \in Workers : v # w => ~AloneAt(v)
  BY <1>1, NoneAlone
<1>3. v3 \in [Workers -> QuestionJobs] /\ v1 \in Question!Row /\ v4 \in BOOLEAN
  BY DEF QuestionInv, QuestionTyped
<1>4. Question!PostedIsLive'
  <2>1. v3'[w].pc \in {"posted", "failed"}
    BY <1>3
  <2>2. Question!Unstored(w)'
    BY <2>1, Zenon DEF Question!Unstored
  <2>. QED
    BY <2>2, Zenon DEF Question!PostedIsLive
<1>5. r.pc \in QuestionCalls
  BY DEF QuestionCalls
<1>6. r.alone => /\ r.seen.posted = v1'.posted
                 /\ v1'.status = "posted" => r.seen.status = "posted"
  <2>1. v3[w].alone => HasSeen(w)
    BY <1>1, Zenon DEF HasSeen, AloneAt
  <2>2. HasSeen(w) => /\ v3[w].seen.posted = v1.posted
                      /\ v1.status = "posted" => v3[w].seen.status = "posted"
    BY Zenon DEF QuestionInv
  <2>. QED
    BY <2>1, <2>2
<1>7. r.pc \in {"sync", "store_sync", "posted"} => r.answer = v2'
  OBVIOUS
<1>. QED
  BY <1>1, <1>2, <1>3, <1>4, <1>5, <1>6, <1>7, QuestionAfter

\* Google accepts, refuses, or its answer is lost.
LEMMA QuestionAnswered ==
    ASSUME QuestionInv, NEW w \in Workers,
           Question!GoogleAccepts(w) \/ Question!GoogleRefuses(w) \/ Question!ResponseLost(w)
    PROVE  QuestionInv'
<1> DEFINE r(pc) == [v3[w] EXCEPT !.pc = pc]
<1>1. /\ v3[w].pc = "answer" /\ v1' = v1 /\ v4' = v4 /\ v5' = v5 /\ v6' = v6
      /\ v7' = v7 \/ (v7 < MaxFaults /\ v7' = v7 + 1)
      /\ \/ v2' = v3[w].answer /\ v3' = [v3 EXCEPT ![w] = r("posted")]
         \/ v2' \in {v2, v3[w].answer} /\ v3' = [v3 EXCEPT ![w] = r("failed")]
  BY DEF Question!GoogleAccepts, Question!GoogleRefuses, Question!ResponseLost, Question!At,
         Question!bounds
<1>2. v3 \in [Workers -> QuestionJobs] /\ v3[w] \in QuestionJobs
      /\ v2 \in Question!AnswerOrNone /\ v3[w].answer \in Question!AnswerOrNone
  BY QuestionJob DEF QuestionInv, QuestionTyped
<1>3. ASSUME NEW pc \in {"posted", "failed"}
      PROVE  /\ r(pc) \in QuestionJobs /\ r(pc).pc = pc /\ r(pc).alone = v3[w].alone
             /\ r(pc).seen = v3[w].seen /\ r(pc).answer = v3[w].answer
  BY <1>2 DEF QuestionJobs, QuestionCalls
<1>4. QuestionBounds'
  BY <1>1, QuestionBoundsNow, QuestionConstants, SMT DEF QuestionBounds
<1>5. v3[w].pc \in QuestionCalls
  BY <1>1 DEF QuestionCalls
<1>. HIDE DEF r
<1>6. ASSUME v2' = v3[w].answer, v3' = [v3 EXCEPT ![w] = r("posted")] PROVE QuestionInv'
  BY <1>1, <1>2, <1>3, <1>4, <1>5, <1>6, QuestionAsked
<1>7. ASSUME v2' \in {v2, v3[w].answer}, v3' = [v3 EXCEPT ![w] = r("failed")]
      PROVE  QuestionInv'
  BY <1>1, <1>2, <1>3, <1>4, <1>5, <1>7, QuestionAsked
<1>. QED
  BY <1>1, <1>6, <1>7

\* A draft beside: it writes the status only, and never that the answer is posted.
LEMMA QuestionDrafted ==
    ASSUME QuestionInv, NEW w \in Workers, v3[w].pc \in {"generate", "expired"},
           NEW r \in QuestionJobs, r.pc \in {"idle", "expired"}, v3' = [v3 EXCEPT ![w] = r],
           v1' \in Question!Row, v1'.posted = v1.posted,
           v1'.status = "posted" => v1.status = "posted",
           v2' = v2, v4' = v4, v5' = v5, v6' = v6, v7' = v7
    PROVE  QuestionInv'
<1>1. v3 \in [Workers -> QuestionJobs] /\ v2 \in Question!AnswerOrNone /\ v4 \in BOOLEAN
  BY DEF QuestionInv, QuestionTyped
<1>2. \A v \in Workers : v # w => v3'[v] = v3[v]
  BY <1>1
<1>3. ~Question!Unstored(w)
  BY Zenon DEF Question!Unstored
<1>4. Question!PostedIsLive'
  BY <1>2, <1>3, PostedStays
<1>5. r.pc \notin QuestionCalls /\ QuestionBounds'
  BY QuestionBoundsNow, Zenon DEF QuestionCalls, QuestionBounds
<1>. QED
  BY <1>1, <1>4, <1>5, QuestionAfter

\* A draft is paid for before it is stored.
LEMMA QuestionCommitUsage ==
    ASSUME QuestionInv, NEW w \in Workers, Question!CommitUsage(w)
    PROVE  QuestionInv'
<1> DEFINE seen == v3[w].seen
           t == IF seen.status = "none" THEN "pending" ELSE seen.status
           new == [seen EXCEPT !.status = t]
           r == [v3[w] EXCEPT !.pc = "expired"]
<1>1. /\ v3[w].pc = "generate" /\ Question!Store(w, new)
      /\ v3' = [v3 EXCEPT ![w] = IF Question!Raced(w) THEN Question!Idle ELSE r]
      /\ v2' = v2 /\ v4' = v4 /\ v5' = v5 /\ v6' = v6 /\ v7' = v7
  BY DEF Question!CommitUsage, Question!At, Question!Finish, Question!bounds
<1>2. /\ v1 \in Question!Row /\ seen \in Question!Row /\ v3[w] \in QuestionJobs
  BY QuestionJob DEF QuestionInv, QuestionTyped
<1>3. r \in QuestionJobs /\ r.pc = "expired"
  BY <1>2 DEF QuestionJobs
<1>4. t \in {"none", "pending", "draft", "posted", "failed"} /\ (t = "pending" \/ t = seen.status)
  BY <1>2, RowTyped
<1>. HIDE DEF r, seen, t
<1>5. new \in Question!Row /\ new.status = t /\ new.posted = seen.posted
  BY <1>2, <1>4, StatusSet
<1>. HIDE DEF new
<1>6. v1' \in Question!Row /\ v1'.posted = v1.posted
      /\ (v1'.status = "posted" => v1.status = "posted")
  <2>1. CASE Question!Raced(w)
    BY <1>1, <1>2, <2>1, QuestionRaced
  <2>2. CASE ~Question!Raced(w)
    <3>1. /\ v1' \in Question!Row
          /\ v1'.status = IF new.status = seen.status THEN v1.status ELSE new.status
          /\ v1'.posted = IF new.posted = seen.posted THEN v1.posted ELSE new.posted
      BY <1>1, <1>2, <1>5, <2>2, QuestionStore DEF seen
    <3>. QED
      BY <1>4, <1>5, <3>1
  <2>. QED
    BY <2>1, <2>2
<1>7. CASE Question!Raced(w)
  <2>1. v3' = [v3 EXCEPT ![w] = Question!Idle]
    BY <1>1, <1>7
  <2>. QED
    BY <1>1, <1>6, <2>1, IdleIsJob, QuestionDrafted
<1>8. CASE ~Question!Raced(w)
  <2>1. v3' = [v3 EXCEPT ![w] = r]
    BY <1>1, <1>8
  <2>. QED
    BY <1>1, <1>3, <1>6, <2>1, QuestionDrafted
<1>. QED
  BY <1>7, <1>8

\* A draft never becomes posted.
LEMMA QuestionCommitDraft ==
    ASSUME QuestionInv, NEW w \in Workers, Question!CommitDraft(w)
    PROVE  QuestionInv'
<1> DEFINE seen == v3[w].seen
           new == [seen EXCEPT !.status = "draft"]
<1>1. /\ \/ v3[w].pc = "expired" /\ v1' = [v1 EXCEPT !.status = "draft"]
         \/ v3[w].pc = "generate" /\ Question!Store(w, new)
      /\ v3' = [v3 EXCEPT ![w] = Question!Idle]
      /\ v2' = v2 /\ v4' = v4 /\ v5' = v5 /\ v6' = v6 /\ v7' = v7
  BY DEF Question!CommitDraft, Question!At, Question!Finish, Question!bounds
<1>2. v1 \in Question!Row /\ seen \in Question!Row
  BY QuestionJob DEF QuestionInv, QuestionTyped
<1>. HIDE DEF seen
<1>3. new \in Question!Row /\ new.status = "draft" /\ new.posted = seen.posted
  BY <1>2, StatusSet
<1>. HIDE DEF new
<1>4. v1' \in Question!Row /\ v1'.posted = v1.posted
      /\ (v1'.status = "posted" => v1.status = "posted")
  <2>1. CASE v1' = [v1 EXCEPT !.status = "draft"]
    BY <1>2, <2>1, StatusSet
  <2>2. CASE Question!Store(w, new) /\ Question!Raced(w)
    BY <1>2, <2>2, QuestionRaced
  <2>3. CASE Question!Store(w, new) /\ ~Question!Raced(w)
    <3>1. /\ v1' \in Question!Row
          /\ v1'.status = IF new.status = seen.status THEN v1.status ELSE new.status
          /\ v1'.posted = IF new.posted = seen.posted THEN v1.posted ELSE new.posted
      BY <1>2, <1>3, <2>3, QuestionStore DEF seen
    <3>. QED
      BY <1>3, <3>1
  <2>. QED
    BY <1>1, <2>1, <2>2, <2>3
<1>5. v3[w].pc \in {"generate", "expired"}
  BY <1>1
<1>. QED
  BY <1>1, <1>4, <1>5, IdleIsJob, QuestionDrafted

\* Google's answer to a post is stored.
LEMMA QuestionCommitPosted ==
    ASSUME QuestionInv, NEW w \in Workers, Question!CommitPosted(w)
    PROVE  QuestionInv'
<1> DEFINE new == [status |-> "posted", posted |-> v3[w].answer]
           seen == v3[w].seen
<1>1. /\ v3[w].pc = "posted" /\ Question!Store(w, new)
      /\ v4' = (v4 \/ Question!Raced(w))
      /\ v3' = [v3 EXCEPT ![w] = Question!Idle]
      /\ v2' = v2 /\ v5' = v5 /\ v6' = v6 /\ v7' = v7
  BY Zenon DEF Question!CommitPosted, Question!At, Question!Finish, Question!bounds
<1>2. /\ v1 \in Question!Row /\ v2 \in Question!AnswerOrNone /\ v4 \in BOOLEAN
      /\ v3 \in [Workers -> QuestionJobs] /\ seen \in Question!Row
      /\ v3[w].answer \in Question!AnswerOrNone
  BY QuestionJob DEF QuestionInv, QuestionTyped
<1>3. new \in Question!Row /\ new.posted = v3[w].answer
  BY <1>2, PostedRow
<1>. HIDE DEF new, seen
<1>4. Asks(w) /\ QuestionBounds'
  BY <1>1, QuestionBoundsNow, Zenon DEF Asks, QuestionCalls, QuestionBounds
<1>5. \/ Question!Raced(w) /\ v1' = v1
      \/ /\ ~Question!Raced(w) /\ v1' \in Question!Row
         /\ v1'.posted = IF new.posted = seen.posted THEN v1.posted ELSE new.posted
  BY <1>1, <1>2, <1>3, QuestionStore, QuestionRaced DEF seen
<1>6. AloneAt(w) => v3[w].answer = v2 /\ seen.posted = v1.posted
  BY <1>1, <1>4, Zenon DEF QuestionInv, HasSeen, seen
<1>7. Question!PostedIsLive'
  <2>. SUFFICES ASSUME ~v4' PROVE v1'.posted = v2'
    BY DEF Question!PostedIsLive
  <2>1. ~v4 /\ ~Question!Raced(w)
    BY <1>1
  <2>2. AloneAt(w)
    BY <1>4, <2>1, Zenon DEF QuestionInv, AloneAt
  <2>. QED
    BY <1>1, <1>3, <1>5, <1>6, <2>1, <2>2
<1>8. v1' \in Question!Row /\ v4' \in BOOLEAN /\ ~(v4 /\ ~v4')
  BY <1>1, <1>2, <1>5
<1>9. \A v \in Workers : v # w => ~AloneAt(v)
  BY <1>4, NoneAlone
<1>. QED
  BY <1>1, <1>2, <1>4, <1>7, <1>8, <1>9, IdleIsJob, QuestionAfter, Zenon

\* A failure is stored.
LEMMA QuestionCommitFailed ==
    ASSUME QuestionInv, NEW w \in Workers, Question!CommitFailed(w)
    PROVE  QuestionInv'
<1> DEFINE seen == v3[w].seen
           new == [seen EXCEPT !.status = "failed"]
<1>1. /\ v3[w].pc = "failed" /\ Question!Store(w, new)
      /\ v3' = [v3 EXCEPT ![w] = Question!Idle]
      /\ v2' = v2 /\ v4' = v4 /\ v5' = v5 /\ v6' = v6 /\ v7' = v7
  BY DEF Question!CommitFailed, Question!At, Question!Finish, Question!bounds
<1>2. /\ v1 \in Question!Row /\ v2 \in Question!AnswerOrNone /\ v4 \in BOOLEAN
      /\ v3 \in [Workers -> QuestionJobs] /\ seen \in Question!Row
  BY QuestionJob DEF QuestionInv, QuestionTyped
<1>. HIDE DEF seen
<1>3. new \in Question!Row /\ new.status = "failed" /\ new.posted = seen.posted
  BY <1>2, StatusSet
<1>. HIDE DEF new
<1>4. Asks(w) /\ QuestionBounds'
  BY <1>1, QuestionBoundsNow, Zenon DEF Asks, QuestionCalls, QuestionBounds
<1>5. \/ Question!Raced(w) /\ v1' = v1
      \/ /\ ~Question!Raced(w) /\ v1' \in Question!Row
         /\ v1'.status = IF new.status = seen.status THEN v1.status ELSE new.status
  BY <1>1, <1>2, <1>3, QuestionStore, QuestionRaced DEF seen
<1>6. AloneAt(w) => (v1.status = "posted" => seen.status = "posted")
  BY <1>1, <1>4, Zenon DEF QuestionInv, HasSeen, seen
<1>7. Question!PostedIsLive'
  <2>. SUFFICES ASSUME ~v4' PROVE v1'.status # "posted"
    BY DEF Question!PostedIsLive
  <2>1. AloneAt(w)
    BY <1>1, <1>4, Zenon DEF QuestionInv, AloneAt
  <2>2. CASE Question!Raced(w)
    <3>1. seen.status = "none"
      BY <2>2, RacedIs DEF seen
    <3>. QED
      BY <1>5, <1>6, <2>1, <2>2, <3>1
  <2>3. CASE ~Question!Raced(w)
    BY <1>3, <1>5, <1>6, <2>1, <2>3
  <2>. QED
    BY <2>2, <2>3
<1>8. v1' \in Question!Row
  BY <1>2, <1>5
<1>9. \A v \in Workers : v # w => ~AloneAt(v)
  BY <1>4, NoneAlone
<1>. QED
  BY <1>1, <1>2, <1>4, <1>7, <1>8, <1>9, IdleIsJob, QuestionAfter, Zenon

\* A request dies.
LEMMA QuestionCrash ==
    ASSUME QuestionInv, NEW w \in Workers, Question!Crash(w)
    PROVE  QuestionInv'
<1>1. /\ v7 < MaxFaults /\ v7' = v7 + 1 /\ v4' = (v4 \/ Question!Unstored(w))
      /\ v3' = [v3 EXCEPT ![w] = Question!Idle]
      /\ v1' = v1 /\ v2' = v2 /\ v5' = v5 /\ v6' = v6
  BY DEF Question!Crash, Question!Finish
<1>2. /\ v1 \in Question!Row /\ v2 \in Question!AnswerOrNone /\ v4 \in BOOLEAN
      /\ v3 \in [Workers -> QuestionJobs]
  BY DEF QuestionInv, QuestionTyped
<1>3. QuestionBounds'
  BY <1>1, QuestionBoundsNow, QuestionConstants, SMT DEF QuestionBounds
<1>4. (~v4' => ~v4 /\ ~Question!Unstored(w)) /\ v4' \in BOOLEAN
  <2>1. Question!Unstored(w) \in BOOLEAN
    BY DEF Question!Unstored
  <2>. QED
    BY <1>1, <1>2, <2>1
<1>5. \A v \in Workers : v # w => v3'[v] = v3[v]
  BY <1>1, <1>2
<1>6. Question!PostedIsLive'
  BY <1>1, <1>4, <1>5, PostedStays
<1>. QED
  BY <1>1, <1>2, <1>3, <1>4, <1>6, IdleIsJob, QuestionAfter, Zenon

LEMMA QuestionIdleRow ==
    /\ Question!Idle = [pc |-> "idle", seen |-> Question!NoRow, answer |-> NoAnswer, alone |-> FALSE]
    /\ Question!NoRow \in Question!Row
  BY QuestionConstants DEF Question!Idle, Question!NoRow, Question!Row

\* A field of a request is set.
LEMMA QuestionPc ==
    ASSUME NEW r \in QuestionJobs, NEW pc \in {"sync", "generate", "answer"}
    PROVE  /\ [r EXCEPT !.pc = pc] \in QuestionJobs /\ [r EXCEPT !.pc = pc].pc = pc
  BY DEF QuestionJobs, QuestionCalls

LEMMA QuestionSeen ==
    ASSUME NEW r \in QuestionJobs, NEW seen \in Question!Row
    PROVE  /\ [r EXCEPT !.seen = seen] \in QuestionJobs
           /\ [r EXCEPT !.seen = seen].seen = seen /\ [r EXCEPT !.seen = seen].pc = r.pc
  BY DEF QuestionJobs

LEMMA QuestionAnswer ==
    ASSUME NEW r \in QuestionJobs, NEW answer \in Question!AnswerOrNone
    PROVE  /\ [r EXCEPT !.answer = answer] \in QuestionJobs
           /\ [r EXCEPT !.answer = answer].answer = answer
           /\ [r EXCEPT !.answer = answer].pc = r.pc /\ [r EXCEPT !.answer = answer].seen = r.seen
  BY DEF QuestionJobs

\* A sync begins.
LEMMA QuestionSync ==
    ASSUME QuestionInv, NEW w \in Workers, Question!Sync(w)
    PROVE  QuestionInv'
<1> DEFINE a == [Question!Idle EXCEPT !.pc = "sync"]
           b == [a EXCEPT !.answer = v2]
<1>1. v1 \in Question!Row /\ v2 \in Question!AnswerOrNone
  BY QuestionConstants DEF QuestionInv, QuestionTyped
<1>2. /\ Question!Start(w, [Question!Idle EXCEPT !.pc = "sync", !.answer = v2])
      /\ v1' = v1 /\ v2' = v2 /\ v6' = v6 /\ v7' = v7
  BY DEF Question!Sync
<1>3. [Question!Idle EXCEPT !.pc = "sync", !.answer = v2] = b
  OBVIOUS
<1>4. a \in QuestionJobs /\ a.pc = "sync"
  BY IdleIsJob, QuestionPc
<1>5. b \in QuestionJobs /\ b.pc = "sync" /\ b.answer = v2
  <2>. HIDE DEF a
  <2>. QED
    BY <1>1, <1>4, QuestionAnswer
<1>6. Question!Start(w, b)
  BY <1>2, <1>3, Zenon
<1>. HIDE DEF a, b
<1>. QED
  BY <1>2, <1>5, <1>6, QuestionStart

\* A draft is asked for.
LEMMA QuestionGenerate ==
    ASSUME QuestionInv, NEW w \in Workers, Question!Generate(w)
    PROVE  QuestionInv'
<1> DEFINE a == [Question!Idle EXCEPT !.pc = "generate"]
           b == [a EXCEPT !.seen = v1]
<1>1. v1 \in Question!Row /\ v2 \in Question!AnswerOrNone
  BY QuestionConstants DEF QuestionInv, QuestionTyped
<1>2. /\ Question!Start(w, [Question!Idle EXCEPT !.pc = "generate", !.seen = v1])
      /\ v1' = v1 /\ v2' = v2 /\ v6' = v6 /\ v7' = v7
  BY DEF Question!Generate
<1>3. [Question!Idle EXCEPT !.pc = "generate", !.seen = v1] = b
  OBVIOUS
<1>4. a \in QuestionJobs /\ a.pc = "generate"
  BY IdleIsJob, QuestionPc
<1>5. b \in QuestionJobs /\ b.pc = "generate" /\ b.seen = v1
  <2>. HIDE DEF a
  <2>. QED
    BY <1>1, <1>4, QuestionSeen
<1>6. Question!Start(w, b)
  BY <1>2, <1>3, Zenon
<1>. HIDE DEF a, b
<1>. QED
  BY <1>2, <1>5, <1>6, QuestionStart

\* A post begins.
LEMMA QuestionPost ==
    ASSUME QuestionInv, NEW w \in Workers, NEW answer \in Answers, Question!PostAnswer(w, answer)
    PROVE  QuestionInv'
<1> DEFINE a == [Question!Idle EXCEPT !.pc = "answer"]
           b == [a EXCEPT !.seen = v1]
           c == [b EXCEPT !.answer = answer]
<1>1. v1 \in Question!Row /\ v2 \in Question!AnswerOrNone /\ answer \in Question!AnswerOrNone
  BY QuestionConstants DEF QuestionInv, QuestionTyped
<1>2. /\ Question!Start(w, [Question!Idle EXCEPT !.pc = "answer", !.seen = v1, !.answer = answer])
      /\ v1' = v1 /\ v2' = v2 /\ v6' = v6 /\ v7' = v7
  BY DEF Question!PostAnswer
<1>3. [Question!Idle EXCEPT !.pc = "answer", !.seen = v1, !.answer = answer] = c
  OBVIOUS
<1>4. a \in QuestionJobs /\ a.pc = "answer"
  BY IdleIsJob, QuestionPc
<1>5. b \in QuestionJobs /\ b.pc = "answer" /\ b.seen = v1
  <2>. HIDE DEF a
  <2>. QED
    BY <1>1, <1>4, QuestionSeen
<1>6. c \in QuestionJobs /\ c.pc = "answer" /\ c.answer = answer /\ c.seen = v1
  <2>. HIDE DEF a, b
  <2>. QED
    BY <1>1, <1>5, QuestionAnswer
<1>7. Question!Start(w, c)
  BY <1>2, <1>3, Zenon
<1>. HIDE DEF a, b, c
<1>. QED
  BY <1>2, <1>6, <1>7, QuestionStart

\* Somebody edits the answer on Google.
LEMMA QuestionEdit ==
    ASSUME QuestionInv, Question!EditOnGoogle
    PROVE  QuestionInv'
<1>1. /\ v6 < MaxEdits /\ v6' = v6 + 1 /\ v2' \in Question!AnswerOrNone /\ v4' = TRUE
      /\ v3' = [v \in Workers |-> [v3[v] EXCEPT !.alone = FALSE]]
      /\ v1' = v1 /\ v5' = v5 /\ v7' = v7
  BY DEF Question!EditOnGoogle
<1>2. ASSUME NEW v \in Workers
      PROVE  /\ v3'[v] \in QuestionJobs /\ v3'[v].alone = FALSE /\ v3'[v].pc = v3[v].pc
  <2>1. v3[v] \in QuestionJobs /\ v3'[v] = [v3[v] EXCEPT !.alone = FALSE]
    BY <1>1, QuestionJob DEF QuestionInv
  <2>2. FALSE \in BOOLEAN
    OBVIOUS
  <2>. QED
    BY <2>1, <2>2, AloneSet
<1>3. v3' = [v \in Workers |-> v3'[v]]
  BY <1>1, Zenon
<1>4. v3' \in [Workers -> QuestionJobs]
  BY <1>2, <1>3
<1>5. QuestionBounds'
  BY <1>1, QuestionBoundsNow, QuestionConstants, SMT DEF QuestionBounds
<1>6. QuestionTyped'
  BY <1>1, <1>4, <1>5, Zenon
     DEF QuestionInv, QuestionTyped, QuestionBounds, Question!Row, Question!AnswerOrNone
<1>7. \A v \in Workers : ~AloneAt(v)' /\ ~HasSeen(v)'
  BY <1>2, Zenon DEF AloneAt, HasSeen
<1>. QED
  BY <1>1, <1>6, <1>7, Zenon DEF QuestionInv, Question!PostedIsLive

LEMMA QuestionSame ==
    ASSUME QuestionInv, UNCHANGED vars
    PROVE  QuestionInv'
<1>1. v1' = v1 /\ v2' = v2 /\ v3' = v3 /\ v4' = v4 /\ v5' = v5 /\ v6' = v6 /\ v7' = v7
  BY DEF vars
<1>2. QuestionTyped'
  BY <1>1, Zenon DEF QuestionInv, QuestionTyped, Question!Row, Question!AnswerOrNone
<1>3. \A v : Asks(v)' = Asks(v) /\ AloneAt(v)' = AloneAt(v) /\ HasSeen(v)' = HasSeen(v)
  BY <1>1 DEF Asks, AloneAt, HasSeen
<1>4. Question!PostedIsLive'
  BY <1>1, Zenon DEF QuestionInv, Question!PostedIsLive, Question!Unstored
<1>. QED
  BY <1>1, <1>2, <1>3, <1>4, Zenon DEF QuestionInv

\* It is kept.
LEMMA QuestionSteps ==
    ASSUME QuestionInv, NextQuestion \/ UNCHANGED vars
    PROVE  QuestionInv'
<1>1. CASE NextQuestion
  <2>1. \/ \E w \in Workers :
              \/ Question!Sync(w) \/ Question!Upsert(w) \/ Question!CommitSync(w)
              \/ Question!Generate(w) \/ Question!CommitUsage(w) \/ Question!CommitDraft(w)
              \/ \E answer \in Answers : Question!PostAnswer(w, answer)
              \/ Question!GoogleAccepts(w) \/ Question!GoogleRefuses(w)
              \/ Question!ResponseLost(w)
              \/ Question!CommitPosted(w) \/ Question!CommitFailed(w)
              \/ Question!Crash(w)
        \/ Question!EditOnGoogle
    BY <1>1, Zenon DEF NextQuestion
  <2>. QED
    BY <2>1, QuestionSync, QuestionGenerate, QuestionPost, QuestionUpsert,
       QuestionCommitSync, QuestionCommitUsage,
       QuestionCommitDraft, QuestionAnswered, QuestionCommitPosted, QuestionCommitFailed,
       QuestionCrash, QuestionEdit, Zenon
<1>. QED
  BY <1>1, QuestionSame

\* It holds initially.
LEMMA QuestionInit == ASSUME Question!Init PROVE QuestionInv
<1>1. /\ v1 = Question!NoRow /\ v2 \in Question!AnswerOrNone
      /\ v3 = [w \in Workers |-> Question!Idle] /\ v4 = FALSE
      /\ v5 = 0 /\ v6 = 0 /\ v7 = 0
  BY DEF Question!Init
<1>2. v3 \in [Workers -> QuestionJobs] /\ \A w \in Workers : ~Asks(w)
  BY <1>1, IdleIsJob DEF Asks
<1>3. v4 \in BOOLEAN /\ v5 \in 0..MaxRequests /\ v6 \in 0..MaxEdits /\ v7 \in 0..MaxFaults
  <2>1. MaxRequests \in Nat /\ MaxEdits \in Nat /\ MaxFaults \in Nat
    BY QuestionConstants
  <2>2. v5 = 0 /\ v6 = 0 /\ v7 = 0
    BY <1>1
  <2>3. v4 \in BOOLEAN
    BY <1>1, Zenon
  <2>. QED
    BY <2>1, <2>2, <2>3
<1>4. v1 \in Question!Row
  BY <1>1, QuestionIdleRow
<1>5. QuestionTyped
  BY <1>1, <1>2, <1>3, <1>4 DEF QuestionTyped
<1>6. Question!PostedIsLive
  BY <1>1 DEF Question!PostedIsLive, Question!NoRow
<1>. QED
  BY <1>2, <1>5, <1>6, Zenon DEF QuestionInv, AloneAt, HasSeen

-----------------------------------------------------------------------------
(* Website drafts. *)

\* The columns of a draft's row.
Columns == {"status", "approval", "approved", "rejected", "reason", "archived", "error", "url"}
\* The values a column may have.
ColumnValues(c) ==
    IF c = "status" THEN {"draft", "published", "failed"}
    ELSE IF c = "approval" THEN {"not_requested", "pending", "approved", "rejected"}
    ELSE IF c = "url" THEN 0..MaxPublishing
    ELSE BOOLEAN
\* What a request may be about to store.
DraftChanges == Website!Decisions \cup {Website!Failed, Website!NewRow}
                    \cup {Website!Published(n) : n \in 0..MaxPublishing}
\* The requests.
DraftJobs == [at : {"idle", "decided", "awaits", "accepted", "refused"},
              draft : Drafts \cup {NoDraft}, saw : Website!Row, set : DraftChanges,
              up : BOOLEAN, alone : BOOLEAN]

\* What is assumed of the constants.
LEMMA WebsiteConstants ==
    NoDraft \notin Drafts /\ MaxPublishing \in Nat /\ MaxFaults \in Nat
  BY MirrorsAssumption DEF MirrorsAssumption, Website!WebsiteDraftsAssumption

\* A row is a function of its columns.
LEMMA RowColumns ==
    ASSUME NEW row \in Website!Row
    PROVE  DOMAIN row = Columns /\ \A c \in Columns : row[c] \in ColumnValues(c)
<1>1. DOMAIN row = Columns
  BY DEF Website!Row, Columns
<1>2. /\ row["status"] \in {"draft", "published", "failed"}
      /\ row["approval"] \in {"not_requested", "pending", "approved", "rejected"}
      /\ row["url"] \in 0..MaxPublishing
      /\ row["approved"] \in BOOLEAN /\ row["rejected"] \in BOOLEAN /\ row["reason"] \in BOOLEAN
      /\ row["archived"] \in BOOLEAN /\ row["error"] \in BOOLEAN
  BY DEF Website!Row
<1>. QED
  BY <1>1, <1>2 DEF Columns, ColumnValues

LEMMA ColumnsRow ==
    ASSUME NEW f, f = [c \in Columns |-> f[c]], \A c \in Columns : f[c] \in ColumnValues(c)
    PROVE  f \in Website!Row
<1>1. f = [status |-> f["status"], approval |-> f["approval"], approved |-> f["approved"],
           rejected |-> f["rejected"], reason |-> f["reason"], archived |-> f["archived"],
           error |-> f["error"], url |-> f["url"]]
  BY DEF Columns
<1>2. /\ f["status"] \in {"draft", "published", "failed"}
      /\ f["approval"] \in {"not_requested", "pending", "approved", "rejected"}
      /\ f["url"] \in 0..MaxPublishing
      /\ f["approved"] \in BOOLEAN /\ f["rejected"] \in BOOLEAN /\ f["reason"] \in BOOLEAN
      /\ f["archived"] \in BOOLEAN /\ f["error"] \in BOOLEAN
  BY DEF Columns, ColumnValues
<1>. QED
  BY <1>1, <1>2 DEF Website!Row

LEMMA NewDraftTyped == Website!NewRow \in Website!Row /\ Website!NewRow.url = 0
  BY WebsiteConstants DEF Website!NewRow, Website!Row

LEMMA ColumnValuesAre ==
    /\ ColumnValues("status") = {"draft", "published", "failed"}
    /\ ColumnValues("approval") = {"not_requested", "pending", "approved", "rejected"}
    /\ ColumnValues("url") = 0..MaxPublishing
    /\ ColumnValues("approved") = BOOLEAN /\ ColumnValues("rejected") = BOOLEAN
    /\ ColumnValues("reason") = BOOLEAN /\ ColumnValues("archived") = BOOLEAN
    /\ ColumnValues("error") = BOOLEAN
  BY DEF ColumnValues

\* What each change sets.
LEMMA ChangesAre ==
    /\ DOMAIN Website!Asked = {"approval", "approved", "rejected", "reason"}
    /\ Website!Asked["approval"] = "pending" /\ Website!Asked["approved"] = FALSE
    /\ Website!Asked["rejected"] = FALSE /\ Website!Asked["reason"] = FALSE
    /\ DOMAIN Website!Approved = {"approval", "approved", "rejected", "reason"}
    /\ Website!Approved["approval"] = "approved" /\ Website!Approved["approved"] = TRUE
    /\ Website!Approved["rejected"] = FALSE /\ Website!Approved["reason"] = FALSE
    /\ DOMAIN Website!Archived = {"archived"} /\ Website!Archived["archived"] = TRUE
    /\ DOMAIN Website!Failed = {"status", "error"}
    /\ Website!Failed["status"] = "failed" /\ Website!Failed["error"] = TRUE
  BY DEF Website!Asked, Website!Approved, Website!Archived, Website!Failed

\* What a rejection and a publication store.
LEMMA RejectedIs ==
    ASSUME NEW reason
    PROVE  /\ DOMAIN Website!Rejected(reason) = {"approval", "rejected", "reason"}
           /\ Website!Rejected(reason)["approval"] = "rejected"
           /\ Website!Rejected(reason)["rejected"] = TRUE
           /\ Website!Rejected(reason)["reason"] = reason
  BY DEF Website!Rejected

LEMMA PublishedIs ==
    ASSUME NEW n
    PROVE  /\ DOMAIN Website!Published(n) = {"status", "url", "error"}
           /\ Website!Published(n)["status"] = "published"
           /\ Website!Published(n)["url"] = n
           /\ Website!Published(n)["error"] = FALSE
  BY DEF Website!Published

\* What a request stores fits the columns.
LEMMA ChangeColumns ==
    ASSUME NEW s \in DraftChanges, NEW c \in DOMAIN s
    PROVE  c \in Columns /\ s[c] \in ColumnValues(c)
<1>1. CASE s = Website!Asked
  BY <1>1, ChangesAre, ColumnValuesAre, Zenon DEF Columns
<1>2. CASE s = Website!Approved
  BY <1>2, ChangesAre, ColumnValuesAre, Zenon DEF Columns
<1>3. CASE s = Website!Archived
  BY <1>3, ChangesAre, ColumnValuesAre, Zenon DEF Columns
<1>4. ASSUME NEW reason \in BOOLEAN, s = Website!Rejected(reason)
      PROVE  c \in Columns /\ s[c] \in ColumnValues(c)
  <2>1. /\ DOMAIN s = {"approval", "rejected", "reason"} /\ s["approval"] = "rejected"
        /\ s["rejected"] = TRUE /\ s["reason"] = reason
    BY <1>4, RejectedIs, Zenon
  <2>. QED
    BY <2>1, ColumnValuesAre, Zenon DEF Columns
<1>5. CASE s = Website!Failed
  BY <1>5, ChangesAre, ColumnValuesAre, Zenon DEF Columns
<1>6. CASE s = Website!NewRow
  BY <1>6, NewDraftTyped, RowColumns
<1>7. ASSUME NEW n \in 0..MaxPublishing, s = Website!Published(n)
      PROVE  c \in Columns /\ s[c] \in ColumnValues(c)
  <2>1. /\ DOMAIN s = {"status", "url", "error"} /\ s["status"] = "published"
        /\ s["url"] = n /\ s["error"] = FALSE
    BY <1>7, PublishedIs, Zenon
  <2>. QED
    BY <2>1, ColumnValuesAre, Zenon DEF Columns
<1>8. \/ s \in Website!Decisions \/ s = Website!Failed \/ s = Website!NewRow
      \/ \E n \in 0..MaxPublishing : s = Website!Published(n)
  BY DEF DraftChanges
<1>9. s \in Website!Decisions =>
          \/ s = Website!Asked \/ s = Website!Approved \/ s = Website!Archived
          \/ \E reason \in BOOLEAN : s = Website!Rejected(reason)
  BY Zenon DEF Website!Decisions
<1>. QED
  BY <1>1, <1>2, <1>3, <1>4, <1>5, <1>6, <1>7, <1>8, <1>9

\* A row stored: the columns that differ from what was seen.
LEMMA StoredIs ==
    ASSUME NEW r, NEW anew, NEW row \in Website!Row
    PROVE  \A c \in Columns :
               Website!Stored(r, anew, row)[c]
                   = IF c \in Website!Changed(r, anew) THEN r.set[c] ELSE row[c]
<1>1. Website!Stored(r, anew, row)
      = [c \in DOMAIN row |-> IF c \in Website!Changed(r, anew) THEN r.set[c] ELSE row[c]]
  BY Zenon DEF Website!Stored
<1>. QED
  BY <1>1, RowColumns

\* The columns a request writes.
LEMMA ChangedIs ==
    ASSUME NEW r, NEW anew
    PROVE  \A c : c \in Website!Changed(r, anew) <=>
              c \in DOMAIN r.set /\ (r.set[c] # r.saw[c]
                                     \/ (c \in Website!Times \cup anew /\ r.set[c]))
  BY Zenon DEF Website!Changed

\* What it leaves is a row.
LEMMA StoredTyped ==
    ASSUME NEW r, r.set \in DraftChanges, NEW anew, NEW row \in Website!Row
    PROVE  Website!Stored(r, anew, row) \in Website!Row
<1> DEFINE f == Website!Stored(r, anew, row)
<1>1. f = [c \in DOMAIN row |-> IF c \in Website!Changed(r, anew) THEN r.set[c] ELSE row[c]]
  BY Zenon DEF Website!Stored
<1>2. DOMAIN row = Columns /\ \A c \in Columns : row[c] \in ColumnValues(c)
  BY RowColumns
<1>3. \A c \in Website!Changed(r, anew) : r.set[c] \in ColumnValues(c)
  BY ChangedIs, ChangeColumns
<1>4. \A c \in Columns : f[c] \in ColumnValues(c)
  BY <1>2, <1>3, StoredIs
<1>5. f = [c \in Columns |-> f[c]]
  BY <1>1, <1>2, Zenon
<1>. HIDE DEF f
<1>6. f \in Website!Row
  BY <1>4, <1>5, ColumnsRow
<1>. QED
  BY <1>6 DEF f

\* The types of the rest.
WebsiteRest ==
    /\ v1 \in [Drafts -> Website!Row] /\ v2 \in BOOLEAN
    /\ v3 \in [Drafts \cup {NoDraft} -> 0..MaxPublishing]
    /\ v5 \subseteq Drafts \cup {NoDraft} /\ v6 \subseteq Drafts
    /\ v7 \in BOOLEAN /\ v8 \in BOOLEAN
    /\ v9 \in [Drafts -> {"draft", "published", "failed"}]
    /\ v10 \in 0..MaxPublishing /\ v11 \in 0..MaxFaults

\* A publication that no other has overlapped.
AlonePub(w) == Website!Publishing(w) /\ v4[w].alone

\* What a request is about to store.
JobIs(w) ==
    /\ v4[w].at = "decided" => v4[w].draft \in Drafts /\ v4[w].set \in Website!Decisions
    /\ v4[w].at \in {"awaits", "accepted"} =>
           \E n \in 1..v10 : v4[w].set = Website!Published(n) /\ v4[w].saw.url < n
    /\ v4[w].at = "refused" => v4[w].set = Website!Failed

\* A publication that no other overlaps knows the row and the channel as they are.
SeesWhatIs(w) ==
    /\ v4[w].up = v2
    /\ v4[w].draft \in Drafts => /\ v1[v4[w].draft].status = v4[w].saw.status
                                 /\ v1[v4[w].draft].url = v4[w].saw.url
                                 /\ v1[v4[w].draft].error = v4[w].saw.error
    /\ v4[w].at = "accepted" => v3[v4[w].draft] = v4[w].set.url

\* No row has the URL of a publication yet to come.
RowsOld == \A d \in Drafts : v1[d].url <= v10

\* The inductive invariant of drafts.
WebsiteInv ==
    /\ WebsiteRest
    /\ v4 \in [Workers -> DraftJobs]
    /\ \A w \in Workers : JobIs(w)
    /\ \A w, v \in Workers : AlonePub(w) /\ Website!Publishing(v) => v = w
    /\ \A w \in Workers : AlonePub(w) => SeesWhatIs(w)
    /\ RowsOld
    /\ Website!OutcomesAreTold
    /\ Website!DecisionsAreWhole

\* What is left to show of a step that is not the start of a publication.
LEMMA WebsiteAfter ==
    ASSUME WebsiteInv, NEW w \in Workers, NEW r \in DraftJobs,
           v4' = [v4 EXCEPT ![w] = r], WebsiteRest', v10 <= v10',
           JobIs(w)',
           \A v \in Workers : v # w /\ AlonePub(v) =>
               /\ v2' = v2
               /\ \A d \in Drafts : d = v4[v].draft => /\ v1'[d].status = v1[d].status
                                                      /\ v1'[d].url = v1[d].url
                                                      /\ v1'[d].error = v1[d].error
               /\ v3'[v4[v].draft] = v3[v4[v].draft],
           Website!Publishing(w)' => Website!Publishing(w) /\ r.alone = v4[w].alone,
           AlonePub(w)' => SeesWhatIs(w)',
           RowsOld', Website!OutcomesAreTold', Website!DecisionsAreWhole'
    PROVE  WebsiteInv'
<1>1. v4 \in [Workers -> DraftJobs] /\ v10 \in Nat
  BY WebsiteConstants, SMT DEF WebsiteInv, WebsiteRest
<1>2. v4' \in [Workers -> DraftJobs] /\ v4'[w] = r
      /\ \A v \in Workers : v # w => v4'[v] = v4[v]
  BY <1>1
<1>3. v10' \in Nat
  BY WebsiteConstants, SMT DEF WebsiteRest
<1>4. ASSUME NEW v \in Workers PROVE JobIs(v)'
  <2>1. CASE v = w
    BY <2>1
  <2>2. CASE v # w
    <3>1. v4'[v] = v4[v] /\ JobIs(v)
      BY <1>2, <2>2 DEF WebsiteInv
    <3>2. \A n \in 1..v10 : n \in 1..v10'
      BY <1>1, <1>3
    <3>. QED
      BY <3>1, <3>2, Zenon DEF JobIs, Website!Decisions, Website!Asked, Website!Approved,
                               Website!Archived, Website!Rejected, Website!Published, Website!Failed
  <2>. QED
    BY <2>1, <2>2
<1>5. \A v \in Workers : /\ Website!Publishing(v)' => Website!Publishing(v)
                         /\ AlonePub(v)' => AlonePub(v)
  BY <1>2, Zenon DEF AlonePub, Website!Publishing
<1>6. ASSUME NEW v \in Workers, AlonePub(v)' PROVE SeesWhatIs(v)'
  <2>1. CASE v = w
    BY <1>6, <2>1
  <2>2. CASE v # w
    <3>1. v4'[v] = v4[v] /\ AlonePub(v) /\ SeesWhatIs(v)
      BY <1>2, <1>5, <1>6, <2>2 DEF WebsiteInv
    <3>2. /\ v2' = v2
          /\ \A d \in Drafts : d = v4[v].draft => /\ v1'[d].status = v1[d].status
                                                 /\ v1'[d].url = v1[d].url
                                                 /\ v1'[d].error = v1[d].error
          /\ v3'[v4[v].draft] = v3[v4[v].draft]
      BY <2>2, <3>1
    <3>. QED
      BY <3>1, <3>2, Zenon DEF SeesWhatIs
  <2>. QED
    BY <2>1, <2>2
<1>7. \A u, v \in Workers : AlonePub(u)' /\ Website!Publishing(v)' => v = u
  BY <1>5, Zenon DEF WebsiteInv
<1>. QED
  BY <1>2, <1>4, <1>6, <1>7, Zenon DEF WebsiteInv

\* Beside a publication, none is alone.
LEMMA NonePubAlone ==
    ASSUME WebsiteInv, NEW w \in Workers, Website!Publishing(w)
    PROVE  \A v \in Workers : v # w => ~AlonePub(v)
  BY Zenon DEF WebsiteInv

\* The types of a request.
LEMMA WebsiteJob ==
    ASSUME WebsiteInv, NEW w \in Workers
    PROVE  /\ v4[w] \in DraftJobs /\ v4[w].saw \in Website!Row /\ v4[w].set \in DraftChanges
           /\ v4[w].draft \in Drafts \cup {NoDraft} /\ v4[w].up \in BOOLEAN
           /\ v4[w].alone \in BOOLEAN
           /\ v4[w].at \in {"idle", "decided", "awaits", "accepted", "refused"}
  BY DEF WebsiteInv, DraftJobs

LEMMA IdleDraftJob ==
    Website!Idle \in DraftJobs /\ Website!Idle.at = "idle"
<1>1. Website!NewRow \in Website!Row /\ Website!NewRow \in DraftChanges
  BY NewDraftTyped DEF DraftChanges
<1> DEFINE n == Website!NewRow
<1>2. Website!Idle = [at |-> "idle", draft |-> NoDraft, saw |-> n, set |-> n,
                      up |-> TRUE, alone |-> TRUE]
  BY DEF Website!Idle
<1>3. n \in Website!Row /\ n \in DraftChanges
  BY <1>1
<1>. HIDE DEF n
<1>. QED
  BY <1>2, <1>3 DEF DraftJobs

\* A worker that finishes: nothing is asked of it any more.
LEMMA FinishedIs ==
    ASSUME WebsiteInv, NEW w \in Workers, v4' = [v4 EXCEPT ![w] = Website!Idle]
    PROVE  /\ v4'[w] = Website!Idle /\ JobIs(w)' /\ ~Website!Publishing(w)'
           /\ \A v \in Workers : v # w => v4'[v] = v4[v]
<1>1. v4'[w] = Website!Idle /\ \A v \in Workers : v # w => v4'[v] = v4[v]
  BY DEF WebsiteInv
<1>2. v4'[w].at = "idle"
  BY <1>1, IdleDraftJob
<1>. QED
  BY <1>1, <1>2, Zenon DEF JobIs, Website!Publishing

\* What is told stays so while the rows keep their outcomes.
LEMMA OutcomesStay ==
    ASSUME WebsiteInv,
           \A d \in Drafts : /\ v1'[d].status = v1[d].status /\ v1'[d].url = v1[d].url
                             /\ v1'[d].error = v1[d].error,
           v2' = v2,
           \A d \in Drafts \ v5' : \/ v3'[d] = v3[d]
                                  \/ \E v \in Workers : v4'[v].draft = d /\ v4'[v].at = "accepted",
           v7' = v7, v8' = v8, v9' = v9, v5 \subseteq v5',
           \A d \in Drafts \ v5', v \in Workers :
               v4[v].draft = d /\ v4[v].at = "accepted" =>
                   v4'[v].draft = d /\ v4'[v].at = "accepted"
    PROVE  Website!OutcomesAreTold'
<1>1. /\ \A d \in Drafts \ v5 :
            \/ \E w \in Workers : v4[w].draft = d /\ v4[w].at = "accepted"
            \/ /\ v1[d].url = v3[d] /\ v1[d].status = v9[d]
               /\ v1[d].error <=> v1[d].status = "failed"
      /\ ~v7 => v2 = v8
  BY Zenon DEF WebsiteInv, Website!OutcomesAreTold, Website!At
<1>2. ASSUME NEW d \in Drafts, d \notin v5'
      PROVE  \/ \E w \in Workers : v4'[w].draft = d /\ v4'[w].at = "accepted"
             \/ /\ v1'[d].url = v3'[d] /\ v1'[d].status = v9'[d]
                /\ v1'[d].error <=> v1'[d].status = "failed"
  <2>1. d \notin v5
    BY <1>2
  <2>2. v3'[d] = v3[d] \/ \E w \in Workers : v4'[w].draft = d /\ v4'[w].at = "accepted"
    BY <1>2
  <2>3. CASE \E w \in Workers : v4[w].draft = d /\ v4[w].at = "accepted"
    <3>1. PICK w \in Workers : v4[w].draft = d /\ v4[w].at = "accepted"
      BY <2>3
    <3>2. d \in Drafts \ v5'
      BY <1>2
    <3>3. v4'[w].draft = d /\ v4'[w].at = "accepted"
      BY <3>1, <3>2, Zenon
    <3>. QED
      BY <3>3
  <2>4. CASE /\ v1[d].url = v3[d] /\ v1[d].status = v9[d]
             /\ v1[d].error <=> v1[d].status = "failed"
    BY <1>2, <2>4, <2>2, Zenon
  <2>. QED
    BY <1>1, <2>1, <2>3, <2>4, Zenon
<1>. QED
  BY <1>1, <1>2, Zenon DEF Website!OutcomesAreTold, Website!At

\* DecisionsAreWhole depends on the columns of the decision.
LEMMA DecisionsStay ==
    ASSUME WebsiteInv,
           \A d \in Drafts : /\ v1'[d].approval = v1[d].approval
                             /\ v1'[d].approved = v1[d].approved
                             /\ v1'[d].rejected = v1[d].rejected
                             /\ v1'[d].reason = v1[d].reason,
           v6 \subseteq v6'
    PROVE  Website!DecisionsAreWhole'
<1>1. \A d \in Drafts \ v6 :
        /\ v1[d].approval = "approved" => v1[d].approved /\ ~v1[d].rejected /\ ~v1[d].reason
        /\ v1[d].approval = "pending" => ~v1[d].approved /\ ~v1[d].rejected
  BY Zenon DEF WebsiteInv, Website!DecisionsAreWhole
<1>2. \A d \in Drafts \ v6' : d \in Drafts \ v6
  OBVIOUS
<1>. QED
  BY <1>1, <1>2, Zenon DEF Website!DecisionsAreWhole

\* A decision is taken on the row it loads.
LEMMA WebsiteDecide ==
    ASSUME WebsiteInv, NEW w \in Workers, NEW d \in Drafts, NEW decision \in Website!Decisions,
           Website!Decide(w, d, decision)
    PROVE  WebsiteInv'
<1> DEFINE r == [Website!Idle EXCEPT !.at = "decided", !.draft = d, !.saw = v1[d],
                                     !.set = decision]
<1>1. /\ v4[w].at = "idle" /\ v10 < MaxPublishing /\ v10' = v10 + 1
      /\ v4' = [v4 EXCEPT ![w] = r]
      /\ v1' = v1 /\ v2' = v2 /\ v3' = v3 /\ v5' = v5 /\ v6' = v6 /\ v7' = v7 /\ v8' = v8
      /\ v9' = v9 /\ v11' = v11
  BY DEF Website!Decide, Website!At, Website!Start, Website!history
<1>2. WebsiteRest /\ v4 \in [Workers -> DraftJobs] /\ v1[d] \in Website!Row
  BY DEF WebsiteInv, WebsiteRest
<1>3. r \in DraftJobs /\ r.at = "decided" /\ r.draft = d /\ r.set = decision
  <2> DEFINE idle == Website!Idle
             saw == v1[d]
             j == [idle EXCEPT !.at = "decided"]
             k == [j EXCEPT !.draft = d]
             m == [k EXCEPT !.saw = saw]
             n == [m EXCEPT !.set = decision]
  <2>1. r = n
    OBVIOUS
  <2>2. idle \in DraftJobs /\ saw \in Website!Row
    BY <1>2, IdleDraftJob
  <2>3. decision \in DraftChanges
    BY DEF DraftChanges
  <2>. HIDE DEF r, idle, saw
  <2>4. j \in DraftJobs /\ j.at = "decided"
    BY <2>2 DEF DraftJobs
  <2>. HIDE DEF j
  <2>5. k \in DraftJobs /\ k.at = "decided" /\ k.draft = d
    BY <2>4 DEF DraftJobs
  <2>. HIDE DEF k
  <2>6. m \in DraftJobs /\ m.at = "decided" /\ m.draft = d
    BY <2>2, <2>5 DEF DraftJobs
  <2>. HIDE DEF m
  <2>7. n \in DraftJobs /\ n.at = "decided" /\ n.draft = d /\ n.set = decision
    BY <2>3, <2>6 DEF DraftJobs
  <2>. HIDE DEF n
  <2>. QED
    BY <2>1, <2>7
<1>. HIDE DEF r
<1>4. v4'[w] = r /\ \A v \in Workers : v # w => v4'[v] = v4[v]
  BY <1>1, <1>2
<1>5. v10' \in 0..MaxPublishing /\ v10 <= v10'
  BY <1>1, <1>2, WebsiteConstants, SMT DEF WebsiteRest
<1>6. WebsiteRest'
  BY <1>1, <1>2, <1>5, Zenon DEF WebsiteRest, Website!Row
<1>7. JobIs(w)' /\ ~Website!Publishing(w)'
  BY <1>3, <1>4, Zenon DEF JobIs, Website!Publishing, Website!Decisions, Website!Asked,
                           Website!Approved, Website!Archived, Website!Rejected
<1>8. Website!OutcomesAreTold'
  BY <1>1, <1>4, OutcomesStay
<1>9. Website!DecisionsAreWhole'
  BY <1>1, DecisionsStay
<1>10. RowsOld'
  <2>1. \A e \in Drafts : v1[e].url \in Int /\ v1[e].url <= v10
    BY <1>2, SMT DEF WebsiteInv, RowsOld, WebsiteRest, Website!Row
  <2>2. v10 \in Int
    BY <1>2, SMT DEF WebsiteRest
  <2>. QED
    BY <1>1, <2>1, <2>2, SMT DEF RowsOld
<1>. QED
  BY <1>1, <1>3, <1>5, <1>6, <1>7, <1>8, <1>9, <1>10, WebsiteAfter, Zenon DEF AlonePub

\* Rows that agree on the outcome of the last publication, or on the decision.
SameOutcome(a, b) == a.status = b.status /\ a.url = b.url /\ a.error = b.error
SameDecision(a, b) == /\ a.approval = b.approval /\ a.approved = b.approved
                      /\ a.rejected = b.rejected /\ a.reason = b.reason
\* A decision's columns fit together.
Whole(row) ==
    /\ row.approval = "approved" => row.approved /\ ~row.rejected /\ ~row.reason
    /\ row.approval = "pending" => ~row.approved /\ ~row.rejected

\* What a decision leaves in its draft's row.
LEMMA DecisionStored ==
    ASSUME NEW r, r.set \in Website!Decisions, NEW anew, NEW row \in Website!Row
    PROVE  /\ SameOutcome(Website!Stored(r, anew, row), row)
           /\ Whole(row) /\ SameDecision(row, r.saw) => Whole(Website!Stored(r, anew, row))
<1> DEFINE new == Website!Stored(r, anew, row)
<1>1. \A c \in Columns :
          new[c] = IF c \in Website!Changed(r, anew) THEN r.set[c] ELSE row[c]
  BY StoredIs
<1>. HIDE DEF new
<1>2. \A c : c \notin DOMAIN r.set => c \notin Website!Changed(r, anew)
  BY ChangedIs
<1>3. \A c \in Columns : c \notin DOMAIN r.set => new[c] = row[c]
  BY <1>1, <1>2
\* A column of the decision gets its value, written or not.
<1>4. \A c \in Columns : c \in DOMAIN r.set /\ row[c] = r.saw[c] => new[c] = r.set[c]
  BY <1>1, ChangedIs
<1>5. \/ r.set = Website!Asked \/ r.set = Website!Approved \/ r.set = Website!Archived
      \/ \E reason \in BOOLEAN : r.set = Website!Rejected(reason)
  BY Zenon DEF Website!Decisions
<1>6. /\ "status" \notin DOMAIN r.set /\ "url" \notin DOMAIN r.set
      /\ "error" \notin DOMAIN r.set
  <2>1. ASSUME NEW reason, r.set = Website!Rejected(reason)
        PROVE  DOMAIN r.set = {"approval", "rejected", "reason"}
    BY <2>1, RejectedIs, Zenon
  <2>2. \/ DOMAIN r.set = {"approval", "approved", "rejected", "reason"}
        \/ DOMAIN r.set = {"archived"} \/ DOMAIN r.set = {"approval", "rejected", "reason"}
    BY <1>5, <2>1, ChangesAre, Zenon
  <2>. QED
    BY <2>2
<1>7. SameOutcome(new, row)
  <2>1. new["status"] = row["status"] /\ new["url"] = row["url"] /\ new["error"] = row["error"]
    BY <1>3, <1>6 DEF Columns
  <2>. QED
    BY <2>1 DEF SameOutcome
<1>. SUFFICES ASSUME Whole(row), SameDecision(row, r.saw) PROVE Whole(new)
  BY <1>7 DEF new
<1>8. /\ "approval" \in Columns /\ "approved" \in Columns /\ "rejected" \in Columns
      /\ "reason" \in Columns
  BY DEF Columns
<1>9. /\ row["approval"] = r.saw["approval"] /\ row["approved"] = r.saw["approved"]
      /\ row["rejected"] = r.saw["rejected"] /\ row["reason"] = r.saw["reason"]
  BY DEF SameDecision
<1>10. CASE r.set = Website!Asked
  <2>1. new["approval"] = "pending" /\ new["approved"] = FALSE /\ new["rejected"] = FALSE
    BY <1>4, <1>8, <1>9, <1>10, ChangesAre, Zenon
  <2>2. "pending" # "approved"
    OBVIOUS
  <2>. QED
    BY <2>1, <2>2, Zenon DEF Whole
<1>11. CASE r.set = Website!Approved
  <2>1. new["approval"] = "approved" /\ new["approved"] = TRUE /\ new["rejected"] = FALSE
        /\ new["reason"] = FALSE
    BY <1>4, <1>8, <1>9, <1>11, ChangesAre, Zenon
  <2>2. "pending" # "approved"
    OBVIOUS
  <2>. QED
    BY <2>1, <2>2, Zenon DEF Whole
<1>12. CASE r.set = Website!Archived
  <2>1. "approval" \notin DOMAIN r.set /\ "approved" \notin DOMAIN r.set
        /\ "rejected" \notin DOMAIN r.set /\ "reason" \notin DOMAIN r.set
    BY <1>12, ChangesAre
  <2>2. new["approval"] = row["approval"] /\ new["approved"] = row["approved"]
        /\ new["rejected"] = row["rejected"] /\ new["reason"] = row["reason"]
    BY <1>3, <1>8, <2>1, Zenon
  <2>. QED
    BY <2>2, Zenon DEF Whole
<1>13. ASSUME NEW reason, r.set = Website!Rejected(reason) PROVE Whole(new)
  <2>1. DOMAIN Website!Rejected(reason) = {"approval", "rejected", "reason"}
        /\ Website!Rejected(reason)["approval"] = "rejected"
    BY RejectedIs
  <2>2. "approval" \in DOMAIN r.set /\ r.set["approval"] = "rejected"
    BY <1>13, <2>1
  <2>3. new["approval"] = "rejected"
    BY <1>4, <1>8, <1>9, <2>2, Zenon
  <2>. QED
    BY <2>3 DEF Whole
<1>. QED
  BY <1>5, <1>10, <1>11, <1>12, <1>13, Zenon

\* A decision is stored: it leaves the outcome alone.
LEMMA WebsiteCommitDecision ==
    ASSUME WebsiteInv, NEW w \in Workers, Website!CommitDecision(w)
    PROVE  WebsiteInv'
<1> DEFINE r == v4[w]
           e == v4[w].draft
<1>1. /\ v4[w].at = "decided" /\ v4' = [v4 EXCEPT ![w] = Website!Idle]
      /\ v6' = v6 \cup {d \in {e} : Website!DecisionOf(v1[d]) # Website!DecisionOf(r.saw)}
      /\ v2' = v2 /\ v3' = v3 /\ v5' = v5 /\ v7' = v7 /\ v8' = v8 /\ v9' = v9
      /\ v10' = v10 /\ v11' = v11
  BY Zenon DEF Website!CommitDecision, Website!At, Website!Finish, Website!bounds
<1>2. PICK anew \in SUBSET Website!Texts : v1' = [v1 EXCEPT ![e] = Website!Stored(r, anew, v1[e])]
  BY Zenon DEF Website!CommitDecision
<1>3. e \in Drafts /\ r.set \in Website!Decisions
  BY <1>1, Zenon DEF WebsiteInv, JobIs
<1>4. WebsiteRest /\ v1 \in [Drafts -> Website!Row] /\ v1[e] \in Website!Row
      /\ v4 \in [Workers -> DraftJobs]
  BY <1>3 DEF WebsiteInv, WebsiteRest
<1> DEFINE new == Website!Stored(r, anew, v1[e])
<1>5. new \in Website!Row
  <2>1. r.set \in DraftChanges
    BY <1>3 DEF DraftChanges
  <2>. QED
    BY <1>4, <2>1, StoredTyped
<1>6. SameOutcome(new, v1[e]) /\ (Whole(v1[e]) /\ SameDecision(v1[e], r.saw) => Whole(new))
  <2>. HIDE DEF r, e
  <2>. QED
    BY <1>3, <1>4, DecisionStored
<1>7. v1' = [v1 EXCEPT ![e] = new]
  BY <1>2
<1>. HIDE DEF new, e
<1>8. /\ v1' \in [Drafts -> Website!Row] /\ v1'[e] = new
      /\ \A d \in Drafts : d # e => v1'[d] = v1[d]
  BY <1>3, <1>4, <1>5, <1>7
<1>9. \A d \in Drafts : /\ v1'[d].status = v1[d].status /\ v1'[d].url = v1[d].url
                        /\ v1'[d].error = v1[d].error
  BY <1>6, <1>8, Zenon DEF SameOutcome
<1>10. /\ v4'[w] = Website!Idle /\ JobIs(w)' /\ ~Website!Publishing(w)'
       /\ \A v \in Workers : v # w => v4'[v] = v4[v]
  BY <1>1, FinishedIs
<1>11. v6 \subseteq v6' /\ v6' \subseteq Drafts
  BY <1>1, <1>3, <1>4 DEF WebsiteRest
<1>12. WebsiteRest'
  BY <1>1, <1>4, <1>8, <1>11, Zenon DEF WebsiteRest, Website!Row
<1>13. Website!OutcomesAreTold'
  <2>1. \A d \in Drafts \ v5', v \in Workers :
            v4[v].draft = d /\ v4[v].at = "accepted" => v4'[v].draft = d /\ v4'[v].at = "accepted"
    <3>1. \A v \in Workers : v4[v].at = "accepted" => v # w
      BY <1>1
    <3>. QED
      BY <1>10, <3>1, Zenon
  <2>. QED
    BY <1>1, <1>9, <2>1, OutcomesStay
<1>14. Website!DecisionsAreWhole'
  <2>1. \A d \in Drafts \ v6 : Whole(v1[d])
    BY Zenon DEF WebsiteInv, Website!DecisionsAreWhole, Whole
  <2>2. ASSUME NEW d \in Drafts \ v6' PROVE Whole(v1'[d])
    <3>1. d \in Drafts \ v6
      BY <1>11
    <3>2. CASE d # e
      BY <1>8, <2>1, <3>1, <3>2
    <3>3. CASE d = e
      <4>1. Website!DecisionOf(v1[e]) = Website!DecisionOf(r.saw)
        BY <1>1, <3>3
      <4>2. \A a, b : Website!DecisionOf(a) = Website!DecisionOf(b) => SameDecision(a, b)
        BY DEF Website!DecisionOf, SameDecision
      <4>. QED
        BY <1>6, <1>8, <2>1, <3>1, <3>3, <4>1, <4>2
    <3>. QED
      BY <3>2, <3>3
  <2>. QED
    BY <2>2, Zenon DEF Website!DecisionsAreWhole, Whole
<1>15. RowsOld'
  BY <1>1, <1>9, Zenon DEF RowsOld, WebsiteInv
<1>16. v10 <= v10'
  BY <1>1, <1>4, SMT DEF WebsiteRest
<1>17. \A v \in Workers : v # w /\ AlonePub(v) =>
               /\ v2' = v2
               /\ \A d \in Drafts : d = v4[v].draft => /\ v1'[d].status = v1[d].status
                                                      /\ v1'[d].url = v1[d].url
                                                      /\ v1'[d].error = v1[d].error
               /\ v3'[v4[v].draft] = v3[v4[v].draft]
  BY <1>1, <1>9
<1>18. ~AlonePub(w)'
  BY <1>10 DEF AlonePub
<1>. QED
  BY <1>1, <1>10, <1>12, <1>13, <1>14, <1>15, <1>16, <1>17, <1>18, IdleDraftJob, WebsiteAfter

\* The website's answer to a publication.
LEMMA WebsiteAnswered ==
    ASSUME WebsiteInv, NEW w \in Workers, v4[w].at = "awaits",
           NEW r \in DraftJobs, v4' = [v4 EXCEPT ![w] = r],
           r.draft = v4[w].draft, r.alone = v4[w].alone, r.up = v4[w].up, r.saw = v4[w].saw,
           \/ r.at = "accepted" /\ r.set = v4[w].set
           \/ r.at = "refused" /\ r.set = Website!Failed,
           \/ v3' = v3 /\ r.at = "refused"
           \/ v3' = [v3 EXCEPT ![v4[w].draft] = v4[w].set.url]
              /\ (r.at = "accepted" \/ v4[w].draft \in v5'),
           v5 \subseteq v5', v5' \subseteq v5 \cup {v4[w].draft},
           v11' \in 0..MaxFaults,
           v1' = v1, v2' = v2, v6' = v6, v7' = v7, v8' = v8, v9' = v9, v10' = v10
    PROVE  WebsiteInv'
<1> DEFINE e == v4[w].draft
           u == v4[w].set.url
<1>1. /\ v4 \in [Workers -> DraftJobs] /\ v3 \in [Drafts \cup {NoDraft} -> 0..MaxPublishing]
      /\ v5 \subseteq Drafts \cup {NoDraft} /\ WebsiteRest /\ v10 \in 0..MaxPublishing
  BY DEF WebsiteInv, WebsiteRest
<1>2. v4'[w] = r /\ \A v \in Workers : v # w => v4'[v] = v4[v]
  BY <1>1
<1>3. PICK n \in 1..v10 : v4[w].set = Website!Published(n) /\ v4[w].saw.url < n
  BY Zenon DEF WebsiteInv, JobIs
<1>4. u = n /\ u \in 0..MaxPublishing
  <2>1. u = n
    BY <1>3, PublishedIs
  <2>. QED
    BY <1>1, <1>3, <2>1, WebsiteConstants, SMT
<1>5. e \in Drafts \cup {NoDraft}
  BY WebsiteJob
<1>. HIDE DEF e, u
<1>6. /\ v3' = v3 \/ v3' = [v3 EXCEPT ![e] = u]
      /\ v3' \in [Drafts \cup {NoDraft} -> 0..MaxPublishing]
      /\ \A d \in Drafts \cup {NoDraft} : d # e => v3'[d] = v3[d]
      /\ r.at = "accepted" => v3'[e] = u
  <2>1. (v3' = v3 /\ r.at = "refused") \/ v3' = [v3 EXCEPT ![e] = u]
    BY DEF e, u
  <2>. QED
    BY <1>1, <1>4, <1>5, <2>1
<1>7. WebsiteRest'
  <2>1. v5' \subseteq Drafts \cup {NoDraft}
    BY <1>1, <1>5 DEF e
  <2>. QED
    BY <1>1, <1>6, <2>1, Zenon DEF WebsiteRest, Website!Row
<1>8. JobIs(w)'
  <2>1. r.at = "accepted" => \E k \in 1..v10' : r.set = Website!Published(k) /\ r.saw.url < k
    BY <1>3, Zenon
  <2>2. r.at # "decided" /\ r.at # "awaits"
    OBVIOUS
  <2>. QED
    BY <1>2, <2>1, <2>2, Zenon DEF JobIs, Website!Published, Website!Failed
<1>9. Website!Publishing(w)
  BY Zenon DEF Website!Publishing
<1>10. \A v \in Workers : v # w => ~AlonePub(v)
  BY <1>9, NonePubAlone
<1>11. AlonePub(w)' => SeesWhatIs(w)'
  <2>. SUFFICES ASSUME AlonePub(w)' PROVE SeesWhatIs(w)'
    OBVIOUS
  <2>1. SeesWhatIs(w)
    BY <1>2, <1>9, Zenon DEF WebsiteInv, AlonePub
  <2>2. r.at = "accepted" => v3'[r.draft] = r.set.url
    BY <1>6 DEF e, u
  <2>. QED
    BY <1>2, <2>1, <2>2, Zenon DEF SeesWhatIs
<1>12. Website!OutcomesAreTold'
  <2>1. \A d \in Drafts \ v5' : v3'[d] = v3[d]
                        \/ \E v \in Workers : v4'[v].draft = d /\ v4'[v].at = "accepted"
    <3>. SUFFICES ASSUME NEW d \in Drafts \ v5'
                  PROVE  v3'[d] = v3[d] \/ \E v \in Workers : v4'[v].draft = d /\ v4'[v].at = "accepted"
      OBVIOUS
    <3>1. CASE d # e
      BY <1>6, <3>1
    <3>2. CASE d = e /\ r.at = "accepted"
      <4>1. v4'[w].draft = d /\ v4'[w].at = "accepted"
        BY <1>2, <3>2 DEF e
      <4>. QED
        BY <4>1
    <3>3. CASE d = e /\ r.at # "accepted"
      BY <3>3 DEF e
    <3>. QED
      BY <3>1, <3>2, <3>3
  <2>2. \A d \in Drafts \ v5', v \in Workers :
            v4[v].draft = d /\ v4[v].at = "accepted" => v4'[v].draft = d /\ v4'[v].at = "accepted"
    <3>1. \A v \in Workers : v4[v].at = "accepted" => v # w
      OBVIOUS
    <3>. QED
      BY <1>2, <3>1, Zenon
  <2>. QED
    BY <2>1, <2>2, OutcomesStay
<1>13. Website!DecisionsAreWhole'
  BY DecisionsStay
<1>14. RowsOld'
  BY Zenon DEF RowsOld, WebsiteInv
<1>15. v10 <= v10'
  BY <1>1, SMT
<1>. QED
  BY <1>7, <1>8, <1>9, <1>10, <1>11, <1>12, <1>13, <1>14, <1>15, WebsiteAfter

\* The website accepts, refuses, or its answer is lost.
LEMMA WebsiteAnswers ==
    ASSUME WebsiteInv, NEW w \in Workers,
           Website!WebsiteAccepts(w) \/ Website!WebsiteRefuses(w) \/ Website!AnswerLost(w)
    PROVE  WebsiteInv'
<1>1. /\ v4 \in [Workers -> DraftJobs] /\ v4[w] \in DraftJobs /\ v11 \in 0..MaxFaults
      /\ MaxFaults \in Nat
  BY WebsiteConstants DEF WebsiteInv, WebsiteRest
<1> DEFINE a == [v4[w] EXCEPT !.at = "accepted"]
           b == [v4[w] EXCEPT !.at = "refused"]
           c == [b EXCEPT !.set = Website!Failed]
           once == [v4 EXCEPT ![w] = b]
<1>2. a \in DraftJobs /\ a.at = "accepted" /\ a.draft = v4[w].draft /\ a.alone = v4[w].alone
      /\ a.up = v4[w].up /\ a.saw = v4[w].saw /\ a.set = v4[w].set
  BY <1>1 DEF DraftJobs
<1>3. b \in DraftJobs /\ b.at = "refused" /\ b.draft = v4[w].draft /\ b.alone = v4[w].alone
      /\ b.up = v4[w].up /\ b.saw = v4[w].saw
  BY <1>1 DEF DraftJobs
<1>4. c \in DraftJobs /\ c.at = "refused" /\ c.draft = v4[w].draft /\ c.alone = v4[w].alone
      /\ c.up = v4[w].up /\ c.saw = v4[w].saw /\ c.set = Website!Failed
  <2>1. Website!Failed \in DraftChanges
    BY DEF DraftChanges
  <2>. HIDE DEF b
  <2>. QED
    BY <1>3, <2>1 DEF DraftJobs
<1>5. ASSUME Website!Refused(w) PROVE v4' = [v4 EXCEPT ![w] = c]
  <2>1. v4' = [v4 EXCEPT ![w].at = "refused", ![w].set = Website!Failed]
    BY <1>5 DEF Website!Refused
  <2>2. v4' = [once EXCEPT ![w].set = Website!Failed] /\ once[w] = b
    BY <1>1, <2>1
  <2>3. [once EXCEPT ![w].set = Website!Failed] = [once EXCEPT ![w] = c]
    BY <2>2
  <2>. HIDE DEF b, c
  <2>4. [once EXCEPT ![w] = c] = [v4 EXCEPT ![w] = c]
    BY <1>1, <1>3, <1>4, WrittenTwice
  <2>. QED
    BY <2>2, <2>3, <2>4
<1>. HIDE DEF a, b, c, once
<1>6. ASSUME Website!WebsiteAccepts(w) PROVE WebsiteInv'
  <2>1. /\ v4[w].at = "awaits" /\ v3' = [v3 EXCEPT ![v4[w].draft] = v4[w].set.url]
        /\ v4' = [v4 EXCEPT ![w] = a]
        /\ v1' = v1 /\ v2' = v2 /\ v5' = v5 /\ v6' = v6 /\ v7' = v7 /\ v8' = v8 /\ v9' = v9
        /\ v10' = v10 /\ v11' = v11
    BY <1>6, Zenon DEF Website!WebsiteAccepts, Website!At, Website!Arrives, Website!Answered,
                       Website!history, Website!bounds, a
  <2>. QED
    BY <1>1, <1>2, <2>1, WebsiteAnswered
<1>7. ASSUME Website!WebsiteRefuses(w) PROVE WebsiteInv'
  <2>1. /\ v4[w].at = "awaits" /\ Website!Refused(w) /\ v3' = v3
        /\ v1' = v1 /\ v2' = v2 /\ v5' = v5 /\ v6' = v6 /\ v7' = v7 /\ v8' = v8 /\ v9' = v9
        /\ v10' = v10 /\ v11' = v11
    BY <1>7, Zenon DEF Website!WebsiteRefuses, Website!At, Website!history, Website!bounds
  <2>. QED
    BY <1>1, <1>4, <1>5, <2>1, WebsiteAnswered
<1>8. ASSUME Website!AnswerLost(w) PROVE WebsiteInv'
  <2>1. /\ v4[w].at = "awaits" /\ Website!Refused(w)
        /\ v3' = [v3 EXCEPT ![v4[w].draft] = v4[w].set.url]
        /\ v5' = v5 \cup {v4[w].draft} /\ v11 < MaxFaults /\ v11' = v11 + 1
        /\ v1' = v1 /\ v2' = v2 /\ v6' = v6 /\ v7' = v7 /\ v8' = v8 /\ v9' = v9 /\ v10' = v10
    BY <1>8, Zenon DEF Website!AnswerLost, Website!At, Website!Arrives
  <2>2. v11' \in 0..MaxFaults
    BY <1>1, <2>1, SMT
  <2>3. v5 \subseteq v5' /\ v5' \subseteq v5 \cup {v4[w].draft} /\ v4[w].draft \in v5'
    BY <2>1
  <2>. QED
    BY <1>1, <1>4, <1>5, <2>1, <2>2, <2>3, WebsiteAnswered
<1>. QED
  BY <1>6, <1>7, <1>8

\* What storing the outcome of publication n leaves of a row.
OutcomeIs(new, row, r, n) ==
    /\ SameDecision(new, row)
    /\ new.url = row.url \/ (r.set = Website!Published(n) /\ new.url = n)
    /\ SameOutcome(row, r.saw) /\ r.set = Website!Published(n) =>
           new.status = "published" /\ new.url = n /\ new.error = FALSE
    /\ SameOutcome(row, r.saw) /\ r.set = Website!Failed =>
           new.status = "failed" /\ new.url = row.url /\ new.error = TRUE

\* What a publication leaves in the row: it leaves the decision alone.
LEMMA OutcomeStored ==
    ASSUME NEW r, NEW anew, NEW row \in Website!Row, NEW n,
           r.set = Website!Published(n) \/ r.set = Website!Failed
    PROVE  OutcomeIs(Website!Stored(r, anew, row), row, r, n)
<1> DEFINE new == Website!Stored(r, anew, row)
<1>1. \A c \in Columns :
          new[c] = IF c \in Website!Changed(r, anew) THEN r.set[c] ELSE row[c]
  BY StoredIs
<1>. HIDE DEF new
<1>2. \A c : c \notin DOMAIN r.set => c \notin Website!Changed(r, anew)
  BY ChangedIs
<1>3. \A c \in Columns : c \notin DOMAIN r.set => new[c] = row[c]
  BY <1>1, <1>2
<1>4. \A c \in Columns : c \in DOMAIN r.set /\ row[c] = r.saw[c] => new[c] = r.set[c]
  BY <1>1, ChangedIs
<1>5. \A c \in Columns : new[c] = row[c] \/ (c \in DOMAIN r.set /\ new[c] = r.set[c])
  BY <1>1, <1>2
<1>6. /\ "status" \in Columns /\ "url" \in Columns /\ "error" \in Columns
      /\ "approval" \in Columns /\ "approved" \in Columns /\ "rejected" \in Columns
      /\ "reason" \in Columns
  BY DEF Columns
<1>7. /\ r.set = Website!Published(n) =>
             /\ DOMAIN r.set = {"status", "url", "error"} /\ r.set["status"] = "published"
             /\ r.set["url"] = n /\ r.set["error"] = FALSE
      /\ r.set = Website!Failed =>
             /\ DOMAIN r.set = {"status", "error"} /\ r.set["status"] = "failed"
             /\ r.set["error"] = TRUE
  <2>1. /\ DOMAIN Website!Published(n) = {"status", "url", "error"}
        /\ Website!Published(n)["status"] = "published"
        /\ Website!Published(n)["url"] = n /\ Website!Published(n)["error"] = FALSE
    BY PublishedIs
  <2>. QED
    BY <2>1, ChangesAre, Zenon
<1>8. DOMAIN r.set = {"status", "url", "error"} \/ DOMAIN r.set = {"status", "error"}
  BY <1>7
<1>9. /\ "approval" \notin DOMAIN r.set /\ "approved" \notin DOMAIN r.set
      /\ "rejected" \notin DOMAIN r.set /\ "reason" \notin DOMAIN r.set
  BY <1>8
<1>10. SameDecision(new, row)
  <2>1. new["approval"] = row["approval"] /\ new["approved"] = row["approved"]
        /\ new["rejected"] = row["rejected"] /\ new["reason"] = row["reason"]
    BY <1>3, <1>6, <1>9, Zenon
  <2>. QED
    BY <2>1, Zenon DEF SameDecision
<1>11. r.set = Website!Failed => new["url"] = row["url"]
  <2>1. r.set = Website!Failed => "url" \notin DOMAIN r.set
    BY <1>7
  <2>. QED
    BY <1>3, <1>6, <2>1, Zenon
<1>12. new.url = row.url \/ (r.set = Website!Published(n) /\ new.url = n)
  <2>1. new["url"] = row["url"] \/ (r.set = Website!Published(n) /\ new["url"] = n)
    BY <1>5, <1>6, <1>7, <1>11, Zenon
  <2>. QED
    BY <2>1, Zenon
<1>13. ASSUME SameOutcome(row, r.saw)
       PROVE  /\ row["status"] = r.saw["status"] /\ row["url"] = r.saw["url"]
              /\ row["error"] = r.saw["error"]
  BY <1>13, Zenon DEF SameOutcome
<1>14. ASSUME SameOutcome(row, r.saw), r.set = Website!Published(n)
       PROVE  new.status = "published" /\ new.url = n /\ new.error = FALSE
  <2>1. "status" \in DOMAIN r.set /\ "url" \in DOMAIN r.set /\ "error" \in DOMAIN r.set
    BY <1>7, <1>14
  <2>2. new["status"] = "published" /\ new["url"] = n /\ new["error"] = FALSE
    BY <1>4, <1>6, <1>7, <1>13, <1>14, <2>1, Zenon
  <2>. QED
    BY <2>2, Zenon
<1>15. ASSUME SameOutcome(row, r.saw), r.set = Website!Failed
       PROVE  new.status = "failed" /\ new.url = row.url /\ new.error = TRUE
  <2>1. "status" \in DOMAIN r.set /\ "error" \in DOMAIN r.set
    BY <1>7, <1>15
  <2>2. new["status"] = "failed" /\ new["url"] = row["url"] /\ new["error"] = TRUE
    BY <1>4, <1>6, <1>7, <1>11, <1>13, <1>15, <2>1, Zenon
  <2>. QED
    BY <2>2, Zenon
<1>. QED
  BY <1>10, <1>12, <1>14, <1>15, Zenon DEF new, OutcomeIs

\* The outcome of a publication is stored.
LEMMA WebsiteStoreOutcome ==
    ASSUME WebsiteInv, NEW w \in Workers, Website!StoreOutcome(w)
    PROVE  WebsiteInv'
<1> DEFINE r == v4[w]
           e == v4[w].draft
           good == v4[w].at = "accepted"
<1>1. /\ v4[w].at \in {"accepted", "refused"} /\ v4' = [v4 EXCEPT ![w] = Website!Idle]
      /\ v2' = IF good # r.up THEN good ELSE v2
      /\ v5' = IF r.alone THEN IF good THEN v5 \ {e} ELSE v5 ELSE v5 \cup {e}
      /\ v7' = ~r.alone /\ v8' = good
      /\ v9' = [d \in Drafts |-> IF d = e THEN r.set.status ELSE v9[d]]
      /\ v3' = v3 /\ v6' = v6 /\ v10' = v10 /\ v11' = v11
  BY Zenon DEF Website!StoreOutcome, Website!At, Website!Finish, Website!bounds
<1>2. PICK anew \in SUBSET Website!Texts :
          v1' = [d \in Drafts |-> IF d = e THEN Website!Stored(r, anew, v1[d]) ELSE v1[d]]
  BY Zenon DEF Website!StoreOutcome
<1> DEFINE new == Website!Stored(r, anew, v1[e])
<1>3. /\ WebsiteRest /\ v1 \in [Drafts -> Website!Row] /\ v4 \in [Workers -> DraftJobs]
      /\ v9 \in [Drafts -> {"draft", "published", "failed"}]
      /\ v5 \subseteq Drafts \cup {NoDraft} /\ v10 \in 0..MaxPublishing /\ v2 \in BOOLEAN
      /\ RowsOld
  BY DEF WebsiteInv, WebsiteRest
<1>4. /\ r.set \in DraftChanges /\ e \in Drafts \cup {NoDraft} /\ r.alone \in BOOLEAN
      /\ r.up \in BOOLEAN /\ JobIs(w) /\ r.saw \in Website!Row
  BY WebsiteJob DEF WebsiteInv
<1>5. \E n \in 0..v10 : /\ good => r.set = Website!Published(n) /\ v4[w].saw.url < n
                        /\ ~good => r.set = Website!Failed
  <2>1. CASE good
    <3>1. PICK n \in 1..v10 : v4[w].set = Website!Published(n) /\ v4[w].saw.url < n
      BY <1>4, <2>1, Zenon DEF JobIs
    <3>2. n \in 0..v10
      BY <1>3, <3>1, SMT
    <3>. QED
      BY <2>1, <3>1, <3>2
  <2>2. CASE ~good
    <3>1. r.set = Website!Failed
      BY <1>1, <1>4, <2>2, Zenon DEF JobIs
    <3>2. 0 \in 0..v10
      BY <1>3, SMT
    <3>. QED
      BY <2>2, <3>1, <3>2
  <2>. QED
    BY <2>1, <2>2
<1>6. PICK n \in 0..v10 : /\ good => r.set = Website!Published(n) /\ v4[w].saw.url < n
                          /\ ~good => r.set = Website!Failed
  BY <1>5
<1>7. e \in Drafts => v1[e] \in Website!Row /\ new \in Website!Row
  BY <1>3, <1>4, StoredTyped
<1>8. ASSUME e \in Drafts
      PROVE  OutcomeIs(new, v1[e], r, n)
  <2>1. v1[e] \in Website!Row /\ (r.set = Website!Published(n) \/ r.set = Website!Failed)
    BY <1>6, <1>7, <1>8
  <2>. HIDE DEF r, e
  <2>. QED
    BY <2>1, OutcomeStored, Zenon DEF new
<1>9. /\ \A d \in Drafts : d # e => v1'[d] = v1[d] /\ v9'[d] = v9[d]
      /\ e \in Drafts => v1'[e] = new /\ v9'[e] = r.set.status
  BY <1>1, <1>2
<1>10. r.set.status = IF good THEN "published" ELSE "failed"
  <2>1. Website!Published(n)["status"] = "published"
    BY PublishedIs
  <2>2. good => r.set["status"] = "published"
    BY <1>6, <2>1, Zenon
  <2>3. ~good => r.set["status"] = "failed"
    BY <1>6, ChangesAre, Zenon
  <2>. QED
    BY <2>2, <2>3
<1>11. /\ v4'[w] = Website!Idle /\ JobIs(w)' /\ ~Website!Publishing(w)'
       /\ \A v \in Workers : v # w => v4'[v] = v4[v]
  BY <1>1, FinishedIs
<1>12. v1' \in [Drafts -> Website!Row]
  <2>. HIDE DEF new
  <2>1. \A d \in Drafts : v1'[d] \in Website!Row
    BY <1>3, <1>7, <1>9
  <2>2. v1' = [d \in Drafts |-> v1'[d]]
    BY <1>2
  <2>. QED
    BY <2>1, <2>2
<1>13. v9' \in [Drafts -> {"draft", "published", "failed"}]
  BY <1>1, <1>3, <1>10
<1>14. v2' \in BOOLEAN /\ v7' \in BOOLEAN /\ v8' \in BOOLEAN
  BY <1>1, <1>3, <1>4
<1>15. v5' \subseteq Drafts \cup {NoDraft}
  BY <1>1, <1>3, <1>4
<1>16. WebsiteRest'
  BY <1>1, <1>3, <1>12, <1>13, <1>14, <1>15, Zenon DEF WebsiteRest, Website!Row
<1>17. Website!Publishing(w)
  BY <1>1, Zenon DEF Website!Publishing
<1>18. \A v \in Workers : v # w => ~AlonePub(v)
  BY <1>17, NonePubAlone
<1>19. r.alone => SeesWhatIs(w) /\ \A v \in Workers : Website!Publishing(v) => v = w
  BY <1>17, Zenon DEF WebsiteInv, AlonePub
<1>20. ASSUME NEW d \in Drafts, d \notin v5'
       PROVE  \/ \E v \in Workers : v4'[v].draft = d /\ v4'[v].at = "accepted"
              \/ /\ v1'[d].url = v3'[d] /\ v1'[d].status = v9'[d]
                 /\ v1'[d].error <=> v1'[d].status = "failed"
  <2>1. ASSUME d \notin v5
        PROVE  \/ \E v \in Workers : v4[v].draft = d /\ v4[v].at = "accepted"
               \/ /\ v1[d].url = v3[d] /\ v1[d].status = v9[d]
                  /\ v1[d].error <=> v1[d].status = "failed"
    BY <2>1, Zenon DEF WebsiteInv, Website!OutcomesAreTold, Website!At
  <2>2. CASE d # e
    <3>1. d \notin v5
      BY <1>1, <1>20, <2>2
    <3>2. v1'[d] = v1[d] /\ v9'[d] = v9[d] /\ v3' = v3
      BY <1>1, <1>9, <2>2
    <3>3. ASSUME NEW v \in Workers, v4[v].draft = d, v4[v].at = "accepted"
          PROVE  v4'[v].draft = d /\ v4'[v].at = "accepted"
      BY <1>11, <2>2, <3>3
    <3>. QED
      BY <2>1, <3>1, <3>2, <3>3, Zenon
  <2>3. CASE d = e
    <3>1. r.alone
      BY <1>1, <1>20, <2>3
    <3>2. SameOutcome(v1[e], r.saw) /\ e \in Drafts
      BY <1>19, <2>3, <3>1, Zenon DEF SeesWhatIs, SameOutcome
    <3>3. CASE good
      <4>1. r.set = Website!Published(n) /\ r.set.url = n
        BY <1>6, <3>3, PublishedIs
      <4>2. new.status = "published" /\ new.url = n /\ new.error = FALSE
        BY <1>8, <3>2, <4>1, Zenon DEF OutcomeIs
      <4>3. v3[e] = n
        BY <1>19, <3>1, <3>3, <4>1, Zenon DEF SeesWhatIs
      <4>4. v1'[d] = new /\ v9'[d] = "published" /\ v3'[d] = n
        BY <1>1, <1>9, <1>10, <2>3, <3>2, <3>3, <4>3
      <4>5. "published" # "failed"
        OBVIOUS
      <4>. QED
        BY <4>2, <4>4, <4>5, Zenon
    <3>4. CASE ~good
      <4>1. r.set = Website!Failed
        BY <1>6, <3>4
      <4>2. new.status = "failed" /\ new.url = v1[e].url /\ new.error = TRUE
        BY <1>8, <3>2, <4>1, Zenon DEF OutcomeIs
      <4>3. d \notin v5
        BY <1>1, <1>20, <3>1, <3>4
      <4>4. ~\E v \in Workers : v4[v].draft = d /\ v4[v].at = "accepted"
        BY <1>19, <3>1, <3>4, Zenon DEF Website!Publishing
      <4>5. v1[d].url = v3[d]
        BY <2>1, <4>3, <4>4, Zenon
      <4>6. v1'[d] = new /\ v9'[d] = "failed" /\ v3'[d] = v3[d]
        BY <1>1, <1>9, <1>10, <2>3, <3>2, <3>4
      <4>. QED
        BY <2>3, <4>2, <4>5, <4>6, Zenon
    <3>. QED
      BY <3>3, <3>4
  <2>. QED
    BY <2>2, <2>3
<1>21. ~v7' => v2' = v8'
  <2>. SUFFICES ASSUME ~v7' PROVE v2' = v8'
    OBVIOUS
  <2>1. r.alone
    BY <1>1, Zenon
  <2>2. r.up = v2
    BY <1>19, <2>1, Zenon DEF SeesWhatIs
  <2>. QED
    BY <1>1, <1>3, <1>4, <2>2
<1>22. Website!OutcomesAreTold'
  BY <1>20, <1>21, Zenon DEF Website!OutcomesAreTold, Website!At
<1>23. \A d \in Drafts : /\ v1'[d].approval = v1[d].approval /\ v1'[d].approved = v1[d].approved
                         /\ v1'[d].rejected = v1[d].rejected /\ v1'[d].reason = v1[d].reason
  BY <1>8, <1>9, Zenon DEF SameDecision, OutcomeIs
<1>24. Website!DecisionsAreWhole'
  <2>1. v6 \subseteq v6'
    BY <1>1
  <2>. QED
    BY <1>23, <2>1, DecisionsStay
<1>25. RowsOld'
  <2>. SUFFICES ASSUME NEW d \in Drafts PROVE v1'[d].url <= v10
    BY <1>1, Zenon DEF RowsOld
  <2>1. v1[d].url <= v10
    BY <1>3 DEF RowsOld
  <2>2. n <= v10
    BY <1>3, <1>6, SMT
  <2>3. CASE d # e
    BY <1>9, <2>1, <2>3
  <2>4. CASE d = e
    <3>1. new.url = v1[d].url \/ new.url = n
      BY <1>8, <2>4, Zenon DEF OutcomeIs
    <3>2. v1'[d] = new
      BY <1>9, <2>4
    <3>. QED
      BY <2>1, <2>2, <3>1, <3>2, Zenon
  <2>. QED
    BY <2>3, <2>4
<1>26. v10 <= v10'
  BY <1>1, <1>3, SMT
<1>27. ~AlonePub(w)'
  BY <1>11 DEF AlonePub
<1>. HIDE DEF r, e, good, new
<1>. QED
  BY <1>1, <1>11, <1>16, <1>18, <1>22, <1>24, <1>25, <1>26, <1>27, IdleDraftJob, WebsiteAfter

\* A request dies.
LEMMA WebsiteCrash ==
    ASSUME WebsiteInv, NEW w \in Workers, Website!Crash(w)
    PROVE  WebsiteInv'
<1> DEFINE e == v4[w].draft
<1>1. /\ v11 < MaxFaults /\ v11' = v11 + 1 /\ v4' = [v4 EXCEPT ![w] = Website!Idle]
      /\ v5' = IF v4[w].at = "accepted" THEN v5 \cup {e} ELSE v5
      /\ v1' = v1 /\ v2' = v2 /\ v3' = v3 /\ v6' = v6 /\ v7' = v7 /\ v8' = v8 /\ v9' = v9
      /\ v10' = v10
  BY Zenon DEF Website!Crash, Website!At, Website!Finish
<1>2. WebsiteRest /\ v4 \in [Workers -> DraftJobs] /\ RowsOld
  BY DEF WebsiteInv
<1>3. e \in Drafts \cup {NoDraft}
  BY WebsiteJob
<1>4. v5 \subseteq v5' /\ v5' \subseteq Drafts \cup {NoDraft}
  BY <1>1, <1>2, <1>3 DEF WebsiteRest
<1>5. v11' \in 0..MaxFaults /\ v10 <= v10'
  BY <1>1, <1>2, WebsiteConstants, SMT DEF WebsiteRest
<1>6. WebsiteRest'
  BY <1>1, <1>2, <1>4, <1>5, Zenon DEF WebsiteRest, Website!Row
<1>7. /\ v4'[w] = Website!Idle /\ JobIs(w)' /\ ~Website!Publishing(w)'
      /\ \A v \in Workers : v # w => v4'[v] = v4[v]
  BY <1>1, FinishedIs
<1>8. Website!OutcomesAreTold'
  <2>1. \A d \in Drafts \ v5', v \in Workers :
            v4[v].draft = d /\ v4[v].at = "accepted" => v4'[v].draft = d /\ v4'[v].at = "accepted"
    <3>. SUFFICES ASSUME NEW d \in Drafts \ v5', NEW v \in Workers,
                         v4[v].draft = d, v4[v].at = "accepted"
                  PROVE  v # w
      BY <1>7, Zenon
    <3>1. v = w => d \in v5'
      BY <1>1
    <3>. QED
      BY <3>1
  <2>. QED
    BY <1>1, <1>4, <2>1, OutcomesStay
<1>9. Website!DecisionsAreWhole'
  BY <1>1, DecisionsStay
<1>10. RowsOld'
  BY <1>1, <1>2, Zenon DEF RowsOld
<1>11. ~AlonePub(w)'
  BY <1>7 DEF AlonePub
<1>. HIDE DEF e
<1>. QED
  BY <1>1, <1>5, <1>6, <1>7, <1>8, <1>9, <1>10, <1>11, IdleDraftJob, WebsiteAfter

\* A publication begins; it and those under way mark one another.
LEMMA WebsitePublish ==
    ASSUME WebsiteInv, NEW w \in Workers, NEW d \in Drafts \cup {NoDraft}, Website!Publish(w, d)
    PROVE  WebsiteInv'
<1> DEFINE rivals == {v \in Workers \ {w} : Website!Publishing(v)}
           saw == IF d = NoDraft THEN Website!NewRow ELSE v1[d]
           request == [at |-> "awaits", draft |-> d, up |-> v2, alone |-> rivals = {},
                       saw |-> saw, set |-> Website!Published(v10')]
<1>1. /\ v4[w].at = "idle" /\ v10 < MaxPublishing /\ v10' = v10 + 1
      /\ v4' = [v \in Workers |->
                   IF v = w THEN request
                   ELSE IF v \in rivals THEN [v4[v] EXCEPT !.alone = FALSE] ELSE v4[v]]
      /\ v1' = v1 /\ v2' = v2 /\ v3' = v3 /\ v5' = v5 /\ v6' = v6 /\ v7' = v7 /\ v8' = v8
      /\ v9' = v9 /\ v11' = v11
  BY DEF Website!Publish, Website!At, Website!Start, Website!history
<1>2. /\ WebsiteRest /\ v4 \in [Workers -> DraftJobs] /\ RowsOld /\ v2 \in BOOLEAN
      /\ v1 \in [Drafts -> Website!Row] /\ v10 \in 0..MaxPublishing
  BY DEF WebsiteInv, WebsiteRest
<1>3. /\ v10 \in Nat /\ v10' \in 0..MaxPublishing /\ v10 <= v10' /\ v10' \in 1..v10'
  BY <1>1, <1>2, WebsiteConstants, SMT
<1>4. saw \in Website!Row /\ saw.url < v10'
  <2>1. CASE d = NoDraft
    <3>1. saw = Website!NewRow
      BY <2>1
    <3>2. 0 < v10'
      BY <1>1, <1>3, SMT
    <3>. QED
      BY <3>1, <3>2, NewDraftTyped
  <2>2. CASE d # NoDraft
    <3>1. saw = v1[d] /\ d \in Drafts
      BY <2>2
    <3>2. v1[d] \in Website!Row /\ v1[d].url <= v10
      BY <1>2, <3>1 DEF RowsOld
    <3>3. v1[d].url \in Int
      BY <3>2, WebsiteConstants, SMT DEF Website!Row
    <3>4. v1[d].url < v10'
      BY <1>1, <1>3, <3>2, <3>3, SMT
    <3>. QED
      BY <3>1, <3>2, <3>4
  <2>. QED
    BY <2>1, <2>2
<1>5. d \in Drafts => saw = v1[d]
  BY WebsiteConstants
<1>6. request \in DraftJobs /\ request.at = "awaits" /\ request.draft = d /\ request.up = v2
      /\ request.alone = (rivals = {}) /\ request.saw = saw
      /\ request.set = Website!Published(v10')
  <2> DEFINE s == Website!Published(v10')
             lone == rivals = {}
  <2>1. s \in DraftChanges
    BY <1>3, Zenon DEF DraftChanges
  <2>2. request = [at |-> "awaits", draft |-> d, up |-> v2, alone |-> lone, saw |-> saw, set |-> s]
    OBVIOUS
  <2>3. lone \in BOOLEAN
    OBVIOUS
  <2>. HIDE DEF s, lone, saw, request
  <2>4. request \in DraftJobs
    BY <1>2, <1>4, <2>1, <2>2, <2>3 DEF DraftJobs
  <2>5. request.at = "awaits" /\ request.draft = d /\ request.up = v2
        /\ request.alone = lone /\ request.saw = saw /\ request.set = s
    BY <2>2, Zenon
  <2>. QED
    BY <2>4, <2>5 DEF s, lone
<1>7. \A v \in Workers : v \in rivals <=> v # w /\ Website!Publishing(v)
  OBVIOUS
<1>. HIDE DEF request, saw, rivals
<1>8. v4'[w] = request
  BY <1>1
<1>9. \A v \in Workers \ {w} :
          v4'[v] = IF v \in rivals THEN [v4[v] EXCEPT !.alone = FALSE] ELSE v4[v]
  BY <1>1
<1>10. ASSUME NEW v \in Workers, v # w
       PROVE  /\ v4'[v] \in DraftJobs /\ v4'[v].at = v4[v].at /\ v4'[v].draft = v4[v].draft
              /\ v4'[v].saw = v4[v].saw /\ v4'[v].set = v4[v].set /\ v4'[v].up = v4[v].up
              /\ Website!Publishing(v) => v4'[v].alone = FALSE
  <2>1. v4[v] \in DraftJobs
    BY <1>2
  <2>2. CASE v \in rivals
    <3>1. v4'[v] = [v4[v] EXCEPT !.alone = FALSE]
      BY <1>9, <1>10, <2>2
    <3>. QED
      BY <2>1, <3>1 DEF DraftJobs
  <2>3. CASE v \notin rivals
    BY <1>7, <1>9, <1>10, <2>1, <2>3
  <2>. QED
    BY <2>2, <2>3
<1>11. v4' \in [Workers -> DraftJobs]
  <2>1. \A v \in Workers : v4'[v] \in DraftJobs
    BY <1>6, <1>8, <1>10
  <2>2. v4' = [v \in Workers |-> v4'[v]]
    BY <1>1
  <2>. QED
    BY <2>1, <2>2
<1>12. WebsiteRest'
  BY <1>1, <1>2, <1>3, Zenon DEF WebsiteRest, Website!Row
<1>13. ASSUME NEW v \in Workers PROVE JobIs(v)'
  <2>1. CASE v = w
    <3>1. v4'[v].set = Website!Published(v10') /\ v4'[v].saw.url < v10' /\ v4'[v].at = "awaits"
      BY <1>4, <1>6, <1>8, <2>1
    <3>2. "awaits" # "decided" /\ "awaits" # "refused"
      OBVIOUS
    <3>. QED
      BY <1>3, <3>1, <3>2, Zenon DEF JobIs, Website!Published, Website!Failed
  <2>2. CASE v # w
    <3>1. JobIs(v) /\ v4'[v].at = v4[v].at /\ v4'[v].draft = v4[v].draft
          /\ v4'[v].saw = v4[v].saw /\ v4'[v].set = v4[v].set
      BY <1>10, <2>2 DEF WebsiteInv
    <3>2. \A n \in 1..v10 : n \in 1..v10'
      BY <1>1, <1>3, SMT
    <3>. QED
      BY <3>1, <3>2, Zenon DEF JobIs, Website!Decisions, Website!Asked, Website!Approved,
                               Website!Archived, Website!Rejected, Website!Published, Website!Failed
  <2>. QED
    BY <2>1, <2>2
<1>14. \A v \in Workers : v # w => (Website!Publishing(v)' => Website!Publishing(v)) /\ ~AlonePub(v)'
  BY <1>10, Zenon DEF AlonePub, Website!Publishing
<1>15. \A u, v \in Workers : AlonePub(u)' /\ Website!Publishing(v)' => v = u
  <2>. SUFFICES ASSUME NEW u \in Workers, NEW v \in Workers, AlonePub(u)', Website!Publishing(v)'
                PROVE  v = u
    OBVIOUS
  <2>1. u = w
    BY <1>14
  <2>2. request.alone
    BY <1>8, <2>1 DEF AlonePub
  <2>3. rivals = {}
    BY <1>6, <2>2
  <2>. QED
    BY <1>7, <1>14, <2>1, <2>3
<1>16. ASSUME NEW v \in Workers, AlonePub(v)' PROVE SeesWhatIs(v)'
  <2>1. v = w
    BY <1>14, <1>16
  <2>2. v4'[v].up = v2' /\ v4'[v].at = "awaits" /\ v4'[v].draft = d /\ v4'[v].saw = saw
    BY <1>1, <1>6, <1>8, <2>1
  <2>3. "awaits" # "accepted"
    OBVIOUS
  <2>. QED
    BY <1>1, <1>5, <2>2, <2>3, Zenon DEF SeesWhatIs
<1>17. Website!OutcomesAreTold'
  <2>1. \A e \in Drafts \ v5', v \in Workers :
            v4[v].draft = e /\ v4[v].at = "accepted" => v4'[v].draft = e /\ v4'[v].at = "accepted"
    <3>1. \A v \in Workers : v4[v].at = "accepted" => v # w
      BY <1>1
    <3>. QED
      BY <1>10, <3>1, Zenon
  <2>. QED
    BY <1>1, <2>1, OutcomesStay
<1>18. Website!DecisionsAreWhole'
  BY <1>1, DecisionsStay
<1>19. RowsOld'
  <2>1. \A e \in Drafts : v1[e].url \in Int /\ v1[e].url <= v10
    BY <1>2, SMT DEF RowsOld, Website!Row
  <2>. QED
    BY <1>1, <1>3, <2>1, SMT DEF RowsOld
<1>. QED
  BY <1>11, <1>12, <1>13, <1>15, <1>16, <1>17, <1>18, <1>19, Zenon DEF WebsiteInv

\* It is kept.
LEMMA WebsiteSteps ==
    ASSUME WebsiteInv, NextWebsite \/ UNCHANGED vars
    PROVE  WebsiteInv'
<1>1. ASSUME UNCHANGED vars PROVE WebsiteInv'
  <2>1. /\ v1' = v1 /\ v2' = v2 /\ v3' = v3 /\ v4' = v4 /\ v5' = v5 /\ v6' = v6 /\ v7' = v7
        /\ v8' = v8 /\ v9' = v9 /\ v10' = v10 /\ v11' = v11
    BY <1>1 DEF vars
  <2>2. WebsiteRest'
    BY <2>1, Zenon DEF WebsiteInv, WebsiteRest, Website!Row
  <2>3. \A w \in Workers : JobIs(w)'
    BY <2>1, Zenon DEF WebsiteInv, JobIs, Website!Decisions, Website!Asked, Website!Approved,
           Website!Archived, Website!Rejected, Website!Published, Website!Failed
  <2>4. \A w : AlonePub(w)' = AlonePub(w) /\ Website!Publishing(w)' = Website!Publishing(w)
               /\ SeesWhatIs(w)' = SeesWhatIs(w)
    BY <2>1 DEF AlonePub, Website!Publishing, SeesWhatIs
  <2>5. Website!OutcomesAreTold'
    BY <2>1, OutcomesStay
  <2>6. Website!DecisionsAreWhole'
    BY <2>1, DecisionsStay
  <2>7. RowsOld'
    BY <2>1, Zenon DEF WebsiteInv, RowsOld
  <2>8. v4' \in [Workers -> DraftJobs]
    BY <2>1, Zenon DEF WebsiteInv
  <2>. QED
    BY <2>2, <2>3, <2>4, <2>5, <2>6, <2>7, <2>8, Zenon DEF WebsiteInv
<1>2. ASSUME NextWebsite PROVE WebsiteInv'
  <2>1. PICK w \in Workers :
            \/ \E d \in Drafts, decision \in Website!Decisions : Website!Decide(w, d, decision)
            \/ Website!CommitDecision(w)
            \/ \E d \in Drafts \cup {NoDraft} : Website!Publish(w, d)
            \/ Website!WebsiteAccepts(w) \/ Website!WebsiteRefuses(w) \/ Website!AnswerLost(w)
            \/ Website!StoreOutcome(w) \/ Website!Crash(w)
    BY <1>2, Zenon DEF NextWebsite
  <2>. QED
    BY <2>1, WebsiteDecide, WebsiteCommitDecision, WebsitePublish, WebsiteAnswers,
       WebsiteStoreOutcome, WebsiteCrash, Zenon
<1>. QED
  BY <1>1, <1>2

\* It holds initially.
LEMMA WebsiteInit ==
    ASSUME Website!Init
    PROVE  WebsiteInv
<1>1. /\ v1 = [d \in Drafts |-> Website!NewRow] /\ v2 = TRUE
      /\ v3 = [d \in Drafts \cup {NoDraft} |-> 0] /\ v4 = [w \in Workers |-> Website!Idle]
      /\ v5 = {} /\ v6 = {} /\ v7 = FALSE /\ v8 = TRUE /\ v9 = [d \in Drafts |-> "draft"]
      /\ v10 = 0 /\ v11 = 0
  BY DEF Website!Init
<1>2. /\ Website!NewRow.status = "draft" /\ Website!NewRow.approval = "not_requested"
      /\ Website!NewRow.error = FALSE
  BY DEF Website!NewRow
<1>3. \A w \in Workers : v4[w].at = "idle" /\ ~Website!Publishing(w)
  BY <1>1, IdleDraftJob DEF Website!Publishing
<1>4. WebsiteRest
  <2>1. 0 \in 0..MaxPublishing /\ 0 \in 0..MaxFaults
    BY WebsiteConstants
  <2>. QED
    BY <1>1, <2>1, NewDraftTyped DEF WebsiteRest
<1>5. v4 \in [Workers -> DraftJobs]
  BY <1>1, IdleDraftJob
<1>6. \A w \in Workers : JobIs(w) /\ ~AlonePub(w)
  BY <1>3 DEF JobIs, AlonePub
<1>7. RowsOld
  BY <1>1, NewDraftTyped DEF RowsOld
<1>8. Website!OutcomesAreTold
  <2>1. \A d \in Drafts : v1[d] = Website!NewRow /\ v3[d] = 0 /\ v9[d] = "draft"
    BY <1>1
  <2>2. "draft" # "failed"
    OBVIOUS
  <2>. QED
    BY <1>1, <1>2, <2>1, <2>2, NewDraftTyped, Zenon DEF Website!OutcomesAreTold
<1>9. Website!DecisionsAreWhole
  <2>1. \A d \in Drafts : v1[d].approval = "not_requested"
    BY <1>1, <1>2
  <2>. QED
    BY <2>1 DEF Website!DecisionsAreWhole
<1>. QED
  BY <1>4, <1>5, <1>6, <1>7, <1>8, <1>9, Zenon DEF WebsiteInv

\* Both components' invariants.
OutcomeInv ==
    /\ subject = "question" => QuestionInv
    /\ subject = "website" => WebsiteInv

\* The types of the questions.
LEMMA QuestionTypes == ASSUME QuestionInv PROVE Question!TypeOK
<1>1. QuestionTyped
  BY Zenon DEF QuestionInv
<1>2. {"idle", "generate", "expired"} \cup QuestionCalls
          = {"idle", "generate", "expired"} \cup Question!Syncing \cup Question!Posting
  BY SMT DEF QuestionCalls, Question!Syncing, Question!Posting
<1>. QED
  BY <1>1, <1>2, Zenon DEF QuestionTyped, QuestionJobs, Question!TypeOK

\* The types of the drafts.
LEMMA WebsiteTypes == ASSUME WebsiteInv PROVE Website!TypeOK
<1>1. WebsiteRest /\ v4 \in [Workers -> DraftJobs]
  BY Zenon DEF WebsiteInv
<1>2. ASSUME NEW w \in Workers
      PROVE  /\ v4[w].at \in {"idle", "decided", "awaits", "accepted", "refused"}
             /\ v4[w].draft \in Drafts \cup {NoDraft}
             /\ v4[w].saw \in Website!Row /\ v4[w].set \in DraftChanges
  <2>1. v4[w] \in DraftJobs
    BY <1>1, Zenon
  <2>. QED
    BY <2>1, SMT DEF DraftJobs
<1>3. ASSUME NEW set \in DraftChanges PROVE DOMAIN set \subseteq DOMAIN Website!NewRow
  BY DEF DraftChanges, Website!NewRow, Website!Decisions, Website!Asked, Website!Approved,
         Website!Rejected, Website!Archived, Website!Published, Website!Failed
<1>. QED
  BY <1>1, <1>2, <1>3, Zenon DEF WebsiteRest, Website!TypeOK

\* They hold in every reachable state of the two.
LEMMA OutcomeAlways == Spec => []OutcomeInv
<1>1. Init => OutcomeInv
  <2>. SUFFICES ASSUME Init PROVE OutcomeInv
    OBVIOUS
  <2>1. subject = "question" => Question!Init
    BY Zenon DEF Init
  <2>2. subject = "website" => Website!Init
    BY Zenon DEF Init
  <2>. QED
    BY <2>1, <2>2, QuestionInit, WebsiteInit, Zenon DEF OutcomeInv
<1>2. OutcomeInv /\ [Next]_vars => OutcomeInv'
  <2>. SUFFICES ASSUME OutcomeInv, [Next]_vars PROVE OutcomeInv'
    OBVIOUS
  <2>1. subject' = subject
    BY SubjectStays
  <2>2. subject = "question" => QuestionInv'
    BY StepOfSubject, QuestionSteps, Zenon DEF OutcomeInv
  <2>3. subject = "website" => WebsiteInv'
    BY StepOfSubject, WebsiteSteps, Zenon DEF OutcomeInv
  <2>. QED
    BY <2>1, <2>2, <2>3, Zenon DEF OutcomeInv
<1>. QED
  BY <1>1, <1>2, PTL DEF Spec

\* What a row says Google or the website has is there: the answer of a posted question
\* (qa.py), the outcome of a draft's last publication and the decision on it
\* (website_seo.py), except after the overlaps and failures the properties name.
THEOREM PostedAndPublishedAreLive == Spec => []PostedIsLive
<1>1. OutcomeInv => PostedIsLive
  BY Zenon DEF OutcomeInv, PostedIsLive, QuestionInv, WebsiteInv
<1>. QED
  BY <1>1, OutcomeAlways, PTL
====
