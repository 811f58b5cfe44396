---- MODULE UsageMetering ----
(***************************************************************************)
(* Plan limits and overage of one account: preview_usage, the caller's     *)
(* work, then use_credits (app/services/credits.py).  The callers that     *)
(* send SMS, generate content or answer reviews all ask first, do the      *)
(* work, and record it afterwards.  Usage is kept in one usage_records row *)
(* per type and day; the monthly total adds up the rows dated since the    *)
(* last allocation, or since day one of the month at the present time of   *)
(* day when there was no allocation.                                       *)
(*                                                                         *)
(* Time is a count of ticks, TicksPerDay to the day; tick 0 opens the      *)
(* first day of the month and the month does not end within MaxClock.      *)
(***************************************************************************)
EXTENDS CreditAccount, Sequences, Functions

CONSTANTS Workers,         \* callers that may be active at once
          UsageTypes,
          CreditCosts,     \* CREDIT_COSTS: credits per unit over the limits
          DailyLimit, MonthlyLimit,   \* effective limits of the account's plan
          Cooldown,        \* USAGE_COOLDOWNS in ticks
          MonthlyCredits,  \* credits of the plan's monthly allocation
          Bonuses,         \* bonus credits the account may have been granted before
          Counts,          \* units a caller asks for
          TicksPerDay, MaxClock,
          MaxJobs,         \* bound: callers' jobs started
          MaxAllocations   \* bound: monthly allocations made

NoDate == -1

\* What is assumed of the constants; the modules that instantiate this one state it.
MeteringAssumption ==
    /\ CreditCosts \in [UsageTypes -> Nat]
    /\ DailyLimit \in [UsageTypes -> Nat]
    /\ MonthlyLimit \in [UsageTypes -> Nat]
    /\ \A t \in UsageTypes : DailyLimit[t] <= MonthlyLimit[t]
    /\ Cooldown \in [UsageTypes -> Nat]
    /\ MonthlyCredits \in Nat
    /\ Bonuses \subseteq Nat
    /\ Counts \subseteq Nat \ {0}
    /\ TicksPerDay \in Nat \ {0}
    /\ MaxClock \in Nat /\ MaxJobs \in Nat /\ MaxAllocations \in Nat

VARIABLES
    clock,
    row,                   \* the credit_balances row
    lastAllocation,        \* CreditBalance.last_allocation_date
    records,               \* usage_records rows per type, in order of creation
    pc, job, seen,         \* a caller's place, its job, what its session read
    done,                  \* history: units of work done per type
    free,                  \* history: <<tick, units>> recorded without a charge
    refused,               \* history: units of work done that were not recorded
    overlapped,            \* history: have two callers ever been active at once?
    slid,                  \* history: callers for whom the month began later when they
                           \* asked than it does now that they record
    jobs, allocations      \* bounds

vars == <<clock, row, lastAllocation, records, pc, job, seen, done, free,
          refused, overlapped, slid, jobs, allocations>>

Record == [date : 0..MaxClock, count : Nat, lastUsed : 0..MaxClock \cup {NoDate}]
NoJob == [type |-> "none", count |-> 0]
Nothing == [now |-> 0, row |-> EmptyRow, lastAllocation |-> NoDate,
            daily |-> 0, monthly |-> 0, place |-> 0, count |-> 0]

Day(tick) == tick \div TicksPerDay
\* The units of the entries at these places.
UnitsAt(entries, places) ==
    FoldFunctionOnSet(LAMBDA units, sum : sum + units, 0,
                      [i \in DOMAIN entries |-> entries[i].count], places)
TypesUnits(entries) == UnitsAt(entries, DOMAIN entries)

\* _get_usage_record: the newest row of the day, 0 when there is none yet
Today(t) == {i \in DOMAIN records[t] : Day(records[t][i].date) = Day(clock)}
TodaysRecord(t) == IF Today(t) = {} THEN 0
                   ELSE CHOOSE i \in Today(t) : \A k \in Today(t) : k <= i

MonthStart(now) == IF lastAllocation = NoDate THEN now % TicksPerDay ELSE lastAllocation

\* Mutant: date > day_start where the code has date >= day_start.
DailyTotalAfterMidnight(t) ==
    UnitsAt(records[t], {i \in Today(t) : records[t][i].date % TicksPerDay > 0})

\* _usage_totals
DailyTotal(t) == UnitsAt(records[t], Today(t))
MonthlyTotal(t) ==
    UnitsAt(records[t], {i \in DOMAIN records[t] : records[t][i].date >= MonthStart(clock)})

WithinLimits(t, daily, monthly, count) ==
    /\ daily + count <= DailyLimit[t]
    /\ monthly + count <= MonthlyLimit[t]

CoolingDown(t) ==
    LET i == TodaysRecord(t)
    IN  /\ Cooldown[t] > 0
        /\ i # 0
        /\ records[t][i].lastUsed # NoDate
        /\ clock < records[t][i].lastUsed + Cooldown[t]

Init ==
    /\ clock = 0
    \* with a first allocation just made, or without any yet, whatever was granted
    /\ \E bonus \in Bonuses :
          LET granted == Grant(EmptyRow, "bonus", bonus)
          IN  \/ row = Allocate(granted, MonthlyCredits) /\ lastAllocation = 0
              \/ row = granted /\ lastAllocation = NoDate
    /\ records = [t \in UsageTypes |-> <<>>]
    /\ pc = [w \in Workers |-> "idle"]
    /\ job = [w \in Workers |-> NoJob]
    /\ seen = [w \in Workers |-> Nothing]
    /\ done = [t \in UsageTypes |-> 0]
    /\ free = [t \in UsageTypes |-> <<>>]
    /\ refused = [t \in UsageTypes |-> 0]
    /\ overlapped = FALSE
    /\ slid = {}
    /\ jobs = 0
    /\ allocations = 0

Goto(w, place) == pc' = [pc EXCEPT ![w] = place]

Finish(w) ==
    /\ Goto(w, "idle")
    /\ job' = [job EXCEPT ![w] = NoJob]
    /\ seen' = [seen EXCEPT ![w] = Nothing]
    /\ slid' = slid \ {w}

-----------------------------------------------------------------------------
\* preview_usage: no overage is ever allowed here, whatever the balance
Preview(w, t, n) ==
    /\ pc[w] = "idle"
    /\ jobs < MaxJobs
    /\ jobs' = jobs + 1
    /\ ~CoolingDown(t)
    /\ WithinLimits(t, DailyTotal(t), MonthlyTotal(t), n)
    /\ Goto(w, "work")
    /\ job' = [job EXCEPT ![w] = [type |-> t, count |-> n]]
    /\ overlapped' = (overlapped \/ \E v \in Workers : pc[v] # "idle")
    /\ UNCHANGED <<clock, row, lastAllocation, records, seen, done, free, refused, slid, allocations>>

\* The work itself (an SMS, a generated text) can fail; then nothing is recorded.
Work(w) ==
    /\ pc[w] = "work"
    /\ \/ /\ done' = [done EXCEPT ![job[w].type] = @ + job[w].count]
          /\ Goto(w, "use")
          /\ UNCHANGED <<job, seen, slid>>
       \/ /\ Finish(w)
          /\ UNCHANGED done
    /\ UNCHANGED <<clock, row, lastAllocation, records, free, refused, overlapped,
                   jobs, allocations>>

\* use_credits, the queries: balance row, totals, the record of the day.  The
\* time is taken here and dates the record, whenever the commit comes.
ReadUsage(w) ==
    /\ pc[w] = "use"
    /\ LET t == job[w].type
           i == TodaysRecord(t)
       IN  seen' = [seen EXCEPT ![w] =
               [now |-> clock, row |-> row, lastAllocation |-> lastAllocation,
                daily |-> DailyTotal(t), monthly |-> MonthlyTotal(t),
                place |-> i, count |-> IF i = 0 THEN 0 ELSE records[t][i].count]]
    /\ Goto(w, "commit")
    /\ UNCHANGED <<clock, row, lastAllocation, records, job, done, free, refused, overlapped,
                   slid, jobs, allocations>>

\* Mutant: the count of the record is set, not added to.
StoreRecordAnew(w) ==
    LET t == job[w].type
        new == [date |-> seen[w].now, count |-> job[w].count, lastUsed |-> seen[w].now]
    IN  records' = [records EXCEPT ![t] =
            IF seen[w].place = 0 THEN Append(@, new)
            ELSE [@ EXCEPT ![seen[w].place] = new]]

\* The record of the day gets an absolute count, or is inserted.
StoreRecord(w) ==
    LET t == job[w].type
        new == seen[w].count + job[w].count
    IN  records' = [records EXCEPT ![t] =
            IF seen[w].place = 0
            THEN Append(@, [date |-> seen[w].now, count |-> new, lastUsed |-> seen[w].now])
            ELSE [@ EXCEPT ![seen[w].place].count = new,
                           ![seen[w].place].lastUsed = seen[w].now]]

Fits(w) == WithinLimits(job[w].type, seen[w].daily, seen[w].monthly, job[w].count)
CostOf(w) == CreditCosts[job[w].type] * job[w].count

CommitFree(w) ==
    /\ pc[w] = "commit"
    /\ Fits(w)
    /\ StoreRecord(w)
    /\ free' = [free EXCEPT ![job[w].type] =
                   Append(@, [date |-> seen[w].now, count |-> job[w].count])]
    /\ Finish(w)
    /\ UNCHANGED <<clock, row, lastAllocation, done, refused, overlapped,
                   jobs, allocations>>

\* Mutant: can_afford is not asked before the deduction.
CommitChargeUnaffordable(w) ==
    /\ pc[w] = "commit"
    /\ ~Fits(w)
    /\ CostOf(w) > 0
    /\ StoreRecord(w)
    /\ row' = Deduct(seen[w].row, CostOf(w))
    /\ Finish(w)
    /\ UNCHANGED <<clock, lastAllocation, done, free, refused, overlapped,
                   jobs, allocations>>

CommitCharge(w) ==
    /\ pc[w] = "commit"
    /\ ~Fits(w)
    /\ CostOf(w) > 0
    /\ CanAfford(seen[w].row, CostOf(w))
    /\ StoreRecord(w)
    /\ LET new == Deduct(seen[w].row, CostOf(w))
       IN  row' = [c \in Columns |-> IF new[c] = seen[w].row[c] THEN row[c] ELSE new[c]]
    /\ Finish(w)
    /\ UNCHANGED <<clock, lastAllocation, done, free, refused, overlapped,
                   jobs, allocations>>

\* plan_limit_reached, insufficient_credits: the caller logs a warning
Refuse(w) ==
    /\ pc[w] = "commit"
    /\ ~Fits(w)
    /\ CostOf(w) = 0 \/ ~CanAfford(seen[w].row, CostOf(w))
    /\ refused' = [refused EXCEPT ![job[w].type] = @ + job[w].count]
    /\ Finish(w)
    /\ UNCHANGED <<clock, row, lastAllocation, records, done, free, overlapped, jobs, allocations>>

ProcessPayment ==
    /\ allocations < MaxAllocations
    /\ allocations' = allocations + 1
    /\ row' = Allocate(row, MonthlyCredits)
    /\ lastAllocation' = clock
    /\ UNCHANGED <<clock, records, pc, job, seen, done, free, refused, overlapped, slid, jobs>>

Tick ==
    /\ clock < MaxClock
    /\ clock' = clock + 1
    /\ slid' = IF MonthStart(clock') < MonthStart(clock)
               THEN slid \cup {w \in Workers : pc[w] \in {"work", "use"}}
               ELSE slid
    /\ UNCHANGED <<row, lastAllocation, records, pc, job, seen, done, free,
                   refused, overlapped, jobs, allocations>>

Next ==
    \/ \E w \in Workers :
          \/ \E t \in UsageTypes, n \in Counts : Preview(w, t, n)
          \/ Work(w)
          \/ ReadUsage(w)
          \/ CommitFree(w)
          \/ CommitCharge(w)
          \/ Refuse(w)
    \/ ProcessPayment
    \/ Tick

Spec == Init /\ [][Next]_vars

-----------------------------------------------------------------------------
TypeOK ==
    /\ clock \in 0..MaxClock
    /\ row \in BalanceRow
    /\ lastAllocation \in 0..MaxClock \cup {NoDate}
    /\ \A t \in UsageTypes : \A i \in DOMAIN records[t] : records[t][i] \in Record
    /\ pc \in [Workers -> {"idle", "work", "use", "commit"}]
    /\ \A w \in Workers : job[w].type \in UsageTypes \cup {"none"}
    /\ \A w \in Workers : seen[w].row \in BalanceRow
    /\ done \in [UsageTypes -> Nat]
    /\ refused \in [UsageTypes -> Nat]
    /\ overlapped \in BOOLEAN
    /\ slid \subseteq Workers
    /\ jobs \in 0..MaxJobs
    /\ allocations \in 0..MaxAllocations

\* What went uncharged into the present day, and into the month.
DailyLimitHolds ==
    \A t \in UsageTypes :
        UnitsAt(free[t], {i \in DOMAIN free[t] : Day(free[t][i].date) = Day(clock)})
            <= DailyLimit[t]

MonthlyLimitHolds == \A t \in UsageTypes : TypesUnits(free[t]) <= MonthlyLimit[t]

\* "Record usage and deduct credits if over the plan limits": what callers that
\* never overlap put into a day without a charge stays within the plan's daily
\* limit, and within its monthly limit where the monthly total starts with an
\* allocation made when the month began.  A caller that was told it may go ahead
\* is over no limit when it records, so it pays no credits and is not refused,
\* unless, without an allocation, midnight has moved the month's start back.
LimitsHoldOneByOne ==
    ~overlapped =>
        /\ DailyLimitHolds
        /\ lastAllocation = 0 => MonthlyLimitHolds
        /\ \A w \in Workers \ slid : pc[w] = "commit" => Fits(w)

\* Work that was done is on record once its caller has finished, unless callers
\* overlapped or the recording was refused: no day's record loses an earlier use.
WorkIsRecorded ==
    ~overlapped /\ (\A w \in Workers : pc[w] = "idle") =>
        \A t \in UsageTypes : TypesUnits(records[t]) + refused[t] = done[t]

\* However callers overlap, and across midnight, a customer's records never show
\* more units than were done for them.
NeverOvercounted ==
    \A t \in UsageTypes : TypesUnits(records[t]) <= done[t]
====
