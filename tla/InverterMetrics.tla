--------------------------- MODULE InverterMetrics ---------------------------
(***************************************************************************)
(* InvertersMetricsService: the dashboard and the energy usage chart of an *)
(* inverter, read while rows are inserted and inverters removed, by any    *)
(* number of requests at once.  Time is counted in hours over a calendar   *)
(* of months, as the local time of the server shows it (without daylight   *)
(* saving).                                                                *)
(*                                                                         *)
(* amount stands for the columns that are summed (naira_saved_ngn,         *)
(* solar_gen_kw and load_kw): each sum takes one of them.  The columns     *)
(* that are only copied into the response go with the latest row.          *)
(***************************************************************************)
EXTENDS Integers, Sequences

CONSTANTS
    Inverters,     \* primary keys of inverters; one is never generated twice
    Slots,         \* dashboards that may be asked for at the same time
    Amounts,       \* values of a summed column, natural numbers
    MonthLengths,  \* days of each month; the clock starts in the second
    Starts,        \* moments at which the clock may start
    Jumps,         \* hours that may pass at once
    Lags,          \* hours between measuring and inserting a row
    MaxTicks,      \* bound: how often time passes
    MaxRows,       \* bound: rows of the table
    None           \* null

(* reduce((sum, metric) => sum + ..., 0), with the sums on the way.        *)
AddAmount(sum, amount) == sum + amount
Sums(amounts) ==
    LET sum[k \in 0..Len(amounts)] ==
          IF k = 0 THEN 0 ELSE AddAmount(sum[k - 1], amounts[k])
    IN sum
SumOf(amounts) == Sums(amounts)[Len(amounts)]

HoursPerDay == 24
Months == DOMAIN MonthLengths

\* Days, from 0, and their months.
FirstDay(m) == Sums(MonthLengths)[m - 1]
DayOf(t) == t \div HoursPerDay
Midnight(day) == day * HoursPerDay
MonthOf(t) ==
    CHOOSE m \in Months : FirstDay(m) <= DayOf(t) /\ DayOf(t) < FirstDay(m + 1)
HourOf(t) == t % HoursPerDay
WeekdayOf(t) == DayOf(t) % 7

\* The first month is there to be looked back at.
Clock == Midnight(FirstDay(2))..(Midnight(SumOf(MonthLengths)) - 1)

ASSUME CalendarAssumption == MonthLengths \in Seq(28..31) /\ Len(MonthLengths) >= 2
ASSUME RowsAssumption == Amounts \subseteq Nat /\ Lags \subseteq Nat
ASSUME TimeAssumption == Starts \subseteq Clock /\ Jumps \subseteq Nat
ASSUME BoundsAssumption == MaxTicks \in Nat /\ MaxRows \in Nat
ASSUME NoneAssumption == None \notin Int

VARIABLES
    now,        \* the clock
    ticks,      \* how often it has moved
    rows,       \* every row ever inserted, in the order of created_at
    removedAt,  \* removedAt[i]: when inverter i was deleted
    dash        \* dash[s]: the request in slot s, or its answer

vars == <<now, ticks, rows, removedAt, dash>>

Present(i) == removedAt[i] = None

(* The rows of an inverter, by their positions.  The foreign key keeps     *)
(* them in inverter_metrics for as long as the inverter is there.          *)
Own(i) == {k \in DOMAIN rows : rows[k].inverter = i /\ Present(i)}

(* find({ where: { inverterId, createdAt: Between(from, to) } })           *)
Between(i, from, to) ==
    {k \in Own(i) : from <= rows[k].created /\ rows[k].created <= to}

Total(selected) ==
    SumOf([k \in DOMAIN rows |-> IF k \in selected THEN rows[k].amount ELSE 0])

----------------------------------------------------------------------------
(* Rows come from outside of the repository, created when inserted and     *)
(* measured no later, for an inverter that is there.                       *)
Metric(i, created, measured, amount) ==
    [inverter |-> i, created |-> created, measured |-> measured,
     amount |-> amount]

Ingest(i, amount, lag) ==
    /\ Len(rows) < MaxRows
    /\ Present(i)
    /\ rows' = Append(rows, Metric(i, now, now - lag, amount))
    /\ UNCHANGED <<now, ticks, removedAt, dash>>

(* The removal of a user deletes its inverters and their rows at once, by  *)
(* ON DELETE CASCADE.                                                      *)
RemoveOwner(owned) ==
    /\ \A i \in owned : Present(i)
    /\ removedAt' = [i \in Inverters |-> IF i \in owned THEN now ELSE removedAt[i]]
    /\ UNCHANGED <<now, ticks, rows, dash>>

Tick(hours) ==
    /\ ticks < MaxTicks
    /\ now + hours \in Clock
    /\ ticks' = ticks + 1
    /\ now' = now + hours
    /\ UNCHANGED <<rows, removedAt, dash>>

----------------------------------------------------------------------------
(* getDashboardMetrics: three awaited reads, each at its own moment.  The  *)
(* answer stays in its slot until the next request takes it.               *)

NoRequest == [pc |-> "idle"]
At(s, pc) == dash[s].pc = pc
Become(s, r) == dash' = [dash EXCEPT ![s] = r]

\* Slip: the row inserted last is taken.
LatestInserted(i) ==
    IF Own(i) = {} THEN None
    ELSE rows[CHOOSE k \in Own(i) : \A l \in Own(i) : l <= k].measured
\* findOne ordered by metricTimestamp DESC
Latest(i) ==
    LET measured == {rows[k].measured : k \in Own(i)}
    IN IF measured = {} THEN None
       ELSE CHOOSE t \in measured : \A u \in measured : u <= t

(* No request is refused: the id may be that of a removed inverter.        *)
ReadLatest(s, i) ==
    /\ At(s, "idle") \/ At(s, "answered")
    /\ Become(s, [pc |-> "today", inverter |-> i, lastUpdated |-> Latest(i)])
    /\ UNCHANGED <<now, ticks, rows, removedAt>>

\* Slip: the last 24 hours instead of today.
TodayStartRolling == now - HoursPerDay
TodayStart == Midnight(DayOf(now))

(* The times of the two reads are history, the response does not have them.*)
ReadToday(s) ==
    /\ At(s, "today")
    /\ LET i == dash[s].inverter
       IN Become(s, [pc |-> "month", inverter |-> i,
                     lastUpdated |-> dash[s].lastUpdated,
                     savedToday  |-> Total(Between(i, TodayStart, now)),
                     todayReadAt |-> now])
    /\ UNCHANGED <<now, ticks, rows, removedAt>>

\* Slip: setDate(1) without setHours, the hours before now's are missing.
MonthStartSameHour == Midnight(FirstDay(MonthOf(now))) + HourOf(now)
MonthStart == Midnight(FirstDay(MonthOf(now)))

ReadMonth(s) ==
    /\ At(s, "month")
    /\ LET i == dash[s].inverter
       IN Become(s, [pc |-> "answered", inverter |-> i,
                     lastUpdated |-> dash[s].lastUpdated,
                     savedToday  |-> dash[s].savedToday,
                     todayReadAt |-> dash[s].todayReadAt,
                     savedMonth  |-> Total(Between(i, MonthStart, now)),
                     monthReadAt |-> now])
    /\ UNCHANGED <<now, ticks, rows, removedAt>>

(* A read is rejected: the request ends with an error.                     *)
DashboardFails(s) ==
    /\ At(s, "today") \/ At(s, "month")
    /\ Become(s, NoRequest)
    /\ UNCHANGED <<now, ticks, rows, removedAt>>

----------------------------------------------------------------------------
(* getEnergyUsage: one read, so a function of the state *)

Periods == {"hourly", "daily", "weekly", "monthly"}

(* setMonth(getMonth() - 1) keeps the day of the month; what exceeds the   *)
(* length of the previous month runs on into the current one.              *)
\* Slip: the month so far.
MonthBackToFirst(t) == Midnight(FirstDay(MonthOf(t)))
MonthBack(t) ==
    LET m == MonthOf(t)
        dayOfMonth == DayOf(t) - FirstDay(m)
    IN Midnight(FirstDay(m - 1) + dayOfMonth) + HourOf(t)

\* Slip: the break after "daily" is missing.
GetStartDateNoBreak(period, t) ==
    CASE period = "hourly"  -> t - 1
      [] period = "daily"   -> t - 8 * HoursPerDay
      [] period = "weekly"  -> t - 7 * HoursPerDay
      [] period = "monthly" -> MonthBack(t)
GetStartDate(period, t) ==
    CASE period = "hourly"  -> t - 1
      [] period = "daily"   -> t - HoursPerDay
      [] period = "weekly"  -> t - 7 * HoursPerDay
      [] period = "monthly" -> MonthBack(t)

(* grouped.set(day, ...): the row is added to the group of the weekday it  *)
(* was measured on.  Slip: it replaces what the group has.                 *)
AddReadingOver(grouped, row) ==
    [day \in DOMAIN grouped \cup {WeekdayOf(row.measured)} |->
       IF day = WeekdayOf(row.measured) THEN row.amount ELSE grouped[day]]
AddReading(grouped, row) ==
    LET rowDay == WeekdayOf(row.measured)
        current == IF rowDay \in DOMAIN grouped THEN grouped[rowDay] ELSE 0
    IN [day \in DOMAIN grouped \cup {rowDay} |->
          IF day = rowDay THEN current + row.amount ELSE grouped[day]]

Selected(i, period) == Between(i, GetStartDate(period, now), now)
(* The loop over the selected rows, with the groups after each row of the  *)
(* table.                                                                  *)
Grouping(selected) ==
    LET grouped[k \in 0..Len(rows)] ==
          IF k = 0 THEN <<>>
          ELSE IF k \in selected THEN AddReading(grouped[k - 1], rows[k])
          ELSE grouped[k - 1]
    IN grouped
EnergyUsage(i, period) == Grouping(Selected(i, period))[Len(rows)]

----------------------------------------------------------------------------
Init ==
    /\ now \in Starts
    /\ ticks = 0
    /\ rows = <<>>
    /\ removedAt = [i \in Inverters |-> None]
    /\ dash = [s \in Slots |-> NoRequest]

Next ==
    \/ \E hours \in Jumps : Tick(hours)
    \/ \E i \in Inverters, amount \in Amounts, lag \in Lags : Ingest(i, amount, lag)
    \/ \E owned \in SUBSET Inverters \ {{}} : RemoveOwner(owned)
    \/ \E s \in Slots : \/ \E i \in Inverters : ReadLatest(s, i)
                        \/ ReadToday(s) \/ ReadMonth(s) \/ DashboardFails(s)

Spec == Init /\ [][Next]_vars

============================================================================
