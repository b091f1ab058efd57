------------------------- MODULE MetricsProperties -------------------------
(***************************************************************************)
(* What the dashboard and the chart of an inverter must show, whenever     *)
(* they are asked for and whatever is inserted in the meantime.            *)
(***************************************************************************)
EXTENDS InverterMetrics

(* The sums of a reference definition: every row inserted for the inverter *)
(* up to a moment, taken by calendar day or month, as if none was deleted. *)
ReferenceSum(i, at, SamePeriod(_, _)) ==
    Total({k \in DOMAIN rows : /\ rows[k].inverter = i /\ rows[k].created <= at
                               /\ SamePeriod(rows[k].created, at)})
SameDay(t, u) == DayOf(t) = DayOf(u)
SameMonth(t, u) == MonthOf(t) = MonthOf(u)

RemovedWithin(i, from, to) ==
    ~Present(i) /\ from <= removedAt[i] /\ removedAt[i] <= to
RemovedBefore(i, at) == ~Present(i) /\ removedAt[i] < at

(* A sum that was read at some moment: no row of the period is missed at   *)
(* its first hour, none of the period before counts, and none of a removed *)
(* inverter does.  A row inserted, or the inverter removed, in the very    *)
(* hour of the read may or may not show.                                   *)
FollowsCalendar(sum, i, at, SamePeriod(_, _)) ==
    /\ sum <= ReferenceSum(i, at, SamePeriod)
    /\ SamePeriod(at - 1, at) /\ (Present(i) \/ at < removedAt[i])
         => sum >= ReferenceSum(i, at - 1, SamePeriod)
    /\ RemovedBefore(i, at) => sum = 0

(* "Saved today" and "saved this month" are the sums over the calendar day *)
(* and the calendar month of the moment each was read at, whatever was     *)
(* inserted or removed before, between and after the reads.                *)
SumsFollowCalendar ==
    \A s \in Slots :
        LET d == dash[s]
        IN /\ d.pc \in {"month", "answered"}
                => FollowsCalendar(d.savedToday, d.inverter, d.todayReadAt, SameDay)
           /\ d.pc = "answered"
                => FollowsCalendar(d.savedMonth, d.inverter, d.monthReadAt, SameMonth)

(* A dashboard shows at least as much saved this month as saved today,     *)
(* although rows come in and midnight may pass between the two reads.  Two *)
(* things between them make the month the smaller one: the turn of the     *)
(* month, and the removal of the inverter's owner, which takes the rows.   *)
MonthIncludesToday ==
    \A s \in Slots :
        LET d == dash[s]
        IN d.pc = "answered" =>
             \/ d.savedToday <= d.savedMonth
             \/ ~SameMonth(d.todayReadAt, d.monthReadAt)
             \/ RemovedWithin(d.inverter, d.todayReadAt, d.monthReadAt)

(* Whoever asks for a dashboard is not told of an earlier update than the  *)
(* dashboards asked for before name, their own and those of others, be     *)
(* they answered or in flight, although rows arrive out of the order they  *)
(* were measured in: as long as the inverter is there.  (Of overlapping    *)
(* requests the one that was asked first may be answered last.)            *)
LastUpdatedMonotone ==
    [][\A s, t \in Slots :
         LET asked == dash'[s]
             before == dash[t]
         IN /\ asked.pc = "today" /\ ~At(s, "today") /\ Present(asked.inverter)
            /\ before.pc # "idle" /\ before.inverter = asked.inverter
            /\ before.lastUpdated # None
            => asked.lastUpdated # None /\ asked.lastUpdated >= before.lastUpdated]_vars

(* The chart loses no row and counts none twice: its groups add up to the  *)
(* rows of the window, however these fall on the days of the week.         *)
ChartConserves ==
    \A i \in Inverters, period \in Periods :
        LET chart == EnergyUsage(i, period)
            Bar(day) == IF day \in DOMAIN chart THEN chart[day] ELSE 0
        IN Bar(0) + Bar(1) + Bar(2) + Bar(3) + Bar(4) + Bar(5) + Bar(6)
             = Total(Selected(i, period))

Nested(t) ==
    /\ GetStartDate("monthly", t) <= GetStartDate("weekly", t)
    /\ GetStartDate("weekly", t) < GetStartDate("daily", t)
    /\ GetStartDate("daily", t) < GetStartDate("hourly", t)
    /\ \E m \in Months : t - GetStartDate("monthly", t) = Midnight(MonthLengths[m])
UnnestedMoments == {t \in Clock : ~Nested(t)}

(* From now on, whenever it is asked for, each period reaches further back *)
(* than the shorter one, at the turn of the month and on the 29th to 31st  *)
(* too, when setMonth overflows; a monthly one reaches back by the length  *)
(* of some month.                                                          *)
PeriodsNested == \A t \in UnnestedMoments : t < now

(* "Group by day" (inverters-metrics.service.ts): the rows of a group were *)
(* measured on the same calendar day.                                      *)
OneDayPerGroup(period) ==
    \A i \in Inverters :
        \A k, l \in Selected(i, period) :
            WeekdayOf(rows[k].measured) = WeekdayOf(rows[l].measured)
              => DayOf(rows[k].measured) = DayOf(rows[l].measured)

(* In the hourly and the daily chart no two days share a group, as long as *)
(* rows are inserted within five days of being measured.                   *)
ShortChartsGroupByDay == OneDayPerGroup("hourly") /\ OneDayPerGroup("daily")

(* In no chart do two days share a group.                                  *)
ChartsGroupByDay == \A period \in Periods : OneDayPerGroup(period)

============================================================================
