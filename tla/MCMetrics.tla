------------------------------ MODULE MCMetrics ------------------------------
(* The instance of InverterMetrics for TLC: December to March, starting in *)
(* the last hour of January 31 and in the first of February 1.             *)
EXTENDS MetricsProperties, TLC

\* Inverters and slots are only compared for equality.
Symmetry == Permutations(Inverters) \cup Permutations(Slots)

FourMonths == <<31, 31, 28, 31>>
StartTimes == {Midnight(61) + 23, Midnight(62)}
HourDayWeek == {1, 24, 168}
NoneOrFiveDays == {0, 5 * HoursPerDay}
============================================================================
