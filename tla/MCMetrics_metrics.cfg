SPECIFICATION Spec
CONSTANTS
    Inverters = {i1, i2}
    Slots = {s1, s2}
    Amounts = {1}
    MonthLengths <- FourMonths
    Starts <- StartTimes
    Jumps <- HourDayWeek
    Lags <- NoneOrFiveDays
    MaxTicks = 1
    MaxRows = 2
    None = None
SYMMETRY Symmetry
CHECK_DEADLOCK FALSE
INVARIANTS
    SumsFollowCalendar
    MonthIncludesToday
    ChartConserves
    PeriodsNested
    ShortChartsGroupByDay
PROPERTIES
    LastUpdatedMonotone
