SPECIFICATION Spec
CONSTANTS
    Inverters = {i1, i2}
    Slots = {s1}
    Amounts = {1}
    MonthLengths <- FourMonths
    Starts <- StartTimes
    Jumps <- HourDayWeek
    Lags <- NoneOrFiveDays
    MaxTicks = 3
    MaxRows = 2
    None = None
SYMMETRY Symmetry
CHECK_DEADLOCK FALSE
INVARIANT
    ChartsGroupByDay
