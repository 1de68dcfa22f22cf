CONSTANTS
    DayHours = 5
    WeekDays = 2
    YearMonths = 2
    MonthDays <- MCMonthDays
    DstStart = 22
    DstEnd = 51
    None = None
SPECIFICATION Spec
INVARIANTS CalendarHolds StrategiesRemember
PROPERTIES DeadlinesKeepTheirWord ExecutorsKeepTrack PlansWithinMeans
CHECK_DEADLOCK FALSE
