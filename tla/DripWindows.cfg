SPECIFICATION WindowsSpec
CONSTANTS
    DayHours = 4
    WeekDays = 3
    CycleDays = 8
    MonthStarts <- Months
    SimPeriod = 3
    ZoneChanges <- Changes
    Starts <- Origins
    Slices <- Ends
CHECK_DEADLOCK FALSE
INVARIANTS WindowsCoverRun RangeReproducesWindow
