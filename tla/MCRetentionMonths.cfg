CONSTANTS
    timer = timer
    Operators = {timer}
    Slots = 1
    MonthStarts <- ThreeMonths
    WeekShift = 1
    RunDays = {58, 86, 89}
    Daily = 2
    Weekly = 1
    Monthly = 2
    MaxArchives = 2
SPECIFICATION RetentionSpec
CHECK_DEADLOCK FALSE
INVARIANTS MonthsStay
