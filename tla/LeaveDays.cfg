\* Leaves of up to six weeks, holidays on Mondays, a Friday and a weekend.
CONSTANTS
    Starts <- MCStarts
    LastDay = 40
    MonthStarts <- MCMonthStarts
    HolidayDays <- MCHolidayDays
SPECIFICATION Spec
INVARIANTS TypeOK CountsWorkdays CountsBridgedWeekends WithinMonthBridged
PROPERTY EndsIffOrdered
\* The count ends with the loop.
CHECK_DEADLOCK FALSE
