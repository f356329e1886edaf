\* A leave that starts on a Monday.
CONSTANTS
    Starts <- MCStarts
    LastDay = 40
    MonthStarts <- MCMonthStarts
    HolidayDays <- MCHolidayDays
SPECIFICATION Spec
INVARIANT MondayCountedOnce
\* The count ends with the loop.
CHECK_DEADLOCK FALSE
