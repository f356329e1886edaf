\* A period from Thursday to Sunday.
CONSTANTS
    FirstWeekday = 4
    LastDay = 3
    Punches <- MCPunches
    Leaves <- MCLeaves
    Holidays <- MCHolidays
SPECIFICATION Spec
INVARIANTS TypeOK SummaryMatchesCalendar LeaveExcuses StateFollowsMinutes HoursAreWorked
\* The computation ends.
CHECK_DEADLOCK FALSE
