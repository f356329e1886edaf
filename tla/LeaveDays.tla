------------------------------- MODULE LeaveDays -------------------------------
(***************************************************************************)
(* How many days a leave request costs: LeaveRequest.populateDays, one     *)
(* action per turn of its loop over the days from start date (inclusive)   *)
(* to end date (exclusive).  LeaveRequests uses the result as DaysOf.      *)
(*                                                                         *)
(* Days are numbered so that 0 is a Sunday, and a calendar month begins on *)
(* each day of MonthStarts.                                                *)
(***************************************************************************)
EXTENDS Integers, FiniteSets

CONSTANTS
    Starts,         \* start dates looked at
    LastDay,        \* bound on the days the loop may reach
    MonthStarts,    \* the first day of each month
    HolidayDays     \* days that may be in table yearly_calendar

ASSUME DaysAssumption ==
    /\ LastDay \in Nat
    /\ Starts \subseteq 0 .. LastDay
    /\ MonthStarts \subseteq Nat /\ 0 \in MonthStarts
    /\ HolidayDays \subseteq 0 .. LastDay

VARIABLES
    from, to,           \* m_startDate and m_endDate
    holidays,           \* holidayList
    sandwich,           \* isSandwich of the leave policy
    day,                \* the cursor of the loop
    days,               \* m_days
    isWeekend, isFriday, isMonday,
    weekendHolidays     \* leavesOnSatOrSun

input == <<from, to, holidays, sandwich>>
vars == <<from, to, holidays, sandwich, day, days, isWeekend, isFriday,
          isMonday, weekendHolidays>>

-----------------------------------------------------------------------------
(* java.util.Calendar, weeks beginning on Sunday.                          *)

Weekday(n) == n % 7
Sunday == 0
Monday == 1
Friday == 5
Saturday == 6

FirstOfMonth(n) ==
    CHOOSE m \in MonthStarts : m <= n /\ \A k \in MonthStarts : k <= n => k <= m

\* Mutant: weeks begin with the first of the month.
WeekOfMonthFromFirst(n) == (n - FirstOfMonth(n)) \div 7 + 1

\* DateUtility.getWeekOfMonth: the week that holds the first is week 1.
WeekOfMonth(n) == (n - FirstOfMonth(n) + Weekday(FirstOfMonth(n))) \div 7 + 1

-----------------------------------------------------------------------------
TypeOK ==
    /\ from \in Starts /\ to \in 0 .. LastDay
    /\ holidays \subseteq HolidayDays /\ sandwich \in BOOLEAN
    /\ day \in 0 .. LastDay + 1
    /\ days \in Int /\ weekendHolidays \in Nat
    /\ isWeekend \in BOOLEAN /\ isFriday \in BOOLEAN /\ isMonday \in BOOLEAN

Init ==
    /\ from \in Starts /\ to \in 0 .. LastDay
    /\ holidays \in SUBSET HolidayDays
    /\ sandwich \in BOOLEAN
    /\ day = from /\ days = 0 /\ weekendHolidays = 0
    /\ isWeekend = FALSE /\ isFriday = FALSE /\ isMonday = FALSE

\* Mutant: a working day does not clear the weekend flag.
WeekendFlagSticky == Weekday(day) \in {Saturday, Sunday} \/ isWeekend

\* The flags after the switch: Saturday and Sunday set isWeekend, Friday and
\* Monday each set their own flag and leave the others, the rest clear all.
WeekendFlag ==
    \/ Weekday(day) \in {Saturday, Sunday}
    \/ Weekday(day) \in {Friday, Monday} /\ isWeekend

DayFlag(flag, weekday) ==
    \/ Weekday(day) = weekday
    \/ Weekday(day) \in {Sunday, Monday, Friday, Saturday} /\ flag

\* Weekends inside a leave count only when it starts and ends in weeks of
\* the month with different numbers.
Bridging == sandwich /\ WeekOfMonth(from) # WeekOfMonth(to)

\* Mutant: every day of a bridged weekend adds the whole weekend.
BridgesEveryDay == Bridging /\ WeekendFlag /\ DayFlag(isFriday, Friday)

\* This turn adds a weekend: the Monday after it, in a leave that held the
\* Friday before it.
Bridges ==
    Bridging /\ WeekendFlag /\ DayFlag(isFriday, Friday) /\ DayFlag(isMonday, Monday)

One(b) == IF b THEN 1 ELSE 0

\* Mutant: the loop goes from Friday to Monday.
NextDaySkipsWeekend == IF Weekday(day) = Friday THEN day + 3 ELSE day + 1

NextDay == day + 1

\* One turn of the loop.  The cursor never stops at a bound in the code.
CountDay ==
    LET workday == day \notin holidays
    IN  /\ day # to
        /\ day <= LastDay
        /\ isWeekend' = WeekendFlag
        /\ isFriday' = DayFlag(isFriday, Friday)
        /\ isMonday' = DayFlag(isMonday, Monday)
        /\ days' = days + One(~ WeekendFlag /\ workday)
                        + (IF Bridges THEN 2 - weekendHolidays ELSE 0)
                        + One(DayFlag(isMonday, Monday) /\ workday)
        /\ weekendHolidays' = weekendHolidays
               + One(Bridging /\ WeekendFlag /\ ~ Bridges /\ ~ workday)
        /\ day' = NextDay
        /\ UNCHANGED input

Spec == Init /\ [][CountDay]_vars /\ WF_vars(CountDay)

-----------------------------------------------------------------------------
(* The days of a leave, without the loop.                                  *)

Workdays(a, b) ==
    {n \in a .. b - 1 : Weekday(n) \notin {Saturday, Sunday} /\ n \notin holidays}

\* A leave that starts on a working Monday.  What the loop makes of it contradicts
\* its comment (MondayCountedOnce below), so nothing else is claimed of it.
MondayStart == Weekday(from) = Monday /\ from \notin holidays

\* Without bridging the loop, whatever its flags do, counts the working days
\* that are no holidays, each once.
CountsWorkdays ==
    ~ Bridging /\ ~ MondayStart => days = Cardinality(Workdays(from, day))

\* The weekends between a Friday and a Monday of the leave counted so far, by
\* their Mondays, and the days of these weekends.
WeekendsInside == {m \in from + 3 .. day - 1 : Weekday(m) = Monday}
BridgedDays ==
    {n \in from .. day - 1 : n + 1 \in WeekendsInside \/ n + 2 \in WeekendsInside}

\* The holidays the loop has put into leavesOnSatOrSun: those on a weekend, and
\* on a Monday right after a weekend with which the leave starts.
WeekendHolidays ==
    {n \in holidays \cap (from .. day - 1) :
        \/ Weekday(n) \in {Saturday, Sunday}
        \/ Weekday(n) = Monday /\ from < n /\ n < from + 3}

\* One of them was followed by the bridged weekend of a later week, from which
\* it is taken off too, as the loop never resets leavesOnSatOrSun.
Carried == \E n \in WeekendHolidays, m \in WeekendsInside : n < m - 2

\* What the policy asks for: the working days and the days of the weekends
\* inside, without the holidays.
BridgedCost ==
    Cardinality(Workdays(from, day)) + Cardinality(BridgedDays \ holidays)

\* With bridging the loop counts that, unless it carries a weekend holiday over.
CountsBridgedWeekends ==
    Bridging /\ ~ MondayStart /\ ~ Carried => days = BridgedCost

\* Where the policy bridges weekends, comparing week numbers loses none of them
\* in a leave that stays within one month.
WithinMonthBridged ==
    /\ sandwich /\ from <= to /\ FirstOfMonth(from) = FirstOfMonth(to)
    /\ ~ MondayStart /\ ~ Carried
    => days = BridgedCost

\* The loop ends exactly when the leave does not end before it starts: an end
\* date before the start date keeps the server thread in it.
EndsIffOrdered ==
    /\ from <= to => <>(day = to)
    /\ from > to => [](day # to)

-----------------------------------------------------------------------------
(* A statement of the code that the loop does not keep.                    *)

\* "adding for monday explicitly as for monday isWeekend!=false": a Monday is
\* added there because the branch for working days leaves it out, not twice.
MondayCountedOnce ==
    day = to /\ ~ Bridging => days = Cardinality(Workdays(from, to))

=============================================================================
