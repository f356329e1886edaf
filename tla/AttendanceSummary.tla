--------------------------- MODULE AttendanceSummary ---------------------------
(***************************************************************************)
(* The attendance of one user over a period, as the summary and calendar   *)
(* pages show it (AttendanceDTO): first the leave requests are flattened   *)
(* to one status per day, in the order the database returns them, then     *)
(* the days are classified one after another.                              *)
(*                                                                         *)
(* A user without a punch in the period is in neither page; the days here  *)
(* are those of a user with one.                                           *)
(***************************************************************************)
EXTENDS Integers, FiniteSets

CONSTANTS
    FirstWeekday,   \* weekday of day 0: 0 is Sunday
    LastDay,        \* the period is 0 .. LastDay, both included
    Punches,        \* what a day may hold: the number of entries and the
                    \* minutes between the first and the last one
    Leaves,         \* leave requests that may be stored for the user
    Holidays        \* holidays that may be in the calendar

Days == 0 .. LastDay

ASSUME SummaryAssumption ==
    /\ FirstWeekday \in 0 .. 6
    /\ LastDay \in Nat
    /\ Punches \subseteq [entries : Nat, minutes : Nat]
    /\ Leaves \subseteq [from : Int, to : Int,
                         status : {"PENDING", "APPROVED", "DECLINED"}]
    /\ Holidays \subseteq [from : Int, to : Int]

VARIABLES
    punches,        \* the records of each day
    holidays,       \* the fetched holidays
    pending,        \* fetched leave requests that are not flattened yet
    leaves,         \* the fetched leave requests
    leaveOn,        \* the innerMap: day -> status, "NONE" if not in the map
    day,            \* the cursor of doPostProcessingOnData
    state,          \* the date map: what the calendar shows for each day
    numPresent, numHalfDays, numAbsent, approved,
    numHours, totalMins,
    done            \* the left over minutes have been added up

counters == <<numPresent, numHalfDays, numAbsent, approved>>
times == <<numHours, totalMins>>
input == <<punches, holidays, leaves>>
vars == <<input, pending, leaveOn, day, state, counters, times, done>>

AttendanceEnum == {"PRESENT", "ABSENT", "HALFDAY", "APPROVED"}

TypeOK ==
    /\ punches \in [Days -> Punches]
    /\ holidays \subseteq Holidays
    /\ leaves \subseteq Leaves /\ pending \subseteq leaves
    /\ leaveOn \in [Days -> {"NONE", "PENDING", "APPROVED", "DECLINED"}]
    /\ day \in 0 .. LastDay + 1
    /\ state \in [Days -> AttendanceEnum \cup {"NONE"}]
    /\ numPresent \in Nat /\ numHalfDays \in Nat
    /\ numAbsent \in Nat /\ approved \in Nat
    /\ numHours \in Nat /\ totalMins \in Nat
    /\ done \in BOOLEAN

\* Both queries ask for rows that start within the period.
Fetched(rows) == {r \in rows : r.from \in Days}

\* From its first day up to, not including, its last one.
Covers(r, d) == r.from <= d /\ d < r.to

Init ==
    /\ punches \in [Days -> Punches]
    /\ \E d \in Days : punches[d].entries > 0
    /\ holidays \in SUBSET Fetched(Holidays)
    /\ leaves \in SUBSET Fetched(Leaves)
    /\ pending = leaves
    /\ leaveOn = [d \in Days |-> "NONE"]
    /\ day = 0
    /\ state = [d \in Days |-> IF punches[d].entries > 0 THEN "ABSENT" ELSE "NONE"]
    /\ numPresent = 0 /\ numHalfDays = 0 /\ numAbsent = 0 /\ approved = 0
    /\ numHours = 0 /\ totalMins = 0
    /\ done = FALSE

-----------------------------------------------------------------------------
(* The leave requests.                                                     *)

\* Mutant: the last request that covers a day gives its status.
FlattenedLast(r) ==
    [d \in Days |-> IF Covers(r, d) THEN r.status ELSE leaveOn[d]]

\* An approval is not replaced by another request.
Flattened(r) ==
    [d \in Days |-> IF Covers(r, d) /\ leaveOn[d] # "APPROVED"
                      THEN r.status ELSE leaveOn[d]]

FlattenLeave(r) ==
    /\ r \in pending
    /\ pending' = pending \ {r}
    /\ leaveOn' = Flattened(r)
    /\ UNCHANGED <<input, day, state, counters, times, done>>

-----------------------------------------------------------------------------
(* The days.                                                               *)

Weekend(d) == (FirstWeekday + d) % 7 \in {0, 6}
Holiday(d) == \E h \in holidays : Covers(h, d)

MIN_HOURS == 8
MIN_HOURS_HALF_DAY == 4

Hours(d) == punches[d].minutes \div 60
Mins(d) == punches[d].minutes % 60

\* Mutant: the quarter of grace is given on the minutes of the hour alone.
ReachesInHour(h, d) == Hours(d) >= h \/ (Hours(d) = h - 1 /\ Mins(d) > 45)

\* At least h hours, or up to a quarter of an hour less.
Reaches(h, d) == Hours(d) >= h \/ h * 60 - (Hours(d) * 60 + Mins(d)) <= 15

\* The loop has reached day d, after all requests were flattened.
At(d) == day = d /\ pending = {}

\* Mutant: the loop jumps over the weekend.
SkipToMonday(d) ==
    /\ At(d) /\ Weekend(d) /\ punches[d].entries = 0
    /\ day' = day + 2
    /\ UNCHANGED <<input, pending, leaveOn, state, counters, times, done>>

\* Nobody needs to come on a Saturday or Sunday.
SkipWeekend(d) ==
    /\ At(d) /\ Weekend(d) /\ punches[d].entries = 0
    /\ day' = day + 1
    /\ UNCHANGED <<input, pending, leaveOn, state, counters, times, done>>

\* Mutant: a holiday within a leave uses up the leave.
CountExcusedOnHoliday(d) ==
    approved' = IF leaveOn[d] = "APPROVED" THEN approved + 1 ELSE approved

\* A holiday is no approved leave, even within one.
CountExcused(d) == approved' = IF Holiday(d) THEN approved ELSE approved + 1

\* With fewer than two entries only a leave or a holiday excuses a day.
CountUnworked(d) ==
    /\ At(d) /\ punches[d].entries < 2
    /\ ~ (Weekend(d) /\ punches[d].entries = 0)
    /\ IF leaveOn[d] = "APPROVED" \/ Holiday(d)
         THEN /\ CountExcused(d)
              /\ state' = [state EXCEPT ![d] = "APPROVED"]
              /\ UNCHANGED numAbsent
         ELSE /\ numAbsent' = numAbsent + 1
              /\ state' = [state EXCEPT ![d] = "ABSENT"]
              /\ UNCHANGED approved
    /\ day' = day + 1
    /\ UNCHANGED <<input, pending, leaveOn, numPresent, numHalfDays, times, done>>

\* With two entries the time between them decides, on any day.
CountWorked(d) ==
    /\ At(d) /\ punches[d].entries >= 2
    /\ numHours' = numHours + Hours(d)
    /\ totalMins' = totalMins + Mins(d)
    /\ \/ /\ Reaches(MIN_HOURS, d)
          /\ numPresent' = numPresent + 1
          /\ state' = [state EXCEPT ![d] = "PRESENT"]
          /\ UNCHANGED <<numHalfDays, numAbsent>>
       \/ /\ ~ Reaches(MIN_HOURS, d) /\ Reaches(MIN_HOURS_HALF_DAY, d)
          /\ numHalfDays' = numHalfDays + 1
          /\ state' = [state EXCEPT ![d] = "HALFDAY"]
          /\ UNCHANGED <<numPresent, numAbsent>>
       \/ /\ ~ Reaches(MIN_HOURS_HALF_DAY, d)
          /\ numAbsent' = numAbsent + 1
          /\ state' = [state EXCEPT ![d] = "ABSENT"]
          /\ UNCHANGED <<numPresent, numHalfDays>>
    /\ day' = day + 1
    /\ UNCHANGED <<input, pending, leaveOn, approved, done>>

\* Mutant: the left over minutes are forgotten.
ForgetMinutes == numHours

\* The hours once the minutes of all days are added.
AddedUp == numHours + totalMins \div 60

AddMinutes ==
    /\ day = LastDay + 1 /\ ~ done
    /\ numHours' = AddedUp
    /\ done' = TRUE
    /\ UNCHANGED <<input, pending, leaveOn, day, state, counters, totalMins>>

-----------------------------------------------------------------------------
Next ==
    \/ \E r \in pending : FlattenLeave(r)
    \/ \E d \in Days : SkipWeekend(d) \/ CountUnworked(d) \/ CountWorked(d)
    \/ AddMinutes

Spec == Init /\ [][Next]_vars

-----------------------------------------------------------------------------
\* The days already counted that the calendar shows in state s.
Shown(s) == {d \in 0 .. day - 1 : state[d] = s}

\* The numbers of the summary page are those of the calendar page, and a
\* holiday is counted nowhere unless it was worked on.
SummaryMatchesCalendar ==
    /\ numPresent = Cardinality(Shown("PRESENT"))
    /\ numHalfDays = Cardinality(Shown("HALFDAY"))
    /\ numAbsent = Cardinality(Shown("ABSENT"))
    /\ approved = Cardinality({d \in Shown("APPROVED") : ~ Holiday(d)})

\* Whatever the order of overlapping requests, a day without work is excused
\* exactly when one of them is approved or the day is a holiday.
LeaveExcuses ==
    \A d \in 0 .. day - 1 :
        punches[d].entries < 2 /\ ~ (Weekend(d) /\ punches[d].entries = 0)
          => state[d] = IF \/ \E r \in leaves : r.status = "APPROVED" /\ Covers(r, d)
                           \/ Holiday(d)
                          THEN "APPROVED" ELSE "ABSENT"

\* The state of a worked day by its minutes alone: hours and minutes taken
\* apart decide the same.
StateFollowsMinutes ==
    \A d \in 0 .. day - 1 :
        LET m == punches[d].minutes
        IN  punches[d].entries >= 2
              => state[d] = IF m >= 465 THEN "PRESENT"
                            ELSE IF m >= 225 THEN "HALFDAY" ELSE "ABSENT"

\* Minutes worked on the days before d.
Worked[d \in 0 .. LastDay + 1] ==
    IF d = 0 THEN 0
    ELSE Worked[d - 1] + IF punches[d - 1].entries >= 2
                           THEN punches[d - 1].minutes ELSE 0

\* In the end the hours are those of all minutes worked, none is lost to
\* rounding on the way.
HoursAreWorked == done => numHours = Worked[LastDay + 1] \div 60

=============================================================================
