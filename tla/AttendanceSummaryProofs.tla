----------------------- MODULE AttendanceSummaryProofs -----------------------
(***************************************************************************)
(* Theorems about AttendanceSummary, for a period of any length and any    *)
(* punches, leave requests and holidays.  The recursive sum of the minutes *)
(* worked is shown to be well defined first: the prover sees a recursive   *)
(* function as the choice of a fixed point, whose existence is a lemma.    *)
(***************************************************************************)
EXTENDS AttendanceSummary, FiniteSetTheorems, WellFoundedInduction, TLAPS

\* What the flattened requests say about a day does not depend on their order.
FlattenedRight ==
    \A d \in Days : leaveOn[d] = "APPROVED" <=>
        \E r \in leaves \ pending : r.status = "APPROVED" /\ Covers(r, d)

\* The loop has not touched the days before it.
Untouched ==
    \A d \in Days : d >= day =>
        state[d] = IF punches[d].entries > 0 THEN "ABSENT" ELSE "NONE"

IInv ==
    /\ TypeOK
    /\ pending # {} => day = 0
    /\ FlattenedRight /\ Untouched
    /\ SummaryMatchesCalendar /\ LeaveExcuses /\ StateFollowsMinutes

-----------------------------------------------------------------------------
(* Arithmetic of a worked day.                                             *)

LEMMA MinutesSplit ==
    ASSUME NEW m \in Nat
    PROVE  m \div 60 \in Nat /\ m % 60 \in Nat /\ (m \div 60) * 60 + (m % 60) = m
  OBVIOUS

LEMMA PunchTypes ==
    ASSUME TypeOK, NEW d \in Days
    PROVE  /\ punches[d].entries \in Nat /\ punches[d].minutes \in Nat
           /\ Hours(d) \in Nat /\ Mins(d) \in Nat
           /\ Hours(d) * 60 + Mins(d) = punches[d].minutes
  <1>1. punches[d].entries \in Nat /\ punches[d].minutes \in Nat
    BY SummaryAssumption DEF TypeOK
  <1> QED
    BY <1>1, MinutesSplit DEF Hours, Mins

\* Hours and minutes decide like the minutes alone.
LEMMA ReachesMinutes ==
    ASSUME TypeOK, NEW d \in Days
    PROVE  /\ Reaches(MIN_HOURS, d) <=> punches[d].minutes >= 465
           /\ Reaches(MIN_HOURS_HALF_DAY, d) <=> punches[d].minutes >= 225
  <1>1. /\ punches[d].minutes \in Nat /\ Hours(d) \in Nat /\ Mins(d) \in Nat
        /\ Hours(d) * 60 + Mins(d) = punches[d].minutes
    BY PunchTypes
  <1> QED
    BY <1>1 DEF Reaches, MIN_HOURS, MIN_HOURS_HALF_DAY

-----------------------------------------------------------------------------
(* Counting the days shown in a state.                                     *)

\* A set of days before the cursor grows by at most the day at the cursor.
LEMMA OneMoreDay ==
    ASSUME NEW n \in Nat, NEW S, NEW T, S \subseteq 0 .. n - 1,
           T = S \/ T = S \cup {n}
    PROVE  /\ Cardinality(S) \in Nat
           /\ Cardinality(T) = IF n \in T THEN Cardinality(S) + 1 ELSE Cardinality(S)
  <1>1. IsFiniteSet(S) /\ n \notin S
    <2>1. IsFiniteSet(0 .. n - 1)
      BY FS_Interval
    <2>2. n \notin 0 .. n - 1
      OBVIOUS
    <2> QED
      BY <2>1, <2>2, FS_Subset
  <1>2. Cardinality(S) \in Nat
    BY <1>1, FS_CardinalityType
  <1>3. Cardinality(S \cup {n}) = Cardinality(S) + 1
    BY <1>1, FS_AddElement
  <1> QED
    BY <1>1, <1>2, <1>3

\* What a turn of the loop leaves alone.
Turn(d) ==
    /\ d \in Days /\ day = d /\ day' = day + 1
    /\ UNCHANGED <<punches, holidays, leaves, pending, leaveOn>>
    /\ pending = {}
    /\ \E s \in AttendanceEnum \cup {"NONE"} : state' = [state EXCEPT ![d] = s]

LEMMA ShownGrows ==
    ASSUME TypeOK, NEW d, Turn(d), NEW s \in AttendanceEnum
    PROVE  /\ Cardinality(Shown(s)) \in Nat
           /\ Cardinality(Shown(s)') = IF state'[d] = s THEN Cardinality(Shown(s)) + 1
                                       ELSE Cardinality(Shown(s))
  <1>1. /\ d \in Nat /\ day = d /\ day' - 1 = d /\ d \in Days
        /\ \A e \in 0 .. d - 1 : state'[e] = state[e]
    BY SummaryAssumption DEF Turn, Days, TypeOK
  <1>2. Shown(s) \subseteq 0 .. d - 1
    BY <1>1 DEF Shown
  <1>3. /\ Shown(s)' = IF state'[d] = s THEN Shown(s) \cup {d} ELSE Shown(s)
        /\ d \notin Shown(s)
    <2>1. \A e : e \in 0 .. d <=> e \in 0 .. d - 1 \/ e = d
      BY <1>1
    <2> QED
      BY <1>1, <2>1 DEF Shown
  <1> QED
    BY <1>1, <1>2, <1>3, OneMoreDay

LEMMA ExcusedGrows ==
    ASSUME TypeOK, NEW d, Turn(d)
    PROVE  LET S == {e \in Shown("APPROVED") : ~ Holiday(e)}
           IN  /\ Cardinality(S) \in Nat
               /\ Cardinality(S') = IF state'[d] = "APPROVED" /\ ~ Holiday(d)
                                      THEN Cardinality(S) + 1 ELSE Cardinality(S)
  <1> DEFINE S == {e \in Shown("APPROVED") : ~ Holiday(e)}
             T == {e \in Shown("APPROVED")' : ~ Holiday(e)}
  <1>1. /\ d \in Nat /\ day = d /\ day' - 1 = d /\ d \in Days
        /\ \A e \in 0 .. d - 1 : state'[e] = state[e]
    BY SummaryAssumption DEF Turn, Days, TypeOK
  <1>2. S \subseteq 0 .. d - 1
    BY <1>1 DEF Shown
  <1>3. S' = T
    BY DEF Turn, Holiday
  <1>4. /\ T = IF state'[d] = "APPROVED" /\ ~ Holiday(d) THEN S \cup {d} ELSE S
        /\ d \notin S
    <2>1. \A e : e \in 0 .. d <=> e \in 0 .. d - 1 \/ e = d
      BY <1>1
    <2> QED
      BY <1>1, <2>1 DEF Shown
  <1> HIDE DEF S, T
  <1>6. /\ T = S \/ T = S \cup {d}
        /\ d \in T <=> state'[d] = "APPROVED" /\ ~ Holiday(d)
    BY <1>4
  <1>5. /\ Cardinality(S) \in Nat
        /\ Cardinality(T) = IF state'[d] = "APPROVED" /\ ~ Holiday(d)
                              THEN Cardinality(S) + 1 ELSE Cardinality(S)
    BY <1>1, <1>2, <1>6, OneMoreDay
  <1> QED
    BY <1>5, <1>3 DEF S

-----------------------------------------------------------------------------
LEMMA SummaryInit == Init => IInv
  <1> SUFFICES ASSUME Init PROVE IInv
    OBVIOUS
  <1>1. TypeOK
    <2>1. holidays \subseteq Holidays /\ leaves \subseteq Leaves /\ pending \subseteq leaves
      BY DEF Init, Fetched
    <2>2. day \in 0 .. LastDay + 1
      BY SummaryAssumption DEF Init
    <2> QED
      BY <2>1, <2>2 DEF Init, TypeOK, AttendanceEnum
  <1>2. FlattenedRight /\ Untouched
    BY DEF Init, FlattenedRight, Untouched
  <1>3. 0 .. day - 1 = {} /\ day = 0
    BY DEF Init
  <1>4. LeaveExcuses /\ StateFollowsMinutes
    BY <1>3 DEF LeaveExcuses, StateFollowsMinutes
  <1>5. \A s : Shown(s) = {}
    BY <1>3 DEF Shown
  <1>6. {d \in Shown("APPROVED") : ~ Holiday(d)} = {}
    BY <1>5
  <1>7. SummaryMatchesCalendar
    BY <1>5, <1>6, FS_EmptySet DEF Init, SummaryMatchesCalendar
  <1> QED
    BY <1>1, <1>2, <1>3, <1>4, <1>7 DEF IInv

LEMMA FlattenKeeps ==
    ASSUME IInv, NEW r \in pending, FlattenLeave(r)
    PROVE  IInv'
  <1>1. /\ TypeOK /\ FlattenedRight /\ day = 0 /\ day' = 0 /\ r \in leaves
        /\ leaves' = leaves /\ pending' = pending \ {r}
        /\ leaveOn' = Flattened(r)
        /\ UNCHANGED <<punches, holidays, state, counters, times, done, day>>
    BY DEF IInv, FlattenLeave, input, TypeOK
  <1>2. r.status \in {"PENDING", "APPROVED", "DECLINED"}
    BY <1>1, SummaryAssumption DEF TypeOK
  <1>3. TypeOK'
    BY <1>1, <1>2 DEF TypeOK, Flattened, counters, times
  <1>4. FlattenedRight'
    <2>1. ASSUME NEW d \in Days
          PROVE  leaveOn'[d] = "APPROVED" <=>
                   leaveOn[d] = "APPROVED" \/ (r.status = "APPROVED" /\ Covers(r, d))
      BY <1>1 DEF Flattened
    <2>2. leaves' \ pending' = (leaves \ pending) \cup {r}
      BY <1>1
    <2> QED
      BY <1>1, <2>1, <2>2 DEF FlattenedRight, Covers
  <1>5. Untouched' /\ SummaryMatchesCalendar' /\ LeaveExcuses' /\ StateFollowsMinutes'
    BY <1>1 DEF IInv, Untouched, SummaryMatchesCalendar, LeaveExcuses, StateFollowsMinutes,
       Shown, Holiday, Weekend, counters
  <1> QED
    BY <1>1, <1>3, <1>4, <1>5 DEF IInv

\* What a turn of the loop must do for the day at the cursor.
LEMMA TurnKeeps ==
    ASSUME IInv, NEW d, Turn(d),
           numPresent' = numPresent + (IF state'[d] = "PRESENT" THEN 1 ELSE 0),
           numHalfDays' = numHalfDays + (IF state'[d] = "HALFDAY" THEN 1 ELSE 0),
           numAbsent' = numAbsent + (IF state'[d] = "ABSENT" THEN 1 ELSE 0),
           approved' = approved + (IF state'[d] = "APPROVED" /\ ~ Holiday(d)
                                     THEN 1 ELSE 0),
           numHours' \in Nat, totalMins' \in Nat, done' \in BOOLEAN,
           punches[d].entries < 2 /\ ~ (Weekend(d) /\ punches[d].entries = 0)
             => state'[d] = IF leaveOn[d] = "APPROVED" \/ Holiday(d)
                              THEN "APPROVED" ELSE "ABSENT",
           punches[d].entries >= 2
             => state'[d] = IF punches[d].minutes >= 465 THEN "PRESENT"
                            ELSE IF punches[d].minutes >= 225 THEN "HALFDAY" ELSE "ABSENT"
    PROVE  IInv'
  <1>1. /\ TypeOK /\ d \in Nat /\ d \in Days /\ day = d /\ day' = d + 1 /\ day' - 1 = d
        /\ UNCHANGED <<punches, holidays, leaves, pending, leaveOn>> /\ pending = {}
        /\ \A e \in Days \ {d} : state'[e] = state[e]
        /\ state' \in [Days -> AttendanceEnum \cup {"NONE"}]
        /\ LastDay \in Nat /\ Days = 0 .. LastDay
    BY SummaryAssumption DEF IInv, Turn, TypeOK, Days
  <1>2. /\ numPresent' \in Nat /\ numHalfDays' \in Nat /\ numAbsent' \in Nat
        /\ approved' \in Nat
    BY <1>1 DEF TypeOK
  <1>3. TypeOK'
    <2>1. day' \in 0 .. LastDay + 1
      BY <1>1
    <2> QED
      BY <1>1, <1>2, <2>1 DEF TypeOK
  <1>4. FlattenedRight'
    BY <1>1 DEF IInv, FlattenedRight, Covers
  <1>5. Untouched'
    <2>1. ASSUME NEW e \in Days, e >= d + 1 PROVE e # d /\ e >= day
      BY <1>1, <2>1
    <2> QED
      BY <1>1, <2>1 DEF IInv, Untouched
  <1>6. SummaryMatchesCalendar'
    <2>1. {"PRESENT", "HALFDAY", "ABSENT", "APPROVED"} \subseteq AttendanceEnum
      BY DEF AttendanceEnum
    <2>2. numPresent' = Cardinality(Shown("PRESENT")')
      BY <1>1, <2>1, ShownGrows DEF IInv, SummaryMatchesCalendar
    <2>3. numHalfDays' = Cardinality(Shown("HALFDAY")')
      BY <1>1, <2>1, ShownGrows DEF IInv, SummaryMatchesCalendar
    <2>4. numAbsent' = Cardinality(Shown("ABSENT")')
      BY <1>1, <2>1, ShownGrows DEF IInv, SummaryMatchesCalendar
    <2>5. approved' = Cardinality({e \in Shown("APPROVED") : ~ Holiday(e)}')
      BY <1>1, ExcusedGrows DEF IInv, SummaryMatchesCalendar
    <2> QED
      BY <2>2, <2>3, <2>4, <2>5 DEF SummaryMatchesCalendar
  <1>7. \A e \in 0 .. day' - 1 : e = d \/ (e \in 0 .. day - 1 /\ e # d /\ e \in Days)
    BY <1>1
  <1>8. LeaveExcuses'
    <2>1. leaveOn[d] = "APPROVED" <=>
            \E r \in leaves : r.status = "APPROVED" /\ Covers(r, d)
      BY <1>1 DEF IInv, FlattenedRight
    <2>2. /\ \A e : Holiday(e)' = Holiday(e) /\ Weekend(e)' = Weekend(e)
          /\ \A r, e : Covers(r, e)' = Covers(r, e)
      BY <1>1 DEF Holiday, Weekend, Covers
    <2>3. SUFFICES ASSUME NEW e \in 0 .. day' - 1, punches[e].entries < 2,
                          ~ (Weekend(e) /\ punches[e].entries = 0)
                   PROVE  state'[e] = IF \/ \E r \in leaves : /\ r.status = "APPROVED"
                                                             /\ Covers(r, e)
                                         \/ Holiday(e)
                                        THEN "APPROVED" ELSE "ABSENT"
      BY <1>1, <2>2 DEF LeaveExcuses
    <2>4. CASE e = d
      BY <2>1, <2>3, <2>4
    <2>5. CASE e # d
      <3>1. e \in 0 .. day - 1 /\ state'[e] = state[e]
        BY <1>1, <1>7, <2>5
      <3> QED
        BY <2>3, <3>1 DEF IInv, LeaveExcuses
    <2> QED
      BY <2>4, <2>5
  <1>9. StateFollowsMinutes'
    BY <1>1, <1>7 DEF IInv, StateFollowsMinutes
  <1> QED
    BY <1>1, <1>3, <1>4, <1>5, <1>6, <1>8, <1>9 DEF IInv

LEMMA SummaryNext == IInv /\ [Next]_vars => IInv'
  <1> SUFFICES ASSUME IInv, [Next]_vars PROVE IInv'
    OBVIOUS
  <1>0. /\ TypeOK /\ Untouched
        /\ numPresent \in Nat /\ numHalfDays \in Nat /\ numAbsent \in Nat
        /\ approved \in Nat /\ numHours \in Nat /\ totalMins \in Nat
        /\ done \in BOOLEAN
    BY DEF IInv, TypeOK
  <1>1. ASSUME NEW r \in pending, FlattenLeave(r) PROVE IInv'
    BY <1>1, FlattenKeeps
  <1>2. ASSUME NEW d \in Days, SkipWeekend(d) PROVE IInv'
    <2>1. state[d] = "NONE" /\ punches[d].entries = 0 /\ Weekend(d)
      BY <1>0, <1>2, SummaryAssumption DEF Untouched, SkipWeekend, At, Days
    <2>2. state' = state /\ state' = [state EXCEPT ![d] = "NONE"]
      BY <1>0, <1>2, <2>1 DEF SkipWeekend, TypeOK
    <2>3. Turn(d)
      BY <1>2, <2>2 DEF SkipWeekend, Turn, At, input
    <2>4. UNCHANGED <<numPresent, numHalfDays, numAbsent, approved, numHours, totalMins, done>>
      BY <1>2 DEF SkipWeekend, counters, times
    <2> QED
      BY <1>0, <2>1, <2>2, <2>3, <2>4, TurnKeeps
  <1>3. ASSUME NEW d \in Days, CountUnworked(d) PROVE IInv'
    <2> DEFINE s == IF leaveOn[d] = "APPROVED" \/ Holiday(d) THEN "APPROVED" ELSE "ABSENT"
    <2>1. state' = [state EXCEPT ![d] = s] /\ s \in AttendanceEnum
      BY <1>3 DEF CountUnworked, AttendanceEnum
    <2>2. state'[d] = s
      BY <1>0, <2>1 DEF TypeOK
    <2>3. Turn(d)
      BY <1>3, <2>1 DEF CountUnworked, Turn, At, input
    <2>4. UNCHANGED <<numPresent, numHalfDays, numHours, totalMins, done>>
      BY <1>3 DEF CountUnworked, times
    <2>5. /\ numAbsent' = numAbsent + (IF s = "ABSENT" THEN 1 ELSE 0)
          /\ approved' = approved + (IF s = "APPROVED" /\ ~ Holiday(d) THEN 1 ELSE 0)
      BY <1>0, <1>3 DEF CountUnworked, CountExcused
    <2>6. punches[d].entries \in Nat /\ punches[d].entries < 2
      BY <1>0, <1>3, PunchTypes DEF CountUnworked
    <2>7. s # "PRESENT" /\ s # "HALFDAY"
      OBVIOUS
    <2> HIDE DEF s
    <2>8. s = IF leaveOn[d] = "APPROVED" \/ Holiday(d) THEN "APPROVED" ELSE "ABSENT"
      BY DEF s
    <2> QED
      BY <1>0, <2>2, <2>3, <2>4, <2>5, <2>6, <2>7, <2>8, TurnKeeps
  <1>4. ASSUME NEW d \in Days, CountWorked(d) PROVE IInv'
    <2> DEFINE m == punches[d].minutes
               s == IF m >= 465 THEN "PRESENT" ELSE IF m >= 225 THEN "HALFDAY" ELSE "ABSENT"
    <2>1. /\ m \in Nat /\ punches[d].entries \in Nat /\ punches[d].entries >= 2
          /\ Hours(d) \in Nat /\ Mins(d) \in Nat
          /\ Reaches(MIN_HOURS, d) <=> m >= 465
          /\ Reaches(MIN_HOURS_HALF_DAY, d) <=> m >= 225
      BY <1>0, <1>4, PunchTypes, ReachesMinutes DEF CountWorked
    <2>2. /\ state' = [state EXCEPT ![d] = s] /\ s \in AttendanceEnum
          /\ numPresent' = numPresent + (IF s = "PRESENT" THEN 1 ELSE 0)
          /\ numHalfDays' = numHalfDays + (IF s = "HALFDAY" THEN 1 ELSE 0)
          /\ numAbsent' = numAbsent + (IF s = "ABSENT" THEN 1 ELSE 0)
      BY <1>0, <1>4, <2>1 DEF CountWorked, AttendanceEnum
    <2>3. state'[d] = s
      BY <1>0, <2>2 DEF TypeOK
    <2>5. /\ UNCHANGED <<approved, done>>
          /\ numHours' \in Nat /\ totalMins' \in Nat
      BY <1>0, <1>4, <2>1 DEF CountWorked
    <2>6. s # "APPROVED"
      OBVIOUS
    <2> HIDE DEF s
    <2>4. Turn(d)
      BY <1>4, <2>2 DEF CountWorked, Turn, At, input
    <2>7. s = IF punches[d].minutes >= 465 THEN "PRESENT"
              ELSE IF punches[d].minutes >= 225 THEN "HALFDAY" ELSE "ABSENT"
      BY DEF s
    <2> QED
      BY <1>0, <2>1, <2>2, <2>3, <2>4, <2>5, <2>6, <2>7, TurnKeeps
  <1>5. CASE AddMinutes
    <2>1. /\ UNCHANGED <<punches, holidays, leaves, pending, leaveOn, day, state>>
          /\ UNCHANGED <<numPresent, numHalfDays, numAbsent, approved, totalMins>>
          /\ numHours' = AddedUp /\ done' = TRUE
      BY <1>5 DEF AddMinutes, input, counters
    <2>2. numHours' \in Nat
      BY <1>0, <2>1, MinutesSplit DEF AddedUp
    <2> QED
      BY <2>1, <2>2 DEF IInv, TypeOK, FlattenedRight, Untouched, SummaryMatchesCalendar,
         LeaveExcuses, StateFollowsMinutes, Shown, Holiday, Weekend
  <1>6. CASE UNCHANGED vars
    BY <1>6 DEF vars, input, counters, times, IInv, TypeOK, FlattenedRight, Untouched,
       SummaryMatchesCalendar, LeaveExcuses, StateFollowsMinutes, Shown, Holiday, Weekend
  <1> QED
    BY <1>1, <1>2, <1>3, <1>4, <1>5, <1>6 DEF Next

LEMMA SummaryInductive == Spec => []IInv
  BY SummaryInit, SummaryNext, PTL DEF Spec

\* The variables of the summary keep their types.
THEOREM SummaryTypes == Spec => []TypeOK
  <1>1. IInv => TypeOK
    BY DEF IInv
  <1> QED
    BY <1>1, SummaryInductive, PTL

\* The summary page and the calendar page agree on every count.
THEOREM PagesAgree == Spec => []SummaryMatchesCalendar
  <1>1. IInv => SummaryMatchesCalendar
    BY DEF IInv
  <1> QED
    BY <1>1, SummaryInductive, PTL

\* An approved leave or a holiday excuses a day, in whatever order the leave
\* requests were read.
THEOREM LeavesExcuse == Spec => []LeaveExcuses
  <1>1. IInv => LeaveExcuses
    BY DEF IInv
  <1> QED
    BY <1>1, SummaryInductive, PTL

\* The minutes between the first and the last punch alone decide a worked day.
THEOREM MinutesDecide == Spec => []StateFollowsMinutes
  <1>1. IInv => StateFollowsMinutes
    BY DEF IInv
  <1> QED
    BY <1>1, SummaryInductive, PTL

-----------------------------------------------------------------------------
(* Induction, stated for sets.                                             *)

\* The least number principle, for a set of numbers.
LEMMA LeastNat ==
    ASSUME NEW S \in SUBSET Nat, S # {}
    PROVE  \E n \in S : \A k \in S : ~ k < n
  <1>1. PICK n \in S : \A k \in S : <<k, n>> \notin OpToRel(<, Nat)
    BY NatLessThanWellFounded, WFMin
  <1>2. ASSUME NEW k \in S, k < n PROVE <<k, n>> \in OpToRel(<, Nat)
    BY <1>2 DEF OpToRel
  <1> QED
    BY <1>1, <1>2

\* Induction, for a set of numbers.
LEMMA SetInduction ==
    ASSUME NEW S, 0 \in S, \A n \in Nat : n \in S => n + 1 \in S
    PROVE  Nat \subseteq S
  <1> SUFFICES ASSUME Nat \ S # {} PROVE FALSE
    OBVIOUS
  <1>1. PICK n \in Nat \ S : \A k \in Nat \ S : ~ k < n
    BY LeastNat
  <1>2. n - 1 \in Nat /\ n - 1 < n /\ n - 1 + 1 = n
    BY <1>1
  <1> QED
    BY <1>1, <1>2

-----------------------------------------------------------------------------
(* The recursive sum of the minutes worked.                                *)

\* What day d adds to the minutes worked.
MinutesOf(d) == IF punches[d].entries >= 2 THEN punches[d].minutes ELSE 0

\* g sums up the minutes worked before each of the days up to n.
SumsUp(g, n) ==
    /\ g \in [0 .. n -> Nat] /\ g[0] = 0
    /\ \A d \in 1 .. n : g[d] = g[d - 1] + MinutesOf(d - 1)

\* There are such sums, one day after the other.
LEMMA SumsExist ==
    ASSUME TypeOK
    PROVE  \A n \in 0 .. LastDay + 1 : \E g : SumsUp(g, n)
  <1> DEFINE S == {n \in Nat : n <= LastDay + 1 => \E g : SumsUp(g, n)}
  <1>1. LastDay \in Nat /\ \A d \in Days : MinutesOf(d) \in Nat
    BY SummaryAssumption, PunchTypes DEF MinutesOf
  <1>2. 0 \in S
    <2>1. SumsUp([d \in 0 .. 0 |-> 0], 0)
      BY DEF SumsUp
    <2> QED
      BY <2>1
  <1>3. ASSUME NEW n \in Nat, n \in S PROVE n + 1 \in S
    <2>1. SUFFICES ASSUME n + 1 <= LastDay + 1 PROVE \E g : SumsUp(g, n + 1)
      OBVIOUS
    <2>2. PICK g : SumsUp(g, n)
      BY <1>1, <1>3, <2>1
    <2>3. MinutesOf(n) \in Nat
      BY <1>1, <2>1 DEF Days
    <2> DEFINE m == MinutesOf(n)
               h == [d \in 0 .. n + 1 |-> IF d = n + 1 THEN g[n] + m ELSE g[d]]
    <2>4. h \in [0 .. n + 1 -> Nat] /\ h[0] = 0 /\ h[n + 1] = h[n] + m
      BY <2>2, <2>3 DEF SumsUp
    <2>5. ASSUME NEW d \in 1 .. n + 1 PROVE h[d] = h[d - 1] + MinutesOf(d - 1)
      <3>1. CASE d = n + 1
        BY <2>4, <3>1
      <3>2. CASE d # n + 1
        <4>1. d \in 1 .. n /\ d - 1 \in 0 .. n /\ d - 1 # n + 1
          BY <3>2
        <4>2. h[d] = g[d] /\ h[d - 1] = g[d - 1]
          BY <3>2, <4>1
        <4> QED
          BY <2>2, <4>1, <4>2 DEF SumsUp
      <3> QED
        BY <3>1, <3>2
    <2>6. SumsUp(h, n + 1)
      <3> HIDE DEF h
      <3> QED
        BY <2>4, <2>5 DEF SumsUp
    <2> QED
      BY <2>6
  <1>4. Nat \subseteq S
    <2> HIDE DEF S
    <2> QED
      BY <1>2, <1>3, SetInduction
  <1> QED
    BY <1>1, <1>4

\* The recursive definition of Worked defines such sums.
LEMMA WorkedSums ==
    ASSUME TypeOK
    PROVE  SumsUp(Worked, LastDay + 1)
  <1> DEFINE N == LastDay + 1
             Def(g) == [d \in 0 .. N |->
                          IF d = 0 THEN 0
                          ELSE g[d - 1] + IF punches[d - 1].entries >= 2
                                            THEN punches[d - 1].minutes ELSE 0]
  <1>1. N \in Nat
    BY SummaryAssumption
  <1>2. \E g : g = Def(g)
    <2>1. PICK g : SumsUp(g, N)
      BY <1>1, SumsExist
    <2>2. ASSUME NEW d \in 0 .. N PROVE g[d] = Def(g)[d]
      <3>1. CASE d = 0
        BY <2>1, <3>1 DEF SumsUp
      <3>2. CASE d # 0
        <4>1. d \in 1 .. N
          BY <1>1, <3>2
        <4> QED
          BY <2>1, <3>2, <4>1 DEF SumsUp, MinutesOf
      <3> QED
        BY <3>1, <3>2
    <2>3. g \in [0 .. N -> Nat]
      BY <2>1 DEF SumsUp
    <2>4. g = Def(g)
      BY <2>2, <2>3
    <2> QED
      BY <2>4
  <1>3. Worked = Def(Worked)
    <2>1. Worked = CHOOSE g : g = Def(g)
      BY DEF Worked
    <2> HIDE DEF Def
    <2> QED
      BY <1>2, <2>1
  <1> DEFINE S == {n \in Nat : n <= N => Worked[n] \in Nat}
  <1>4. /\ DOMAIN Worked = 0 .. N /\ Worked[0] = 0
        /\ \A d \in 1 .. N : Worked[d] = Worked[d - 1] + MinutesOf(d - 1)
    <2>1. \E W : W = Worked
      OBVIOUS
    <2>2. PICK W : W = Worked
      BY <2>1
    <2>3. W = Def(W)
      BY <1>3, <2>2
    <2>4. /\ DOMAIN W = 0 .. N /\ W[0] = 0
          /\ \A d \in 1 .. N : W[d] = W[d - 1] + MinutesOf(d - 1)
      BY <1>1, <2>3 DEF MinutesOf
    <2> QED
      BY <2>2, <2>4
  <1>5. \A d \in Days : MinutesOf(d) \in Nat
    BY PunchTypes DEF MinutesOf
  <1> HIDE DEF Def
  <1>6. ASSUME NEW n \in Nat, n \in S PROVE n + 1 \in S
    <2>1. SUFFICES ASSUME n + 1 <= N PROVE Worked[n + 1] \in Nat
      OBVIOUS
    <2>2. n + 1 \in 1 .. N /\ n + 1 - 1 = n /\ n <= N /\ n \in Days
      BY <1>1, <2>1, SummaryAssumption DEF Days
    <2> QED
      BY <1>4, <1>5, <1>6, <2>2
  <1>7. 0 \in S
    BY <1>4
  <1>8. Nat \subseteq S
    <2> HIDE DEF S
    <2> QED
      BY <1>6, <1>7, SetInduction
  <1>9. Worked \in [0 .. N -> Nat]
    <2>1. Worked = [d \in 0 .. N |-> Worked[d]]
      BY <1>3 DEF Def
    <2>2. \A d \in 0 .. N : Worked[d] \in Nat
      BY <1>1, <1>8
    <2> QED
      BY <2>1, <2>2
  <1> QED
    BY <1>4, <1>9 DEF SumsUp

-----------------------------------------------------------------------------
(* The hours of the summary page.                                          *)

\* The hours and left over minutes counted so far are the minutes worked on the
\* days before the cursor, and in the end they are carried over once.
TimesAddUp ==
    /\ ~ done => numHours * 60 + totalMins = Worked[day]
    /\ done => day = LastDay + 1 /\ numHours = Worked[LastDay + 1] \div 60

LEMMA CarryMinutes ==
    ASSUME NEW h \in Nat, NEW m \in Nat
    PROVE  (h * 60 + m) \div 60 = h + m \div 60
  OBVIOUS

\* A turn of the loop that adds the minutes of its day keeps the sum.
LEMMA TurnAddsUp ==
    ASSUME TypeOK, TimesAddUp, NEW d \in Days,
           day = d, day' = day + 1, UNCHANGED <<punches, done>>,
           numHours' * 60 + totalMins' = numHours * 60 + totalMins + MinutesOf(d)
    PROVE  TimesAddUp'
  <1>1. d \in Nat /\ d <= LastDay /\ LastDay \in Nat /\ d + 1 \in 1 .. LastDay + 1
        /\ d + 1 - 1 = d
    BY SummaryAssumption DEF Days
  <1>2. Worked[d + 1] = Worked[d] + MinutesOf(d)
    BY <1>1, WorkedSums DEF SumsUp
  <1>3. Worked' = Worked
    BY DEF Worked
  <1>4. ~ done /\ ~ done' /\ day' = d + 1
    BY <1>1 DEF TimesAddUp
  <1>5. numHours * 60 + totalMins = Worked[d]
    BY <1>4 DEF TimesAddUp
  <1>6. Worked'[day'] = Worked[d + 1]
    BY <1>3, <1>4
  <1> QED
    BY <1>2, <1>4, <1>5, <1>6 DEF TimesAddUp

LEMMA TimesNext == TypeOK /\ TimesAddUp /\ [Next]_vars => TimesAddUp'
  <1> SUFFICES ASSUME TypeOK, TimesAddUp, [Next]_vars PROVE TimesAddUp'
    OBVIOUS
  <1>0. numHours \in Nat /\ totalMins \in Nat
    BY DEF TypeOK
  <1>1. ASSUME UNCHANGED <<punches, day, done, numHours, totalMins>> PROVE TimesAddUp'
    <2>1. Worked' = Worked
      BY <1>1 DEF Worked
    <2> QED
      BY <1>1, <2>1 DEF TimesAddUp
  <1>2. ASSUME NEW r \in pending, FlattenLeave(r) PROVE TimesAddUp'
    BY <1>1, <1>2 DEF FlattenLeave, input, times
  <1>3. ASSUME NEW d \in Days, SkipWeekend(d) \/ CountUnworked(d) PROVE TimesAddUp'
    <2>1. punches[d].entries \in Nat /\ punches[d].entries < 2
      BY <1>3, PunchTypes DEF SkipWeekend, CountUnworked
    <2>2. MinutesOf(d) = 0
      BY <2>1 DEF MinutesOf
    <2>3. /\ day = d /\ day' = day + 1
          /\ UNCHANGED <<punches, done, numHours, totalMins>>
      BY <1>3 DEF SkipWeekend, CountUnworked, At, input, times
    <2>4. numHours' * 60 + totalMins' = numHours * 60 + totalMins + MinutesOf(d)
      BY <1>0, <2>2, <2>3
    <2> QED
      BY <2>3, <2>4, TurnAddsUp
  <1>4. ASSUME NEW d \in Days, CountWorked(d) PROVE TimesAddUp'
    <2>1. Hours(d) \in Nat /\ Mins(d) \in Nat /\ Hours(d) * 60 + Mins(d) = MinutesOf(d)
      BY <1>4, PunchTypes DEF CountWorked, MinutesOf
    <2>2. /\ day = d /\ day' = day + 1 /\ UNCHANGED <<punches, done>>
          /\ numHours' = numHours + Hours(d) /\ totalMins' = totalMins + Mins(d)
      BY <1>4 DEF CountWorked, At, input
    <2>3. numHours' * 60 + totalMins' = numHours * 60 + totalMins + MinutesOf(d)
      BY <1>0, <2>1, <2>2
    <2> QED
      BY <2>2, <2>3, TurnAddsUp
  <1>5. CASE AddMinutes
    <2>1. numHours' = numHours + totalMins \div 60 /\ done' /\ ~ done
          /\ day = LastDay + 1 /\ UNCHANGED <<punches, day>>
      BY <1>5 DEF AddMinutes, AddedUp, input
    <2>2. Worked' = Worked
      BY <2>1 DEF Worked
    <2>3. numHours * 60 + totalMins = Worked[LastDay + 1]
      BY <2>1 DEF TimesAddUp
    <2> QED
      BY <1>0, <2>1, <2>2, <2>3, CarryMinutes DEF TimesAddUp
  <1>6. CASE UNCHANGED vars
    BY <1>1, <1>6 DEF vars, input, times
  <1> QED
    BY <1>2, <1>3, <1>4, <1>5, <1>6 DEF Next

LEMMA TimesInductive == Spec => []TimesAddUp
  <1>1. Init => TimesAddUp
    <2> SUFFICES ASSUME Init PROVE TimesAddUp
      OBVIOUS
    <2>1. TypeOK
      BY SummaryInit DEF IInv
    <2>2. Worked[0] = 0
      BY <2>1, WorkedSums DEF SumsUp
    <2> QED
      BY <2>2 DEF Init, TimesAddUp
  <1> QED
    BY <1>1, TimesNext, SummaryTypes, PTL DEF Spec

\* Whatever the length of the period and the punches of its days, the hours in
\* the end are those of all minutes worked: taking hours and minutes apart day by
\* day loses nothing.
THEOREM HoursAddUp == Spec => []HoursAreWorked
  <1>1. TimesAddUp => HoursAreWorked
    BY DEF TimesAddUp, HoursAreWorked
  <1> QED
    BY <1>1, TimesInductive, PTL

=============================================================================
