--------------------------- MODULE LeaveDaysProofs ---------------------------
(***************************************************************************)
(* Proofs about LeaveDays: type correctness, what the loop counts without  *)
(* bridged weekends and with them, for any holidays and leaves of any      *)
(* length, and where the loop can end.  The invariant states what the loop *)
(* counts in every case, a start Monday and carried holidays included.     *)
(***************************************************************************)
EXTENDS LeaveDays, FiniteSetTheorems, WellFoundedInduction, TLAPS

\* The flags as the last day left them: the weekend flag outlives a Monday, so
\* a Monday finds it set unless the leave starts there; the Monday flag never
\* outlives its Tuesday.
FlagsSound ==
    IF day = from
      THEN ~ isWeekend /\ ~ isMonday
      ELSE /\ isMonday <=> Weekday(day - 1) = Monday
           /\ isWeekend <=> \/ Weekday(day - 1) \in {Saturday, Sunday}
                            \/ Weekday(day - 1) = Monday /\ day - 1 > from

\* The Friday flag lasts to the Monday after a Friday of the leave.
FridaySound ==
    isFriday <=> \/ Weekday(day - 1) = Friday /\ day > from
                 \/ Weekday(day - 1) = Saturday /\ day > from + 1
                 \/ Weekday(day - 1) = Sunday /\ day > from + 2
                 \/ Weekday(day - 1) = Monday /\ day > from + 3

\* The weekend holidays, the Mondays after the weekends inside, what is taken
\* off (each holiday at every later such Monday), and the weekend days that are
\* added, for a leave from day a on, before day k.
HolidaysIn(a, k) ==
    {n \in holidays \cap (a .. k - 1) :
        \/ Weekday(n) \in {Saturday, Sunday}
        \/ Weekday(n) = Monday /\ a < n /\ n < a + 3}
MondaysIn(a, k) == {m \in a + 3 .. k - 1 : Weekday(m) = Monday}
PairsIn(a, k) == {p \in HolidaysIn(a, k) \X MondaysIn(a, k) : p[1] < p[2]}
PaidIn(a, k) ==
    {n \in a .. k - 1 : n + 1 \in MondaysIn(a, k) \/ n + 2 \in MondaysIn(a, k)} \ holidays
CarriedIn(a, k) == \E n \in HolidaysIn(a, k), m \in MondaysIn(a, k) : n < m - 2

\* Day n is a holiday the policy bridges.
BridgedHoliday(a, n) ==
    /\ n \in holidays
    /\ \/ Weekday(n) \in {Saturday, Sunday}
       \/ Weekday(n) = Monday /\ a < n /\ n < a + 3

HolidaysCounted == weekendHolidays = IF Bridging THEN Cardinality(WeekendHolidays) ELSE 0

\* A working Monday at the start is counted as a working day and once more.
FirstMonday == One(from < day /\ Weekday(from) = Monday /\ from \notin holidays)

PlainCount == ~ Bridging => days = Cardinality(Workdays(from, day)) + FirstMonday
BridgedCount ==
    Bridging => days = Cardinality(Workdays(from, day)) + FirstMonday
                         + 2 * Cardinality(MondaysIn(from, day))
                         - Cardinality(PairsIn(from, day))

\* While no holiday is carried over, each is taken off its own weekend.
PairsArePaid ==
    ~ CarriedIn(from, day) =>
        Cardinality(PairsIn(from, day)) + Cardinality(PaidIn(from, day))
            = 2 * Cardinality(MondaysIn(from, day))

IInv == /\ TypeOK /\ from <= day /\ FlagsSound /\ PlainCount
        /\ FridaySound /\ HolidaysCounted /\ BridgedCount /\ PairsArePaid

\* The days of the week follow one another.
LEMMA WeekdayNext ==
    ASSUME NEW n \in Nat
    PROVE  /\ Weekday(n) \in 0 .. 6
           /\ Weekday(n + 1) = IF Weekday(n) = 6 THEN 0 ELSE Weekday(n) + 1
  BY SMT DEF Weekday

\* What one more day adds to the working days of a leave.
LEMMA OneMoreDay ==
    ASSUME NEW a \in Nat, NEW n \in Nat, a <= n
    PROVE  /\ Cardinality(Workdays(a, a)) = 0
           /\ Cardinality(Workdays(a, n)) \in Nat
           /\ Cardinality(Workdays(a, n + 1)) = Cardinality(Workdays(a, n))
                + One(Weekday(n) \notin {Saturday, Sunday} /\ n \notin holidays)
  <1>1. Workdays(a, a) = {}
    BY DEF Workdays
  <1>2. IsFiniteSet(Workdays(a, n))
    <2>1. Workdays(a, n) \subseteq a .. n - 1
      BY DEF Workdays
    <2> QED
      BY <2>1, FS_Interval, FS_Subset
  <1>3. n \notin Workdays(a, n)
    BY DEF Workdays
  <1>4. Workdays(a, n + 1) =
            IF Weekday(n) \notin {Saturday, Sunday} /\ n \notin holidays
              THEN Workdays(a, n) \cup {n} ELSE Workdays(a, n)
    <2>1. \A k \in Nat : k \in a .. n <=> k \in a .. n - 1 \/ k = n
      OBVIOUS
    <2> QED
      BY <2>1 DEF Workdays
  <1>5. Cardinality(Workdays(a, n)) \in Nat
    BY <1>2, FS_CardinalityType
  <1>6. Cardinality(Workdays(a, n) \cup {n}) = Cardinality(Workdays(a, n)) + 1
    BY <1>2, <1>3, FS_AddElement
  <1> QED
    BY <1>1, <1>4, <1>5, <1>6, FS_EmptySet DEF One

\* What one more day adds to the bridged holidays of a leave.
LEMMA OneMoreHoliday ==
    ASSUME NEW a \in Nat, NEW n \in Nat, a <= n
    PROVE  /\ HolidaysIn(a, a) = {}
           /\ IsFiniteSet(HolidaysIn(a, n)) /\ Cardinality(HolidaysIn(a, n)) \in Nat
           /\ HolidaysIn(a, n + 1) = IF BridgedHoliday(a, n)
                                       THEN HolidaysIn(a, n) \cup {n} ELSE HolidaysIn(a, n)
           /\ Cardinality(HolidaysIn(a, n + 1)) = Cardinality(HolidaysIn(a, n))
                                                    + One(BridgedHoliday(a, n))
  <1>1. HolidaysIn(a, a) = {}
    BY DEF HolidaysIn
  <1>2. IsFiniteSet(HolidaysIn(a, n))
    <2>1. HolidaysIn(a, n) \subseteq a .. n - 1 /\ n - 1 \in Int
      BY DEF HolidaysIn
    <2> QED
      BY <2>1, FS_Interval, FS_Subset
  <1>3. n \notin HolidaysIn(a, n)
    BY DEF HolidaysIn
  <1>4. HolidaysIn(a, n + 1) = IF BridgedHoliday(a, n)
                                 THEN HolidaysIn(a, n) \cup {n} ELSE HolidaysIn(a, n)
    <2>1. \A k : k \in a .. n <=> k \in a .. n - 1 \/ k = n
      OBVIOUS
    <2> QED
      BY <2>1 DEF HolidaysIn, BridgedHoliday
  <1>5. Cardinality(HolidaysIn(a, n)) \in Nat
    BY <1>2, FS_CardinalityType
  <1>6. Cardinality(HolidaysIn(a, n) \cup {n}) = Cardinality(HolidaysIn(a, n)) + 1
    BY <1>2, <1>3, FS_AddElement
  <1>7. Cardinality(HolidaysIn(a, n + 1)) = Cardinality(HolidaysIn(a, n))
                                               + One(BridgedHoliday(a, n))
    BY <1>4, <1>5, <1>6 DEF One
  <1> QED
    BY <1>1, <1>2, <1>4, <1>5, <1>7

\* What one more day adds to the weekends inside a leave.
LEMMA OneMoreMonday ==
    ASSUME NEW a \in Nat, NEW n \in Nat, a <= n
    PROVE  /\ MondaysIn(a, a) = {}
           /\ IsFiniteSet(MondaysIn(a, n)) /\ Cardinality(MondaysIn(a, n)) \in Nat
           /\ MondaysIn(a, n + 1) = IF Weekday(n) = Monday /\ n >= a + 3
                                      THEN MondaysIn(a, n) \cup {n} ELSE MondaysIn(a, n)
           /\ Cardinality(MondaysIn(a, n + 1)) = Cardinality(MondaysIn(a, n))
                                                   + One(Weekday(n) = Monday /\ n >= a + 3)
  <1>1. MondaysIn(a, a) = {}
    BY DEF MondaysIn
  <1>2. IsFiniteSet(MondaysIn(a, n))
    <2>1. MondaysIn(a, n) \subseteq a + 3 .. n - 1 /\ a + 3 \in Int /\ n - 1 \in Int
      BY DEF MondaysIn
    <2> QED
      BY <2>1, FS_Interval, FS_Subset
  <1>3. n \notin MondaysIn(a, n)
    BY DEF MondaysIn
  <1>4. MondaysIn(a, n + 1) = IF Weekday(n) = Monday /\ n >= a + 3
                                THEN MondaysIn(a, n) \cup {n} ELSE MondaysIn(a, n)
    <2>1. \A k : k \in a + 3 .. n <=> k \in a + 3 .. n - 1 \/ (k = n /\ n >= a + 3)
      OBVIOUS
    <2> QED
      BY <2>1 DEF MondaysIn
  <1>5. Cardinality(MondaysIn(a, n)) \in Nat
    BY <1>2, FS_CardinalityType
  <1>6. Cardinality(MondaysIn(a, n) \cup {n}) = Cardinality(MondaysIn(a, n)) + 1
    BY <1>2, <1>3, FS_AddElement
  <1>7. Cardinality(MondaysIn(a, n + 1)) = Cardinality(MondaysIn(a, n))
                                             + One(Weekday(n) = Monday /\ n >= a + 3)
    BY <1>4, <1>5, <1>6 DEF One
  <1> QED
    BY <1>1, <1>2, <1>4, <1>5, <1>7

\* A Monday inside the leave takes off every bridged holiday before it, any other
\* day takes off nothing.
LEMMA OneMorePair ==
    ASSUME NEW a \in Nat, NEW n \in Nat, a <= n
    PROVE  /\ Cardinality(PairsIn(a, a)) = 0 /\ Cardinality(PairsIn(a, n)) \in Nat
           /\ Cardinality(PairsIn(a, n + 1)) = Cardinality(PairsIn(a, n))
                + IF Weekday(n) = Monday /\ n >= a + 3
                    THEN Cardinality(HolidaysIn(a, n)) ELSE 0
  <1> DEFINE H == HolidaysIn(a, n)
             M == MondaysIn(a, n)
             T == PairsIn(a, n)
  <1>1. /\ IsFiniteSet(H) /\ Cardinality(H) \in Nat /\ IsFiniteSet(M)
        /\ \A h \in H : h \in Int /\ h < n
        /\ \A m \in M : m \in Int /\ m < n
    <2>1. IsFiniteSet(H) /\ Cardinality(H) \in Nat
      BY OneMoreHoliday
    <2>2. IsFiniteSet(M)
      BY OneMoreMonday
    <2>3. \A h \in H : h \in Int /\ h < n
      BY DEF HolidaysIn
    <2>4. \A m \in M : m \in Int /\ m < n
      BY DEF MondaysIn
    <2> QED
      BY <2>1, <2>2, <2>3, <2>4
  <1>2. T = {p \in H \X M : p[1] < p[2]}
    BY DEF PairsIn
  <1>3. IsFiniteSet(T) /\ Cardinality(T) \in Nat
    <2>1. IsFiniteSet(H \X M)
      BY <1>1, FS_Product
    <2>2. T \subseteq H \X M
      BY <1>2
    <2>3. IsFiniteSet(T)
      BY <2>1, <2>2, FS_Subset
    <2> QED
      BY <2>3, FS_CardinalityType
  <1>4. PairsIn(a, a) = {}
    BY OneMoreHoliday DEF PairsIn
  <1>5. CASE Weekday(n) = Monday /\ n >= a + 3
    <2>0. ~ BridgedHoliday(a, n)
      BY <1>5 DEF BridgedHoliday, Monday, Saturday, Sunday
    <2>1. HolidaysIn(a, n + 1) = H /\ MondaysIn(a, n + 1) = M \cup {n}
      BY <1>5, <2>0, OneMoreHoliday, OneMoreMonday
    <2> HIDE DEF H, M, T
    <2>2. PairsIn(a, n + 1) = T \cup (H \X {n})
      <3>1. PairsIn(a, n + 1) = {p \in H \X (M \cup {n}) : p[1] < p[2]}
        BY <2>1 DEF PairsIn
      <3>2. ASSUME NEW p \in H \X (M \cup {n})
            PROVE  p[1] < p[2] <=> (p \in H \X M /\ p[1] < p[2]) \/ p \in H \X {n}
        BY <1>1
      <3> QED
        BY <1>2, <3>1, <3>2
    <2>3. T \cap (H \X {n}) = {}
      BY <1>1, <1>2
    <2>4. IsFiniteSet(H \X {n}) /\ Cardinality(H \X {n}) = Cardinality(H)
      <3>1. IsFiniteSet({n}) /\ Cardinality({n}) = 1
        BY FS_Singleton
      <3>2. IsFiniteSet(H \X {n}) /\ Cardinality(H \X {n}) = Cardinality(H) * Cardinality({n})
        BY <1>1, <3>1, FS_Product
      <3> QED
        BY <1>1, <3>1, <3>2
    <2>5. Cardinality(T \cup (H \X {n})) = Cardinality(T) + Cardinality(H)
      <3>1. Cardinality({}) = 0
        BY FS_EmptySet
      <3>2. Cardinality(T \cup (H \X {n}))
              = Cardinality(T) + Cardinality(H \X {n}) - Cardinality(T \cap (H \X {n}))
        BY <1>3, <2>4, FS_Union
      <3>3. Cardinality(T \cap (H \X {n})) = 0
        BY <2>3, <3>1
      <3>4. Cardinality(H \X {n}) = Cardinality(H)
        BY <2>4
      <3> QED
        BY <1>1, <1>3, <3>2, <3>3, <3>4
    <2> QED
      BY <1>3, <1>4, <1>5, <2>2, <2>5, FS_EmptySet DEF H, T
  <1>6. CASE ~ (Weekday(n) = Monday /\ n >= a + 3)
    <2>1. /\ MondaysIn(a, n + 1) = M
          /\ HolidaysIn(a, n + 1) = H \/ HolidaysIn(a, n + 1) = H \cup {n}
      BY <1>6, OneMoreHoliday, OneMoreMonday
    <2> HIDE DEF H, M, T
    <2>2. PairsIn(a, n + 1) = T
      <3>1. \E G : G = HolidaysIn(a, n + 1) /\ (G = H \/ G = H \cup {n})
        BY <2>1
      <3>2. PICK G : G = HolidaysIn(a, n + 1) /\ (G = H \/ G = H \cup {n})
        BY <3>1
      <3>3. PairsIn(a, n + 1) = {p \in G \X M : p[1] < p[2]}
        BY <2>1, <3>2 DEF PairsIn
      <3>4. ASSUME NEW p \in (H \cup {n}) \X M, p[1] < p[2] PROVE p \in H \X M
        BY <1>1, <3>4
      <3> QED
        BY <1>2, <3>2, <3>3, <3>4
    <2> QED
      BY <1>3, <1>4, <1>6, <2>2, FS_EmptySet DEF T
  <1> QED
    BY <1>5, <1>6

\* A Monday inside the leave adds the days of its weekend that are no holidays.
LEMMA OneMorePaid ==
    ASSUME NEW a \in Nat, NEW n \in Nat, a <= n
    PROVE  /\ Cardinality(PaidIn(a, n)) \in Nat
           /\ Cardinality(PaidIn(a, n + 1)) = Cardinality(PaidIn(a, n))
                + IF Weekday(n) = Monday /\ n >= a + 3
                    THEN One(n - 2 \notin holidays) + One(n - 1 \notin holidays) ELSE 0
  <1> DEFINE P == PaidIn(a, n)
  <1>1. IsFiniteSet(P) /\ Cardinality(P) \in Nat
    <2>1. P \subseteq a .. n - 1 /\ n - 1 \in Int
      BY DEF PaidIn
    <2>2. IsFiniteSet(P)
      BY <2>1, FS_Interval, FS_Subset
    <2> QED
      BY <2>2, FS_CardinalityType
  <1>2. \A m \in MondaysIn(a, n) : m \in Int /\ m < n
    BY DEF MondaysIn
  <1>3. CASE Weekday(n) = Monday /\ n >= a + 3
    <2>1. MondaysIn(a, n + 1) = MondaysIn(a, n) \cup {n}
      BY <1>3, OneMoreMonday
    <2>2. n - 2 \in a .. n /\ n - 1 \in a .. n /\ n - 1 # n - 2
      BY <1>3
    <2>3. PaidIn(a, n + 1) = P \cup ({n - 2, n - 1} \ holidays)
      <3>1. \A k \in a .. n : k + 1 = n \/ k + 2 = n <=> k \in {n - 2, n - 1}
        OBVIOUS
      <3>2. n + 1 \notin MondaysIn(a, n) \cup {n} /\ n + 2 \notin MondaysIn(a, n) \cup {n}
        BY <1>2
      <3>3. \A k : k \in a .. n <=> k \in a .. n - 1 \/ k = n
        OBVIOUS
      <3>4. n + 1 - 1 = n
        OBVIOUS
      <3> QED
        BY <2>1, <2>2, <3>1, <3>2, <3>3, <3>4 DEF PaidIn
    <2>4. n - 1 \notin P /\ n - 2 \notin P
      <3>1. n \notin MondaysIn(a, n) /\ n + 1 \notin MondaysIn(a, n)
        BY <1>2
      <3>2. Weekday(n - 1) # Monday
        BY <1>3 DEF Weekday, Monday
      <3>3. n - 1 \notin MondaysIn(a, n)
        BY <3>2 DEF MondaysIn
      <3>4. n - 1 + 1 = n /\ n - 1 + 2 = n + 1 /\ n - 2 + 1 = n - 1 /\ n - 2 + 2 = n
        OBVIOUS
      <3> QED
        BY <3>1, <3>3, <3>4 DEF PaidIn
    <2> HIDE DEF P
    <2>5. PICK Q : /\ Q = P \cup ({n - 2} \ holidays)
                   /\ IsFiniteSet(Q)
                   /\ Cardinality(Q) = Cardinality(P) + One(n - 2 \notin holidays)
      <3>1. IsFiniteSet(P \cup {n - 2}) /\ Cardinality(P \cup {n - 2}) = Cardinality(P) + 1
        BY <1>1, <2>4, FS_AddElement
      <3>2. n - 2 \in holidays => P \cup ({n - 2} \ holidays) = P
        OBVIOUS
      <3>3. n - 2 \notin holidays => P \cup ({n - 2} \ holidays) = P \cup {n - 2}
        OBVIOUS
      <3> QED
        BY <1>1, <3>1, <3>2, <3>3 DEF One
    <2>6. /\ n - 1 \notin Q
          /\ P \cup ({n - 2, n - 1} \ holidays) = Q \cup ({n - 1} \ holidays)
      BY <2>2, <2>4, <2>5
    <2>7. Cardinality(Q \cup ({n - 1} \ holidays)) = Cardinality(Q) + One(n - 1 \notin holidays)
      <3>1. Cardinality(Q \cup {n - 1}) = Cardinality(Q) + 1
        BY <2>5, <2>6, FS_AddElement
      <3>2. n - 1 \in holidays => Q \cup ({n - 1} \ holidays) = Q
        OBVIOUS
      <3>3. n - 1 \notin holidays => Q \cup ({n - 1} \ holidays) = Q \cup {n - 1}
        OBVIOUS
      <3>4. Cardinality(Q) \in Nat
        BY <2>5, FS_CardinalityType
      <3> QED
        BY <3>1, <3>2, <3>3, <3>4 DEF One
    <2>8. Cardinality(PaidIn(a, n + 1))
            = Cardinality(P) + One(n - 2 \notin holidays) + One(n - 1 \notin holidays)
      BY <2>3, <2>5, <2>6, <2>7
    <2> QED
      BY <1>1, <1>3, <2>8 DEF P, One
  <1>4. CASE ~ (Weekday(n) = Monday /\ n >= a + 3)
    <2>1. MondaysIn(a, n + 1) = MondaysIn(a, n)
      BY <1>4, OneMoreMonday
    <2>2. \A k : k \in a .. n <=> k \in a .. n - 1 \/ k = n
      OBVIOUS
    <2>3. n + 1 \notin MondaysIn(a, n) /\ n + 2 \notin MondaysIn(a, n) /\ n + 1 - 1 = n
      BY <1>2
    <2>4. PaidIn(a, n + 1) = P
      BY <2>1, <2>2, <2>3 DEF PaidIn
    <2> QED
      BY <1>1, <1>4, <2>4
  <1> QED
    BY <1>3, <1>4

\* A holiday carried over stays carried over.
LEMMA CarriedStays ==
    ASSUME NEW a \in Nat, NEW n \in Nat, a <= n, CarriedIn(a, n)
    PROVE  CarriedIn(a, n + 1)
  <1>1. HolidaysIn(a, n) \subseteq HolidaysIn(a, n + 1)
    BY OneMoreHoliday
  <1>2. MondaysIn(a, n) \subseteq MondaysIn(a, n + 1)
    BY OneMoreMonday
  <1> QED
    BY <1>1, <1>2 DEF CarriedIn

\* At a Monday inside a leave that carries no holiday over, the holidays seen are
\* those on the two days before it.
LEMMA OwnWeekend ==
    ASSUME NEW a \in Nat, NEW n \in Nat, Weekday(n) = Monday, n >= a + 3,
           ~ CarriedIn(a, n + 1)
    PROVE  Cardinality(HolidaysIn(a, n)) = One(n - 2 \in holidays) + One(n - 1 \in holidays)
  <1>1. n \in MondaysIn(a, n + 1) /\ HolidaysIn(a, n + 1) = HolidaysIn(a, n)
    <2>1. ~ BridgedHoliday(a, n)
      BY DEF BridgedHoliday, Monday, Saturday, Sunday
    <2>2. a <= n
      OBVIOUS
    <2> QED
      BY <2>1, <2>2, OneMoreHoliday, OneMoreMonday
  <1>2. \A h \in HolidaysIn(a, n) : h \in {n - 2, n - 1}
    <2> SUFFICES ASSUME NEW h \in HolidaysIn(a, n) PROVE h \in {n - 2, n - 1}
      OBVIOUS
    <2>1. h \in a .. n - 1 /\ ~ (h < n - 2)
      BY <1>1 DEF HolidaysIn, CarriedIn
    <2> QED
      BY <2>1
  <1>3. Weekday(n - 2) = Saturday /\ Weekday(n - 1) = Sunday
    BY DEF Weekday, Monday, Saturday, Sunday
  <1>4. HolidaysIn(a, n) = ({n - 2} \cap holidays) \cup ({n - 1} \cap holidays)
    <2>1. n - 2 \in a .. n - 1 /\ n - 1 \in a .. n - 1
      OBVIOUS
    <2>2. \A h \in HolidaysIn(a, n) : h \in holidays
      BY DEF HolidaysIn
    <2>3. \A h \in {n - 2, n - 1} : h \in holidays => h \in HolidaysIn(a, n)
      BY <1>3, <2>1 DEF HolidaysIn
    <2> QED
      BY <1>2, <2>2, <2>3
  <1>5. /\ Cardinality({}) = 0 /\ IsFiniteSet({})
        /\ Cardinality({n - 2}) = 1 /\ IsFiniteSet({n - 2})
        /\ Cardinality({n - 1}) = 1
    BY FS_EmptySet, FS_Singleton
  <1>6. Cardinality({n - 2} \cup {n - 1}) = 2
    BY <1>5, FS_AddElement
  <1>7. CASE n - 2 \in holidays /\ n - 1 \in holidays
    <2>1. HolidaysIn(a, n) = {n - 2} \cup {n - 1}
      BY <1>4, <1>7
    <2> QED
      BY <1>6, <1>7, <2>1 DEF One
  <1>8. CASE n - 2 \in holidays /\ n - 1 \notin holidays
    <2>1. HolidaysIn(a, n) = {n - 2}
      BY <1>4, <1>8
    <2> QED
      BY <1>5, <1>8, <2>1 DEF One
  <1>9. CASE n - 2 \notin holidays /\ n - 1 \in holidays
    <2>1. HolidaysIn(a, n) = {n - 1}
      BY <1>4, <1>9
    <2> QED
      BY <1>5, <1>9, <2>1 DEF One
  <1>10. CASE n - 2 \notin holidays /\ n - 1 \notin holidays
    <2>1. HolidaysIn(a, n) = {}
      BY <1>4, <1>10
    <2> QED
      BY <1>5, <1>10, <2>1 DEF One
  <1> QED
    BY <1>7, <1>8, <1>9, <1>10

\* While no holiday is carried over, what is taken off and what is added make two
\* days for every weekend, one day longer too.
LEMMA PaidStep ==
    ASSUME NEW a \in Nat, NEW n \in Nat, a <= n, ~ CarriedIn(a, n + 1),
           Cardinality(PairsIn(a, n)) + Cardinality(PaidIn(a, n))
               = 2 * Cardinality(MondaysIn(a, n))
    PROVE  Cardinality(PairsIn(a, n + 1)) + Cardinality(PaidIn(a, n + 1))
               = 2 * Cardinality(MondaysIn(a, n + 1))
  <1>1. /\ Cardinality(PairsIn(a, n)) \in Nat
        /\ Cardinality(PairsIn(a, n + 1)) = Cardinality(PairsIn(a, n))
               + IF Weekday(n) = Monday /\ n >= a + 3
                   THEN Cardinality(HolidaysIn(a, n)) ELSE 0
    BY OneMorePair
  <1>2. /\ Cardinality(PaidIn(a, n)) \in Nat
        /\ Cardinality(PaidIn(a, n + 1)) = Cardinality(PaidIn(a, n))
               + IF Weekday(n) = Monday /\ n >= a + 3
                   THEN One(n - 2 \notin holidays) + One(n - 1 \notin holidays) ELSE 0
    BY OneMorePaid
  <1>3. /\ Cardinality(MondaysIn(a, n)) \in Nat
        /\ Cardinality(MondaysIn(a, n + 1)) = Cardinality(MondaysIn(a, n))
               + One(Weekday(n) = Monday /\ n >= a + 3)
    BY OneMoreMonday
  <1>4. Weekday(n) = Monday /\ n >= a + 3 =>
            Cardinality(HolidaysIn(a, n)) = One(n - 2 \in holidays) + One(n - 1 \in holidays)
    BY OwnWeekend
  <1> QED
    BY <1>1, <1>2, <1>3, <1>4 DEF One

LEMMA DaysInit == Init => IInv
  <1> SUFFICES ASSUME Init PROVE IInv
    OBVIOUS
  <1>1. from \in Nat /\ TypeOK /\ from <= day
    <2>1. from \in 0 .. LastDay /\ LastDay \in Nat /\ day = from
      BY DaysAssumption DEF Init
    <2>2. day \in 0 .. LastDay + 1 /\ from <= day /\ from \in Nat
      BY <2>1
    <2>3. days \in Int /\ weekendHolidays \in Nat
      BY DEF Init
    <2> QED
      BY <2>2, <2>3 DEF Init, TypeOK
  <1>2. FlagsSound
    BY DEF Init, FlagsSound
  <1>3. PlainCount
    <2>0. Cardinality(Workdays(from, from)) = 0
      <3>1. Workdays(from, from) = {}
        BY <1>1 DEF Workdays
      <3> QED
        BY <3>1, FS_EmptySet
    <2>1. day = from /\ days = 0 /\ Cardinality(Workdays(from, day)) = 0
      BY <2>0 DEF Init
    <2>2. FirstMonday = 0
      BY <1>1, <2>1 DEF FirstMonday, One
    <2> QED
      BY <2>1, <2>2 DEF PlainCount
  <1>4. FridaySound
    BY <1>1 DEF Init, FridaySound
  <1>5. day = from /\ days = 0 /\ weekendHolidays = 0
    BY DEF Init
  <1>6. HolidaysIn(from, day) = {} /\ MondaysIn(from, day) = {} /\ WeekendHolidays = {}
    <2>1. from \in Nat /\ from <= from
      BY <1>1
    <2>2. HolidaysIn(from, from) = {} /\ MondaysIn(from, from) = {}
      BY <2>1, OneMoreHoliday, OneMoreMonday
    <2>3. HolidaysIn(from, day) = {} /\ MondaysIn(from, day) = {}
      BY <1>5, <2>2
    <2> QED
      BY <2>3 DEF WeekendHolidays, HolidaysIn
  <1>e. PairsIn(from, day) = {} /\ PaidIn(from, day) = {}
    BY <1>6 DEF PairsIn, PaidIn
  <1>7. HolidaysCounted
    BY <1>5, <1>6, FS_EmptySet DEF HolidaysCounted
  <1>8. BridgedCount
    <2>1. Cardinality(Workdays(from, day)) = 0 /\ FirstMonday = 0
      BY <1>1, <1>5, OneMoreDay DEF FirstMonday, One
    <2> QED
      BY <1>5, <1>6, <1>e, <2>1, FS_EmptySet DEF BridgedCount
  <1>9. PairsArePaid
    BY <1>6, <1>e, FS_EmptySet DEF PairsArePaid
  <1> QED
    BY <1>1, <1>2, <1>3, <1>4, <1>7, <1>8, <1>9 DEF IInv

\* The flags of the turn for the day at the cursor.
LEMMA TurnFlags ==
    ASSUME TypeOK, from <= day, FlagsSound
    PROVE  /\ WeekendFlag <=> \/ Weekday(day) \in {Saturday, Sunday}
                              \/ Weekday(day) = Monday /\ day > from
           /\ DayFlag(isMonday, Monday) <=> Weekday(day) = Monday
  <1>1. from \in Nat /\ day \in Nat /\ Weekday(day) \in 0 .. 6
        /\ isWeekend \in BOOLEAN /\ isMonday \in BOOLEAN
    BY DaysAssumption, WeekdayNext DEF TypeOK
  <1>2. /\ Weekday(day) = 1 => (isWeekend <=> day > from)
        /\ Weekday(day) = 5 => ~ isWeekend /\ ~ isMonday
        /\ Weekday(day) \in {0, 6} => ~ isMonday
    <2>1. CASE day = from
      BY <1>1, <2>1 DEF FlagsSound
    <2>2. CASE day # from
      <3>1. day - 1 \in Nat /\ day - 1 + 1 = day /\ day > from
        BY <1>1, <2>2
      <3>2. /\ Weekday(day - 1) \in 0 .. 6
            /\ Weekday(day) = IF Weekday(day - 1) = 6 THEN 0 ELSE Weekday(day - 1) + 1
        BY <3>1, WeekdayNext
      <3>3. /\ isMonday <=> Weekday(day - 1) = 1
            /\ isWeekend <=> \/ Weekday(day - 1) \in {6, 0}
                             \/ Weekday(day - 1) = 1 /\ day - 1 > from
        BY <2>2 DEF FlagsSound, Sunday, Monday, Saturday
      <3> QED
        BY <3>1, <3>2, <3>3
    <2> QED
      BY <2>1, <2>2
  <1> QED
    BY <1>1, <1>2 DEF WeekendFlag, DayFlag, Sunday, Monday, Friday, Saturday

\* The Friday flag of the turn.
LEMMA TurnFriday ==
    ASSUME TypeOK, from <= day, FridaySound
    PROVE  DayFlag(isFriday, Friday) <=> \/ Weekday(day) = Friday
                                         \/ Weekday(day) = Saturday /\ day > from
                                         \/ Weekday(day) = Sunday /\ day > from + 1
                                         \/ Weekday(day) = Monday /\ day > from + 2
  <1>1. from \in Nat /\ day \in Nat /\ Weekday(day) \in 0 .. 6 /\ isFriday \in BOOLEAN
    BY DaysAssumption, WeekdayNext DEF TypeOK
  <1>2. CASE day = from
    BY <1>1, <1>2 DEF FridaySound, DayFlag, Sunday, Monday, Friday, Saturday
  <1>3. CASE day # from
    <2>1. day - 1 \in Nat /\ day - 1 + 1 = day /\ day > from
      BY <1>1, <1>3
    <2>2. /\ Weekday(day - 1) \in 0 .. 6
          /\ Weekday(day) = IF Weekday(day - 1) = 6 THEN 0 ELSE Weekday(day - 1) + 1
      BY <2>1, WeekdayNext
    <2>3. isFriday <=> \/ Weekday(day - 1) = 5
                       \/ Weekday(day - 1) = 6 /\ day > from + 1
                       \/ Weekday(day - 1) = 0 /\ day > from + 2
                       \/ Weekday(day - 1) = 1 /\ day > from + 3
      BY <2>1 DEF FridaySound, Sunday, Monday, Friday, Saturday
    <2>4. DayFlag(isFriday, Friday) <=> \/ Weekday(day) = 5
                                        \/ Weekday(day) \in {0, 1, 5, 6} /\ isFriday
      BY DEF DayFlag, Sunday, Monday, Friday, Saturday
    <2> QED
      BY <1>1, <2>1, <2>2, <2>3, <2>4 DEF Sunday, Monday, Friday, Saturday
  <1> QED
    BY <1>2, <1>3

LEMMA DaysNext == IInv /\ [CountDay]_vars => IInv'
  <1> SUFFICES ASSUME IInv, [CountDay]_vars PROVE IInv'
    OBVIOUS
  <1>1. CASE UNCHANGED vars
    BY <1>1 DEF IInv, vars, TypeOK, FlagsSound, PlainCount, Bridging, Workdays,
       FirstMonday, FridaySound, HolidaysCounted, WeekendHolidays, BridgedCount,
       PairsArePaid, MondaysIn, HolidaysIn, PairsIn, PaidIn, CarriedIn
  <1>2. CASE CountDay
    <2>1. /\ TypeOK /\ from <= day /\ FlagsSound /\ PlainCount
          /\ FridaySound /\ HolidaysCounted /\ BridgedCount /\ PairsArePaid
          /\ from \in Nat /\ day \in Nat /\ days \in Int /\ weekendHolidays \in Nat
          /\ day <= LastDay /\ LastDay \in Nat /\ day' = day + 1
          /\ UNCHANGED <<from, to, holidays, sandwich>>
      BY <1>2, DaysAssumption DEF IInv, TypeOK, CountDay, NextDay, input
    <2>2. /\ isWeekend' = WeekendFlag /\ isMonday' = DayFlag(isMonday, Monday)
          /\ isFriday' = DayFlag(isFriday, Friday)
      BY <1>2 DEF CountDay
    <2>3. TypeOK'
      <3>1. /\ WeekendFlag \in BOOLEAN /\ DayFlag(isMonday, Monday) \in BOOLEAN
            /\ DayFlag(isFriday, Friday) \in BOOLEAN
        BY <2>1 DEF WeekendFlag, DayFlag, TypeOK
      <3>2. days' \in Int /\ weekendHolidays' \in Nat
        BY <1>2, <2>1 DEF CountDay, One
      <3>3. day' \in 0 .. LastDay + 1
        BY <2>1
      <3> QED
        BY <3>1, <3>2, <3>3, <2>1, <2>2 DEF TypeOK
    <2>4. FlagsSound'
      <3>1. day' # from' /\ day' - 1 = day
        BY <2>1
      <3> QED
        BY <3>1, <2>1, <2>2, TurnFlags DEF FlagsSound
    <2>5. PlainCount'
      <3>1. SUFFICES ASSUME ~ Bridging
                     PROVE  days' = Cardinality(Workdays(from, day + 1))
                                      + One(Weekday(from) = Monday /\ from \notin holidays)
        BY <2>1 DEF PlainCount, Bridging, FirstMonday, Workdays, One
      <3>2. days = Cardinality(Workdays(from, day)) + FirstMonday
        BY <2>1, <3>1 DEF PlainCount
      <3>3. days' = days + One(~ WeekendFlag /\ day \notin holidays)
                         + One(DayFlag(isMonday, Monday) /\ day \notin holidays)
        BY <1>2, <2>1, <3>1 DEF CountDay, Bridges, One
      <3>4. Cardinality(Workdays(from, day)) \in Nat /\
            Cardinality(Workdays(from, day + 1)) = Cardinality(Workdays(from, day))
                + One(Weekday(day) \notin {Saturday, Sunday} /\ day \notin holidays)
        BY <2>1, OneMoreDay
      <3> QED
        BY <2>1, <3>2, <3>3, <3>4, TurnFlags
        DEF FirstMonday, One, Sunday, Monday, Saturday
    <2>6. FridaySound'
      BY <2>1, <2>2, TurnFriday DEF FridaySound
    <2>7. /\ WeekendHolidays = HolidaysIn(from, day)
          /\ WeekendHolidays' = HolidaysIn(from, day + 1)
          /\ MondaysIn(from, day)' = MondaysIn(from, day + 1)
          /\ PairsIn(from, day)' = PairsIn(from, day + 1)
          /\ PaidIn(from, day)' = PaidIn(from, day + 1)
          /\ CarriedIn(from, day)' = CarriedIn(from, day + 1)
      BY <2>1 DEF WeekendHolidays, HolidaysIn, MondaysIn, PairsIn, PaidIn, CarriedIn
    <2>8. Bridges <=> Bridging /\ Weekday(day) = Monday /\ day >= from + 3
      BY <2>1, TurnFlags, TurnFriday DEF Bridges, Sunday, Monday, Friday, Saturday
    <2>9. Bridging' <=> Bridging
      BY <2>1 DEF Bridging
    <2>10. HolidaysCounted'
      <3>0. from \in Nat /\ day \in Nat /\ from <= day
        BY <2>1
      <3>1. Bridging => (BridgedHoliday(from, day)
                           <=> (WeekendFlag /\ ~ Bridges /\ day \in holidays))
        BY <2>1, <2>8, <3>0, TurnFlags DEF BridgedHoliday, Sunday, Monday, Saturday
      <3>2. weekendHolidays' = weekendHolidays + One(Bridging /\ BridgedHoliday(from, day))
        BY <1>2, <3>1 DEF CountDay, One
      <3>3. /\ Cardinality(HolidaysIn(from, day)) \in Nat
            /\ Cardinality(HolidaysIn(from, day + 1))
                 = Cardinality(HolidaysIn(from, day)) + One(BridgedHoliday(from, day))
        BY <2>1, OneMoreHoliday
      <3> QED
        BY <2>1, <2>7, <2>9, <3>2, <3>3 DEF HolidaysCounted, One
    <2>11. BridgedCount'
      <3> DEFINE F == One(Weekday(from) = Monday /\ from \notin holidays)
      <3>1. SUFFICES ASSUME Bridging
                     PROVE  days' = Cardinality(Workdays(from, day + 1)) + F
                                      + 2 * Cardinality(MondaysIn(from, day + 1))
                                      - Cardinality(PairsIn(from, day + 1))
        BY <2>1, <2>7, <2>9 DEF BridgedCount, FirstMonday, Workdays, One
      <3>2. /\ days = Cardinality(Workdays(from, day)) + FirstMonday
                        + 2 * Cardinality(MondaysIn(from, day))
                        - Cardinality(PairsIn(from, day))
            /\ weekendHolidays = Cardinality(HolidaysIn(from, day))
        BY <2>1, <2>7, <3>1 DEF BridgedCount, HolidaysCounted
      <3>3. days' = days + One(~ WeekendFlag /\ day \notin holidays)
                         + (IF Bridges THEN 2 - weekendHolidays ELSE 0)
                         + One(DayFlag(isMonday, Monday) /\ day \notin holidays)
        BY <1>2 DEF CountDay
      <3>5. Cardinality(Workdays(from, day)) \in Nat /\
            Cardinality(Workdays(from, day + 1)) = Cardinality(Workdays(from, day))
                + One(Weekday(day) \notin {Saturday, Sunday} /\ day \notin holidays)
        BY <2>1, OneMoreDay
      <3>6. /\ Cardinality(MondaysIn(from, day)) \in Nat
            /\ Cardinality(MondaysIn(from, day + 1)) = Cardinality(MondaysIn(from, day))
                                           + One(Weekday(day) = Monday /\ day >= from + 3)
        BY <2>1, OneMoreMonday
      <3>4. /\ Cardinality(PairsIn(from, day)) \in Nat
            /\ Cardinality(PairsIn(from, day + 1)) = Cardinality(PairsIn(from, day))
                   + IF Weekday(day) = Monday /\ day >= from + 3
                       THEN Cardinality(HolidaysIn(from, day)) ELSE 0
        BY <2>1, OneMorePair
      <3>7. /\ WeekendFlag <=> \/ Weekday(day) \in {Saturday, Sunday}
                               \/ Weekday(day) = Monday /\ day > from
            /\ DayFlag(isMonday, Monday) <=> Weekday(day) = Monday
        BY <2>1, TurnFlags
      <3>8. F = FirstMonday + One(Weekday(day) = Monday /\ day = from /\ day \notin holidays)
        BY <2>1 DEF FirstMonday, One
      <3> QED
        BY <2>1, <2>8, <3>1, <3>2, <3>3, <3>4, <3>5, <3>6, <3>7, <3>8
        DEF FirstMonday, One, Sunday, Monday, Saturday
    <2>12. PairsArePaid'
      <3>1. SUFFICES ASSUME ~ CarriedIn(from, day + 1)
                     PROVE  Cardinality(PairsIn(from, day + 1))
                              + Cardinality(PaidIn(from, day + 1))
                                = 2 * Cardinality(MondaysIn(from, day + 1))
        BY <2>7 DEF PairsArePaid
      <3>2. from \in Nat /\ day \in Nat /\ from <= day
        BY <2>1
      <3>4. ~ CarriedIn(from, day)
        BY <3>1, <3>2, CarriedStays
      <3> QED
        BY <2>1, <3>1, <3>2, <3>4, PaidStep DEF PairsArePaid
    <2> QED
      BY <2>1, <2>3, <2>4, <2>5, <2>6, <2>10, <2>11, <2>12 DEF IInv
  <1> QED
    BY <1>1, <1>2

LEMMA DaysInductive == Spec => []IInv
  BY DaysInit, DaysNext, PTL DEF Spec

\* The loop's variables keep their types.
THEOREM DaysTypeCorrect == Spec => []TypeOK
  <1>1. IInv => TypeOK
    BY DEF IInv
  <1> QED
    BY <1>1, DaysInductive, PTL

\* The invariant in the words of LeaveDays.
LEMMA CountedIn ==
    ASSUME IInv
    PROVE  /\ from \in Nat /\ day \in Nat /\ from <= day /\ days \in Int
           /\ WeekendsInside = MondaysIn(from, day)
           /\ BridgedDays \ holidays = PaidIn(from, day)
           /\ Carried <=> CarriedIn(from, day)
           /\ ~ MondayStart => FirstMonday = 0
           /\ Cardinality(Workdays(from, day)) \in Nat
           /\ Cardinality(MondaysIn(from, day)) \in Nat
           /\ Cardinality(PairsIn(from, day)) \in Nat
           /\ Cardinality(PaidIn(from, day)) \in Nat
  <1>1. from \in Nat /\ day \in Nat /\ from <= day /\ days \in Int
    BY DaysAssumption DEF IInv, TypeOK
  <1>2. /\ WeekendsInside = MondaysIn(from, day)
        /\ WeekendHolidays = HolidaysIn(from, day)
    BY DEF WeekendsInside, MondaysIn, WeekendHolidays, HolidaysIn
  <1>3. BridgedDays \ holidays = PaidIn(from, day)
    BY <1>2 DEF BridgedDays, PaidIn
  <1>4. Carried <=> CarriedIn(from, day)
    BY <1>2 DEF Carried, CarriedIn
  <1>5. ~ MondayStart => FirstMonday = 0
    BY DEF MondayStart, FirstMonday, One
  <1> QED
    BY <1>1, <1>2, <1>3, <1>4, <1>5, OneMoreDay, OneMoreMonday, OneMorePair, OneMorePaid

\* Whatever the dates, the holidays and the months, a leave without bridged
\* weekends costs its working days, unless it starts on a working Monday.
THEOREM WorkdaysCounted == Spec => []CountsWorkdays
  <1>1. IInv => CountsWorkdays
    <2> SUFFICES ASSUME IInv, ~ Bridging, ~ MondayStart
                 PROVE  days = Cardinality(Workdays(from, day))
      BY DEF CountsWorkdays
    <2>1. days = Cardinality(Workdays(from, day)) + FirstMonday
      BY DEF IInv, PlainCount
    <2> QED
      BY <2>1, CountedIn
  <1> QED
    BY <1>1, DaysInductive, PTL

\* What is added and what is taken off make the cost of the bridged weekends.
LEMMA BridgedSum ==
    ASSUME IInv, Bridging, ~ MondayStart, ~ Carried
    PROVE  days = BridgedCost
  <1>1. days = Cardinality(Workdays(from, day)) + FirstMonday
                 + 2 * Cardinality(MondaysIn(from, day)) - Cardinality(PairsIn(from, day))
    BY DEF IInv, BridgedCount
  <1>2. Cardinality(PairsIn(from, day)) + Cardinality(PaidIn(from, day))
            = 2 * Cardinality(MondaysIn(from, day))
    BY CountedIn DEF IInv, PairsArePaid
  <1>3. BridgedCost = Cardinality(Workdays(from, day)) + Cardinality(PaidIn(from, day))
    BY CountedIn DEF BridgedCost
  <1> QED
    BY <1>1, <1>2, <1>3, CountedIn

\* Where the policy bridges weekends, each day of a weekend between a Friday and
\* a Monday of the leave that is no holiday is counted, whatever the holidays, as
\* long as none is carried over to a later weekend.
THEOREM WeekendsCounted == Spec => []CountsBridgedWeekends
  <1>1. IInv => CountsBridgedWeekends
    BY BridgedSum DEF CountsBridgedWeekends
  <1> QED
    BY <1>1, DaysInductive, PTL

\* The cursor moves away from an end date it has passed and never jumps over one
\* that is ahead: with reversed dates the loop never ends, otherwise it never
\* leaves the days of the leave.
THEOREM EndReached ==
    Spec => /\ from > to => [](day # to)
            /\ from <= to => [](day <= to)
  <1>1. IInv /\ from > to => day # to
    BY DaysAssumption DEF IInv, TypeOK
  <1>2. from > to /\ [CountDay]_vars => (from > to)'
    BY DEF CountDay, vars, input
  <1>3. Init /\ from <= to => day <= to
    BY DEF Init
  <1>4. IInv /\ day <= to /\ [CountDay]_vars => (day <= to)'
    BY DaysAssumption DEF IInv, TypeOK, CountDay, NextDay, vars, input
  <1> QED
    BY <1>1, <1>2, <1>3, <1>4, DaysInductive, PTL DEF Spec

\* Every day has a first day of its month.
LEMMA FirstOfMonthFound ==
    ASSUME NEW n \in Nat
    PROVE  FirstOfMonth(n) \in Nat /\ FirstOfMonth(n) <= n
  <1> DEFINE S == {k \in Nat : n - k \in MonthStarts /\ n - k <= n}
             P(m) == m <= n /\ \A k \in MonthStarts : k <= n => k <= m
  <1>1. n \in S
    BY DaysAssumption
  <1>2. PICK d \in S : \A k \in S : <<k, d>> \notin OpToRel(<, Nat)
    <2> HIDE DEF S
    <2>1. S \subseteq Nat
      BY DEF S
    <2> QED
      BY <1>1, <2>1, NatLessThanWellFounded, WFMin
  <1>3. ASSUME NEW k \in S PROVE d <= k
    <2>1. SUFFICES ASSUME k < d PROVE FALSE
      OBVIOUS
    <2>2. <<k, d>> \in Nat \X Nat /\ k < d
      BY <2>1
    <2>3. <<k, d>> \in OpToRel(<, Nat)
      BY <2>2 DEF OpToRel
    <2> QED
      BY <1>2, <2>3
  <1>4. n - d \in MonthStarts /\ P(n - d)
    <2>1. n - d \in MonthStarts /\ n - d \in Nat /\ n - d <= n
      BY DaysAssumption
    <2>2. ASSUME NEW k \in MonthStarts, k <= n PROVE k <= n - d
      <3>1. k \in Nat /\ n - k \in Nat /\ n - (n - k) = k
        BY <2>2, DaysAssumption
      <3>2. n - k \in S
        BY <2>2, <3>1
      <3>3. d <= n - k
        BY <1>3, <3>2
      <3> QED
        BY <3>1, <3>3
    <2> QED
      BY <2>1, <2>2
  <1>5. FirstOfMonth(n) = CHOOSE m \in MonthStarts : P(m)
    BY DEF FirstOfMonth
  <1>6. FirstOfMonth(n) \in MonthStarts /\ P(FirstOfMonth(n))
    <2> HIDE DEF P
    <2> QED
      BY <1>4, <1>5
  <1> QED
    BY <1>6, DaysAssumption

LEMMA WeeksAndDays ==
    ASSUME NEW n \in Nat
    PROVE  n % 7 \in 0 .. 6 /\ n \div 7 \in Nat /\ n = 7 * (n \div 7) + (n % 7)
  <1>1. n % 7 \in 0 .. 6
    OBVIOUS
  <1>2. n \div 7 \in Nat
    OBVIOUS
  <1>3. n = 7 * (n \div 7) + (n % 7)
    OBVIOUS
  <1> QED
    BY <1>1, <1>2, <1>3

LEMMA WholeWeeks ==
    ASSUME NEW q \in Int, NEW r \in 0 .. 6
    PROVE  (7 * q + r) \div 7 = q
  OBVIOUS

\* Within a month the week number changes with every Sunday.
LEMMA SameWeekOfMonth ==
    ASSUME NEW a \in Nat, NEW b \in Nat, FirstOfMonth(a) = FirstOfMonth(b),
           WeekOfMonth(a) = WeekOfMonth(b)
    PROVE  a \div 7 = b \div 7
  <1> DEFINE f == FirstOfMonth(a)
  <1>1. f \in Nat /\ f <= a /\ f <= b
    BY FirstOfMonthFound
  <1>2. (a - f + (f % 7)) \div 7 + 1 = (b - f + (f % 7)) \div 7 + 1
    <2>1. WeekOfMonth(a) = (a - f + (f % 7)) \div 7 + 1
      BY Zenon DEF WeekOfMonth, Weekday
    <2>2. WeekOfMonth(b) = (b - FirstOfMonth(b) + (FirstOfMonth(b) % 7)) \div 7 + 1
      BY Zenon DEF WeekOfMonth, Weekday
    <2>3. f = FirstOfMonth(b)
      OBVIOUS
    <2> HIDE DEF f
    <2> QED
      BY <2>1, <2>2, <2>3
  <1> HIDE DEF f
  <1>3. /\ f % 7 \in 0 .. 6 /\ f \div 7 \in Nat /\ f = 7 * (f \div 7) + (f % 7)
        /\ a \div 7 \in Nat /\ a % 7 \in 0 .. 6 /\ a = 7 * (a \div 7) + (a % 7)
        /\ b \div 7 \in Nat /\ b % 7 \in 0 .. 6 /\ b = 7 * (b \div 7) + (b % 7)
    BY <1>1, WeeksAndDays
  <1>4. /\ (a - f + (f % 7)) \div 7 = (a \div 7) - (f \div 7)
        /\ (b - f + (f % 7)) \div 7 = (b \div 7) - (f \div 7)
    <2>1. a - f + (f % 7) = 7 * ((a \div 7) - (f \div 7)) + (a % 7)
      BY <1>1, <1>3
    <2>2. b - f + (f % 7) = 7 * ((b \div 7) - (f \div 7)) + (b % 7)
      BY <1>1, <1>3
    <2>3. (a \div 7) - (f \div 7) \in Int /\ (b \div 7) - (f \div 7) \in Int
      BY <1>3
    <2> QED
      BY <1>3, <2>1, <2>2, <2>3, WholeWeeks
  <1> QED
    BY <1>2, <1>3, <1>4

\* A leave that ends in its week of the month has no weekend inside.
LEMMA NoWeekendInside ==
    ASSUME IInv, from <= to, day <= to, FirstOfMonth(from) = FirstOfMonth(to),
           WeekOfMonth(from) = WeekOfMonth(to)
    PROVE  WeekendsInside = {} /\ BridgedDays = {}
  <1>1. from \in Nat /\ to \in Nat /\ day \in Nat
    BY DaysAssumption DEF IInv, TypeOK
  <1>2. from \div 7 = to \div 7
    BY <1>1, SameWeekOfMonth
  <1>3. ASSUME NEW m \in from + 3 .. day - 1, m % 7 = 1 PROVE FALSE
    BY <1>1, <1>2, <1>3
  <1> QED
    BY <1>3 DEF WeekendsInside, BridgedDays, Weekday, Monday

\* In a leave within one month the policy bridges every weekend, though the loop
\* compares week numbers only.
THEOREM MonthBridged == Spec => []WithinMonthBridged
  <1>1. IInv /\ (from <= to => day <= to) => WithinMonthBridged
    <2> SUFFICES ASSUME IInv, from <= to => day <= to, sandwich, from <= to,
                        FirstOfMonth(from) = FirstOfMonth(to),
                        ~ MondayStart, ~ Carried
                 PROVE  days = BridgedCost
      BY DEF WithinMonthBridged
    <2>1. CASE Bridging
      BY <2>1, BridgedSum
    <2>2. CASE ~ Bridging
      <3>1. BridgedDays \ holidays = {}
        BY <2>2, NoWeekendInside DEF Bridging
      <3>2. days = Cardinality(Workdays(from, day)) + FirstMonday
        BY <2>2 DEF IInv, PlainCount
      <3>3. BridgedCost = Cardinality(Workdays(from, day)) + 0
        BY <3>1, FS_EmptySet DEF BridgedCost
      <3> QED
        BY <3>2, <3>3, CountedIn
    <2> QED
      BY <2>1, <2>2
  <1>2. Init => (from <= to => day <= to)
    BY DEF Init
  <1>3. IInv /\ (from <= to => day <= to) /\ [CountDay]_vars => (from <= to => day <= to)'
    BY DaysAssumption DEF IInv, TypeOK, CountDay, NextDay, vars, input
  <1> QED
    BY <1>1, <1>2, <1>3, DaysInductive, PTL DEF Spec

=============================================================================
