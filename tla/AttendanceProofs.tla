--------------------------- MODULE AttendanceProofs ---------------------------
(***************************************************************************)
(* Theorems about Attendance: its types, that a successful manual entry    *)
(* takes effect, and that a manual entry never erases its user's day.      *)
(***************************************************************************)
EXTENDS Attendance, TLAPS

\* The row the k-th entry of a call asks for.
PunchOf(x, k) == [user |-> x.user, time |-> x.entries[k].time, device |-> "manual"]

\* What an open transaction x has done so far: the windows of its entries, but
\* those whose lookup failed, are empty in what is left of the rows it saw, it
\* writes rows of its user only, and it deletes nothing without writing something.
Sound(x) ==
    /\ x.user \in Users
    /\ x.done <= Len(x.entries)
    /\ x.deleted \subseteq x.seen
    /\ \A k \in 1 .. x.done : /\ x.entries[k].time \in Time
                              /\ k \notin x.missed => \A r \in x.seen \ x.deleted :
                                 r.time \notin Window(x.entries[k])
    /\ \A r \in x.added : r.user = x.user
    /\ x.deleted # {} => x.added # {}

\* While its entries are in order the rows a transaction adds are exactly the
\* punches of the entries it has entered.
Entered(x) ==
    /\ \A k \in 1 .. x.done : PunchOf(x, k) \in x.added
    /\ \A r \in x.added : \E k \in 1 .. x.done : r = PunchOf(x, k)

InOrder(x) == \A i, k \in 1 .. x.done : i < k => x.entries[i].time < x.entries[k].time

TxnInv(x) == x.phase # "idle" => Sound(x) /\ (InOrder(x) => Entered(x))

IInv == TypeOK /\ \A t \in Threads : TxnInv(txn[t])

\* An entry, whatever its kind.
Entry == [name : {"in_time", "out_time"}, time : Time \cup {NoTime}]

\* The page posts at most two entries, the in time first.
LEMMA CallShape ==
    ASSUME NEW c \in Calls
    PROVE  /\ c \in Seq(Entry) /\ Len(c) \in 0 .. 2 /\ DOMAIN c = 1 .. Len(c)
           /\ \A k \in 1 .. Len(c) : c[k] \in Entry
           /\ Len(c) = 2 => c[1].name = "in_time" /\ c[2].name = "out_time"
  <1>e. InEntry \subseteq Entry /\ OutEntry \subseteq Entry
    BY AttendanceAssumption DEF InEntry, OutEntry, Entry
  <1>1. CASE c = <<>>
    BY <1>1
  <1>2. CASE \E e \in InEntry \cup OutEntry : c = <<e>>
    BY <1>2, <1>e
  <1>3. CASE \E i \in InEntry, o \in OutEntry : c = <<i, o>>
    BY <1>3, <1>e DEF InEntry, OutEntry
  <1> QED
    BY <1>1, <1>2, <1>3 DEF Calls

\* An idle transaction, or one that has just read its rows, is sound.
LEMMA InitInductive == Init => IInv
  <1> SUFFICES ASSUME Init PROVE IInv
    OBVIOUS
  <1>1. Idle \in Txn /\ Idle.phase = "idle"
    BY DEF Idle, Txn, Calls
  <1> QED
    BY <1>1 DEF Init, IInv, TypeOK, TxnInv

\* Entering a time keeps the transaction sound, and its rows those of the
\* entries as long as these are in order.
LEMMA EnterKeeps ==
    ASSUME NEW x \in Txn, Sound(x), InOrder(x) => Entered(x),
           NEW n, n = x.done + 1, n <= Len(x.entries), x.entries[n].time # NoTime,
           NEW all, all = {r \in (x.seen \ x.deleted) \cup x.added :
                                r.time \in Window(x.entries[n])},
           NEW gone \in {all, {}}, NEW missed,
           missed = IF gone = all THEN x.missed ELSE x.missed \cup {n},
           NEW y,
           y = [x EXCEPT !.done = n, !.missed = missed,
                         !.deleted = @ \cup (gone \cap x.seen),
                         !.added = (@ \ gone) \cup {PunchOf(x, n)}]
    PROVE  y \in Txn /\ Sound(y) /\ (InOrder(y) => Entered(y))
  <1>1. /\ Len(x.entries) \in 0 .. 2
        /\ \A k \in 1 .. Len(x.entries) : x.entries[k] \in Entry
        /\ Len(x.entries) = 2 => x.entries[1].name = "in_time" /\ x.entries[2].name = "out_time"
    BY CallShape DEF Txn
  <1>2. x.done \in 0 .. 2 /\ n \in 1 .. 2 /\ n \in 1 .. Len(x.entries)
    BY <1>1 DEF Txn
  <1>3. /\ y.phase = x.phase /\ y.user = x.user /\ y.entries = x.entries
        /\ y.seen = x.seen /\ y.done = n /\ y.missed = missed
        /\ y.deleted = x.deleted \cup (gone \cap x.seen)
        /\ y.added = (x.added \ gone) \cup {PunchOf(x, n)}
    BY DEF Txn
  <1>4. x.entries[n].time \in Time /\ PunchOf(x, n) \in Record
    BY <1>1, <1>2 DEF Entry, PunchOf, Record, Sound
  <1>5. y \in Txn
    <2>0. missed \in SUBSET (1 .. 2)
      BY <1>2 DEF Txn
    <2>1. /\ y.done \in 0 .. 2
          /\ y.deleted \in SUBSET Record
          /\ y.added \in SUBSET Record
      BY <1>2, <1>3, <1>4 DEF Txn
    <2> QED
      BY <2>0, <2>1, <1>2, <1>4 DEF Txn
  <1>6. Sound(y)
    <2>1. y.user \in Users /\ y.done <= Len(y.entries) /\ y.deleted \subseteq y.seen
      BY <1>3 DEF Sound
    <2>2. ASSUME NEW k \in 1 .. y.done
          PROVE  /\ y.entries[k].time \in Time
                 /\ k \notin y.missed =>
                       \A r \in y.seen \ y.deleted : r.time \notin Window(y.entries[k])
      <3>1. CASE k = n
        <4>1. n \notin y.missed => gone = all
          BY <1>3
        <4> QED
          BY <3>1, <4>1, <1>3, <1>4
      <3>2. CASE k # n
        <4>1. k \in 1 .. x.done
          BY <3>2, <2>2, <1>2, <1>3
        <4> QED
          BY <4>1, <1>3 DEF Sound
      <3> QED
        BY <3>1, <3>2
    <2>3. \A r \in y.added : r.user = y.user
      BY <1>3 DEF Sound, PunchOf
    <2>4. y.deleted # {} => y.added # {}
      BY <1>3
    <2> QED
      BY <2>1, <2>2, <2>3, <2>4 DEF Sound
  <1>7. ASSUME InOrder(y) PROVE Entered(y)
    <2>1. InOrder(x)
      BY <1>2, <1>3, <1>7 DEF InOrder
    <2>2. \A k : PunchOf(y, k) = PunchOf(x, k)
      BY <1>3 DEF PunchOf
    <2>3. ASSUME NEW k \in 1 .. y.done PROVE PunchOf(y, k) \in y.added
      <3>1. CASE k = n
        <4>1. PunchOf(y, n) = PunchOf(x, n)
          BY <1>3 DEF PunchOf
        <4> QED
          BY <3>1, <4>1, <1>3
      <3>2. CASE k # n
        <4>1. k \in 1 .. x.done /\ k = 1 /\ n = 2 /\ Len(x.entries) = 2
          BY <3>2, <2>3, <1>1, <1>2, <1>3
        <4>2. x.entries[1].time < x.entries[2].time
          BY <4>1, <1>3, <1>7 DEF InOrder
        <4>3. x.entries[1].time \in Time
          BY <4>1 DEF Sound
        <4>4. x.entries[1].time \notin Window(x.entries[2])
          BY <4>1, <4>2, <4>3, <1>1, <1>4 DEF Window, Time
        <4>5. PunchOf(x, 1) \in x.added /\ PunchOf(x, 1).time = x.entries[1].time
          BY <4>1, <2>1 DEF Entered, PunchOf
        <4> QED
          BY <4>1, <4>4, <4>5, <2>2, <2>3, <1>3
      <3> QED
        BY <3>1, <3>2
    <2>4. ASSUME NEW r \in y.added PROVE \E k \in 1 .. y.done : r = PunchOf(y, k)
      <3>1. CASE r = PunchOf(x, n)
        <4>1. n \in 1 .. y.done
          BY <1>2, <1>3
        <4> QED
          BY <3>1, <4>1, <2>2
      <3>2. CASE r \in x.added
        <4>1. PICK k \in 1 .. x.done : r = PunchOf(x, k)
          BY <3>2, <2>1 DEF Entered
        <4>2. k \in 1 .. y.done
          BY <4>1, <1>2, <1>3
        <4> QED
          BY <4>1, <4>2, <2>2
      <3> QED
        BY <3>1, <3>2, <1>3
    <2> QED
      BY <2>3, <2>4 DEF Entered
  <1> QED
    BY <1>5, <1>6, <1>7

\* Every step keeps the types and the state of the open transactions.
LEMMA NextInductive == IInv /\ [Next]_vars => IInv'
  <1> SUFFICES ASSUME IInv, [Next]_vars PROVE IInv'
    OBVIOUS
  <1>0. /\ records \subseteq Record /\ txn \in [Threads -> Txn]
        /\ answer \in [Threads -> {"NONE", "SUCCESS", "FAILURE"}]
        /\ \A t \in Threads : TxnInv(txn[t])
    BY DEF IInv, TypeOK
  <1>i. Idle \in Txn /\ TxnInv(Idle)
    BY DEF Idle, Txn, Calls, TxnInv
  <1>a. ASSUME NEW t \in Threads, NEW y \in Txn, TxnInv(y),
               txn' = [txn EXCEPT ![t] = y],
               records' \subseteq Record,
               answer' \in [Threads -> {"NONE", "SUCCESS", "FAILURE"}]
        PROVE  IInv'
    BY <1>a, <1>0 DEF IInv, TypeOK
  <1>1. ASSUME NEW lines \in SUBSET TerminalRecord, Upload(lines) PROVE IInv'
    <2>1. lines \subseteq Record
      BY <1>1, AttendanceAssumption DEF TerminalRecord, Record
    <2> QED
      BY <1>0, <1>1, <2>1 DEF Upload, IInv, TypeOK
  <1>2. ASSUME NEW t \in Threads, NEW u \in Users \cup {NoUser}, NEW entries \in Calls,
               Begin(t, u, entries)
        PROVE  IInv'
    <2>1. CASE u \in Users /\ txn' # txn
      <3> DEFINE y == [Idle EXCEPT !.phase = "open", !.user = u,
                                   !.entries = entries, !.seen = records]
      <3>1. /\ y.phase = "open" /\ y.user = u /\ y.entries = entries /\ y.done = 0
            /\ y.missed = {} /\ y.seen = records /\ y.deleted = {} /\ y.added = {}
        BY DEF Idle
      <3>2. y \in Txn
        BY <2>1, <1>0, <1>2, <1>i DEF Txn
      <3>3. 0 <= Len(entries)
        BY CallShape
      <3>4. Sound(y)
        BY <3>1, <3>3, <2>1, <1>2 DEF Sound
      <3>5. Entered(y)
        BY <3>1 DEF Entered
      <3>6. TxnInv(y)
        BY <3>4, <3>5 DEF TxnInv
      <3>7. /\ txn' = [txn EXCEPT ![t] = y] /\ records' = records
            /\ answer' = [answer EXCEPT ![t] = "NONE"]
        BY <1>2, <2>1 DEF Begin
      <3> HIDE DEF y
      <3> QED
        BY <3>2, <3>6, <3>7, <1>0, <1>a
    <2>2. CASE txn' = txn
      BY <1>0, <1>2, <2>2 DEF Begin, IInv, TypeOK
    <2> QED
      BY <2>1, <2>2, <1>2 DEF Begin
  <1>3. ASSUME NEW t \in Threads, EnterTime(t) PROVE IInv'
    <2> DEFINE x == txn[t]
               n == x.done + 1
               all == {r \in (x.seen \ x.deleted) \cup x.added :
                           r.time \in Window(x.entries[n])}
    <2>1. /\ x \in Txn /\ x.phase = "open" /\ Sound(x) /\ (InOrder(x) => Entered(x))
          /\ x.done < Len(x.entries) /\ x.entries[n].time # NoTime
      BY <1>0, <1>3 DEF EnterTime, HasNext, NextEntry, TxnInv
    <2>2. n <= Len(x.entries)
      <3>1. x.done \in 0 .. 2 /\ Len(x.entries) \in 0 .. 2
        BY <2>1, CallShape DEF Txn
      <3> QED
        BY <2>1, <3>1
    <2>3. CASE Punch(t) \in View(t)
      <3> DEFINE z == [x EXCEPT !.phase = "doomed"]
      <3>1. z \in Txn /\ TxnInv(z)
        BY <2>1 DEF Txn, TxnInv, Sound, InOrder, Entered, PunchOf
      <3>2. txn' = [txn EXCEPT ![t] = z] /\ UNCHANGED <<records, answer>>
        BY <1>3, <2>3 DEF EnterTime
      <3> HIDE DEF z
      <3> QED
        BY <3>1, <3>2, <1>0, <1>a
    <2>4. CASE Punch(t) \notin View(t)
      <3>1. ToBeDeleted(t, NextEntry(t)) = all
        BY DEF ToBeDeleted, NextEntry, View
      <3>2. PICK gone \in {all, {}} : txn' = [txn EXCEPT ![t] = AfterEntry(t, gone)]
        BY <1>3, <2>4, <3>1 DEF EnterTime, LookedUp
      <3> DEFINE missed == IF gone = all THEN x.missed ELSE x.missed \cup {n}
                 y == AfterEntry(t, gone)
      <3>3. y = [x EXCEPT !.done = n, !.missed = missed,
                          !.deleted = @ \cup (gone \cap x.seen),
                          !.added = (@ \ gone) \cup {PunchOf(x, n)}]
        BY <3>1 DEF AfterEntry, NextEntry, Punch, PunchOf
      <3>4. y \in Txn /\ Sound(y) /\ (InOrder(y) => Entered(y))
        BY <2>1, <2>2, <3>3, EnterKeeps
      <3>5. TxnInv(y)
        BY <3>4 DEF TxnInv
      <3>6. UNCHANGED <<records, answer>>
        BY <1>3 DEF EnterTime
      <3>7. txn' = [txn EXCEPT ![t] = y]
        BY <3>2
      <3> HIDE DEF y
      <3> QED
        BY <3>4, <3>5, <3>6, <3>7, <1>0, <1>a
    <2> QED
      BY <2>3, <2>4
  <1>4. ASSUME NEW t \in Threads, Refuse(t) PROVE IInv'
    <2> DEFINE z == [txn[t] EXCEPT !.phase = "refused"]
    <2>1. z \in Txn /\ TxnInv(z)
      BY <1>0, <1>4 DEF Refuse, HasNext, Txn, TxnInv, Sound, InOrder, Entered, PunchOf
    <2>2. txn' = [txn EXCEPT ![t] = z] /\ UNCHANGED <<records, answer>>
      BY <1>4 DEF Refuse
    <2> HIDE DEF z
    <2> QED
      BY <2>1, <2>2, <1>0, <1>a
  <1>5. ASSUME NEW t \in Threads, Commit(t) PROVE IInv'
    <2>1. txn[t].deleted \subseteq Record /\ txn[t].added \subseteq Record
      BY <1>0 DEF Txn
    <2> QED
      BY <1>0, <1>5, <1>i, <1>a, <2>1 DEF Commit
  <1>6. ASSUME NEW t \in Threads, Rollback(t) PROVE IInv'
    BY <1>0, <1>6, <1>i, <1>a DEF Rollback
  <1>7. CASE UNCHANGED vars
    BY <1>7 DEF vars, IInv, TypeOK
  <1> QED
    BY <1>1, <1>2, <1>3, <1>4, <1>5, <1>6, <1>7 DEF Next

\* The inductive invariant of the manual entries.
THEOREM AttendanceInductive == Spec => []IInv
  <1>1. Init => IInv
    BY InitInductive
  <1>2. IInv /\ [Next]_vars => IInv'
    BY NextInductive
  <1> QED
    BY <1>1, <1>2, PTL DEF Spec

\* Type correctness.
THEOREM AttendanceTypeCorrect == Spec => []TypeOK
  <1>1. IInv => TypeOK
    BY DEF IInv
  <1> QED
    BY <1>1, AttendanceInductive, PTL

-----------------------------------------------------------------------------
\* A call ends by its commit or its rollback, and only the first succeeds.
LEMMA EndsByCommit ==
    ASSUME IInv, [Next]_vars, NEW t \in Threads, NEW a, Ends(t, a)
    PROVE  Commit(t) \/ (Rollback(t) /\ a = "FAILURE")
  <1>0. txn \in [Threads -> Txn] /\ answer \in [Threads -> {"NONE", "SUCCESS", "FAILURE"}]
    BY DEF IInv, TypeOK
  <1>1. txn'[t].phase = "idle" /\ txn[t].phase # "idle" /\ txn'[t] # txn[t]
    BY DEF Ends
  <1>2. ASSUME NEW lines, Upload(lines) PROVE FALSE
    BY <1>1, <1>2 DEF Upload
  <1>3. ASSUME NEW v \in Threads, NEW u, NEW entries, Begin(v, u, entries) PROVE FALSE
    <2>1. v # t
      BY <1>1, <1>3 DEF Begin
    <2> QED
      BY <2>1, <1>0, <1>1, <1>3 DEF Begin
  <1>4. ASSUME NEW v \in Threads, EnterTime(v) PROVE FALSE
    <2>1. CASE v # t
      BY <2>1, <1>0, <1>1, <1>4 DEF EnterTime
    <2>2. CASE v = t
      <3>1. txn[t] \in Txn /\ txn[t].phase = "open"
        BY <2>2, <1>0, <1>4 DEF EnterTime, HasNext
      <3>2. \A gone : AfterEntry(t, gone).phase = "open"
        BY <3>1 DEF AfterEntry, Txn
      <3>3. \E gone : txn'[t] = IF Punch(t) \in View(t)
                                 THEN [txn[t] EXCEPT !.phase = "doomed"]
                                 ELSE AfterEntry(t, gone)
        BY <2>2, <1>0, <1>4 DEF EnterTime
      <3> QED
        BY <3>1, <3>2, <3>3, <1>1 DEF Txn
    <2> QED
      BY <2>1, <2>2
  <1>5. ASSUME NEW v \in Threads, Refuse(v) PROVE FALSE
    <2>1. CASE v # t
      BY <2>1, <1>0, <1>1, <1>5 DEF Refuse
    <2>2. CASE v = t
      BY <2>2, <1>0, <1>1, <1>5 DEF Refuse, Txn
    <2> QED
      BY <2>1, <2>2
  <1>6. ASSUME NEW v \in Threads, v # t, Commit(v) \/ Rollback(v) PROVE FALSE
    BY <1>0, <1>1, <1>6 DEF Commit, Rollback
  <1>7. ASSUME Rollback(t) PROVE a = "FAILURE"
    BY <1>0, <1>7 DEF Rollback, Ends
  <1>8. CASE UNCHANGED vars
    BY <1>1, <1>8 DEF vars
  <1> QED
    BY <1>2, <1>3, <1>4, <1>5, <1>6, <1>7, <1>8 DEF Next

\* A manual entry never erases the day of its user.
THEOREM DaysAreKept == Spec => DayNotErased
  <1>1. ASSUME IInv, [Next]_vars, NEW t \in Threads, NEW a \in {"SUCCESS", "FAILURE"},
               Ends(t, a), PunchesOf(txn[t].user, records) # {}
        PROVE  PunchesOf(txn[t].user, records') # {}
    <2>1. CASE Rollback(t)
      BY <2>1, <1>1 DEF Rollback
    <2>2. CASE Commit(t)
      <3>1. Sound(txn[t]) /\ records' = (records \ txn[t].deleted) \cup txn[t].added
        BY <1>1, <2>2 DEF IInv, TxnInv, Ends, Commit
      <3>2. CASE txn[t].added = {}
        BY <3>1, <3>2, <1>1 DEF Sound, PunchesOf
      <3>3. CASE txn[t].added # {}
        <4>1. PICK r \in txn[t].added : TRUE
          BY <3>3
        <4> QED
          BY <4>1, <3>1 DEF Sound, PunchesOf
      <3> QED
        BY <3>2, <3>3
    <2> QED
      BY <1>1, <2>1, <2>2, EndsByCommit
  <1>2. IInv /\ [Next]_vars =>
            [\A t \in Threads : \A a \in {"SUCCESS", "FAILURE"} :
                Ends(t, a) /\ PunchesOf(txn[t].user, records) # {}
                    => PunchesOf(txn[t].user, records') # {}]_vars
    BY <1>1
  <1> QED
    BY <1>2, AttendanceInductive, PTL DEF Spec, DayNotErased

\* What a successful entry leaves behind, in the state it commits in.
LEMMA EffectStep ==
    ASSUME IInv, [Next]_vars, NEW t \in Threads, Ends(t, "SUCCESS"),
           Ordered(txn[t].entries), NEW k \in DOMAIN txn[t].entries
    PROVE  /\ PunchOf(txn[t], k) \in records'
           /\ k \notin txn[t].missed =>
                 \A r \in records' \cap txn[t].seen :
                     r.user = txn[t].user => r.time \notin Window(txn[t].entries[k])
  <1> DEFINE x == txn[t]
             c == x.entries
  <1>1. Commit(t)
    BY EndsByCommit
  <1>2. x \in Txn /\ c \in Calls /\ answer \in [Threads -> {"NONE", "SUCCESS", "FAILURE"}]
    BY DEF IInv, TypeOK, Txn
  <1>3. /\ Len(c) \in 0 .. 2 /\ DOMAIN c = 1 .. Len(c)
        /\ Len(c) = 2 => c[1].name = "in_time" /\ c[2].name = "out_time"
    BY <1>2, CallShape
  <1>4. x.done = Len(c)
    BY <1>1, <1>2 DEF Commit, Ends, Done
  <1>5. Sound(x) /\ InOrder(x) /\ Entered(x)
    <2>1. InOrder(x)
      BY <1>3, <1>4 DEF InOrder, Ordered
    <2> QED
      BY <2>1 DEF IInv, TxnInv, Ends
  <1>6. records' = (records \ x.deleted) \cup x.added
    BY <1>1 DEF Commit
  <1>7. k \in 1 .. x.done /\ x.done \in 0 .. 2
    BY <1>3, <1>4
  <1>8. PunchOf(x, k) \in records'
    BY <1>5, <1>6, <1>7 DEF Entered
  <1>9. ASSUME k \notin x.missed, NEW r \in records', r \in x.seen
        PROVE  r.time \notin Window(c[k])
    <2>1. CASE r \notin x.added
      BY <2>1, <1>5, <1>6, <1>7, <1>9 DEF Sound
    <2>2. CASE r \in x.added
      <3>1. PICK j \in 1 .. x.done : r = PunchOf(x, j)
        BY <2>2, <1>5 DEF Entered
      <3>2. r.time = c[j].time /\ c[j].time \in Time /\ c[k].time \in Time
        BY <3>1, <1>5, <1>7 DEF PunchOf, Sound
      <3>3. CASE j = k
        BY <3>2, <3>3 DEF Window, Time
      <3>4. CASE j < k
        <4>1. j = 1 /\ k = 2 /\ Len(c) = 2
          BY <3>4, <1>7, <1>4
        <4>2. c[1].time < c[2].time
          BY <4>1, <1>4, <1>5 DEF InOrder
        <4> QED
          BY <4>1, <4>2, <3>2, <1>3 DEF Window, Time
      <3>5. CASE k < j
        <4>0. k \in 1 .. 2 /\ j \in 1 .. 2 /\ x.done \in 0 .. 2 /\ j \in 1 .. x.done
          BY <3>1, <1>7
        <4>a. k = 1 /\ j = 2
          BY <4>0, <3>5
        <4>b. x.done = 2
          BY <4>0, <4>a
        <4>1. k = 1 /\ j = 2 /\ Len(c) = 2
          BY <4>a, <4>b, <1>4
        <4>2. c[1].time < c[2].time
          BY <4>1, <1>4, <1>5 DEF InOrder
        <4> QED
          BY <4>1, <4>2, <3>2, <1>3 DEF Window, Time
      <3> QED
        BY <3>3, <3>4, <3>5, <3>1, <1>7
    <2> QED
      BY <2>1, <2>2
  <1> QED
    BY <1>8, <1>9

\* A successful manual entry takes effect, whatever happens meanwhile.
THEOREM CorrectionsHold == Spec => CorrectionTakesEffect
  <1>1. IInv /\ [Next]_vars =>
            [\A t \in Threads : Ends(t, "SUCCESS") /\ Ordered(txn[t].entries) =>
                \A k \in DOMAIN txn[t].entries :
                    LET e == txn[t].entries[k]
                    IN  /\ [user |-> txn[t].user, time |-> e.time, device |-> "manual"]
                               \in records'
                        /\ k \notin txn[t].missed =>
                              \A r \in records' \cap txn[t].seen :
                                  r.user = txn[t].user => r.time \notin Window(e)]_vars
    BY EffectStep DEF PunchOf
  <1> QED
    BY <1>1, AttendanceInductive, PTL DEF Spec, CorrectionTakesEffect

=============================================================================
