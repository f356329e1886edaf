---------------------------- MODULE SummaryProofs ----------------------------
(***************************************************************************)
(* Proofs about SummaryScheduler: type correctness, and that only faults   *)
(* make a user get a summary of the same day twice.                        *)
(***************************************************************************)
EXTENDS SummaryScheduler, TLAPS

\* Nothing more is meant to reach user u today: the mails are recorded, or the
\* running job is done with u.
Settled(u) ==
    \/ job.phase = "idle" /\ IsMailOut
    \/ job.phase = "sending" /\ u \notin job.queue

\* A user who may still be mailed has got every earlier summary of the day
\* because of a fault.
Paid(u) ==
    /\ delivered[u] <= faults + 1
    /\ ~ Settled(u) => delivered[u] <= faults

IInv == TypeOK /\ \A u \in Users : Paid(u)

LEMMA SummaryInit == Init => IInv
  <1> SUFFICES ASSUME Init PROVE IInv
    OBVIOUS
  <1>1. TypeOK
    BY SchedulerAssumption DEF Init, TypeOK, Idle, Job, Phase
  <1>2. ASSUME NEW u \in Users PROVE Paid(u)
    BY <1>2 DEF Init, Paid, Idle
  <1> QED
    BY <1>1, <1>2 DEF IInv

\* The row addEmail(true) adds is a row of today.
LEMMA RecordedIsOut ==
    ASSUME TypeOK, last' = [date |-> today, status |-> "Y"], UNCHANGED today
    PROVE  IsMailOut'
  <1>1. last' # NoEntry
    BY NoEntryAssumption DEF TypeOK, Entry
  <1> QED
    BY <1>1 DEF IsMailOut, IsToday

\* A fault makes up for whatever a user has got.
LEMMA FaultPays ==
    ASSUME IInv, Fault, UNCHANGED delivered, NEW u \in Users
    PROVE  Paid(u)'
  BY DEF IInv, TypeOK, Paid, Fault

LEMMA SummaryNext == IInv /\ [Next]_vars => IInv'
  <1> SUFFICES ASSUME IInv, [Next]_vars PROVE IInv'
    OBVIOUS
  <1>0. TypeOK /\ \A u \in Users : Paid(u)
    BY DEF IInv
  <1>f. ASSUME Fault, UNCHANGED <<today, due, delivered>>,
               last' \in Entry \cup {NoEntry}, job' \in Job
        PROVE  IInv'
    <2>1. faults' \in 0 .. MaxFaults
      BY <1>0, <1>f, SchedulerAssumption DEF Fault, TypeOK
    <2>2. TypeOK'
      BY <2>1, <1>0, <1>f DEF TypeOK
    <2>3. ASSUME NEW u \in Users PROVE Paid(u)'
      BY <1>f, FaultPays
    <2> QED
      BY <2>2, <2>3 DEF IInv
  <1>i. Idle \in Job
    BY DEF Idle, Job, Phase
  <1>1. CASE Check
    <2>1. job' = [job EXCEPT !.phase = "checked"] /\ job' \in Job
          /\ UNCHANGED <<today, due, last, delivered>>
      BY <1>1, <1>0 DEF Check, TypeOK, Job, Phase
    <2>2. CASE Fault
      BY <2>2, <2>1, <1>0, <1>f DEF TypeOK
    <2>3. CASE ~ IsMailOut /\ UNCHANGED faults
      <3>1. TypeOK'
        BY <2>1, <2>3, <1>0 DEF TypeOK
      <3>2. ASSUME NEW u \in Users PROVE Paid(u)'
        <4>1. Paid(u) /\ ~ Settled(u)
          BY <1>0, <1>1, <2>3 DEF Check, Settled
        <4>2. delivered'[u] <= faults' /\ delivered'[u] <= faults' + 1
          BY <4>1, <2>1, <2>3 DEF Paid
        <4> QED
          BY <4>2 DEF Paid
      <3> QED
        BY <3>1, <3>2 DEF IInv
    <2> QED
      BY <1>1, <2>2, <2>3 DEF Check
  <1>2. CASE Summarise
    <2>1. job.phase = "checked" /\ UNCHANGED <<today, due, last, delivered>>
      BY <1>2 DEF Summarise
    <2>2. CASE job' = Idle /\ Fault
      BY <2>2, <2>1, <1>0, <1>f, <1>i DEF TypeOK
    <2>3. CASE /\ job' = IF due = {} THEN Idle
                         ELSE [phase |-> "sending", queue |-> due, lost |-> FALSE]
               /\ UNCHANGED faults
      <3>1. job' \in Job
        BY <2>3, <1>0, <1>i DEF TypeOK, Job, Phase
      <3>2. TypeOK'
        BY <2>1, <2>3, <3>1, <1>0 DEF TypeOK
      <3>3. ASSUME NEW u \in Users PROVE Paid(u)'
        <4>1. ~ Settled(u) /\ Paid(u)
          BY <1>0, <2>1 DEF Settled
        <4>2. delivered'[u] <= faults' /\ delivered'[u] <= faults' + 1
          BY <4>1, <2>1, <2>3 DEF Paid
        <4> QED
          BY <4>2 DEF Paid
      <3> QED
        BY <3>2, <3>3 DEF IInv
    <2> QED
      BY <1>2, <2>2, <2>3 DEF Summarise
  <1>3. ASSUME NEW v \in Users, Send(v) PROVE IInv'
    <2>1. /\ job.phase = "sending" /\ v \in job.queue
          /\ job' \in Job /\ job'.phase = "sending" /\ job'.queue = job.queue \ {v}
          /\ delivered' \in {delivered, [delivered EXCEPT ![v] = @ + 1]}
          /\ UNCHANGED <<today, due, last, faults>>
      BY <1>3, <1>0 DEF Send, TypeOK, Job
    <2>2. delivered[v] <= faults
      BY <2>1, <1>0 DEF Paid, Settled
    <2>3. delivered' \in [Users -> 0 .. MaxFaults + 1]
      BY <2>1, <2>2, <1>0, SchedulerAssumption DEF TypeOK
    <2>4. TypeOK'
      BY <2>1, <2>3, <1>0 DEF TypeOK
    <2>5. ASSUME NEW u \in Users PROVE Paid(u)'
      <3>1. CASE u = v
        <4>1. delivered'[u] <= faults + 1
          BY <3>1, <2>1, <2>2, <1>0 DEF TypeOK
        <4>2. Settled(u)'
          BY <3>1, <2>1 DEF Settled
        <4> QED
          BY <4>1, <4>2, <2>1 DEF Paid
      <3>2. CASE u # v
        <4>1. delivered'[u] = delivered[u]
          BY <3>2, <2>1, <1>0 DEF TypeOK
        <4>2. Settled(u) => Settled(u)'
          BY <2>1 DEF Settled
        <4>3. Paid(u)
          BY <1>0
        <4> QED
          BY <4>1, <4>2, <4>3, <2>1 DEF Paid
      <3> QED
        BY <3>1, <3>2
    <2> QED
      BY <2>4, <2>5 DEF IInv
  <1>r. [date |-> today, status |-> "Y"] \in Entry /\ [date |-> today, status |-> "N"] \in Entry
    BY <1>0 DEF TypeOK, Entry
  <1>4. CASE Record
    <2>1. job.phase = "sending" /\ job.queue = {} /\ UNCHANGED <<today, due, delivered>>
      BY <1>4 DEF Record
    <2>2. CASE last' = [date |-> today, status |-> "Y"] /\ job' = Idle /\ UNCHANGED faults
      <3>1. TypeOK'
        BY <2>1, <2>2, <1>0, <1>i, <1>r DEF TypeOK
      <3>2. IsMailOut'
        BY <2>1, <2>2, <1>0, RecordedIsOut
      <3>3. ASSUME NEW u \in Users PROVE Paid(u)'
        <4>1. Settled(u)'
          BY <2>2, <3>2 DEF Settled, Idle
        <4>2. Paid(u)
          BY <1>0
        <4> QED
          BY <4>1, <4>2, <2>1, <2>2 DEF Paid
      <3> QED
        BY <3>1, <3>3 DEF IInv
    <2>3. CASE UNCHANGED last /\ job' = Idle /\ Fault
      BY <2>3, <2>1, <1>0, <1>f, <1>i DEF TypeOK
    <2>4. CASE /\ last' \in {last, [date |-> today, status |-> "Y"]}
               /\ job' = [job EXCEPT !.phase = "unrecorded"]
               /\ Fault
      <3>1. job' \in Job /\ last' \in Entry \cup {NoEntry}
        BY <2>4, <1>0, <1>r DEF TypeOK, Job, Phase
      <3> QED
        BY <3>1, <2>4, <2>1, <1>f
    <2> QED
      BY <1>4, <2>2, <2>3, <2>4 DEF Record
  <1>5. CASE RecordFailure
    <2>1. /\ job.phase = "unrecorded" /\ job' = Idle
          /\ last' \in {last, [date |-> today, status |-> "N"]}
          /\ UNCHANGED <<today, due, delivered, faults>>
      BY <1>5 DEF RecordFailure
    <2>2. TypeOK'
      BY <2>1, <1>0, <1>i, <1>r DEF TypeOK
    <2>3. ASSUME NEW u \in Users PROVE Paid(u)'
      <3>1. ~ Settled(u) /\ Paid(u)
        BY <1>0, <2>1 DEF Settled
      <3>2. delivered'[u] <= faults' /\ delivered'[u] <= faults' + 1
        BY <3>1, <2>1 DEF Paid
      <3> QED
        BY <3>2 DEF Paid
    <2> QED
      BY <2>2, <2>3 DEF IInv
  <1>6. CASE Crash
    BY <1>6, <1>0, <1>f, <1>i DEF Crash, TypeOK
  <1>7. CASE Midnight
    <2>1. /\ today' \in 0 .. MaxDay /\ faults' = 0
          /\ delivered' = [u \in Users |-> 0] /\ UNCHANGED <<due, last, job>>
      BY <1>7, <1>0, SchedulerAssumption DEF Midnight, TypeOK
    <2>2. TypeOK'
      BY <2>1, <1>0, SchedulerAssumption DEF TypeOK
    <2>3. ASSUME NEW u \in Users PROVE Paid(u)'
      BY <2>1 DEF Paid
    <2> QED
      BY <2>2, <2>3 DEF IInv
  <1>8. CASE DueChanges \/ UNCHANGED vars
    <2>1. due' \subseteq Users /\ UNCHANGED <<today, last, job, delivered, faults>>
      BY <1>8, <1>0 DEF DueChanges, vars, TypeOK
    <2>2. TypeOK'
      BY <2>1, <1>0 DEF TypeOK
    <2>3. ASSUME NEW u \in Users PROVE Paid(u)'
      <3>1. Paid(u)
        BY <1>0
      <3>2. Settled(u)' <=> Settled(u)
        BY <2>1 DEF Settled, IsMailOut, IsToday
      <3> QED
        BY <3>1, <3>2, <2>1 DEF Paid
    <2> QED
      BY <2>2, <2>3 DEF IInv
  <1> QED
    BY <1>1, <1>2, <1>3, <1>4, <1>5, <1>6, <1>7, <1>8 DEF Next, JobStep

LEMMA SummaryInductive == Spec => []IInv
  BY SummaryInit, SummaryNext, PTL DEF Spec

\* The variables of the summary job keep their types, and no user ever gets
\* more than MaxFaults + 1 summaries within a day.
THEOREM SummaryTypeCorrect == Spec => []TypeOK
  <1>1. IInv => TypeOK
    BY DEF IInv
  <1> QED
    BY <1>1, SummaryInductive, PTL

\* Repeated summaries are bounded by the faults of the day, for any number of
\* users, days and faults, and wherever midnight falls within a job.
THEOREM DuplicatesNeedFaults == Spec => []DuplicatesAreFaults
  <1>1. IInv => DuplicatesAreFaults
    <2> SUFFICES ASSUME IInv, NEW u \in Users PROVE delivered[u] <= 1 + faults
      BY DEF DuplicatesAreFaults
    <2>1. Paid(u) /\ delivered[u] \in Nat /\ faults \in Nat
      BY SchedulerAssumption DEF IInv, TypeOK
    <2> QED
      BY <2>1 DEF Paid
  <1> QED
    BY <1>1, SummaryInductive, PTL

=============================================================================
