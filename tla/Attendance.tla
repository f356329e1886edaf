------------------------------ MODULE Attendance ------------------------------
(***************************************************************************)
(* The punches of one day in table attendance_records, written by          *)
(*                                                                         *)
(*   - the terminals at the door, whose log files are uploaded             *)
(*     (AttendanceBean.uploadAttendance, UserDB.addAttendance)             *)
(*   - the manual entry page (AttendanceServiceImpl.                       *)
(*     addManualAttendanceEntry), which corrects when a user came and      *)
(*     left: an in time replaces the earlier punches of the day, an out    *)
(*     time the later ones.                                                *)
(*                                                                         *)
(* A manual entry is one transaction: it works on the rows its first       *)
(* SELECT saw and on what it has written itself.                           *)
(***************************************************************************)
EXTENDS Naturals, Sequences

CONSTANTS
    Users,      \* users that UserService.getUser finds
    NoUser,     \* an id it does not find
    LastTime,   \* the last time of the day; 0 is midnight
    InTimes, OutTimes,  \* the times that are posted as in and as out times
    NoTime,     \* the time of an entry that does not parse or lacks its name
    TerminalTimes,  \* times at which terminals may have read a punch
    Threads     \* server threads

Time == 0 .. LastTime

ASSUME AttendanceAssumption ==
    /\ LastTime \in Nat
    /\ NoTime \notin Nat
    /\ InTimes \subseteq Time /\ OutTimes \subseteq Time
    /\ TerminalTimes \subseteq Time
    /\ NoUser \notin Users

VARIABLES
    records,    \* committed content of the table
    txn,        \* per thread: the manual entry it works on
    answer      \* per thread: what the last manual entry answered

vars == <<records, txn, answer>>

\* The primary key of a row: device "1" of a manual entry is never equal to
\* the two digits stored for a terminal.
Record == [user : Users, time : Time, device : {"manual", "terminal"}]

TerminalRecord == [user : Users, time : TerminalTimes, device : {"terminal"}]

\* What the page posts: the in time, the out time, both or none.
InEntry == [name : {"in_time"}, time : InTimes \cup {NoTime}]
OutEntry == [name : {"out_time"}, time : OutTimes \cup {NoTime}]
Calls ==
    {<<>>} \cup {<<e>> : e \in InEntry \cup OutEntry}
           \cup {<<i, o>> : i \in InEntry, o \in OutEntry}

\* entries[1 .. done] have been entered, those of missed without the punches they
\* replace.  "refused": an entry did not parse; "doomed": a row exists already, so
\* that the commit will fail.
Txn == [phase : {"idle", "open", "refused", "doomed"}, user : Users \cup {NoUser},
        entries : Calls, done : 0 .. 2, missed : SUBSET (1 .. 2),
        seen : SUBSET Record, deleted : SUBSET Record, added : SUBSET Record]

Idle == [phase |-> "idle", user |-> NoUser, entries |-> <<>>, done |-> 0,
         missed |-> {}, seen |-> {}, deleted |-> {}, added |-> {}]

TypeOK ==
    /\ records \subseteq Record
    /\ txn \in [Threads -> Txn]
    /\ answer \in [Threads -> {"NONE", "SUCCESS", "FAILURE"}]

Init ==
    /\ records = {}
    /\ txn = [t \in Threads |-> Idle]
    /\ answer = [t \in Threads |-> "NONE"]

-----------------------------------------------------------------------------
(* The manual entry.                                                       *)

\* The times between the exclusive bounds of getAttendanceRecordsToBeDeleted.
Window(e) ==
    IF e.name = "in_time" THEN {x \in Time : 0 < x /\ x < e.time}
                          ELSE {x \in Time : e.time < x}

\* The rows as thread t reads them.
View(t) == (txn[t].seen \ txn[t].deleted) \cup txn[t].added

\* Mutant: the bounds of the two kinds of entries are swapped.
ToBeDeletedSwapped(t, e) ==
    {r \in View(t) : r.time \in Time \ Window(e) /\ r.time # e.time}

\* getAttendanceRecordsForUser puts no condition on the user.
ToBeDeleted(t, e) == {r \in View(t) : r.time \in Window(e)}

\* What the lookup may return: when it fails the exception is only logged and
\* the list is empty.
LookedUp(t, e) == {ToBeDeleted(t, e), {}}

NextEntry(t) == txn[t].entries[txn[t].done + 1]
HasNext(t) == txn[t].phase = "open" /\ txn[t].done < Len(txn[t].entries)

Punch(t) == [user |-> txn[t].user, time |-> NextEntry(t).time, device |-> "manual"]

\* Mutant: the user is not looked up.
BeginUnknownUser(t, u, entries) ==
    /\ txn[t].phase = "idle"
    /\ txn' = [txn EXCEPT ![t] =
                  [Idle EXCEPT !.phase = "open", !.user = u,
                               !.entries = entries, !.seen = records]]
    /\ answer' = [answer EXCEPT ![t] = "NONE"]
    /\ UNCHANGED records

\* getUser, which fixes what the transaction reads.  It finds nobody, too, when
\* its query fails.
Begin(t, u, entries) ==
    /\ txn[t].phase = "idle"
    /\ \/ /\ u \in Users
          /\ txn' = [txn EXCEPT ![t] =
                        [Idle EXCEPT !.phase = "open", !.user = u,
                                     !.entries = entries, !.seen = records]]
          /\ answer' = [answer EXCEPT ![t] = "NONE"]
       \/ /\ answer' = [answer EXCEPT ![t] = "FAILURE"]
          /\ UNCHANGED txn
    /\ UNCHANGED records

\* Mutant: the entry replaces the other punches and is not saved itself.
AfterEntryUnsaved(t, gone) ==
    [txn[t] EXCEPT !.done = @ + 1,
                   !.deleted = @ \cup (gone \cap txn[t].seen),
                   !.added = @ \ gone]

\* The punches gone are deleted, then the entry is saved.
AfterEntry(t, gone) ==
    [txn[t] EXCEPT !.done = @ + 1,
                   !.missed = IF gone = ToBeDeleted(t, NextEntry(t))
                                THEN @ ELSE @ \cup {txn[t].done + 1},
                   !.deleted = @ \cup (gone \cap txn[t].seen),
                   !.added = (@ \ gone) \cup {Punch(t)}]

\* One turn of the loop.  When its row is there already, saving it (or the
\* flush, whose exception is only logged) fails and so will the commit.
EnterTime(t) ==
    /\ HasNext(t) /\ NextEntry(t).time # NoTime
    /\ \E gone \in LookedUp(t, NextEntry(t)) :
          txn' = [txn EXCEPT ![t] = IF Punch(t) \in View(t)
                                      THEN [@ EXCEPT !.phase = "doomed"]
                                      ELSE AfterEntry(t, gone)]
    /\ UNCHANGED <<records, answer>>

\* An entry that does not parse ends the loop.  The exception is caught
\* within the transaction, which keeps what was entered before.
Refuse(t) ==
    /\ HasNext(t) /\ NextEntry(t).time = NoTime
    /\ txn' = [txn EXCEPT ![t] = [@ EXCEPT !.phase = "refused"]]
    /\ UNCHANGED <<records, answer>>

Done(t) == txn[t].phase = "open" /\ txn[t].done = Len(txn[t].entries)

\* The rows to delete must still be there and the rows to insert must not:
\* otherwise the flush fails.  No entry at all is not a success.
Commit(t) ==
    /\ Done(t) \/ txn[t].phase = "refused"
    /\ txn[t].deleted \subseteq records
    /\ txn[t].added \cap (records \ txn[t].deleted) = {}
    /\ records' = (records \ txn[t].deleted) \cup txn[t].added
    /\ txn' = [txn EXCEPT ![t] = Idle]
    /\ answer' = [answer EXCEPT ![t] = IF Done(t) /\ txn[t].entries # <<>>
                                         THEN "SUCCESS" ELSE "FAILURE"]

\* The commit fails, or the connection is lost; the controller answers.
Rollback(t) ==
    /\ txn[t].phase # "idle"
    /\ txn' = [txn EXCEPT ![t] = Idle]
    /\ answer' = [answer EXCEPT ![t] = "FAILURE"]
    /\ UNCHANGED records

-----------------------------------------------------------------------------
\* The lines of an uploaded log are inserted in one transaction, those that
\* are there already are ignored.  When it fails nothing changes.
Upload(lines) ==
    /\ records' = records \cup lines
    /\ UNCHANGED <<txn, answer>>

Next ==
    \/ \E lines \in SUBSET TerminalRecord : Upload(lines)
    \/ \E t \in Threads :
          \/ \E u \in Users \cup {NoUser}, entries \in Calls : Begin(t, u, entries)
          \/ EnterTime(t)
          \/ Refuse(t)
          \/ Commit(t)
          \/ Rollback(t)

Spec == Init /\ [][Next]_vars

-----------------------------------------------------------------------------
\* The step by which thread t ends its call, and with which answer.
Ends(t, a) == txn[t].phase # "idle" /\ txn'[t].phase = "idle" /\ answer'[t] = a

\* An in time, if there is one, lies before the out time.
Ordered(entries) ==
    \A i, k \in DOMAIN entries : i < k => entries[i].time < entries[k].time

\* A successful entry takes effect: its punches are stored, and of the punches
\* of the user it could see none is earlier than the in time (but at midnight)
\* and none later than the out time, whatever other entries and uploads do
\* meanwhile, except where the lookup of these punches failed.
CorrectionTakesEffect ==
    [][\A t \in Threads : Ends(t, "SUCCESS") /\ Ordered(txn[t].entries) =>
          \A k \in DOMAIN txn[t].entries :
              LET e == txn[t].entries[k]
              IN  /\ [user |-> txn[t].user, time |-> e.time, device |-> "manual"]
                         \in records'
                  /\ k \notin txn[t].missed =>
                        \A r \in records' \cap txn[t].seen :
                            r.user = txn[t].user => r.time \notin Window(e)]_vars

PunchesOf(u, rows) == {r \in rows : r.user = u}

\* However a call ends, it never leaves its user without any punch on a day
\* that had some: what it deletes it replaces.
DayNotErased ==
    [][\A t \in Threads : \A a \in {"SUCCESS", "FAILURE"} :
          Ends(t, a) /\ PunchesOf(txn[t].user, records) # {}
              => PunchesOf(txn[t].user, records') # {}]_vars

\* "returns the list of attendance records within the start date and end date
\* for a particular user": a manual entry touches the punches of its user.
OthersUntouched ==
    [][\A t \in Threads : \A u \in Users :
          Ends(t, "SUCCESS") /\ u # txn[t].user
              => PunchesOf(u, records') = PunchesOf(u, records)]_vars

=============================================================================
