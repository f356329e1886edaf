--------------------------- MODULE LeaveRequests ---------------------------
(***************************************************************************)
(* The leave request handlers of the portal (LeavesServiceImpl) over the   *)
(* table leave_requests.  Every handler is one @Transactional method run   *)
(* by a server thread, in the order                                        *)
(*                                                                         *)
(*   read      the first SELECT fixes the row the thread works on (InnoDB  *)
(*             REPEATABLE READ); the rest of the handler's decisions use   *)
(*             that managed copy and the posted parameters only            *)
(*   flush     closeSession() writes the dirty copy: the whole row, since  *)
(*             LeaveRequest has neither @Version nor @DynamicUpdate; the   *)
(*             row is locked until the transaction ends                    *)
(*   commit    the write becomes visible and the answer is returned        *)
(*                                                                         *)
(* The notification mails are left out: nothing in the system reads them,  *)
(* and no failure to send one is noticed by a handler.                     *)
(*                                                                         *)
(* Exceptions are caught inside the transactional method, so a handler     *)
(* that answers FAILURE still commits what its managed copy holds.         *)
(***************************************************************************)
EXTENDS LeaveData

CONSTANTS
    Threads     \* server threads, each running one handler at a time

VARIABLES
    leaveRequests,  \* committed content of the table: Ids -> row or NoRow
    nextId,         \* the next AUTO_INCREMENT value
    txn,            \* per thread: its transaction
    answer          \* per thread: what the last handler answered

vars == <<leaveRequests, nextId, txn, answer>>

-----------------------------------------------------------------------------
(* A thread's transaction: base is the row as it was read, row the managed *)
(* copy.  "dirty": the copy differs and is not flushed; "flushed": written,*)
(* row locked; "stale": the flush failed and closeSession only logged it.  *)
(* ok is isSuccess.                                                        *)

Op == {"none", "add", "edit", "status", "delete"}

Txn == [phase : {"idle", "dirty", "flushed", "stale"}, op : Op,
        id : Ids \cup {0}, base : LeaveRequest \cup {NoRow},
        row : LeaveRequest \cup {NoRow}, ok : BOOLEAN]

Idle == [phase |-> "idle", op |-> "none", id |-> 0, base |-> NoRow,
         row |-> NoRow, ok |-> FALSE]

TypeOK ==
    /\ leaveRequests \in [Ids -> LeaveRequest \cup {NoRow}]
    /\ nextId \in 1 .. MaxId + 1
    /\ txn \in [Threads -> Txn]
    /\ answer \in [Threads -> {"NONE", "SUCCESS", "FAILURE", "ERROR"}]

Init ==
    /\ leaveRequests = [r \in Ids |-> NoRow]
    /\ nextId = 1
    /\ txn = [t \in Threads |-> Idle]
    /\ answer = [t \in Threads |-> "NONE"]

Exists(r) == leaveRequests[r] # NoRow

\* The handler ends without a change to any managed entity.
Reply(t, a) ==
    /\ answer' = [answer EXCEPT ![t] = a]
    /\ UNCHANGED <<leaveRequests, nextId, txn>>

\* The handler has a dirty copy and goes on to write it.
Dirty(t, op, r, base, row, ok) ==
    /\ txn' = [txn EXCEPT ![t] = [phase |-> "dirty", op |-> op, id |-> r,
                                  base |-> base, row |-> row, ok |-> ok]]
    /\ answer' = [answer EXCEPT ![t] = "NONE"]
    /\ UNCHANGED <<leaveRequests, nextId>>

\* The handler has set the managed copy of a stored row to "row".  Hibernate
\* writes only what differs from the row it read.
Change(t, op, r, row, ok) ==
    IF row = leaveRequests[r]
      THEN Reply(t, IF ok THEN "SUCCESS" ELSE "FAILURE")
      ELSE Dirty(t, op, r, leaveRequests[r], row, ok)

-----------------------------------------------------------------------------
(* Handlers, up to their flush.  Each may also answer FAILURE and leave    *)
(* everything alone: the posted text is malformed, or a lookup finds       *)
(* nothing or fails (getLeaveRequest and getUser answer null).             *)

\* Mutant: the request of a user who was not found is saved too.
AddLeaveRequestUnknownUser(t, u, d, counted) ==
    /\ txn[t].phase = "idle"
    /\ \/ /\ counted /\ DaysOf[d] # 0
          /\ Dirty(t, "add", 0, NoRow, NewRequest(u, d), TRUE)
       \/ Reply(t, "FAILURE")

\* addLeaveRequestDataForUser.  counted: getHolidayDates returned a set (it
\* returns null after a database error, and populateDays then fails).
AddLeaveRequest(t, u, d, counted) ==
    /\ txn[t].phase = "idle"
    /\ \/ /\ u \in Users /\ counted /\ DaysOf[d] # 0
          /\ Dirty(t, "add", 0, NoRow, NewRequest(u, d), TRUE)
       \/ Reply(t, "FAILURE")

\* The managed copy after the first n parts of d were parsed over it.  The
\* days are counted only behind the last part, and are zeroed before that.
Edited(row, d, n, counted) ==
    [row EXCEPT !.details = Parsed(@, d, n),
                !.days = IF n < AllParts THEN @ ELSE IF counted THEN DaysOf[d] ELSE 0]

\* Mutant: the days are not counted again.
UpdateLeaveRequestOldDays(t, r, d, n, counted) ==
    /\ txn[t].phase = "idle"
    /\ \/ /\ Exists(r)
          /\ LET row == [leaveRequests[r] EXCEPT !.details = Parsed(@, d, n)]
             IN  Change(t, "edit", r, row, n = AllParts /\ row.days # 0)
       \/ Reply(t, "FAILURE")

\* Mutant: an edit puts the request back to PENDING.
UpdateLeaveRequestReopens(t, r, d, n, counted) ==
    /\ txn[t].phase = "idle"
    /\ \/ /\ Exists(r)
          /\ LET row == [Edited(leaveRequests[r], d, n, counted)
                             EXCEPT !.status = "PENDING"]
             IN  Change(t, "edit", r, row, n = AllParts /\ row.days # 0)
       \/ Reply(t, "FAILURE")

\* updateLeaveRequestDataForUser.  The managed copy is overwritten part by part
\* before anything is checked, and the exception of a part that is missing, or
\* of days that cannot be counted, is caught: a refused edit is dirty too.
UpdateLeaveRequest(t, r, d, n, counted) ==
    /\ txn[t].phase = "idle"
    /\ \/ /\ Exists(r)
          /\ LET row == Edited(leaveRequests[r], d, n, counted)
             IN  Change(t, "edit", r, row, n = AllParts /\ row.days # 0)
       \/ Reply(t, "FAILURE")

\* Mutant: the servicing user is not looked up.
UpdateLeaveRequestStatusUnchecked(t, r, u, st, c) ==
    /\ txn[t].phase = "idle"
    /\ \/ /\ Exists(r) /\ ~ (st = leaveRequests[r].status /\ c = NoComment)
          /\ Change(t, "status", r,
                    [leaveRequests[r] EXCEPT !.status = st, !.changedBy = u,
                                             !.comments = c], TRUE)
       \/ Reply(t, "FAILURE")

\* updateLeaveRequestStatus: any status to any other, the same one only with
\* a comment; the comment is replaced even by none.
UpdateLeaveRequestStatus(t, r, u, st, c) ==
    /\ txn[t].phase = "idle"
    /\ \/ /\ Exists(r) /\ u \in Users
          /\ ~ (st = leaveRequests[r].status /\ c = NoComment)
          /\ Change(t, "status", r,
                    [leaveRequests[r] EXCEPT !.status = st, !.changedBy = u,
                                             !.comments = c], TRUE)
       \/ Reply(t, "FAILURE")

\* deleteLeaveRequest: orphanRemoval deletes the row, whatever its status.  The
\* posted text is parsed outside the try block: an error page when malformed.
DeleteLeaveRequest(t, r) ==
    /\ txn[t].phase = "idle"
    /\ \/ Exists(r) /\ Dirty(t, "delete", r, leaveRequests[r], leaveRequests[r], TRUE)
       \/ Reply(t, "FAILURE")
       \/ Reply(t, "ERROR")

\* sendReminderForTheLeaveRequest: a mail and nothing else, for any status.  A
\* mail the server refuses is a success, one that cannot be written is not.
SendReminder(t, r) ==
    /\ txn[t].phase = "idle"
    /\ \/ Exists(r) /\ Reply(t, "SUCCESS")
       \/ Reply(t, "FAILURE")

-----------------------------------------------------------------------------
(* Flush and commit.                                                       *)

\* A row another transaction has written is locked until that one ends.
Locked(r) == \E t \in Threads : txn[t].phase = "flushed" /\ txn[t].id = r

\* The INSERT of a new request; the id comes from AUTO_INCREMENT.
FlushInsert(t) ==
    /\ txn[t].phase = "dirty" /\ txn[t].op = "add"
    /\ nextId <= MaxId
    /\ txn' = [txn EXCEPT ![t] = [@ EXCEPT !.phase = "flushed", !.id = nextId]]
    /\ nextId' = nextId + 1
    /\ UNCHANGED <<leaveRequests, answer>>

\* Mutant: a row that is gone is written all the same (saveOrUpdate by key).
FlushRowUnchecked(t) ==
    /\ txn[t].phase = "dirty" /\ txn[t].op # "add"
    /\ ~ Locked(txn[t].id)
    /\ txn' = [txn EXCEPT ![t] = [@ EXCEPT !.phase = "flushed"]]
    /\ UNCHANGED <<leaveRequests, nextId, answer>>

\* The UPDATE or DELETE of the row read earlier: by closeSession, or by the
\* commit when the handler was refused and no DAO method was called.
FlushRow(t) ==
    /\ txn[t].phase = "dirty" /\ txn[t].op # "add"
    /\ Exists(txn[t].id)
    /\ ~ Locked(txn[t].id)
    /\ txn' = [txn EXCEPT ![t] = [@ EXCEPT !.phase = "flushed"]]
    /\ UNCHANGED <<leaveRequests, nextId, answer>>

\* The flush fails (the row is gone: StaleStateException; a lock wait ends; the
\* posted leave type was removed) and closeSession only logs it: the handler
\* goes on as if it had written.
FlushFails(t) ==
    /\ txn[t].phase = "dirty" /\ txn[t].ok
    /\ txn' = [txn EXCEPT ![t] = [@ EXCEPT !.phase = "stale"]]
    /\ UNCHANGED <<leaveRequests, nextId, answer>>

\* The commit flushes again what could not be flushed, and now succeeds.  Not so
\* for a new request: Hibernate refuses an entity left without an id.
FlushAgain(t) ==
    /\ txn[t].phase = "stale" /\ txn[t].op # "add"
    /\ Exists(txn[t].id)
    /\ ~ Locked(txn[t].id)
    /\ txn' = [txn EXCEPT ![t] = [@ EXCEPT !.phase = "flushed"]]
    /\ UNCHANGED <<leaveRequests, nextId, answer>>

\* The row the transaction of thread t leaves behind.
Written(t) == IF txn[t].op = "delete" THEN NoRow ELSE txn[t].row

Commit(t) ==
    /\ txn[t].phase = "flushed"
    /\ leaveRequests' = [leaveRequests EXCEPT ![txn[t].id] = Written(t)]
    /\ txn' = [txn EXCEPT ![t] = Idle]
    /\ answer' = [answer EXCEPT ![t] = IF txn[t].ok THEN "SUCCESS" ELSE "FAILURE"]
    /\ UNCHANGED nextId

\* The commit fails, by a lost connection or with its own flush (which refuses the
\* null that setStartDate and setEndDate get of a date that does not parse):
\* nothing is written and the caller gets an error page.
Rollback(t) ==
    /\ txn[t].phase # "idle"
    /\ txn' = [txn EXCEPT ![t] = Idle]
    /\ answer' = [answer EXCEPT ![t] = "ERROR"]
    /\ UNCHANGED <<leaveRequests, nextId>>

\* The application server stops and starts again; the database stays.
Restart ==
    /\ txn' = [t \in Threads |-> Idle]
    /\ answer' = [t \in Threads |-> "NONE"]
    /\ UNCHANGED <<leaveRequests, nextId>>

-----------------------------------------------------------------------------
Handler(t) ==
    \/ \E u \in Users \cup {NoUser}, d \in Details, counted \in BOOLEAN :
          AddLeaveRequest(t, u, d, counted)
    \/ \E r \in Ids :
          \/ \E d \in Details, n \in 1 .. AllParts, counted \in BOOLEAN :
                UpdateLeaveRequest(t, r, d, n, counted)
          \/ \E u \in Users \cup {NoUser}, st \in Status, c \in Comments \cup {NoComment} :
                UpdateLeaveRequestStatus(t, r, u, st, c)
          \/ DeleteLeaveRequest(t, r)
          \/ SendReminder(t, r)

Finish(t) ==
    \/ FlushInsert(t)
    \/ FlushRow(t)
    \/ FlushFails(t)
    \/ FlushAgain(t)
    \/ Commit(t)
    \/ Rollback(t)

Next == Restart \/ \E t \in Threads : Handler(t) \/ Finish(t)

Spec == Init /\ [][Next]_vars

-----------------------------------------------------------------------------
(* What the handlers keep, however their transactions interleave.          *)

\* A request that is approved or declined names the user who decided it:
\* status and changed_by are set together and written together.
DecidedHasDecider ==
    \A r \in Ids : Exists(r) /\ leaveRequests[r].status # "PENDING"
                       => leaveRequests[r].changedBy \in Users

\* The stored days are those of the stored details, and there are some.
Fits(row) == row.days = DaysOf[row.details] /\ row.days # 0

\* An edit that is told SUCCESS, or a new request, never leaves days that do not
\* belong to the dates: such a row is left by an edit that was answered FAILURE
\* (refused after the entity was overwritten, in part or whole, and committed
\* all the same), or by a decision whose handler had read one, even if it has
\* been repaired in between.
SpoiledByRefusal ==
    [][\A r \in Ids :
          /\ leaveRequests[r] # leaveRequests'[r]
          /\ Exists(r)' /\ ~ Fits(leaveRequests'[r])
          => \E t \in Threads :
                /\ txn[t].phase = "flushed" /\ txn[t].id = r
                /\ \/ txn[t].op = "edit" /\ answer'[t] = "FAILURE"
                   \/ txn[t].op = "status" /\ ~ Fits(txn[t].base)]_vars

\* An id that was handed out and has no row, now or in an open INSERT.
Gone(r) ==
    /\ r < nextId
    /\ ~ Exists(r)
    /\ \A t \in Threads : txn[t].phase = "flushed" /\ txn[t].op = "add"
                              => txn[t].id # r

\* A deleted request never comes back, not even through the late write of a
\* transaction that read it before; and a request never changes its owner.
IdentityStable ==
    [][\A r \in Ids :
          /\ Gone(r) => Gone(r)'
          /\ Exists(r) /\ Exists(r)' =>
                 leaveRequests[r].requestor = leaveRequests'[r].requestor]_vars

\* The step by which thread t commits a decision on a request.
CommitsDecision(t) ==
    /\ txn[t].phase = "flushed" /\ txn[t].op = "status"
    /\ txn'[t].phase = "idle" /\ answer'[t] = "SUCCESS"

-----------------------------------------------------------------------------
(* The abstract ledger: each handler one atomic step on the current row.   *)

Ledger == INSTANCE LeaveLedger
              WITH Clients <- Threads, ledger <- leaveRequests, told <- answer

\* The one way not to: an edit or a decision writes the row it has read over
\* what another transaction committed in between.
Overwrites ==
    \E t \in Threads :
        /\ Commit(t)
        /\ txn[t].op \in {"edit", "status"}
        /\ txn[t].base # leaveRequests[txn[t].id]

\* Every change of the table that does not overwrite another one is one step of
\* the ledger on the row as it is, with the answer that belongs to it: through
\* refused edits, swallowed and repeated flushes, rollbacks and restarts.
ImplementsLedger ==
    Ledger!LedgerInit /\ [][Ledger!LedgerNext \/ Overwrites]_leaveRequests

-----------------------------------------------------------------------------
(* A statement of the code base that the handlers do not keep.            *)

\* An edit updates the "details of which are sent as post parameters", the
\* decision is not among them: only a status change alters a decision.
DecisionOnlyByStatusChange ==
    [][\A r \in Ids : Exists(r) /\ Exists(r)'
            /\ leaveRequests[r].status # leaveRequests'[r].status
          => \E t \in Threads : CommitsDecision(t) /\ txn[t].id = r]_vars

=============================================================================
