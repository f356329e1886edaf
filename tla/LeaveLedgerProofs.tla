------------------------- MODULE LeaveLedgerProofs -------------------------
(***************************************************************************)
(* The transactions of any number of threads implement LeaveLedger, except *)
(* for the commits that overwrite another one: a handler's copy is what it *)
(* makes of the row it read (Made), so when that row is still the stored   *)
(* one its commit is one step of the ledger.                               *)
(***************************************************************************)
EXTENDS LeaveRequestsProofs

\* What an edit makes of the row as it is, told and spoiled as the ledger says.
LEMMA EditIsLedgerStep ==
    ASSUME NEW t \in Threads, NEW id \in Ids, NEW now \in LeaveRequest,
           NEW d \in Details, NEW n \in 1 .. AllParts, NEW counted \in BOOLEAN,
           NEW ok, ok = (n = AllParts /\ Edited(now, d, n, counted).days # 0),
           leaveRequests[id] = now,
           leaveRequests' = [leaveRequests EXCEPT ![id] = Edited(now, d, n, counted)],
           answer' = [answer EXCEPT ![t] = IF ok THEN "SUCCESS" ELSE "FAILURE"]
    PROVE  Ledger!Revise(t, id, d) \/ Ledger!Spoil(t, id, d, n)
  <1>0. leaveRequests[id] # NoRow
    BY NoRowAssumption
  <1>1. CASE ok
    <2>1. n = AllParts /\ Edited(now, d, AllParts, counted).days # 0
      BY <1>1
    <2>2. /\ Edited(now, d, AllParts, counted)
                 = [now EXCEPT !.details = d, !.days = DaysOf[d]]
          /\ DaysOf[d] # 0
      BY <2>1, AcceptedEdit
    <2>3. leaveRequests' = [leaveRequests EXCEPT ![id] =
                               [now EXCEPT !.details = d, !.days = DaysOf[d]]]
      BY <2>1, <2>2
    <2>4. answer' = [answer EXCEPT ![t] = "SUCCESS"]
      BY <1>1
    <2> QED
      BY <1>0, <2>2, <2>3, <2>4 DEF Ledger!Revise, Ledger!Answered
  <1>2. CASE ~ ok
    <2> DEFINE left == [now EXCEPT !.details = Parsed(now.details, d, n),
                                   !.days = IF n = AllParts THEN 0 ELSE now.days]
    <2>1. Edited(now, d, n, counted) = left
      <3>1. CASE n = AllParts
        <4>0. Edited(now, d, n, counted).days = 0
          BY <1>2, <3>1, Zenon
        <4>1. Edited(now, d, n, counted).days = 0 /\ ~ (n < AllParts)
          BY <4>0, <3>1 DEF AllParts
        <4> DEFINE days == IF counted THEN DaysOf[d] ELSE 0
        <4>2. Edited(now, d, n, counted)
                = [now EXCEPT !.details = Parsed(now.details, d, n), !.days = days]
          BY <4>1 DEF Edited
        <4>3. days = 0
          BY <4>1, <4>2 DEF LeaveRequest
        <4> QED
          BY <4>2, <4>3, <3>1
      <3>2. CASE n # AllParts
        <4>1. n < AllParts
          BY <3>2 DEF AllParts
        <4> QED
          BY <4>1, <3>2 DEF Edited
      <3> QED
        BY <3>1, <3>2
    <2>2. leaveRequests' = [leaveRequests EXCEPT ![id] = left]
      BY <2>1
    <2>3. answer' = [answer EXCEPT ![t] = "FAILURE"]
      BY <1>2
    <2>4. /\ Ledger!Parsed(now.details, d, n) = Parsed(now.details, d, n)
          /\ Ledger!AllParts = AllParts
      BY DEF Ledger!Parsed, Parsed, Ledger!AllParts, AllParts
    <2>5. Ledger!Spoil(t, id, d, n)
      <3>1. leaveRequests[id] # NoRow /\ leaveRequests[id] = now
        BY <1>0
      <3>2. left = [now EXCEPT !.details = Ledger!Parsed(@, d, n),
                               !.days = IF n = Ledger!AllParts THEN 0 ELSE @]
        BY <2>4
      <3> QED
        BY <2>2, <2>3, <3>1, <3>2 DEF Ledger!Spoil, Ledger!Answered
    <2> QED
      BY <2>5
  <1> QED
    BY <1>1, <1>2

\* A commit that overwrites nothing is one step of the ledger.
LEMMA CommitIsLedgerStep ==
    ASSUME IInv, NEW t \in Threads, Commit(t), ~ Overwrites
    PROVE  Ledger!LedgerNext
  <1>p. PICK id, base, row, ok : /\ id = txn[t].id /\ base = txn[t].base
                                 /\ row = txn[t].row /\ ok = txn[t].ok
    OBVIOUS
  <1>1. /\ id \in Ids /\ TypeOK
        /\ Exists(id) <=> txn[t].op # "add"
        /\ leaveRequests' = [leaveRequests EXCEPT ![id] = Written(t)]
        /\ txn[t].op # "delete" => Written(t) = row
        /\ answer' = [answer EXCEPT ![t] = IF ok THEN "SUCCESS" ELSE "FAILURE"]
        /\ Made(txn[t].op, base, row, ok)
        /\ txn[t].op # "add" => base \in LeaveRequest
    BY <1>p, CommitStores DEF CopySound, IInv
  <1>2. txn[t].op \in {"edit", "status"} => base = leaveRequests[id]
    BY <1>p DEF Overwrites
  <1>3. txn[t].op \in {"add", "edit", "status", "delete"}
    BY CommitStores DEF Op
  <1>4. CASE txn[t].op = "add"
    <2>1. PICK u \in Users, d \in Details : DaysOf[d] # 0 /\ row = NewRequest(u, d)
      BY <1>1, <1>4 DEF Made
    <2>2. leaveRequests[id] = NoRow /\ ok
      BY <1>1, <1>4 DEF Exists, Made
    <2>3. Ledger!Raise(t, id, u, d)
      BY <2>1, <2>2, <1>1, <1>4 DEF Ledger!Raise, Ledger!NewRequest, NewRequest,
         Ledger!Answered
    <2> QED
      BY <2>3, <1>1 DEF Ledger!LedgerNext, Ledger!Ids, Ids, Ledger!Details, Details
  <1>5. CASE txn[t].op = "edit"
    <2>1. PICK d \in Details, n \in 1 .. AllParts, counted \in BOOLEAN :
             /\ row = Edited(base, d, n, counted)
             /\ ok = (n = AllParts /\ row.days # 0)
      BY <1>1, <1>5 DEF Made
    <2>2. Ledger!Revise(t, id, d) \/ Ledger!Spoil(t, id, d, n)
      <3>1. base \in LeaveRequest /\ leaveRequests[id] = base
        BY <1>1, <1>2, <1>5
      <3>2. leaveRequests' = [leaveRequests EXCEPT ![id] = Edited(base, d, n, counted)]
        BY <1>1, <1>5, <2>1
      <3> QED
        BY <1>1, <2>1, <3>1, <3>2, EditIsLedgerStep
    <2> QED
      BY <2>2, <1>1 DEF Ledger!LedgerNext, Ledger!Ids, Ids, Ledger!Details, Details,
         Ledger!AllParts, AllParts
  <1>6. CASE txn[t].op = "status"
    <2>1. PICK u \in Users, st \in Status, c \in Comments \cup {NoComment} :
              /\ st # base.status \/ c # NoComment
              /\ row = [base EXCEPT !.status = st, !.changedBy = u, !.comments = c]
      BY <1>1, <1>6 DEF Made
    <2>2. leaveRequests[id] # NoRow /\ ok
      BY <1>1, <1>6 DEF Exists, Made
    <2>3. Ledger!Decide(t, id, u, st, c)
      BY <2>1, <2>2, <1>1, <1>2, <1>6 DEF Ledger!Decide, Ledger!Answered
    <2> QED
      BY <2>3, <1>1 DEF Ledger!LedgerNext, Ledger!Ids, Ids, Ledger!Status, Status
  <1>7. CASE txn[t].op = "delete"
    <2>1. leaveRequests[id] # NoRow /\ ok
      BY <1>1, <1>7 DEF Exists, Made
    <2>2. Ledger!Withdraw(t, id)
      BY <1>1, <1>7, <2>1 DEF Ledger!Withdraw, Written, Ledger!Answered
    <2> QED
      BY <2>2, <1>1 DEF Ledger!LedgerNext, Ledger!Ids, Ids
  <1> QED
    BY <1>3, <1>4, <1>5, <1>6, <1>7

LEMMA LedgerStart == Init => Ledger!LedgerInit
  BY DEF Init, Ledger!LedgerInit, Ledger!Ids, Ids

LEMMA StepOfLedger ==
    ASSUME IInv, [Next]_vars
    PROVE  [Ledger!LedgerNext \/ Overwrites]_leaveRequests
  <1>1. TypeOK
    BY DEF IInv
  <1> QED
    BY <1>1, OnlyCommitsWrite, CommitIsLedgerStep

\* Any number of threads, any interleaving, crashes and failed flushes included:
\* a change of the table is a step of the ledger or overwrites another change.
THEOREM HandlersImplementLedger == Spec => ImplementsLedger
  BY LedgerStart, StepOfLedger, Inductive, PTL DEF Spec, ImplementsLedger

\* Behaviours in which nothing is overwritten implement the ledger as it stands.
THEOREM WithoutOverwrites == Spec /\ [][~ Overwrites]_vars => Ledger!LedgerSpec
  <1>1. IInv /\ [Next]_vars /\ [~ Overwrites]_vars => [Ledger!LedgerNext]_leaveRequests
    <2> SUFFICES ASSUME IInv, [Next]_vars, [~ Overwrites]_vars
                 PROVE  [Ledger!LedgerNext]_leaveRequests
      OBVIOUS
    <2>1. CASE UNCHANGED vars
      BY <2>1 DEF vars
    <2>2. CASE ~ Overwrites
      BY <2>2, StepOfLedger
    <2> QED
      BY <2>1, <2>2
  <1> QED
    BY <1>1, LedgerStart, Inductive, PTL DEF Spec, Ledger!LedgerSpec

-----------------------------------------------------------------------------
(* One thread has nobody to overwrite.                                     *)

\* What the thread read is what is stored.
BaseIsCurrent(t) ==
    Active(t) /\ txn[t].op # "add" => txn[t].base = leaveRequests[txn[t].id]

LEMMA HandlerReads ==
    ASSUME IInv, NEW t \in Threads, Handler(t)
    PROVE  BaseIsCurrent(t)'
  <1>0. /\ TypeOK /\ txn[t].phase = "idle"
        /\ UNCHANGED leaveRequests
    BY HandlerStep DEF IInv
  <1>d. ASSUME NEW op, NEW r, NEW base, NEW row, NEW ok, Dirty(t, op, r, base, row, ok),
               op = "add" \/ base = leaveRequests[r]
        PROVE  BaseIsCurrent(t)'
    <2>1. txn'[t] = [phase |-> "dirty", op |-> op, id |-> r, base |-> base,
                     row |-> row, ok |-> ok]
      BY <1>d, <1>0 DEF Dirty, TypeOK
    <2>2. txn'[t].op = op /\ txn'[t].base = base /\ txn'[t].id = r
      BY <2>1
    <2> QED
      BY <1>d, <2>2, <1>0 DEF BaseIsCurrent
  <1>f. ASSUME UNCHANGED txn PROVE BaseIsCurrent(t)'
    BY <1>0, <1>f DEF BaseIsCurrent, Active
  <1>g. ASSUME NEW a, Reply(t, a) PROVE BaseIsCurrent(t)'
    BY <1>f, <1>g DEF Reply
  <1>c. ASSUME NEW op, NEW r, NEW row, NEW ok, Change(t, op, r, row, ok)
        PROVE  BaseIsCurrent(t)'
    BY <1>d, <1>g, <1>c DEF Change
  <1>1. ASSUME NEW u, NEW d, NEW counted, AddLeaveRequest(t, u, d, counted)
        PROVE  BaseIsCurrent(t)'
    BY <1>1, <1>d, <1>g DEF AddLeaveRequest
  <1>2. ASSUME NEW r, NEW d, NEW n, NEW counted, UpdateLeaveRequest(t, r, d, n, counted)
        PROVE  BaseIsCurrent(t)'
    BY <1>2, <1>c, <1>g DEF UpdateLeaveRequest
  <1>3. ASSUME NEW r, NEW u, NEW st, NEW c, UpdateLeaveRequestStatus(t, r, u, st, c)
        PROVE  BaseIsCurrent(t)'
    BY <1>3, <1>c, <1>g DEF UpdateLeaveRequestStatus
  <1>4. ASSUME NEW r, DeleteLeaveRequest(t, r) PROVE BaseIsCurrent(t)'
    BY <1>4, <1>d, <1>g DEF DeleteLeaveRequest
  <1>5. ASSUME NEW r, SendReminder(t, r) PROVE BaseIsCurrent(t)'
    BY <1>5, <1>g DEF SendReminder
  <1> QED
    BY <1>1, <1>2, <1>3, <1>4, <1>5 DEF Handler

LEMMA SerialBase ==
    ASSUME NEW s, Threads = {s}
    PROVE  Spec => []BaseIsCurrent(s)
  <1>1. Init => BaseIsCurrent(s)
    BY DEF Init, Idle, BaseIsCurrent, Active
  <1>2. IInv /\ BaseIsCurrent(s) /\ [Next]_vars => BaseIsCurrent(s)'
    <2> SUFFICES ASSUME IInv, BaseIsCurrent(s), [Next]_vars PROVE BaseIsCurrent(s)'
      OBVIOUS
    <2>0. TypeOK /\ s \in Threads
      BY DEF IInv
    <2>1. CASE UNCHANGED vars
      BY <2>1 DEF vars, BaseIsCurrent, Active
    <2>2. CASE Handler(s)
      BY <2>0, <2>2, HandlerReads
    <2>3. CASE Restart \/ Rollback(s) \/ Commit(s)
      <3>1. txn'[s] = Idle
        BY <2>0, <2>3 DEF Restart, Rollback, Commit, TypeOK
      <3> QED
        BY <3>1 DEF BaseIsCurrent, Active, Idle
    <2>4. CASE FlushInsert(s)
      <3>1. txn'[s].op = "add"
        BY <2>0, <2>4 DEF FlushInsert, TypeOK, Txn
      <3> QED
        BY <3>1 DEF BaseIsCurrent
    <2>5. CASE FlushRow(s) \/ FlushFails(s) \/ FlushAgain(s)
      <3>1. /\ UNCHANGED leaveRequests /\ Active(s)
            /\ txn'[s].op = txn[s].op /\ txn'[s].id = txn[s].id
            /\ txn'[s].base = txn[s].base
        BY <2>0, <2>5 DEF FlushRow, FlushFails, FlushAgain, TypeOK, Txn, Active
      <3> QED
        BY <3>1 DEF BaseIsCurrent
    <2> QED
      BY <2>1, <2>2, <2>3, <2>4, <2>5 DEF Next, Finish
  <1> QED
    BY <1>1, <1>2, Inductive, PTL DEF Spec

\* One thread implements the ledger without a further assumption.
THEOREM SerialImplementsLedger ==
    ASSUME NEW s, Threads = {s}
    PROVE  Spec => Ledger!LedgerSpec
  <1>1. BaseIsCurrent(s) /\ IInv => [~ Overwrites]_vars
    <2> SUFFICES ASSUME BaseIsCurrent(s), IInv, Overwrites PROVE FALSE
      OBVIOUS
    <2>1. /\ Commit(s) /\ txn[s].op \in {"edit", "status"}
          /\ txn[s].base # leaveRequests[txn[s].id]
      BY DEF Overwrites
    <2> QED
      BY <2>1 DEF BaseIsCurrent, Active, Commit
  <1> QED
    BY <1>1, SerialBase, Inductive, WithoutOverwrites, PTL

=============================================================================
