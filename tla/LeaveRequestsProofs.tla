------------------------ MODULE LeaveRequestsProofs ------------------------
(***************************************************************************)
(* Proofs about LeaveRequests for any number of threads, users and ids.    *)
(***************************************************************************)
EXTENDS LeaveRequests, TLAPS

\* What a row satisfies, whether it is stored or still a managed copy.
SoundRow(row) == row.status # "PENDING" => row.changedBy \in Users

\* What the handler of operation op makes of the row base, and whether it goes
\* on to answer SUCCESS.
Made(op, base, row, ok) ==
    /\ op = "add" =>
         /\ ok
         /\ \E u \in Users, d \in Details : DaysOf[d] # 0 /\ row = NewRequest(u, d)
    /\ op = "edit" =>
         \E d \in Details, n \in 1 .. AllParts, counted \in BOOLEAN :
             /\ row = Edited(base, d, n, counted)
             /\ ok = (n = AllParts /\ row.days # 0)
    /\ op = "status" =>
         /\ ok
         /\ \E u \in Users, st \in Status, c \in Comments \cup {NoComment} :
              /\ st # base.status \/ c # NoComment
              /\ row = [base EXCEPT !.status = st, !.changedBy = u, !.comments = c]
    /\ op = "delete" => ok

Active(t) == txn[t].phase # "idle"
Flushed(t) == txn[t].phase = "flushed"
Inserting(t) == Flushed(t) /\ txn[t].op = "add"

RowsSound == \A r \in Ids : Exists(r) => SoundRow(leaveRequests[r])

\* A copy keeps what was true of the row it was read from.
CopySound(t) ==
    /\ txn[t].op # "none"
    /\ txn[t].row \in LeaveRequest
    /\ SoundRow(txn[t].row)
    /\ Made(txn[t].op, txn[t].base, txn[t].row, txn[t].ok)
    /\ txn[t].op # "add" =>
         /\ txn[t].base \in LeaveRequest
         /\ txn[t].id \in Ids
         /\ txn[t].id < nextId
         /\ Exists(txn[t].id) =>
              leaveRequests[txn[t].id].requestor = txn[t].row.requestor

CopiesSound == \A t \in Threads : Active(t) => CopySound(t)

\* Ids are handed out in order, and a row an open transaction has written is
\* written by nobody else: an UPDATE or DELETE finds its row, an INSERT finds
\* its id unused and unknown to every other transaction.
LocksHeld ==
    /\ \A r \in Ids : Exists(r) => r < nextId
    /\ \A t \in Threads : Flushed(t) =>
         /\ txn[t].id \in Ids
         /\ txn[t].id < nextId
         /\ Exists(txn[t].id) <=> txn[t].op # "add"
    /\ \A t, v \in Threads : Flushed(t) /\ Flushed(v) /\ txn[t].id = txn[v].id
                                 => t = v
    /\ \A t, v \in Threads : Inserting(t) /\ v # t => txn[v].id # txn[t].id

IdleMeansIdle == \A t \in Threads : ~ Active(t) => txn[t] = Idle
InsertHasNoIdYet ==
    \A t \in Threads : txn[t].op = "add" /\ ~ Flushed(t) => txn[t].id = 0

IInv == TypeOK /\ RowsSound /\ CopiesSound /\ LocksHeld
               /\ IdleMeansIdle /\ InsertHasNoIdYet

-----------------------------------------------------------------------------
(* Ways a handler goes on.                                                 *)

\* An answer without a change keeps the invariant.
LEMMA ReplyPreserves ==
    ASSUME IInv, NEW t \in Threads, NEW a \in {"SUCCESS", "FAILURE", "ERROR"},
           answer' = [answer EXCEPT ![t] = a],
           UNCHANGED <<leaveRequests, nextId, txn>>
    PROVE  IInv'
  <1>1. TypeOK'
    BY DEF IInv, TypeOK
  <1>2. RowsSound' /\ CopiesSound' /\ LocksHeld' /\ IdleMeansIdle' /\ InsertHasNoIdYet'
    BY DEF IInv, RowsSound, CopiesSound, CopySound, LocksHeld, IdleMeansIdle, InsertHasNoIdYet,
           Exists, Active, Flushed, Inserting, SoundRow
  <1> QED
    BY <1>1, <1>2 DEF IInv

\* A managed copy made from a stored row, or a new request, keeps it too.
LEMMA DirtyPreserves ==
    ASSUME IInv, NEW t \in Threads, NEW op \in Op \ {"none"}, NEW r,
           NEW base \in LeaveRequest \cup {NoRow},
           NEW row \in LeaveRequest, NEW ok \in BOOLEAN,
           txn[t].phase = "idle",
           SoundRow(row), Made(op, base, row, ok),
           op = "add" => r = 0,
           op # "add" => /\ r \in Ids
                         /\ Exists(r)
                         /\ base \in LeaveRequest
                         /\ leaveRequests[r].requestor = row.requestor,
           Dirty(t, op, r, base, row, ok)
    PROVE  IInv'
  <1> DEFINE new == [phase |-> "dirty", op |-> op, id |-> r, base |-> base,
                     row |-> row, ok |-> ok]
  <1> USE DEF Dirty
  <1>0. /\ TypeOK /\ RowsSound /\ CopiesSound /\ LocksHeld /\ IdleMeansIdle
        /\ InsertHasNoIdYet
    BY DEF IInv
  <1>1. new \in Txn
    BY DEF Txn, Op
  <1>2. /\ txn'[t] = new
        /\ \A v \in Threads \ {t} : txn'[v] = txn[v]
        /\ leaveRequests' = leaveRequests /\ nextId' = nextId
    BY <1>0 DEF TypeOK
  <1>3. TypeOK'
    BY <1>0, <1>1 DEF TypeOK
  <1>4. RowsSound'
    BY <1>0, <1>2 DEF RowsSound, Exists, SoundRow
  <1>5. CopiesSound'
    <2> SUFFICES ASSUME NEW v \in Threads, Active(v)' PROVE CopySound(v)'
      BY DEF CopiesSound
    <2>1. CASE v = t
      BY <2>1, <1>0, <1>2 DEF LocksHeld, CopySound, Exists, SoundRow
    <2>2. CASE v # t
      BY <2>2, <1>0, <1>2 DEF CopiesSound, CopySound, Active, Exists, SoundRow
    <2> QED
      BY <2>1, <2>2
  <1>6. LocksHeld'
    <2>1. \A v \in Threads : Flushed(v)' => v # t /\ Flushed(v)
      BY <1>2 DEF Flushed
    <2>2. \A v \in Threads : Inserting(v) => txn[v].id # r
      <3>1. CASE op = "add"
        BY <3>1, <1>0 DEF LocksHeld, Inserting, Ids
      <3>2. CASE op # "add"
        BY <3>2, <1>0 DEF LocksHeld, Inserting
      <3> QED
        BY <3>1, <3>2
    <2> QED
      BY <2>1, <2>2, <1>0, <1>2 DEF LocksHeld, Exists, Flushed, Inserting
  <1>7. IdleMeansIdle'
    BY <1>0, <1>2 DEF IdleMeansIdle, Active
  <1>8. InsertHasNoIdYet'
    BY <1>0, <1>2 DEF InsertHasNoIdYet, Flushed
  <1> QED
    BY <1>3, <1>4, <1>5, <1>6, <1>7, <1>8 DEF IInv

\* A managed copy of a stored row, whether it differs from the row or not.
LEMMA ChangePreserves ==
    ASSUME IInv, NEW t \in Threads, NEW op \in Op \ {"none", "add"}, NEW r \in Ids,
           NEW row \in LeaveRequest, NEW ok \in BOOLEAN,
           txn[t].phase = "idle", Exists(r),
           SoundRow(row), Made(op, leaveRequests[r], row, ok),
           leaveRequests[r].requestor = row.requestor,
           Change(t, op, r, row, ok)
    PROVE  IInv'
  <1>0. leaveRequests[r] \in LeaveRequest
    BY DEF IInv, TypeOK, Exists
  <1>1. CASE row = leaveRequests[r]
    <2>1. PICK a \in {"SUCCESS", "FAILURE"} : Reply(t, a)
      BY <1>1 DEF Change
    <2> QED
      BY <2>1, ReplyPreserves DEF Reply
  <1>2. CASE row # leaveRequests[r]
    <2>1. Dirty(t, op, r, leaveRequests[r], row, ok)
      BY <1>2 DEF Change
    <2> QED
      BY <2>1, <1>0, DirtyPreserves
  <1> QED
    BY <1>1, <1>2

-----------------------------------------------------------------------------
(* Flush and commit.                                                       *)

LEMMA FlushInsertPreserves ==
    ASSUME IInv, NEW t \in Threads, FlushInsert(t)
    PROVE  IInv'
  <1>0. /\ TypeOK /\ RowsSound /\ CopiesSound /\ LocksHeld /\ IdleMeansIdle
        /\ InsertHasNoIdYet /\ MaxId \in Nat /\ nextId \in Ids
    BY LeaveAssumption DEF IInv, TypeOK, Ids, FlushInsert
  <1> DEFINE new == [txn[t] EXCEPT !.phase = "flushed", !.id = nextId]
  <1>a. /\ txn[t] \in Txn /\ txn[t].phase = "dirty" /\ txn[t].op = "add"
        /\ txn' = [txn EXCEPT ![t] = new]
        /\ leaveRequests' = leaveRequests /\ nextId' = nextId + 1
        /\ answer' = answer
    BY <1>0 DEF TypeOK, FlushInsert
  <1>b. /\ new \in Txn /\ new.phase = "flushed" /\ new.id = nextId
        /\ new.op = "add" /\ new.row = txn[t].row
        /\ new.base = txn[t].base /\ new.ok = txn[t].ok
    BY <1>0, <1>a DEF Txn
  <1> HIDE DEF new
  <1>1. /\ txn'[t] = new
        /\ \A v \in Threads \ {t} : txn'[v] = txn[v]
    BY <1>0, <1>a DEF TypeOK
  <1>3. TypeOK'
    BY <1>0, <1>a, <1>b DEF TypeOK, Ids
  <1>4. RowsSound'
    BY <1>0, <1>1, <1>a, <1>b DEF RowsSound, Exists, SoundRow
  <1>5. CopiesSound'
    <2> SUFFICES ASSUME NEW v \in Threads, Active(v)' PROVE CopySound(v)'
      BY DEF CopiesSound
    <2>1. CASE v = t
      BY <2>1, <1>0, <1>1, <1>a, <1>b DEF CopiesSound, CopySound, Active, SoundRow
    <2>2. CASE v # t
      BY <2>2, <1>0, <1>1, <1>a, <1>b DEF CopiesSound, CopySound, Active, Exists, SoundRow, Ids
    <2> QED
      BY <2>1, <2>2
  <1>6. LocksHeld'
    <2>1. txn'[t].id = nextId /\ txn'[t].op = "add" /\ Flushed(t)'
      BY <1>1, <1>a, <1>b DEF Flushed
    <2>2. \A v \in Threads \ {t} : txn[v].id # nextId
      <3> SUFFICES ASSUME NEW v \in Threads \ {t} PROVE txn[v].id # nextId
        OBVIOUS
      <3>1. CASE ~ Active(v)
        BY <3>1, <1>0 DEF IdleMeansIdle, Idle, Ids
      <3>2. CASE Active(v) /\ txn[v].op # "add"
        BY <3>2, <1>0 DEF CopiesSound, CopySound, Ids
      <3>3. CASE txn[v].op = "add"
        BY <3>3, <1>0 DEF LocksHeld, InsertHasNoIdYet, Ids
      <3> QED
        BY <3>1, <3>2, <3>3
    <2>3. \A v \in Threads \ {t} : (Flushed(v)' <=> Flushed(v))
                                /\ (Inserting(v)' <=> Inserting(v))
      BY <1>1, <1>a, <1>b DEF Flushed, Inserting
    <2>4. \A v \in Threads : Inserting(v) => txn[v].id # nextId
      BY <1>0 DEF LocksHeld, Inserting, Ids
    <2>5. (\A r \in Ids : Exists(r) => r < nextId)'
      BY <1>0, <1>1, <1>a, <1>b DEF LocksHeld, Exists, Ids
    <2>6. (\A v \in Threads : Flushed(v) => /\ txn[v].id \in Ids
                                            /\ txn[v].id < nextId
                                            /\ Exists(txn[v].id) <=> txn[v].op # "add")'
      <3> SUFFICES ASSUME NEW v \in Threads, Flushed(v)'
                   PROVE  (/\ txn[v].id \in Ids
                           /\ txn[v].id < nextId
                           /\ Exists(txn[v].id) <=> txn[v].op # "add")'
        OBVIOUS
      <3>1. CASE v = t
        BY <3>1, <2>1, <1>0, <1>1, <1>a, <1>b DEF LocksHeld, Exists, Ids
      <3>2. CASE v # t
        BY <3>2, <2>3, <1>0, <1>1, <1>a, <1>b DEF LocksHeld, Exists, Ids
      <3> QED
        BY <3>1, <3>2
    <2>7. (\A v, w \in Threads : Flushed(v) /\ Flushed(w) /\ txn[v].id = txn[w].id
                                     => v = w)'
      BY <2>1, <2>2, <2>3, <1>0, <1>1, <1>a, <1>b DEF LocksHeld
    <2>8. (\A v, w \in Threads : Inserting(v) /\ w # v => txn[w].id # txn[v].id)'
      BY <2>1, <2>2, <2>3, <2>4, <1>0, <1>1, <1>a, <1>b DEF LocksHeld
    <2> QED
      BY <2>5, <2>6, <2>7, <2>8 DEF LocksHeld
  <1>7. IdleMeansIdle' /\ InsertHasNoIdYet'
    BY <1>0, <1>1, <1>a, <1>b DEF IdleMeansIdle, InsertHasNoIdYet, Active, Flushed
  <1> QED
    BY <1>3, <1>4, <1>5, <1>6, <1>7 DEF IInv

LEMMA FlushFailsPreserves ==
    ASSUME IInv, NEW t \in Threads, FlushFails(t)
    PROVE  IInv'
  <1>0. /\ TypeOK /\ RowsSound /\ CopiesSound /\ LocksHeld /\ IdleMeansIdle
        /\ InsertHasNoIdYet
    BY DEF IInv
  <1>1. /\ txn'[t] = [txn[t] EXCEPT !.phase = "stale"]
        /\ txn[t] \in Txn /\ txn[t].phase = "dirty"
        /\ \A v \in Threads \ {t} : txn'[v] = txn[v]
        /\ leaveRequests' = leaveRequests /\ nextId' = nextId
    BY <1>0 DEF TypeOK, FlushFails
  <1>3. TypeOK'
    BY <1>0, <1>1 DEF TypeOK, Txn, FlushFails
  <1>4. RowsSound'
    BY <1>0, <1>1 DEF RowsSound, Exists, SoundRow
  <1>a. \A v \in Threads : /\ txn'[v].id = txn[v].id /\ txn'[v].op = txn[v].op
                           /\ txn'[v].base = txn[v].base
                           /\ txn'[v].row = txn[v].row /\ txn'[v].ok = txn[v].ok
                           /\ Active(v)' => Active(v)
    BY <1>1 DEF Txn, Active
  <1>5. CopiesSound'
    BY <1>0, <1>1, <1>a DEF CopiesSound, CopySound, Exists, SoundRow
  <1>6. \A v \in Threads : /\ Flushed(v)' => v # t /\ Flushed(v)
                           /\ Inserting(v)' => v # t /\ Inserting(v)
    BY <1>1 DEF Flushed, Inserting, Txn
  <1>7. LocksHeld'
    BY <1>0, <1>1, <1>a, <1>6 DEF LocksHeld, Exists
  <1>8. IdleMeansIdle' /\ InsertHasNoIdYet'
    BY <1>0, <1>1 DEF IdleMeansIdle, InsertHasNoIdYet, Active, Flushed, Txn
  <1> QED
    BY <1>3, <1>4, <1>5, <1>7, <1>8 DEF IInv

\* Writing a row that exists and that nobody has locked, at once or at the commit.
LEMMA FlushRowPreserves ==
    ASSUME IInv, NEW t \in Threads, FlushRow(t) \/ FlushAgain(t)
    PROVE  IInv'
  <1>0. /\ TypeOK /\ RowsSound /\ CopiesSound /\ LocksHeld /\ IdleMeansIdle
        /\ InsertHasNoIdYet
    BY DEF IInv
  <1> DEFINE new == [txn[t] EXCEPT !.phase = "flushed"]
  <1>a. /\ txn[t] \in Txn /\ txn[t].phase \in {"dirty", "stale"}
        /\ txn[t].op # "add"
        /\ Exists(txn[t].id) /\ ~ Locked(txn[t].id)
        /\ txn' = [txn EXCEPT ![t] = new]
        /\ leaveRequests' = leaveRequests /\ nextId' = nextId
        /\ answer' = answer
    BY <1>0 DEF TypeOK, FlushRow, FlushAgain
  <1>b. /\ new \in Txn /\ new.phase = "flushed"
        /\ new.id = txn[t].id /\ new.op = txn[t].op /\ new.row = txn[t].row
        /\ new.base = txn[t].base /\ new.ok = txn[t].ok
    BY <1>a DEF Txn
  <1> HIDE DEF new
  <1>1. /\ txn'[t] = new
        /\ \A v \in Threads \ {t} : txn'[v] = txn[v]
        /\ \A v \in Threads : txn'[v].id = txn[v].id /\ txn'[v].op = txn[v].op
    BY <1>0, <1>a, <1>b DEF TypeOK
  <1>3. TypeOK'
    BY <1>0, <1>a, <1>b DEF TypeOK
  <1>4. RowsSound'
    BY <1>0, <1>a DEF RowsSound, Exists, SoundRow
  <1>5. CopiesSound'
    BY <1>0, <1>a, <1>b, <1>1 DEF CopiesSound, CopySound, Active, Exists, SoundRow
  <1>6. LocksHeld'
    <2>1. \A v \in Threads \ {t} : /\ Flushed(v)' <=> Flushed(v)
                                   /\ Flushed(v) => txn[v].id # txn[t].id
      BY <1>a, <1>1 DEF Flushed, Locked
    <2>2. \A v \in Threads : Inserting(v)' => v # t /\ Inserting(v)
      BY <1>a, <1>b, <1>1 DEF Inserting, Flushed
    <2>3. Flushed(t)' => /\ txn[t].id \in Ids /\ txn[t].id < nextId
                         /\ Exists(txn[t].id)
      BY <1>0, <1>a, <1>b, <1>1 DEF Flushed, CopiesSound, CopySound, Active
    <2> QED
      BY <2>1, <2>2, <2>3, <1>0, <1>a, <1>1 DEF LocksHeld, Exists
  <1>7. IdleMeansIdle' /\ InsertHasNoIdYet'
    BY <1>0, <1>a, <1>b, <1>1 DEF IdleMeansIdle, InsertHasNoIdYet, Active, Flushed
  <1> QED
    BY <1>3, <1>4, <1>5, <1>6, <1>7 DEF IInv

\* A commit changes the one row its transaction has locked.
LEMMA CommitPreserves ==
    ASSUME IInv, NEW t \in Threads, Commit(t)
    PROVE  IInv'
  <1>0. /\ TypeOK /\ RowsSound /\ CopiesSound /\ LocksHeld /\ IdleMeansIdle
        /\ InsertHasNoIdYet
    BY DEF IInv
  <1>p. PICK id : id = txn[t].id
    OBVIOUS
  <1>a. /\ txn[t] \in Txn /\ Flushed(t) /\ Active(t)
        /\ id \in Ids /\ id < nextId
        /\ leaveRequests' = [leaveRequests EXCEPT ![id] = Written(t)]
        /\ txn' = [txn EXCEPT ![t] = Idle]
        /\ nextId' = nextId
        /\ CopySound(t)
        /\ answer' = [answer EXCEPT ![t] = IF txn[t].ok THEN "SUCCESS" ELSE "FAILURE"]
    BY <1>0, <1>p DEF TypeOK, Commit, Flushed, Active, LocksHeld, CopiesSound
  <1>b. /\ Written(t) \in LeaveRequest \cup {NoRow}
        /\ Written(t) # NoRow => Written(t) = txn[t].row
        /\ txn[t].op = "add" => Written(t) = txn[t].row
    BY <1>a, NoRowAssumption DEF Written, CopySound
  <1>1. /\ txn'[t] = Idle
        /\ \A v \in Threads \ {t} : txn'[v] = txn[v]
        /\ leaveRequests'[id] = Written(t)
        /\ \A r \in Ids \ {id} : leaveRequests'[r] = leaveRequests[r]
    BY <1>0, <1>a DEF TypeOK
  <1>3. TypeOK'
    BY <1>0, <1>a, <1>b DEF TypeOK, Idle, Txn, Op
  <1>4. RowsSound'
    BY <1>0, <1>a, <1>b, <1>1 DEF RowsSound, Exists, SoundRow, CopySound
  <1>5. CopiesSound'
    <2> SUFFICES ASSUME NEW v \in Threads, Active(v)' PROVE CopySound(v)'
      BY DEF CopiesSound
    <2>1. v # t /\ Active(v) /\ txn'[v] = txn[v] /\ CopySound(v)
      BY <1>0, <1>1 DEF Active, Idle, CopiesSound
    <2>2. CASE txn[v].op = "add"
      BY <2>1, <2>2 DEF CopySound, SoundRow
    <2>3. CASE txn[v].op # "add" /\ txn[v].id # id
      BY <2>1, <2>3, <1>1, <1>a DEF CopySound, SoundRow, Exists
    <2>4. CASE txn[v].op # "add" /\ txn[v].id = id
      \* v read the row earlier, so t does not insert it: both have its owner.
      <3>1. txn[t].op # "add"
        BY <2>1, <2>4, <1>0, <1>a, <1>p DEF LocksHeld, Inserting
      <3>2. Exists(id)
        BY <3>1, <1>0, <1>a, <1>p DEF LocksHeld
      <3>3. leaveRequests[id].requestor = txn[t].row.requestor
        BY <3>1, <3>2, <1>a, <1>p DEF CopySound
      <3>4. leaveRequests[id].requestor = txn[v].row.requestor
        BY <2>1, <2>4, <3>2 DEF CopySound
      <3>5. Exists(id)' => leaveRequests'[id] = txn[t].row
        BY <1>b, <1>1, <1>a DEF Exists
      <3> QED
        BY <2>1, <2>4, <3>3, <3>4, <3>5, <1>a DEF CopySound, SoundRow, Exists
    <2> QED
      BY <2>2, <2>3, <2>4
  <1>6. LocksHeld'
    <2>1. \A v \in Threads : Flushed(v)' => /\ v # t /\ Flushed(v)
                                            /\ txn[v].id # id /\ txn'[v] = txn[v]
      BY <1>0, <1>a, <1>1, <1>p DEF Flushed, Idle, LocksHeld
    <2>2. \A v \in Threads : Inserting(v)' => v # t /\ Inserting(v)
      BY <2>1 DEF Inserting
    <2>3. \A v \in Threads : Inserting(v)' => txn'[v].id # 0
      BY <2>1, <2>2, <1>0 DEF LocksHeld, Inserting, Ids
    <2>4. (\A r \in Ids : Exists(r) => r < nextId)'
      BY <1>0, <1>a, <1>1 DEF LocksHeld, Exists
    <2>5. (\A v \in Threads : Flushed(v) => /\ txn[v].id \in Ids
                                            /\ txn[v].id < nextId
                                            /\ Exists(txn[v].id) <=> txn[v].op # "add")'
      BY <2>1, <1>0, <1>a, <1>1 DEF LocksHeld, Exists
    <2>6. (\A v, w \in Threads : Flushed(v) /\ Flushed(w) /\ txn[v].id = txn[w].id
                                     => v = w)'
      BY <2>1, <1>0 DEF LocksHeld
    <2>7. (\A v, w \in Threads : Inserting(v) /\ w # v => txn[w].id # txn[v].id)'
      BY <2>1, <2>2, <2>3, <1>0, <1>1 DEF LocksHeld, Idle, Inserting
    <2> QED
      BY <2>4, <2>5, <2>6, <2>7 DEF LocksHeld
  <1>7. IdleMeansIdle' /\ InsertHasNoIdYet'
    <2>1. \A v \in Threads \ {t} : txn'[v] = txn[v]
      BY <1>1
    <2> QED
      <3>1. IdleMeansIdle'
        BY <2>1, <1>0, <1>1 DEF IdleMeansIdle, Active
      <3>2. txn'[t].op # "add"
        BY <1>1 DEF Idle
      <3>3. InsertHasNoIdYet'
        BY <2>1, <3>2, <1>0 DEF InsertHasNoIdYet, Flushed
      <3> QED
        BY <3>1, <3>3
  <1> QED
    BY <1>3, <1>4, <1>5, <1>6, <1>7 DEF IInv

\* Giving up some transactions (one of them, or all at a restart) leaves the
\* rows alone and only releases locks.
LEMMA AbandonPreserves ==
    ASSUME IInv, NEW Lost \in SUBSET Threads,
           txn' = [t \in Threads |-> IF t \in Lost THEN Idle ELSE txn[t]],
           answer' \in [Threads -> {"NONE", "SUCCESS", "FAILURE", "ERROR"}],
           UNCHANGED <<leaveRequests, nextId>>
    PROVE  IInv'
  <1>0. /\ TypeOK /\ RowsSound /\ CopiesSound /\ LocksHeld /\ IdleMeansIdle
        /\ InsertHasNoIdYet
    BY DEF IInv
  <1>1. /\ \A v \in Threads : txn'[v] = IF v \in Lost THEN Idle ELSE txn[v]
        /\ Idle \in Txn /\ Idle.phase = "idle" /\ Idle.id = 0 /\ Idle.op = "none"
    BY DEF Idle, Txn, Op
  <1>2. \A v \in Threads : /\ Active(v)' => v \notin Lost
                           /\ Flushed(v)' => v \notin Lost /\ Flushed(v)
                           /\ Inserting(v)' => v \notin Lost /\ Inserting(v)
    BY <1>1 DEF Active, Flushed, Inserting
  <1>3. TypeOK'
    BY <1>0, <1>1 DEF TypeOK
  <1>4. RowsSound'
    BY <1>0 DEF RowsSound, Exists, SoundRow
  <1>5. CopiesSound'
    BY <1>0, <1>1, <1>2 DEF CopiesSound, CopySound, Exists, SoundRow, Active
  <1>6. LocksHeld'
    <2>1. \A v \in Threads : Inserting(v) => txn[v].id # 0
      BY <1>0 DEF LocksHeld, Inserting, Ids
    <2>2. (\A v, w \in Threads : Inserting(v) /\ w # v => txn[w].id # txn[v].id)'
      BY <1>0, <1>1, <1>2, <2>1 DEF LocksHeld
    <2> QED
      BY <2>2, <1>0, <1>1, <1>2 DEF LocksHeld, Exists
  <1>7. IdleMeansIdle'
    BY <1>0, <1>1 DEF IdleMeansIdle, Active
  <1>8. InsertHasNoIdYet'
    BY <1>0, <1>1 DEF InsertHasNoIdYet, Flushed
  <1> QED
    BY <1>3, <1>4, <1>5, <1>6, <1>7, <1>8 DEF IInv

-----------------------------------------------------------------------------
(* The handlers, each answering at once or going on with a dirty copy.     *)

\* An edit, in part or whole, makes a row of a row and keeps what was sound.
LEMMA EditedSound ==
    ASSUME NEW row \in LeaveRequest, NEW d \in Details, NEW n \in 1 .. AllParts,
           NEW counted \in BOOLEAN, SoundRow(row)
    PROVE  /\ Edited(row, d, n, counted) \in LeaveRequest
           /\ SoundRow(Edited(row, d, n, counted))
           /\ row.requestor = Edited(row, d, n, counted).requestor
  <1>1. Parsed(row.details, d, n) \in Details
    BY DEF Parsed, Details, LeaveRequest
  <1>2. DaysOf[d] \in Int
    BY LeaveAssumption
  <1> DEFINE parts == Parsed(row.details, d, n)
             days == IF n < AllParts THEN row.days ELSE IF counted THEN DaysOf[d] ELSE 0
  <1>3. days \in Int
    BY <1>2 DEF LeaveRequest
  <1>4. Edited(row, d, n, counted) = [row EXCEPT !.details = parts, !.days = days]
    BY DEF Edited
  <1> HIDE DEF parts, days
  <1>5. parts \in Details
    BY <1>1 DEF parts
  <1> QED
    BY <1>3, <1>4, <1>5 DEF LeaveRequest, SoundRow

LEMMA HandlerPreserves ==
    ASSUME IInv, NEW t \in Threads, Handler(t)
    PROVE  IInv'
  <1>0. /\ TypeOK /\ RowsSound /\ CopiesSound /\ LocksHeld
    BY DEF IInv
  <1>r. ASSUME NEW r \in Ids, Exists(r)
        PROVE  leaveRequests[r] \in LeaveRequest /\ SoundRow(leaveRequests[r])
    BY <1>r, <1>0 DEF TypeOK, RowsSound, Exists
  <1>f. ASSUME Reply(t, "FAILURE") PROVE IInv'
    BY <1>f, ReplyPreserves DEF Reply
  <1>1. ASSUME NEW u \in Users \cup {NoUser}, NEW d \in Details,
               NEW counted \in BOOLEAN, AddLeaveRequest(t, u, d, counted)
        PROVE  IInv'
    <2>1. CASE /\ u \in Users /\ DaysOf[d] # 0
               /\ Dirty(t, "add", 0, NoRow, NewRequest(u, d), TRUE)
      <3>1. /\ NewRequest(u, d) \in LeaveRequest
            /\ SoundRow(NewRequest(u, d))
        BY <2>1, LeaveAssumption DEF NewRequest, LeaveRequest, SoundRow, Status
      <3>2. Made("add", NoRow, NewRequest(u, d), TRUE)
        BY <2>1 DEF Made
      <3>3. txn[t].phase = "idle"
        BY <1>1 DEF AddLeaveRequest
      <3> QED
        BY <2>1, <3>1, <3>2, <3>3, DirtyPreserves DEF Op
    <2> QED
      BY <2>1, <1>1, <1>f DEF AddLeaveRequest
  <1>2. ASSUME NEW r \in Ids, NEW d \in Details, NEW n \in 1 .. AllParts,
               NEW counted \in BOOLEAN, UpdateLeaveRequest(t, r, d, n, counted)
        PROVE  IInv'
    <2> DEFINE row == Edited(leaveRequests[r], d, n, counted)
               ok  == n = AllParts /\ row.days # 0
    <2>1. CASE Exists(r) /\ Change(t, "edit", r, row, ok)
      <3>1. /\ row \in LeaveRequest /\ SoundRow(row)
            /\ leaveRequests[r].requestor = row.requestor
        BY <2>1, <1>r, EditedSound
      <3>2. Made("edit", leaveRequests[r], row, ok)
        BY DEF Made
      <3>3. txn[t].phase = "idle" /\ ok \in BOOLEAN
        BY <1>2 DEF UpdateLeaveRequest
      <3> HIDE DEF row, ok
      <3> QED
        BY <2>1, <3>1, <3>2, <3>3, ChangePreserves DEF Op
    <2> QED
      BY <2>1, <1>2, <1>f DEF UpdateLeaveRequest
  <1>3. ASSUME NEW r \in Ids, NEW u \in Users \cup {NoUser}, NEW st \in Status,
               NEW c \in Comments \cup {NoComment},
               UpdateLeaveRequestStatus(t, r, u, st, c)
        PROVE  IInv'
    <2> DEFINE row == [leaveRequests[r] EXCEPT !.status = st, !.changedBy = u,
                                               !.comments = c]
    <2>1. CASE /\ Exists(r) /\ u \in Users
               /\ ~ (st = leaveRequests[r].status /\ c = NoComment)
               /\ Change(t, "status", r, row, TRUE)
      <3>1. /\ row \in LeaveRequest /\ SoundRow(row)
            /\ leaveRequests[r].requestor = row.requestor
        BY <2>1, <1>r DEF LeaveRequest, SoundRow
      <3>2. Made("status", leaveRequests[r], row, TRUE)
        BY <2>1 DEF Made
      <3>3. txn[t].phase = "idle"
        BY <1>3 DEF UpdateLeaveRequestStatus
      <3> HIDE DEF row
      <3> QED
        BY <2>1, <3>1, <3>2, <3>3, ChangePreserves DEF Op
    <2> QED
      BY <2>1, <1>3, <1>f DEF UpdateLeaveRequestStatus
  <1>4. ASSUME NEW r \in Ids, DeleteLeaveRequest(t, r)
        PROVE  IInv'
    <2>1. CASE /\ Exists(r)
               /\ Dirty(t, "delete", r, leaveRequests[r], leaveRequests[r], TRUE)
      <3>1. Made("delete", leaveRequests[r], leaveRequests[r], TRUE)
        BY DEF Made
      <3>2. txn[t].phase = "idle"
        BY <1>4 DEF DeleteLeaveRequest
      <3> QED
        BY <2>1, <3>1, <3>2, <1>r, DirtyPreserves DEF Op
    <2>2. CASE Reply(t, "ERROR")
      BY <2>2, ReplyPreserves DEF Reply
    <2> QED
      BY <2>1, <2>2, <1>4, <1>f DEF DeleteLeaveRequest
  <1>5. ASSUME NEW r \in Ids, SendReminder(t, r)
        PROVE  IInv'
    BY <1>5, <1>f, ReplyPreserves DEF SendReminder, Reply
  <1> QED
    BY <1>1, <1>2, <1>3, <1>4, <1>5 DEF Handler

\* The inductive invariant of the handlers.
THEOREM Inductive == Spec => []IInv
  <1>1. Init => IInv
    BY LeaveAssumption
    DEF Init, IInv, TypeOK, Txn, Op, Idle, Status, Ids, RowsSound,
        CopiesSound, LocksHeld, IdleMeansIdle, InsertHasNoIdYet, Exists, Active,
        Flushed, Inserting
  <1>2. IInv /\ [Next]_vars => IInv'
    <2> SUFFICES ASSUME IInv, [Next]_vars PROVE IInv'
      OBVIOUS
    <2>1. CASE Restart
      BY <2>1, AbandonPreserves DEF Restart
    <2>2. ASSUME NEW t \in Threads, Handler(t) PROVE IInv'
      BY <2>2, HandlerPreserves
    <2>3. ASSUME NEW t \in Threads, FlushInsert(t) PROVE IInv'
      BY <2>3, FlushInsertPreserves
    <2>4. ASSUME NEW t \in Threads, FlushFails(t) PROVE IInv'
      BY <2>4, FlushFailsPreserves
    <2>5. ASSUME NEW t \in Threads, FlushRow(t) \/ FlushAgain(t) PROVE IInv'
      BY <2>5, FlushRowPreserves
    <2>6. ASSUME NEW t \in Threads, Commit(t) PROVE IInv'
      BY <2>6, CommitPreserves
    <2>7. ASSUME NEW t \in Threads, Rollback(t) PROVE IInv'
      <3>1. /\ txn' = [v \in Threads |-> IF v \in {t} THEN Idle ELSE txn[v]]
            /\ answer' \in [Threads -> {"NONE", "SUCCESS", "FAILURE", "ERROR"}]
        BY <2>7 DEF Rollback, IInv, TypeOK
      <3> QED
        BY <2>7, <3>1, AbandonPreserves DEF Rollback
    <2>8. CASE UNCHANGED vars
      BY <2>8 DEF vars, IInv, TypeOK, RowsSound, CopiesSound, CopySound, LocksHeld,
         IdleMeansIdle, InsertHasNoIdYet, Exists, Active, Flushed, Inserting, SoundRow
    <2> QED
      BY <2>1, <2>2, <2>3, <2>4, <2>5, <2>6, <2>7, <2>8 DEF Next, Finish
  <1> QED
    BY <1>1, <1>2, PTL DEF Spec

\* The variables of the handlers stay in their types.
THEOREM TypeCorrect == Spec => []TypeOK
  BY Inductive, PTL DEF IInv

\* A decided request names its decider, whatever the threads interleave.
THEOREM DecidersKnown == Spec => []DecidedHasDecider
  <1>1. IInv => DecidedHasDecider
    BY DEF IInv, RowsSound, SoundRow, DecidedHasDecider
  <1> QED
    BY <1>1, Inductive, PTL

-----------------------------------------------------------------------------
(* Deleted requests stay deleted and requests keep their owner.            *)

\* Until its flush a handler touches its own transaction only.
LEMMA HandlerStep ==
    ASSUME TypeOK, NEW t \in Threads, Handler(t)
    PROVE  /\ UNCHANGED <<leaveRequests, nextId>>
           /\ txn[t].phase = "idle" /\ txn'[t].phase \in {"idle", "dirty"}
           /\ \A v \in Threads \ {t} : txn'[v] = txn[v]
  <1> DEFINE Shape == /\ UNCHANGED <<leaveRequests, nextId>>
                      /\ txn'[t].phase \in {"idle", "dirty"}
                      /\ \A v \in Threads \ {t} : txn'[v] = txn[v]
  <1>1. txn[t].phase = "idle"
    BY DEF Handler, AddLeaveRequest, UpdateLeaveRequest, DeleteLeaveRequest,
       UpdateLeaveRequestStatus, SendReminder
  <1>2. ASSUME NEW op, NEW r, NEW base, NEW row, NEW ok, Dirty(t, op, r, base, row, ok)
        PROVE  Shape
    BY <1>2 DEF Dirty, TypeOK
  <1>3. ASSUME UNCHANGED <<leaveRequests, nextId, txn>> PROVE Shape
    BY <1>1, <1>3
  <1> HIDE DEF Shape
  <1>4. ASSUME NEW a, Reply(t, a) PROVE Shape
    BY <1>3, <1>4 DEF Reply
  <1>c. ASSUME NEW op, NEW r, NEW row, NEW ok, Change(t, op, r, row, ok)
        PROVE  Shape
    BY <1>2, <1>4, <1>c DEF Change
  <1>5. ASSUME NEW u, NEW d, NEW counted, AddLeaveRequest(t, u, d, counted)
        PROVE  Shape
    BY <1>2, <1>4, <1>5 DEF AddLeaveRequest
  <1>6. ASSUME NEW r, NEW d, NEW n, NEW counted, UpdateLeaveRequest(t, r, d, n, counted)
        PROVE  Shape
    BY <1>c, <1>4, <1>6 DEF UpdateLeaveRequest
  <1>7. ASSUME NEW r, NEW u, NEW st, NEW c, UpdateLeaveRequestStatus(t, r, u, st, c)
        PROVE  Shape
    BY <1>c, <1>4, <1>7 DEF UpdateLeaveRequestStatus
  <1>8. ASSUME NEW r, DeleteLeaveRequest(t, r) PROVE Shape
    BY <1>2, <1>4, <1>8 DEF DeleteLeaveRequest
  <1>9. ASSUME NEW r, SendReminder(t, r) PROVE Shape
    BY <1>3, <1>4, <1>9 DEF SendReminder
  <1>10. Shape
    BY <1>5, <1>6, <1>7, <1>8, <1>9 DEF Handler
  <1> QED
    BY <1>1, <1>10 DEF Shape

\* Only a commit writes the table, and a commit other than an INSERT finds
\* the row it replaces, with the owner it writes back.
LEMMA IdentityStep ==
    ASSUME IInv, [Next]_vars, NEW r \in Ids
    PROVE  /\ Gone(r) => Gone(r)'
           /\ Exists(r) /\ Exists(r)' =>
                  leaveRequests[r].requestor = leaveRequests'[r].requestor
  <1>0. /\ TypeOK /\ CopiesSound /\ LocksHeld
    BY DEF IInv
  <1>1. ASSUME UNCHANGED leaveRequests, nextId' \in {nextId, nextId + 1},
               \A v \in Threads : Inserting(v)' =>
                  (Inserting(v) /\ txn'[v] = txn[v]) \/ txn'[v].id = nextId
        PROVE  Gone(r) => Gone(r)'
    <2>1. nextId \in Nat /\ nextId' \in Nat /\ nextId <= nextId' /\ r \in Nat
      BY <1>1, <1>0, LeaveAssumption DEF TypeOK, Ids
    <2> QED
      BY <2>1, <1>1 DEF Gone, Exists, Inserting, Flushed
  <1>2. ASSUME NEW t \in Threads, Handler(t)
        PROVE  UNCHANGED <<leaveRequests, nextId>>
               /\ \A v \in Threads : Inserting(v)' => Inserting(v) /\ txn'[v] = txn[v]
    BY <1>0, <1>2, HandlerStep DEF Inserting, Flushed
  <1>3. ASSUME NEW t \in Threads,
                 FlushInsert(t) \/ FlushFails(t) \/ FlushRow(t) \/ FlushAgain(t)
        PROVE  /\ UNCHANGED leaveRequests /\ nextId' \in {nextId, nextId + 1}
               /\ \A v \in Threads : Inserting(v)' =>
                     (Inserting(v) /\ txn'[v] = txn[v]) \/ txn'[v].id = nextId
    <2>0. txn[t] \in Txn /\ nextId \in Nat
      BY <1>0, LeaveAssumption DEF TypeOK
    <2>1. CASE FlushInsert(t)
      BY <2>0, <2>1, <1>0 DEF FlushInsert, TypeOK, Txn, Inserting, Flushed
    <2>2. CASE FlushFails(t)
      BY <2>0, <2>2, <1>0 DEF FlushFails, TypeOK, Txn, Inserting, Flushed
    <2>3. CASE FlushRow(t) \/ FlushAgain(t)
      BY <2>0, <2>3, <1>0 DEF FlushRow, FlushAgain, TypeOK, Txn, Inserting, Flushed
    <2> QED
      BY <1>3, <2>1, <2>2, <2>3
  <1>4. ASSUME Restart \/ (\E t \in Threads : Rollback(t)) \/ UNCHANGED vars
        PROVE  /\ UNCHANGED <<leaveRequests, nextId>>
               /\ \A v \in Threads : Inserting(v)' => Inserting(v) /\ txn'[v] = txn[v]
    <2>1. UNCHANGED <<leaveRequests, nextId>>
      BY <1>4 DEF Restart, Rollback, vars
    <2>2. \A v \in Threads : txn'[v] = txn[v] \/ txn'[v] = Idle
      BY <1>4, <1>0 DEF Restart, Rollback, vars, TypeOK
    <2> QED
      BY <2>1, <2>2 DEF Idle, Inserting, Flushed
  <1>5. ASSUME NEW t \in Threads, Commit(t)
        PROVE  /\ Gone(r) => Gone(r)'
               /\ Exists(r) /\ Exists(r)' =>
                      leaveRequests[r].requestor = leaveRequests'[r].requestor
    <2>1. /\ Flushed(t) /\ CopySound(t) /\ txn[t].id \in Ids
          /\ leaveRequests' = [leaveRequests EXCEPT ![txn[t].id] = Written(t)]
          /\ nextId' = nextId
          /\ \A v \in Threads : txn'[v] = txn[v] \/ txn'[v] = Idle
      BY <1>5, <1>0 DEF Commit, TypeOK, Flushed, LocksHeld, CopiesSound, Active
    <2>a. \A v \in Threads : Inserting(v)' => Inserting(v) /\ txn'[v] = txn[v]
      BY <2>1 DEF Idle, Inserting, Flushed
    <2>2. CASE txn[t].id # r
      BY <2>1, <2>a, <2>2, <1>0 DEF Gone, Exists, TypeOK, Inserting, Flushed
    <2>3. CASE txn[t].id = r
      <3>1. ~ Gone(r)
        BY <2>1, <2>3, <1>0 DEF Gone, LocksHeld, Flushed
      <3>2. Exists(r) => txn[t].op # "add"
        BY <2>1, <2>3, <1>0 DEF LocksHeld
      <3>3. Exists(r)' => leaveRequests'[r] = txn[t].row
        BY <2>1, <2>3, <1>0 DEF Written, Exists, TypeOK
      <3> QED
        BY <3>1, <3>2, <3>3, <2>1, <2>3 DEF CopySound
    <2> QED
      BY <2>2, <2>3
  <1>6. UNCHANGED leaveRequests =>
            (Exists(r) /\ Exists(r)' =>
                  leaveRequests[r].requestor = leaveRequests'[r].requestor)
    OBVIOUS
  <1>7. nextId \in Nat
    BY <1>0, LeaveAssumption DEF TypeOK
  <1> QED
    BY <1>1, <1>2, <1>3, <1>4, <1>5, <1>6, <1>7 DEF Next, Finish

\* No late write brings a deleted request back, and none changes its owner.
THEOREM IdentityKept == Spec => IdentityStable
  <1>1. IInv /\ [Next]_vars =>
          [\A r \in Ids :
              /\ Gone(r) => Gone(r)'
              /\ Exists(r) /\ Exists(r)' =>
                   leaveRequests[r].requestor = leaveRequests'[r].requestor]_vars
    BY IdentityStep
  <1> QED
    BY <1>1, Inductive, PTL DEF Spec, IdentityStable

-----------------------------------------------------------------------------
(* What a commit leaves behind.                                            *)

\* The table is written by a commit and by nothing else.
LEMMA OnlyCommitsWrite ==
    ASSUME TypeOK, [Next]_vars
    PROVE  UNCHANGED leaveRequests \/ \E t \in Threads : Commit(t)
  <1>1. ASSUME NEW t \in Threads, Handler(t) PROVE UNCHANGED leaveRequests
    BY <1>1, HandlerStep
  <1> QED
    BY <1>1 DEF Next, Finish, Restart, FlushInsert, FlushRow, FlushFails, FlushAgain,
       Rollback, vars

\* A commit stores what the handler made of the row it read.
LEMMA CommitStores ==
    ASSUME IInv, NEW t \in Threads, Commit(t)
    PROVE  /\ txn[t].phase = "flushed" /\ txn[t].id \in Ids
           /\ txn[t].op \in Op \ {"none"} /\ CopySound(t)
           /\ Exists(txn[t].id) <=> txn[t].op # "add"
           /\ leaveRequests' = [leaveRequests EXCEPT ![txn[t].id] = Written(t)]
           /\ txn[t].op # "delete" => Written(t) = txn[t].row
           /\ answer' = [answer EXCEPT ![t] = IF txn[t].ok THEN "SUCCESS" ELSE "FAILURE"]
  BY DEF Commit, IInv, TypeOK, Txn, LocksHeld, CopiesSound, CopySound, Active, Flushed,
     Written

\* All parts parsed: nothing of the old details is left.
LEMMA ParsedAll ==
    ASSUME NEW old, NEW d \in Details
    PROVE  Parsed(old, d, AllParts) = d
  BY DEF Parsed, Details, AllParts

\* An edit that goes on to answer SUCCESS has counted the days of its dates.
LEMMA AcceptedEdit ==
    ASSUME NEW base \in LeaveRequest, NEW d \in Details, NEW counted \in BOOLEAN,
           Edited(base, d, AllParts, counted).days # 0
    PROVE  /\ Edited(base, d, AllParts, counted)
                   = [base EXCEPT !.details = d, !.days = DaysOf[d]]
           /\ DaysOf[d] # 0
  <1>1. Parsed(base.details, d, AllParts) = d /\ ~ (AllParts < AllParts)
    BY ParsedAll DEF AllParts
  <1>2. Edited(base, d, AllParts, counted)
            = [base EXCEPT !.details = d, !.days = IF counted THEN DaysOf[d] ELSE 0]
    BY <1>1 DEF Edited
  <1>3. Edited(base, d, AllParts, counted).days = IF counted THEN DaysOf[d] ELSE 0
    BY <1>2 DEF LeaveRequest
  <1> QED
    BY <1>2, <1>3

LEMMA FitsNew ==
    ASSUME NEW u \in Users, NEW d \in Details, DaysOf[d] # 0
    PROVE  Fits(NewRequest(u, d))
  BY DEF Fits, NewRequest

LEMMA FitsRevised ==
    ASSUME NEW base \in LeaveRequest, NEW d \in Details, DaysOf[d] # 0
    PROVE  Fits([base EXCEPT !.details = d, !.days = DaysOf[d]])
  BY DEF Fits, LeaveRequest

\* Rows whose days do not fit their dates come from refused edits alone.
THEOREM SpoiledOnlyByRefusals == Spec => SpoiledByRefusal
  <1> DEFINE Allowed(r) ==
        leaveRequests[r] # leaveRequests'[r] /\ Exists(r)' /\ ~ Fits(leaveRequests'[r])
          => \E t \in Threads :
                /\ txn[t].phase = "flushed" /\ txn[t].id = r
                /\ \/ txn[t].op = "edit" /\ answer'[t] = "FAILURE"
                   \/ txn[t].op = "status" /\ ~ Fits(txn[t].base)
  <1>1. ASSUME IInv, [Next]_vars, NEW r \in Ids PROVE Allowed(r)
    <2> SUFFICES ASSUME leaveRequests[r] # leaveRequests'[r],
                        Exists(r)', ~ Fits(leaveRequests'[r])
                 PROVE  \E t \in Threads :
                          /\ txn[t].phase = "flushed" /\ txn[t].id = r
                          /\ \/ txn[t].op = "edit" /\ answer'[t] = "FAILURE"
                             \/ txn[t].op = "status" /\ ~ Fits(txn[t].base)
      OBVIOUS
    <2>1. TypeOK
      BY <1>1 DEF IInv
    <2>2. PICK t \in Threads : Commit(t)
      BY <1>1, <2>1, OnlyCommitsWrite
    <2>3. /\ txn[t].phase = "flushed" /\ txn[t].id \in Ids
          /\ txn[t].op \in Op \ {"none"} /\ CopySound(t)
          /\ leaveRequests' = [leaveRequests EXCEPT ![txn[t].id] = Written(t)]
          /\ txn[t].op # "delete" => Written(t) = txn[t].row
          /\ answer' = [answer EXCEPT ![t] = IF txn[t].ok THEN "SUCCESS" ELSE "FAILURE"]
      BY <1>1, <2>2, CommitStores
    <2>4. txn[t].id = r /\ leaveRequests'[r] = Written(t)
      BY <2>1, <2>3 DEF TypeOK
    <2>5. txn[t].op # "delete"
      BY <2>4 DEF Written, Exists
    <2>6. ~ Fits(txn[t].row) /\ Made(txn[t].op, txn[t].base, txn[t].row, txn[t].ok)
      BY <2>3, <2>4, <2>5 DEF CopySound
    <2>7. txn[t].op # "add"
      <3> SUFFICES ASSUME txn[t].op = "add" PROVE FALSE
        OBVIOUS
      <3>1. PICK u \in Users, d \in Details :
               DaysOf[d] # 0 /\ txn[t].row = NewRequest(u, d)
        BY <2>6 DEF Made
      <3> QED
        BY <2>6, <3>1, FitsNew
    <2>8. CASE txn[t].op = "edit"
      <3>1. PICK d \in Details, n \in 1 .. AllParts, counted \in BOOLEAN :
               /\ txn[t].row = Edited(txn[t].base, d, n, counted)
               /\ txn[t].ok = (n = AllParts /\ txn[t].row.days # 0)
        BY <2>6, <2>8 DEF Made
      <3>2. txn[t].base \in LeaveRequest
        BY <2>3, <2>7 DEF CopySound
      <3>3. txn[t].ok => FALSE
        <4> SUFFICES ASSUME txn[t].ok PROVE FALSE
          OBVIOUS
        <4>a. PICK base \in LeaveRequest : base = txn[t].base
          BY <3>2
        <4>1. /\ txn[t].row = Edited(base, d, AllParts, counted)
              /\ Edited(base, d, AllParts, counted).days # 0
          BY <3>1, <4>a
        <4>b. /\ Edited(base, d, AllParts, counted)
                     = [base EXCEPT !.details = d, !.days = DaysOf[d]]
              /\ DaysOf[d] # 0
          BY <4>1, AcceptedEdit
        <4>2. /\ txn[t].row = [txn[t].base EXCEPT !.details = d, !.days = DaysOf[d]]
              /\ DaysOf[d] # 0
          BY <4>1, <4>a, <4>b
        <4>3. Fits([txn[t].base EXCEPT !.details = d, !.days = DaysOf[d]])
          BY <3>2, <4>2, FitsRevised
        <4> QED
          BY <2>6, <4>2, <4>3, Zenon
      <3>4. answer'[t] = "FAILURE"
        BY <2>1, <2>3, <3>3 DEF TypeOK
      <3> QED
        BY <2>3, <2>4, <2>8, <3>4
    <2>9. CASE txn[t].op = "status"
      <3>1. PICK u, st, c :
               txn[t].row = [txn[t].base EXCEPT !.status = st, !.changedBy = u,
                                                !.comments = c]
        BY <2>6, <2>9 DEF Made
      <3>2. txn[t].row.details = txn[t].base.details /\ txn[t].row.days = txn[t].base.days
        BY <2>3, <2>7, <3>1 DEF CopySound, LeaveRequest
      <3>3. ~ Fits(txn[t].base)
        BY <2>6, <3>2 DEF Fits
      <3> QED
        BY <2>3, <2>4, <2>9, <3>3
    <2> QED
      BY <2>3, <2>5, <2>7, <2>8, <2>9 DEF Op
  <1>2. IInv /\ [Next]_vars =>
          [\A r \in Ids :
              /\ leaveRequests[r] # leaveRequests'[r]
              /\ Exists(r)' /\ ~ Fits(leaveRequests'[r])
              => \E t \in Threads :
                    /\ txn[t].phase = "flushed" /\ txn[t].id = r
                    /\ \/ txn[t].op = "edit" /\ answer'[t] = "FAILURE"
                       \/ txn[t].op = "status" /\ ~ Fits(txn[t].base)]_vars
    BY <1>1
  <1> QED
    BY <1>2, Inductive, PTL DEF Spec, SpoiledByRefusal

=============================================================================
