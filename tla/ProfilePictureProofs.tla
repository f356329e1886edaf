------------------------- MODULE ProfilePictureProofs -------------------------
(***************************************************************************)
(* Theorems about ProfilePicture, for any number of threads, any keys and  *)
(* any number of faults and overlaps.                                      *)
(***************************************************************************)
EXTENDS ProfilePicture, FiniteSetTheorems, TLAPS

\* Uploads of a first picture whose row is not committed yet.
Firsts == {t \in Open : txn[t].op = "upload" /\ txn[t].stage \in {"dirty", "late", "written"}}

\* Only keys that createKey came up with go round.
KeysKnown ==
    /\ key \in used \cup {NoKey}
    /\ \A t \in Open : txn[t].copy \in used \cup {NoKey}

\* Nobody else knows the key of such an upload: not the row, no other copy.
FirstsPrivate ==
    \A t \in Firsts :
        /\ txn[t].file = txn[t].copy
        /\ txn[t].copy \in stored
        /\ txn[t].copy # key
        /\ \A u \in Open : u # t => txn[u].copy # txn[t].copy

\* One request at most has the row locked, and the session has its copy while no
\* flush of an own change has failed.
RowLocked ==
    /\ \A t \in InStage("written") :
          /\ \A u \in InStage("written") : u = t
          /\ txn[t].own /\ txn[t].op # "edit" /\ ~ flushError => session = txn[t].copy
    /\ \A t \in InStage("late") : txn[t].own => flushError

IInv == TypeOK /\ KeysKnown /\ FirstsPrivate /\ RowLocked

-----------------------------------------------------------------------------
(* What changes with the request of one thread.                            *)

LEMMA OneRequest ==
    ASSUME TypeOK, NEW t \in Threads, NEW r \in Request \cup {NoRequest},
           txn' = [txn EXCEPT ![t] = r]
    PROVE  /\ txn' \in [Threads -> Request \cup {NoRequest}]
           /\ txn'[t] = r
           /\ \A u \in Threads : u # t => txn'[u] = txn[u]
           /\ \A u \in Threads : u # t => (u \in Open' <=> u \in Open)
           /\ t \in Open' <=> r # NoRequest
  <1>1. /\ txn' \in [Threads -> Request \cup {NoRequest}]
        /\ txn'[t] = r
        /\ \A u \in Threads : u # t => txn'[u] = txn[u]
    BY DEF TypeOK
  <1> QED
    BY <1>1 DEF Open

LEMMA OpenIsRequest ==
    ASSUME TypeOK, NEW t \in Open
    PROVE  t \in Threads /\ txn[t] \in Request
  BY DEF TypeOK, Open

LEMMA InitOK == Init => IInv
  <1> SUFFICES ASSUME Init
               PROVE  IInv
    OBVIOUS
  <1>0. flushError \in BOOLEAN
    BY Zenon DEF Init
  <1>1. TypeOK
    <2>1. key \in Optional /\ session \in Optional
      BY DEF Init, Optional
    <2>2. used \subseteq Keys /\ stored \subseteq used
      BY DEF Init
    <2>3. txn \in [Threads -> Request \cup {NoRequest}]
      BY DEF Init
    <2>4. damage \in 0 .. MaxDamage
      BY PictureAssumption DEF Init
    <2> QED
      BY <1>0, <2>1, <2>2, <2>3, <2>4 DEF TypeOK
  <1>2. Open = {}
    BY DEF Init, Open
  <1>3. KeysKnown /\ FirstsPrivate /\ RowLocked
    BY <1>2 DEF Init, KeysKnown, FirstsPrivate, Firsts, RowLocked, InStage
  <1> QED
    BY <1>1, <1>3 DEF IInv

\* The end of a request, with whatever it leaves behind.
LEMMA FinishKeeps ==
    ASSUME IInv, NEW t \in Open, Finish(t),
           used \subseteq used', used' \subseteq Keys, stored' \subseteq used',
           \A u \in Firsts : u # t => txn[u].copy \in stored',
           key' = key \/ key' = txn[t].copy,
           session' = session, flushError' = flushError,
           damage' \in 0 .. MaxDamage
    PROVE  IInv'
  <1>1. /\ t \in Threads /\ txn[t] \in Request
        /\ txn[t].copy \in used \cup {NoKey}
    BY OpenIsRequest DEF IInv, KeysKnown
  <1>2. /\ txn' \in [Threads -> Request \cup {NoRequest}]
        /\ \A u \in Threads : u # t => txn'[u] = txn[u]
        /\ \A u \in Threads : u # t => (u \in Open' <=> u \in Open)
        /\ t \notin Open'
    BY <1>1, OneRequest DEF Finish, IInv
  <1>3. Open' \subseteq Open \ {t} /\ \A u \in Open' : u # t /\ txn'[u] = txn[u]
    BY <1>2 DEF Open
  <1>4. key' \in used' \cup {NoKey}
    BY <1>1 DEF IInv, KeysKnown
  <1>5. TypeOK'
    BY <1>2, <1>4, PictureAssumption DEF IInv, TypeOK, Optional
  <1>6. KeysKnown'
    BY <1>3, <1>4 DEF IInv, KeysKnown
  <1>7. FirstsPrivate'
    <2> SUFFICES ASSUME NEW u \in Firsts'
                 PROVE  /\ txn[u].file = txn[u].copy
                        /\ txn[u].copy \in stored'
                        /\ txn[u].copy # key'
                        /\ \A v \in Open' : v # u => txn[v].copy # txn[u].copy
      BY <1>3 DEF FirstsPrivate, Firsts
    <2>1. u \in Firsts /\ u \in Open' /\ u # t
      BY <1>3 DEF Firsts
    <2>2. /\ txn[u].file = txn[u].copy /\ txn[u].copy # key
          /\ \A v \in Open : v # u => txn[v].copy # txn[u].copy
      BY <2>1 DEF IInv, FirstsPrivate
    <2> QED
      BY <1>3, <2>1, <2>2
  <1>8. RowLocked'
    BY <1>3 DEF IInv, RowLocked, InStage
  <1> QED
    BY <1>5, <1>6, <1>7, <1>8 DEF IInv

-----------------------------------------------------------------------------
(* The actions.                                                            *)

LEMMA DamageBounded ==
    ASSUME TypeOK, NEW n \in Nat, Damaged(n)
    PROVE  damage' \in 0 .. MaxDamage
  BY PictureAssumption DEF TypeOK, Damaged

LEMMA BeginKeeps ==
    ASSUME IInv, NEW t \in Threads, NEW op \in Ops, NEW own \in BOOLEAN,
           Begin(t, op, own)
    PROVE  IInv'
  <1> DEFINE r == [op |-> op, own |-> own, copy |-> key, file |-> NoKey,
                   stage |-> IF op = "edit" THEN "dirty" ELSE "begun"]
  <1>1. r \in Request
    BY DEF IInv, TypeOK, Request, Stages, Optional
  <1>2. /\ t \notin Open /\ txn' = [txn EXCEPT ![t] = r]
        /\ UNCHANGED <<key, stored, used, session, flushError>>
    BY DEF Begin
  <1>3. r # NoRequest /\ r.copy = key /\ r.stage \notin {"late", "written"}
        /\ ~ (r.op = "upload" /\ r.stage = "dirty")
    BY DEF NoRequest, Ops
  <1> HIDE DEF r
  <1>4. /\ txn' \in [Threads -> Request \cup {NoRequest}]
        /\ txn'[t] = r
        /\ \A u \in Threads : u # t => txn'[u] = txn[u]
        /\ \A u \in Threads : u # t => (u \in Open' <=> u \in Open)
    BY <1>1, <1>2, OneRequest DEF IInv
  <1>5. damage' \in 0 .. MaxDamage
    BY DamageBounded DEF Begin, IInv
  <1>6. TypeOK'
    BY <1>2, <1>4, <1>5 DEF IInv, TypeOK
  <1>7. KeysKnown'
    BY <1>2, <1>3, <1>4 DEF IInv, KeysKnown, Open
  <1>8. Firsts' \subseteq Firsts /\ t \notin Firsts' /\ Open' \subseteq Threads
    BY <1>3, <1>4 DEF Firsts, Open
  <1>9. FirstsPrivate'
    BY <1>2, <1>3, <1>4, <1>8 DEF IInv, FirstsPrivate, Firsts, Open
  <1>10. /\ InStage("written")' = InStage("written") /\ t \notin InStage("written")
         /\ InStage("late")' = InStage("late") /\ t \notin InStage("late")
    BY <1>2, <1>3, <1>4 DEF InStage, Open
  <1>11. RowLocked'
    BY <1>2, <1>4, <1>10 DEF IInv, RowLocked, InStage, Open
  <1> QED
    BY <1>6, <1>7, <1>9, <1>11 DEF IInv

\* A file put under a fresh key is known to nobody; a replaced picture is no
\* first one.
LEMMA PutKeeps ==
    ASSUME IInv, NEW t \in Open, NEW k \in FileKeys(t), Put(t, k)
    PROVE  IInv'
  <1>1. /\ t \in Threads /\ txn[t] \in Request
        /\ txn[t].stage = "begun" /\ txn[t].op = "upload"
        /\ txn[t].copy \in used \cup {NoKey}
    BY OpenIsRequest DEF IInv, KeysKnown, Put, InStage
  <1>2. k \in Keys /\ (txn[t].copy = NoKey => k \notin used)
                   /\ (txn[t].copy # NoKey => k = txn[t].copy)
    BY <1>1 DEF FileKeys, Fresh, IInv, TypeOK
  <1> DEFINE s == IF txn[t].copy = NoKey THEN "dirty" ELSE "clean"
             r == [[[txn[t] EXCEPT !.file = k] EXCEPT !.copy = k] EXCEPT !.stage = s]
  <1>3. txn' = [txn EXCEPT ![t] = r]
    BY <1>1 DEF Put, IInv, TypeOK
  <1>4. r \in Request
    BY <1>1, <1>2 DEF Request, Stages, Optional
  <1>5. r # NoRequest /\ r.copy = k /\ r.file = k
        /\ r.stage \notin {"late", "written"}
        /\ (r.stage = "dirty" => txn[t].copy = NoKey)
    BY <1>1 DEF NoRequest, Request
  <1> HIDE DEF r
  <1>6. /\ txn' \in [Threads -> Request \cup {NoRequest}]
        /\ txn'[t] = r
        /\ \A u \in Threads : u # t => txn'[u] = txn[u]
        /\ \A u \in Threads : u # t => (u \in Open' <=> u \in Open)
        /\ t \in Open'
    BY <1>1, <1>3, <1>4, <1>5, OneRequest DEF IInv
  <1>7. Open' = Open
    BY <1>1, <1>6 DEF Open
  <1>8. /\ key' = key /\ session' = session /\ flushError' = flushError
        /\ damage' = damage /\ stored' = stored \cup {k} /\ used' = used \cup {k}
    BY DEF Put
  <1>9. TypeOK'
    BY <1>2, <1>6, <1>8 DEF IInv, TypeOK
  <1>10. KeysKnown'
    BY <1>5, <1>6, <1>7, <1>8, OpenIsRequest DEF IInv, KeysKnown
  <1>11. FirstsPrivate'
    <2> SUFFICES ASSUME NEW u \in Firsts'
                 PROVE  /\ txn'[u].file = txn'[u].copy
                        /\ txn'[u].copy \in stored'
                        /\ txn'[u].copy # key
                        /\ \A v \in Open : v # u => txn'[v].copy # txn'[u].copy
      BY <1>7, <1>8 DEF FirstsPrivate
    <2>1. u \in Open /\ u \in Threads /\ \A v \in Open : v \in Threads
      BY <1>7, OpenIsRequest DEF Firsts, IInv
    <2>2. CASE u = t
      <3>1. k \notin used /\ k # NoKey
        BY <1>2, <1>5, <1>6, <2>2, PictureAssumption DEF Firsts
      <3>2. k # key /\ \A v \in Open : txn[v].copy # k
        BY <3>1 DEF IInv, KeysKnown
      <3> QED
        BY <1>5, <1>6, <1>8, <2>1, <2>2, <3>2
    <2>3. CASE u # t
      <3>1. u \in Firsts /\ txn'[u] = txn[u]
        BY <1>6, <2>1, <2>3 DEF Firsts
      <3>2. /\ txn[u].file = txn[u].copy /\ txn[u].copy \in stored /\ txn[u].copy # key
            /\ \A v \in Open : v # u => txn[v].copy # txn[u].copy
        BY <3>1 DEF IInv, FirstsPrivate
      <3>3. txn[u].copy # k
        BY <1>2, <2>3, <3>2 DEF IInv, TypeOK
      <3> QED
        BY <1>5, <1>6, <1>8, <2>1, <3>1, <3>2, <3>3
    <2> QED
      BY <2>2, <2>3
  <1>12. /\ InStage("written")' = InStage("written") /\ t \notin InStage("written")
         /\ InStage("late")' = InStage("late") /\ t \notin InStage("late")
    BY <1>1, <1>5, <1>6, <1>7, OpenIsRequest DEF InStage, IInv
  <1>13. RowLocked'
    BY <1>6, <1>8, <1>12, OpenIsRequest DEF IInv, RowLocked, InStage
  <1> QED
    BY <1>9, <1>10, <1>11, <1>13 DEF IInv

\* The object deleted is not that of a first picture under way.
LEMMA RemoveKeeps ==
    ASSUME IInv, NEW t \in Open, Remove(t)
    PROVE  IInv'
  <1>1. /\ t \in Threads /\ txn[t] \in Request
        /\ txn[t].stage = "begun" /\ txn[t].op = "delete"
    BY OpenIsRequest DEF IInv, Remove, InStage
  <1> DEFINE r == [[txn[t] EXCEPT !.copy = NoKey] EXCEPT !.stage = "dirty"]
  <1>3. txn' = [txn EXCEPT ![t] = r]
    BY <1>1 DEF Remove, IInv, TypeOK
  <1>4. r \in Request
    BY <1>1 DEF Request, Stages, Optional
  <1>5. r # NoRequest /\ r.copy = NoKey /\ r.stage \notin {"late", "written"} /\ r.op # "upload"
    BY <1>1 DEF NoRequest, Request
  <1> HIDE DEF r
  <1>6. /\ txn' \in [Threads -> Request \cup {NoRequest}]
        /\ txn'[t] = r
        /\ \A u \in Threads : u # t => txn'[u] = txn[u]
        /\ \A u \in Threads : u # t => (u \in Open' <=> u \in Open)
        /\ t \in Open'
    BY <1>1, <1>3, <1>4, <1>5, OneRequest DEF IInv
  <1>7. Open' = Open /\ Open \subseteq Threads
    BY <1>1, <1>6 DEF Open
  <1>8. /\ key' = key /\ session' = session /\ flushError' = flushError
        /\ damage' = damage /\ used' = used
        /\ stored' = stored \ {txn[t].copy}
    BY DEF Remove
  <1>9. TypeOK'
    BY <1>6, <1>8 DEF IInv, TypeOK
  <1>10. KeysKnown'
    BY <1>5, <1>6, <1>7, <1>8 DEF IInv, KeysKnown
  <1>11. FirstsPrivate'
    <2> SUFFICES ASSUME NEW u \in Firsts'
                 PROVE  /\ txn'[u].file = txn'[u].copy
                        /\ txn'[u].copy \in stored'
                        /\ txn'[u].copy # key
                        /\ \A v \in Open : v # u => txn'[v].copy # txn'[u].copy
      BY <1>7, <1>8 DEF FirstsPrivate
    <2>1. u \in Open /\ u # t /\ u \in Firsts /\ txn'[u] = txn[u]
      BY <1>5, <1>6, <1>7 DEF Firsts
    <2>2. /\ txn[u].file = txn[u].copy /\ txn[u].copy \in stored /\ txn[u].copy # key
          /\ \A v \in Open : v # u => txn[v].copy # txn[u].copy
      BY <2>1 DEF IInv, FirstsPrivate
    <2>3. txn[u].copy # NoKey
      BY <2>2, PictureAssumption DEF IInv, TypeOK
    <2> QED
      BY <1>5, <1>6, <1>7, <1>8, <2>1, <2>2, <2>3
  <1>12. /\ InStage("written")' = InStage("written") /\ t \notin InStage("written")
         /\ InStage("late")' = InStage("late") /\ t \notin InStage("late")
    BY <1>1, <1>5, <1>6, <1>7 DEF InStage
  <1>13. RowLocked'
    BY <1>6, <1>7, <1>8, <1>12 DEF IInv, RowLocked, InStage
  <1> QED
    BY <1>9, <1>10, <1>11, <1>13 DEF IInv

\* The row is free when it is written, and the session gets what is written; a
\* flush that fails puts into the session what is not written.
LEMMA SaveKeeps ==
    ASSUME IInv, NEW t \in Open, Save(t) \/ FlushFails(t)
    PROVE  IInv'
  <1>1. t \in Threads /\ txn[t] \in Request /\ txn[t].stage \in {"dirty", "late"}
    BY OpenIsRequest DEF IInv, Save, FlushFails, InStage
  <1>2. PICK s \in {"late", "written"} :
          /\ txn' = [txn EXCEPT ![t].stage = s]
          /\ s = "written" => Save(t)
          /\ s = "late" => FlushFails(t)
    BY Zenon DEF Save, FlushFails
  <1> DEFINE r == [txn[t] EXCEPT !.stage = s]
  <1>3. txn' = [txn EXCEPT ![t] = r]
    BY <1>1, <1>2 DEF IInv, TypeOK
  <1>4. r \in Request
    BY <1>1 DEF Request, Stages
  <1>5. /\ r # NoRequest /\ r.copy = txn[t].copy /\ r.file = txn[t].file
        /\ r.op = txn[t].op /\ r.own = txn[t].own /\ r.stage = s
    BY <1>1 DEF NoRequest, Request
  <1> HIDE DEF r
  <1>6. /\ txn' \in [Threads -> Request \cup {NoRequest}]
        /\ txn'[t] = r
        /\ \A u \in Threads : u # t => txn'[u] = txn[u]
        /\ \A u \in Threads : u # t => (u \in Open' <=> u \in Open)
        /\ t \in Open'
    BY <1>1, <1>3, <1>4, <1>5, OneRequest DEF IInv
  <1>7. Open' = Open /\ Open \subseteq Threads
    BY <1>1, <1>6 DEF Open
  <1>8. /\ key' = key /\ stored' = stored /\ used' = used /\ damage' = damage
        /\ session' \in {session, txn[t].copy}
        /\ flushError' \in BOOLEAN
    BY DEF Save, FlushFails, SessionAfter, IInv, TypeOK
  <1>9. TypeOK'
    <2>1. session' \in Optional
      BY <1>1, <1>8 DEF IInv, TypeOK, Request
    <2> QED
      BY <1>6, <1>8, <2>1 DEF IInv, TypeOK
  <1>10. \A u \in Open : /\ txn'[u].copy = txn[u].copy /\ txn'[u].file = txn[u].file
                         /\ txn'[u].op = txn[u].op /\ txn'[u].own = txn[u].own
    BY <1>5, <1>6, <1>7
  <1>11. KeysKnown'
    BY <1>7, <1>8, <1>10 DEF IInv, KeysKnown
  <1>12. Firsts' = Firsts /\ Firsts \subseteq Open
    BY <1>1, <1>5, <1>6, <1>7 DEF Firsts
  <1>13. FirstsPrivate'
    BY <1>7, <1>8, <1>10, <1>12 DEF IInv, FirstsPrivate
  <1>14. CASE s = "written"
    <2>1. Save(t) /\ InStage("written") = {} /\ flushError' = flushError
      BY <1>2, <1>14 DEF Save
    <2>2. InStage("written")' = {t}
      BY <1>5, <1>6, <1>7, <1>14, <2>1 DEF InStage
    <2>3. \A u \in InStage("late")' : u \in InStage("late") /\ txn'[u].own = txn[u].own
      BY <1>5, <1>6, <1>7, <1>14 DEF InStage
    <2>4. txn[t].own /\ txn[t].op # "edit" /\ ~ flushError => session' = txn[t].copy
      <3>1. CASE t \in InStage("dirty")
        BY <2>1, <3>1 DEF Save, SessionAfter
      <3>2. CASE t \notin InStage("dirty")
        BY <1>1, <3>2 DEF InStage, IInv, RowLocked
      <3> QED
        BY <3>1, <3>2
    <2>5. RowLocked'
      BY <1>7, <1>10, <2>1, <2>2, <2>3, <2>4 DEF IInv, RowLocked
    <2> QED
      BY <1>9, <1>11, <1>13, <2>5 DEF IInv
  <1>15. CASE s = "late"
    <2>1. FlushFails(t) /\ (flushError \/ txn[t].own => flushError')
          /\ (~ txn[t].own => session' = session)
      BY <1>2, <1>15 DEF FlushFails, SessionAfter
    <2>2. \A u \in InStage("written")' : /\ u \in InStage("written") /\ u # t
                                         /\ txn'[u].own = txn[u].own
                                         /\ txn'[u].op = txn[u].op
                                         /\ txn'[u].copy = txn[u].copy
      BY <1>5, <1>6, <1>7, <1>10, <1>15 DEF InStage
    <2>3. \A u \in InStage("late")' : /\ u = t \/ u \in InStage("late")
                                      /\ txn'[u].own = txn[u].own
      BY <1>5, <1>6, <1>7, <1>15 DEF InStage
    <2>4. RowLocked'
      BY <2>1, <2>2, <2>3 DEF IInv, RowLocked
    <2> QED
      BY <1>9, <1>11, <1>13, <2>4 DEF IInv
  <1> QED
    BY <1>2, <1>14, <1>15

LEMMA CrashKeeps == IInv /\ Crash => IInv'
  <1> SUFFICES ASSUME IInv, Crash
               PROVE  IInv'
    OBVIOUS
  <1>1. Cardinality(Open) \in Nat
    BY PictureAssumption, FS_Subset, FS_CardinalityType DEF Open
  <1>2. damage' \in 0 .. MaxDamage
    BY <1>1, DamageBounded DEF Crash, IInv
  <1>3. Open' = {}
    BY DEF Crash, Open
  <1>4. TypeOK'
    <2>1. flushError' \in BOOLEAN
      BY Zenon DEF Crash
    <2>2. txn' \in [Threads -> Request \cup {NoRequest}]
      BY DEF Crash
    <2>3. /\ key' \in Optional /\ session' \in Optional
          /\ used' \subseteq Keys /\ stored' \subseteq used'
      BY DEF Crash, IInv, TypeOK
    <2> QED
      BY <1>2, <2>1, <2>2, <2>3 DEF TypeOK
  <1>5. KeysKnown' /\ FirstsPrivate' /\ RowLocked'
    BY <1>3 DEF Crash, IInv, KeysKnown, FirstsPrivate, Firsts, RowLocked, InStage
  <1> QED
    BY <1>4, <1>5 DEF IInv

LEMMA LoginKeeps == IInv /\ Login => IInv'
  <1> SUFFICES ASSUME IInv, Login
               PROVE  IInv'
    OBVIOUS
  <1>1. flushError' \in BOOLEAN
    BY Zenon DEF Login
  <1>2. TypeOK'
    BY <1>1 DEF Login, IInv, TypeOK
  <1>3. KeysKnown' /\ FirstsPrivate'
    BY DEF Login, IInv, KeysKnown, FirstsPrivate, Firsts, Open
  <1>4. \A u \in Open' : u \in Open /\ txn'[u] = txn[u] /\ ~ txn[u].own
    BY DEF Login, Open
  <1>5. RowLocked'
    BY <1>4 DEF IInv, RowLocked, InStage
  <1> QED
    BY <1>2, <1>3, <1>5 DEF IInv

\* The steps with which a request ends.
LEMMA EndKeeps ==
    ASSUME IInv, NEW t \in Open,
           \/ \E k \in FileKeys(t) : PutFails(t, k)
           \/ RemoveFails(t) \/ SaveFails(t) \/ Commit(t) \/ CommitFails(t) \/ Return(t)
    PROVE  IInv'
  <1>1. /\ t \in Threads /\ txn[t] \in Request
        /\ txn[t].copy \in used \cup {NoKey}
        /\ stored \subseteq used /\ used \subseteq Keys /\ damage \in 0 .. MaxDamage
    BY OpenIsRequest DEF IInv, KeysKnown, TypeOK
  <1>2. \A u \in Firsts : u # t => txn[u].copy \in stored /\ txn[u].copy # txn[t].copy
    BY DEF IInv, FirstsPrivate
  <1>3. Damaged(1) => damage' \in 0 .. MaxDamage
    BY DamageBounded DEF IInv
  <1>4. ASSUME NEW k \in FileKeys(t), PutFails(t, k)
        PROVE  IInv'
    <2>1. k \in Keys
      BY <1>1 DEF FileKeys, Fresh
    <2>2. used \subseteq used' /\ used' \subseteq Keys /\ stored \subseteq stored'
          /\ stored' \subseteq used'
      BY <1>1, <1>4, <2>1 DEF PutFails
    <2> QED
      BY <1>2, <1>3, <1>4, <2>2, FinishKeeps DEF PutFails
  <1>5. CASE RemoveFails(t)
    <2>1. used' = used /\ stored \ {txn[t].copy} \subseteq stored' /\ stored' \subseteq stored
      BY <1>5 DEF RemoveFails
    <2> QED
      BY <1>1, <1>2, <1>3, <1>5, <2>1, FinishKeeps DEF RemoveFails
  <1>6. CASE SaveFails(t)
    <2>1. used' = used /\ stored' \subseteq stored
      BY <1>6 DEF SaveFails, Compensated
    <2>2. damage' \in 0 .. MaxDamage
      BY <1>1, <1>3, <1>6 DEF SaveFails
    <2>3. \A u \in Firsts : u # t => txn[u].copy \in stored'
      <3>1. CASE stored' = stored
        BY <1>2, <3>1
      <3>2. CASE txn[t].op = "upload" /\ stored' = Compensated(t)
        <4>1. t \in Firsts
          BY <1>6, <3>2 DEF SaveFails, InStage, Firsts
        <4>2. txn[t].file = txn[t].copy
          BY <4>1 DEF IInv, FirstsPrivate
        <4> QED
          BY <1>2, <3>2, <4>2 DEF Compensated
      <3> QED
        BY <1>6, <3>1, <3>2 DEF SaveFails
    <2> QED
      BY <1>1, <1>6, <2>1, <2>2, <2>3, FinishKeeps DEF SaveFails
  <1>7. CASE Commit(t)
    BY <1>1, <1>2, <1>7, FinishKeeps DEF Commit
  <1>8. CASE CommitFails(t)
    BY <1>1, <1>2, <1>3, <1>8, FinishKeeps DEF CommitFails
  <1>9. CASE Return(t)
    BY <1>1, <1>2, <1>9, FinishKeeps DEF Return
  <1> QED
    BY <1>4, <1>5, <1>6, <1>7, <1>8, <1>9

-----------------------------------------------------------------------------
LEMMA NextKeeps == IInv /\ [Next]_vars => IInv'
  <1> SUFFICES ASSUME IInv, [Next]_vars
               PROVE  IInv'
    OBVIOUS
  <1>1. CASE UNCHANGED vars
    BY <1>1 DEF vars, IInv, TypeOK, KeysKnown, FirstsPrivate, Firsts, RowLocked,
                InStage, Open
  <1>2. ASSUME NEW t \in Threads,
               \E op \in Ops, own \in BOOLEAN : Begin(t, op, own)
        PROVE  IInv'
    BY <1>2, BeginKeeps
  <1>3. ASSUME NEW t \in Open, NEW k \in FileKeys(t), Put(t, k)
        PROVE  IInv'
    BY <1>3, PutKeeps
  <1>4. ASSUME NEW t \in Threads, Remove(t) \/ Save(t) \/ FlushFails(t)
        PROVE  IInv'
    <2>1. t \in Open
      BY <1>4 DEF Remove, Save, FlushFails, InStage
    <2> QED
      BY <1>4, <2>1, RemoveKeeps, SaveKeeps
  <1>5. ASSUME NEW t \in Open, NEW k \in FileKeys(t), PutFails(t, k)
        PROVE  IInv'
    BY <1>5, EndKeeps
  <1>6. ASSUME NEW t \in Threads,
               RemoveFails(t) \/ SaveFails(t) \/ Commit(t) \/ CommitFails(t) \/ Return(t)
        PROVE  IInv'
    <2>1. t \in Open
      BY <1>6 DEF RemoveFails, SaveFails, Commit, CommitFails, Return, InStage
    <2> QED
      BY <1>6, <2>1, EndKeeps
  <1> QED
    BY <1>1, <1>2, <1>3, <1>4, <1>5, <1>6, CrashKeeps, LoginKeeps DEF Next

\* Every reachable state satisfies the inductive invariant.
LEMMA PictureInductive == Spec => []IInv
  BY InitOK, NextKeeps, PTL DEF Spec

\* Types are right, and every object's key was made by createKey.
THEOREM PictureTypes == Spec => []TypeOK
  <1>1. IInv => TypeOK
    BY DEF IInv
  <1> QED
    BY <1>1, PictureInductive, PTL

\* A first picture is in the bucket when its row is committed, whatever
\* uploads, deletions, edits and crashes overlapped with it.
THEOREM FirstPictureShows == Spec => PictureShows
  <1> DEFINE A == \A t \in Threads : Commit(t) /\ txn[t].op = "upload" => key' \in stored'
  <1>1. IInv => A
    <2> SUFFICES ASSUME IInv, NEW t \in Threads, Commit(t), txn[t].op = "upload"
                 PROVE  key' \in stored'
      OBVIOUS
    <2>1. t \in Firsts
      BY DEF Commit, InStage, Firsts
    <2> QED
      BY <2>1 DEF IInv, FirstsPrivate, Commit
  <1>2. IInv /\ [Next]_vars => [A]_vars
    BY <1>1
  <1> HIDE DEF A
  <1>3. Spec => [][A]_vars
    BY <1>2, PictureInductive, PTL DEF Spec
  <1> QED
    BY <1>3 DEF PictureShows, A

\* An own upload or deletion is in the session and in the row at once: while no
\* flush has failed, nobody else can have written the session between the flush
\* and the commit.
THEOREM OwnChangesShow == Spec => OwnChangeShows
  <1> DEFINE A == \A t \in Threads :
                     Commit(t) /\ txn[t].own /\ txn[t].op # "edit" /\ ~ flushError
                        => session' = key'
  <1>1. IInv => A
    BY DEF IInv, RowLocked, Commit
  <1>2. IInv /\ [Next]_vars => [A]_vars
    BY <1>1
  <1> HIDE DEF A
  <1>3. Spec => [][A]_vars
    BY <1>2, PictureInductive, PTL DEF Spec
  <1> QED
    BY <1>3 DEF OwnChangeShows, A
-----------------------------------------------------------------------------
(* What pays for the broken picture.                                       *)

One(b) == IF b THEN 1 ELSE 0

\* The files of open requests, whose objects are no orphans yet.
Files == {txn[t].file : t \in Open}

\* Deletions that removed the object and have not cleared the row.
Deleting == {t \in Open : txn[t].op = "delete" /\ txn[t].stage \in {"dirty", "late", "written"}}

\* The row lacks its object and no deletion is about to clear it.
Dangling == key \notin stored \cup {NoKey} /\ Deleting = {}

Broken == Cardinality(Orphans) + One(Dangling)

\* The object is an orphan as soon as the row no longer names it.
Living == key \in stored \ Files

\* Requests for a first picture, its file put or not.
First(t) ==
    /\ txn[t].op = "upload"
    /\ \/ txn[t].stage \in {"dirty", "late", "written"}
       \/ txn[t].stage = "begun" /\ txn[t].copy = NoKey

\* What a request breaks at most if it goes on alone: an edit brings back the
\* key it read, a first picture takes the place of another one, a deletion
\* clears another key than it removed, and a picture is put or removed under a
\* key the row no longer names.
Harm(t) ==
    IF txn[t].op = "edit" THEN
        IF txn[t].copy = key THEN 0
        ELSE One(key # NoKey /\ ~ Dangling) + One(txn[t].copy \notin Orphans \cup {NoKey})
    ELSE IF First(t) THEN One(key # NoKey)
    ELSE IF t \in Deleting THEN One(Living)
    ELSE One(txn[t].copy # key)

\* The requests but one that are open have been paid for, and whichever goes on
\* first, what it breaks is paid for by the others.
Paid ==
    IF Open = {} THEN Broken <= damage
    ELSE \A t \in Open : Broken + Cardinality(Open) - 1 + Harm(t) <= damage

\* How far the file and the copy of a request have come.
Shaped ==
    \A t \in Open :
        /\ txn[t].op # "upload" \/ txn[t].stage = "begun" => txn[t].file = NoKey
        /\ txn[t].stage = "clean" => txn[t].op = "upload" /\ txn[t].file = txn[t].copy
        /\ t \in Deleting => txn[t].copy = NoKey

PInv == IInv /\ IsFiniteSet(stored) /\ Shaped /\ Paid

LEMMA CardAdd ==
    ASSUME NEW S, IsFiniteSet(S), NEW x
    PROVE  /\ IsFiniteSet(S \cup {x})
           /\ Cardinality(S \cup {x}) = Cardinality(S) + One(x \notin S)
  BY FS_AddElement, FS_CardinalityType DEF One

LEMMA CardRemove ==
    ASSUME NEW S, IsFiniteSet(S), NEW x
    PROVE  /\ IsFiniteSet(S \ {x})
           /\ Cardinality(S \ {x}) = Cardinality(S) - One(x \in S)
  <1>1. CASE x \in S
    BY <1>1, FS_RemoveElement, FS_CardinalityType DEF One
  <1>2. CASE x \notin S
    <2>1. S \ {x} = S
      BY <1>2
    <2>2. IsFiniteSet(S \ {x}) /\ Cardinality(S \ {x}) = Cardinality(S)
      BY <2>1, Zenon
    <2>3. One(x \in S) = 0 /\ Cardinality(S) \in Nat
      BY <1>2, FS_CardinalityType DEF One
    <2> QED
      BY <2>2, <2>3
  <1> QED
    BY <1>1, <1>2

LEMMA CardGrows ==
    ASSUME NEW S, IsFiniteSet(S), NEW x, NEW T, T = S \/ T = S \cup {x}
    PROVE  /\ Cardinality(T) \in Nat /\ Cardinality(T) <= Cardinality(S) + 1
           /\ S \subseteq T
  <1>1. Cardinality(S) \in Nat
    BY FS_CardinalityType
  <1>2. CASE T = S
    BY <1>1, <1>2
  <1>3. CASE T = S \cup {x}
    <2>1. Cardinality(T) = Cardinality(S) + One(x \notin S)
      BY <1>3, CardAdd
    <2> QED
      BY <1>1, <1>3, <2>1 DEF One
  <1> QED
    BY <1>2, <1>3

LEMMA HarmNat ==
    ASSUME NEW t
    PROVE  Harm(t) \in Nat /\ Harm(t)' \in Nat
  BY DEF Harm, One

LEMMA Sizes ==
    ASSUME PInv
    PROVE  /\ IsFiniteSet(Orphans) /\ Cardinality(Orphans) \in Nat
           /\ Broken \in Nat /\ damage \in Nat
           /\ IsFiniteSet(Open) /\ Cardinality(Open) \in Nat
           /\ \A t \in Open : /\ Cardinality(Open \ {t}) = Cardinality(Open) - 1
                              /\ Cardinality(Open) >= 1
           /\ NoKey \notin stored
  <1>1. Orphans \subseteq stored
    BY DEF Orphans
  <1>2. IsFiniteSet(Orphans) /\ Cardinality(Orphans) \in Nat
    BY <1>1, FS_Subset, FS_CardinalityType DEF PInv
  <1>3. IsFiniteSet(Open) /\ Cardinality(Open) \in Nat
    BY PictureAssumption, FS_Subset, FS_CardinalityType DEF Open
  <1>4. ASSUME NEW t \in Open
        PROVE  Cardinality(Open \ {t}) = Cardinality(Open) - 1 /\ Cardinality(Open) >= 1
    <2>1. IsFiniteSet(Open \ {t}) /\ Cardinality(Open \ {t}) = Cardinality(Open) - 1
      BY <1>3, FS_RemoveElement
    <2>2. Cardinality(Open \ {t}) \in Nat
      BY <2>1, FS_CardinalityType
    <2> QED
      BY <1>3, <2>1, <2>2
  <1>5. Broken \in Nat
    BY <1>2 DEF Broken, One
  <1> QED
    BY <1>2, <1>3, <1>4, <1>5, PictureAssumption DEF PInv, IInv, TypeOK

LEMMA FileOf ==
    /\ Orphans = stored \ ({key} \cup Files)
    /\ \A x : x \in Files <=> \E u \in Open : txn[u].file = x
    /\ Orphans' = stored' \ ({key'} \cup Files')
    /\ \A x : x \in Files' <=> \E u \in Open' : txn'[u].file = x
  BY DEF Orphans, Files

\* A step in the middle of a request.
LEMMA GoesOn ==
    ASSUME PInv, Open' = Open, damage' = damage, Broken' \in Nat, Broken' <= Broken,
           \A u \in Open : Broken' + Harm(u)' <= Broken + Harm(u)
    PROVE  Paid'
  <1>1. CASE Open = {}
    BY <1>1, Sizes DEF PInv, Paid
  <1>2. CASE Open # {}
    <2> SUFFICES ASSUME NEW u \in Open
                 PROVE  Broken' + Cardinality(Open) - 1 + Harm(u)' <= damage
      BY <1>2 DEF Paid
    <2>1. Broken + Cardinality(Open) - 1 + Harm(u) <= damage
      BY <1>2 DEF PInv, Paid
    <2> QED
      BY <2>1, Sizes, HarmNat
  <1> QED
    BY <1>1, <1>2

\* The end of a request.
LEMMA Ends ==
    ASSUME PInv, NEW t \in Open, Open' = Open \ {t}, NEW d \in Nat, damage' = damage + d,
           Broken' \in Nat,
           Broken' <= Broken + Harm(t) + d,
           \A u \in Open' : \/ Broken' + Harm(u)' <= Broken + Harm(u) + 1 + d
                            \/ Broken' + Harm(u)' <= Broken + Harm(t) + 1 + d
    PROVE  Paid'
  <1>1. \A u \in Open : Broken + Cardinality(Open) - 1 + Harm(u) <= damage
    BY DEF PInv, Paid
  <1>2. CASE Open' = {}
    <2>1. Cardinality(Open) = 1
      <3>1. Cardinality(Open') = 0
        BY <1>2, FS_EmptySet
      <3> QED
        BY <3>1, Sizes
    <2> QED
      BY <1>1, <1>2, <2>1, Sizes, HarmNat DEF Paid
  <1>3. CASE Open' # {}
    <2> SUFFICES ASSUME NEW u \in Open'
                 PROVE  Broken' + Cardinality(Open') - 1 + Harm(u)' <= damage'
      BY <1>3 DEF Paid
    <2>1. /\ Broken + Cardinality(Open) - 1 + Harm(u) <= damage
          /\ Broken + Cardinality(Open) - 1 + Harm(t) <= damage
      BY <1>1
    <2>2. Cardinality(Open') = Cardinality(Open) - 1
      BY Sizes
    <2>3. /\ Harm(t) \in Nat /\ Harm(u) \in Nat /\ Harm(u)' \in Nat
      BY HarmNat
    <2> QED
      BY <2>1, <2>2, <2>3, Sizes
  <1> QED
    BY <1>2, <1>3

-----------------------------------------------------------------------------
(* Steps in the middle of a request.                                       *)

LEMMA SameRequest ==
    ASSUME NEW u \in Open, u \in Open', txn'[u] = txn[u]
    PROVE  /\ First(u)' <=> First(u)
           /\ u \in Deleting' <=> u \in Deleting
  BY DEF First, Deleting

LEMMA Midway ==
    ASSUME PInv, NEW t \in Open, NEW r \in Request, txn' = [txn EXCEPT ![t] = r]
    PROVE  /\ Open' = Open /\ txn'[t] = r
           /\ \A u \in Open : u # t => txn'[u] = txn[u]
  <1>1. r # NoRequest
    BY DEF NoRequest, Request, Ops
  <1>2. t \in Threads
    BY DEF Open
  <1>3. /\ txn'[t] = r
        /\ \A u \in Threads : u # t => txn'[u] = txn[u]
        /\ \A u \in Threads : u # t => (u \in Open' <=> u \in Open)
        /\ t \in Open'
    BY <1>1, <1>2, OneRequest DEF PInv, IInv
  <1> QED
    BY <1>2, <1>3 DEF Open

\* A step that changes nothing that counts.
LEMMA NothingMoves ==
    ASSUME PInv, key' = key, stored' = stored, damage' = damage, Open' = Open,
           \A u \in Open : /\ txn'[u].op = txn[u].op /\ txn'[u].copy = txn[u].copy
                           /\ txn'[u].file = txn[u].file
                           /\ u \in Deleting' <=> u \in Deleting
                           /\ First(u)' <=> First(u)
    PROVE  Paid'
  <1>1. Files' = Files /\ Orphans' = Orphans
    <2>1. Files' = Files
      BY DEF Files
    <2> QED
      BY <2>1, FileOf
  <1>2. Deleting' = Deleting
    BY DEF Deleting
  <1>3. Broken' = Broken /\ (Dangling' <=> Dangling) /\ (Living' <=> Living)
    BY <1>1, <1>2 DEF Broken, Dangling, Living
  <1>4. \A u \in Open : Harm(u)' = Harm(u)
    BY <1>1, <1>3 DEF Harm, One
  <1> QED
    BY <1>3, <1>4, GoesOn, Sizes, HarmNat

LEMMA SavePays ==
    ASSUME PInv, NEW t \in Open, Save(t) \/ FlushFails(t)
    PROVE  Shaped' /\ Paid'
  <1>1. txn[t] \in Request /\ txn[t].stage \in {"dirty", "late"} /\ t \in Threads
    BY OpenIsRequest DEF PInv, IInv, Save, FlushFails, InStage
  <1>s. PICK s \in {"late", "written"} : txn' = [txn EXCEPT ![t].stage = s]
    BY Zenon DEF Save, FlushFails
  <1>2. PICK r \in Request : /\ txn' = [txn EXCEPT ![t] = r]
                             /\ r.op = txn[t].op /\ r.copy = txn[t].copy
                             /\ r.file = txn[t].file /\ r.stage = s
    <2> DEFINE r == [txn[t] EXCEPT !.stage = s]
    <2>1. txn' = [txn EXCEPT ![t] = r]
      BY <1>1, <1>s DEF PInv, IInv, TypeOK
    <2>2. r \in Request /\ r.op = txn[t].op /\ r.copy = txn[t].copy
          /\ r.file = txn[t].file /\ r.stage = s
      BY <1>1 DEF Request, Stages
    <2> QED
      BY <2>1, <2>2
  <1>3. /\ Open' = Open /\ txn'[t] = r
        /\ \A u \in Open : u # t => txn'[u] = txn[u]
    BY <1>2, Midway
  <1>4. \A u \in Open : /\ txn'[u].op = txn[u].op /\ txn'[u].copy = txn[u].copy
                        /\ txn'[u].file = txn[u].file
                        /\ txn'[u].stage = IF u = t THEN s ELSE txn[u].stage
    BY <1>2, <1>3
  <1>5. \A u \in Open : /\ u \in Deleting' <=> u \in Deleting
                        /\ First(u)' <=> First(u)
    BY <1>1, <1>3, <1>4 DEF Deleting, First
  <1>6. Shaped'
    BY <1>1, <1>3, <1>4, <1>5 DEF PInv, Shaped
  <1>7. key' = key /\ stored' = stored /\ damage' = damage
    BY DEF Save, FlushFails
  <1> QED
    BY <1>3, <1>4, <1>5, <1>6, <1>7, NothingMoves

LEMMA LoginPays == PInv /\ Login => Shaped' /\ Paid'
  <1> SUFFICES ASSUME PInv, Login
               PROVE  Shaped' /\ Paid'
    OBVIOUS
  <1>1. /\ key' = key /\ stored' = stored /\ txn' = txn /\ damage' = damage /\ Open' = Open
    BY DEF Login, Open
  <1> QED
    BY <1>1, NothingMoves DEF PInv, Shaped, Deleting, First

\* What was broken when a request began was paid for, and what the request has
\* read is true then.
LEMMA BeginPays ==
    ASSUME PInv, NEW t \in Threads, NEW op \in Ops, NEW own \in BOOLEAN,
           Begin(t, op, own)
    PROVE  Shaped' /\ Paid'
  <1>1. PICK r \in Request : /\ txn' = [txn EXCEPT ![t] = r]
                             /\ r.op = op /\ r.copy = key /\ r.file = NoKey
                             /\ r.stage = IF op = "edit" THEN "dirty" ELSE "begun"
    <2> DEFINE r == [op |-> op, own |-> own, copy |-> key, file |-> NoKey,
                     stage |-> IF op = "edit" THEN "dirty" ELSE "begun"]
    <2>1. r \in Request
      BY DEF PInv, IInv, TypeOK, Request, Stages, Optional
    <2> QED
      BY <2>1 DEF Begin
  <1>2. t \notin Open /\ key' = key /\ stored' = stored
    BY DEF Begin
  <1>3. r # NoRequest
    BY <1>1 DEF NoRequest, Ops
  <1>4. /\ txn'[t] = r
        /\ \A u \in Threads : u # t => txn'[u] = txn[u]
        /\ \A u \in Threads : u # t => (u \in Open' <=> u \in Open)
        /\ t \in Open'
    BY <1>1, <1>3, OneRequest DEF PInv, IInv
  <1>5. Open' = Open \cup {t} /\ \A u \in Open : u # t /\ txn'[u] = txn[u]
    BY <1>2, <1>4 DEF Open
  <1>6. t \notin Deleting' /\ (First(t)' => key = NoKey)
    BY <1>1, <1>2, <1>4 DEF Deleting, First
  <1>7. \A u \in Open : /\ First(u)' <=> First(u)
                        /\ u \in Deleting' <=> u \in Deleting
    BY <1>5, SameRequest
  <1>8. Deleting' = Deleting
    BY <1>5, <1>6, <1>7 DEF Deleting
  <1>9. Orphans' = Orphans /\ \A x \in stored : x \in Files' <=> x \in Files
    BY <1>1, <1>2, <1>4, <1>5, FileOf, Sizes
  <1>10. Broken' = Broken /\ (Dangling' <=> Dangling) /\ (Living' <=> Living)
    BY <1>2, <1>8, <1>9 DEF Broken, Dangling, Living
  <1>11. \A u \in Open : Harm(u)' = Harm(u)
    BY <1>2, <1>5, <1>7, <1>9, <1>10 DEF Harm, One
  <1>12. Harm(t)' = 0
    BY <1>1, <1>2, <1>4, <1>6 DEF Harm, One
  <1>13. Shaped'
    BY <1>1, <1>4, <1>5, <1>6, <1>7 DEF PInv, Shaped
  <1>14. Paid'
    <2> SUFFICES ASSUME NEW u \in Open'
                 PROVE  Broken + Cardinality(Open') - 1 + Harm(u)' <= damage'
      BY <1>5, <1>10 DEF Paid
    <2>1. Cardinality(Open') = Cardinality(Open) + 1
      BY <1>2, <1>5, Sizes, FS_AddElement
    <2>2. CASE Open = {}
      <3>1. u = t /\ Cardinality(Open) = 0 /\ damage' = damage /\ Broken <= damage
        BY <1>5, <2>2, FS_EmptySet, Sizes DEF PInv, Paid, Begin, Damaged
      <3> QED
        BY <1>12, <2>1, <3>1, Sizes
    <2>3. CASE Open # {}
      <3>1. damage' = damage + 1 /\ \A v \in Open : Broken + Cardinality(Open) - 1 + Harm(v) <= damage
        BY <2>3 DEF PInv, Paid, Begin, Damaged
      <3>2. PICK v \in Open : u = v \/ u = t
        BY <1>5, <2>3
      <3>3. Harm(u)' <= Harm(v)
        BY <1>11, <1>12, <3>2, HarmNat
      <3> QED
        BY <2>1, <3>1, <3>3, Sizes, HarmNat
    <2> QED
      BY <2>2, <2>3
  <1> QED
    BY <1>13, <1>14

LEMMA PutPays ==
    ASSUME PInv, NEW t \in Open, NEW k \in FileKeys(t), Put(t, k)
    PROVE  Shaped' /\ Paid'
  <1>1. /\ txn[t] \in Request /\ txn[t].stage = "begun" /\ txn[t].op = "upload"
        /\ t \in Threads /\ txn[t].copy \in used \cup {NoKey}
        /\ txn[t].file = NoKey
    BY OpenIsRequest DEF PInv, IInv, KeysKnown, Put, InStage, Shaped
  <1>2. k \in Keys /\ k # NoKey
        /\ (txn[t].copy = NoKey => k \notin used)
        /\ (txn[t].copy # NoKey => k = txn[t].copy)
    BY <1>1, PictureAssumption DEF FileKeys, Fresh, PInv, IInv, TypeOK
  <1>3. PICK r \in Request : /\ txn' = [txn EXCEPT ![t] = r]
                             /\ r.op = "upload" /\ r.copy = k /\ r.file = k
                             /\ r.stage = IF txn[t].copy = NoKey THEN "dirty" ELSE "clean"
    <2> DEFINE s == IF txn[t].copy = NoKey THEN "dirty" ELSE "clean"
               r == [[[txn[t] EXCEPT !.file = k] EXCEPT !.copy = k] EXCEPT !.stage = s]
    <2>1. txn' = [txn EXCEPT ![t] = r]
      BY <1>1 DEF Put, PInv, IInv, TypeOK
    <2>2. r \in Request /\ r.op = "upload" /\ r.copy = k /\ r.file = k /\ r.stage = s
      BY <1>1, <1>2 DEF Request, Stages, Optional
    <2> QED
      BY <2>1, <2>2
  <1>4. /\ Open' = Open /\ txn'[t] = r
        /\ \A u \in Open : u # t => txn'[u] = txn[u]
    BY <1>3, Midway
  <1>5. \A u \in Open : u \in Deleting' <=> u \in Deleting
    BY <1>1, <1>3, <1>4 DEF Deleting
  <1>6. Deleting' = Deleting
    BY <1>4, <1>5 DEF Deleting
  <1>7. \A u \in Open : First(u)' <=> First(u)
    BY <1>1, <1>3, <1>4 DEF First
  <1>8. key' = key /\ stored' = stored \cup {k} /\ damage' = damage
        /\ stored \subseteq used /\ key \in used \cup {NoKey}
    BY DEF Put, PInv, IInv, TypeOK, KeysKnown
  <1>9. \A x \in stored' : x \in Files' <=> x = k \/ x \in Files
    BY <1>1, <1>2, <1>3, <1>4, <1>8, FileOf, Sizes
  <1>10. Orphans' = Orphans \ {k}
    BY <1>8, <1>9, FileOf
  <1>11. Cardinality(Orphans') = Cardinality(Orphans) - One(k \in Orphans)
         /\ (k \in Orphans => Cardinality(Orphans) >= 1)
    <2>1. IsFiniteSet(Orphans')
          /\ Cardinality(Orphans') = Cardinality(Orphans) - One(k \in Orphans)
      BY <1>10, CardRemove, Sizes
    <2> QED
      BY <2>1, Sizes, FS_CardinalityType DEF One
  <1>12. (Dangling' <=> Dangling /\ key # k) /\ (Living' => Living)
    BY <1>6, <1>8, <1>9 DEF Dangling, Living
  <1>13. Broken' \in Nat /\ Broken' <= Broken
    BY <1>11, <1>12, Sizes DEF Broken, One
  <1>14. Harm(t)' = Harm(t)
    BY <1>1, <1>2, <1>3, <1>4, <1>7, <1>8 DEF Harm, Deleting, First, One
  <1>15. ASSUME NEW u \in Open
         PROVE  Broken' + Harm(u)' <= Broken + Harm(u)
    <2>1. CASE u = t
      BY <1>13, <1>14, <2>1, Sizes, HarmNat
    <2>2. CASE u # t
      <3>1. txn'[u] = txn[u] /\ (First(u)' <=> First(u)) /\ (u \in Deleting' <=> u \in Deleting)
        BY <1>4, <1>5, <1>7, <2>2
      <3> QED
        BY <1>8, <1>10, <1>11, <1>12, <3>1, Sizes DEF Harm, Broken, One
    <2> QED
      BY <2>1, <2>2
  <1>16. Shaped'
    BY <1>1, <1>3, <1>4, <1>5, OpenIsRequest DEF PInv, Shaped, Deleting
  <1> QED
    BY <1>4, <1>8, <1>13, <1>15, <1>16, GoesOn

\* A deletion takes an orphan away, or the object of the row, which it means to
\* clear.
LEMMA RemovePays ==
    ASSUME PInv, NEW t \in Open, Remove(t)
    PROVE  Shaped' /\ Paid'
  <1>1. /\ txn[t] \in Request /\ txn[t].stage = "begun" /\ txn[t].op = "delete"
        /\ t \in Threads /\ txn[t].file = NoKey
    BY OpenIsRequest DEF PInv, IInv, Remove, InStage, Shaped
  <1>2. PICK c : c = txn[t].copy
    OBVIOUS
  <1>3. PICK r \in Request : /\ txn' = [txn EXCEPT ![t] = r]
                             /\ r.op = "delete" /\ r.copy = NoKey /\ r.file = NoKey
                             /\ r.stage = "dirty"
    <2> DEFINE r == [[txn[t] EXCEPT !.copy = NoKey] EXCEPT !.stage = "dirty"]
    <2>1. txn' = [txn EXCEPT ![t] = r]
      BY <1>1 DEF Remove, PInv, IInv, TypeOK
    <2>2. r \in Request /\ r.op = "delete" /\ r.copy = NoKey /\ r.file = NoKey
          /\ r.stage = "dirty"
      BY <1>1 DEF Request, Stages, Optional
    <2> QED
      BY <2>1, <2>2
  <1>4. /\ Open' = Open /\ txn'[t] = r
        /\ \A u \in Open : u # t => txn'[u] = txn[u]
    BY <1>3, Midway
  <1>5. /\ \A u \in Open : u # t => (u \in Deleting' <=> u \in Deleting)
        /\ t \in Deleting' /\ t \notin Deleting
    BY <1>1, <1>3, <1>4 DEF Deleting
  <1>6. /\ \A u \in Open : First(u)' <=> First(u)
        /\ ~ First(t)
    BY <1>1, <1>3, <1>4 DEF First
  <1>7. key' = key /\ stored' = stored \ {c} /\ damage' = damage
    BY <1>2 DEF Remove
  <1>8. \A x : x \in Files' <=> x \in Files
    BY <1>1, <1>3, <1>4, FileOf
  <1>9. Orphans' = Orphans \ {c}
    BY <1>7, <1>8, FileOf
  <1>10. Cardinality(Orphans') = Cardinality(Orphans) - One(c \in Orphans)
         /\ (c \in Orphans => Cardinality(Orphans) >= 1)
    <2>1. IsFiniteSet(Orphans')
          /\ Cardinality(Orphans') = Cardinality(Orphans) - One(c \in Orphans)
      BY <1>9, CardRemove, Sizes
    <2> QED
      BY <2>1, Sizes, FS_CardinalityType DEF One
  <1>11. ~ Dangling' /\ (Living' <=> Living /\ key # c)
    BY <1>5, <1>7, <1>8 DEF Dangling, Living
  <1>12. Broken' \in Nat /\ Broken' <= Broken
    BY <1>10, <1>11, Sizes DEF Broken, One
  <1>13. Harm(t)' <= Harm(t)
    BY <1>1, <1>2, <1>3, <1>4, <1>5, <1>6, <1>11 DEF Harm, One
  <1>14. ASSUME NEW u \in Open
         PROVE  Broken' + Harm(u)' <= Broken + Harm(u)
    <2>1. CASE u = t
      BY <1>12, <1>13, <2>1, Sizes, HarmNat
    <2>2. CASE u # t
      <3>1. txn'[u] = txn[u] /\ (First(u)' <=> First(u)) /\ (u \in Deleting' <=> u \in Deleting)
        BY <1>4, <1>5, <1>6, <2>2
      <3> QED
        BY <1>7, <1>9, <1>10, <1>11, <3>1, Sizes DEF Harm, Broken, One
    <2> QED
      BY <2>1, <2>2
  <1>15. Shaped'
    BY <1>1, <1>3, <1>4, <1>5, OpenIsRequest DEF PInv, Shaped
  <1> QED
    BY <1>4, <1>7, <1>12, <1>14, <1>15, GoesOn

-----------------------------------------------------------------------------
(* The end of a request.                                                   *)

LEMMA AfterEnd ==
    ASSUME PInv, NEW t \in Open, Finish(t)
    PROVE  /\ Open' = Open \ {t}
           /\ \A u \in Open' : /\ u \in Open /\ txn'[u] = txn[u]
                               /\ First(u)' <=> First(u)
                               /\ u \in Deleting' <=> u \in Deleting
           /\ Deleting' = Deleting \ {t}
           /\ \A x : x \in Files' => x \in Files
           /\ \A x : x \in Files => x \in Files' \/ x = txn[t].file
           /\ Shaped'
  <1>1. t \in Threads
    BY DEF Open
  <1>2. /\ \A u \in Threads : u # t => txn'[u] = txn[u]
        /\ \A u \in Threads : u # t => (u \in Open' <=> u \in Open)
        /\ t \notin Open'
    BY <1>1, OneRequest DEF Finish, PInv, IInv
  <1>3. Open' = Open \ {t}
    BY <1>1, <1>2 DEF Open
  <1>4. \A u \in Open' : u \in Open /\ u # t /\ txn'[u] = txn[u]
    BY <1>2, <1>3 DEF Open
  <1>5. \A u \in Open' : /\ First(u)' <=> First(u)
                         /\ u \in Deleting' <=> u \in Deleting
    BY <1>4, SameRequest
  <1>6. Deleting' = Deleting \ {t}
    BY <1>3, <1>4, <1>5 DEF Deleting
  <1>7. \A x : x \in Files' => x \in Files
    BY <1>4, FileOf
  <1>8. \A x : x \in Files => x \in Files' \/ x = txn[t].file
    BY <1>3, <1>4, FileOf
  <1>9. Shaped'
    BY <1>4, <1>5 DEF PInv, Shaped
  <1> QED
    BY <1>3, <1>4, <1>5, <1>6, <1>7, <1>8, <1>9

LEMMA PutFailsPays ==
    ASSUME PInv, NEW t \in Open, NEW k \in FileKeys(t), PutFails(t, k)
    PROVE  Shaped' /\ Paid'
  <1>1. /\ txn[t].op = "upload" /\ txn[t].file = NoKey /\ t \notin Deleting
    BY DEF PInv, Shaped, PutFails, InStage, Deleting
  <1>2. /\ Open' = Open \ {t}
        /\ \A u \in Open' : /\ u \in Open /\ txn'[u] = txn[u]
                            /\ First(u)' <=> First(u)
                            /\ u \in Deleting' <=> u \in Deleting
        /\ Deleting' = Deleting
        /\ \A x : x \in Files' => x \in Files
        /\ \A x : x \in Files => x \in Files' \/ x = NoKey
        /\ Shaped'
    BY <1>1, AfterEnd DEF PutFails
  <1>3. key' = key /\ damage' = damage + 1 /\ (stored' = stored \/ stored' = stored \cup {k})
    BY DEF PutFails, Damaged
  <1>4. k # NoKey
    BY PictureAssumption DEF FileKeys, Fresh
  <1>5. \/ Orphans' = Orphans
        \/ Orphans' = Orphans \cup {k} /\ (Dangling' <=> Dangling)
    <2>1. \A x \in stored \cup {k} : x \in Files' <=> x \in Files
      BY <1>2, <1>4, Sizes
    <2>2. CASE stored' = stored
      BY <1>3, <2>1, <2>2, FileOf
    <2>3. CASE stored' = stored \cup {k} /\ (k = key \/ k \in Files)
      <3>1. Orphans' = Orphans
        BY <1>3, <2>1, <2>3, FileOf
      <3> QED
        BY <3>1
    <2>4. CASE stored' = stored \cup {k} /\ k # key /\ k \notin Files
      <3>1. Orphans' = Orphans \cup {k}
        BY <1>3, <2>1, <2>4, FileOf
      <3>2. Dangling' <=> Dangling
        BY <1>2, <1>3, <2>4 DEF Dangling
      <3> QED
        BY <3>1, <3>2
    <2> QED
      BY <1>3, <2>2, <2>3, <2>4
  <1>6. Cardinality(Orphans') \in Nat /\ Cardinality(Orphans') <= Cardinality(Orphans) + 1
        /\ Orphans \subseteq Orphans'
    BY <1>5, CardGrows, Sizes
  <1>7. Dangling' => Dangling
    BY <1>2, <1>3 DEF Dangling
  <1>8. Broken' \in Nat /\ Broken' <= Broken + 1
    BY <1>6, <1>7, Sizes DEF Broken, One
  <1>9. ASSUME NEW u \in Open'
        PROVE  Broken' + Harm(u)' <= Broken + Harm(u) + 2
    <2>1. /\ txn'[u] = txn[u] /\ (First(u)' <=> First(u)) /\ (u \in Deleting' <=> u \in Deleting)
          /\ key' = key
      BY <1>2, <1>3
    <2>2. CASE Orphans' = Orphans
      BY <1>7, <2>1, <2>2, Sizes DEF Harm, Broken, One
    <2>3. CASE Dangling' <=> Dangling
      <3>1. Harm(u)' <= Harm(u) + 1
        BY <1>6, <2>1, <2>3 DEF Harm, One
      <3> QED
        BY <1>8, <3>1, Sizes, HarmNat
    <2> QED
      BY <1>5, <2>2, <2>3
  <1> QED
    BY <1>2, <1>3, <1>8, <1>9, Ends, HarmNat, Sizes

LEMMA RemoveFailsPays ==
    ASSUME PInv, NEW t \in Open, RemoveFails(t)
    PROVE  Shaped' /\ Paid'
  <1>1. /\ txn[t].op = "delete" /\ txn[t].file = NoKey /\ t \notin Deleting
    BY DEF PInv, Shaped, RemoveFails, InStage, Deleting
  <1>2. /\ Open' = Open \ {t}
        /\ \A u \in Open' : /\ u \in Open /\ txn'[u] = txn[u]
                            /\ First(u)' <=> First(u)
                            /\ u \in Deleting' <=> u \in Deleting
        /\ Deleting' = Deleting
        /\ \A x : x \in Files' => x \in Files
        /\ \A x : x \in Files => x \in Files' \/ x = NoKey
        /\ Shaped'
    BY <1>1, AfterEnd DEF RemoveFails
  <1>3. PICK c : c = txn[t].copy
    OBVIOUS
  <1>4. key' = key /\ damage' = damage + 1 /\ (stored' = stored \/ stored' = stored \ {c})
    BY <1>3 DEF RemoveFails, Damaged
  <1>5. \A x \in stored : x \in Files' <=> x \in Files
    BY <1>2, Sizes
  <1>6. Orphans' = Orphans \/ Orphans' = Orphans \ {c}
    BY <1>4, <1>5, FileOf
  <1>7. /\ Cardinality(Orphans') = Cardinality(Orphans)
           - One(c \in Orphans /\ Orphans' # Orphans)
        /\ Cardinality(Orphans') \in Nat
    <2>1. CASE Orphans' = Orphans
      BY <2>1, Sizes DEF One
    <2>2. CASE Orphans' # Orphans
      <3>1. IsFiniteSet(Orphans')
            /\ Cardinality(Orphans') = Cardinality(Orphans) - One(c \in Orphans)
        BY <1>6, <2>2, CardRemove, Sizes
      <3> QED
        BY <2>2, <3>1, FS_CardinalityType DEF One
    <2> QED
      BY <2>1, <2>2
  <1>8. (Dangling => Dangling') /\ (Living' => Living)
    BY <1>2, <1>4, <1>5 DEF Dangling, Living
  <1>9. Broken' \in Nat /\ Broken' <= Broken + 1
    BY <1>7, <1>8, Sizes DEF Broken, One
  <1>10. ASSUME NEW u \in Open'
         PROVE  Broken' + Harm(u)' <= Broken + Harm(u) + 2
    BY <1>2, <1>4, <1>6, <1>7, <1>8, Sizes DEF Harm, Broken, One
  <1> QED
    BY <1>2, <1>4, <1>9, <1>10, Ends, HarmNat, Sizes

\* A picture that was not saved and whose file is deleted again leaves nothing.
LEMMA CompensatedPays ==
    ASSUME PInv, NEW t \in Open, SaveFails(t), txn[t].op = "upload",
           stored' = Compensated(t), UNCHANGED damage
    PROVE  Shaped' /\ Paid'
  <1>1. PICK f : f = txn[t].file
    OBVIOUS
  <1>2. f # key /\ t \notin Deleting /\ stored' = stored \ {f}
    <2>1. t \in Firsts
      BY DEF SaveFails, InStage, Firsts
    <2> QED
      BY <1>1, <2>1 DEF PInv, IInv, FirstsPrivate, Deleting, Compensated
  <1>3. /\ Open' = Open \ {t}
        /\ \A u \in Open' : /\ u \in Open /\ txn'[u] = txn[u]
                            /\ First(u)' <=> First(u)
                            /\ u \in Deleting' <=> u \in Deleting
        /\ Deleting' = Deleting
        /\ \A x : x \in Files' => x \in Files
        /\ \A x : x \in Files => x \in Files' \/ x = f
        /\ Shaped'
    BY <1>1, <1>2, AfterEnd DEF SaveFails
  <1>4. key' = key /\ damage' = damage + 0 /\ damage' = damage
    BY Sizes DEF SaveFails
  <1>5. Orphans' = Orphans
    <2>1. f \in Files
      BY <1>1, FileOf
    <2> QED
      BY <1>2, <1>3, <1>4, <2>1, FileOf
  <1>6. Broken' = Broken /\ (Dangling' <=> Dangling) /\ (Living' <=> Living)
    BY <1>2, <1>3, <1>4, <1>5 DEF Broken, Dangling, Living
  <1>7. \A u \in Open' : Harm(u)' = Harm(u)
    BY <1>3, <1>4, <1>5, <1>6 DEF Harm, One
  <1> QED
    BY <1>3, <1>4, <1>6, <1>7, Ends, HarmNat, Sizes

\* A flush or commit that fails leaves the object put as an orphan, or the row
\* without the object removed.
LEMMA RolledBackPays ==
    ASSUME PInv, NEW t \in Open, txn[t].stage \in {"dirty", "late", "written"}, Finish(t),
           key' = key, stored' = stored, damage' = damage + 1
    PROVE  Shaped' /\ Paid'
  <1>1. PICK f : f = txn[t].file
    OBVIOUS
  <1>2. \/ txn[t].op = "upload" /\ f # key /\ t \notin Deleting
        \/ f = NoKey
    <2>1. CASE txn[t].op = "upload"
      <3>1. t \in Firsts
        BY <2>1 DEF Firsts
      <3> QED
        BY <1>1, <2>1, <3>1 DEF PInv, IInv, FirstsPrivate, Deleting
    <2>2. CASE txn[t].op # "upload"
      BY <1>1, <2>2 DEF PInv, Shaped
    <2> QED
      BY <2>1, <2>2
  <1>3. /\ Open' = Open \ {t}
        /\ \A u \in Open' : /\ u \in Open /\ txn'[u] = txn[u]
                            /\ First(u)' <=> First(u)
                            /\ u \in Deleting' <=> u \in Deleting
        /\ Deleting' = Deleting \ {t}
        /\ \A x : x \in Files' => x \in Files
        /\ \A x : x \in Files => x \in Files' \/ x = f
        /\ Shaped'
    BY <1>1, AfterEnd
  <1>4. \/ Orphans' = Orphans
        \/ /\ Orphans' = Orphans \cup {f}
           /\ Dangling' <=> Dangling
    <2>1. CASE f = NoKey
      BY <1>3, <2>1, FileOf, Sizes
    <2>2. CASE txn[t].op = "upload" /\ f # key /\ t \notin Deleting
      <3>1. Dangling' <=> Dangling
        BY <1>3, <2>2 DEF Dangling
      <3>2. CASE f \in Orphans'
        <4>1. Orphans' = Orphans \cup {f}
          BY <1>3, <2>2, <3>2, FileOf
        <4> QED
          BY <3>1, <4>1
      <3>3. CASE f \notin Orphans'
        BY <1>1, <1>3, <2>2, <3>3, FileOf
      <3> QED
        BY <3>2, <3>3
    <2> QED
      BY <1>2, <2>1, <2>2
  <1>5. Cardinality(Orphans') \in Nat /\ Cardinality(Orphans') <= Cardinality(Orphans) + 1
        /\ Orphans \subseteq Orphans'
    BY <1>4, CardGrows, Sizes
  <1>6. (Dangling => Dangling') /\ (Living' => Living)
    <2>1. Dangling => Dangling'
      BY <1>3 DEF Dangling
    <2>2. Living' => Living
      BY <1>2, <1>3, Sizes DEF Living
    <2> QED
      BY <2>1, <2>2
  <1>7. Broken' \in Nat /\ Broken' <= Broken + 1
    <2>1. CASE Orphans' = Orphans
      BY <2>1, Sizes DEF Broken, One
    <2>2. CASE Dangling' <=> Dangling
      BY <1>5, <2>2, Sizes DEF Broken, One
    <2> QED
      BY <1>4, <2>1, <2>2
  <1>8. \A u \in Open' : Harm(u)' <= Harm(u)
    BY <1>3, <1>5, <1>6 DEF Harm, One
  <1> QED
    BY <1>3, <1>7, <1>8, Ends, HarmNat, Sizes

LEMMA FailPays ==
    ASSUME PInv, NEW t \in Open, SaveFails(t) \/ CommitFails(t)
    PROVE  Shaped' /\ Paid'
  <1>1. txn[t].stage \in {"dirty", "late", "written"}
    BY DEF SaveFails, CommitFails, InStage
  <1>2. CASE CommitFails(t)
    BY <1>1, <1>2, RolledBackPays DEF CommitFails, Damaged
  <1>3. CASE SaveFails(t)
    BY <1>1, <1>3, RolledBackPays, CompensatedPays DEF SaveFails, Damaged
  <1> QED
    BY <1>2, <1>3

\* A picture put under a key the row no longer names is an orphan.
LEMMA ReturnPays ==
    ASSUME PInv, NEW t \in Open, Return(t)
    PROVE  Shaped' /\ Paid'
  <1>1. PICK f : f = txn[t].file
    OBVIOUS
  <1>2. /\ txn[t].copy = f /\ txn[t].op = "upload"
        /\ t \notin Deleting /\ ~ First(t)
    BY <1>1 DEF PInv, Shaped, Return, InStage, Deleting, First
  <1>3. /\ Open' = Open \ {t}
        /\ \A u \in Open' : /\ u \in Open /\ txn'[u] = txn[u]
                            /\ First(u)' <=> First(u)
                            /\ u \in Deleting' <=> u \in Deleting
        /\ Deleting' = Deleting
        /\ \A x : x \in Files' => x \in Files
        /\ \A x : x \in Files => x \in Files' \/ x = f
        /\ Shaped'
    BY <1>1, <1>2, AfterEnd DEF Return
  <1>4. key' = key /\ stored' = stored /\ damage' = damage + 0
    BY Sizes DEF Return
  <1>5. Dangling' <=> Dangling
    BY <1>3, <1>4 DEF Dangling
  <1>6. Harm(t) = One(f # key)
    BY <1>2 DEF Harm
  <1>7. CASE f = key
    <2>1. Orphans' = Orphans
      BY <1>3, <1>4, <1>7, FileOf
    <2>2. Broken' = Broken
      BY <1>5, <2>1 DEF Broken
    <2>3. \A u \in Open' : Harm(u)' <= Harm(u) + 1
      BY <1>3, <1>4, <1>5, <2>1 DEF Harm, One
    <2> QED
      BY <1>3, <1>4, <2>2, <2>3, Ends, HarmNat, Sizes
  <1>8. CASE f # key
    <2>1. Orphans' = Orphans \/ Orphans' = Orphans \cup {f}
      <3>1. CASE f \in Orphans'
        BY <1>3, <1>4, <1>8, <3>1, FileOf
      <3>2. CASE f \notin Orphans'
        <4>1. f \notin Orphans
          BY <1>1, FileOf
        <4> QED
          BY <1>3, <1>4, <1>8, <3>2, <4>1, FileOf
      <3> QED
        BY <3>1, <3>2
    <2>2. Cardinality(Orphans') \in Nat /\ Cardinality(Orphans') <= Cardinality(Orphans) + 1
          /\ Orphans \subseteq Orphans'
      BY <2>1, CardGrows, Sizes
    <2>3. Broken' \in Nat /\ Broken' <= Broken + 1
      BY <1>5, <2>2, Sizes DEF Broken, One
    <2>4. Living' <=> Living
      BY <1>3, <1>4, <1>8 DEF Living
    <2>5. \A u \in Open' : Harm(u)' <= Harm(u)
      BY <1>3, <1>4, <1>5, <2>2, <2>4 DEF Harm, One
    <2>6. Harm(t) = 1
      BY <1>6, <1>8 DEF One
    <2> QED
      BY <1>3, <1>4, <2>3, <2>5, <2>6, Ends, HarmNat, Sizes
  <1> QED
    BY <1>7, <1>8

\* The key of a first picture is known to no edit: whatever it replaces, the
\* edits that would bring that back pay.
LEMMA CommitUploadPays ==
    ASSUME PInv, NEW t \in Open, Commit(t), txn[t].op = "upload"
    PROVE  Shaped' /\ Paid'
  <1>1. PICK c : c = txn[t].copy
    OBVIOUS
  <1>2. txn[t].stage = "written" /\ t \in Threads
    BY DEF Commit, InStage, Open
  <1>3. t \in Firsts /\ t \notin Deleting /\ First(t)
    BY <1>2 DEF Firsts, Deleting, First
  <1>4. /\ txn[t].file = c /\ c \in stored /\ c # key /\ c # NoKey
        /\ \A u \in Open : u # t => txn[u].copy # c
    BY <1>1, <1>3, Sizes DEF PInv, IInv, FirstsPrivate
  <1>5. /\ Open' = Open \ {t}
        /\ \A u \in Open' : /\ u \in Open /\ txn'[u] = txn[u]
                            /\ First(u)' <=> First(u)
                            /\ u \in Deleting' <=> u \in Deleting
        /\ Deleting' = Deleting
        /\ \A x : x \in Files' => x \in Files
        /\ \A x : x \in Files => x \in Files' \/ x = c
        /\ Shaped'
    BY <1>3, <1>4, AfterEnd DEF Commit
  <1>6. key' = c /\ stored' = stored /\ damage' = damage + 0
    BY <1>1, Sizes DEF Commit
  <1>7. ~ Dangling' /\ (Living => key # NoKey /\ ~ Dangling)
    BY <1>4, <1>6, Sizes DEF Dangling, Living
  <1>8. \A x : x \in Orphans' <=> x \in Orphans \/ (x = key /\ Living)
    BY <1>4, <1>5, <1>6, FileOf DEF Living
  <1>9. /\ Cardinality(Orphans') = Cardinality(Orphans) + One(Living)
        /\ Cardinality(Orphans') \in Nat
    <2>1. CASE Living
      <3>1. Orphans' = Orphans \cup {key} /\ key \notin Orphans
        BY <1>8, <2>1, FileOf
      <3>2. Cardinality(Orphans') = Cardinality(Orphans) + 1
        BY <3>1, CardAdd, Sizes DEF One
      <3> QED
        BY <2>1, <3>2, Sizes DEF One
    <2>2. CASE ~ Living
      <3>1. Orphans' = Orphans
        BY <1>8, <2>2
      <3> QED
        BY <2>2, <3>1, Sizes DEF One
    <2> QED
      BY <2>1, <2>2
  <1>10. Harm(t) = One(key # NoKey)
    BY <1>3 DEF Harm, Firsts
  <1>11. Broken' \in Nat /\ Broken' <= Broken + Harm(t)
    BY <1>7, <1>9, <1>10, Sizes DEF Broken, One
  <1>12. ASSUME NEW u \in Open'
         PROVE  \/ Broken' + Harm(u)' <= Broken + Harm(u) + 1
                \/ Broken' + Harm(u)' <= Broken + Harm(t) + 1
    <2>1. /\ txn'[u] = txn[u] /\ (First(u)' <=> First(u)) /\ (u \in Deleting' <=> u \in Deleting)
          /\ txn[u].copy # c
      BY <1>4, <1>5
    <2>2. CASE txn[u].op = "edit"
      <3>1. Harm(u)' = 1 + One(txn[u].copy \notin Orphans' \cup {NoKey})
        BY <1>4, <1>6, <1>7, <2>1, <2>2 DEF Harm, One
      <3>2. CASE txn[u].copy = key
        BY <1>7, <1>8, <1>9, <1>10, <3>1, <3>2, Sizes DEF Broken, One
      <3>3. CASE txn[u].copy # key
        <4>1. Harm(u) = One(key # NoKey /\ ~ Dangling) + One(txn[u].copy \notin Orphans \cup {NoKey})
          BY <2>2, <3>3 DEF Harm
        <4> QED
          BY <1>7, <1>8, <1>9, <3>1, <4>1, Sizes DEF Broken, One
      <3> QED
        BY <3>2, <3>3
    <2>3. CASE txn[u].op # "edit"
      <3>1. Harm(u)' <= 1 /\ (First(u) => Harm(u) = One(key # NoKey))
        BY <2>1, <2>3 DEF Harm, One
      <3> QED
        BY <1>7, <1>9, <1>10, <3>1, Sizes, HarmNat DEF Broken, One
    <2> QED
      BY <2>2, <2>3
  <1> QED
    BY <1>5, <1>6, <1>11, <1>12, Ends, HarmNat, Sizes

\* A deletion clears the key whose object it removed, or one with an object.
LEMMA CommitDeletePays ==
    ASSUME PInv, NEW t \in Open, Commit(t), txn[t].op = "delete"
    PROVE  Shaped' /\ Paid'
  <1>1. /\ t \in Deleting /\ ~ First(t)
        /\ txn[t].copy = NoKey /\ txn[t].file = NoKey
    BY DEF PInv, Shaped, Commit, InStage, Deleting, First
  <1>2. /\ Open' = Open \ {t}
        /\ \A u \in Open' : /\ u \in Open /\ txn'[u] = txn[u]
                            /\ First(u)' <=> First(u)
                            /\ u \in Deleting' <=> u \in Deleting
        /\ \A x : x \in Files' => x \in Files
        /\ \A x : x \in Files => x \in Files' \/ x = NoKey
        /\ Shaped'
    BY <1>1, AfterEnd DEF Commit
  <1>3. key' = NoKey /\ stored' = stored /\ damage' = damage + 0
    BY <1>1, Sizes DEF Commit
  <1>4. ~ Dangling /\ ~ Dangling' /\ ~ Living'
    BY <1>1, <1>3, Sizes DEF Dangling, Living
  <1>5. \A x : x \in Orphans' <=> x \in Orphans \/ (x = key /\ Living)
    BY <1>2, <1>3, FileOf, Sizes DEF Living
  <1>6. /\ Cardinality(Orphans') = Cardinality(Orphans) + One(Living)
        /\ Cardinality(Orphans') \in Nat
    <2>1. CASE Living
      <3>1. Orphans' = Orphans \cup {key} /\ key \notin Orphans
        BY <1>5, <2>1, FileOf
      <3>2. Cardinality(Orphans') = Cardinality(Orphans) + 1
        BY <3>1, CardAdd, Sizes DEF One
      <3> QED
        BY <2>1, <3>2, Sizes DEF One
    <2>2. CASE ~ Living
      <3>1. Orphans' = Orphans
        BY <1>5, <2>2
      <3> QED
        BY <2>2, <3>1, Sizes DEF One
    <2> QED
      BY <2>1, <2>2
  <1>7. Harm(t) = One(Living)
    BY <1>1 DEF Harm
  <1>8. Broken' \in Nat /\ Broken' <= Broken + Harm(t)
    BY <1>4, <1>6, <1>7, Sizes DEF Broken, One
  <1>9. ASSUME NEW u \in Open'
        PROVE  \/ Broken' + Harm(u)' <= Broken + Harm(u) + 1
               \/ Broken' + Harm(u)' <= Broken + Harm(t) + 1
    <2>1. txn'[u] = txn[u]
      BY <1>2
    <2>2. Harm(u)' <= 1
      BY <1>3 DEF Harm, One
    <2> QED
      BY <1>4, <1>6, <1>7, <2>2, Sizes, HarmNat DEF Broken, One
  <1> QED
    BY <1>2, <1>3, <1>8, <1>9, Ends, HarmNat, Sizes

\* An edit brings back the key it read.
LEMMA CommitEditPays ==
    ASSUME PInv, NEW t \in Open, Commit(t), txn[t].op = "edit"
    PROVE  Shaped' /\ Paid'
  <1>1. PICK c : c = txn[t].copy
    OBVIOUS
  <1>2. txn[t].file = NoKey /\ t \notin Deleting
    BY DEF PInv, Shaped, Deleting
  <1>3. /\ Open' = Open \ {t}
        /\ \A u \in Open' : /\ u \in Open /\ txn'[u] = txn[u]
                            /\ First(u)' <=> First(u)
                            /\ u \in Deleting' <=> u \in Deleting
        /\ Deleting' = Deleting
        /\ \A x : x \in Files' => x \in Files
        /\ \A x : x \in Files => x \in Files' \/ x = NoKey
        /\ Shaped'
    BY <1>2, AfterEnd DEF Commit
  <1>4. key' = c /\ stored' = stored /\ damage' = damage + 0
    BY <1>1, Sizes DEF Commit
  <1>5. \A x \in stored : x \in Files' <=> x \in Files
    BY <1>3, Sizes
  <1>6. CASE c = key
    <2>1. Orphans' = Orphans
      BY <1>4, <1>5, <1>6, FileOf
    <2>2. Broken' = Broken /\ (Dangling' <=> Dangling) /\ (Living' <=> Living)
      BY <1>3, <1>4, <1>5, <1>6, <2>1 DEF Broken, Dangling, Living
    <2>3. \A u \in Open' : Harm(u)' = Harm(u)
      BY <1>3, <1>4, <1>6, <2>1, <2>2 DEF Harm, One
    <2> QED
      BY <1>3, <1>4, <2>2, <2>3, Ends, HarmNat, Sizes
  <1>7. CASE c # key
    <2>1. /\ Dangling' => c \notin Orphans \cup {NoKey}
          /\ Living' => c \in Orphans
          /\ Living => key # NoKey /\ ~ Dangling
      BY <1>4, <1>5, <1>7, FileOf, Sizes DEF Dangling, Living
    <2>2. \A x : x \in Orphans' <=> x # c /\ (x \in Orphans \/ (x = key /\ Living))
      BY <1>4, <1>5, <1>7, FileOf DEF Living
    <2>3. /\ Cardinality(Orphans') = Cardinality(Orphans) + One(Living) - One(c \in Orphans)
          /\ Cardinality(Orphans') \in Nat
      <3>1. PICK O : O = Orphans \cup (IF Living THEN {key} ELSE {})
        OBVIOUS
      <3>2. IsFiniteSet(O) /\ Cardinality(O) = Cardinality(Orphans) + One(Living)
        <4>1. CASE Living
          <5>1. O = Orphans \cup {key} /\ key \notin Orphans
            BY <3>1, <4>1, FileOf
          <5>2. IsFiniteSet(O) /\ Cardinality(O) = Cardinality(Orphans) + 1
            BY <5>1, CardAdd, Sizes DEF One
          <5> QED
            BY <4>1, <5>2 DEF One
        <4>2. CASE ~ Living
          <5>1. O = Orphans
            BY <3>1, <4>2
          <5> QED
            BY <4>2, <5>1, Sizes DEF One
        <4> QED
          BY <4>1, <4>2
      <3>3. Orphans' = O \ {c} /\ (c \in O <=> c \in Orphans)
        BY <1>7, <2>2, <3>1
      <3>4. IsFiniteSet(Orphans') /\ Cardinality(Orphans') = Cardinality(O) - One(c \in O)
        BY <3>2, <3>3, CardRemove
      <3>5. Cardinality(Orphans') \in Nat
        BY <3>4, FS_CardinalityType
      <3> QED
        BY <3>2, <3>3, <3>4, <3>5, Sizes DEF One
    <2>4. Harm(t) = One(key # NoKey /\ ~ Dangling) + One(c \notin Orphans \cup {NoKey})
      BY <1>1, <1>7 DEF Harm
    <2>5. Broken' \in Nat /\ Broken' <= Broken + Harm(t)
      BY <2>1, <2>3, <2>4, Sizes DEF Broken, One
    <2>6. ASSUME NEW u \in Open'
          PROVE  \/ Broken' + Harm(u)' <= Broken + Harm(u) + 1
                 \/ Broken' + Harm(u)' <= Broken + Harm(t) + 1
      <3>1. txn'[u] = txn[u] /\ (First(u)' <=> First(u)) /\ (u \in Deleting' <=> u \in Deleting)
        BY <1>3
      <3>2. CASE txn[u].op = "edit"
        <4>1. CASE txn[u].copy = c
          <5>1. Harm(u)' = 0
            BY <1>4, <3>1, <3>2, <4>1 DEF Harm
          <5> QED
            BY <2>5, <5>1, Sizes, HarmNat
        <4>2. CASE txn[u].copy # c
          <5>1. Harm(u)' = One(c # NoKey /\ ~ Dangling') + One(txn[u].copy \notin Orphans' \cup {NoKey})
            BY <1>4, <3>1, <3>2, <4>2 DEF Harm
          <5>2. CASE txn[u].copy = key
            BY <2>1, <2>2, <2>3, <2>4, <5>1, <5>2, Sizes DEF Broken, One
          <5>3. CASE txn[u].copy # key
            <6>1. Harm(u) = One(key # NoKey /\ ~ Dangling) + One(txn[u].copy \notin Orphans \cup {NoKey})
              BY <3>2, <5>3 DEF Harm
            <6> QED
              BY <2>1, <2>2, <2>3, <2>4, <4>2, <5>1, <6>1, Sizes DEF Broken, One
          <5> QED
            BY <5>2, <5>3
        <4> QED
          BY <4>1, <4>2
      <3>3. CASE txn[u].op # "edit"
        <4>1. Harm(u)' <= 1
          BY <3>1, <3>3 DEF Harm, One
        <4> QED
          BY <2>5, <4>1, Sizes, HarmNat
      <3> QED
        BY <3>2, <3>3
    <2> QED
      BY <1>3, <1>4, <2>5, <2>6, Ends, HarmNat, Sizes
  <1> QED
    BY <1>6, <1>7

-----------------------------------------------------------------------------
(* A crash, and the theorem.                                               *)

\* Each request has put one file at most.
LEMMA FilesBounded ==
    ASSUME NEW S, IsFiniteSet(S), NEW f
    PROVE  /\ IsFiniteSet({f[u] : u \in S})
           /\ Cardinality({f[u] : u \in S}) <= Cardinality(S)
  <1> DEFINE T == {f[u] : u \in S}
             g == [u \in S |-> f[u]]
  <1>1. g \in Surjection(S, T)
    BY DEF Surjection
  <1> HIDE DEF g
  <1> QED
    BY <1>1, FS_Surjection

LEMMA CrashPays == PInv /\ Crash => Shaped' /\ Paid'
  <1> SUFFICES ASSUME PInv, Crash
               PROVE  Shaped' /\ Paid'
    OBVIOUS
  <1>1. PICK t \in Open : TRUE
    BY DEF Crash
  <1>2. Open' = {}
    BY DEF Crash, Open
  <1>3. /\ key' = key /\ stored' = stored
        /\ damage' = damage + Cardinality(Open)
    BY DEF Crash, Damaged
  <1>4. Broken + Cardinality(Open) - 1 <= damage
    BY <1>1, Sizes, HarmNat DEF PInv, Paid
  <1>5. Orphans' = stored \ {key} /\ Deleting' = {}
    BY <1>2, <1>3 DEF Orphans, Deleting
  <1>6. Dangling' <=> key \notin stored \cup {NoKey}
    BY <1>3, <1>5 DEF Dangling
  \* The requests whose files may be in the bucket.
  <1>7. ASSUME NEW S \in SUBSET Open, \A u \in Open \ S : txn[u].file = NoKey
        PROVE  Cardinality(Orphans') <= Cardinality(Orphans) + Cardinality(S)
               /\ Cardinality(Orphans') \in Nat
    <2> DEFINE f == [u \in S |-> txn[u].file]
               F == {f[u] : u \in S}
    <2>1. IsFiniteSet(S) /\ Cardinality(S) \in Nat
      BY Sizes, FS_Subset, FS_CardinalityType
    <2>2. \A x \in Files : x = NoKey \/ x \in F
      <3> SUFFICES ASSUME NEW u \in Open, txn[u].file # NoKey
                   PROVE  txn[u].file \in F
        BY FileOf
      <3>1. u \in S /\ f[u] = txn[u].file
        BY <1>7
      <3> QED
        BY <3>1
    <2>3. IsFiniteSet(F) /\ Cardinality(F) <= Cardinality(S)
      BY <2>1, FilesBounded
    <2> HIDE DEF F
    <2>4. Cardinality(F) \in Nat /\ Cardinality(Orphans \cap F) \in Nat
      BY <2>3, Sizes, FS_Intersection, FS_CardinalityType
    <2>5. IsFiniteSet(Orphans \cup F)
          /\ Cardinality(Orphans \cup F) <= Cardinality(Orphans) + Cardinality(S)
          /\ Cardinality(Orphans \cup F) \in Nat
      <3>1. /\ IsFiniteSet(Orphans \cup F)
            /\ Cardinality(Orphans \cup F)
                 = Cardinality(Orphans) + Cardinality(F) - Cardinality(Orphans \cap F)
        BY <2>3, Sizes, FS_Union
      <3>2. Cardinality(Orphans \cup F) \in Nat
        BY <3>1, FS_CardinalityType
      <3> QED
        BY <2>1, <2>3, <2>4, <3>1, <3>2, Sizes
    <2>6. Orphans' \subseteq Orphans \cup F
      BY <1>5, <2>2, FileOf, Sizes
    <2>7. IsFiniteSet(Orphans') /\ Cardinality(Orphans') <= Cardinality(Orphans \cup F)
      BY <2>5, <2>6, FS_Subset
    <2> QED
      BY <2>1, <2>5, <2>7, Sizes, FS_CardinalityType
  <1>8. Broken' <= Broken + Cardinality(Open) /\ Broken' \in Nat
    <2>1. CASE Deleting = {}
      <3>1. Cardinality(Orphans') <= Cardinality(Orphans) + Cardinality(Open)
            /\ Cardinality(Orphans') \in Nat
        BY <1>7
      <3>2. Dangling' <=> Dangling
        BY <1>6, <2>1 DEF Dangling
      <3> QED
        BY <3>1, <3>2, Sizes DEF Broken, One
    <2>2. CASE Deleting # {}
      <3>1. PICK d \in Open : d \in Deleting
        BY <2>2 DEF Deleting
      <3>2. txn[d].file = NoKey
        BY <3>1 DEF PInv, Shaped, Deleting
      <3>3. Cardinality(Orphans') <= Cardinality(Orphans) + Cardinality(Open \ {d})
            /\ Cardinality(Orphans') \in Nat
        BY <1>7, <3>2
      <3> QED
        BY <3>3, Sizes DEF Broken, One
    <2> QED
      BY <2>1, <2>2
  <1>9. Cardinality(Open) >= 1
    BY <1>1, Sizes
  <1> QED
    BY <1>2, <1>3, <1>4, <1>8, <1>9, Sizes DEF Paid, Shaped

LEMMA PInit == Init => PInv
  <1> SUFFICES ASSUME Init
               PROVE  PInv
    OBVIOUS
  <1>1. Open = {} /\ Orphans = {} /\ stored = {} /\ key = NoKey /\ damage = 0
    BY DEF Init, Open, Orphans
  <1>2. IsFiniteSet(stored) /\ Broken = 0
    BY <1>1, FS_EmptySet DEF Broken, Dangling, One
  <1> QED
    BY <1>1, <1>2, InitOK DEF PInv, Shaped, Paid

LEMMA PNext == PInv /\ [Next]_vars => PInv'
  <1> SUFFICES ASSUME PInv, [Next]_vars
               PROVE  PInv'
    OBVIOUS
  <1>1. IInv'
    BY NextKeeps DEF PInv
  <1>2. IsFiniteSet(stored')
    <2>1. stored' \subseteq stored \/ \E k : stored' \subseteq stored \cup {k}
      BY DEF Next, vars, Begin, Put, PutFails, Remove, RemoveFails, Save, FlushFails,
             SaveFails, Compensated, Commit, CommitFails, Return, Crash, Login
    <2> QED
      BY <2>1, FS_AddElement, FS_Subset DEF PInv
  <1>3. Shaped' /\ Paid'
    <2>1. CASE UNCHANGED vars
      <3>1. Broken' = Broken
        BY <2>1 DEF vars, Broken, Orphans, Dangling, Deleting, Open
      <3> QED
        BY <2>1, NothingMoves DEF vars, PInv, Shaped, Deleting, First, Open
    <2>2. ASSUME NEW t \in Threads,
                 \E op \in Ops, own \in BOOLEAN : Begin(t, op, own)
          PROVE  Shaped' /\ Paid'
      BY <2>2, BeginPays
    <2>3. ASSUME NEW t \in Open, NEW k \in FileKeys(t), Put(t, k) \/ PutFails(t, k)
          PROVE  Shaped' /\ Paid'
      BY <2>3, PutPays, PutFailsPays
    <2>4. ASSUME NEW t \in Threads, Remove(t) \/ RemoveFails(t) \/ Save(t)
                   \/ FlushFails(t) \/ SaveFails(t) \/ CommitFails(t) \/ Return(t)
          PROVE  Shaped' /\ Paid'
      <3>1. t \in Open
        BY <2>4 DEF Remove, RemoveFails, Save, FlushFails, SaveFails, CommitFails, Return, InStage
      <3> QED
        BY <2>4, <3>1, RemovePays, RemoveFailsPays, SavePays, FailPays, ReturnPays
    <2>5. ASSUME NEW t \in Threads, Commit(t)
          PROVE  Shaped' /\ Paid'
      <3>1. t \in Open /\ txn[t].op \in Ops
        BY <2>5, OpenIsRequest DEF Commit, InStage, PInv, IInv, Request
      <3> QED
        BY <2>5, <3>1, CommitUploadPays, CommitDeletePays, CommitEditPays DEF Ops
    <2> QED
      BY <2>1, <2>2, <2>3, <2>4, <2>5, CrashPays, LoginPays DEF Next
  <1> QED
    BY <1>1, <1>2, <1>3 DEF PInv

\* Between requests the bucket and the row differ no more than there were
\* faults and overlapping requests, however uploads, deletions and edits,
\* their failures and the crashes of the server interleave.
THEOREM DamagePaid == Spec => []DamageIsPaid
  <1>1. PInv => DamageIsPaid
    <2> SUFFICES ASSUME PInv, Open = {}
                 PROVE  Cardinality(Orphans) + Cardinality({key} \ (stored \cup {NoKey})) <= damage
      BY DEF DamageIsPaid
    <2>1. Deleting = {} /\ Broken <= damage
      BY DEF PInv, Paid, Deleting
    <2>2. CASE key \in stored \cup {NoKey}
      <3>1. {key} \ (stored \cup {NoKey}) = {}
        BY <2>2
      <3> QED
        BY <2>1, <2>2, <3>1, FS_EmptySet, Sizes DEF Broken, Dangling, One
    <2>3. CASE key \notin stored \cup {NoKey}
      <3>1. {key} \ (stored \cup {NoKey}) = {key}
        BY <2>3
      <3> QED
        BY <2>1, <2>3, <3>1, FS_Singleton, Sizes DEF Broken, Dangling, One
    <2> QED
      BY <2>2, <2>3
  <1> QED
    BY <1>1, PInit, PNext, PTL DEF Spec
=============================================================================
