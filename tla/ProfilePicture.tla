---------------------------- MODULE ProfilePicture ----------------------------
(***************************************************************************)
(* The profile picture of one user.  The file is an object in S3, its key  *)
(* a column of the profile row, and the session of the user keeps a copy   *)
(* of the profile, from which the portal shows the picture.  No            *)
(* transaction spans the three.  The handlers of UserServiceImpl upload    *)
(* and delete the picture; editing the profile writes the same row.        *)
(*                                                                         *)
(* damage counts what excuses an object without a row or a row without     *)
(* its object: a fault whose effect is not undone, and a request that      *)
(* begins while another is open.                                           *)
(***************************************************************************)
EXTENDS Integers, FiniteSets

CONSTANTS
    Threads,        \* threads of the container
    Keys,           \* keys createKey may come up with
    NoKey,          \* null
    MaxDamage       \* bound on damage

ASSUME PictureAssumption ==
    /\ IsFiniteSet(Threads)
    /\ NoKey \notin Keys
    /\ MaxDamage \in Nat

VARIABLES
    key,            \* the picture column of the committed row
    stored,         \* keys of the objects in the bucket
    used,           \* keys createKey has come up with
    session,        \* the key in the session of the user
    flushError,     \* the flush of an own upload or delete has failed since the login
    txn,            \* the open request of each thread
    damage

vars == <<key, stored, used, session, flushError, txn, damage>>

Ops == {"upload", "delete", "edit"}
Optional == Keys \cup {NoKey}

\* "begun": the row is read; "dirty": the copy is changed and not flushed; "late":
\* the flush failed and the handler went on; "written": flushed, the row is
\* locked; "clean": done without a change.
Stages == {"begun", "dirty", "late", "written", "clean"}

\* own: the user asked, not an administrator.  file: the object put.
Request == [op : Ops, own : BOOLEAN, stage : Stages, copy : Optional, file : Optional]
NoRequest == [op |-> "none"]

TypeOK ==
    /\ key \in Optional /\ session \in Optional
    /\ used \subseteq Keys /\ stored \subseteq used
    /\ flushError \in BOOLEAN
    /\ txn \in [Threads -> Request \cup {NoRequest}]
    /\ damage \in 0 .. MaxDamage

Open == {t \in Threads : txn[t] # NoRequest}
InStage(s) == {t \in Open : txn[t].stage = s}

Init ==
    /\ key = NoKey /\ session = NoKey
    /\ stored = {} /\ used = {}
    /\ flushError = FALSE
    /\ txn = [t \in Threads |-> NoRequest]
    /\ damage = 0

\* n more excuses, within the bound.
Damaged(n) ==
    /\ damage + n <= MaxDamage
    /\ damage' = damage + n

Finish(t) == txn' = [txn EXCEPT ![t] = NoRequest]

-----------------------------------------------------------------------------
(* A request.                                                              *)

\* A bound: every upload under way and one more can make a key.
KeysLeft == Cardinality(InStage("begun")) < Cardinality(Keys \ used)

\* A request to delete is refused if there is no picture.  An edit changes
\* other columns of the copy.
Begin(t, op, own) ==
    /\ t \notin Open
    /\ op = "delete" => key # NoKey
    /\ op = "upload" /\ key = NoKey => KeysLeft
    /\ txn' = [txn EXCEPT ![t] = [op |-> op, own |-> own, copy |-> key, file |-> NoKey,
                                  stage |-> IF op = "edit" THEN "dirty" ELSE "begun"]]
    /\ Damaged(IF Open = {} THEN 0 ELSE 1)
    /\ UNCHANGED <<key, stored, used, session, flushError>>

\* Mutant: the key is made of the user id alone.
FreshFromUserId == IF used = {} THEN Keys ELSE used

\* The random halves of a key make it new.
Fresh == Keys \ used

\* Mutant: no key is made for a first picture.
FileKeysOfRow(t) == {txn[t].copy}

\* A picture is replaced under its key.
FileKeys(t) == IF txn[t].copy = NoKey THEN Fresh ELSE {txn[t].copy}

\* Only a first picture changes the row.
Put(t, k) ==
    /\ t \in InStage("begun") /\ txn[t].op = "upload"
    /\ stored' = stored \cup {k}
    /\ used' = used \cup {k}
    /\ txn' = [txn EXCEPT ![t].file = k, ![t].copy = k,
                          ![t].stage = IF txn[t].copy = NoKey THEN "dirty" ELSE "clean"]
    /\ UNCHANGED <<key, session, flushError, damage>>

\* The put throws, before or after S3 has the object: uploadFileAndReturnKey
\* returns null and nothing else is done.
PutFails(t, k) ==
    /\ t \in InStage("begun") /\ txn[t].op = "upload"
    /\ \/ stored' = stored
       \/ stored' = stored \cup {k}
    /\ used' = used \cup {k}
    /\ Damaged(1)
    /\ Finish(t)
    /\ UNCHANGED <<key, session, flushError>>

\* S3 deletes an object that is gone without complaint.
Remove(t) ==
    /\ t \in InStage("begun") /\ txn[t].op = "delete"
    /\ stored' = stored \ {txn[t].copy}
    /\ txn' = [txn EXCEPT ![t].copy = NoKey, ![t].stage = "dirty"]
    /\ UNCHANGED <<key, used, session, flushError, damage>>

\* The delete throws, before or after S3 has done it: deleteFile returns
\* false, the row is left alone, and the request is answered with success.
RemoveFails(t) ==
    /\ t \in InStage("begun") /\ txn[t].op = "delete"
    /\ \/ stored' = stored
       \/ stored' = stored \ {txn[t].copy}
    /\ Damaged(1)
    /\ Finish(t)
    /\ UNCHANGED <<key, used, session, flushError>>

\* Mutant: the session keeps the picture that was deleted.
SessionAfterUpload(t) ==
    IF txn[t].own /\ txn[t].op = "upload" THEN txn[t].copy ELSE session

\* An upload or a delete puts the changed profile in the session of its user.
SessionAfter(t) ==
    IF txn[t].own /\ txn[t].op # "edit" THEN txn[t].copy ELSE session

\* updateProfile flushes the whole row, once no other request has it locked.  A
\* request whose first flush failed is flushed by its commit.
Save(t) ==
    /\ t \in InStage("dirty") \cup InStage("late")
    /\ InStage("written") = {}
    /\ txn' = [txn EXCEPT ![t].stage = "written"]
    /\ session' = IF t \in InStage("dirty") THEN SessionAfter(t) ELSE session
    /\ UNCHANGED <<key, stored, used, flushError, damage>>

\* The flush in updateProfile fails, as when the row stays locked for too long.
\* closeSession logs it and the handler goes on as if it had saved.  An edit sets
\* no session: it just stays as it was.
FlushFails(t) ==
    /\ t \in InStage("dirty") /\ txn[t].op # "edit"
    /\ txn' = [txn EXCEPT ![t].stage = "late"]
    /\ session' = SessionAfter(t)
    /\ flushError' = (flushError \/ txn[t].own)
    /\ UNCHANGED <<key, stored, used, damage>>

\* Mutant: the file of a picture that was not saved stays.
Uncompensated(t) == stored

\* The file of a picture that was not saved is deleted.
Compensated(t) == stored \ {txn[t].file}

\* saveOrUpdate itself throws, or the session the profile goes to has ended: the
\* transaction is rolled back.  An edit catches the exception and goes on to
\* commit, like Save.
SaveFails(t) ==
    /\ t \in InStage("dirty") /\ txn[t].op # "edit"
    /\ \/ txn[t].op = "upload" /\ stored' = Compensated(t) /\ UNCHANGED damage
       \/ UNCHANGED stored /\ Damaged(1)
    /\ Finish(t)
    /\ UNCHANGED <<key, used, session, flushError>>

Commit(t) ==
    /\ t \in InStage("written")
    /\ key' = txn[t].copy
    /\ Finish(t)
    /\ UNCHANGED <<stored, used, session, flushError, damage>>

\* The handler has returned: nothing it did outside the database is undone.
CommitFails(t) ==
    /\ t \in InStage("written") \cup InStage("late")
    /\ Damaged(1)
    /\ Finish(t)
    /\ UNCHANGED <<key, stored, used, session, flushError>>

\* A picture was replaced: there is nothing to write.
Return(t) ==
    /\ t \in InStage("clean")
    /\ Finish(t)
    /\ UNCHANGED <<key, stored, used, session, flushError, damage>>

-----------------------------------------------------------------------------
\* The server dies with its transactions and sessions; the user logs in again.
Crash ==
    /\ Open # {}
    /\ Damaged(Cardinality(Open))
    /\ txn' = [t \in Threads |-> NoRequest]
    /\ session' = key /\ flushError' = FALSE
    /\ UNCHANGED <<key, stored, used>>

\* The user logs in while no request of the old session is under way.
Login ==
    /\ \A t \in Open : ~ txn[t].own
    /\ session # key \/ flushError
    /\ session' = key /\ flushError' = FALSE
    /\ UNCHANGED <<key, stored, used, txn, damage>>

Next ==
    \/ \E t \in Threads :
          \/ \E op \in Ops, own \in BOOLEAN : Begin(t, op, own)
          \/ t \in Open /\ \E k \in FileKeys(t) : Put(t, k) \/ PutFails(t, k)
          \/ Remove(t) \/ RemoveFails(t)
          \/ Save(t) \/ FlushFails(t) \/ SaveFails(t)
          \/ Commit(t) \/ CommitFails(t) \/ Return(t)
    \/ Crash
    \/ Login

Spec == Init /\ [][Next]_vars

-----------------------------------------------------------------------------
\* A first picture, once its row is committed, is there to be shown, whatever
\* overlapped with its upload.
PictureShows ==
    [][\A t \in Threads : Commit(t) /\ txn[t].op = "upload" => key' \in stored']_vars

\* The user sees at once what the user did: when an own upload or delete
\* commits, the session has the key of the row, whatever the user does at the
\* same time.  A flush that failed unnoticed ends this until the next login.
OwnChangeShows ==
    [][\A t \in Threads :
          Commit(t) /\ txn[t].own /\ txn[t].op # "edit" /\ ~ flushError
             => session' = key']_vars

\* Objects that no row names, nor any row about to be committed.
Orphans == stored \ ({key} \cup {txn[t].file : t \in Open})

\* Between requests, every orphan and a row without its object are each paid
\* for by a fault or an overlap of their own.
DamageIsPaid ==
    Open = {} =>
        Cardinality(Orphans) + Cardinality({key} \ (stored \cup {NoKey})) <= damage
=============================================================================
