----------------------------- MODULE LeaveLedger -----------------------------
(***************************************************************************)
(* What the leave request handlers do, seen from outside: a ledger of      *)
(* requests on which raising, revising, deciding and withdrawing each act  *)
(* atomically on the current entry, change their own part of the entry     *)
(* only, and are answered SUCCESS.  One refusal is not without effect: a   *)
(* revision that is answered FAILURE may spoil the entry all the same.     *)
(***************************************************************************)
EXTENDS LeaveData

CONSTANT Clients

VARIABLES
    ledger,     \* Ids -> entry or NoRow
    told        \* what each client was answered last

LedgerInit == ledger = [r \in Ids |-> NoRow]

\* The answer that comes with a change of the ledger.
Answered(c, a) == told' = [told EXCEPT ![c] = a]

Raise(c, r, u, d) ==
    /\ ledger[r] = NoRow
    /\ DaysOf[d] # 0
    /\ ledger' = [ledger EXCEPT ![r] = NewRequest(u, d)]
    /\ Answered(c, "SUCCESS")

\* The requestor changes what is asked for; the decision, if any, stands.
Revise(c, r, d) ==
    /\ ledger[r] # NoRow
    /\ DaysOf[d] # 0
    /\ ledger' = [ledger EXCEPT ![r] = [@ EXCEPT !.details = d, !.days = DaysOf[d]]]
    /\ Answered(c, "SUCCESS")

\* A revision that is refused, as its days cannot be counted or a part of it
\* cannot be parsed, leaves what it had replaced before the refusal.
Spoil(c, r, d, n) ==
    /\ ledger[r] # NoRow
    /\ LET left == [ledger[r] EXCEPT !.details = Parsed(@, d, n),
                                     !.days = IF n = AllParts THEN 0 ELSE @]
       IN  ledger' = [ledger EXCEPT ![r] = left]
    /\ Answered(c, "FAILURE")

\* A servicing user decides, or leaves a comment.
Decide(c, r, u, st, comment) ==
    /\ ledger[r] # NoRow
    /\ st # ledger[r].status \/ comment # NoComment
    /\ ledger' = [ledger EXCEPT ![r] = [@ EXCEPT !.status = st, !.changedBy = u,
                                                  !.comments = comment]]
    /\ Answered(c, "SUCCESS")

Withdraw(c, r) ==
    /\ ledger[r] # NoRow
    /\ ledger' = [ledger EXCEPT ![r] = NoRow]
    /\ Answered(c, "SUCCESS")

LedgerNext ==
    \E c \in Clients, r \in Ids :
        \/ \E u \in Users, d \in Details : Raise(c, r, u, d)
        \/ \E d \in Details : Revise(c, r, d)
        \/ \E d \in Details, n \in 1 .. AllParts : Spoil(c, r, d, n)
        \/ \E u \in Users, st \in Status, comment \in Comments \cup {NoComment} :
               Decide(c, r, u, st, comment)
        \/ Withdraw(c, r)

\* Answers that come without a change (refusals, reminders, errors) are free.
LedgerSpec == LedgerInit /\ [][LedgerNext]_ledger

=============================================================================
