------------------------------ MODULE LeaveData ------------------------------
(***************************************************************************)
(* The data of the leave request modules: a row of table leave_requests,   *)
(* mapped by the entity LeaveRequest.  What the requestor asks for are its *)
(* "details", four parts that a handler replaces one after the other.      *)
(***************************************************************************)
EXTENDS Integers

CONSTANTS
    Users,      \* users that UserService.getUser finds
    NoUser,     \* an id for which getUser is null: unknown, or the lookup
                \* failed; also a NULL changed_by
    LeaveTypes, Starts, Ends, Reasons,  \* what can be posted
    DaysOf,     \* DaysOf[d]: the days populateDays counts for details d, which
                \* holidays inside bridged weekends can make negative
    Comments,   \* comments a servicing user can attach
    NoComment,
    MaxId,      \* bound on the ids handed out by AUTO_INCREMENT
    NoRow       \* there is no such row

Details == [leaveType : LeaveTypes, start : Starts, end : Ends, reason : Reasons]

ASSUME LeaveAssumption ==
    /\ NoUser \notin Users
    /\ NoComment \notin Comments
    /\ DaysOf \in [Details -> Int]
    /\ MaxId \in Nat

Status == {"PENDING", "APPROVED", "DECLINED"}
Ids == 1 .. MaxId

LeaveRequest ==
    [requestor : Users, details : Details, days : Int, status : Status,
     changedBy : Users \cup {NoUser}, comments : Comments \cup {NoComment}]

ASSUME NoRowAssumption == NoRow \notin LeaveRequest

\* The row addLeaveRequestDataForUser builds for user u and details d.
NewRequest(u, d) ==
    [requestor |-> u, details |-> d, days |-> DaysOf[d], status |-> "PENDING",
     changedBy |-> NoUser, comments |-> NoComment]

\* parseLeaveRequestDetailsFromJson over details "old", when its first n parts
\* could be parsed and the next one threw an exception (n = 4: none did).
AllParts == 4
Parsed(old, d, n) ==
    [leaveType |-> IF n >= 1 THEN d.leaveType ELSE old.leaveType,
     start     |-> IF n >= 2 THEN d.start     ELSE old.start,
     end       |-> IF n >= 3 THEN d.end       ELSE old.end,
     reason    |-> IF n >= AllParts THEN d.reason ELSE old.reason]

=============================================================================
