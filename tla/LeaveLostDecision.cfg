\* An edit that read the request before a decision commits after it.
CONSTANTS
    Threads = {t1, t2}
    Users = {u1}
    NoUser = NoUser
    LeaveTypes = {casual}
    Starts = {1, 2}
    Ends = {4}
    Reasons = {reason}
    DaysOf <- MCDaysOf
    Comments = {}
    NoComment = NoComment
    MaxId = 1
    NoRow = NoRow
SPECIFICATION Spec
PROPERTY DecisionOnlyByStatusChange
