\* Two server threads work on the same request.
CONSTANTS
    Threads = {t1, t2}
    Users = {u1}
    NoUser = NoUser
    LeaveTypes = {casual}
    Starts = {1, 2}
    Ends = {4}
    Reasons = {reason}
    DaysOf <- MCDaysOf
    Comments = {}
    NoComment = NoComment
    MaxId = 1
    NoRow = NoRow
SYMMETRY ThreadSymmetry
SPECIFICATION Spec
INVARIANTS TypeOK DecidedHasDecider
PROPERTIES IdentityStable SpoiledByRefusal ImplementsLedger
