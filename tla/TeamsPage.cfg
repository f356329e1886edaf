CONSTANTS
    Users = {u1}
    Names = {n1, n2}
    Slots = {s1, s2}
    MaxTeams = 3
    MaxCopies = 1
    Budget = 5
    MaySort = FALSE
SPECIFICATION MCSpec
SYMMETRY Symmetry
INVARIANTS TypeOK IndexStillTheirs ListIsTrue MembersAreTrue NobodyHidden ClearedWereSent BlockedOnlyByFault
CHECK_DEADLOCK FALSE
