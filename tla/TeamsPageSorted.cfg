CONSTANTS
    Users = {u1}
    Names = {n1, n2}
    Slots = {s1, s2}
    MaxTeams = 3
    MaxCopies = 1
    Budget = 3
    MaySort = TRUE
SPECIFICATION MCSpec
SYMMETRY Symmetry
INVARIANT DeletesTheRow
CHECK_DEADLOCK FALSE
