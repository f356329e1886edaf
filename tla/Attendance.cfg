\* Two threads correct the day of one user while its terminal log comes in.  Every
\* window may hold punches: of the terminal, or of an earlier entry.
CONSTANTS
    Users = {u1}
    NoUser = NoUser
    LastTime = 3
    InTimes = {0, 2}
    OutTimes = {1, 3}
    NoTime = NoTime
    TerminalTimes = {1}
    Threads = {t1, t2}
SYMMETRY ThreadSymmetry
SPECIFICATION Spec
INVARIANT TypeOK
PROPERTIES CorrectionTakesEffect DayNotErased
