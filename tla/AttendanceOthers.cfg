\* One thread corrects the day of one of two users.
CONSTANTS
    Users = {u1, u2}
    NoUser = NoUser
    LastTime = 2
    InTimes = {0, 1, 2}
    OutTimes = {0, 1, 2}
    NoTime = NoTime
    TerminalTimes = {1}
    Threads = {t1}
SPECIFICATION Spec
PROPERTY OthersUntouched
