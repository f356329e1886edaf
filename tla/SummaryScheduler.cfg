\* Three days of two users, each day with up to two faults; the third day has
\* the dd-MM date of the first.
CONSTANTS
    Users = {u1, u2}
    YearDays = 2
    MaxDay = 2
    MaxFaults = 2
    NoEntry = NoEntry
SPECIFICATION Spec
INVARIANTS TypeOK DuplicatesAreFaults
PROPERTY DueIsMailed
