\* One day without faults: only the mail server refuses mails.
CONSTANTS
    Users = {u1, u2}
    YearDays = 365
    MaxDay = 0
    MaxFaults = 0
    NoEntry = NoEntry
SPECIFICATION Spec
PROPERTY FailureIsRecorded
