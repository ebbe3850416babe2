\* One conversation, one fault, two days.
CONSTANTS
    Sessions = {s1}
    Projects = {home, other}
    Home = home
    Legacy = {}
    Null = Null
    MaxText = 1
    LateFailures = FALSE
    MaxFaults = 1
    Retain = 2
    MaxDays = 2
    MaxOnRequest = 1
    MaxRequests = 2
    s1 = s1
    home = home
    other = other
SPECIFICATION BackupSpec
INVARIANTS
    NothingMissed
PROPERTIES
    LastGoodKept
    DailyArchive
