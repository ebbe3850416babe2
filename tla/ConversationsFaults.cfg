\* Two projects, a legacy conversation and a fresh id, three faults.
CONSTANTS
    Sessions = {s1, s2}
    Projects = {home, other}
    Home = home
    Legacy = {s1}
    Null = Null
    MaxText = 2
    LateFailures = FALSE
    MaxFaults = 3
    s1 = s1
    s2 = s2
    home = home
    other = other
SPECIFICATION ConvSpec
INVARIANTS
    AcknowledgedKept
    NothingLeftBehind
PROPERTIES
    HandEditSurvives
