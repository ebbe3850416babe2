\* One file with two contents, two texts, two phases of one item, two faults.
CONSTANTS
    Texts = {t1, t2}
    Paths = {f}
    Contents = {x1, x2}
    Cut = Cut
    MaxPhases = 2
    MaxItems = 1
    MaxVersion = 6
    MaxFaults = 2
    t1 = t1
    t2 = t2
    f = f
    x1 = x1
    x2 = x2
SPECIFICATION ProjectSpec
INVARIANTS
    VersionNamesState
    FailedPutLosesNothing
