\* Two web processes and two requests frozen against one state of a
\* conversation: only the locks and the compare-and-swap keep the acceptances
\* apart, and each is decided although a process dies in the middle.
CONSTANTS
    Projects = {p}
    ClientIds = {b1, b2}
    Contents <- FrozenWork
    Responses = {story}
    AuthoredOutput = {story}
    Messages = {m1, m2}
    Null = Null
    MaxFallbacks = 0
    Sessions = {s}
    Bases = {x, y}
    Web = {w1, w2}
    MaxRevision = 1
    MaxCrashes = 1
SPECIFICATION FairAcceptance
INVARIANTS
    AcceptedWasAuthored
PROPERTIES
    AcceptanceFinal
    AuthoredAgainstFrozen
    CandidateDecided
