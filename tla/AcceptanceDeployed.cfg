\* The deployment: one web process.  Two projects with one request each, and
\* one conversation that can be moved between them.
CONSTANTS
    Projects = {p1, p2}
    ClientIds = {b}
    Contents <- FrozenWork
    Responses = {story, refusal}
    AuthoredOutput = {story}
    Messages = {m1, m2}
    Null = Null
    MaxFallbacks = 0
    Sessions = {s}
    Bases = {x, y}
    Web = {w1}
    MaxRevision = 2
    MaxCrashes = 1
SPECIFICATION AcceptanceSpec
INVARIANTS
    AuthoredOnce
PROPERTIES
    TurnSpec
    NoTurnBlocked
