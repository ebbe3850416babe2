\* One request with one fallback, two executor processes, three faults.
CONSTANTS
    Projects = {p}
    ClientIds = {b1}
    Contents = {c}
    Responses = {x1, x2}
    Messages = {m}
    Null = Null
    MaxFallbacks = 1
    Executors = {e1, e2}
    DefinitiveFailures = TRUE
    MaxFaults = 3
    e1 = e1
    e2 = e2
SPECIFICATION FairExecution
INVARIANTS
    CustodySound
    ExecutionSound
    ProviderCalledAtMostOnce
PROPERTIES
    CustodyKept
    CustodySpec
    DispatchSettles
    QueuedIsServed
