\* As deployed: nothing raises ProviderDefinitiveFailure, and nothing fails
\* but the provider, with an error of its own.
CONSTANTS
    Projects = {p}
    ClientIds = {b1}
    Contents = {c}
    Responses = {x1, x2}
    Messages = {m}
    Null = Null
    MaxFallbacks = 1
    Executors = {e1, e2}
    DefinitiveFailures = FALSE
    MaxFaults = 0
    e1 = e1
    e2 = e2
SPECIFICATION ExecutionSpec
INVARIANTS
    RefusalIsKnown
SYMMETRY ExecutorSymmetry
