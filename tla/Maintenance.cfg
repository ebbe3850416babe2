\* One writing model and the key without one: chunks of two turns, batches of two, two faults.
\* Deadlock: at the bounds on turns and faults an idle process has no step.
CONSTANTS
    Models <- OneModel
    NoModel = "none"
    Recent <- Window
    Watermark <- Mark
    ChunkSize = 2
    Width = 2
    Attempts = 2
    MaxTurns = 5
    MaxFaults = 2
SPECIFICATION FairMaint
CHECK_DEADLOCK FALSE
INVARIANTS
    PaidIsKept
    RequirementRemembered
PROPERTIES
    SummaryGrows
    AskedIsAnswered
