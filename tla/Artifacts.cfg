\* One artifact, two editors, three revisions, two operations cut short.
CONSTANTS
    ArtifactIds = {a1}
    Texts = {x, y}
    Tabs = {e1, e2}
    Null = Null
    MaxVersion = 3
    MaxFaults = 2

SPECIFICATION ArtifactsSpec

\* The ids are used once: after the artifact was deleted nothing is left to do.
CHECK_DEADLOCK FALSE
INVARIANTS
    RevisionsReadable
    DraftNotLost
PROPERTIES
    HistoryKept
    EditsWhatItSaw
