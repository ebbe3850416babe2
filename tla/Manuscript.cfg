\* Three nodes, one checkpoint, two failures.
CONSTANTS
    Nodes = {n1, n2, n3}
    Top = Top
    Snapshots = {k1}
    MaxFailures = 2
    n1 = n1
    n2 = n2
    n3 = n3
    k1 = k1
SPECIFICATION ManuscriptSpec
SYMMETRY Symmetry
INVARIANTS
    OutlineSound
    SnapshotsKept
PROPERTIES
    ReadingOrderKept
