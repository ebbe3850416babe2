\* Two turns, a stream and a resolution; two other writes.
CONSTANTS
    Turns = {t1, t2}
    Streams = {s1}
    Resolvers = {r1}
    MaxWrites = 2
    t1 = t1
    t2 = t2
    s1 = s1
    r1 = r1
SPECIFICATION FairChat
INVARIANTS
    TurnFollowsItsHistory
    ResolvedWhatWasSeen
    CapacityReleased
PROPERTIES
    TurnSettles
CHECK_DEADLOCK FALSE
