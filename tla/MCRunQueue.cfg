SPECIFICATION FairSpec
CONSTANTS
    r1 = r1
    r2 = r2
    r3 = r3
    e1 = e1
    e2 = e2
    e3 = e3
    d = d
    x = x
    q = q
    NoStep = NoStep
    Steps <- MCSteps
    Queue <- MCQueue
    QueueStep = q
    Uses <- MCUses
    Wanted <- MCWanted
    Workers <- MCWorkers
INVARIANTS
    Exclusive
    InOrder
    StandsForAll
PROPERTIES
    RunsInOrder
    EverySettles
