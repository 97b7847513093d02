SPECIFICATION FairSpec
CONSTANTS
    Opt = "Speed"
    Kept <- TwoReaders
    Targets <- BothTargets
    Workers = 2
    NoStep = NoStep
INVARIANTS
    DirFirst
    QueuedReadsWhole
    RowsInOrder
    SuccessMeansRows
PROPERTIES
    ImplementsRunQueue
    TargetsSettle
