SPECIFICATION FairProcess
CONSTANTS
    CommandLines <- MCCommandLines
    WorkTime = 5
    MaxRun = 2
    FirstBatch = 2
    Growth = 2
    MemoryCount = 4
    Programs <- MCPrograms
INVARIANTS
    Measured
    FixtureHeld
    HeapBalanced
    ParsesPristine
PROPERTIES
    ImplementsBenchRun
    Terminates
