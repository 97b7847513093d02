SPECIFICATION Spec
CONSTANTS
    Writers <- AllWriters
    MaxCount = 2
    MaxDepth = 3
INVARIANTS
    WholeOrFalse
    AllFreed
PROPERTIES
    ExitsEarly
