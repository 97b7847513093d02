SPECIFICATION Spec
CONSTANTS
    Readers <- AllReaders
    MaxCount = 2
    MaxDepth = 3
    Values <- MCValues
    Numbers <- MCNumbers
    Texts <- MCTexts
    Keys <- MCKeys
VIEW
    View
INVARIANTS
    Agreement
    FaultSeen
PROPERTIES
    EarlyExit
