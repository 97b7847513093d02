SPECIFICATION ParserSpec
CONSTANTS
    Slots = 4
    MaxNesting = 3
    MaxChildren = 3
INVARIANTS
    CountsMatch
    InBounds
    NeverCanceled
