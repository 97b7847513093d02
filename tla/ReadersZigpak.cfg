SPECIFICATION Spec
CONSTANTS
    Readers <- SizeDroppers
    MaxCount = 2
    MaxDepth = 3
    Values <- MCValues
    Numbers <- MCNumbers
    Texts <- MCTexts
    Keys <- MCKeys
VIEW
    View
INVARIANTS
    HashesMatch
