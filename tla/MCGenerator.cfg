SPECIFICATION Spec
CONSTANTS
    Size = 0
    LengthBase = 3
    DepthLimit = 3
    k1 = k1
    k2 = k2
    Keys <- MCKeys
    KeyLength <- MCKeyLength
    StrLengths <- MCStrLengths
    SizeofObject = 4
    Alignment = 2
    MaxContents = 42
INVARIANTS
    TypeOK
    FitsChunk
    DepthFirstCopy
    FreedOnce
    UniqueKeys
