SPECIFICATION FairEncode
CONSTANTS
    InitialCapacity = 2
    MaxString = 6
    KeyLengths <- MCKeyLengths
    Gaps <- MCGaps
    Letters <- MCLetters
    Specials <- MCSpecials
    Printables <- MCPrintables
    CodePoints <- MCCodePoints
INVARIANTS
    InBlock
    WholeOrFalse
    WellFormed
    HashKeepsAll
    ZigAgrees
PROPERTIES
    WritesEnd
