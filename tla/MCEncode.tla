------------------------------ MODULE MCEncode -------------------------------
EXTENDS Encode

\* One that fits a word, and one that doubles the buffer twice in a write.
MCKeyLengths == {2, 9}
MCGaps == {2, 9}
MCLetters == {97}
MCSpecials == {34}
MCPrintables == {126}
MCCodePoints == {161, 255}
=============================================================================
