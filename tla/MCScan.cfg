SPECIFICATION Spec
CONSTANTS
    Chars <- MCChars
    OrdLength = 2
    Positions = 2
    VecBytes = 3
    MaxRanges = 1
    Patterns <- MCPatterns
    Texts <- MCTexts
    Samples = {0, 3}
INVARIANTS VectorExact RowsExtract MatchKept
PROPERTIES Terminates
CHECK_DEADLOCK FALSE
