SPECIFICATION Spec
CONSTANTS
    Chars <- MCChars
    OrdLength = 4
    Positions = 4
    VecBytes = 16
    MaxRanges = 8
    Patterns <- StarPatterns
    Texts <- StarTexts
    Samples = {0}
INVARIANTS RowsExtract
CHECK_DEADLOCK FALSE
