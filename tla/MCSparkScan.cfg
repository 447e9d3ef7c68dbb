SPECIFICATION Spec
CONSTANTS
    Chars <- MCChars
    OrdLength = 2
    Positions = 2
    MaxRanges = 1
    Samples = {0, 2}
    VecBytes = 3
    Patterns <- MCPatterns
    Texts <- MCTexts
    PartitionSize = 7
    StringSize = 1
    NumberSize = 2
    Garbage <- MCGarbage
    Inputs <- MCInputs
INVARIANTS BuffersExact FrameExact RowsFit Faultless
PROPERTIES IexecEnds
CHECK_DEADLOCK FALSE
