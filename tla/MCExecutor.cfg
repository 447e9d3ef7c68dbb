SPECIFICATION Spec
CONSTANTS
    VecBytes = 3
    Bytes <- MCBytes
    Patterns <- MCPatterns
    Texts <- MCTexts
    Inputs <- MCInputs
INVARIANTS TypeOK ContextInv RowsInBuffer RowsInOrder
CHECK_DEADLOCK FALSE
