SPECIFICATION Spec
CONSTANTS
    KeyType <- MCKeyType
    Fragments <- ConstantText
    Window = 64
INVARIANTS TextExact
CHECK_DEADLOCK FALSE
