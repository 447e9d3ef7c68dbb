SPECIFICATION Spec
CONSTANTS
    KeyType <- MCKeyType
    Fragments <- MCFragments
    Window = 3
INVARIANTS TypeOK ValuesExact WhereExact
CHECK_DEADLOCK FALSE
