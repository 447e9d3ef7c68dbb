CONSTANTS
    MaxStatements = 2
    Limits = {0, 1, 5}
    MaxRows = 3
    Largest = 100
    Exact = 99
    Unset = 77
    Fresh = {FALSE, TRUE}
    XValues <- MCXValues
    Lowest <- MCLowest
    KeyType <- MCKeyType
    Rows <- MCRows
    Queries <- MCQueries
SPECIFICATION Spec
CHECK_DEADLOCK FALSE
INVARIANTS TypeOK GroupsExact CellsExact
PROPERTIES Implements QueryEnds
