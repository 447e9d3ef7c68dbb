CONSTANTS
    Lines <- MCLines
    Names <- MCNames
    Dotted <- MCDotted
    Patterns <- MCPatterns
    GroupsOf <- MCGroupsOf
    Columns <- MCColumns
    Declarations <- MCDeclarations
    MaxLines = 4
    NULL = NULL
    Unset = Unset
    NoQuery = NoQuery
SPECIFICATION Spec
INVARIANTS RunsExact ColumnsExact TreeTypesExact FaultsExplained
PROPERTIES QueryEnds
CHECK_DEADLOCK FALSE
