SPECIFICATION MatchSpec
CONSTANTS
    Chars <- MCChars
    Charsets = {}
    Keywords = {}
    Names = {"x"}
    Counts = {2}
    MaxTokens = 4
    MaxLen = 2
    MaxText = 5
INVARIANTS FirstMatchExact GroupStartExact GroupOpenExact
CHECK_DEADLOCK FALSE
