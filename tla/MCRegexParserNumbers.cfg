SPECIFICATION Spec
CONSTANTS
    Chars <- NumChars
    Charsets = {}
    Keywords = {"digit", "int", "double"}
    Names = {"x"}
    Counts = {2}
    MaxTokens = 2
    MaxLen = 6
INVARIANTS LanguageExact
CHECK_DEADLOCK FALSE
