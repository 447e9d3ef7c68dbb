SPECIFICATION Spec
CONSTANTS
    Chars <- MCChars
    Charsets <- MCCharsets
    Keywords = {"alph"}
    Names = {"x"}
    Counts = {1, 2, 3}
    MaxTokens = 4
    MaxLen = 4
INVARIANTS TypeOK ThompsonShape LanguageExact SearchExact GroupsInPlace
CHECK_DEADLOCK FALSE
