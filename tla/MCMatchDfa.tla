---- MODULE MCMatchDfa ----
EXTENDS MatchDfa
MCChars == {97, 98}
====
