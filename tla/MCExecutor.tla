----------------------------- MODULE MCExecutor -----------------------------
EXTENDS Executor

CONSTANTS Patterns, Texts

A == 97
B == 98
C == 99
MCBytes == {0, A, B, C}

R == INSTANCE RegexNfa WITH Chars <- Bytes

M == INSTANCE Compile WITH
        Chars <- Bytes, OrdLength <- 2, Positions <- 2, MaxRanges <- 1, Samples <- {0, 3}

\* The automata the patterns are compiled to, each on every text.
MCInputs == {[fa |-> s.fa, data |-> s.data] : s \in M!Scans}

Lit(s)        == [k \in 1..Len(s) |-> [nfa |-> R!CharNfa(s[k]), name |-> ""]]
Group(x, nfa) == <<[nfa |-> nfa, name |-> x]>>
Bs            == R!PlusNfa(R!CharNfa(B))
NotC          == R!PlusNfa(R!CharsetsNfa(R!NegateCharsets({C})))
Gap           == <<[nfa |-> R!StarNfa(R!WildcardNfa), name |-> ""]>>

MCPatterns == {<<p>> : p \in {
    Lit(<<A, B>>),
    Lit(<<A>>) \o Group("x", Bs),
    Group("x", R!CharNfa(A)),
    Group("x", NotC),
    Lit(<<A>>) \o Group("x", Bs) \o Lit(<<C>>) \o Group("y", Bs),
    Lit(<<A, B>>) \o Group("x", NotC) \o Lit(<<C>>),
    Lit(<<A>>) \o Group("x", Bs) \o Gap \o Lit(<<C>>) \o Group("y", R!PlusNfa(R!CharNfa(A))) }}

MCTexts == UNION {[1..k -> {A, B, C}] : k \in 0..6}
=============================================================================
