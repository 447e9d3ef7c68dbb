------------------------------- MODULE MCScan -------------------------------
EXTENDS Scan

A == 97
B == 98
C == 99
MCChars == {0, A, B, C}

Char(c)       == [nfa |-> CharNfa(c), name |-> NoName]
Lit(s)        == [k \in 1..Len(s) |-> Char(s[k])]
Group(x, nfa) == <<[nfa |-> nfa, name |-> x]>>
Not(S)        == CharsetsNfa(NegateCharsets(S))
Bs            == PlusNfa(CharNfa(B))
Gap           == <<[nfa |-> StarNfa(WildcardNfa), name |-> NoName]>>

\* A group with a stretch of plain text on each side.
Fields == {
    Lit(<<C, A>>) \o Group("x", Bs) \o Lit(<<C>>),
    Lit(<<A, B>>) \o Group("x", PlusNfa(Not({C}))) \o Lit(<<C>>),
    Lit(<<A>>) \o Group("x", Bs) \o Lit(<<C>>) \o Group("y", Bs) \o Lit(<<C>>),
    Lit(<<A>>) \o Group("x", Bs) \o Gap \o Lit(<<C>>) \o Group("y", PlusNfa(CharNfa(A))) }

\* a|c|c.*bb: behind the chain no character leads on.
Onward == <<[nfa |-> UnionNfa(UnionNfa(CharNfa(A), CharNfa(C)),
                              ConcatNfa(PatternNfa(Lit(<<C>>) \o Gap), PatternNfa(Lit(<<B, B>>)))),
             name |-> NoName]>>

\* A table of one pattern, and tables of two and three keys, short enough for
\* a row.
Single(S) == {<<p>> : p \in S}
Keys2 == {
    <<Lit(<<A>>) \o Group("x", CharNfa(B)), Lit(<<C>>)>>,
    <<Lit(<<A>>), Lit(<<C>>) \o Group("y", CharNfa(A))>> }
Keys3 == {<<Lit(<<A>>), Lit(<<C>>) \o Group("x", CharNfa(B)), Lit(<<A>>)>>}

MCPatterns == Single(Fields \cup {
    Lit(<<A, B>>), Lit(<<A, A, B>>), Lit(<<A, B, A, C>>),
    Lit(<<A>>) \o Group("x", Bs), Onward }) \cup Keys2 \cup Keys3

TextsUpTo(n) == UNION {[1..k -> {A, B, C}] : k \in 0..n}
\* All short texts, and longer ones for a row of three keys.
MCTexts == TextsUpTo(7) \cup {<<A>> \o s \o <<A, B>> : s \in [1..5 -> {A, B, C}]}

\* A group with a starred body, at the sizes of the code.
StarPatterns  == Single({Lit(<<C, A>>) \o Group("x", StarNfa(CharNfa(B))) \o Lit(<<C>>)})
StarTexts     == {<<C, A>> \o s : s \in TextsUpTo(4)}
=============================================================================
