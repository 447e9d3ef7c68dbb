---------------------------- MODULE MCSparkScan ----------------------------
EXTENDS SparkScan

\* What the tables of the scans are compiled from, see Compile.
CONSTANTS Patterns, Texts, OrdLength, Positions, MaxRanges, Samples

M == INSTANCE Compile

\* The automata the patterns are compiled to, each on every text.
MCInputs ==
    {LET keys == M!TableKeys(s.keys)
     IN  [fa |-> s.fa, types |-> [g \in 1..Len(keys) |-> keys[g].type],
          file |-> s.data, sample |-> s.sample] : s \in M!Scans}

\* Two digits and a letter.
A == 49
B == 50
C == 99
MCChars == {0, A, B, C}

Char(c)       == [nfa |-> CharNfa(c), name |-> ""]
Lit(s)        == [k \in 1..Len(s) |-> Char(s[k])]
Group(x, nfa) == <<[nfa |-> nfa, name |-> x]>>
Bs            == PlusNfa(CharNfa(B))
As            == <<[nfa |-> PlusNfa(CharNfa(A)), name |-> ""]>>
Not(S)        == CharsetsNfa(NegateCharsets(S))
\* A group that need not take part.
Maybe(x, nfa) == <<[nfa |-> SelectNfa(SubmatchNfa(nfa, x)), name |-> ""]>>

\* a|c|c.*bb: behind the chain no character leads on.
Onward == <<[nfa |-> UnionNfa(UnionNfa(CharNfa(A), CharNfa(C)),
                              ConcatNfa(ConcatNfa(CharNfa(C), StarNfa(WildcardNfa)),
                                        ConcatNfa(CharNfa(B), CharNfa(B)))),
             name |-> ""]>>

MCPatterns == {<<p>> : p \in {
    Group("x", CharNfa(C)) \o As,
    Lit(<<A>>) \o Group("x", Bs) \o Lit(<<C>>) \o Group("y", Bs) \o Lit(<<A>>),
    Lit(<<A>>) \o Group("x", IntNfa) \o Lit(<<C>>),
    Lit(<<C, A>>) \o Group("x", Bs) \o Lit(<<C>>) \o Group("y", DigitNfa),
    Lit(<<A>>) \o Group("x", PlusNfa(Not({C}))) \o Lit(<<C>>),
    Lit(<<C>>) \o Maybe("x", DigitNfa) \o Group("y", CharNfa(A)) }}
    \cup {<<Onward, Group("x", CharNfa(B))>>}

Words(n) == [1..n -> {A, B, C}]

\* Up to one partition, two partitions with the same beginning and end, two of
\* which the first ends like a needle, and three that begin alike.
MCTexts == UNION {Words(k) : k \in 1..4} \cup {<<C, A>> \o s : s \in Words(5)}
           \cup {<<C, A>> \o s \o <<A, C, C>> : s \in Words(6)}
           \cup {<<C, A, A, A, A, B, B, A>> \o s \o <<A, A, A>> : s \in Words(2)}
           \cup {<<C, A>> \o s \o <<A, C, C, A>> \o s \o <<A, C, C, A>> : s \in Words(4)}

MCGarbage == {0, 99}
=============================================================================
