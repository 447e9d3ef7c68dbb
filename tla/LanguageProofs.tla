--------------------------- MODULE LanguageProofs ---------------------------
(***************************************************************************)
(* What the automata of the regex parser accept, for every alphabet, every *)
(* pattern and every length of the words: the proofs.                      *)
(***************************************************************************)
EXTENDS RegexProofs, FiniteSetTheorems

----------------------------------------------------------------------------
\* Texts.

Texts == Seq(Chars)

\* The text after a transition labelled c.
Read(w, c) == IF c = EPSILON THEN w ELSE Append(w, c)

\* The words of L followed by the words of M.
Joined(L, M) == {u \o v : u \in L, v \in M}

\* A set that has every join of a word of L and a word of M has them all.
LEMMA JoinedIn ==
    ASSUME NEW L, NEW M, NEW S, \A u \in L, v \in M : u \o v \in S
    PROVE  Joined(L, M) \subseteq S
<1> SUFFICES ASSUME NEW w \in Joined(L, M) PROVE w \in S
    OBVIOUS
<1>1. PICK u \in L, v \in M : w = u \o v
    BY DEF Joined
<1> QED BY <1>1

\* The empty text, and the length of a text.
LEMMA TextFacts ==
    /\ <<>> \in Texts /\ Len(<<>>) = 0
    /\ \A w \in Texts : /\ Len(w) \in Nat /\ (Len(w) = 0 <=> w = <<>>)
                        /\ w \o <<>> = w /\ <<>> \o w = w
<1>1. <<>> \in Texts /\ Len(<<>>) = 0
    BY EmptySeq DEF Texts
<1>2. ASSUME NEW w \in Texts
      PROVE  /\ Len(w) \in Nat /\ (Len(w) = 0 <=> w = <<>>)
             /\ w \o <<>> = w /\ <<>> \o w = w
    <2>1. w \in Seq(Chars)
        BY DEF Texts
    <2>2. w \o <<>> = w /\ <<>> \o w = w
        BY <2>1, ConcatEmptySeq
    <2>3. Len(w) \in Nat /\ (w # <<>> => Len(w) \in Nat \ {0})
        BY <2>1, EmptySeq
    <2> QED BY <1>1, <2>2, <2>3
<1> QED BY <1>1, <1>2

\* Two texts in a row.
LEMMA JoinFacts ==
    ASSUME NEW u \in Texts, NEW v \in Texts
    PROVE  /\ u \o v \in Texts /\ Len(u \o v) = Len(u) + Len(v)
           /\ \A w \in Texts : (u \o v) \o w = u \o (v \o w)
<1>1. u \in Seq(Chars) /\ v \in Seq(Chars)
    BY DEF Texts
<1>2. u \o v \in Seq(Chars) /\ Len(u \o v) = Len(u) + Len(v)
    BY <1>1, ConcatProperties
<1>3. ASSUME NEW w \in Texts
      PROVE  (u \o v) \o w = u \o (v \o w)
    <2>1. w \in Seq(Chars)
        BY DEF Texts
    <2> QED BY <1>1, <2>1, ConcatAssociative
<1> QED BY <1>2, <1>3 DEF Texts

\* A transition is taken after u as it is taken after nothing.
LEMMA ReadFacts ==
    ASSUME NEW w \in Texts, NEW c \in Chars \cup {EPSILON}
    PROVE  /\ Read(w, c) \in Texts
           /\ Read(w, EPSILON) = w
           /\ c \in Chars => Read(w, c) = Append(w, c)
           /\ \A u \in Texts : Read(u \o w, c) = u \o Read(w, c)
<1>1. EPSILON \notin Chars
    BY CharsAssumption DEF EPSILON
<1>2. CASE c = EPSILON
    BY <1>1, <1>2 DEF Read
<1>3. CASE c # EPSILON
    <2>1. c \in Chars /\ Read(w, c) = Append(w, c) /\ w \in Seq(Chars)
        BY <1>3 DEF Read, Texts
    <2>2. Append(w, c) \in Seq(Chars) /\ Append(w, c) = w \o <<c>>
        BY <2>1, AppendProperties, AppendIsConcat
    <2>3. ASSUME NEW u \in Texts
          PROVE  Read(u \o w, c) = u \o Read(w, c)
        <3>1. <<c>> \in Texts
            BY <2>1 DEF Texts
        <3>2. u \o w \in Seq(Chars) /\ (u \o w) \o <<c>> = u \o (w \o <<c>>)
            BY <3>1, JoinFacts DEF Texts
        <3>3. Append(u \o w, c) = (u \o w) \o <<c>>
            BY <2>1, <3>2, AppendIsConcat
        <3> QED BY <1>3, <2>1, <2>2, <3>2, <3>3 DEF Read
    <2>4. Read(w, EPSILON) = w
        BY DEF Read
    <2> QED BY <2>1, <2>2, <2>3, <2>4 DEF Texts
<1> QED BY <1>2, <1>3

\* Two languages in a row; the empty text makes no difference to the other one.
LEMMA JoinedFacts ==
    ASSUME NEW L \in SUBSET Texts, NEW M \in SUBSET Texts
    PROVE  /\ Joined(L, M) \in SUBSET Texts
           /\ \A u \in L, v \in M : u \o v \in Joined(L, M)
           /\ Joined({<<>>}, M) = M
           /\ <<>> \in M => L \subseteq Joined(L, M)
           /\ <<>> \in L => M \subseteq Joined(L, M)
<1>1. Joined(L, M) \in SUBSET Texts
    <2>1. \A u \in L, v \in M : u \in Texts /\ v \in Texts
        OBVIOUS
    <2>2. \A u \in L, v \in M : u \o v \in Texts
        BY <2>1, JoinFacts
    <2> QED BY <2>2, JoinedIn
<1>2. \A u \in L, v \in M : u \o v \in Joined(L, M)
    BY DEF Joined
<1>3. \A w \in Texts : w \o <<>> = w /\ <<>> \o w = w
    BY TextFacts
<1>4. Joined({<<>>}, M) = M
    BY <1>3 DEF Joined
<1>5. <<>> \in M => L \subseteq Joined(L, M)
    BY <1>2, <1>3
<1>6. <<>> \in L => M \subseteq Joined(L, M)
    BY <1>2, <1>3
<1> QED BY <1>1, <1>2, <1>4, <1>5, <1>6

----------------------------------------------------------------------------
\* What an automaton reads.

\* A set of texts for every state.
Families == [Nat -> SUBSET Texts]

\* R allows for the empty text in the initial state, and for every transition.
Follows(n, R) ==
    /\ <<>> \in R[n.init]
    /\ \A t \in n.trans : \A w \in R[t[1]] : Read(w, t[2]) \in R[t[3]]

\* The texts that lead from the initial state of n to q: the least family that
\* follows n.
Before(n, q) == {w \in Texts : \A R \in Families : Follows(n, R) => w \in R[q]}

\* The texts that n accepts.
Lang(n) == Before(n, n.accept)

\* Every family that follows n has at least the texts that lead to each state.
LEMMA BeforeLeast ==
    ASSUME NEW n, NEW R \in Families, Follows(n, R), NEW q
    PROVE  Before(n, q) \subseteq R[q]
BY DEF Before

\* What leads to a state are texts.
LEMMA BeforeTexts ==
    ASSUME NEW n, NEW q
    PROVE  Before(n, q) \in SUBSET Texts
BY DEF Before

\* The least family follows n itself.
LEMMA BeforeFollows ==
    ASSUME NEW n \in Sound
    PROVE  /\ <<>> \in Before(n, n.init)
           /\ \A t \in n.trans : \A w \in Before(n, t[1]) : Read(w, t[2]) \in Before(n, t[3])
<1>1. <<>> \in Before(n, n.init)
    BY TextFacts DEF Before, Follows
<1>2. ASSUME NEW t \in n.trans, NEW w \in Before(n, t[1])
      PROVE  Read(w, t[2]) \in Before(n, t[3])
    <2>1. w \in Texts /\ t[2] \in Chars \cup {EPSILON}
        BY SoundFacts DEF Before
    <2>2. Read(w, t[2]) \in Texts
        BY <2>1, ReadFacts
    <2>3. ASSUME NEW R \in Families, Follows(n, R)
          PROVE  Read(w, t[2]) \in R[t[3]]
        BY <2>3 DEF Before, Follows
    <2> QED BY <2>2, <2>3 DEF Before
<1> QED BY <1>1, <1>2

\* A text leads to states of the automaton only.
LEMMA BeforeRange ==
    ASSUME NEW n \in Sound, NEW q \in Nat, NEW w \in Before(n, q)
    PROVE  q < n.size
<1> DEFINE R == [p \in Nat |-> IF p < n.size THEN Texts ELSE {}]
<1>1. R \in Families
    BY DEF Families
<1>2. Follows(n, R)
    <2>1. n.init \in Nat /\ n.init < n.size
        BY SoundFacts
    <2>2. <<>> \in R[n.init]
        BY <2>1, TextFacts
    <2>3. ASSUME NEW t \in n.trans, NEW v \in R[t[1]]
          PROVE  Read(v, t[2]) \in R[t[3]]
        <3>1. /\ t[1] \in Nat /\ t[3] \in Nat /\ t[2] \in Chars \cup {EPSILON}
              /\ Fits(t, n.init, n.accept, n.size)
            BY SoundFacts
        <3>2. v \in Texts
            BY <2>3, <3>1
        <3>3. Read(v, t[2]) \in Texts
            BY <3>1, <3>2, ReadFacts
        <3> QED BY <3>1, <3>3 DEF Fits
    <2> HIDE DEF R
    <2> QED BY <2>2, <2>3 DEF Follows
<1>3. w \in R[q]
    <2> HIDE DEF R
    <2> QED BY <1>1, <1>2, BeforeLeast
<1> QED BY <1>3

\* An automaton that has the transitions of n moved to k, and that the texts
\* of L lead to the moved initial state of, reads what n reads after them.
LEMMA Embedded ==
    ASSUME NEW n \in Sound, NEW m \in Sound, NEW k \in Nat, NEW L \in SUBSET Texts,
           ShiftTrans(n.trans, k) \subseteq m.trans, L \subseteq Before(m, k + n.init),
           NEW q \in Nat
    PROVE  Joined(L, Before(n, q)) \subseteq Before(m, k + q)
<1> DEFINE R == [p \in Nat |-> {v \in Texts : \A u \in L : u \o v \in Before(m, k + p)}]
<1>1. R \in Families
    BY DEF Families
<1>2. Follows(n, R)
    <2>1. n.init \in Nat
        BY SoundFacts
    <2>2. <<>> \in R[n.init]
        <3>1. \A u \in L : u \o <<>> = u
            BY TextFacts
        <3> QED BY <2>1, <3>1, TextFacts
    <2>3. ASSUME NEW t \in n.trans, NEW v \in R[t[1]]
          PROVE  Read(v, t[2]) \in R[t[3]]
        <3>1. t[1] \in Nat /\ t[3] \in Nat /\ t[2] \in Chars \cup {EPSILON}
            BY SoundFacts
        <3>2. v \in Texts /\ \A u \in L : u \o v \in Before(m, k + t[1])
            BY <2>3, <3>1
        <3>3. Read(v, t[2]) \in Texts /\ \A u \in L : Read(u \o v, t[2]) = u \o Read(v, t[2])
            BY <3>1, <3>2, ReadFacts
        <3> DEFINE s == <<t[1] + k, t[2], t[3] + k>>
        <3>4. s \in m.trans /\ s[1] = k + t[1] /\ s[2] = t[2] /\ s[3] = k + t[3]
            BY <3>1 DEF ShiftTrans
        <3> HIDE DEF s
        <3>5. \A u \in L : Read(u \o v, t[2]) \in Before(m, k + t[3])
            BY <3>2, <3>4, BeforeFollows
        <3> QED BY <3>1, <3>3, <3>5
    <2> HIDE DEF R
    <2> QED BY <2>2, <2>3 DEF Follows
<1>3. Before(n, q) \subseteq R[q]
    <2> HIDE DEF R
    <2> QED BY <1>1, <1>2, BeforeLeast
<1>4. ASSUME NEW u \in L, NEW v \in Before(n, q)
      PROVE  u \o v \in Before(m, k + q)
    BY <1>3
<1> QED BY <1>4, JoinedIn

\* Transitions moved by nothing.
LEMMA Unmoved ==
    ASSUME NEW n \in Sound
    PROVE  ShiftTrans(n.trans, 0) = n.trans
<1>1. ASSUME NEW t \in n.trans
      PROVE  <<t[1] + 0, t[2], t[3] + 0>> = t
    <2>1. t \in Edges
        BY DEF Sound, NfaType
    <2> QED BY <2>1 DEF Edges
<1> QED BY <1>1 DEF ShiftTrans

\* The same without moving the transitions and after no text.
LEMMA Included ==
    ASSUME NEW n \in Sound, NEW m \in Sound, n.trans \subseteq m.trans,
           <<>> \in Before(m, n.init), NEW q \in Nat
    PROVE  Before(n, q) \subseteq Before(m, q)
<1>1. ShiftTrans(n.trans, 0) \subseteq m.trans
    BY Unmoved
<1>2. n.init \in Nat /\ 0 + n.init = n.init /\ 0 + q = q
    BY SoundFacts
<1>3. {<<>>} \in SUBSET Texts /\ Before(n, q) \in SUBSET Texts
    BY TextFacts, BeforeTexts
<1>4. Joined({<<>>}, Before(n, q)) \subseteq Before(m, 0 + q)
    <2>1. {<<>>} \subseteq Before(m, 0 + n.init)
        BY <1>2
    <2> QED BY <1>1, <1>3, <2>1, Embedded
<1> QED BY <1>2, <1>3, <1>4, JoinedFacts

----------------------------------------------------------------------------
\* What the builders make of what their operands accept.

\* One step.
LEMMA StepReads ==
    ASSUME NEW S \in SUBSET Chars, NEW type \in PatternTypes
    PROVE  Lang(StepNfa(S, type)) = {<<c>> : c \in S}
<1> DEFINE m == StepNfa(S, type)
           M == {<<c>> : c \in S}
           R == [q \in Nat |-> IF q = 0 THEN {<<>>} ELSE IF q = 1 THEN M ELSE {}]
<1>1. m.init = 0 /\ m.accept = 1 /\ m.trans = {<<0, c, 1>> : c \in S}
    BY DEF StepNfa, Nfa
<1>2. ASSUME NEW c \in S
      PROVE  /\ Read(<<>>, c) = <<c>>
             /\ <<0, c, 1>>[1] = 0 /\ <<0, c, 1>>[2] = c /\ <<0, c, 1>>[3] = 1
    <2>1. Append(<<>>, c) = <<c>>
        OBVIOUS
    <2> QED BY <2>1, TextFacts, ReadFacts
<1>3. M \in SUBSET Texts
    <2>1. \A c \in S : <<c>> \in Seq(Chars)
        OBVIOUS
    <2> QED BY <2>1 DEF Texts
<1>4. m \in Sound
    BY StepSound
<1> HIDE DEF m, M
<1>5. R \in Families
    BY <1>3, TextFacts DEF Families
<1>6. Follows(m, R)
    <2>1. <<>> \in R[m.init]
        BY <1>1
    <2>2. ASSUME NEW t \in m.trans, NEW w \in R[t[1]]
          PROVE  Read(w, t[2]) \in R[t[3]]
        <3>1. PICK c \in S : t = <<0, c, 1>>
            BY <1>1
        <3>2. t[1] = 0 /\ t[2] = c /\ t[3] = 1
            BY <3>1
        <3>3. w = <<>>
            BY <3>2
        <3>4. <<c>> \in M
            BY DEF M
        <3> QED BY <1>2, <3>2, <3>3, <3>4
    <2> HIDE DEF R
    <2> QED BY <2>1, <2>2 DEF Follows
<1>7. Before(m, 1) \subseteq M
    <2>1. Before(m, 1) \subseteq R[1]
        <3> HIDE DEF R
        <3> QED BY <1>5, <1>6, BeforeLeast
    <2> QED BY <2>1
<1>8. ASSUME NEW c \in S
      PROVE  <<c>> \in Before(m, 1)
    <2> DEFINE t == <<0, c, 1>>
    <2>1. t \in m.trans /\ t[1] = 0 /\ t[2] = c /\ t[3] = 1
        BY <1>1
    <2> HIDE DEF t
    <2>2. <<>> \in Before(m, t[1])
        BY <1>1, <1>4, <2>1, BeforeFollows
    <2>3. Read(<<>>, t[2]) \in Before(m, t[3])
        BY <1>4, <2>1, <2>2, BeforeFollows
    <2> QED BY <1>2, <2>1, <2>3
<1>9. M \subseteq Before(m, 1)
    BY <1>8 DEF M
<1> QED BY <1>1, <1>7, <1>9 DEF Lang, m, M

\* An epsilon passes a text on.
LEMMA Passed ==
    ASSUME NEW m \in Sound, NEW a \in Nat, NEW b \in Nat, <<a, EPSILON, b>> \in m.trans
    PROVE  Before(m, a) \subseteq Before(m, b)
<1> DEFINE t == <<a, EPSILON, b>>
<1>1. t \in m.trans /\ t[1] = a /\ t[2] = EPSILON /\ t[3] = b
    OBVIOUS
<1> HIDE DEF t
<1>2. \A w \in Before(m, a) : Read(w, EPSILON) \in Before(m, b)
    BY <1>1, BeforeFollows
<1> QED BY <1>2 DEF Read

\* The transitions of an operand, one by one.
LEMMA Moved ==
    ASSUME NEW n \in Sound, NEW k \in Nat, NEW t \in ShiftTrans(n.trans, k)
    PROVE  \E u \in n.trans : /\ t[1] = k + u[1] /\ t[2] = u[2] /\ t[3] = k + u[3]
                              /\ u[1] \in Nat /\ u[3] \in Nat /\ u[2] \in Chars \cup {EPSILON}
                              /\ u[1] < n.size /\ u[3] < n.size
<1>1. PICK u \in n.trans : t = <<u[1] + k, u[2], u[3] + k>>
    BY DEF ShiftTrans
<1>2. u[1] \in Nat /\ u[3] \in Nat /\ u[2] \in Chars \cup {EPSILON} /\ Fits(u, n.init, n.accept, n.size)
    BY SoundFacts
<1>3. t[1] = k + u[1] /\ t[2] = u[2] /\ t[3] = k + u[3]
    BY <1>1, <1>2
<1> QED BY <1>2, <1>3 DEF Fits

\* A transition of an operand, after a text of L.
LEMMA JoinedRead ==
    ASSUME NEW n \in Sound, NEW L \in SUBSET Texts, NEW t \in n.trans,
           NEW w \in Joined(L, Before(n, t[1]))
    PROVE  Read(w, t[2]) \in Joined(L, Before(n, t[3]))
<1>1. PICK u \in L, v \in Before(n, t[1]) : w = u \o v
    BY DEF Joined
<1>2. u \in Texts /\ v \in Texts /\ t[2] \in Chars \cup {EPSILON}
    BY SoundFacts, BeforeTexts
<1>3. Read(w, t[2]) = u \o Read(v, t[2])
    BY <1>1, <1>2, ReadFacts
<1>4. Read(v, t[2]) \in Before(n, t[3])
    BY BeforeFollows
<1> DEFINE x == Read(v, t[2])
           M == Before(n, t[3])
<1>5. x \in M /\ Read(w, t[2]) = u \o x
    BY <1>3, <1>4
<1> HIDE DEF x, M
<1>6. u \o x \in Joined(L, M)
    BY <1>5 DEF Joined
<1> QED BY <1>5, <1>6 DEF M

\* concat: the states of the left operand are reached as before, those of the
\* right one after the texts of the left one.
LEMMA ConcatReads ==
    ASSUME NEW n1 \in Sound, NEW n2 \in Sound
    PROVE  /\ \A q \in Nat : q < n1.size => Before(ConcatNfa(n1, n2), q) = Before(n1, q)
           /\ \A q \in Nat : Before(ConcatNfa(n1, n2), n1.size + q) = Joined(Lang(n1), Before(n2, q))
           /\ Lang(ConcatNfa(n1, n2)) = Joined(Lang(n1), Lang(n2))
<1> DEFINE m == ConcatNfa(n1, n2)
           k == n1.size
           L == Lang(n1)
           R == [q \in Nat |-> IF q < k THEN Before(n1, q) ELSE Joined(L, Before(n2, q - k))]
<1>1. /\ n1.init \in Nat /\ n1.accept \in Nat /\ k \in Nat
      /\ n1.init < k /\ n1.accept < k
      /\ n2.init \in Nat /\ n2.accept \in Nat
    BY SoundFacts
<1>2. /\ m.init = n1.init /\ m.accept = k + n2.accept
      /\ m.trans = n1.trans \cup ShiftTrans(n2.trans, k) \cup {<<n1.accept, EPSILON, k + n2.init>>}
    BY DEF ConcatNfa, Nfa
<1>3. m \in Sound
    BY ConcatSound
<1>4. L \in SUBSET Texts /\ \A q : Before(n2, q) \in SUBSET Texts
    BY BeforeTexts DEF Lang
<1> HIDE DEF m, k
<1>5. R \in Families
    <2>1. \A q : Joined(L, Before(n2, q)) \in SUBSET Texts
        <3> HIDE DEF L
        <3> QED BY <1>4, JoinedFacts
    <2> HIDE DEF L
    <2> QED BY <2>1, BeforeTexts DEF Families
<1>6. Follows(m, R)
    <2>1. <<>> \in R[m.init]
        BY <1>1, <1>2, BeforeFollows
    <2>2. ASSUME NEW t \in m.trans, NEW w \in R[t[1]]
          PROVE  Read(w, t[2]) \in R[t[3]]
        <3>1. CASE t \in n1.trans
            <4>1. t[1] \in Nat /\ t[3] \in Nat /\ Fits(t, n1.init, n1.accept, k)
                BY <3>1, SoundFacts DEF k
            <4>2. R[t[1]] = Before(n1, t[1]) /\ R[t[3]] = Before(n1, t[3])
                BY <4>1 DEF Fits
            <4> HIDE DEF R
            <4> QED BY <3>1, <4>2, BeforeFollows
        <3>2. CASE t \in ShiftTrans(n2.trans, k)
            <4>1. PICK u \in n2.trans : /\ t[1] = k + u[1] /\ t[2] = u[2] /\ t[3] = k + u[3]
                                        /\ u[1] \in Nat /\ u[3] \in Nat
                BY <1>1, <3>2, Moved
            <4>2. /\ t[1] \in Nat /\ ~(t[1] < k) /\ t[1] - k = u[1]
                  /\ t[3] \in Nat /\ ~(t[3] < k) /\ t[3] - k = u[3]
                BY <1>1, <4>1
            <4>3. R[t[1]] = Joined(L, Before(n2, u[1])) /\ R[t[3]] = Joined(L, Before(n2, u[3]))
                BY <4>2
            <4> HIDE DEF R, L
            <4> QED BY <1>4, <4>1, <4>3, JoinedRead
        <3>3. CASE t = <<n1.accept, EPSILON, k + n2.init>>
            <4>1. t[1] = n1.accept /\ t[2] = EPSILON /\ t[3] = k + n2.init
                BY <3>3
            <4>2. t[3] \in Nat /\ ~(t[3] < k) /\ t[3] - k = n2.init
                BY <1>1, <4>1
            <4>3. R[t[1]] = L /\ R[t[3]] = Joined(L, Before(n2, n2.init))
                BY <1>1, <4>1, <4>2 DEF Lang
            <4> HIDE DEF R, L
            <4>4. L \subseteq Joined(L, Before(n2, n2.init))
                BY <1>4, BeforeFollows, JoinedFacts
            <4> QED BY <4>1, <4>3, <4>4 DEF Read
        <3> QED BY <1>2, <3>1, <3>2, <3>3
    <2> HIDE DEF R
    <2> QED BY <2>1, <2>2 DEF Follows
<1>7. \A q : Before(m, q) \subseteq R[q]
    <2> HIDE DEF R
    <2> QED BY <1>5, <1>6, BeforeLeast
<1>8. ASSUME NEW q \in Nat
      PROVE  Before(n1, q) \subseteq Before(m, q)
    BY <1>2, <1>3, BeforeFollows, Included
<1>9. ASSUME NEW q \in Nat
      PROVE  Joined(L, Before(n2, q)) \subseteq Before(m, k + q)
    <2>1. L \subseteq Before(m, n1.accept)
        BY <1>1, <1>8 DEF Lang
    <2>2. Before(m, n1.accept) \subseteq Before(m, k + n2.init)
        <3>1. k + n2.init \in Nat
            BY <1>1
        <3> QED BY <1>1, <1>2, <1>3, <3>1, Passed
    <2> HIDE DEF L
    <2> QED BY <1>1, <1>2, <1>3, <1>4, <2>1, <2>2, Embedded
<1>10. ASSUME NEW q \in Nat
       PROVE  /\ q < k => Before(m, q) = Before(n1, q)
              /\ Before(m, k + q) = Joined(L, Before(n2, q))
    <2>1. q < k => R[q] = Before(n1, q)
        OBVIOUS
    <2>2. k + q \in Nat /\ ~(k + q < k) /\ (k + q) - k = q
        BY <1>1
    <2>3. R[k + q] = Joined(L, Before(n2, q))
        BY <2>2
    <2> HIDE DEF R, L
    <2> QED BY <1>7, <1>8, <1>9, <2>1, <2>3
<1>11. Lang(m) = Joined(L, Lang(n2))
    BY <1>1, <1>2, <1>10 DEF Lang
<1> QED BY <1>10, <1>11 DEF m, k

\* union: both operands are entered from the new initial state and left to the
\* new accepting one.
LEMMA UnionReads ==
    ASSUME NEW n1 \in Sound, NEW n2 \in Sound
    PROVE  Lang(UnionNfa(n1, n2)) = Lang(n1) \cup Lang(n2)
<1> DEFINE m == UnionNfa(n1, n2)
           s == n1.size
           k == n1.size + 1
           acc == n1.size + n2.size + 1
           R == [q \in Nat |-> IF q = 0 THEN {<<>>}
                               ELSE IF q = acc THEN Lang(n1) \cup Lang(n2)
                               ELSE IF q < k THEN Before(n1, q - 1)
                               ELSE Before(n2, q - k)]
<1>1. /\ n1.init \in Nat /\ n1.accept \in Nat /\ s \in Nat /\ n1.init < s /\ n1.accept < s
      /\ n2.init \in Nat /\ n2.accept \in Nat /\ n2.size \in Nat
      /\ n2.init < n2.size /\ n2.accept < n2.size
      /\ k = s + 1 /\ acc = s + n2.size + 1 /\ k \in Nat /\ acc \in Nat
    BY SoundFacts
<1>2. /\ m.init = 0 /\ m.accept = acc
      /\ m.trans = ShiftTrans(n1.trans, 1) \cup ShiftTrans(n2.trans, k)
                     \cup {<<0, EPSILON, n1.init + 1>>, <<n1.accept + 1, EPSILON, acc>>,
                           <<0, EPSILON, n2.init + k>>, <<n2.accept + k, EPSILON, acc>>}
    BY DEF UnionNfa, Nfa
<1>3. m \in Sound
    BY UnionSound
<1>4. s = n1.size
    OBVIOUS
<1> HIDE DEF m, s, k, acc
\* The places of the operands' states.
<1>5. ASSUME NEW q \in Nat
      PROVE  /\ q < s => /\ 1 + q \in Nat /\ 1 + q # 0 /\ 1 + q # acc /\ 1 + q < k /\ (1 + q) - 1 = q
                         /\ R[1 + q] = Before(n1, q)
             /\ q < n2.size => /\ k + q \in Nat /\ k + q # 0 /\ k + q # acc /\ ~(k + q < k)
                               /\ (k + q) - k = q /\ R[k + q] = Before(n2, q)
    <2>1. q < s => 1 + q \in Nat /\ 1 + q # 0 /\ 1 + q # acc /\ 1 + q < k /\ (1 + q) - 1 = q
        BY <1>1
    <2>2. q < n2.size => /\ k + q \in Nat /\ k + q # 0 /\ k + q # acc /\ ~(k + q < k)
                         /\ (k + q) - k = q
        BY <1>1
    <2> QED BY <2>1, <2>2
<1>6. R[0] = {<<>>} /\ R[acc] = Lang(n1) \cup Lang(n2)
    BY <1>1
<1>7. R \in Families
    BY BeforeTexts, TextFacts DEF Families, Lang
<1>8. Follows(m, R)
    <2>1. <<>> \in R[m.init]
        BY <1>2, <1>6
    <2>2. ASSUME NEW t \in m.trans, NEW w \in R[t[1]]
          PROVE  Read(w, t[2]) \in R[t[3]]
        <3>1. CASE t \in ShiftTrans(n1.trans, 1)
            <4>1. PICK u \in n1.trans : /\ t[1] = 1 + u[1] /\ t[2] = u[2] /\ t[3] = 1 + u[3]
                                        /\ u[1] \in Nat /\ u[3] \in Nat /\ u[1] < s /\ u[3] < s
                BY <1>4, <3>1, Moved
            <4>2. R[t[1]] = Before(n1, u[1]) /\ R[t[3]] = Before(n1, u[3])
                BY <1>5, <4>1
            <4> HIDE DEF R
            <4> QED BY <4>1, <4>2, BeforeFollows
        <3>2. CASE t \in ShiftTrans(n2.trans, k)
            <4>1. PICK u \in n2.trans : /\ t[1] = k + u[1] /\ t[2] = u[2] /\ t[3] = k + u[3]
                                        /\ u[1] \in Nat /\ u[3] \in Nat
                                        /\ u[1] < n2.size /\ u[3] < n2.size
                BY <1>1, <3>2, Moved
            <4>2. R[t[1]] = Before(n2, u[1]) /\ R[t[3]] = Before(n2, u[3])
                BY <1>5, <4>1
            <4> HIDE DEF R
            <4> QED BY <4>1, <4>2, BeforeFollows
        <3>3. CASE t = <<0, EPSILON, n1.init + 1>>
            <4>1. t[1] = 0 /\ t[2] = EPSILON /\ t[3] = 1 + n1.init
                BY <1>1, <3>3
            <4>2. R[t[1]] = {<<>>} /\ R[t[3]] = Before(n1, n1.init)
                BY <1>1, <1>5, <1>6, <4>1
            <4> HIDE DEF R
            <4> QED BY <4>1, <4>2, BeforeFollows DEF Read
        <3>4. CASE t = <<0, EPSILON, n2.init + k>>
            <4>1. t[1] = 0 /\ t[2] = EPSILON /\ t[3] = k + n2.init
                BY <1>1, <3>4
            <4>2. R[t[1]] = {<<>>} /\ R[t[3]] = Before(n2, n2.init)
                BY <1>1, <1>5, <1>6, <4>1
            <4> HIDE DEF R
            <4> QED BY <4>1, <4>2, BeforeFollows DEF Read
        <3>5. CASE t = <<n1.accept + 1, EPSILON, acc>>
            <4>1. t[1] = 1 + n1.accept /\ t[2] = EPSILON /\ t[3] = acc
                BY <1>1, <3>5
            <4>2. R[t[1]] = Lang(n1) /\ R[t[3]] = Lang(n1) \cup Lang(n2)
                BY <1>1, <1>5, <1>6, <4>1 DEF Lang
            <4> HIDE DEF R
            <4> QED BY <4>1, <4>2 DEF Read
        <3>6. CASE t = <<n2.accept + k, EPSILON, acc>>
            <4>1. t[1] = k + n2.accept /\ t[2] = EPSILON /\ t[3] = acc
                BY <1>1, <3>6
            <4>2. R[t[1]] = Lang(n2) /\ R[t[3]] = Lang(n1) \cup Lang(n2)
                BY <1>1, <1>5, <1>6, <4>1 DEF Lang
            <4> HIDE DEF R
            <4> QED BY <4>1, <4>2 DEF Read
        <3> QED BY <1>2, <3>1, <3>2, <3>3, <3>4, <3>5, <3>6
    <2> HIDE DEF R
    <2> QED BY <2>1, <2>2 DEF Follows
<1>9. Before(m, acc) \subseteq Lang(n1) \cup Lang(n2)
    <2> HIDE DEF R
    <2>1. Before(m, acc) \subseteq R[acc]
        BY <1>7, <1>8, BeforeLeast
    <2> QED BY <1>6, <2>1
\* An operand behind an epsilon from the initial state and before one to acc.
<1>10. ASSUME NEW n \in Sound, NEW j \in Nat, ShiftTrans(n.trans, j) \subseteq m.trans,
              <<0, EPSILON, n.init + j>> \in m.trans, <<n.accept + j, EPSILON, acc>> \in m.trans
       PROVE  Lang(n) \subseteq Before(m, acc)
    <2>1. n.init \in Nat /\ n.accept \in Nat
        BY SoundFacts
    <2>2. j + n.init = n.init + j /\ j + n.accept = n.accept + j
          /\ j + n.init \in Nat /\ j + n.accept \in Nat
        BY <2>1
    <2>3. Before(m, 0) \subseteq Before(m, j + n.init)
        BY <1>3, <1>10, <2>2, Passed
    <2>4. {<<>>} \subseteq Before(m, j + n.init)
        BY <1>2, <1>3, <2>3, BeforeFollows
    <2>5. {<<>>} \in SUBSET Texts
        BY TextFacts
    <2>6. Joined({<<>>}, Before(n, n.accept)) \subseteq Before(m, j + n.accept)
        BY <1>3, <1>10, <2>1, <2>4, <2>5, Embedded
    <2>7. Joined({<<>>}, Before(n, n.accept)) = Before(n, n.accept)
        BY <2>5, BeforeTexts, JoinedFacts
    <2>8. Before(m, j + n.accept) \subseteq Before(m, acc)
        BY <1>1, <1>3, <1>10, <2>2, Passed
    <2> QED BY <2>6, <2>7, <2>8 DEF Lang
<1>11. Lang(n1) \subseteq Before(m, acc) /\ Lang(n2) \subseteq Before(m, acc)
    <2>1. 1 \in Nat /\ k \in Nat
        BY <1>1
    <2> QED BY <1>2, <1>10, <2>1
<1> QED BY <1>2, <1>9, <1>11 DEF Lang, m

\* The texts that are put together of texts of L: the least set with the empty
\* text and, with a text, the texts that continue it with one of L.
Grows(L, M) == <<>> \in M /\ \A u \in M, v \in L : u \o v \in M

Star(L) == {w \in Texts : \A M \in SUBSET Texts : Grows(L, M) => w \in M}

\* The repetitions of L are the least set with the empty text that
\* grows by words of L.
LEMMA StarFacts ==
    ASSUME NEW L \in SUBSET Texts
    PROVE  /\ Star(L) \in SUBSET Texts /\ Grows(L, Star(L))
           /\ Joined(Star(L), L) \subseteq Star(L)
           /\ \A M \in SUBSET Texts : Grows(L, M) => Star(L) \subseteq M
<1>1. Star(L) \in SUBSET Texts /\ \A M \in SUBSET Texts : Grows(L, M) => Star(L) \subseteq M
    BY DEF Star
<1>2. <<>> \in Star(L)
    BY TextFacts DEF Star, Grows
<1>3. ASSUME NEW u \in Star(L), NEW v \in L
      PROVE  u \o v \in Star(L)
    <2>1. u \in Texts /\ v \in Texts
        BY <1>1
    <2>2. u \o v \in Texts
        BY <2>1, JoinFacts
    <2>3. \A M \in SUBSET Texts : Grows(L, M) => u \o v \in M
        BY <1>1 DEF Grows
    <2> QED BY <2>2, <2>3 DEF Star
<1>4. Grows(L, Star(L))
    BY <1>2, <1>3 DEF Grows
<1>5. Joined(Star(L), L) \subseteq Star(L)
    BY <1>3, JoinedIn
<1> QED BY <1>1, <1>4, <1>5

\* star: a state of the operand is reached after any number of texts that the
\* operand accepts.
LEMMA StarReads ==
    ASSUME NEW n \in Sound
    PROVE  /\ \A q \in Nat : q < n.size =>
                Before(StarNfa(n), q) = Joined(Star(Lang(n)), Before(n, q))
           /\ Lang(StarNfa(n)) = Star(Lang(n))
<1> DEFINE m == StarNfa(n)
           i == n.size
           a == n.size + 1
           L == Lang(n)
           A == Star(L)
           R == [q \in Nat |-> IF q = i THEN {<<>>} ELSE IF q = a THEN A
                               ELSE Joined(A, Before(n, q))]
<1>1. /\ n.init \in Nat /\ n.accept \in Nat /\ n.init < i /\ n.accept < i
      /\ i \in Nat /\ a \in Nat /\ a = i + 1
    BY SoundFacts
<1>2. /\ m.init = i /\ m.accept = a
      /\ m.trans = n.trans \cup {<<i, EPSILON, n.init>>, <<n.accept, EPSILON, n.init>>,
                                 <<n.accept, EPSILON, a>>, <<i, EPSILON, a>>}
    BY DEF StarNfa, Nfa
<1>3. m \in Sound
    BY StarSound
<1>4. L \in SUBSET Texts
    BY BeforeTexts DEF Lang
<1> HIDE DEF L
<1>5. /\ A \in SUBSET Texts /\ <<>> \in A /\ Joined(A, L) \subseteq A
      /\ \A M \in SUBSET Texts : Grows(L, M) => A \subseteq M
    BY <1>4, StarFacts DEF Grows
<1>6. i = n.size
    OBVIOUS
<1> HIDE DEF m, i, a, A
<1>7. /\ \A q \in Nat : q < i => R[q] = Joined(A, Before(n, q))
      /\ R[i] = {<<>>} /\ R[a] = A
    BY <1>1
<1>8. R \in Families
    <2>1. \A q : Joined(A, Before(n, q)) \in SUBSET Texts
        BY <1>5, BeforeTexts, JoinedFacts
    <2> QED BY <1>5, <2>1, TextFacts DEF Families
<1> HIDE DEF R
<1>9. A \subseteq Joined(A, Before(n, n.init)) /\ <<>> \in Joined(A, Before(n, n.init))
    <2>1. <<>> \in Before(n, n.init)
        BY BeforeFollows
    <2> QED BY <1>5, <2>1, BeforeTexts, JoinedFacts
<1>10. Follows(m, R)
    <2>1. <<>> \in R[m.init]
        BY <1>2, <1>7
    <2>2. ASSUME NEW t \in m.trans, NEW w \in R[t[1]]
          PROVE  Read(w, t[2]) \in R[t[3]]
        <3>1. CASE t \in n.trans
            <4>1. t[1] \in Nat /\ t[3] \in Nat /\ t[1] < i /\ t[3] < i
                BY <1>6, <3>1, SoundFacts DEF Fits
            <4>2. R[t[1]] = Joined(A, Before(n, t[1])) /\ R[t[3]] = Joined(A, Before(n, t[3]))
                BY <1>7, <4>1
            <4> QED BY <1>5, <3>1, <4>2, JoinedRead
        <3>2. CASE t = <<i, EPSILON, n.init>>
            <4>1. t[1] = i /\ t[2] = EPSILON /\ t[3] = n.init
                BY <3>2
            <4> QED BY <1>1, <1>7, <1>9, <4>1 DEF Read
        <3>3. CASE t = <<n.accept, EPSILON, n.init>>
            <4>1. t[1] = n.accept /\ t[2] = EPSILON /\ t[3] = n.init
                BY <3>3
            <4>2. R[n.accept] = Joined(A, L) /\ R[n.init] = Joined(A, Before(n, n.init))
                BY <1>1, <1>7 DEF Lang, L
            <4> QED BY <1>5, <1>9, <4>1, <4>2 DEF Read
        <3>4. CASE t = <<n.accept, EPSILON, a>>
            <4>1. t[1] = n.accept /\ t[2] = EPSILON /\ t[3] = a
                BY <3>4
            <4>2. R[n.accept] = Joined(A, L)
                BY <1>1, <1>7 DEF Lang, L
            <4> QED BY <1>5, <1>7, <4>1, <4>2 DEF Read
        <3>5. CASE t = <<i, EPSILON, a>>
            <4>1. t[1] = i /\ t[2] = EPSILON /\ t[3] = a
                BY <3>5
            <4> QED BY <1>5, <1>7, <4>1 DEF Read
        <3> QED BY <1>2, <3>1, <3>2, <3>3, <3>4, <3>5
    <2> QED BY <2>1, <2>2 DEF Follows
<1>11. \A q : Before(m, q) \subseteq R[q]
    BY <1>8, <1>10, BeforeLeast
<1>12. /\ Before(m, i) \subseteq Before(m, n.init) /\ Before(m, i) \subseteq Before(m, a)
       /\ Before(m, n.accept) \subseteq Before(m, n.init)
       /\ Before(m, n.accept) \subseteq Before(m, a)
    BY <1>1, <1>2, <1>3, Passed
<1>13. <<>> \in Before(m, n.init) /\ <<>> \in Before(m, a)
    BY <1>2, <1>3, <1>12, BeforeFollows
\* What the operand reads after a text that leads to its initial state.
<1>14. ASSUME NEW M \in SUBSET Texts, M \subseteq Before(m, n.init), NEW q \in Nat
       PROVE  Joined(M, Before(n, q)) \subseteq Before(m, q)
    <2>1. ShiftTrans(n.trans, 0) \subseteq m.trans
        BY <1>2, Unmoved
    <2>2. 0 + n.init = n.init /\ 0 + q = q /\ 0 \in Nat
        BY <1>1
    <2> QED BY <1>3, <1>14, <2>1, <2>2, Embedded
<1>15. A \subseteq Before(m, n.init) /\ A \subseteq Before(m, a)
    <2> DEFINE M == Before(m, n.init) \cap Before(m, a)
    <2>1. M \in SUBSET Texts /\ M \subseteq Before(m, n.init)
        BY BeforeTexts
    <2>2. Joined(M, Before(n, n.accept)) \subseteq Before(m, n.accept)
        BY <1>1, <1>14, <2>1
    <2>3. \A u \in M, v \in L : u \o v \in Joined(M, L)
        <3> HIDE DEF M
        <3> QED BY <1>4, <2>1, JoinedFacts
    <2>4. Grows(L, M)
        BY <1>12, <1>13, <2>2, <2>3 DEF Grows, Lang, L
    <2> HIDE DEF M
    <2>5. A \subseteq M
        BY <1>5, <2>1, <2>4
    <2> QED BY <2>5 DEF M
<1>16. ASSUME NEW q \in Nat, q < i
       PROVE  Before(m, q) = Joined(A, Before(n, q))
    <2>1. Joined(A, Before(n, q)) \subseteq Before(m, q)
        BY <1>5, <1>14, <1>15
    <2> QED BY <1>7, <1>11, <1>16, <2>1
<1>17. Lang(m) = A
    BY <1>2, <1>7, <1>11, <1>15 DEF Lang
<1> QED BY <1>16, <1>17 DEF m, i, A, L

\* select: the operand is read once or not at all.
LEMMA SelectReads ==
    ASSUME NEW n \in Sound
    PROVE  /\ \A q \in Nat : q < n.size => Before(SelectNfa(n), q) = Before(n, q)
           /\ Lang(SelectNfa(n)) = {<<>>} \cup Lang(n)
<1> DEFINE m == SelectNfa(n)
           i == n.size
           a == n.size + 1
           A == {<<>>} \cup Lang(n)
           R == [q \in Nat |-> IF q = i THEN {<<>>} ELSE IF q = a THEN A ELSE Before(n, q)]
<1>1. /\ n.init \in Nat /\ n.accept \in Nat /\ n.init < i /\ n.accept < i
      /\ i \in Nat /\ a \in Nat /\ a = i + 1
    BY SoundFacts
<1>2. /\ m.init = i /\ m.accept = a
      /\ m.trans = n.trans \cup {<<i, EPSILON, n.init>>, <<n.accept, EPSILON, a>>,
                                 <<i, EPSILON, a>>}
    BY DEF SelectNfa, Nfa
<1>3. m \in Sound
    BY StarSound
<1>4. A \in SUBSET Texts /\ <<>> \in A /\ Lang(n) \subseteq A
    BY BeforeTexts, TextFacts DEF Lang
<1>5. i = n.size
    OBVIOUS
<1> HIDE DEF m, i, a, A
<1>6. /\ \A q \in Nat : q < i => R[q] = Before(n, q)
      /\ R[i] = {<<>>} /\ R[a] = A
    BY <1>1
<1>7. R \in Families
    BY <1>4, BeforeTexts, TextFacts DEF Families
<1> HIDE DEF R
<1>8. Follows(m, R)
    <2>1. <<>> \in R[m.init]
        BY <1>2, <1>6
    <2>2. ASSUME NEW t \in m.trans, NEW w \in R[t[1]]
          PROVE  Read(w, t[2]) \in R[t[3]]
        <3>1. CASE t \in n.trans
            <4>1. t[1] \in Nat /\ t[3] \in Nat /\ t[1] < i /\ t[3] < i
                BY <1>5, <3>1, SoundFacts DEF Fits
            <4> QED BY <1>6, <3>1, <4>1, BeforeFollows
        <3>2. CASE t = <<i, EPSILON, n.init>>
            <4>1. t[1] = i /\ t[2] = EPSILON /\ t[3] = n.init
                BY <3>2
            <4> QED BY <1>1, <1>6, <4>1, BeforeFollows DEF Read
        <3>3. CASE t = <<n.accept, EPSILON, a>>
            <4>1. t[1] = n.accept /\ t[2] = EPSILON /\ t[3] = a
                BY <3>3
            <4> QED BY <1>1, <1>4, <1>6, <4>1 DEF Read, Lang
        <3>4. CASE t = <<i, EPSILON, a>>
            <4>1. t[1] = i /\ t[2] = EPSILON /\ t[3] = a
                BY <3>4
            <4> QED BY <1>4, <1>6, <4>1 DEF Read
        <3> QED BY <1>2, <3>1, <3>2, <3>3, <3>4
    <2> QED BY <2>1, <2>2 DEF Follows
<1>9. \A q : Before(m, q) \subseteq R[q]
    BY <1>7, <1>8, BeforeLeast
<1>10. /\ Before(m, i) \subseteq Before(m, n.init) /\ Before(m, i) \subseteq Before(m, a)
       /\ Before(m, n.accept) \subseteq Before(m, a)
    BY <1>1, <1>2, <1>3, Passed
<1>11. <<>> \in Before(m, n.init) /\ <<>> \in Before(m, a)
    BY <1>2, <1>3, <1>10, BeforeFollows
<1>12. \A q \in Nat : Before(n, q) \subseteq Before(m, q)
    BY <1>2, <1>3, <1>11, Included
<1>13. \A q \in Nat : q < i => Before(m, q) = Before(n, q)
    BY <1>6, <1>9, <1>12
<1>14. A \subseteq Before(m, a)
    BY <1>1, <1>10, <1>11, <1>12 DEF A, Lang
<1>15. Lang(m) = A
    BY <1>2, <1>6, <1>9, <1>14 DEF Lang
<1> QED BY <1>13, <1>15 DEF m, i, A

\* An automaton with the same transitions and the same initial state.
LEMMA SameReads ==
    ASSUME NEW n, NEW m, m.trans = n.trans, m.init = n.init, m.accept = n.accept
    PROVE  (\A q : Before(m, q) = Before(n, q)) /\ Lang(m) = Lang(n)
BY DEF Lang, Before, Follows

\* p[i] is what i copies of an automaton with the language L read.
Repeats(p, L, num) ==
    /\ p \in [0..num -> SUBSET Texts]
    /\ p[0] = {<<>>} /\ \A i \in 1..num : p[i] = Joined(p[i - 1], L)

\* {num}: the states of the copy i are reached after i texts that the operand
\* accepts.
LEMMA NumReads ==
    ASSUME NEW n \in Sound, NEW num \in Nat \ {0}, NEW p, Repeats(p, Lang(n), num)
    PROVE  /\ \A q \in Nat : q < n.size => Before(NumNfa(n, num), q) = Before(n, q)
           /\ Lang(NumNfa(n, num)) = p[num]
<1> DEFINE m == NumNfa(n, num)
           L == Lang(n)
           At(i) == n.size * i
           R == [q \in Nat |-> {w \in Texts : \E i \in 0..(num - 1) :
                                  At(i) <= q /\ w \in Joined(p[i], Before(n, q - At(i)))}]
<1>1. /\ n.init \in Nat /\ n.accept \in Nat /\ n.size \in Nat
      /\ n.init < n.size /\ n.accept < n.size
    BY SoundFacts
<1>2. /\ m.init = n.init /\ m.accept = At(num - 1) + n.accept
      /\ m.trans = (UNION {ShiftTrans(n.trans, At(i)) : i \in 0..(num - 1)})
                     \cup {<<At(i - 1) + n.accept, EPSILON, At(i) + n.init>> : i \in 1..(num - 1)}
    BY DEF NumNfa, Nfa
<1>3. m \in Sound
    BY NumSound
<1>4. /\ At(0) = 0 /\ \A i \in 0..(num - 1) : At(i) \in Nat
      /\ \A i, j \in 0..(num - 1) : i < j => At(i) + n.size <= At(j)
    <2>1. At(0) = 0
        BY <1>1
    <2>2. \A i \in 0..(num - 1) : At(i) \in Nat
        BY <1>1, InCopy
    <2>3. ASSUME NEW i \in 0..(num - 1), NEW j \in 0..(num - 1), i < j
          PROVE  At(i) + n.size <= At(j)
        <3>1. j \in Nat /\ i \in 0..(j - 1)
            BY <2>3
        <3> QED BY <1>1, <3>1, InCopy
    <2> QED BY <2>1, <2>2, <2>3
<1>5. /\ p \in [0..num -> SUBSET Texts] /\ p[0] = {<<>>}
      /\ \A i \in 1..num : p[i] = Joined(p[i - 1], L)
    BY DEF Repeats
<1>6. L \in SUBSET Texts /\ \A q : Before(n, q) \in SUBSET Texts
    BY BeforeTexts DEF Lang
<1>7. L = Before(n, n.accept) /\ Lang(m) = Before(m, m.accept)
    BY DEF Lang
<1> HIDE DEF m, L, At
<1>8. \A i \in 0..(num - 1) : \A q : p[i] \in SUBSET Texts /\ Joined(p[i], Before(n, q)) \in SUBSET Texts
    <2>1. \A i \in 0..(num - 1) : p[i] \in SUBSET Texts
        BY <1>5
    <2> QED BY <1>6, <2>1, JoinedFacts
\* A state that is left between two copies belongs to one of them.
<1>9. ASSUME NEW i \in 0..(num - 1), NEW j \in 0..(num - 1), NEW a \in Nat, NEW b \in Nat,
             a < n.size, b < n.size, At(i) + a = At(j) + b
      PROVE  i = j
    <2>1. At(i) \in Nat /\ At(j) \in Nat /\ (i < j \/ j < i \/ i = j)
        BY <1>4
    <2>2. /\ i < j => At(i) + n.size <= At(j)
          /\ j < i => At(j) + n.size <= At(i)
        BY <1>4
    <2> QED BY <1>1, <1>9, <2>1, <2>2
<1>10. ASSUME NEW i \in 0..(num - 1), NEW a \in Nat, a < n.size
       PROVE  At(i) + a \in Nat /\ R[At(i) + a] = Joined(p[i], Before(n, a))
    <2>1. At(i) \in Nat /\ At(i) + a \in Nat /\ At(i) <= At(i) + a /\ (At(i) + a) - At(i) = a
        BY <1>4
    <2>2. Joined(p[i], Before(n, a)) \subseteq R[At(i) + a]
        BY <1>8, <2>1
    <2>3. ASSUME NEW w \in R[At(i) + a]
          PROVE  w \in Joined(p[i], Before(n, a))
        <3>1. PICK j \in 0..(num - 1) :
                /\ At(j) <= At(i) + a
                /\ w \in Joined(p[j], Before(n, (At(i) + a) - At(j)))
            BY <2>1
        <3> DEFINE b == (At(i) + a) - At(j)
        <3>2. b \in Nat /\ At(j) + b = At(i) + a
            BY <1>4, <2>1, <3>1
        <3>3. w \in Joined(p[j], Before(n, b))
            BY <3>1
        <3> HIDE DEF b
        <3>4. PICK v \in Before(n, b) : TRUE
            BY <3>3 DEF Joined
        <3>5. b < n.size
            BY <3>2, <3>4, BeforeRange
        <3>6. i = j
            BY <1>9, <1>10, <3>2, <3>5
        <3>7. b = a
            BY <2>1, <3>2, <3>6
        <3> QED BY <3>3, <3>6, <3>7
    <2> HIDE DEF R
    <2> QED BY <2>1, <2>2, <2>3
<1>11. R \in Families
    BY DEF Families
<1> HIDE DEF R
<1>12. ASSUME NEW i \in 0..(num - 1)
       PROVE  /\ <<>> \in Before(n, n.init)
              /\ p[i] \subseteq Joined(p[i], Before(n, n.init))
              /\ <<>> \in p[i] => <<>> \in Joined(p[i], Before(n, n.init))
    <2> DEFINE P == p[i]
               M == Before(n, n.init)
    <2>1. <<>> \in M
        BY BeforeFollows
    <2>2. P \in SUBSET Texts /\ M \in SUBSET Texts
        BY <1>6, <1>8
    <2> HIDE DEF P, M
    <2>3. P \subseteq Joined(P, M) /\ (<<>> \in P => M \subseteq Joined(P, M))
        BY <2>1, <2>2, JoinedFacts
    <2> QED BY <2>1, <2>3 DEF P, M
<1>13. Follows(m, R)
    <2>1. <<>> \in R[m.init]
        <3>1. 0 \in 0..(num - 1) /\ At(0) + n.init = n.init
            BY <1>1, <1>4
        <3>2. R[n.init] = Joined(p[0], Before(n, n.init))
            BY <1>1, <1>10, <3>1
        <3> QED BY <1>2, <1>5, <1>12, <3>1, <3>2
    <2>2. ASSUME NEW t \in m.trans, NEW w \in R[t[1]]
          PROVE  Read(w, t[2]) \in R[t[3]]
        <3>1. ASSUME NEW i \in 0..(num - 1), t \in ShiftTrans(n.trans, At(i))
              PROVE  Read(w, t[2]) \in R[t[3]]
            <4>1. At(i) \in Nat
                BY <1>4
            <4>2. PICK u \in n.trans : /\ t[1] = At(i) + u[1] /\ t[2] = u[2] /\ t[3] = At(i) + u[3]
                                       /\ u[1] \in Nat /\ u[3] \in Nat
                                       /\ u[1] < n.size /\ u[3] < n.size
                BY <3>1, <4>1, Moved
            <4>3. R[t[1]] = Joined(p[i], Before(n, u[1])) /\ R[t[3]] = Joined(p[i], Before(n, u[3]))
                BY <1>10, <4>2
            <4>4. w \in Joined(p[i], Before(n, u[1])) /\ p[i] \in SUBSET Texts
                BY <1>8, <2>2, <4>3
            <4>5. Read(w, u[2]) \in Joined(p[i], Before(n, u[3]))
                BY <4>4, JoinedRead
            <4> QED BY <4>2, <4>3, <4>5
        <3>2. ASSUME NEW i \in 1..(num - 1), t = <<At(i - 1) + n.accept, EPSILON, At(i) + n.init>>
              PROVE  Read(w, t[2]) \in R[t[3]]
            <4>1. t[1] = At(i - 1) + n.accept /\ t[2] = EPSILON /\ t[3] = At(i) + n.init
                BY <3>2
            <4>2. i \in 0..(num - 1) /\ i - 1 \in 0..(num - 1) /\ i \in 1..num
                OBVIOUS
            <4>3. /\ R[t[1]] = Joined(p[i - 1], L)
                  /\ R[t[3]] = Joined(p[i], Before(n, n.init))
                BY <1>1, <1>7, <1>10, <4>1, <4>2
            <4>4. R[t[1]] \subseteq R[t[3]]
                BY <1>5, <1>12, <4>2, <4>3
            <4> QED BY <4>1, <4>4 DEF Read
        <3> QED BY <1>2, <3>1, <3>2
    <2> QED BY <2>1, <2>2 DEF Follows
<1>14. \A q : Before(m, q) \subseteq R[q]
    BY <1>11, <1>13, BeforeLeast
\* Each copy is entered with the texts of the ones before it.
<1>15. ASSUME NEW i \in 0..(num - 1), p[i] \subseteq Before(m, At(i) + n.init), NEW q \in Nat
       PROVE  Joined(p[i], Before(n, q)) \subseteq Before(m, At(i) + q)
    <2>1. ShiftTrans(n.trans, At(i)) \subseteq m.trans
        BY <1>2
    <2>2. p[i] \in SUBSET Texts /\ At(i) \in Nat
        BY <1>4, <1>8
    <2> QED BY <1>3, <1>15, <2>1, <2>2, Embedded
<1>16. \A i \in Nat : i < num => p[i] \subseteq Before(m, At(i) + n.init)
    <2> DEFINE S == {i \in Nat : i < num => p[i] \subseteq Before(m, At(i) + n.init)}
    <2>1. 0 \in S
        <3>1. At(0) + n.init = n.init
            BY <1>1, <1>4
        <3> QED BY <1>2, <1>3, <1>5, <3>1, BeforeFollows
    <2>2. ASSUME NEW i \in Nat, i \in S
          PROVE  i + 1 \in S
        <3> SUFFICES ASSUME i + 1 < num
                     PROVE  p[i + 1] \subseteq Before(m, At(i + 1) + n.init)
            OBVIOUS
        <3>1. /\ i \in 0..(num - 1) /\ i + 1 \in 1..(num - 1) /\ i + 1 \in 0..(num - 1)
              /\ i + 1 \in 1..num /\ (i + 1) - 1 = i
            OBVIOUS
        <3>2. p[i + 1] = Joined(p[i], Before(n, n.accept))
            BY <1>5, <1>7, <3>1
        <3>3. p[i] \subseteq Before(m, At(i) + n.init)
            BY <2>2, <3>1
        <3>4. p[i + 1] \subseteq Before(m, At(i) + n.accept)
            BY <1>1, <1>15, <3>1, <3>2, <3>3
        <3>5. <<At(i) + n.accept, EPSILON, At(i + 1) + n.init>> \in m.trans
            <4> DEFINE Joint(j) == <<At(j - 1) + n.accept, EPSILON, At(j) + n.init>>
            <4>1. Joint(i + 1) \in m.trans
                BY <1>2, <3>1
            <4> QED BY <3>1, <4>1
        <3>6. At(i) + n.accept \in Nat /\ At(i + 1) + n.init \in Nat
            BY <1>1, <1>4, <3>1
        <3>7. Before(m, At(i) + n.accept) \subseteq Before(m, At(i + 1) + n.init)
            BY <1>3, <3>5, <3>6, Passed
        <3> QED BY <3>4, <3>7
    <2>3. \A i \in Nat : i \in S
        <3> HIDE DEF S
        <3> QED BY <2>1, <2>2, Induction
    <2> QED BY <2>3
<1>17. ASSUME NEW i \in 0..(num - 1), NEW q \in Nat, q < n.size
       PROVE  Before(m, At(i) + q) = Joined(p[i], Before(n, q))
    <2>1. p[i] \subseteq Before(m, At(i) + n.init)
        BY <1>16
    <2>2. R[At(i) + q] = Joined(p[i], Before(n, q))
        BY <1>10, <1>17
    <2>3. Before(m, At(i) + q) \subseteq R[At(i) + q]
        BY <1>14
    <2>4. Joined(p[i], Before(n, q)) \subseteq Before(m, At(i) + q)
        BY <1>15, <2>1
    <2> QED BY <2>2, <2>3, <2>4
<1>18. ASSUME NEW q \in Nat, q < n.size
       PROVE  Before(m, q) = Before(n, q)
    <2>1. 0 \in 0..(num - 1) /\ At(0) + q = q
        BY <1>4
    <2>2. Before(m, q) = Joined({<<>>}, Before(n, q))
        BY <1>5, <1>17, <1>18, <2>1
    <2> QED BY <1>5, <1>6, <1>8, <2>1, <2>2, JoinedFacts
<1>19. Lang(m) = p[num]
    <2>1. num - 1 \in 0..(num - 1) /\ num \in 1..num
        OBVIOUS
    <2> QED BY <1>1, <1>2, <1>5, <1>7, <1>17, <2>1
<1> QED BY <1>18, <1>19 DEF m

----------------------------------------------------------------------------
\* Words of bounded length.

\* Cutting twice, cutting a union, cutting the empty text.
LEMMA WordsOf ==
    ASSUME NEW L \in SUBSET Texts
    PROVE  /\ Words(L) \in SUBSET Texts /\ Words(Words(L)) = Words(L)
           /\ \A M \in SUBSET Texts : Words(L \cup M) = Words(L) \cup Words(M)
           /\ Words({<<>>}) = {<<>>}
BY ParserAssumption, TextFacts DEF Words

\* Cutting the operands before they are joined changes nothing.
LEMMA CatOf ==
    ASSUME NEW L \in SUBSET Texts, NEW M \in SUBSET Texts
    PROVE  Cat(Words(L), Words(M)) = Words(Joined(L, M))
<1>1. ASSUME NEW u \in L, NEW v \in M, Len(u \o v) <= MaxLen
      PROVE  u \in Words(L) /\ v \in Words(M)
    <2>1. Len(u) \in Nat /\ Len(v) \in Nat /\ Len(u \o v) = Len(u) + Len(v) /\ MaxLen \in Nat
        BY ParserAssumption, TextFacts, JoinFacts
    <2>2. Len(u) <= MaxLen /\ Len(v) <= MaxLen
        BY <1>1, <2>1
    <2> QED BY <2>2 DEF Words
<1>2. Words(Joined(L, M)) \subseteq Cat(Words(L), Words(M))
    <2> SUFFICES ASSUME NEW w \in Words(Joined(L, M)) PROVE w \in Cat(Words(L), Words(M))
        OBVIOUS
    <2>1. Len(w) <= MaxLen /\ w \in Joined(L, M)
        BY DEF Words
    <2>2. PICK u \in L, v \in M : w = u \o v
        BY <2>1 DEF Joined
    <2>3. u \in Words(L) /\ v \in Words(M)
        BY <1>1, <2>1, <2>2
    <2> DEFINE J == {x \o y : x \in Words(L), y \in Words(M)}
    <2>4. w \in J
        BY <2>2, <2>3
    <2> HIDE DEF J
    <2>5. w \in Words(J)
        BY <2>1, <2>4 DEF Words
    <2> QED BY <2>5 DEF Cat, J
<1>3. Cat(Words(L), Words(M)) \subseteq Words(Joined(L, M))
    <2>1. Words(L) \subseteq L /\ Words(M) \subseteq M
        BY DEF Words
    <2>2. {u \o v : u \in Words(L), v \in Words(M)} \subseteq Joined(L, M)
        BY <2>1 DEF Joined
    <2> DEFINE J == {u \o v : u \in Words(L), v \in Words(M)}
    <2> HIDE DEF J
    <2>3. Words(J) \subseteq Words(Joined(L, M))
        BY <2>2 DEF Words, J
    <2> QED BY <2>3 DEF Cat, J
<1> QED BY <1>2, <1>3

\* The reference concatenation is the cut of the unbounded one.
LEMMA CatTexts ==
    ASSUME NEW L \in SUBSET Texts, NEW M \in SUBSET Texts
    PROVE  Cat(L, M) \in SUBSET Texts /\ Cat(L, M) = Words(Joined(L, M))
<1>1. Cat(L, M) = Words(Joined(L, M))
    BY DEF Cat, Joined
<1>2. Joined(L, M) \in SUBSET Texts
    BY JoinedFacts
<1> QED BY <1>1, <1>2 DEF Words

\* Joining three sets of texts.
LEMMA JoinedThrice ==
    ASSUME NEW L \in SUBSET Texts, NEW M \in SUBSET Texts, NEW N \in SUBSET Texts
    PROVE  Joined(Joined(L, M), N) = Joined(L, Joined(M, N))
<1>1. ASSUME NEW u \in L, NEW v \in M, NEW w \in N
      PROVE  /\ (u \o v) \o w = u \o (v \o w)
             /\ (u \o v) \o w \in Joined(Joined(L, M), N)
             /\ u \o (v \o w) \in Joined(L, Joined(M, N))
    <2>1. u \in Texts /\ v \in Texts /\ w \in Texts
        OBVIOUS
    <2>2. (u \o v) \o w = u \o (v \o w)
        BY <2>1, JoinFacts
    <2>3. /\ u \o v \in Joined(L, M) /\ v \o w \in Joined(M, N)
          /\ Joined(L, M) \in SUBSET Texts /\ Joined(M, N) \in SUBSET Texts
        BY JoinedFacts
    <2>4. (u \o v) \o w \in Joined(Joined(L, M), N) /\ u \o (v \o w) \in Joined(L, Joined(M, N))
        BY <2>3, JoinedFacts
    <2> QED BY <2>2, <2>4
<1>2. Joined(Joined(L, M), N) \subseteq Joined(L, Joined(M, N))
    <2>1. ASSUME NEW x \in Joined(L, M), NEW w \in N
          PROVE  x \o w \in Joined(L, Joined(M, N))
        <3>1. PICK u \in L, v \in M : x = u \o v
            BY DEF Joined
        <3> QED BY <1>1, <3>1
    <2> QED BY <2>1, JoinedIn
<1>3. Joined(L, Joined(M, N)) \subseteq Joined(Joined(L, M), N)
    <2>1. ASSUME NEW u \in L, NEW x \in Joined(M, N)
          PROVE  u \o x \in Joined(Joined(L, M), N)
        <3>1. PICK v \in M, w \in N : x = v \o w
            BY DEF Joined
        <3> QED BY <1>1, <3>1
    <2> QED BY <2>1, JoinedIn
<1> QED BY <1>2, <1>3

\* What the recursive function of Power computes.
LEMMA PowerIterates ==
    ASSUME NEW L \in SUBSET Texts, NEW k \in Nat
    PROVE  \E p \in [0..k -> SUBSET Texts] :
                /\ p[0] = {<<>>} /\ \A i \in 1..k : p[i] = Cat(p[i - 1], L)
                /\ Power(L, k) = p[k]
<1> DEFINE V == SUBSET Texts
           Powers(p) == p = [i \in 0..k |-> IF i = 0 THEN {<<>>} ELSE Cat(p[i - 1], L)]
           Step == [i \in 1..k |-> [M \in V |-> Cat(M, L)]]
           f == CHOOSE p : Powers(p)
           first == {<<>>}
<1>1. Step \in [1..k -> [V -> V]] /\ first \in V
    <2>1. \A M \in V : Cat(M, L) \in V
        BY CatTexts
    <2> QED BY <2>1, TextFacts
<1>2. PICK g \in [0..k -> V] : Iterates(g, k, first, Step)
    <2> HIDE DEF Step, V, first
    <2> QED BY <1>1, Recursion
<1>3. Powers(g)
    <2>1. ASSUME NEW i \in 0..k
          PROVE  g[i] = IF i = 0 THEN {<<>>} ELSE Cat(g[i - 1], L)
        <3>1. CASE i = 0
            BY <1>2, <3>1 DEF Iterates
        <3>2. CASE i # 0
            <4>1. i \in 1..k /\ i - 1 \in 0..k
                BY <3>2
            <4>2. g[i] = Step[i][g[i - 1]] /\ g[i - 1] \in V
                BY <1>2, <4>1 DEF Iterates
            <4>3. Step[i][g[i - 1]] = Cat(g[i - 1], L)
                BY <4>1, <4>2
            <4> QED BY <3>2, <4>2, <4>3
        <3> QED BY <3>1, <3>2
    <2> QED BY <1>2, <2>1
<1>4. Powers(f)
    BY <1>3, Zenon
<1>5. Power(L, k) = f[k]
    BY Zenon DEF Power
<1> HIDE DEF f
<1>6. f[0] = {<<>>} /\ \A i \in 1..k : f[i] = Cat(f[i - 1], L)
    <2>1. f[0] = {<<>>}
        BY <1>4
    <2>2. ASSUME NEW i \in 1..k
          PROVE  f[i] = Cat(f[i - 1], L)
        <3>1. i \in 0..k /\ i # 0
            OBVIOUS
        <3> QED BY <1>4, <3>1
    <2> QED BY <2>1, <2>2
<1>7. f \in [0..k -> V]
    <2> DEFINE S == {i \in Nat : i <= k => f[i] \in V}
    <2>1. 0 \in S
        BY <1>6, TextFacts
    <2>2. ASSUME NEW i \in Nat, i \in S
          PROVE  i + 1 \in S
        <3>1. i + 1 <= k => i + 1 \in 1..k /\ (i + 1) - 1 = i
            OBVIOUS
        <3> QED BY <1>6, <2>2, <3>1, CatTexts
    <2>3. \A i \in Nat : i \in S
        <3> HIDE DEF S
        <3> QED BY <2>1, <2>2, Induction
    <2>4. \A i \in 0..k : f[i] \in V
        BY <2>3
    <2>5. f = [i \in 0..k |-> f[i]]
        BY <1>4
    <2> QED BY <2>4, <2>5
<1> QED BY <1>5, <1>6, <1>7

\* Power, cut at the bound, of a language that is cut at it.
LEMMA PowerOf ==
    ASSUME NEW L \in SUBSET Texts, NEW k \in Nat, NEW p, Repeats(p, L, k)
    PROVE  Power(Words(L), k) = Words(p[k])
<1>1. PICK f \in [0..k -> SUBSET Texts] :
            /\ f[0] = {<<>>} /\ \A i \in 1..k : f[i] = Cat(f[i - 1], Words(L))
            /\ Power(Words(L), k) = f[k]
    BY WordsOf, PowerIterates
<1> DEFINE S == {i \in Nat : i <= k => f[i] = Words(p[i])}
<1>2. 0 \in S
    BY <1>1, TextFacts, WordsOf DEF Repeats
<1>3. ASSUME NEW i \in Nat, i \in S
      PROVE  i + 1 \in S
    <2> SUFFICES ASSUME i + 1 <= k PROVE f[i + 1] = Words(p[i + 1])
        OBVIOUS
    <2>1. i \in 0..k /\ i + 1 \in 1..k /\ (i + 1) - 1 = i
        OBVIOUS
    <2>2. f[i + 1] = Cat(Words(p[i]), Words(L)) /\ p[i] \in SUBSET Texts
        BY <1>1, <1>3, <2>1 DEF Repeats
    <2>3. p[i + 1] = Joined(p[i], L)
        BY <2>1 DEF Repeats
    <2> QED BY <2>2, <2>3, CatOf
<1>4. \A i \in Nat : i \in S
    <2> HIDE DEF S
    <2> QED BY <1>2, <1>3, Induction
<1>5. f[k] = Words(p[k])
    BY <1>4
<1> QED BY <1>1, <1>5

\* There are as many copies as one likes.
LEMMA RepeatsExist ==
    ASSUME NEW L \in SUBSET Texts, NEW k \in Nat
    PROVE  \E p : Repeats(p, L, k)
<1> DEFINE V == SUBSET Texts
           Step == [i \in 1..k |-> [M \in V |-> Joined(M, L)]]
           first == {<<>>}
<1>1. Step \in [1..k -> [V -> V]] /\ first \in V
    <2>1. \A M \in V : Joined(M, L) \in V
        BY JoinedFacts
    <2> QED BY <2>1, TextFacts
<1>2. PICK g \in [0..k -> V] : Iterates(g, k, first, Step)
    <2> HIDE DEF Step, V, first
    <2> QED BY <1>1, Recursion
<1>3. ASSUME NEW i \in 1..k
      PROVE  g[i] = Joined(g[i - 1], L)
    <2>1. i - 1 \in 0..k
        OBVIOUS
    <2>2. g[i] = Step[i][g[i - 1]] /\ g[i - 1] \in V
        BY <1>2, <2>1 DEF Iterates
    <2> QED BY <2>2
<1>4. g[0] = {<<>>}
    BY <1>2 DEF Iterates
<1> QED BY <1>2, <1>3, <1>4 DEF Repeats

\* One factor more.
LEMMA PowerStep ==
    ASSUME NEW L \in SUBSET Texts, NEW k \in Nat
    PROVE  /\ Power(Words(L), 0) = {<<>>}
           /\ Power(Words(L), k) \in SUBSET Texts
           /\ Power(Words(L), k + 1) = Cat(Power(Words(L), k), Words(L))
<1>1. PICK p : Repeats(p, L, k + 1)
    BY RepeatsExist
<1> DEFINE q == [i \in 0..k |-> p[i]]
           r == [i \in 0..0 |-> p[i]]
<1>2. p \in [0..(k + 1) -> SUBSET Texts] /\ p[0] = {<<>>} /\ \A i \in 1..(k + 1) : p[i] = Joined(p[i - 1], L)
    BY <1>1 DEF Repeats
<1>3. Repeats(q, L, k)
    <2>1. q \in [0..k -> SUBSET Texts] /\ q[0] = {<<>>}
        BY <1>2
    <2>2. ASSUME NEW i \in 1..k
          PROVE  q[i] = Joined(q[i - 1], L)
        <3>1. i \in 0..k /\ i - 1 \in 0..k /\ i \in 1..(k + 1)
            OBVIOUS
        <3> QED BY <1>2, <3>1
    <2> QED BY <2>1, <2>2 DEF Repeats
<1>4. Repeats(r, L, 0)
    BY <1>2 DEF Repeats
<1>5. Power(Words(L), k + 1) = Words(p[k + 1]) /\ Power(Words(L), k) = Words(q[k])
      /\ Power(Words(L), 0) = Words(r[0])
    <2> HIDE DEF q, r
    <2>1. k + 1 \in Nat /\ 0 \in Nat
        OBVIOUS
    <2> QED BY <1>1, <1>3, <1>4, <2>1, PowerOf
<1>6. q[k] = p[k] /\ r[0] = {<<>>} /\ p[k] \in SUBSET Texts
    BY <1>2
<1>7. p[k + 1] = Joined(p[k], L)
    <2>1. k + 1 \in 1..(k + 1) /\ (k + 1) - 1 = k
        OBVIOUS
    <2> QED BY <1>2, <2>1
<1> HIDE DEF q, r
<1>8. Power(Words(L), 0) = {<<>>}
    <2>1. {<<>>} \in SUBSET Texts
        BY TextFacts
    <2> QED BY <1>5, <1>6, <2>1, WordsOf
<1>9. Power(Words(L), k) \in SUBSET Texts
    BY <1>5, <1>6, WordsOf
<1>10. Power(Words(L), k + 1) = Cat(Power(Words(L), k), Words(L))
    BY <1>5, <1>6, <1>7, CatOf
<1> QED BY <1>8, <1>9, <1>10

\* The words up to the bound need no more factors than the bound: every factor
\* but the empty ones makes a word longer.
LEMMA StarOf ==
    ASSUME NEW L \in SUBSET Texts
    PROVE  StarLang(Words(L)) = Words(Star(L))
<1> DEFINE K == Words(L)
<1>1. Star(L) \in SUBSET Texts /\ Grows(L, Star(L))
      /\ \A M \in SUBSET Texts : Grows(L, M) => Star(L) \subseteq M
    BY StarFacts
<1>2. MaxLen \in Nat
    BY ParserAssumption
<1>3. StarLang(K) \subseteq Words(Star(L))
    <2>1. ASSUME NEW k \in 0..MaxLen
          PROVE  Power(K, k) \subseteq Words(Star(L))
        <3>1. PICK p : Repeats(p, L, k)
            BY RepeatsExist
        <3> DEFINE S == {i \in Nat : i <= k => p[i] \subseteq Star(L)}
        <3>2. 0 \in S
            BY <1>1, <3>1 DEF Repeats, Grows
        <3>3. ASSUME NEW i \in Nat, i \in S
              PROVE  i + 1 \in S
            <4> SUFFICES ASSUME i + 1 <= k PROVE p[i + 1] \subseteq Star(L)
                OBVIOUS
            <4>1. i + 1 \in 1..k /\ (i + 1) - 1 = i /\ i <= k
                OBVIOUS
            <4>2. p[i + 1] = Joined(p[i], L) /\ p[i] \subseteq Star(L)
                BY <3>1, <3>3, <4>1 DEF Repeats
            <4>3. \A u \in p[i], v \in L : u \o v \in Star(L)
                BY <1>1, <4>2 DEF Grows
            <4> QED BY <4>2, <4>3, JoinedIn
        <3>4. \A i \in Nat : i \in S
            <4> HIDE DEF S
            <4> QED BY <3>2, <3>3, Induction
        <3>5. p[k] \subseteq Star(L)
            BY <3>4
        <3>6. Power(K, k) = Words(p[k])
            BY <3>1, PowerOf
        <3> QED BY <3>5, <3>6 DEF Words
    <2> QED BY <2>1 DEF StarLang
<1>4. Words(Star(L)) \subseteq StarLang(K)
    <2> DEFINE M == {w \in Texts : Len(w) <= MaxLen => \E k \in 0..Len(w) : w \in Power(K, k)}
    <2>1. <<>> \in M
        <3>1. Power(K, 0) = {<<>>}
            BY PowerStep
        <3> QED BY <3>1, TextFacts
    <2>2. ASSUME NEW u \in M, NEW v \in L
          PROVE  u \o v \in M
        <3>1. u \in Texts /\ v \in Texts
            OBVIOUS
        <3>2. /\ u \o v \in Texts /\ Len(u \o v) = Len(u) + Len(v)
              /\ Len(u) \in Nat /\ Len(v) \in Nat
              /\ (Len(v) = 0 <=> v = <<>>) /\ u \o <<>> = u
            BY <3>1, JoinFacts, TextFacts
        <3>3. CASE v = <<>>
            BY <3>2, <3>3
        <3>4. CASE v # <<>>
            <4> SUFFICES ASSUME Len(u \o v) <= MaxLen
                         PROVE  \E k \in 0..Len(u \o v) : u \o v \in Power(K, k)
                BY <3>2
            <4>1. Len(u) <= MaxLen /\ Len(v) <= MaxLen /\ Len(v) >= 1
                BY <1>2, <3>2, <3>4
            <4>2. PICK k \in 0..Len(u) : u \in Power(K, k)
                BY <4>1
            <4>3. k \in Nat /\ k + 1 \in 0..Len(u \o v)
                BY <3>2, <4>1
            <4>4. Power(K, k + 1) = Cat(Power(K, k), K)
                BY <4>3, PowerStep
            <4>5. v \in K
                BY <4>1 DEF Words
            <4> DEFINE J == {x \o y : x \in Power(K, k), y \in K}
            <4>6. u \o v \in J
                BY <4>2, <4>5
            <4> HIDE DEF J
            <4>7. u \o v \in Words(J)
                BY <4>6 DEF Words
            <4>8. u \o v \in Power(K, k + 1)
                BY <4>4, <4>7 DEF Cat, J
            <4> QED BY <4>3, <4>8
        <3> QED BY <3>3, <3>4
    <2>3. M \in SUBSET Texts
        OBVIOUS
    <2> HIDE DEF M
    <2>4. Star(L) \subseteq M
        BY <1>1, <2>1, <2>2, <2>3 DEF Grows
    <2>5. ASSUME NEW w \in Words(Star(L))
          PROVE  w \in StarLang(K)
        <3>1. w \in M /\ Len(w) <= MaxLen
            BY <2>4 DEF Words
        <3>2. PICK k \in 0..Len(w) : w \in Power(K, k)
            BY <3>1 DEF M
        <3>3. Len(w) \in Nat
            BY <2>3, <3>1, TextFacts
        <3>4. k \in 0..MaxLen
            BY <1>2, <3>1, <3>3
        <3> QED BY <3>2, <3>4 DEF StarLang
    <2> QED BY <2>5
<1> QED BY <1>3, <1>4

\* Joining three languages that are cut at the bound.
LEMMA CatThrice ==
    ASSUME NEW L \in SUBSET Texts, NEW M \in SUBSET Texts, NEW N \in SUBSET Texts
    PROVE  Cat(Cat(Words(L), Words(M)), Words(N)) = Cat(Words(L), Cat(Words(M), Words(N)))
<1>1. Joined(L, M) \in SUBSET Texts /\ Joined(M, N) \in SUBSET Texts
    BY JoinedFacts
<1>2. Cat(Cat(Words(L), Words(M)), Words(N)) = Words(Joined(Joined(L, M), N))
    BY <1>1, CatOf
<1>3. Cat(Words(L), Cat(Words(M), Words(N))) = Words(Joined(L, Joined(M, N)))
    BY <1>1, CatOf
<1> QED BY <1>2, <1>3, JoinedThrice

----------------------------------------------------------------------------
\* The automata and their reference languages.

\* n is sound and L is its language, cut at the bound.
Exact(n, L) == n \in Sound /\ L = Words(Lang(n))

\* Each builder of regex-node.cpp, given exact operands, is exact: one step.
LEMMA ExactStep ==
    ASSUME NEW S \in SUBSET Chars, NEW type \in PatternTypes
    PROVE  Exact(StepNfa(S, type), Letters(S))
BY StepSound, StepReads DEF Exact, Letters

\* concat: simple_re basic_re.
LEMMA ExactConcat ==
    ASSUME NEW n1, NEW L1, Exact(n1, L1), NEW n2, NEW L2, Exact(n2, L2)
    PROVE  Exact(ConcatNfa(n1, n2), Cat(L1, L2))
<1>1. n1 \in Sound /\ n2 \in Sound /\ L1 = Words(Lang(n1)) /\ L2 = Words(Lang(n2))
    BY DEF Exact
<1>2. Lang(n1) \in SUBSET Texts /\ Lang(n2) \in SUBSET Texts
    BY BeforeTexts DEF Lang
<1>3. Cat(L1, L2) = Words(Lang(ConcatNfa(n1, n2)))
    BY <1>1, <1>2, ConcatReads, CatOf
<1> QED BY <1>1, <1>3, ConcatSound DEF Exact

\* union: regex '|' simple_re.
LEMMA ExactUnion ==
    ASSUME NEW n1, NEW L1, Exact(n1, L1), NEW n2, NEW L2, Exact(n2, L2)
    PROVE  Exact(UnionNfa(n1, n2), L1 \cup L2)
<1>1. n1 \in Sound /\ n2 \in Sound /\ L1 = Words(Lang(n1)) /\ L2 = Words(Lang(n2))
    BY DEF Exact
<1>2. Lang(n1) \in SUBSET Texts /\ Lang(n2) \in SUBSET Texts
    BY BeforeTexts DEF Lang
<1>3. L1 \cup L2 = Words(Lang(UnionNfa(n1, n2)))
    BY <1>1, <1>2, UnionReads, WordsOf
<1> QED BY <1>1, <1>3, UnionSound DEF Exact

\* elementary_re '*' and elementary_re '?'.
LEMMA ExactStar ==
    ASSUME NEW n, NEW L, Exact(n, L)
    PROVE  Exact(StarNfa(n), StarLang(L)) /\ Exact(SelectNfa(n), Opt(L))
<1>1. n \in Sound /\ L = Words(Lang(n))
    BY DEF Exact
<1>2. Lang(n) \in SUBSET Texts /\ {<<>>} \in SUBSET Texts
    BY BeforeTexts, TextFacts DEF Lang
<1>3. StarLang(L) = Words(Lang(StarNfa(n)))
    BY <1>1, <1>2, StarReads, StarOf
<1>4. Opt(L) = Words(Lang(SelectNfa(n)))
    <2>1. Words({<<>>} \cup Lang(n)) = Words({<<>>}) \cup Words(Lang(n)) /\ Words({<<>>}) = {<<>>}
        BY <1>2, WordsOf
    <2> QED BY <1>1, <2>1, SelectReads DEF Opt
<1> QED BY <1>1, <1>3, <1>4, StarSound DEF Exact

\* An automaton that differs in its groups or in its type only.
LEMMA ExactSame ==
    ASSUME NEW n, NEW L, Exact(n, L), NEW m \in Sound,
           m.trans = n.trans, m.init = n.init, m.accept = n.accept
    PROVE  Exact(m, L)
BY SameReads DEF Exact

\* The type that IntNfa and DoubleNfa are given.
LEMMA ExactTyped ==
    ASSUME NEW n, NEW L, Exact(n, L), NEW type \in PatternTypes
    PROVE  Exact([n EXCEPT !.type = type], L)
<1>1. n \in NfaType /\ n \in Sound
    BY DEF Exact, Sound
<1> DEFINE m == [n EXCEPT !.type = type]
<1>2. m.trans = n.trans /\ m.init = n.init /\ m.accept = n.accept
    BY <1>1 DEF NfaType
<1>3. m \in Sound
    BY <1>1, Retyped
<1> HIDE DEF m
<1>4. Exact(m, L)
    BY <1>2, <1>3, ExactSame
<1> QED BY <1>4 DEF m

\* copyNFA.
LEMMA ExactCopy ==
    ASSUME NEW n, NEW L, Exact(n, L)
    PROVE  Exact(CopyNfa(n), L)
<1>1. n \in NfaType /\ n \in Sound
    BY DEF Exact, Sound
<1> DEFINE m == CopyNfa(n)
<1>2. m.trans = n.trans /\ m.init = n.init /\ m.accept = n.accept
    BY <1>1 DEF NfaType, CopyNfa
<1>3. m \in Sound
    BY <1>1, PlusSound
<1> HIDE DEF m
<1>4. Exact(m, L)
    BY <1>2, <1>3, ExactSame
<1> QED BY <1>4 DEF m

\* A named group.
LEMMA ExactSubmatch ==
    ASSUME NEW n, NEW L, Exact(n, L), NEW name \in Names
    PROVE  Exact(SubmatchNfa(n, name), L)
<1>1. n \in NfaType /\ n \in Sound
    BY DEF Exact, Sound
<1> DEFINE m == SubmatchNfa(n, name)
<1>2. m.trans = n.trans /\ m.init = n.init /\ m.accept = n.accept
    BY <1>1 DEF NfaType, SubmatchNfa
<1>3. m \in Sound
    BY <1>1, SubmatchSound
<1> HIDE DEF m
<1>4. Exact(m, L)
    BY <1>2, <1>3, ExactSame
<1> QED BY <1>4 DEF m

\* elementary_re '+'.
LEMMA ExactPlus ==
    ASSUME NEW n, NEW L, Exact(n, L)
    PROVE  Exact(PlusNfa(n), Cat(L, StarLang(L)))
<1>1. Exact(CopyNfa(n), L)
    BY ExactCopy
<1>2. Exact(StarNfa(CopyNfa(n)), StarLang(L))
    BY <1>1, ExactStar
<1> QED BY <1>2, ExactConcat DEF PlusNfa

\* elementary_re {num}.
LEMMA ExactNum ==
    ASSUME NEW n, NEW L, Exact(n, L), NEW num \in Nat \ {0}
    PROVE  Exact(NumNfa(n, num), Power(L, num))
<1>1. n \in Sound /\ L = Words(Lang(n)) /\ num \in Nat
    BY DEF Exact
<1>2. Lang(n) \in SUBSET Texts
    BY BeforeTexts DEF Lang
<1>3. PICK p : Repeats(p, Lang(n), num)
    BY <1>1, <1>2, RepeatsExist
<1>4. Lang(NumNfa(n, num)) = p[num]
    BY <1>1, <1>3, NumReads
<1>5. Power(L, num) = Words(p[num])
    BY <1>1, <1>2, <1>3, PowerOf
<1> QED BY <1>1, <1>4, <1>5, NumSound DEF Exact

\* ".*p" accepts what ends in a word of p.
LEMMA ExactSearch ==
    ASSUME NEW n, NEW L, Exact(n, L)
    PROVE  Exact(SearchNfa(n), Cat(StarLang(Letters(Chars)), L))
<1>1. Exact(WildcardNfa, Letters(Chars))
    BY ExactStep DEF WildcardNfa, PatternTypes
<1>2. Exact(StarNfa(WildcardNfa), StarLang(Letters(Chars)))
    BY <1>1, ExactStar
<1>3. Exact(CopyNfa(n), L)
    BY ExactCopy
<1> QED BY <1>2, <1>3, ExactConcat DEF SearchNfa

\* The keywords.
LEMMA ExactKeyword ==
    ASSUME NEW k \in {"digit", "alph", "capt", "int", "double"}
    PROVE  Exact(KeywordNfa(k), KeywordLang(k))
<1>1. IntPT \in PatternTypes /\ DoublePT \in PatternTypes /\ TextPT \in PatternTypes
    BY DEF PatternTypes
<1>2. /\ \A a, b : RangeCharsets(a, b) \in SUBSET Chars
      /\ \A S : S \cap Chars \in SUBSET Chars
      /\ Digits10 \in SUBSET Chars /\ Digits10 = RangeCharsets(48, 57)
    BY DEF RangeCharsets, Digits10
<1>3. \A S \in SUBSET Chars : Exact(CharsetsNfa(S), Letters(S))
    BY <1>1, ExactStep DEF CharsetsNfa
<1>4. /\ Exact(DigitNfa, Letters(Digits10)) /\ Exact(AlphNfa, Letters(RangeCharsets(97, 122)))
      /\ Exact(CaptNfa, Letters(RangeCharsets(65, 90)))
    BY <1>1, <1>2, ExactStep DEF DigitNfa, AlphNfa, CaptNfa
<1> DEFINE sign == Opt(Letters({43, 45} \cap Chars))
           star == StarLang(Letters(Digits10))
           natural == Letters({48} \cap Chars) \cup Cat(Letters(RangeCharsets(49, 57)), star)
           digits == Cat(Letters(Digits10), star)
           point == Letters({46} \cap Chars)
           mark == Letters({69, 101} \cap Chars)
<1>5. Exact(Sign, sign)
    BY <1>2, <1>3, ExactStar DEF Sign
<1>6. Exact(Natural0, natural)
    <2>1. Exact(StarNfa(CharsetsNfa(Digits10)), star)
        BY <1>2, <1>3, ExactStar
    <2>2. Exact(CharsetsNfa(RangeCharsets(49, 57)), Letters(RangeCharsets(49, 57)))
        BY <1>2, <1>3
    <2> HIDE DEF star
    <2>3. Exact(ConcatNfa(CharsetsNfa(RangeCharsets(49, 57)), StarNfa(CharsetsNfa(Digits10))),
                Cat(Letters(RangeCharsets(49, 57)), star))
        BY <2>1, <2>2, ExactConcat
    <2>4. Exact(CharsetsNfa({48} \cap Chars), Letters({48} \cap Chars))
        BY <1>2, <1>3
    <2> QED BY <2>3, <2>4, ExactUnion DEF Natural0
<1>7. IntLang = Cat(sign, natural)
    BY DEF IntLang
<1> HIDE DEF natural
<1>8. Exact(CharsetsNfa(Digits10), Letters(Digits10))
    BY <1>2, <1>3
<1>9. Exact(PlusNfa(CharsetsNfa(Digits10)), digits)
    BY <1>8, ExactPlus
<1>10. DoubleLang = Cat(IntLang, Cat(Cat(point, digits), Opt(Cat(mark, IntLang))))
    BY DEF DoubleLang
<1>11. Exact(CharsetsNfa({46} \cap Chars), point) /\ Exact(CharsetsNfa({69, 101} \cap Chars), mark)
    BY <1>2, <1>3
<1> HIDE DEF sign, star, digits, point, mark
<1>12. Exact(ConcatNfa(Sign, Natural0), IntLang)
    BY <1>5, <1>6, <1>7, ExactConcat
<1>13. Exact(IntNfa, IntLang)
    BY <1>1, <1>12, ExactTyped DEF IntNfa
<1> DEFINE fraction == ConcatNfa(CharsetsNfa({46} \cap Chars), PlusNfa(CharsetsNfa(Digits10)))
           marked == ConcatNfa(ConcatNfa(CharsetsNfa({69, 101} \cap Chars), Sign), Natural0)
           number == ConcatNfa(ConcatNfa(Sign, Natural0), ConcatNfa(fraction, SelectNfa(marked)))
<1>14. Exact(fraction, Cat(point, digits))
    BY <1>9, <1>11, ExactConcat
<1>15. Exact(marked, Cat(mark, IntLang))
    <2>1. Exact(ConcatNfa(CharsetsNfa({69, 101} \cap Chars), Sign), Cat(mark, sign))
        BY <1>5, <1>11, ExactConcat
    <2>2. Exact(marked, Cat(Cat(mark, sign), natural))
        BY <1>6, <2>1, ExactConcat
    <2>3. PICK A \in SUBSET Texts, B \in SUBSET Texts, C \in SUBSET Texts :
                mark = Words(A) /\ sign = Words(B) /\ natural = Words(C)
        BY <1>5, <1>6, <1>11, BeforeTexts DEF Exact, Lang
    <2>4. Cat(Cat(mark, sign), natural) = Cat(mark, Cat(sign, natural))
        BY <2>3, CatThrice
    <2> QED BY <1>7, <2>2, <2>4
<1> HIDE DEF fraction, marked
<1>16. Exact(SelectNfa(marked), Opt(Cat(mark, IntLang)))
    BY <1>15, ExactStar
<1>17. Exact(ConcatNfa(fraction, SelectNfa(marked)), Cat(Cat(point, digits), Opt(Cat(mark, IntLang))))
    BY <1>14, <1>16, ExactConcat
<1>18. Exact(number, DoubleLang)
    BY <1>10, <1>12, <1>17, ExactConcat
<1>19. Exact(DoubleNfa, DoubleLang)
    <2>1. DoubleNfa = [number EXCEPT !.type = DoublePT]
        BY DEF DoubleNfa, fraction, marked
    <2> HIDE DEF number
    <2> QED BY <1>1, <1>18, <2>1, ExactTyped
<1> QED BY <1>4, <1>13, <1>19 DEF KeywordNfa, KeywordLang

----------------------------------------------------------------------------
\* The groups.

\* The elements of a list of groups.
Elements(l) == {l[i] : i \in 1..Len(l)}

\* A group of n and the words after which it begins.
Group(n, s) == [name |-> s.name, pre |-> Words(Before(n, s.start))]

Groups(n) == {Group(n, s) : s \in Elements(n.subms)}

\* A group begins at a state of its automaton.
LEMMA ElementFacts ==
    ASSUME NEW n \in Sound
    PROVE  \A s \in Elements(n.subms) : s \in Submatches /\ s.start \in Nat /\ s.start < n.size
<1> SUFFICES ASSUME NEW i \in 1..Len(n.subms)
             PROVE  /\ n.subms[i] \in Submatches /\ n.subms[i].start \in Nat
                    /\ n.subms[i].start < n.size
    BY DEF Elements
<1>1. n.subms[i] \in Submatches /\ n.subms[i].start < n.size
    BY SoundFacts
<1> QED BY <1>1 DEF Submatches

\* Reversing the list of groups keeps them, ...
LEMMA ElementsReversed ==
    ASSUME NEW l \in Seq(Submatches)
    PROVE  Elements(Reverse(l)) = Elements(l)
<1> DEFINE N == Len(l)
           r == Reverse(l)
<1>1. N \in Nat /\ \A i \in 1..N : (N - i) + 1 \in 1..N /\ (N - ((N - i) + 1)) + 1 = i
    BY LenProperties
<1>2. r = [i \in 1..N |-> l[(N - i) + 1]]
    BY DEF Reverse
<1>3. Len(r) = N
    <2>1. \A i \in 1..N : l[(N - i) + 1] \in Submatches
        BY <1>1
    <2> HIDE DEF N
    <2> QED BY <1>1, <1>2, <2>1
<1> HIDE DEF r, N
<1>4. \A i \in 1..N : r[i] = l[(N - i) + 1] /\ r[(N - i) + 1] = l[i]
    BY <1>1, <1>2
<1>5. Elements(r) = {r[i] : i \in 1..N} /\ Elements(l) = {l[i] : i \in 1..N}
    BY <1>3 DEF Elements, N
<1>6. ASSUME NEW i \in 1..N
      PROVE  r[i] \in Elements(l) /\ l[i] \in Elements(r)
    BY <1>1, <1>4, <1>5
<1> QED BY <1>5, <1>6 DEF r

\* ... joining two lists joins them, ...
LEMMA ElementsJoined ==
    ASSUME NEW l \in Seq(Submatches), NEW r \in Seq(Submatches)
    PROVE  Elements(l \o r) = Elements(l) \cup Elements(r)
<1> DEFINE M == Len(l)
           N == Len(r)
           j == l \o r
<1>1. M \in Nat /\ N \in Nat
    OBVIOUS
<1>2. Len(j) = M + N /\ \A i \in 1..(M + N) : j[i] = IF i <= M THEN l[i] ELSE r[i - M]
    BY ConcatProperties
<1>3. /\ Elements(j) = {j[i] : i \in 1..(M + N)} /\ Elements(l) = {l[i] : i \in 1..M}
      /\ Elements(r) = {r[i] : i \in 1..N}
    BY <1>2 DEF Elements
<1> HIDE DEF j, M, N
<1>4. ASSUME NEW i \in 1..(M + N)
      PROVE  j[i] \in Elements(l) \cup Elements(r)
    <2>1. i <= M => i \in 1..M
        BY <1>1
    <2>2. ~(i <= M) => i - M \in 1..N
        BY <1>1
    <2> QED BY <1>2, <1>3, <2>1, <2>2
<1>5. ASSUME NEW i \in 1..M
      PROVE  l[i] \in Elements(j)
    <2>1. i \in 1..(M + N) /\ i <= M
        BY <1>1
    <2> QED BY <1>2, <1>3, <2>1
<1>6. ASSUME NEW i \in 1..N
      PROVE  r[i] \in Elements(j)
    <2>1. M + i \in 1..(M + N) /\ ~(M + i <= M) /\ (M + i) - M = i
        BY <1>1
    <2>2. j[M + i] = r[i]
        BY <1>2, <2>1
    <2>3. j[M + i] \in Elements(j)
        BY <1>3, <2>1
    <2> QED BY <2>2, <2>3
<1> QED BY <1>3, <1>4, <1>5, <1>6 DEF j

\* ... and moving each group moves all of them.
LEMMA ElementsShifted ==
    ASSUME NEW l \in Seq(Submatches), NEW k
    PROVE  Elements([i \in 1..Len(l) |-> ShiftSubm(l[i], k)]) = {ShiftSubm(s, k) : s \in Elements(l)}
<1> DEFINE N == Len(l)
           r == [i \in 1..N |-> ShiftSubm(l[i], k)]
<1>1. N \in Nat
    OBVIOUS
<1> HIDE DEF N
<1>2. r = [i \in 1..N |-> r[i]] /\ \A i \in 1..N : r[i] = ShiftSubm(l[i], k)
    OBVIOUS
<1>3. Len(r) = N
    <2> HIDE DEF r
    <2> QED BY <1>1, <1>2, ListOfFunction
<1> HIDE DEF r
<1> QED BY <1>2, <1>3 DEF Elements, N, r

\* The initial state of an automaton is reached by nothing but the empty text,
\* because no transition enters it.
LEMMA InitReads ==
    ASSUME NEW n \in Sound
    PROVE  Before(n, n.init) = {<<>>}
<1> DEFINE R == [q \in Nat |-> IF q = n.init THEN {<<>>} ELSE Texts]
<1>1. n.init \in Nat
    BY SoundFacts
<1>2. R \in Families
    BY TextFacts DEF Families
<1>3. Follows(n, R)
    <2>1. <<>> \in R[n.init]
        BY <1>1
    <2>2. ASSUME NEW t \in n.trans, NEW w \in R[t[1]]
          PROVE  Read(w, t[2]) \in R[t[3]]
        <3>1. /\ t[1] \in Nat /\ t[3] \in Nat /\ t[2] \in Chars \cup {EPSILON} /\ t[3] # n.init
            BY SoundFacts DEF Fits
        <3>2. w \in Texts
            BY <3>1, TextFacts
        <3>3. Read(w, t[2]) \in Texts
            BY <3>1, <3>2, ReadFacts
        <3> QED BY <3>1, <3>3
    <2> HIDE DEF R
    <2> QED BY <2>1, <2>2 DEF Follows
<1>4. Before(n, n.init) \subseteq R[n.init]
    <2> HIDE DEF R
    <2> QED BY <1>2, <1>3, BeforeLeast
<1>5. <<>> \in Before(n, n.init)
    BY BeforeFollows
<1> QED BY <1>1, <1>4, <1>5

\* Groups that begin, in an automaton m, after the words of L where they begin
\* in n after none.
LEMMA GroupsAfter ==
    ASSUME NEW n \in Sound, NEW L \in SUBSET Texts
    PROVE  After(Words(L), Groups(n)) =
              {[name |-> s.name, pre |-> Words(Joined(L, Before(n, s.start)))] :
                  s \in Elements(n.subms)}
<1> DEFINE Behind(s) == [name |-> s.name, pre |-> Words(Joined(L, Before(n, s.start)))]
           Later(g) == [g EXCEPT !.pre = Cat(Words(L), @)]
<1>1. ASSUME NEW s \in Elements(n.subms)
      PROVE  Later(Group(n, s)) = Behind(s)
    <2>1. Before(n, s.start) \in SUBSET Texts
        BY BeforeTexts
    <2>2. Cat(Words(L), Words(Before(n, s.start))) = Words(Joined(L, Before(n, s.start)))
        BY <2>1, CatOf
    <2> QED BY <2>2 DEF Group
<1>2. After(Words(L), Groups(n)) = {Later(g) : g \in Groups(n)}
    BY DEF After
<1> HIDE DEF Later, Behind
<1>3. {Later(g) : g \in Groups(n)} = {Behind(s) : s \in Elements(n.subms)}
    BY <1>1 DEF Groups
<1>4. After(Words(L), Groups(n)) = {Behind(s) : s \in Elements(n.subms)}
    BY <1>2, <1>3
<1> QED BY <1>4 DEF Behind

\* concat.
LEMMA GroupsConcat ==
    ASSUME NEW n1 \in Sound, NEW n2 \in Sound
    PROVE  Groups(ConcatNfa(n1, n2)) = Groups(n1) \cup After(Words(Lang(n1)), Groups(n2))
<1> DEFINE m == ConcatNfa(n1, n2)
           k == n1.size
           l == [i \in 1..Len(n2.subms) |-> ShiftSubm(n2.subms[i], k)]
           Behind(s) == [name |-> s.name, pre |-> Words(Joined(Lang(n1), Before(n2, s.start)))]
<1>1. k \in Nat /\ n1.subms \in Seq(Submatches) /\ n2.subms \in Seq(Submatches)
    BY SoundFacts
<1>2. l \in Seq(Submatches) /\ Elements(l) = {ShiftSubm(s, k) : s \in Elements(n2.subms)}
    BY <1>1, ShiftedGroups, ElementsShifted
<1>3. m.subms = Reverse(l) \o n1.subms
    BY DEF ConcatNfa, Nfa
<1> HIDE DEF l
<1>4. Elements(m.subms) = {ShiftSubm(s, k) : s \in Elements(n2.subms)} \cup Elements(n1.subms)
    <2>1. \A i \in 1..Len(l) : l[i] \in Submatches
        BY <1>2
    <2>2. Reverse(l) \in Seq(Submatches)
        <3> DEFINE N == Len(l)
        <3>1. N \in Nat /\ \A i \in 1..N : (N - i) + 1 \in 1..N
            BY <1>2
        <3>2. Reverse(l) = [i \in 1..N |-> l[(N - i) + 1]]
            BY DEF Reverse
        <3>3. \A i \in 1..N : l[(N - i) + 1] \in Submatches
            BY <2>1, <3>1
        <3> HIDE DEF N
        <3> QED BY <3>1, <3>2, <3>3
    <2>3. Elements(Reverse(l)) = Elements(l)
        BY <1>2, ElementsReversed
    <2> DEFINE r == Reverse(l)
    <2> HIDE DEF r
    <2>4. Elements(r \o n1.subms) = Elements(r) \cup Elements(n1.subms)
        BY <1>1, <2>2, ElementsJoined DEF r
    <2> QED BY <1>2, <1>3, <2>3, <2>4 DEF r
<1>5. ASSUME NEW s \in Elements(n1.subms)
      PROVE  Group(m, s) = Group(n1, s)
    <2>1. s.start \in Nat /\ s.start < n1.size
        BY ElementFacts
    <2>2. Before(m, s.start) = Before(n1, s.start)
        BY <2>1, ConcatReads
    <2> QED BY <2>2 DEF Group
<1>6. ASSUME NEW s \in Elements(n2.subms)
      PROVE  Group(m, ShiftSubm(s, k)) = Behind(s)
    <2>1. s \in Submatches /\ s.start \in Nat
        BY ElementFacts
    <2>2. ShiftSubm(s, k).start = k + s.start
        <3>1. ShiftSubm(s, k).start = s.start + k
            BY <1>1, <2>1, ShiftedGroup
        <3>2. s.start + k = k + s.start
            BY <1>1, <2>1
        <3> QED BY <3>1, <3>2
    <2>3. ShiftSubm(s, k).name = s.name
        BY <2>1 DEF ShiftSubm, Submatches
    <2>4. Before(m, k + s.start) = Joined(Lang(n1), Before(n2, s.start))
        BY <2>1, ConcatReads
    <2> QED BY <2>2, <2>3, <2>4 DEF Group
<1> HIDE DEF m, k
<1>7. Groups(m) = {Group(m, ShiftSubm(s, k)) : s \in Elements(n2.subms)}
                    \cup {Group(m, s) : s \in Elements(n1.subms)}
    BY <1>4 DEF Groups
<1>8. {Group(m, s) : s \in Elements(n1.subms)} = Groups(n1)
    BY <1>5 DEF Groups
<1>9. {Group(m, ShiftSubm(s, k)) : s \in Elements(n2.subms)} = {Behind(s) : s \in Elements(n2.subms)}
    <2> HIDE DEF Behind
    <2> QED BY <1>6
<1>10. Lang(n1) \in SUBSET Texts
    BY BeforeTexts DEF Lang
<1>11. After(Words(Lang(n1)), Groups(n2)) = {Behind(s) : s \in Elements(n2.subms)}
    BY <1>10, GroupsAfter
<1> QED BY <1>7, <1>8, <1>9, <1>11 DEF m

\* star.
LEMMA GroupsStar ==
    ASSUME NEW n \in Sound
    PROVE  Groups(StarNfa(n)) = After(Words(Star(Lang(n))), Groups(n))
<1> DEFINE m == StarNfa(n)
           A == Star(Lang(n))
           Behind(s) == [name |-> s.name, pre |-> Words(Joined(A, Before(n, s.start)))]
<1>1. m.subms = n.subms
    BY DEF StarNfa, Nfa
<1>2. ASSUME NEW s \in Elements(n.subms)
      PROVE  Group(m, s) = Behind(s)
    <2>1. s.start \in Nat /\ s.start < n.size
        BY ElementFacts
    <2>2. Before(m, s.start) = Joined(A, Before(n, s.start))
        BY <2>1, StarReads
    <2> QED BY <2>2 DEF Group
<1>3. A \in SUBSET Texts
    BY BeforeTexts, StarFacts DEF Lang
<1> HIDE DEF m, A
<1>4. After(Words(A), Groups(n)) = {Behind(s) : s \in Elements(n.subms)}
    BY <1>3, GroupsAfter
<1> HIDE DEF Behind
<1>5. Groups(m) = {Behind(s) : s \in Elements(n.subms)}
    BY <1>1, <1>2 DEF Groups
<1> QED BY <1>4, <1>5 DEF m, A

\* An automaton whose groups are those of n, at states that n reaches as well.
LEMMA GroupsSame ==
    ASSUME NEW n \in Sound, NEW m, Elements(m.subms) = Elements(n.subms),
           \A q \in Nat : q < n.size => Before(m, q) = Before(n, q)
    PROVE  Groups(m) = Groups(n)
<1>1. ASSUME NEW s \in Elements(n.subms)
      PROVE  Group(m, s) = Group(n, s)
    <2>1. s.start \in Nat /\ s.start < n.size
        BY ElementFacts
    <2> QED BY <2>1 DEF Group
<1> QED BY <1>1 DEF Groups

\* select, {num} and copyNFA: the groups stay where they were.
LEMMA GroupsKept ==
    ASSUME NEW n \in Sound
    PROVE  /\ Groups(SelectNfa(n)) = Groups(n)
           /\ \A num \in Nat \ {0} : Groups(NumNfa(n, num)) = Groups(n)
           /\ Groups(CopyNfa(n)) = Groups(n)
<1>1. Groups(SelectNfa(n)) = Groups(n)
    <2>1. SelectNfa(n).subms = n.subms
        BY DEF SelectNfa, Nfa
    <2>2. \A q \in Nat : q < n.size => Before(SelectNfa(n), q) = Before(n, q)
        BY SelectReads
    <2> QED BY <2>1, <2>2, GroupsSame
<1>2. ASSUME NEW num \in Nat \ {0}
      PROVE  Groups(NumNfa(n, num)) = Groups(n)
    <2>1. NumNfa(n, num).subms = n.subms
        BY DEF NumNfa, Nfa
    <2>2. Lang(n) \in SUBSET Texts /\ num \in Nat
        BY BeforeTexts DEF Lang
    <2>3. PICK p : Repeats(p, Lang(n), num)
        BY <2>2, RepeatsExist
    <2>4. \A q \in Nat : q < n.size => Before(NumNfa(n, num), q) = Before(n, q)
        BY <2>3, NumReads
    <2> QED BY <2>1, <2>4, GroupsSame
<1>3. Groups(CopyNfa(n)) = Groups(n)
    <2> DEFINE m == CopyNfa(n)
    <2>1. n \in NfaType /\ n.subms \in Seq(Submatches)
        BY SoundFacts DEF Sound
    <2>2. m.trans = n.trans /\ m.init = n.init /\ m.accept = n.accept /\ m.subms = Reverse(n.subms)
        BY <2>1 DEF NfaType, CopyNfa
    <2>3. Elements(m.subms) = Elements(n.subms)
        BY <2>1, <2>2, ElementsReversed
    <2> HIDE DEF m
    <2>4. \A q : Before(m, q) = Before(n, q)
        BY <2>2, SameReads
    <2>5. Groups(m) = Groups(n)
        BY <2>3, <2>4, GroupsSame
    <2> QED BY <2>5 DEF m
<1> QED BY <1>1, <1>2, <1>3

\* The repetition: once, or after words of the operand and of its repetition.
LEMMA GroupsPlus ==
    ASSUME NEW n \in Sound
    PROVE  Groups(PlusNfa(n)) =
              Groups(n) \cup After(Cat(Words(Lang(n)), Words(Star(Lang(n)))), Groups(n))
<1> DEFINE c == CopyNfa(n)
           L == Lang(n)
           A == Star(L)
           Once(s) == [name |-> s.name, pre |-> Words(Joined(A, Before(n, s.start)))]
           Behind(s) == [name |-> s.name, pre |-> Words(Joined(Joined(L, A), Before(n, s.start)))]
<1>1. c \in Sound /\ StarNfa(c) \in Sound /\ Groups(c) = Groups(n) /\ Lang(c) = L
    <2>1. n \in NfaType
        BY DEF Sound
    <2>2. c.trans = n.trans /\ c.init = n.init /\ c.accept = n.accept
        BY <2>1 DEF NfaType, CopyNfa
    <2>3. c \in Sound
        BY PlusSound
    <2>4. Groups(c) = Groups(n)
        BY GroupsKept
    <2> HIDE DEF c
    <2>5. Lang(c) = Lang(n)
        BY <2>2, SameReads
    <2> QED BY <2>3, <2>4, <2>5, StarSound
<1>2. L \in SUBSET Texts
    BY BeforeTexts DEF Lang
<1> HIDE DEF L
<1>3. A \in SUBSET Texts /\ Joined(L, A) \in SUBSET Texts
    BY <1>2, StarFacts, JoinedFacts
<1>4. PlusNfa(n) = ConcatNfa(n, StarNfa(c))
    BY DEF PlusNfa
<1> HIDE DEF c
<1>5. Groups(StarNfa(c)) = After(Words(A), Groups(n))
    BY <1>1, GroupsStar
<1>6. Groups(PlusNfa(n)) = Groups(n) \cup After(Words(L), After(Words(A), Groups(n)))
    BY <1>1, <1>4, <1>5, GroupsConcat DEF L
<1> HIDE DEF A
<1>7. After(Words(A), Groups(n)) = {Once(s) : s \in Elements(n.subms)}
    BY <1>3, GroupsAfter
<1>8. After(Words(L), {Once(s) : s \in Elements(n.subms)}) = {Behind(s) : s \in Elements(n.subms)}
    <2>1. ASSUME NEW s \in Elements(n.subms)
          PROVE  LET g == Once(s) IN [g EXCEPT !.pre = Cat(Words(L), @)] = Behind(s)
        <3> DEFINE P == Before(n, s.start)
        <3>1. P \in SUBSET Texts
            BY BeforeTexts
        <3> HIDE DEF P
        <3>2. Joined(A, P) \in SUBSET Texts
            BY <1>3, <3>1, JoinedFacts
        <3>3. Cat(Words(L), Words(Joined(A, P))) = Words(Joined(L, Joined(A, P)))
            BY <1>2, <3>2, CatOf
        <3>4. Joined(L, Joined(A, P)) = Joined(Joined(L, A), P)
            BY <1>2, <1>3, <3>1, JoinedThrice
        <3> QED BY <3>3, <3>4 DEF P
    <2> HIDE DEF Once, Behind
    <2> QED BY <2>1 DEF After
<1>9. Cat(Words(L), Words(A)) = Words(Joined(L, A))
    BY <1>2, <1>3, CatOf
<1>10. After(Words(Joined(L, A)), Groups(n)) = {Behind(s) : s \in Elements(n.subms)}
    BY <1>3, GroupsAfter
<1> HIDE DEF Once, Behind
<1> QED BY <1>6, <1>7, <1>8, <1>9, <1>10 DEF L, A

\* A named group begins where the automaton of its body begins: after nothing.
LEMMA GroupsSubmatch ==
    ASSUME NEW n \in Sound, NEW name \in Names
    PROVE  Groups(SubmatchNfa(n, name)) = Groups(n) \cup {[name |-> name, pre |-> {<<>>}]}
<1> DEFINE m == SubmatchNfa(n, name)
           s == [start |-> n.init, end |-> n.accept - n.init + 1, name |-> name, type |-> n.type]
           h == <<s>>
<1>1. n \in NfaType /\ n.subms \in Seq(Submatches) /\ n.init \in Nat /\ n.accept \in Nat
      /\ n.type \in PatternTypes
    BY SoundFacts DEF Sound
<1>2. m.trans = n.trans /\ m.init = n.init /\ m.accept = n.accept /\ m.subms = h \o n.subms
    BY <1>1 DEF NfaType, SubmatchNfa
<1>3. s \in Submatches /\ s.name = name /\ s.start = n.init
    BY <1>1 DEF Submatches
<1> HIDE DEF s, m
<1>4. h \in Seq(Submatches) /\ Elements(h) = {s}
    <2>1. h \in Seq(Submatches) /\ Len(h) = 1 /\ h[1] = s
        BY <1>3
    <2> HIDE DEF h
    <2>2. Elements(h) = {h[i] : i \in 1..1}
        BY <2>1 DEF Elements
    <2> QED BY <2>1, <2>2
<1>5. Elements(m.subms) = {s} \cup Elements(n.subms)
    <2> HIDE DEF h
    <2> QED BY <1>1, <1>2, <1>4, ElementsJoined
<1>6. \A q : Before(m, q) = Before(n, q)
    BY <1>2, SameReads
<1>7. \A t : Group(m, t) = Group(n, t)
    BY <1>6 DEF Group
<1>8. Group(n, s) = [name |-> name, pre |-> {<<>>}]
    <2>1. {<<>>} \in SUBSET Texts
        BY TextFacts
    <2>2. Words(Before(n, n.init)) = {<<>>}
        BY <2>1, InitReads, WordsOf
    <2> QED BY <1>3, <2>2 DEF Group
<1>9. Groups(m) = {Group(n, t) : t \in {s} \cup Elements(n.subms)}
    BY <1>5, <1>7 DEF Groups
<1>10. Groups(m) = Groups(n) \cup {Group(n, s)}
    BY <1>9 DEF Groups
<1> QED BY <1>8, <1>10 DEF m

\* One step and the alternation have no groups.
LEMMA GroupsNone ==
    /\ \A S, type : Groups(StepNfa(S, type)) = {}
    /\ \A n1, n2 : Groups(UnionNfa(n1, n2)) = {}
<1>1. ASSUME NEW n, n.subms = <<>>
      PROVE  Groups(n) = {}
    <2>1. Len(n.subms) = 0
        BY <1>1
    <2> QED BY <2>1 DEF Groups, Elements
<1>2. \A S, type : StepNfa(S, type).subms = <<>>
    BY DEF StepNfa, Nfa
<1>3. \A n1, n2 : UnionNfa(n1, n2).subms = <<>>
    BY DEF UnionNfa, Nfa
<1> QED BY <1>1, <1>2, <1>3

\* The keywords have no groups.
LEMMA GroupsKeyword ==
    ASSUME NEW k \in {"digit", "alph", "capt", "int", "double"}
    PROVE  Groups(KeywordNfa(k)) = {}
<1>1. \A L : After(L, {}) = {}
    BY DEF After
<1>2. ASSUME NEW n1 \in Sound, NEW n2 \in Sound, Groups(n1) = {}, Groups(n2) = {}
      PROVE  ConcatNfa(n1, n2) \in Sound /\ Groups(ConcatNfa(n1, n2)) = {}
    BY <1>1, <1>2, GroupsConcat, ConcatSound
<1>3. ASSUME NEW n \in Sound, Groups(n) = {}
      PROVE  /\ StarNfa(n) \in Sound /\ Groups(StarNfa(n)) = {}
             /\ SelectNfa(n) \in Sound /\ Groups(SelectNfa(n)) = {}
             /\ PlusNfa(n) \in Sound /\ Groups(PlusNfa(n)) = {}
    <2>1. StarNfa(n) \in Sound /\ SelectNfa(n) \in Sound /\ PlusNfa(n) \in Sound
        BY StarSound, PlusSound
    <2>2. Groups(StarNfa(n)) = {} /\ Groups(PlusNfa(n)) = {}
        BY <1>1, <1>3, GroupsStar, GroupsPlus
    <2>3. Groups(SelectNfa(n)) = {}
        BY <1>3, GroupsKept
    <2> QED BY <2>1, <2>2, <2>3
<1>4. ASSUME NEW n \in Sound, Groups(n) = {}, NEW type
      PROVE  Groups([n EXCEPT !.type = type]) = {}
    <2> DEFINE m == [n EXCEPT !.type = type]
    <2>1. m.subms = n.subms /\ m.trans = n.trans /\ m.init = n.init /\ m.accept = n.accept
        <3>1. n \in NfaType
            BY DEF Sound
        <3> QED BY <3>1 DEF NfaType
    <2> HIDE DEF m
    <2>2. \A q : Before(m, q) = Before(n, q)
        BY <2>1, SameReads
    <2>3. Groups(m) = Groups(n)
        BY <2>1, <2>2, GroupsSame
    <2> QED BY <1>4, <2>3 DEF m
<1>5. /\ \A a, b : RangeCharsets(a, b) \in SUBSET Chars
      /\ \A S : S \cap Chars \in SUBSET Chars
      /\ Digits10 \in SUBSET Chars
    BY DEF RangeCharsets, Digits10
<1>6. \A S \in SUBSET Chars : CharsetsNfa(S) \in Sound /\ Groups(CharsetsNfa(S)) = {}
    BY StepSound, GroupsNone DEF CharsetsNfa, PatternTypes
<1>7. Groups(DigitNfa) = {} /\ Groups(AlphNfa) = {} /\ Groups(CaptNfa) = {}
    BY GroupsNone DEF DigitNfa, AlphNfa, CaptNfa
<1>8. Sign \in Sound /\ Groups(Sign) = {}
    BY <1>3, <1>5, <1>6 DEF Sign
<1>9. Natural0 \in Sound /\ Groups(Natural0) = {}
    <2>1. StarNfa(CharsetsNfa(Digits10)) \in Sound
        BY <1>3, <1>5, <1>6
    <2>2. ConcatNfa(CharsetsNfa(RangeCharsets(49, 57)), StarNfa(CharsetsNfa(Digits10))) \in Sound
        BY <1>5, <1>6, <2>1, ConcatSound
    <2> QED BY <1>5, <1>6, <2>2, UnionSound, GroupsNone DEF Natural0
<1> DEFINE int == ConcatNfa(Sign, Natural0)
           fraction == ConcatNfa(CharsetsNfa({46} \cap Chars), PlusNfa(CharsetsNfa(Digits10)))
           marked == ConcatNfa(ConcatNfa(CharsetsNfa({69, 101} \cap Chars), Sign), Natural0)
           number == ConcatNfa(int, ConcatNfa(fraction, SelectNfa(marked)))
<1>10. int \in Sound /\ Groups(int) = {}
    BY <1>2, <1>8, <1>9
<1>11. fraction \in Sound /\ Groups(fraction) = {}
    <2>1. PlusNfa(CharsetsNfa(Digits10)) \in Sound /\ Groups(PlusNfa(CharsetsNfa(Digits10))) = {}
        BY <1>3, <1>5, <1>6
    <2> QED BY <1>2, <1>5, <1>6, <2>1
<1>12. marked \in Sound /\ Groups(marked) = {}
    <2> DEFINE c == ConcatNfa(CharsetsNfa({69, 101} \cap Chars), Sign)
    <2>1. c \in Sound /\ Groups(c) = {}
        BY <1>2, <1>5, <1>6, <1>8
    <2> HIDE DEF c
    <2>2. ConcatNfa(c, Natural0) \in Sound /\ Groups(ConcatNfa(c, Natural0)) = {}
        BY <1>2, <1>9, <2>1
    <2> QED BY <2>2 DEF c
<1>13. IntNfa = [int EXCEPT !.type = IntPT] /\ DoubleNfa = [number EXCEPT !.type = DoublePT]
    BY DEF IntNfa, DoubleNfa
<1> HIDE DEF int, fraction, marked
<1>14. number \in Sound /\ Groups(number) = {}
    <2>1. ConcatNfa(fraction, SelectNfa(marked)) \in Sound
          /\ Groups(ConcatNfa(fraction, SelectNfa(marked))) = {}
        BY <1>2, <1>3, <1>11, <1>12
    <2> QED BY <1>2, <1>10, <2>1
<1> HIDE DEF number
<1>15. Groups(IntNfa) = {} /\ Groups(DoubleNfa) = {}
    BY <1>4, <1>10, <1>13, <1>14
<1> QED BY <1>7, <1>15 DEF KeywordNfa

----------------------------------------------------------------------------
\* What the model computes.

\* The states that T leads to by one epsilon.
EpsStep(n, T) == T \cup {t[3] : t \in {u \in n.trans : u[1] \in T /\ u[2] = EPSILON}}

\* What the recursive function of EpsClosure computes.
LEMMA ClosureIterates ==
    ASSUME NEW n \in Sound, NEW S \in SUBSET (0..(n.size - 1))
    PROVE  \E f \in [0..n.size -> SUBSET (0..(n.size - 1))] :
                /\ f[0] = S /\ \A k \in 1..n.size : f[k] = EpsStep(n, f[k - 1])
                /\ EpsClosure(n, S) = f[n.size]
<1> DEFINE V == SUBSET (0..(n.size - 1))
           N == n.size
           Closes(g) == g = [k \in 0..n.size |-> IF k = 0 THEN S ELSE
                g[k - 1] \cup {t[3] : t \in {u \in n.trans : u[1] \in g[k - 1] /\ u[2] = EPSILON}}]
           Step == [k \in 1..N |-> [T \in V |-> EpsStep(n, T)]]
           f == CHOOSE g : Closes(g)
<1>1. N \in Nat /\ N = n.size
    BY SoundFacts
<1>2. \A T \in V : EpsStep(n, T) \in V
    <2>1. \A t \in n.trans : t[3] \in 0..(n.size - 1)
        BY DEF Sound, Thompson
    <2> QED BY <2>1 DEF EpsStep
<1>3. Step \in [1..N -> [V -> V]] /\ S \in V
    BY <1>2
<1>4. PICK g \in [0..N -> V] : Iterates(g, N, S, Step)
    <2> HIDE DEF Step, V, N
    <2> QED BY <1>1, <1>3, Recursion
<1>5. Closes(g)
    <2>1. ASSUME NEW k \in 0..N
          PROVE  g[k] = IF k = 0 THEN S ELSE EpsStep(n, g[k - 1])
        <3>1. CASE k = 0
            BY <1>4, <3>1 DEF Iterates
        <3>2. CASE k # 0
            <4>1. k \in 1..N /\ k - 1 \in 0..N
                BY <1>1, <3>2
            <4>2. g[k] = Step[k][g[k - 1]] /\ g[k - 1] \in V
                BY <1>4, <4>1 DEF Iterates
            <4> HIDE DEF V
            <4>3. Step[k][g[k - 1]] = EpsStep(n, g[k - 1])
                BY <4>1, <4>2
            <4> QED BY <3>2, <4>2, <4>3
        <3> QED BY <3>1, <3>2
    <2> QED BY <1>4, <2>1 DEF EpsStep
<1>6. Closes(f)
    BY <1>5, Zenon
<1>7. EpsClosure(n, S) = f[n.size]
    BY Zenon DEF EpsClosure
<1> HIDE DEF f
<1>8. f = [k \in 0..N |-> IF k = 0 THEN S ELSE EpsStep(n, f[k - 1])]
    BY <1>6, Zenon DEF EpsStep
<1> HIDE DEF N
<1>9. f[0] = S /\ \A k \in 1..N : f[k] = EpsStep(n, f[k - 1])
    <2>1. f[0] = S
        BY <1>1, <1>8
    <2>2. ASSUME NEW k \in 1..N
          PROVE  f[k] = EpsStep(n, f[k - 1])
        <3>1. k \in 0..N /\ k # 0
            BY <1>1
        <3> QED BY <1>8, <3>1
    <2> QED BY <2>1, <2>2
<1>10. f \in [0..N -> V]
    <2> HIDE DEF V
    <2> DEFINE I == {k \in Nat : k <= N => f[k] \in V}
    <2>1. 0 \in I
        BY <1>3, <1>9
    <2>2. ASSUME NEW k \in Nat, k \in I
          PROVE  k + 1 \in I
        <3>1. k + 1 <= N => k + 1 \in 1..N /\ (k + 1) - 1 = k /\ k <= N
            BY <1>1
        <3> QED BY <1>2, <1>9, <2>2, <3>1
    <2>3. \A k \in Nat : k \in I
        <3> HIDE DEF I
        <3> QED BY <2>1, <2>2, Induction
    <2>4. \A k \in 0..N : f[k] \in V
        BY <1>1, <2>3
    <2>5. f = [k \in 0..N |-> f[k]]
        BY <1>8
    <2> QED BY <2>4, <2>5
<1> QED BY <1>1, <1>7, <1>9, <1>10

\* The closure under the epsilons: as many steps as there are states reach
\* every state that can be reached, because a step that reaches a new state
\* makes the set larger.
LEMMA ClosureExact ==
    ASSUME NEW n \in Sound, NEW S \in SUBSET (0..(n.size - 1))
    PROVE  /\ EpsClosure(n, S) \in SUBSET (0..(n.size - 1)) /\ S \subseteq EpsClosure(n, S)
           /\ \A t \in n.trans : t[2] = EPSILON /\ t[1] \in EpsClosure(n, S)
                                    => t[3] \in EpsClosure(n, S)
           /\ \A T : /\ S \subseteq T
                     /\ \A t \in n.trans : t[2] = EPSILON /\ t[1] \in T => t[3] \in T
                     => EpsClosure(n, S) \subseteq T
<1> DEFINE N == n.size
           U == 0..(N - 1)
<1>1. PICK f \in [0..N -> SUBSET U] :
            /\ f[0] = S /\ \A k \in 1..N : f[k] = EpsStep(n, f[k - 1])
            /\ EpsClosure(n, S) = f[N]
    BY ClosureIterates
<1>2. N \in Nat
    BY SoundFacts
<1>3. IsFiniteSet(U) /\ Cardinality(U) = N
    <2>1. 0 \in Int /\ N - 1 \in Int
        BY <1>2
    <2>2. IsFiniteSet(U) /\ Cardinality(U) = IF 0 > N - 1 THEN 0 ELSE (N - 1) - 0 + 1
        BY <2>1, FS_Interval
    <2> QED BY <1>2, <2>2
<1>4. \A t \in n.trans : t[3] \in U
    BY DEF Sound, Thompson
<1> HIDE DEF N, U
<1>5. \A k \in Nat : k + 1 <= N => /\ k \in 0..N /\ k + 1 \in 1..N /\ k + 1 \in 0..N
                                   /\ f[k + 1] = EpsStep(n, f[k])
                                   /\ f[k] \in SUBSET U /\ f[k + 1] \in SUBSET U
    <2> SUFFICES ASSUME NEW k \in Nat, k + 1 <= N
                 PROVE  /\ k \in 0..N /\ k + 1 \in 1..N /\ k + 1 \in 0..N
                        /\ f[k + 1] = EpsStep(n, f[k])
                        /\ f[k] \in SUBSET U /\ f[k + 1] \in SUBSET U
        OBVIOUS
    <2>1. k \in 0..N /\ k + 1 \in 1..N /\ k + 1 \in 0..N /\ (k + 1) - 1 = k
        BY <1>2
    <2> QED BY <1>1, <2>1
<1>6. \A T : T \subseteq EpsStep(n, T)
    BY DEF EpsStep
\* Either nothing is left to reach, or there are k states by now.
<1>7. \A k \in Nat : k <= N => EpsStep(n, f[k]) = f[k] \/ Cardinality(f[k]) >= k
    <2> DEFINE I == {k \in Nat : k <= N => EpsStep(n, f[k]) = f[k] \/ Cardinality(f[k]) >= k}
    <2>1. 0 \in I
        <3>1. f[0] \in SUBSET U
            BY <1>1, <1>2
        <3>2. IsFiniteSet(f[0])
            BY <1>3, <3>1, FS_Subset
        <3>3. Cardinality(f[0]) \in Nat
            BY <3>2, FS_CardinalityType
        <3> QED BY <3>3
    <2>2. ASSUME NEW k \in Nat, k \in I
          PROVE  k + 1 \in I
        <3> SUFFICES ASSUME k + 1 <= N
                     PROVE  EpsStep(n, f[k + 1]) = f[k + 1] \/ Cardinality(f[k + 1]) >= k + 1
            OBVIOUS
        <3>1. k <= N
            BY <1>2
        <3>2. f[k + 1] = EpsStep(n, f[k]) /\ f[k] \in SUBSET U /\ f[k + 1] \in SUBSET U
            BY <1>5
        <3>3. CASE EpsStep(n, f[k]) = f[k]
            BY <3>2, <3>3
        <3>4. CASE EpsStep(n, f[k]) # f[k]
            <4>1. IsFiniteSet(f[k + 1]) /\ IsFiniteSet(f[k])
                BY <1>3, <3>2, FS_Subset
            <4>2. f[k] \in SUBSET f[k + 1] /\ f[k + 1] # f[k]
                BY <1>6, <3>2, <3>4
            <4>3. Cardinality(f[k]) <= Cardinality(f[k + 1]) /\ Cardinality(f[k + 1]) # Cardinality(f[k])
                BY <4>1, <4>2, FS_Subset
            <4>4. Cardinality(f[k]) \in Nat /\ Cardinality(f[k + 1]) \in Nat
                BY <4>1, FS_CardinalityType
            <4>5. Cardinality(f[k]) >= k
                BY <2>2, <3>1, <3>4
            <4> QED BY <4>3, <4>4, <4>5
        <3> QED BY <3>3, <3>4
    <2>3. \A k \in Nat : k \in I
        <3> HIDE DEF I
        <3> QED BY <2>1, <2>2, Induction
    <2> QED BY <2>3
<1>8. f[N] \in SUBSET U
    <2>1. N \in 0..N
        BY <1>2
    <2> QED BY <1>1, <2>1
<1>9. EpsStep(n, f[N]) = f[N]
    <2>1. CASE Cardinality(f[N]) >= N
        <3>1. IsFiniteSet(f[N]) /\ Cardinality(f[N]) <= Cardinality(U)
              /\ (Cardinality(U) = Cardinality(f[N]) => U = f[N])
            BY <1>3, <1>8, FS_Subset
        <3>2. Cardinality(f[N]) \in Nat
            BY <3>1, FS_CardinalityType
        <3>3. U = f[N]
            BY <1>2, <1>3, <2>1, <3>1, <3>2
        <3>4. EpsStep(n, U) \subseteq U
            BY <1>4 DEF EpsStep
        <3> QED BY <1>6, <3>3, <3>4
    <2>2. N <= N
        BY <1>2
    <2> QED BY <1>2, <1>7, <2>1, <2>2
<1>10. ASSUME NEW t \in n.trans, t[2] = EPSILON, t[1] \in f[N]
       PROVE  t[3] \in f[N]
    <2>1. t[3] \in EpsStep(n, f[N])
        BY <1>10 DEF EpsStep
    <2> QED BY <1>9, <2>1
<1>11. ASSUME NEW T, S \subseteq T,
              \A t \in n.trans : t[2] = EPSILON /\ t[1] \in T => t[3] \in T
       PROVE  f[N] \subseteq T
    <2> DEFINE I == {k \in Nat : k <= N => f[k] \subseteq T}
    <2>1. 0 \in I
        BY <1>1, <1>11
    <2>2. ASSUME NEW k \in Nat, k \in I
          PROVE  k + 1 \in I
        <3> SUFFICES ASSUME k + 1 <= N PROVE f[k + 1] \subseteq T
            OBVIOUS
        <3>1. k <= N /\ f[k + 1] = EpsStep(n, f[k])
            BY <1>2, <1>5
        <3>2. f[k] \subseteq T
            BY <2>2, <3>1
        <3>3. EpsStep(n, f[k]) \subseteq T
            BY <1>11, <3>2 DEF EpsStep
        <3> QED BY <3>1, <3>3
    <2>3. \A k \in Nat : k \in I
        <3> HIDE DEF I
        <3> QED BY <2>1, <2>2, Induction
    <2>4. N <= N
        BY <1>2
    <2> QED BY <1>2, <2>3, <2>4
<1>12. S \subseteq f[N]
    <2> DEFINE I == {k \in Nat : k <= N => S \subseteq f[k]}
    <2>1. 0 \in I
        BY <1>1
    <2>2. ASSUME NEW k \in Nat, k \in I
          PROVE  k + 1 \in I
        <3> SUFFICES ASSUME k + 1 <= N PROVE S \subseteq f[k + 1]
            OBVIOUS
        <3>1. k <= N /\ f[k + 1] = EpsStep(n, f[k])
            BY <1>2, <1>5
        <3> QED BY <1>6, <2>2, <3>1
    <2>3. \A k \in Nat : k \in I
        <3> HIDE DEF I
        <3> QED BY <2>1, <2>2, Induction
    <2>4. N <= N
        BY <1>2
    <2> QED BY <1>2, <2>3, <2>4
<1> QED BY <1>1, <1>8, <1>10, <1>11, <1>12 DEF N, U

\* The states that a text leads to.
Reached(n, w) == {q \in 0..(n.size - 1) : w \in Before(n, q)}

\* The states that S leads to by c, before the closure.
ByChar(n, S, c) == {t[3] : t \in {u \in n.trans : u[1] \in S /\ u[2] = c}}

\* A move is the closure of what a letter leads to.
LEMMA MoveIs ==
    ASSUME NEW n, NEW S, NEW c
    PROVE  Move(n, S, c) = EpsClosure(n, ByChar(n, S, c))
BY DEF Move, ByChar

\* A state that a text leads to is one of the automaton.
LEMMA ReachedFacts ==
    ASSUME NEW n \in Sound, NEW w
    PROVE  /\ Reached(n, w) \in SUBSET (0..(n.size - 1))
           /\ \A q \in Nat : q \in Reached(n, w) <=> w \in Before(n, q)
           /\ \A t \in n.trans : t[2] = EPSILON /\ t[1] \in Reached(n, w) => t[3] \in Reached(n, w)
<1>1. n.size \in Nat
    BY SoundFacts
<1>2. \A q \in Nat : q \in Reached(n, w) <=> w \in Before(n, q)
    <2> SUFFICES ASSUME NEW q \in Nat, w \in Before(n, q)
                 PROVE  q \in 0..(n.size - 1)
        BY DEF Reached
    <2>1. q < n.size
        BY BeforeRange
    <2> QED BY <1>1, <2>1
<1>3. ASSUME NEW t \in n.trans, t[2] = EPSILON, t[1] \in Reached(n, w)
      PROVE  t[3] \in Reached(n, w)
    <2>1. t[1] \in Nat /\ t[3] \in Nat
        BY SoundFacts
    <2>2. w \in Before(n, t[1])
        BY <1>3 DEF Reached
    <2>3. Read(w, t[2]) \in Before(n, t[3])
        BY <2>2, BeforeFollows
    <2>4. w \in Before(n, t[3])
        BY <1>3, <2>3 DEF Read
    <2> QED BY <1>2, <2>1, <2>4
<1> QED BY <1>2, <1>3 DEF Reached

\* The model's steps from set of states to set of states are exactly what the
\* texts lead to.
LEMMA MoveExact ==
    ASSUME NEW n \in Sound
    PROVE  /\ EpsClosure(n, {n.init}) = Reached(n, <<>>)
           /\ \A w \in Texts, c \in Chars : Move(n, Reached(n, w), c) = Reached(n, Append(w, c))
<1> DEFINE U == 0..(n.size - 1)
           C0 == EpsClosure(n, {n.init})
           R == [q \in Nat |-> {w \in Before(n, q) :
                    \/ w = <<>> /\ q \in C0
                    \/ \E v \in Texts, c \in Chars : w = Append(v, c) /\ q \in Move(n, Reached(n, v), c)}]
<1>1. n.init \in Nat /\ n.size \in Nat /\ {n.init} \in SUBSET U
    BY SoundFacts
<1>2. \A S, c : ByChar(n, S, c) \in SUBSET U
    <2>1. \A t \in n.trans : t[3] \in U
        BY DEF Sound, Thompson
    <2> HIDE DEF U
    <2> QED BY <2>1 DEF ByChar
<1>3. /\ n.init \in C0 /\ C0 \in SUBSET U
      /\ \A t \in n.trans : t[2] = EPSILON /\ t[1] \in C0 => t[3] \in C0
    <2>1. C0 \in SUBSET U /\ {n.init} \subseteq C0
        BY <1>1, ClosureExact
    <2>2. \A t \in n.trans : t[2] = EPSILON /\ t[1] \in C0 => t[3] \in C0
        BY <1>1, ClosureExact
    <2> QED BY <2>1, <2>2
<1>4. ASSUME NEW S, NEW c
      PROVE  /\ ByChar(n, S, c) \subseteq Move(n, S, c) /\ Move(n, S, c) \in SUBSET U
             /\ \A t \in n.trans : t[2] = EPSILON /\ t[1] \in Move(n, S, c) => t[3] \in Move(n, S, c)
    <2>1. ByChar(n, S, c) \in SUBSET U
        BY <1>2
    <2> DEFINE B == ByChar(n, S, c)
    <2> HIDE DEF B
    <2>2. /\ EpsClosure(n, B) \in SUBSET U /\ B \subseteq EpsClosure(n, B)
          /\ \A t \in n.trans : t[2] = EPSILON /\ t[1] \in EpsClosure(n, B) => t[3] \in EpsClosure(n, B)
        BY <2>1, ClosureExact DEF B
    <2> QED BY <2>2, MoveIs DEF B
\* Every state computed is reached.
<1>5. C0 \subseteq Reached(n, <<>>)
    <2>1. {n.init} \subseteq Reached(n, <<>>)
        BY <1>1, BeforeFollows, ReachedFacts
    <2>2. \A t \in n.trans : t[2] = EPSILON /\ t[1] \in Reached(n, <<>>) => t[3] \in Reached(n, <<>>)
        BY ReachedFacts
    <2> QED BY <1>1, <2>1, <2>2, ClosureExact
<1>6. ASSUME NEW w \in Texts, NEW c \in Chars
      PROVE  Move(n, Reached(n, w), c) \subseteq Reached(n, Append(w, c))
    <2> DEFINE B == ByChar(n, Reached(n, w), c)
    <2>1. B \subseteq Reached(n, Append(w, c))
        <3> SUFFICES ASSUME NEW t \in n.trans, t[1] \in Reached(n, w), t[2] = c
                     PROVE  t[3] \in Reached(n, Append(w, c))
            BY DEF ByChar
        <3>1. w \in Before(n, t[1]) /\ t[3] \in Nat
            BY SoundFacts DEF Reached
        <3>2. Read(w, t[2]) \in Before(n, t[3])
            BY <3>1, BeforeFollows
        <3>3. Append(w, c) \in Before(n, t[3])
            BY <3>2, ReadFacts
        <3> QED BY <3>1, <3>3, ReachedFacts
    <2>2. B \in SUBSET U
        BY <1>2
    <2>3. \A t \in n.trans : t[2] = EPSILON /\ t[1] \in Reached(n, Append(w, c))
                                => t[3] \in Reached(n, Append(w, c))
        BY ReachedFacts
    <2> HIDE DEF B
    <2>4. EpsClosure(n, B) \subseteq Reached(n, Append(w, c))
        BY <2>1, <2>2, <2>3, ClosureExact
    <2> QED BY <2>4, MoveIs DEF B
\* Every state reached is computed.
<1>7. R \in Families
    BY BeforeTexts DEF Families
<1>8. Follows(n, R)
    <2>1. <<>> \in R[n.init]
        BY <1>1, <1>3, BeforeFollows
    <2>2. ASSUME NEW t \in n.trans, NEW w \in R[t[1]]
          PROVE  Read(w, t[2]) \in R[t[3]]
        <3>1. t[1] \in Nat /\ t[3] \in Nat /\ t[2] \in Chars \cup {EPSILON}
            BY SoundFacts
        <3>2. /\ w \in Before(n, t[1])
              /\ \/ w = <<>> /\ t[1] \in C0
                 \/ \E v \in Texts, c \in Chars : w = Append(v, c) /\ t[1] \in Move(n, Reached(n, v), c)
            BY <3>1
        <3>3. w \in Texts /\ Read(w, t[2]) \in Before(n, t[3])
            BY <3>2, BeforeTexts, BeforeFollows
        <3>4. CASE t[2] = EPSILON
            <4>1. Read(w, t[2]) = w
                BY <3>4 DEF Read
            <4>2. \/ w = <<>> /\ t[3] \in C0
                  \/ \E v \in Texts, c \in Chars : w = Append(v, c) /\ t[3] \in Move(n, Reached(n, v), c)
                <5> HIDE DEF C0
                <5>1. CASE w = <<>> /\ t[1] \in C0
                    BY <1>3, <3>4, <5>1
                <5>2. ASSUME NEW v \in Texts, NEW c \in Chars, w = Append(v, c),
                             t[1] \in Move(n, Reached(n, v), c)
                      PROVE  t[3] \in Move(n, Reached(n, v), c)
                    BY <1>4, <3>4, <5>2
                <5> QED BY <3>2, <5>1, <5>2
            <4> QED BY <3>1, <3>3, <4>1, <4>2
        <3>5. CASE t[2] # EPSILON
            <4>1. t[2] \in Chars /\ Read(w, t[2]) = Append(w, t[2])
                BY <3>1, <3>5 DEF Read
            <4>2. t[1] \in Reached(n, w)
                BY <3>1, <3>2, ReachedFacts
            <4>3. t[3] \in ByChar(n, Reached(n, w), t[2])
                BY <4>2 DEF ByChar
            <4>4. t[3] \in Move(n, Reached(n, w), t[2])
                BY <1>4, <4>3
            <4> QED BY <3>1, <3>3, <4>1, <4>4
        <3> QED BY <3>4, <3>5
    <2> HIDE DEF R
    <2> QED BY <2>1, <2>2 DEF Follows
<1>9. \A q \in Nat : \A w \in Before(n, q) :
            \/ w = <<>> /\ q \in C0
            \/ \E v \in Texts, c \in Chars : w = Append(v, c) /\ q \in Move(n, Reached(n, v), c)
    <2>1. \A q : Before(n, q) \subseteq R[q]
        <3> HIDE DEF R
        <3> QED BY <1>7, <1>8, BeforeLeast
    <2> QED BY <2>1
<1> HIDE DEF C0, R, U
<1>10. ASSUME NEW w \in Texts, NEW c \in Chars
       PROVE  /\ Append(w, c) # <<>>
              /\ \A v \in Texts, d \in Chars : Append(w, c) = Append(v, d) => w = v /\ c = d
    BY AppendProperties, AppendInjective DEF Texts
<1>11. Reached(n, <<>>) \subseteq C0
    <2> SUFFICES ASSUME NEW q \in Nat, <<>> \in Before(n, q) PROVE q \in C0
        BY DEF Reached
    <2> QED BY <1>9, <1>10
<1>12. ASSUME NEW w \in Texts, NEW c \in Chars
       PROVE  Reached(n, Append(w, c)) \subseteq Move(n, Reached(n, w), c)
    <2> SUFFICES ASSUME NEW q \in Nat, Append(w, c) \in Before(n, q)
                 PROVE  q \in Move(n, Reached(n, w), c)
        BY DEF Reached
    <2>1. PICK v \in Texts, d \in Chars : Append(w, c) = Append(v, d) /\ q \in Move(n, Reached(n, v), d)
        BY <1>9, <1>10
    <2>2. w = v /\ c = d
        BY <1>10, <2>1
    <2> QED BY <2>1, <2>2
<1> QED BY <1>5, <1>6, <1>11, <1>12 DEF C0

\* A run that goes on.
LEMMA OneFurther ==
    ASSUME NEW n, NEW P, NEW p \in P, NEW c \in Chars, Move(n, p[2], c) # {}
    PROVE  <<Append(p[1], c), Move(n, p[2], c)>> \in Extended(n, P)
<1> DEFINE r == <<Append(p[1], c), Move(n, p[2], c)>>
<1>1. r[2] # {}
    OBVIOUS
<1>2. r = <<Append(p[1], c), Move(n, p[2], c)>>
    OBVIOUS
<1> HIDE DEF r
<1>3. r \in Extended(n, P)
    BY <1>1, <1>2 DEF Extended
<1> QED BY <1>3 DEF r

\* The words that the model computes are the texts up to the bound.
LEMMA WordsToExact ==
    ASSUME NEW n \in Sound, NEW q \in Nat, NEW len \in Nat
    PROVE  WordsTo(n, q, len) = {w \in Before(n, q) : Len(w) <= len}
<1> DEFINE Pairs(k) == {<<w, Reached(n, w)>> : w \in {x \in Texts : Len(x) = k /\ Reached(n, x) # {}}}
           Runs(h) == h = [k \in 0..len |->
                IF k = 0 THEN {<< <<>>, EpsClosure(n, {n.init}) >>} ELSE Extended(n, h[k - 1])]
           f == CHOOSE h : Runs(h)
           g == [k \in 0..len |-> Pairs(k)]
<1>1. Pairs(0) = {<< <<>>, EpsClosure(n, {n.init}) >>}
    <2>1. Reached(n, <<>>) # {}
        <3>1. n.init \in Nat /\ <<>> \in Before(n, n.init)
            BY SoundFacts, BeforeFollows
        <3> QED BY <3>1, ReachedFacts
    <2>2. {x \in Texts : Len(x) = 0 /\ Reached(n, x) # {}} = {<<>>}
        BY <2>1, TextFacts
    <2>3. EpsClosure(n, {n.init}) = Reached(n, <<>>)
        BY MoveExact
    <2> QED BY <2>2, <2>3
<1>2. ASSUME NEW k \in 1..len
      PROVE  Pairs(k) = Extended(n, Pairs(k - 1))
    <2>1. \A w \in Texts, c \in Chars : /\ Append(w, c) \in Texts /\ Len(Append(w, c)) = Len(w) + 1
                                        /\ Move(n, Reached(n, w), c) = Reached(n, Append(w, c))
        BY MoveExact, AppendProperties DEF Texts
    <2>2. Pairs(k) \subseteq Extended(n, Pairs(k - 1))
        <3> SUFFICES ASSUME NEW w \in Texts, Len(w) = k, Reached(n, w) # {}
                     PROVE  <<w, Reached(n, w)>> \in Extended(n, Pairs(k - 1))
            OBVIOUS
        <3>1. w # <<>>
            BY TextFacts
        <3>2. PICK v \in Texts, c \in Chars : w = Append(v, c)
            BY <3>1, SequenceEmptyOrAppend DEF Texts
        <3>3. Len(v) = k - 1 /\ Reached(n, w) = Move(n, Reached(n, v), c)
            <4>1. Len(v) \in Nat /\ Len(w) = Len(v) + 1
                BY <2>1, <3>2, TextFacts
            <4> QED BY <2>1, <3>2, <4>1
        <3>4. Reached(n, v) # {}
            <4> SUFFICES ASSUME Reached(n, v) = {} PROVE FALSE
                OBVIOUS
            <4>1. ByChar(n, Reached(n, v), c) = {}
                BY DEF ByChar
            <4> DEFINE E == {}
            <4>2. E \in SUBSET (0..(n.size - 1)) /\ E \subseteq E
                  /\ \A t \in n.trans : t[2] = EPSILON /\ t[1] \in E => t[3] \in E
                OBVIOUS
            <4>3. EpsClosure(n, E) \subseteq E
                <5> HIDE DEF E
                <5> QED BY <4>2, ClosureExact
            <4> QED BY <3>3, <4>1, <4>3, MoveIs
        <3> DEFINE p == <<v, Reached(n, v)>>
        <3>5. p \in Pairs(k - 1)
            BY <3>3, <3>4
        <3>6. <<w, Reached(n, w)>> = <<Append(p[1], c), Move(n, p[2], c)>>
            BY <3>2, <3>3
        <3>7. Move(n, p[2], c) # {}
            BY <3>3
        <3> HIDE DEF p, Pairs
        <3> QED BY <3>5, <3>6, <3>7, OneFurther
    <2>3. Extended(n, Pairs(k - 1)) \subseteq Pairs(k)
        <3> DEFINE P == Pairs(k - 1)
        <3> SUFFICES ASSUME NEW r \in Extended(n, P) PROVE r \in Pairs(k)
            OBVIOUS
        <3>1. PICK p \in P, c \in Chars : r = <<Append(p[1], c), Move(n, p[2], c)>> /\ r[2] # {}
            <4> HIDE DEF P, Pairs
            <4> QED BY DEF Extended
        <3>2. PICK v \in Texts : Len(v) = k - 1 /\ p = <<v, Reached(n, v)>>
            OBVIOUS
        <3>3. Append(v, c) \in Texts /\ Len(Append(v, c)) = k
            BY <2>1, <3>2
        <3>4. Move(n, p[2], c) = Reached(n, Append(v, c)) /\ p[1] = v
            BY <2>1, <3>2
        <3>5. r = <<Append(v, c), Reached(n, Append(v, c))>> /\ Reached(n, Append(v, c)) # {}
            BY <3>1, <3>4
        <3> QED BY <3>3, <3>5
    <2> HIDE DEF Pairs
    <2> QED BY <2>2, <2>3
<1> HIDE DEF Pairs
<1>3. Runs(g)
    <2>1. ASSUME NEW k \in 0..len
          PROVE  g[k] = IF k = 0 THEN {<< <<>>, EpsClosure(n, {n.init}) >>} ELSE Extended(n, g[k - 1])
        <3>1. CASE k = 0
            BY <1>1, <3>1
        <3>2. CASE k # 0
            <4>1. k \in 1..len /\ k - 1 \in 0..len
                BY <3>2
            <4>2. g[k] = Pairs(k) /\ g[k - 1] = Pairs(k - 1)
                BY <4>1
            <4> HIDE DEF g
            <4> QED BY <1>2, <3>2, <4>1, <4>2
        <3> QED BY <3>1, <3>2
    <2>2. g = [k \in 0..len |-> IF k = 0 THEN {<< <<>>, EpsClosure(n, {n.init}) >>} ELSE Extended(n, g[k - 1])]
        <3> QED BY <2>1
    <2> HIDE DEF g
    <2> QED BY <2>2, Zenon
<1>4. Runs(f)
    <2> HIDE DEF g
    <2> QED BY <1>3, Zenon
<1>5. WordsTo(n, q, len) = {r[1] : r \in {p \in UNION {f[k] : k \in 0..len} : q \in p[2]}}
    BY Zenon DEF WordsTo
<1> HIDE DEF f, g
<1>6. /\ f[0] = {<< <<>>, EpsClosure(n, {n.init}) >>}
      /\ \A k \in 1..len : f[k] = Extended(n, f[k - 1])
    <2>1. f = [k \in 0..len |-> IF k = 0 THEN {<< <<>>, EpsClosure(n, {n.init}) >>} ELSE Extended(n, f[k - 1])]
        BY <1>4, Zenon
    <2> HIDE DEF Runs
    <2>2. f[0] = {<< <<>>, EpsClosure(n, {n.init}) >>}
        BY <2>1
    <2>3. ASSUME NEW k \in 1..len
          PROVE  f[k] = Extended(n, f[k - 1])
        <3>1. k \in 0..len /\ k # 0
            OBVIOUS
        <3> QED BY <2>1, <3>1
    <2> QED BY <2>2, <2>3
<1> HIDE DEF Runs
<1>7. \A k \in Nat : k <= len => f[k] = Pairs(k)
    <2> DEFINE I == {k \in Nat : k <= len => f[k] = Pairs(k)}
    <2>1. 0 \in I
        BY <1>1, <1>6
    <2>2. ASSUME NEW k \in Nat, k \in I
          PROVE  k + 1 \in I
        <3>1. k + 1 <= len => k + 1 \in 1..len /\ (k + 1) - 1 = k /\ k <= len
            OBVIOUS
        <3> QED BY <1>2, <1>6, <2>2, <3>1
    <2>3. \A k \in Nat : k \in I
        <3> HIDE DEF I
        <3> QED BY <2>1, <2>2, Induction
    <2> QED BY <2>3
<1>8. ASSUME NEW w \in WordsTo(n, q, len)
      PROVE  w \in Before(n, q) /\ Len(w) <= len
    <2>1. PICK r \in UNION {f[k] : k \in 0..len} : w = r[1] /\ q \in r[2]
        BY <1>5
    <2>2. PICK k \in 0..len : r \in Pairs(k)
        BY <1>7, <2>1
    <2>3. PICK x \in Texts : Len(x) = k /\ r = <<x, Reached(n, x)>>
        BY <2>2 DEF Pairs
    <2>4. w = x /\ q \in Reached(n, x)
        BY <2>1, <2>3
    <2> QED BY <2>3, <2>4, ReachedFacts
<1>9. ASSUME NEW w \in Before(n, q), Len(w) <= len
      PROVE  w \in WordsTo(n, q, len)
    <2>1. w \in Texts /\ Len(w) \in 0..len
        BY <1>9, BeforeTexts, TextFacts
    <2> DEFINE r == <<w, Reached(n, w)>>
    <2>2. q \in Reached(n, w)
        BY ReachedFacts
    <2>3. r \in Pairs(Len(w)) /\ r[1] = w /\ q \in r[2]
        BY <2>1, <2>2 DEF Pairs
    <2> HIDE DEF r
    <2>4. r \in f[Len(w)]
        BY <1>7, <2>1, <2>3
    <2>5. r \in UNION {f[k] : k \in 0..len}
        BY <2>1, <2>4
    <2> QED BY <1>5, <2>3, <2>5
<1> QED BY <1>8, <1>9


\* What the model computes of an automaton on the stack.
LEMMA Computed ==
    ASSUME NEW n \in Sound
    PROVE  /\ LanguageUpTo(n, MaxLen) = Words(Lang(n))
           /\ {[name |-> n.subms[k].name, pre |-> WordsTo(n, n.subms[k].start, MaxLen)] :
                  k \in 1..Len(n.subms)} = Groups(n)
<1>1. \A q \in Nat : WordsTo(n, q, MaxLen) = Words(Before(n, q))
    BY ParserAssumption, WordsToExact DEF Words
<1>2. LanguageUpTo(n, MaxLen) = Words(Lang(n))
    BY <1>1, SoundFacts DEF LanguageUpTo, Lang
<1>3. ASSUME NEW k \in 1..Len(n.subms)
      PROVE  [name |-> n.subms[k].name, pre |-> WordsTo(n, n.subms[k].start, MaxLen)]
                = Group(n, n.subms[k])
    <2>1. n.subms[k].start \in Nat
        BY ElementFacts DEF Elements
    <2> QED BY <1>1, <2>1 DEF Group
<1> QED BY <1>2, <1>3 DEF Groups, Elements

----------------------------------------------------------------------------
\* The parser's stack.

\* A value whose language and groups are those of its automaton.
Faithful(v) == Exact(v.nfa, v.ref) /\ v.groups = Groups(v.nfa)

AllFaithful(s) == \A i \in 1..Len(s) : Faithful(s[i])

\* The inductive invariant: the reference languages and the groups on the stack
\* are those of the automata beside them, in the terms of Before, and a complete
\* pattern is the one value of the stack.
LInv == AllFaithful(stack) /\ (done => Len(stack) = 1)

\* A value that a reduction makes is faithful.
LEMMA FaithfulMade ==
    ASSUME NEW cat, NEW nfa, NEW ref, NEW groups, Exact(nfa, ref), groups = Groups(nfa)
    PROVE  Faithful([cat |-> cat, nfa |-> nfa, ref |-> ref, groups |-> groups])
BY DEF Faithful

\* A reduction that pushes a value.
LEMMA FaithfulPushed ==
    ASSUME NEW s, Values(s), AllFaithful(s), NEW v, Faithful(v)
    PROVE  AllFaithful(Append(s, v))
<1> DEFINE R == {s[i] : i \in 1..Len(s)} \cup {v}
           t == Append(s, v)
<1>1. s \in Seq(R) /\ v \in R
    <2>1. s \in Seq({s[i] : i \in 1..Len(s)})
        BY DEF Values
    <2> QED BY <2>1
<1> HIDE DEF R
<1>2. /\ Len(t) = Len(s) + 1 /\ Len(s) \in Nat
      /\ \A i \in 1..Len(s) : t[i] = s[i]
      /\ t[Len(s) + 1] = v
    BY <1>1
<1> HIDE DEF t
<1>3. \A i \in 1..Len(t) : i \in 1..Len(s) \/ i = Len(s) + 1
    BY <1>2
<1>4. \A i \in 1..Len(t) : Faithful(t[i])
    BY <1>2, <1>3 DEF AllFaithful
<1> QED BY <1>4 DEF AllFaithful, t

\* A reduction that replaces the top value.
LEMMA FaithfulReplaced ==
    ASSUME NEW s, Values(s), AllFaithful(s), s # <<>>, NEW v, Faithful(v)
    PROVE  AllFaithful([s EXCEPT ![Len(s)] = v])
<1> DEFINE R == {s[i] : i \in 1..Len(s)} \cup {v}
           t == [s EXCEPT ![Len(s)] = v]
<1>1. s \in Seq(R) /\ v \in R
    <2>1. s \in Seq({s[i] : i \in 1..Len(s)})
        BY DEF Values
    <2> QED BY <2>1
<1> HIDE DEF R
<1>2. /\ Len(t) = Len(s)
      /\ \A i \in 1..Len(s) : t[i] = IF i = Len(s) THEN v ELSE s[i]
    BY <1>1
<1> HIDE DEF t
<1>3. \A i \in 1..Len(t) : Faithful(t[i])
    BY <1>2 DEF AllFaithful
<1> QED BY <1>3 DEF AllFaithful, t

\* The values under the top two.
LEMMA FaithfulPopped ==
    ASSUME NEW s, Values(s), AllFaithful(s), Len(s) >= 2
    PROVE  AllFaithful(SubSeq(s, 1, Len(s) - 2))
<1> DEFINE R == {s[i] : i \in 1..Len(s)}
           t == SubSeq(s, 1, Len(s) - 2)
<1>1. s \in Seq(R) /\ Len(s) \in Nat
    BY DEF Values
<1> HIDE DEF R
<1>2. Len(t) = Len(s) - 2 /\ \A i \in 1..Len(s) - 2 : t[i] = s[i]
    <2> DEFINE N == Len(s)
    <2>1. N \in Nat /\ N >= 2 /\ N - 2 \in 0..N /\ \A i \in 1..N : s[i] \in R
        BY <1>1
    <2> HIDE DEF N
    <2>2. t = [i \in 1..N - 2 |-> s[i]]
        BY <2>1 DEF N
    <2> HIDE DEF t
    <2> QED BY <2>1, <2>2 DEF N
<1> HIDE DEF t
<1>3. \A i \in 1..Len(t) : Faithful(t[i])
    BY <1>1, <1>2 DEF AllFaithful
<1> QED BY <1>3 DEF AllFaithful, t

\* elementary_re: an operand is read.
LEMMA ShiftFaithful ==
    ASSUME Inv, LInv, NEW nfa, NEW ref, Exact(nfa, ref), Groups(nfa) = {}, Shift(nfa, ref)
    PROVE  LInv'
<1> DEFINE v == [cat |-> Elementary, nfa |-> nfa, ref |-> ref, groups |-> {}]
<1>1. Faithful(v)
    BY FaithfulMade
<1> HIDE DEF v
<1>2. AllFaithful(Append(stack, v))
    BY <1>1, FaithfulPushed DEF Inv, LInv
<1>3. AllFaithful(stack') /\ ~done'
    BY <1>2 DEF Shift, CanRead, v
<1> QED BY <1>3 DEF LInv, AllFaithful, Faithful

\* The value on top is one of the stack.
LEMMA TopFaithful ==
    ASSUME Inv, LInv, stack # <<>>
    PROVE  Faithful(Top)
<1>1. Len(stack) \in 1..Len(stack)
    BY DEF Inv, Values
<1> QED BY <1>1 DEF LInv, AllFaithful, Top

\* An operator or a parenthesis is read: the top value is replaced.
LEMMA UnaryFaithful ==
    ASSUME Inv, LInv, NEW from, NEW cat, NEW nfa, NEW ref, NEW groups,
           Faithful(Top) => Exact(nfa, ref) /\ groups = Groups(nfa),
           Unary(from, cat, nfa, ref, groups)
    PROVE  LInv'
<1> DEFINE v == [cat |-> cat, nfa |-> nfa, ref |-> ref, groups |-> groups]
<1>1. stack # <<>>
    BY DEF Unary
<1>2. Faithful(v)
    BY <1>1, TopFaithful, FaithfulMade
<1> HIDE DEF v
<1>3. AllFaithful([stack EXCEPT ![Len(stack)] = v])
    BY <1>1, <1>2, FaithfulReplaced DEF Inv, LInv
<1>4. AllFaithful(stack') /\ ~done'
    BY <1>3 DEF Unary, CanRead, v
<1> QED BY <1>4 DEF LInv, AllFaithful, Faithful

\* A concatenation or an alternation: the two top values become one.
LEMMA BinaryFaithful ==
    ASSUME Inv, LInv, NEW left, NEW right, NEW cat, NEW nfa, NEW ref, NEW groups,
           Faithful(Second) /\ Faithful(Top) => Exact(nfa, ref) /\ groups = Groups(nfa),
           Binary(left, right, cat, nfa, ref, groups)
    PROVE  LInv'
<1> DEFINE v == [cat |-> cat, nfa |-> nfa, ref |-> ref, groups |-> groups]
<1>1. Faithful(Second) /\ Faithful(Top)
    <2>1. Len(stack) \in Nat /\ Len(stack) >= 2
        BY DEF Inv, Values, Binary
    <2>2. Len(stack) \in 1..Len(stack) /\ Len(stack) - 1 \in 1..Len(stack)
        BY <2>1
    <2> QED BY <2>2 DEF LInv, AllFaithful, Top, Second
<1>2. Faithful(v)
    BY <1>1, FaithfulMade
<1> HIDE DEF v
<1>3. AllFaithful(Append(SubSeq(stack, 1, Len(stack) - 2), v))
    <2>1. /\ Values(SubSeq(stack, 1, Len(stack) - 2))
          /\ AllFaithful(SubSeq(stack, 1, Len(stack) - 2))
        BY Popped, FaithfulPopped DEF Inv, LInv, Binary
    <2> QED BY <1>2, <2>1, FaithfulPushed
<1>4. AllFaithful(stack') /\ ~done'
    BY <1>3 DEF Binary, v
<1> QED BY <1>4 DEF LInv, AllFaithful, Faithful

\* The groups of a faithful value, repeated.
LEMMA FaithfulRepeated ==
    ASSUME NEW v, Faithful(v)
    PROVE  /\ v.nfa \in Sound /\ v.ref = Words(Lang(v.nfa)) /\ v.groups = Groups(v.nfa)
           /\ StarLang(v.ref) = Words(Star(Lang(v.nfa)))
<1>1. v.nfa \in Sound /\ v.ref = Words(Lang(v.nfa)) /\ v.groups = Groups(v.nfa)
    BY DEF Faithful, Exact
<1>2. Lang(v.nfa) \in SUBSET Texts
    BY BeforeTexts DEF Lang
<1> QED BY <1>1, <1>2, StarOf

\* The invariant holds at first.
LEMMA InitLInv == Init => LInv
<1> SUFFICES ASSUME Init PROVE LInv
    OBVIOUS
<1>1. Len(stack) = 0 /\ ~done
    BY DEF Init
<1> QED BY <1>1 DEF LInv, AllFaithful

\* Every reduction keeps the invariant.
LEMMA NextLInv == Inv /\ LInv /\ [Next]_vars => LInv'
<1> SUFFICES ASSUME Inv, LInv, [Next]_vars PROVE LInv'
    OBVIOUS
<1>1. \A S \in SUBSET Chars : /\ Exact(StepNfa(S, TextPT), Letters(S))
                              /\ Groups(StepNfa(S, TextPT)) = {}
    BY ExactStep, GroupsNone DEF PatternTypes
<1>2. CASE ReduceChar
    <2>1. PICK c \in Chars : Shift(CharNfa(c), Letters({c}))
        BY <1>2 DEF ReduceChar
    <2>2. Exact(CharNfa(c), Letters({c})) /\ Groups(CharNfa(c)) = {}
        <3>1. {c} \in SUBSET Chars
            OBVIOUS
        <3> QED BY <1>1, <3>1 DEF CharNfa
    <2> QED BY <2>1, <2>2, ShiftFaithful
<1>3. CASE ReduceWildcard
    <2>1. Exact(WildcardNfa, Letters(Chars)) /\ Groups(WildcardNfa) = {}
        BY <1>1 DEF WildcardNfa
    <2> QED BY <1>3, <2>1, ShiftFaithful DEF ReduceWildcard
<1>4. CASE ReduceCharset
    <2>1. PICK S \in Charsets : \/ Shift(CharsetsNfa(S), Letters(S))
                                \/ Shift(CharsetsNfa(NegateCharsets(S)),
                                         Letters({c \in Chars : c \notin S}))
        BY <1>4 DEF ReduceCharset
    <2>2. /\ S \in SUBSET Chars /\ NegateCharsets(S) \in SUBSET Chars
          /\ {c \in Chars : c \notin S} = NegateCharsets(S)
        BY ParserAssumption DEF NegateCharsets
    <2>3. CASE Shift(CharsetsNfa(S), Letters(S))
        <3>1. Exact(CharsetsNfa(S), Letters(S)) /\ Groups(CharsetsNfa(S)) = {}
            BY <1>1, <2>2 DEF CharsetsNfa
        <3> QED BY <2>3, <3>1, ShiftFaithful
    <2>4. CASE Shift(CharsetsNfa(NegateCharsets(S)), Letters({c \in Chars : c \notin S}))
        <3> DEFINE N == NegateCharsets(S)
        <3>1. Exact(CharsetsNfa(N), Letters(N)) /\ Groups(CharsetsNfa(N)) = {}
            BY <1>1, <2>2 DEF CharsetsNfa
        <3>2. Shift(CharsetsNfa(N), Letters(N))
            BY <2>2, <2>4
        <3> HIDE DEF N
        <3> QED BY <3>1, <3>2, ShiftFaithful
    <2> QED BY <2>1, <2>3, <2>4
<1>5. CASE ReduceKeyword
    <2>1. PICK k \in Keywords : Shift(KeywordNfa(k), KeywordLang(k))
        BY <1>5 DEF ReduceKeyword
    <2>2. Exact(KeywordNfa(k), KeywordLang(k)) /\ Groups(KeywordNfa(k)) = {}
        BY ParserAssumption, ExactKeyword, GroupsKeyword
    <2> QED BY <2>1, <2>2, ShiftFaithful
<1>6. CASE ReduceStar
    <2>1. Faithful(Top) => /\ Exact(StarNfa(Top.nfa), StarLang(Top.ref))
                           /\ After(StarLang(Top.ref), Top.groups) = Groups(StarNfa(Top.nfa))
        BY FaithfulRepeated, ExactStar, GroupsStar DEF Faithful
    <2> QED BY <1>6, <2>1, UnaryFaithful DEF ReduceStar
<1>7. CASE ReducePlus
    <2>1. Faithful(Top) =>
            /\ Exact(PlusNfa(Top.nfa), Cat(Top.ref, StarLang(Top.ref)))
            /\ Top.groups \cup After(Cat(Top.ref, StarLang(Top.ref)), Top.groups)
                  = Groups(PlusNfa(Top.nfa))
        BY FaithfulRepeated, ExactPlus, GroupsPlus DEF Faithful
    <2> QED BY <1>7, <2>1, UnaryFaithful DEF ReducePlus
<1>8. CASE ReduceSelect
    <2>1. Faithful(Top) => /\ Exact(SelectNfa(Top.nfa), Opt(Top.ref))
                           /\ Top.groups = Groups(SelectNfa(Top.nfa))
        BY FaithfulRepeated, ExactStar, GroupsKept DEF Faithful
    <2> QED BY <1>8, <2>1, UnaryFaithful DEF ReduceSelect
<1>9. CASE ReduceCount
    <2>1. PICK k \in Counts :
            Unary(Elementary, Basic, NumNfa(Top.nfa, k), Power(Top.ref, k), Top.groups)
        BY <1>9 DEF ReduceCount
    <2>2. k \in Nat \ {0}
        BY ParserAssumption
    <2>3. Faithful(Top) => /\ Exact(NumNfa(Top.nfa, k), Power(Top.ref, k))
                           /\ Top.groups = Groups(NumNfa(Top.nfa, k))
        BY <2>2, FaithfulRepeated, ExactNum, GroupsKept DEF Faithful
    <2> QED BY <2>1, <2>3, UnaryFaithful
<1>10. CASE ReduceParenthesis
    <2>1. Faithful(Top) => Exact(Top.nfa, Top.ref) /\ Top.groups = Groups(Top.nfa)
        BY DEF Faithful
    <2> QED BY <1>10, <2>1, UnaryFaithful DEF ReduceParenthesis
<1>11. CASE ReduceSubmatch
    <2>1. PICK name \in Names :
            Unary(Regex, Elementary, SubmatchNfa(Top.nfa, name), Top.ref,
                  Top.groups \cup {[name |-> name, pre |-> {<<>>}]})
        BY <1>11 DEF ReduceSubmatch
    <2>2. Faithful(Top) =>
            /\ Exact(SubmatchNfa(Top.nfa, name), Top.ref)
            /\ Top.groups \cup {[name |-> name, pre |-> {<<>>}]} = Groups(SubmatchNfa(Top.nfa, name))
        BY FaithfulRepeated, ExactSubmatch, GroupsSubmatch DEF Faithful
    <2> QED BY <2>1, <2>2, UnaryFaithful
<1>12. CASE ReduceConcat
    <2>1. Faithful(Second) /\ Faithful(Top) =>
            /\ Exact(ConcatNfa(Second.nfa, Top.nfa), Cat(Second.ref, Top.ref))
            /\ Second.groups \cup After(Second.ref, Top.groups)
                  = Groups(ConcatNfa(Second.nfa, Top.nfa))
        BY FaithfulRepeated, ExactConcat, GroupsConcat DEF Faithful
    <2> QED BY <1>12, <2>1, BinaryFaithful DEF ReduceConcat
<1>13. CASE ReduceUnion
    <2>1. Faithful(Second) /\ Faithful(Top) =>
            /\ Exact(UnionNfa(Second.nfa, Top.nfa), Second.ref \cup Top.ref)
            /\ {} = Groups(UnionNfa(Second.nfa, Top.nfa))
        BY ExactUnion, GroupsNone DEF Faithful
    <2> QED BY <1>13, <2>1, BinaryFaithful DEF ReduceUnion
<1>14. CASE ReduceLine
    BY <1>14 DEF ReduceLine, LInv, AllFaithful, Faithful
<1>15. CASE UNCHANGED vars
    BY <1>15 DEF vars, LInv, AllFaithful, Faithful
<1> QED BY <1>2, <1>3, <1>4, <1>5, <1>6, <1>7, <1>8, <1>9, <1>10, <1>11, <1>12, <1>13,
           <1>14, <1>15 DEF Next

\* Whatever the sequence of reductions, every value of the stack is faithful to
\* its automaton (generator/regex.ypp and the builders of regex-node.cpp).
THEOREM Faithfulness == Spec => [](Inv /\ LInv)
<1>1. Init => Inv /\ LInv
    BY InitInv, InitLInv
<1>2. (Inv /\ LInv) /\ [Next]_vars => (Inv /\ LInv)'
    BY NextInv, NextLInv
<1> QED BY <1>1, <1>2, PTL DEF Spec

\* For every alphabet, every pattern and every bound on the words: the automaton
\* of each (sub)pattern on the stack accepts exactly the words of its regular
\* expression, whatever the order of the reductions, with all the renumbering
\* and gluing of operands by the builders of regex-node.cpp.
THEOREM LanguageCorrect == Spec => []LanguageExact
<1>1. Inv /\ LInv => LanguageExact
    <2> SUFFICES ASSUME LInv, NEW i \in 1..Len(stack)
                 PROVE  LanguageUpTo(stack[i].nfa, MaxLen) = stack[i].ref
        BY DEF LanguageExact
    <2>1. stack[i].nfa \in Sound /\ stack[i].ref = Words(Lang(stack[i].nfa))
        BY DEF LInv, AllFaithful, Faithful, Exact
    <2> QED BY <2>1, Computed
<1> QED BY <1>1, Faithfulness, PTL

\* The automaton that a scan searches with, ".*p", accepts exactly the words
\* that end in a word of the complete pattern p.
THEOREM SearchCorrect == Spec => []SearchExact
<1>1. Inv /\ LInv => SearchExact
    <2> SUFFICES ASSUME Inv, LInv, done
                 PROVE  LanguageUpTo(SearchNfa(Top.nfa), MaxLen)
                            = Cat(StarLang(Letters(Chars)), Top.ref)
        BY DEF SearchExact
    <2>1. Faithful(Top)
        <3>1. 1 \in 1..Len(stack) /\ Len(stack) = 1
            BY DEF LInv
        <3> QED BY <3>1 DEF LInv, AllFaithful, Top
    <2>2. Exact(SearchNfa(Top.nfa), Cat(StarLang(Letters(Chars)), Top.ref))
        BY <2>1, ExactSearch DEF Faithful
    <2> QED BY <2>2, Computed DEF Exact
<1> QED BY <1>1, Faithfulness, PTL

\* Every group that no alternation has dropped begins after exactly the words
\* that the regular expression lets it begin after: concatenations, repetitions
\* and copies renumber its first state along with the automaton around it.
THEOREM GroupsCorrect == Spec => []GroupsInPlace
<1>1. Inv /\ LInv => GroupsInPlace
    <2> SUFFICES ASSUME LInv, NEW i \in 1..Len(stack)
                 PROVE  {[name |-> stack[i].nfa.subms[k].name,
                          pre |-> WordsTo(stack[i].nfa, stack[i].nfa.subms[k].start, MaxLen)] :
                            k \in 1..Len(stack[i].nfa.subms)} = stack[i].groups
        BY DEF GroupsInPlace
    <2>1. stack[i].nfa \in Sound /\ stack[i].groups = Groups(stack[i].nfa)
        BY DEF LInv, AllFaithful, Faithful, Exact
    <2> QED BY <2>1, Computed
<1> QED BY <1>1, Faithfulness, PTL
=============================================================================
