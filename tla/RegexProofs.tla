---------------------------- MODULE RegexProofs ----------------------------
(***************************************************************************)
(* The builders of the regex parser, for every alphabet, every bracket     *)
(* expression and every pattern: the proofs.                               *)
(***************************************************************************)
EXTENDS RegexParser, SetInduction

----------------------------------------------------------------------------
\* Thompson automata.

\* One transition: from a state, by a character or by nothing, to a state.
Edges == Nat \X (Chars \cup {EPSILON}) \X Nat

\* A group that an NFA remembers.
Submatches == [start : Nat, end : Int, name : Names, type : PatternTypes]

NfaType == [subms : Seq(Submatches), trans : SUBSET Edges,
            init : Nat, accept : Nat, size : Nat, type : PatternTypes]

\* An NFA as the builders need it and leave it: a Thompson automaton whose
\* groups start at states of its own.
Sound == {n \in NfaType : /\ Thompson(n)
                          /\ \A i \in 1..Len(n.subms) : n.subms[i].start < n.size}

\* A transition that neither leaves the accepting state nor enters the
\* initial one of an automaton of that size.
Fits(t, init, accept, size) ==
    /\ t \in Edges
    /\ t[1] < size /\ t[1] # accept
    /\ t[3] < size /\ t[3] # init

\* An NFA that is put together of sound pieces is sound.
LEMMA Assembled ==
    ASSUME NEW subms \in Seq(Submatches), NEW trans, NEW init \in Nat, NEW accept \in Nat,
           NEW size \in Nat, NEW type \in PatternTypes,
           init < size, accept < size, init # accept,
           \A t \in trans : Fits(t, init, accept, size),
           \A i \in 1..Len(subms) : subms[i].start < size
    PROVE  Nfa(subms, trans, init, accept, size, type) \in Sound
<1> DEFINE n == Nfa(subms, trans, init, accept, size, type)
<1>1. /\ n.subms = subms /\ n.trans = trans /\ n.init = init /\ n.accept = accept
      /\ n.size = size /\ n.type = type
    BY DEF Nfa
<1>2. n \in NfaType
    BY DEF Nfa, NfaType, Fits
<1>3. Thompson(n)
    <2> HIDE DEF n
    <2>1. ASSUME NEW t \in n.trans
          PROVE  /\ t[1] \in 0..(n.size - 1) /\ t[1] # n.accept
                 /\ t[2] \in Chars \cup {EPSILON}
                 /\ t[3] \in 0..(n.size - 1) /\ t[3] # n.init
        <3>1. Fits(t, init, accept, size)
            BY <1>1, <2>1
        <3>2. t[1] \in Nat /\ t[2] \in Chars \cup {EPSILON} /\ t[3] \in Nat
            BY <3>1 DEF Fits, Edges
        <3> QED BY <1>1, <3>1, <3>2 DEF Fits
    <2> QED BY <1>1, <2>1 DEF Thompson
<1> HIDE DEF n
<1> QED BY <1>1, <1>2, <1>3 DEF Sound, n

\* What is known of a sound NFA.
LEMMA SoundFacts ==
    ASSUME NEW n \in Sound
    PROVE  /\ n.subms \in Seq(Submatches) /\ n.type \in PatternTypes
           /\ n.init \in Nat /\ n.accept \in Nat /\ n.size \in Nat
           /\ n.init < n.size /\ n.accept < n.size /\ n.init # n.accept
           /\ \A t \in n.trans : Fits(t, n.init, n.accept, n.size)
           /\ \A t \in n.trans : t[1] \in Nat /\ t[2] \in Chars \cup {EPSILON} /\ t[3] \in Nat
           /\ \A i \in 1..Len(n.subms) : n.subms[i] \in Submatches /\ n.subms[i].start < n.size
<1>1. n \in NfaType /\ Thompson(n)
    BY DEF Sound
<1>2. /\ n.subms \in Seq(Submatches) /\ n.type \in PatternTypes
      /\ n.init \in Nat /\ n.accept \in Nat /\ n.size \in Nat /\ n.trans \subseteq Edges
    BY <1>1 DEF NfaType
<1>3. n.init < n.size /\ n.accept < n.size /\ n.init # n.accept
    BY <1>1, <1>2 DEF Thompson
<1>4. ASSUME NEW t \in n.trans
      PROVE  /\ Fits(t, n.init, n.accept, n.size)
             /\ t[1] \in Nat /\ t[2] \in Chars \cup {EPSILON} /\ t[3] \in Nat
    <2>1. t \in Edges
        BY <1>2
    <2>2. t[1] \in Nat /\ t[2] \in Chars \cup {EPSILON} /\ t[3] \in Nat
        BY <2>1 DEF Edges
    <2>3. t[1] \in 0..(n.size - 1) /\ t[1] # n.accept /\ t[3] \in 0..(n.size - 1) /\ t[3] # n.init
        BY <1>1 DEF Thompson
    <2> QED BY <1>2, <2>1, <2>2, <2>3 DEF Fits
<1>5. \A i \in 1..Len(n.subms) : n.subms[i] \in Submatches
    BY <1>2
<1>6. \A i \in 1..Len(n.subms) : n.subms[i].start < n.size
    BY DEF Sound
<1> QED BY <1>2, <1>3, <1>4, <1>5, <1>6

\* The transitions of an operand, moved to other numbers.
LEMMA Shifted ==
    ASSUME NEW n \in Sound, NEW k \in Nat, NEW t \in ShiftTrans(n.trans, k)
    PROVE  /\ t \in Edges
           /\ t[1] \in Nat /\ k <= t[1] /\ t[1] < k + n.size /\ t[1] # k + n.accept
           /\ t[3] \in Nat /\ k <= t[3] /\ t[3] < k + n.size /\ t[3] # k + n.init
<1>1. PICK u \in n.trans : t = <<u[1] + k, u[2], u[3] + k>>
    BY DEF ShiftTrans
<1>2. /\ u[1] \in Nat /\ u[2] \in Chars \cup {EPSILON} /\ u[3] \in Nat
      /\ n.init \in Nat /\ n.accept \in Nat /\ n.size \in Nat
      /\ Fits(u, n.init, n.accept, n.size)
    BY SoundFacts
<1>3. u[1] < n.size /\ u[1] # n.accept /\ u[3] < n.size /\ u[3] # n.init
    BY <1>2 DEF Fits
<1>4. t[1] = u[1] + k /\ t[3] = u[3] + k
    BY <1>1
<1>5. t \in Edges
    BY <1>1, <1>2 DEF Edges
<1> QED BY <1>2, <1>3, <1>4, <1>5

\* A transition by nothing.
LEMMA Epsilon ==
    ASSUME NEW a \in Nat, NEW b \in Nat
    PROVE  <<a, EPSILON, b>> \in Edges /\ <<a, EPSILON, b>>[1] = a /\ <<a, EPSILON, b>>[3] = b
BY DEF Edges

----------------------------------------------------------------------------
\* The builders.

\* One step.
LEMMA StepSound ==
    ASSUME NEW S \in SUBSET Chars, NEW type \in PatternTypes
    PROVE  StepNfa(S, type) \in Sound
<1> DEFINE trans == {<<0, c, 1>> : c \in S}
           none == <<>>
<1>1. \A t \in trans : Fits(t, 0, 1, 2)
    BY DEF Fits, Edges
<1>2. none \in Seq(Submatches) /\ \A i \in 1..Len(none) : none[i].start < 2
    BY EmptySeq
<1>3. 0 \in Nat /\ 1 \in Nat /\ 2 \in Nat /\ 0 < 2 /\ 1 < 2 /\ 0 # 1
    OBVIOUS
<1> HIDE DEF trans, none
<1>4. Nfa(none, trans, 0, 1, 2, type) \in Sound
    BY <1>1, <1>2, <1>3, Assembled
<1> QED BY <1>4 DEF StepNfa, trans, none

\* The type of a concatenation.
LEMMA ConcatTypeOK ==
    ASSUME NEW s, NEW t
    PROVE  ConcatType(s, t) \in PatternTypes
BY DEF ConcatType, PatternTypes

\* A list of groups back to front, and of groups with other numbers.
LEMMA ReversedGroups ==
    ASSUME NEW l \in Seq(Submatches), NEW size, \A i \in 1..Len(l) : l[i].start < size
    PROVE  /\ Reverse(l) \in Seq(Submatches) /\ Len(Reverse(l)) = Len(l)
           /\ \A i \in 1..Len(l) : Reverse(l)[i].start < size
<1> DEFINE N == Len(l)
<1>1. N \in Nat /\ \A i \in 1..N : (N - i) + 1 \in 1..N /\ l[(N - i) + 1] \in Submatches
    BY LenProperties
<1>2. Reverse(l) = [i \in 1..N |-> l[(N - i) + 1]]
    BY DEF Reverse
<1> HIDE DEF N
<1>3. Reverse(l) \in Seq(Submatches) /\ Len(Reverse(l)) = N
    BY <1>1, <1>2
<1>4. \A i \in 1..N : Reverse(l)[i].start < size
    BY <1>1, <1>2 DEF N
<1> QED BY <1>3, <1>4 DEF N

\* A group with other numbers.
LEMMA ShiftedGroup ==
    ASSUME NEW s \in Submatches, NEW k \in Nat
    PROVE  ShiftSubm(s, k) \in Submatches /\ ShiftSubm(s, k).start = s.start + k
<1>1. PICK a \in Nat, b \in Int, c \in Names, d \in PatternTypes :
            s = [start |-> a, end |-> b, name |-> c, type |-> d]
    BY DEF Submatches
<1>2. a + k \in Nat /\ b + k \in Int
    OBVIOUS
<1>3. ShiftSubm(s, k) = [start |-> a + k, end |-> b + k, name |-> c, type |-> d]
    <2> DEFINE r == [s EXCEPT !.start = @ + k]
    <2>1. r = [start |-> a + k, end |-> b, name |-> c, type |-> d]
        BY <1>1
    <2>2. ShiftSubm(s, k) = [r EXCEPT !.end = @ + k]
        BY <1>1 DEF ShiftSubm
    <2> HIDE DEF r
    <2>3. [r EXCEPT !.end = @ + k] = [start |-> a + k, end |-> b + k, name |-> c, type |-> d]
        BY <2>1
    <2> QED BY <2>2, <2>3
<1>4. s.start = a
    BY <1>1
<1> QED BY <1>2, <1>3, <1>4 DEF Submatches

\* The groups of an operand behind another one.
LEMMA ShiftedGroups ==
    ASSUME NEW n \in Sound, NEW k \in Nat
    PROVE  LET l == [i \in 1..Len(n.subms) |-> ShiftSubm(n.subms[i], k)]
           IN  /\ l \in Seq(Submatches) /\ Len(l) = Len(n.subms)
               /\ \A i \in 1..Len(l) : l[i].start < k + n.size
<1> DEFINE N == Len(n.subms)
           l == [i \in 1..N |-> ShiftSubm(n.subms[i], k)]
<1>1. N \in Nat /\ n.size \in Nat
    BY SoundFacts
<1>2. ASSUME NEW i \in 1..N
      PROVE  ShiftSubm(n.subms[i], k) \in Submatches /\ ShiftSubm(n.subms[i], k).start < k + n.size
    <2>1. n.subms[i] \in Submatches /\ n.subms[i].start < n.size
        BY SoundFacts
    <2> DEFINE s == n.subms[i]
    <2> HIDE DEF s
    <2>2. s \in Submatches /\ s.start \in Nat /\ s.start < n.size
        BY <2>1 DEF s, Submatches
    <2>3. ShiftSubm(s, k) \in Submatches /\ ShiftSubm(s, k).start = s.start + k
        BY <2>2, ShiftedGroup
    <2> QED BY <1>1, <2>2, <2>3 DEF s
<1> HIDE DEF N
<1>3. l \in Seq(Submatches) /\ Len(l) = N /\ \A i \in 1..N : l[i] = ShiftSubm(n.subms[i], k)
    BY <1>1, <1>2
<1> HIDE DEF l
<1>4. \A i \in 1..Len(l) : l[i].start < k + n.size
    BY <1>2, <1>3
<1> QED BY <1>3, <1>4 DEF l, N

\* concat: the right operand is put behind the left one.
LEMMA ConcatSound ==
    ASSUME NEW n1 \in Sound, NEW n2 \in Sound
    PROVE  ConcatNfa(n1, n2) \in Sound
<1> DEFINE k == n1.size
           l == [i \in 1..Len(n2.subms) |-> ShiftSubm(n2.subms[i], k)]
           subms == Reverse(l) \o n1.subms
           trans == n1.trans \cup ShiftTrans(n2.trans, k)
                             \cup {<<n1.accept, EPSILON, k + n2.init>>}
<1>1. /\ n1.init \in Nat /\ n1.accept \in Nat /\ n1.size \in Nat
      /\ n1.init < n1.size /\ n1.accept < n1.size /\ n1.init # n1.accept
      /\ n2.init \in Nat /\ n2.accept \in Nat /\ n2.size \in Nat
      /\ n2.init < n2.size /\ n2.accept < n2.size /\ n2.init # n2.accept
    BY SoundFacts
<1>2. ASSUME NEW t \in trans
      PROVE  Fits(t, n1.init, k + n2.accept, k + n2.size)
    <2>1. CASE t \in n1.trans
        BY <1>1, <2>1, SoundFacts DEF Fits
    <2>2. CASE t \in ShiftTrans(n2.trans, k)
        BY <1>1, <2>2, Shifted DEF Fits
    <2>3. CASE t = <<n1.accept, EPSILON, k + n2.init>>
        <3>1. k + n2.init \in Nat
            BY <1>1
        <3>2. t \in Edges /\ t[1] = n1.accept /\ t[3] = k + n2.init
            BY <1>1, <2>3, <3>1, Epsilon
        <3> QED BY <1>1, <3>2 DEF Fits
    <2> QED BY <2>1, <2>2, <2>3
<1>3. subms \in Seq(Submatches) /\ \A i \in 1..Len(subms) : subms[i].start < k + n2.size
    <2>1. l \in Seq(Submatches) /\ \A i \in 1..Len(l) : l[i].start < k + n2.size
        BY <1>1, ShiftedGroups
    <2> HIDE DEF l, k
    <2>2. /\ Reverse(l) \in Seq(Submatches)
          /\ \A i \in 1..Len(Reverse(l)) : Reverse(l)[i].start < k + n2.size
        BY <2>1, ReversedGroups
    <2>3. n1.subms \in Seq(Submatches)
        BY SoundFacts
    <2>4. \A i \in 1..Len(n1.subms) : n1.subms[i].start < k + n2.size
        <3> SUFFICES ASSUME NEW i \in 1..Len(n1.subms)
                     PROVE  n1.subms[i].start < k + n2.size
            OBVIOUS
        <3>1. n1.subms[i] \in Submatches /\ n1.subms[i].start < n1.size
            BY SoundFacts
        <3>2. n1.subms[i].start \in Nat
            BY <3>1 DEF Submatches
        <3> QED BY <1>1, <3>1, <3>2 DEF k
    <2> DEFINE r == Reverse(l)
    <2> HIDE DEF r
    <2>5. /\ r \in Seq(Submatches) /\ n1.subms \in Seq(Submatches)
          /\ \A i \in 1..Len(r) : r[i].start < k + n2.size
        BY <2>2, <2>3 DEF r
    <2>6. /\ r \o n1.subms \in Seq(Submatches) /\ Len(r \o n1.subms) = Len(r) + Len(n1.subms)
          /\ \A i \in 1..Len(r) + Len(n1.subms) :
                (r \o n1.subms)[i] = IF i <= Len(r) THEN r[i] ELSE n1.subms[i - Len(r)]
        BY <2>5, ConcatProperties
    <2>7. Len(r) \in Nat /\ Len(n1.subms) \in Nat
        BY <2>5
    <2>8. \A i \in 1..Len(r) + Len(n1.subms) :
                i \in 1..Len(r) \/ (~(i <= Len(r)) /\ i - Len(r) \in 1..Len(n1.subms))
        BY <2>7
    <2> QED BY <2>4, <2>5, <2>6, <2>7, <2>8 DEF r
<1>4. /\ k + n2.accept \in Nat /\ k + n2.size \in Nat /\ n1.init < k + n2.size
      /\ k + n2.accept < k + n2.size /\ n1.init # k + n2.accept
    BY <1>1
<1> HIDE DEF trans, subms
<1>5. Nfa(subms, trans, n1.init, k + n2.accept, k + n2.size, ConcatType(n1.type, n2.type)) \in Sound
    <2> HIDE DEF k
    <2> QED BY <1>1, <1>2, <1>3, <1>4, ConcatTypeOK, Assembled
<1> QED BY <1>5 DEF ConcatNfa, subms, trans

\* union: both operands are put between two new states.
LEMMA UnionSound ==
    ASSUME NEW n1 \in Sound, NEW n2 \in Sound
    PROVE  UnionNfa(n1, n2) \in Sound
<1> DEFINE k == n1.size + 1
           acc == n1.size + n2.size + 1
           size == n1.size + n2.size + 2
           trans == ShiftTrans(n1.trans, 1) \cup ShiftTrans(n2.trans, k)
                      \cup {<<0, EPSILON, n1.init + 1>>, <<n1.accept + 1, EPSILON, acc>>,
                            <<0, EPSILON, n2.init + k>>, <<n2.accept + k, EPSILON, acc>>}
           none == <<>>
<1>1. /\ n1.init \in Nat /\ n1.accept \in Nat /\ n1.size \in Nat
      /\ n1.init < n1.size /\ n1.accept < n1.size
      /\ n2.init \in Nat /\ n2.accept \in Nat /\ n2.size \in Nat
      /\ n2.init < n2.size /\ n2.accept < n2.size
    BY SoundFacts
<1>2. /\ k \in Nat /\ acc \in Nat /\ size \in Nat /\ 0 \in Nat /\ 1 \in Nat
      /\ n1.init + 1 \in Nat /\ n1.accept + 1 \in Nat /\ n2.init + k \in Nat /\ n2.accept + k \in Nat
    BY <1>1
<1>3. ASSUME NEW t \in trans
      PROVE  Fits(t, 0, acc, size)
    <2>1. CASE t \in ShiftTrans(n1.trans, 1)
        <3>1. t \in Edges /\ t[1] \in Nat /\ t[1] < 1 + n1.size /\ t[3] \in Nat /\ 1 <= t[3] /\ t[3] < 1 + n1.size
            BY <1>2, <2>1, Shifted
        <3> QED BY <1>1, <3>1 DEF Fits
    <2>2. CASE t \in ShiftTrans(n2.trans, k)
        <3>1. t \in Edges /\ t[1] \in Nat /\ t[1] < k + n2.size /\ t[3] \in Nat /\ k <= t[3] /\ t[3] < k + n2.size
            <4> HIDE DEF k
            <4> QED BY <1>2, <2>2, Shifted
        <3> QED BY <1>1, <3>1 DEF Fits
    <2>3. CASE t = <<0, EPSILON, n1.init + 1>>
        <3>1. t \in Edges /\ t[1] = 0 /\ t[3] = n1.init + 1
            BY <1>2, <2>3, Epsilon
        <3> QED BY <1>1, <3>1 DEF Fits
    <2>4. CASE t = <<n1.accept + 1, EPSILON, acc>>
        <3>1. t \in Edges /\ t[1] = n1.accept + 1 /\ t[3] = acc
            <4> HIDE DEF acc
            <4> QED BY <1>2, <2>4, Epsilon
        <3> QED BY <1>1, <3>1 DEF Fits
    <2>5. CASE t = <<0, EPSILON, n2.init + k>>
        <3>1. t \in Edges /\ t[1] = 0 /\ t[3] = n2.init + k
            <4> HIDE DEF k
            <4> QED BY <1>2, <2>5, Epsilon
        <3> QED BY <1>1, <3>1 DEF Fits
    <2>6. CASE t = <<n2.accept + k, EPSILON, acc>>
        <3>1. t \in Edges /\ t[1] = n2.accept + k /\ t[3] = acc
            <4> HIDE DEF k, acc
            <4> QED BY <1>2, <2>6, Epsilon
        <3> QED BY <1>1, <3>1 DEF Fits
    <2> QED BY <2>1, <2>2, <2>3, <2>4, <2>5, <2>6
<1>4. none \in Seq(Submatches) /\ \A i \in 1..Len(none) : none[i].start < size
    BY EmptySeq
<1>5. 0 < size /\ acc < size /\ 0 # acc /\ TextPT \in PatternTypes
    BY <1>1 DEF PatternTypes
<1>6. Nfa(none, trans, 0, acc, size, TextPT) \in Sound
    <2> HIDE DEF trans, none, acc, size
    <2> QED BY <1>2, <1>3, <1>4, <1>5, Assembled
<1> QED BY <1>6 DEF UnionNfa, none

\* An operand gets a new initial and a new accepting state: what the star and
\* the option have in common.
LEMMA Wrapped ==
    ASSUME NEW n \in Sound, NEW type \in PatternTypes, NEW T,
           T \subseteq {<<n.size, EPSILON, n.init>>, <<n.accept, EPSILON, n.init>>,
                        <<n.accept, EPSILON, n.size + 1>>, <<n.size, EPSILON, n.size + 1>>}
    PROVE  Nfa(n.subms, n.trans \cup T, n.size, n.size + 1, n.size + 2, type) \in Sound
<1> DEFINE i == n.size
           a == n.size + 1
           size == n.size + 2
           trans == n.trans \cup T
<1>1. /\ n.init \in Nat /\ n.accept \in Nat /\ n.size \in Nat /\ n.subms \in Seq(Submatches)
      /\ n.init < n.size /\ n.accept < n.size
    BY SoundFacts
<1>2. i \in Nat /\ a \in Nat /\ size \in Nat /\ i < size /\ a < size /\ i # a
    BY <1>1
<1>3. ASSUME NEW t \in trans
      PROVE  Fits(t, i, a, size)
    <2>1. CASE t \in n.trans
        BY <1>1, <2>1, SoundFacts DEF Fits
    <2>2. CASE t \in T
        <3> HIDE DEF i, a
        <3>1. PICK b \in {i, n.accept}, e \in {n.init, a} : t = <<b, EPSILON, e>>
            BY <2>2 DEF i, a
        <3>2. b \in Nat /\ e \in Nat
            BY <1>1, <1>2
        <3>3. t \in Edges /\ t[1] = b /\ t[3] = e
            BY <3>1, <3>2, Epsilon
        <3> QED BY <1>1, <3>1, <3>3 DEF Fits, i, a
    <2> QED BY <2>1, <2>2
<1>4. \A j \in 1..Len(n.subms) : n.subms[j].start < size
    <2> SUFFICES ASSUME NEW j \in 1..Len(n.subms)
                 PROVE  n.subms[j].start < size
        OBVIOUS
    <2>1. n.subms[j] \in Submatches /\ n.subms[j].start < n.size
        BY SoundFacts
    <2>2. n.subms[j].start \in Nat
        BY <2>1 DEF Submatches
    <2> QED BY <1>1, <2>1, <2>2
<1>5. Nfa(n.subms, trans, i, a, size, type) \in Sound
    <2> HIDE DEF trans, i, a, size
    <2> QED BY <1>1, <1>2, <1>3, <1>4, Assembled
<1> QED BY <1>5

\* star and select.
LEMMA StarSound ==
    ASSUME NEW n \in Sound
    PROVE  StarNfa(n) \in Sound /\ SelectNfa(n) \in Sound
<1>1. (IF n.type = IntPT THEN IntPT ELSE TextPT) \in PatternTypes /\ n.type \in PatternTypes
    BY SoundFacts DEF PatternTypes
<1>2. StarNfa(n) \in Sound
    BY <1>1, Wrapped DEF StarNfa
<1>3. SelectNfa(n) \in Sound
    BY <1>1, Wrapped DEF SelectNfa
<1> QED BY <1>2, <1>3

\* The fields of an NFA make it up.
LEMMA Fields ==
    ASSUME NEW n \in NfaType
    PROVE  n = Nfa(n.subms, n.trans, n.init, n.accept, n.size, n.type)
BY DEF NfaType, Nfa

\* An NFA with another type.
LEMMA Retyped ==
    ASSUME NEW n \in Sound, NEW type \in PatternTypes
    PROVE  [n EXCEPT !.type = type] \in Sound
<1>1. n = Nfa(n.subms, n.trans, n.init, n.accept, n.size, n.type)
    BY Fields DEF Sound
<1>2. [n EXCEPT !.type = type] = Nfa(n.subms, n.trans, n.init, n.accept, n.size, type)
    BY <1>1 DEF Nfa
<1>3. /\ n.subms \in Seq(Submatches) /\ n.init \in Nat /\ n.accept \in Nat /\ n.size \in Nat
      /\ n.init < n.size /\ n.accept < n.size /\ n.init # n.accept
      /\ \A t \in n.trans : Fits(t, n.init, n.accept, n.size)
      /\ \A i \in 1..Len(n.subms) : n.subms[i].start < n.size
    BY SoundFacts
<1>4. Nfa(n.subms, n.trans, n.init, n.accept, n.size, type) \in Sound
    BY <1>3, Assembled
<1> QED BY <1>2, <1>4

\* An NFA with other groups.
LEMMA Regrouped ==
    ASSUME NEW n \in Sound, NEW l \in Seq(Submatches), \A i \in 1..Len(l) : l[i].start < n.size
    PROVE  [n EXCEPT !.subms = l] \in Sound
<1>1. n = Nfa(n.subms, n.trans, n.init, n.accept, n.size, n.type)
    BY Fields DEF Sound
<1>2. [n EXCEPT !.subms = l] = Nfa(l, n.trans, n.init, n.accept, n.size, n.type)
    BY <1>1 DEF Nfa
<1>3. /\ n.init \in Nat /\ n.accept \in Nat /\ n.size \in Nat /\ n.type \in PatternTypes
      /\ n.init < n.size /\ n.accept < n.size /\ n.init # n.accept
      /\ \A t \in n.trans : Fits(t, n.init, n.accept, n.size)
    BY SoundFacts
<1>4. Nfa(l, n.trans, n.init, n.accept, n.size, n.type) \in Sound
    BY <1>3, Assembled
<1> QED BY <1>2, <1>4

\* copyNFA, and the repetition that is put together of it.
LEMMA PlusSound ==
    ASSUME NEW n \in Sound
    PROVE  CopyNfa(n) \in Sound /\ PlusNfa(n) \in Sound
<1>1. CopyNfa(n) \in Sound
    <2>1. n.subms \in Seq(Submatches) /\ \A i \in 1..Len(n.subms) : n.subms[i].start < n.size
        BY SoundFacts
    <2>2. /\ Reverse(n.subms) \in Seq(Submatches)
          /\ \A i \in 1..Len(Reverse(n.subms)) : Reverse(n.subms)[i].start < n.size
        BY <2>1, ReversedGroups
    <2>3. [n EXCEPT !.subms = Reverse(n.subms)] \in Sound
        BY <2>2, Regrouped
    <2> QED BY <2>3 DEF CopyNfa
<1>2. StarNfa(CopyNfa(n)) \in Sound
    BY <1>1, StarSound
<1>3. ConcatNfa(n, StarNfa(CopyNfa(n))) \in Sound
    BY <1>2, ConcatSound
<1> QED BY <1>1, <1>3 DEF PlusNfa

\* The states of the copies of a repetition lie one copy after the other.
LEMMA InCopy ==
    ASSUME NEW size \in Nat, NEW num \in Nat, NEW i \in 0..(num - 1)
    PROVE  /\ size * i \in Nat /\ size * num \in Nat
           /\ size * i + size <= size * num
           /\ i >= 1 => size * (i - 1) \in Nat /\ size * (i - 1) + size = size * i
           /\ i <= num - 2 => size * i + size <= size * (num - 1)
           /\ size * (num - 1) + size = size * num /\ size * (num - 1) \in Nat
<1> DEFINE m == num - 1
           d == m - i
<1>1. m \in Nat /\ d \in Nat /\ i \in Nat /\ m = i + d /\ num = m + 1
    OBVIOUS
<1>2. \A a \in Nat, b \in Nat : size * a \in Nat /\ size * (a + b) = size * a + size * b
    OBVIOUS
<1>3. size * 1 = size
    OBVIOUS
<1> HIDE DEF m, d
<1>4. size * m = size * i + size * d /\ size * num = size * m + size
    BY <1>1, <1>2, <1>3
<1>5. size * i \in Nat /\ size * d \in Nat /\ size * m \in Nat /\ size * num \in Nat
    BY <1>1, <1>2
<1>6. i >= 1 => size * (i - 1) \in Nat /\ size * (i - 1) + size = size * i
    <2> SUFFICES ASSUME i >= 1 PROVE size * (i - 1) \in Nat /\ size * (i - 1) + size = size * i
        OBVIOUS
    <2>1. PICK j \in Nat : i = j + 1
        BY <1>1
    <2>2. i - 1 = j
        BY <2>1
    <2> QED BY <1>2, <1>3, <2>1, <2>2
<1>7. d >= 1 => size * d >= size
    <2> SUFFICES ASSUME d >= 1 PROVE size * d >= size
        OBVIOUS
    <2>1. PICK j \in Nat : d = j + 1
        BY <1>1
    <2>2. size * d = size * j + size /\ size * j \in Nat
        BY <1>2, <1>3, <2>1
    <2> QED BY <2>2
<1> QED BY <1>1, <1>4, <1>5, <1>6, <1>7 DEF m, d

\* {num}: copies, one after the other.
LEMMA NumSound ==
    ASSUME NEW n \in Sound, NEW num \in Nat \ {0}
    PROVE  NumNfa(n, num) \in Sound
<1> DEFINE copies == UNION {ShiftTrans(n.trans, n.size * i) : i \in 0..(num - 1)}
           joints == {<<n.size * (i - 1) + n.accept, EPSILON, n.size * i + n.init>> :
                        i \in 1..(num - 1)}
           trans == copies \cup joints
           acc == n.size * (num - 1) + n.accept
           size == n.size * num
           type == IF n.type = DoublePT THEN TextPT ELSE n.type
<1>1. /\ n.init \in Nat /\ n.accept \in Nat /\ n.size \in Nat
      /\ n.init < n.size /\ n.accept < n.size /\ n.init # n.accept
    BY SoundFacts
<1>2. \A i \in 0..(num - 1) :
          /\ n.size * i \in Nat /\ n.size * num \in Nat
          /\ n.size * i + n.size <= n.size * num
          /\ i >= 1 => n.size * (i - 1) \in Nat /\ n.size * (i - 1) + n.size = n.size * i
          /\ i <= num - 2 => n.size * i + n.size <= n.size * (num - 1)
          /\ n.size * (num - 1) + n.size = n.size * num /\ n.size * (num - 1) \in Nat
    BY <1>1, InCopy
<1>3. n.size * (num - 1) \in Nat /\ n.size * num \in Nat /\ n.size * (num - 1) + n.size = n.size * num
    BY <1>2
<1>4. /\ acc \in Nat /\ size \in Nat /\ n.init < size /\ acc < size /\ n.init # acc
    <2>1. CASE num = 1
        <3> DEFINE b == n.size * (num - 1)
        <3>1. b = 0
            BY <1>1, <2>1
        <3>2. b + n.size = size /\ acc = b + n.accept
            BY <1>3
        <3> HIDE DEF acc, size, b
        <3> QED BY <1>1, <3>1, <3>2
    <2>2. CASE num # 1
        <3>1. 0 \in 0..(num - 1) /\ 0 <= num - 2 /\ n.size * 0 = 0
            BY <1>1, <2>2
        <3>2. n.size <= n.size * (num - 1)
            BY <1>1, <1>2, <3>1
        <3> DEFINE b == n.size * (num - 1)
        <3>3. b \in Nat /\ b + n.size = size /\ acc = b + n.accept /\ n.size <= b
            BY <1>3, <3>2
        <3> HIDE DEF acc, size, b
        <3> QED BY <1>1, <3>3
    <2> QED BY <2>1, <2>2
<1>5. ASSUME NEW t \in trans
      PROVE  Fits(t, n.init, acc, size)
    <2>1. CASE t \in copies
        <3>1. PICK i \in 0..(num - 1) : t \in ShiftTrans(n.trans, n.size * i)
            BY <2>1
        <3> DEFINE k == n.size * i
        <3>2. /\ k \in Nat /\ k + n.size <= size
              /\ i <= num - 2 => k + n.size <= n.size * (num - 1)
            BY <1>2
        <3>3. i = num - 1 \/ i <= num - 2
            OBVIOUS
        <3>4. i = num - 1 => k = n.size * (num - 1)
            OBVIOUS
        <3>5. i = 0 \/ i >= 1
            OBVIOUS
        <3>6. i = 0 => k = 0
            BY <1>1
        <3>7. i >= 1 => k >= n.size
            BY <1>1, <1>2
        <3>8. t \in ShiftTrans(n.trans, k)
            BY <3>1
        <3> HIDE DEF k, size, trans
        <3>9. /\ t \in Edges
              /\ t[1] \in Nat /\ k <= t[1] /\ t[1] < k + n.size /\ t[1] # k + n.accept
              /\ t[3] \in Nat /\ k <= t[3] /\ t[3] < k + n.size /\ t[3] # k + n.init
            BY <3>2, <3>8, Shifted
        <3>10. t[1] < size /\ t[3] < size
            BY <1>1, <1>4, <3>2, <3>9
        <3>11. t[1] # acc
            <4>1. CASE i = num - 1
                BY <3>4, <3>9, <4>1
            <4>2. CASE i <= num - 2
                <5> DEFINE b == n.size * (num - 1)
                <5>1. b \in Nat /\ k + n.size <= b /\ acc = b + n.accept
                    BY <1>3, <3>2, <4>2
                <5> HIDE DEF b, acc
                <5> QED BY <1>1, <3>2, <3>9, <5>1
            <4> QED BY <3>3, <4>1, <4>2
        <3>12. t[3] # n.init
            BY <1>1, <3>2, <3>5, <3>6, <3>7, <3>9
        <3> QED BY <3>9, <3>10, <3>11, <3>12 DEF Fits
    <2>2. CASE t \in joints
        <3>1. PICK i \in 1..(num - 1) :
                    t = <<n.size * (i - 1) + n.accept, EPSILON, n.size * i + n.init>>
            BY <2>2
        <3> DEFINE k == n.size * i
                   j == n.size * (i - 1)
                   b == n.size * (num - 1)
        <3>2. /\ k \in Nat /\ j \in Nat /\ b \in Nat /\ j + n.size = k /\ k + n.size <= size
              /\ acc = b + n.accept
            BY <1>2, <1>3
        <3>3. k <= b
            <4>1. i = num - 1 \/ i <= num - 2
                OBVIOUS
            <4>2. i = num - 1 => k = b
                OBVIOUS
            <4>3. i <= num - 2 => k + n.size <= b
                BY <1>2
            <4> HIDE DEF k, b
            <4> QED BY <1>1, <3>2, <4>1, <4>2, <4>3
        <3>4. t = <<j + n.accept, EPSILON, k + n.init>>
            BY <3>1
        <3> HIDE DEF k, j, b, size, acc
        <3>5. j + n.accept \in Nat /\ k + n.init \in Nat
            BY <1>1, <3>2
        <3>6. t \in Edges /\ t[1] = j + n.accept /\ t[3] = k + n.init
            BY <3>4, <3>5, Epsilon
        <3>7. size \in Nat /\ acc = b + n.accept
            BY <1>4, <3>2
        <3>8. j + n.accept < size /\ j + n.accept # b + n.accept
            BY <1>1, <3>2, <3>3, <3>7
        <3>9. k + n.init < size /\ k + n.init # n.init
            BY <1>1, <3>2, <3>7
        <3> QED BY <3>6, <3>7, <3>8, <3>9 DEF Fits
    <2> QED BY <2>1, <2>2
<1>6. \A i \in 1..Len(n.subms) : n.subms[i].start < size
    <2>1. n.size <= size
        BY <1>1, <1>3
    <2> SUFFICES ASSUME NEW i \in 1..Len(n.subms)
                 PROVE  n.subms[i].start < size
        OBVIOUS
    <2>2. n.subms[i] \in Submatches /\ n.subms[i].start < n.size
        BY SoundFacts
    <2>3. n.subms[i].start \in Nat
        BY <2>2 DEF Submatches
    <2> HIDE DEF size
    <2> QED BY <1>1, <1>4, <2>1, <2>2, <2>3
<1>7. type \in PatternTypes
    BY SoundFacts DEF PatternTypes
<1>8. Nfa(n.subms, trans, n.init, acc, size, type) \in Sound
    <2>1. n.subms \in Seq(Submatches)
        BY SoundFacts
    <2> HIDE DEF trans, acc, size, type
    <2> QED BY <1>1, <2>1, <1>4, <1>5, <1>6, <1>7, Assembled
<1> QED BY <1>8 DEF NumNfa

\* A named group: it starts in the initial state of its body.
LEMMA SubmatchSound ==
    ASSUME NEW n \in Sound, NEW name \in Names
    PROVE  SubmatchNfa(n, name) \in Sound
<1> DEFINE s == [start |-> n.init, end |-> n.accept - n.init + 1,
                 name |-> name, type |-> n.type]
           l == <<s>> \o n.subms
<1>1. /\ n.init \in Nat /\ n.accept \in Nat /\ n.type \in PatternTypes /\ n.size \in Nat
      /\ n.subms \in Seq(Submatches) /\ n.init < n.size
      /\ \A i \in 1..Len(n.subms) : n.subms[i].start < n.size
    BY SoundFacts
<1>2. s \in Submatches /\ s.start < n.size
    BY <1>1 DEF Submatches
<1>3. l \in Seq(Submatches) /\ \A i \in 1..Len(l) : l[i].start < n.size
    <2> HIDE DEF s
    <2> DEFINE h == <<s>>
    <2>1. h \in Seq(Submatches) /\ Len(h) = 1 /\ h[1] = s
        BY <1>2
    <2>2. l = h \o n.subms
        OBVIOUS
    <2> HIDE DEF h, l
    <2>3. /\ l \in Seq(Submatches) /\ Len(l) = 1 + Len(n.subms)
          /\ \A i \in 1..(1 + Len(n.subms)) : l[i] = IF i <= 1 THEN h[i] ELSE n.subms[i - 1]
        <3>1. n.subms \in Seq(Submatches) /\ h \in Seq(Submatches)
            BY <1>1, <2>1
        <3>2. /\ h \o n.subms \in Seq(Submatches)
              /\ Len(h \o n.subms) = Len(h) + Len(n.subms)
              /\ \A i \in 1..(Len(h) + Len(n.subms)) :
                    (h \o n.subms)[i] = IF i <= Len(h) THEN h[i] ELSE n.subms[i - Len(h)]
            BY <3>1, ConcatProperties
        <3> QED BY <2>1, <2>2, <3>2
    <2>4. Len(n.subms) \in Nat
        BY <1>1
    <2>5. ASSUME NEW i \in 1..Len(l)
          PROVE  l[i].start < n.size
        <3>1. CASE i = 1
            BY <1>2, <2>1, <2>3, <3>1
        <3>2. CASE i # 1
            <4>1. i - 1 \in 1..Len(n.subms) /\ ~(i <= 1) /\ i \in 1..(1 + Len(n.subms))
                BY <2>3, <2>4, <3>2
            <4>2. l[i] = n.subms[i - 1]
                BY <2>3, <4>1
            <4> QED BY <1>1, <4>1, <4>2
        <3> QED BY <3>1, <3>2
    <2> QED BY <2>3, <2>5
<1>4. [n EXCEPT !.subms = l] \in Sound
    <2> HIDE DEF l
    <2> QED BY <1>3, Regrouped
<1> QED BY <1>4 DEF SubmatchNfa

\* The keywords.
LEMMA KeywordSound ==
    ASSUME NEW k \in {"digit", "alph", "capt", "int", "double"}
    PROVE  KeywordNfa(k) \in Sound
<1>1. /\ \A S \in SUBSET Chars : CharsetsNfa(S) \in Sound
      /\ IntPT \in PatternTypes /\ DoublePT \in PatternTypes /\ TextPT \in PatternTypes
    BY StepSound DEF CharsetsNfa, PatternTypes
<1>2. /\ \A a, b : RangeCharsets(a, b) \in SUBSET Chars
      /\ \A S : S \cap Chars \in SUBSET Chars
    BY DEF RangeCharsets
<1>3. DigitNfa \in Sound /\ AlphNfa \in Sound /\ CaptNfa \in Sound
    BY <1>1, <1>2, StepSound DEF DigitNfa, AlphNfa, CaptNfa
<1>4. /\ Sign \in Sound /\ CharsetsNfa(Digits10) \in Sound
    BY <1>1, <1>2, StarSound DEF Sign, Digits10
<1>5. Natural0 \in Sound
    <2>1. ConcatNfa(CharsetsNfa(RangeCharsets(49, 57)), StarNfa(CharsetsNfa(Digits10))) \in Sound
        BY <1>1, <1>2, <1>4, StarSound, ConcatSound
    <2> QED BY <1>1, <1>2, <2>1, UnionSound DEF Natural0
<1>6. ConcatNfa(Sign, Natural0) \in Sound
    BY <1>4, <1>5, ConcatSound
<1>7. IntNfa \in Sound
    BY <1>1, <1>6, Retyped DEF IntNfa
<1>8. DoubleNfa \in Sound
    <2> DEFINE fraction == ConcatNfa(CharsetsNfa({46} \cap Chars), PlusNfa(CharsetsNfa(Digits10)))
               marked == ConcatNfa(CharsetsNfa({69, 101} \cap Chars), Sign)
               exponent == SelectNfa(ConcatNfa(marked, Natural0))
    <2>1. fraction \in Sound
        BY <1>1, <1>2, <1>4, PlusSound, ConcatSound
    <2>2. marked \in Sound
        BY <1>1, <1>2, <1>4, ConcatSound
    <2>3. exponent \in Sound
        <3> HIDE DEF marked
        <3> QED BY <1>5, <2>2, ConcatSound, StarSound
    <2>4. ConcatNfa(ConcatNfa(Sign, Natural0), ConcatNfa(fraction, exponent)) \in Sound
        <3> HIDE DEF fraction, exponent
        <3> QED BY <1>6, <2>1, <2>3, ConcatSound
    <2> QED BY <1>1, <2>4, Retyped DEF DoubleNfa
<1> QED BY <1>3, <1>7, <1>8 DEF KeywordNfa

----------------------------------------------------------------------------
\* The parser's stack.

\* A value of the stack.
Value(v) == v.cat \in Elementary..Regex /\ v.nfa \in Sound

\* A list of values.
Values(s) ==
    /\ s \in Seq({s[i] : i \in 1..Len(s)})
    /\ \A i \in 1..Len(s) : Value(s[i])

\* The inductive invariant.
Inv ==
    /\ Values(stack)
    /\ tokens \in 0..MaxTokens /\ done \in BOOLEAN

\* A list of whatever, that are all values, is a list of values.
LEMMA Listed ==
    ASSUME NEW R, NEW s \in Seq(R), \A i \in 1..Len(s) : Value(s[i])
    PROVE  Values(s)
<1> DEFINE N == Len(s)
           Q == {s[i] : i \in 1..N}
<1>1. N \in Nat /\ s \in [1..N -> R]
    OBVIOUS
<1> HIDE DEF N
<1>2. s \in [1..N -> Q]
    BY <1>1
<1> HIDE DEF Q
<1>3. s \in Seq(Q)
    BY <1>1, <1>2, SeqDef
<1> QED BY <1>3 DEF Values, N, Q

\* A reduction that pushes a value.
LEMMA Pushed ==
    ASSUME NEW s, Values(s), NEW v, Value(v)
    PROVE  Values(Append(s, v))
<1> DEFINE R == {s[i] : i \in 1..Len(s)} \cup {v}
           t == Append(s, v)
<1>1. s \in Seq(R) /\ v \in R
    <2>1. s \in Seq({s[i] : i \in 1..Len(s)})
        BY DEF Values
    <2> QED BY <2>1
<1> HIDE DEF R
<1>2. /\ t \in Seq(R) /\ Len(t) = Len(s) + 1 /\ Len(s) \in Nat
      /\ \A i \in 1..Len(s) : t[i] = s[i]
      /\ t[Len(s) + 1] = v
    BY <1>1
<1> HIDE DEF t
<1>3. \A i \in 1..Len(t) : Value(t[i])
    <2> SUFFICES ASSUME NEW i \in 1..Len(t) PROVE Value(t[i])
        OBVIOUS
    <2>1. i \in 1..Len(s) \/ i = Len(s) + 1
        BY <1>2
    <2> QED BY <1>2, <2>1 DEF Values
<1>4. Values(t)
    BY <1>2, <1>3, Listed
<1> QED BY <1>4 DEF t

\* A reduction that replaces the top value.
LEMMA Replaced ==
    ASSUME NEW s, Values(s), s # <<>>, NEW v, Value(v)
    PROVE  Values([s EXCEPT ![Len(s)] = v])
<1> DEFINE R == {s[i] : i \in 1..Len(s)} \cup {v}
           t == [s EXCEPT ![Len(s)] = v]
<1>1. s \in Seq(R) /\ v \in R
    <2>1. s \in Seq({s[i] : i \in 1..Len(s)})
        BY DEF Values
    <2> QED BY <2>1
<1> HIDE DEF R
<1>2. /\ t \in Seq(R) /\ Len(t) = Len(s)
      /\ \A i \in 1..Len(s) : t[i] = IF i = Len(s) THEN v ELSE s[i]
    BY <1>1
<1> HIDE DEF t
<1>3. \A i \in 1..Len(t) : Value(t[i])
    BY <1>2 DEF Values
<1>4. Values(t)
    BY <1>2, <1>3, Listed
<1> QED BY <1>4 DEF t

\* The values under the top two.
LEMMA Popped ==
    ASSUME NEW s, Values(s), Len(s) >= 2
    PROVE  Values(SubSeq(s, 1, Len(s) - 2))
<1> DEFINE R == {s[i] : i \in 1..Len(s)}
           t == SubSeq(s, 1, Len(s) - 2)
<1>1. s \in Seq(R) /\ Len(s) \in Nat
    BY DEF Values
<1> HIDE DEF R
<1>2. /\ t \in Seq(R) /\ Len(t) = Len(s) - 2
      /\ \A i \in 1..Len(s) - 2 : t[i] = s[i]
    <2> DEFINE N == Len(s)
    <2>1. N \in Nat /\ N >= 2 /\ N - 2 \in 0..N /\ \A i \in 1..N : s[i] \in R
        BY <1>1
    <2> HIDE DEF N
    <2>2. t = [i \in 1..N - 2 |-> s[i]]
        BY <2>1 DEF N
    <2> HIDE DEF t
    <2> QED BY <2>1, <2>2 DEF N
<1> HIDE DEF t
<1>3. \A i \in 1..Len(t) : Value(t[i])
    BY <1>1, <1>2 DEF Values
<1>4. Values(t)
    BY <1>2, <1>3, Listed
<1> QED BY <1>4 DEF t

\* A value that a reduction makes.
LEMMA Made ==
    ASSUME NEW cat \in Elementary..Regex, NEW nfa \in Sound, NEW ref, NEW groups
    PROVE  Value([cat |-> cat, nfa |-> nfa, ref |-> ref, groups |-> groups])
BY DEF Value

\* The categories of the grammar.
LEMMA Categories ==
    /\ Elementary \in Elementary..Regex /\ Basic \in Elementary..Regex
    /\ Simple \in Elementary..Regex /\ Regex \in Elementary..Regex
BY DEF Elementary, Basic, Simple, Regex

\* elementary_re: an operand is read.
LEMMA ShiftStep ==
    ASSUME Inv, NEW nfa \in Sound, NEW ref, Shift(nfa, ref)
    PROVE  Inv'
<1> DEFINE v == [cat |-> Elementary, nfa |-> nfa, ref |-> ref, groups |-> {}]
<1>1. Value(v)
    BY Categories, Made
<1> HIDE DEF v
<1>2. Values(Append(stack, v))
    BY <1>1, Pushed DEF Inv
<1>3. Values(stack')
    BY <1>2 DEF Shift, v
<1>4. tokens' \in 0..MaxTokens /\ done' \in BOOLEAN
    BY ParserAssumption DEF Inv, Shift, CanRead
<1> QED BY <1>3, <1>4 DEF Inv, Values, Value

\* An operator or a parenthesis is read: the top value is replaced.
LEMMA UnaryStep ==
    ASSUME Inv, NEW from, NEW cat \in Elementary..Regex, NEW nfa, NEW ref, NEW groups,
           Top.nfa \in Sound => nfa \in Sound, Unary(from, cat, nfa, ref, groups)
    PROVE  Inv'
<1> DEFINE v == [cat |-> cat, nfa |-> nfa, ref |-> ref, groups |-> groups]
<1>1. Top.nfa \in Sound
    <2>1. stack # <<>> /\ Len(stack) \in Nat
        BY DEF Inv, Values, Unary
    <2>2. Len(stack) \in 1..Len(stack)
        BY <2>1 DEF Inv, Values
    <2> QED BY <2>2 DEF Inv, Values, Value, Top
<1>2. Value(v)
    BY <1>1, Made
<1> HIDE DEF v
<1>3. Values([stack EXCEPT ![Len(stack)] = v])
    BY <1>2, Replaced DEF Inv, Unary
<1>4. Values(stack')
    BY <1>3 DEF Unary, v
<1>5. tokens' \in 0..MaxTokens /\ done' \in BOOLEAN
    BY ParserAssumption DEF Inv, Unary, CanRead
<1> QED BY <1>4, <1>5 DEF Inv, Values, Value

\* A concatenation or an alternation: the two top values become one.
LEMMA BinaryStep ==
    ASSUME Inv, NEW left, NEW right, NEW cat \in Elementary..Regex, NEW nfa, NEW ref, NEW groups,
           Second.nfa \in Sound /\ Top.nfa \in Sound => nfa \in Sound,
           Binary(left, right, cat, nfa, ref, groups)
    PROVE  Inv'
<1> DEFINE v == [cat |-> cat, nfa |-> nfa, ref |-> ref, groups |-> groups]
<1>1. Second.nfa \in Sound /\ Top.nfa \in Sound
    <2>1. Len(stack) \in Nat /\ Len(stack) >= 2
        BY DEF Inv, Values, Binary
    <2>2. Len(stack) \in 1..Len(stack) /\ Len(stack) - 1 \in 1..Len(stack)
        BY <2>1
    <2> QED BY <2>2 DEF Inv, Values, Value, Top, Second
<1>2. Value(v)
    BY <1>1, Made
<1> HIDE DEF v
<1>3. Values(Append(SubSeq(stack, 1, Len(stack) - 2), v))
    <2>1. Values(SubSeq(stack, 1, Len(stack) - 2))
        BY Popped DEF Inv, Binary
    <2> QED BY <1>2, <2>1, Pushed
<1>4. Values(stack')
    BY <1>3 DEF Binary, v
<1>5. tokens' \in 0..MaxTokens /\ done' \in BOOLEAN
    BY DEF Inv, Binary
<1> QED BY <1>4, <1>5 DEF Inv, Values, Value

\* The invariant holds at first.
LEMMA InitInv == Init => Inv
<1> SUFFICES ASSUME Init PROVE Inv
    OBVIOUS
<1>1. stack \in Seq({}) /\ Len(stack) = 0
    BY DEF Init
<1>2. \A i \in 1..Len(stack) : Value(stack[i])
    BY <1>1
<1>3. Values(stack)
    BY <1>1, <1>2, Listed
<1>4. tokens = 0 /\ done = FALSE
    BY DEF Init
<1>5. tokens \in 0..MaxTokens /\ done \in BOOLEAN
    <2>1. MaxTokens \in Nat
        BY ParserAssumption
    <2>2. 0 \in 0..MaxTokens
        BY <2>1
    <2> QED BY <1>4, <2>2
<1> QED BY <1>3, <1>5 DEF Inv

\* Every reduction keeps the invariant.
LEMMA NextInv == Inv /\ [Next]_vars => Inv'
<1> SUFFICES ASSUME Inv, [Next]_vars PROVE Inv'
    OBVIOUS
<1> USE Categories
<1>1. CASE ReduceChar
    <2>1. PICK c \in Chars : Shift(CharNfa(c), Letters({c}))
        BY <1>1 DEF ReduceChar
    <2>2. CharNfa(c) \in Sound
        BY StepSound DEF CharNfa, PatternTypes
    <2> QED BY <2>1, <2>2, ShiftStep
<1>2. CASE ReduceWildcard
    <2>1. WildcardNfa \in Sound
        BY StepSound DEF WildcardNfa, PatternTypes
    <2> QED BY <1>2, <2>1, ShiftStep DEF ReduceWildcard
<1>3. CASE ReduceCharset
    <2>1. PICK S \in Charsets : \/ Shift(CharsetsNfa(S), Letters(S))
                                \/ Shift(CharsetsNfa(NegateCharsets(S)),
                                         Letters({c \in Chars : c \notin S}))
        BY <1>3 DEF ReduceCharset
    <2>2. S \in SUBSET Chars /\ NegateCharsets(S) \in SUBSET Chars
        BY ParserAssumption DEF NegateCharsets
    <2>3. CharsetsNfa(S) \in Sound /\ CharsetsNfa(NegateCharsets(S)) \in Sound
        BY <2>2, StepSound DEF CharsetsNfa, PatternTypes
    <2> QED BY <2>1, <2>3, ShiftStep
<1>4. CASE ReduceKeyword
    <2>1. PICK k \in Keywords : Shift(KeywordNfa(k), KeywordLang(k))
        BY <1>4 DEF ReduceKeyword
    <2>2. KeywordNfa(k) \in Sound
        BY ParserAssumption, KeywordSound
    <2> QED BY <2>1, <2>2, ShiftStep
<1>5. CASE ReduceStar
    <2>1. Top.nfa \in Sound => StarNfa(Top.nfa) \in Sound
        BY StarSound
    <2> QED BY <1>5, <2>1, UnaryStep DEF ReduceStar
<1>6. CASE ReducePlus
    <2>1. Top.nfa \in Sound => PlusNfa(Top.nfa) \in Sound
        BY PlusSound
    <2> QED BY <1>6, <2>1, UnaryStep DEF ReducePlus
<1>7. CASE ReduceSelect
    <2>1. Top.nfa \in Sound => SelectNfa(Top.nfa) \in Sound
        BY StarSound
    <2> QED BY <1>7, <2>1, UnaryStep DEF ReduceSelect
<1>8. CASE ReduceCount
    <2>1. PICK k \in Counts :
            Unary(Elementary, Basic, NumNfa(Top.nfa, k), Power(Top.ref, k), Top.groups)
        BY <1>8 DEF ReduceCount
    <2>2. Top.nfa \in Sound => NumNfa(Top.nfa, k) \in Sound
        BY ParserAssumption, NumSound
    <2> QED BY <2>1, <2>2, UnaryStep
<1>9. CASE ReduceParenthesis
    BY <1>9, UnaryStep DEF ReduceParenthesis
<1>10. CASE ReduceSubmatch
    <2>1. PICK name \in Names :
            Unary(Regex, Elementary, SubmatchNfa(Top.nfa, name), Top.ref,
                  Top.groups \cup {[name |-> name, pre |-> {<<>>}]})
        BY <1>10 DEF ReduceSubmatch
    <2>2. Top.nfa \in Sound => SubmatchNfa(Top.nfa, name) \in Sound
        BY SubmatchSound
    <2> QED BY <2>1, <2>2, UnaryStep
<1>11. CASE ReduceConcat
    <2>1. Second.nfa \in Sound /\ Top.nfa \in Sound => ConcatNfa(Second.nfa, Top.nfa) \in Sound
        BY ConcatSound
    <2> QED BY <1>11, <2>1, BinaryStep DEF ReduceConcat
<1>12. CASE ReduceUnion
    <2>1. Second.nfa \in Sound /\ Top.nfa \in Sound => UnionNfa(Second.nfa, Top.nfa) \in Sound
        BY UnionSound
    <2> QED BY <1>12, <2>1, BinaryStep DEF ReduceUnion
<1>13. CASE ReduceLine
    BY <1>13 DEF ReduceLine, Inv, Values, Value
<1>14. CASE UNCHANGED vars
    BY <1>14 DEF vars, Inv, Values, Value
<1> QED BY <1>1, <1>2, <1>3, <1>4, <1>5, <1>6, <1>7, <1>8, <1>9, <1>10, <1>11, <1>12, <1>13,
           <1>14 DEF Next

\* In every reachable state the stack holds values.
THEOREM Invariance == Spec => []Inv
BY InitInv, NextInv, PTL DEF Spec

\* What the invariant says of the automata on the stack.
LEMMA InvNfas ==
    ASSUME Inv
    PROVE  \A n \in Nfas : n \in Sound
BY DEF Inv, Values, Value, Nfas

\* Type correctness: categories, counters and types are what they are declared
\* to be, and every group of every (sub)pattern starts at a state of its
\* automaton.
THEOREM TypeCorrect == Spec => []TypeOK
<1>1. ASSUME Inv PROVE TypeOK
    <2>1. ASSUME NEW n \in Nfas
          PROVE  /\ n.type \in PatternTypes
                 /\ \A i \in 1..Len(n.subms) : n.subms[i].start \in 0..(n.size - 1)
        <3>1. n \in Sound
            BY <1>1, InvNfas
        <3>2. n.type \in PatternTypes /\ n.size \in Nat
            BY <3>1, SoundFacts
        <3>3. ASSUME NEW i \in 1..Len(n.subms)
              PROVE  n.subms[i].start \in 0..(n.size - 1)
            <4>1. n.subms[i] \in Submatches /\ n.subms[i].start < n.size
                BY <3>1, SoundFacts
            <4>2. n.subms[i].start \in Nat
                BY <4>1 DEF Submatches
            <4> QED BY <3>2, <4>1, <4>2
        <3> QED BY <3>2, <3>3
    <2> QED BY <1>1, <2>1 DEF TypeOK, Inv, Values, Value
<1>2. Inv => TypeOK
    BY <1>1
<1> QED BY <1>2, Invariance, PTL

\* Every automaton that a sequence of reductions leaves on the stack, for any
\* pattern over any alphabet, is a Thompson automaton: its states are
\* 0 .. size - 1, nothing enters the initial state and nothing leaves the
\* accepting one (the builders of regex-node.cpp).
THEOREM ShapeCorrect == Spec => []ThompsonShape
<1>1. Inv => ThompsonShape
    BY InvNfas DEF ThompsonShape, Sound
<1> QED BY <1>1, Invariance, PTL
=============================================================================
