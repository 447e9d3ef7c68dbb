---------------------------- MODULE SetInduction ----------------------------
(***************************************************************************)
(* Induction over the natural numbers in a form the provers can use: what  *)
(* is to be shown for every number is given as the set of the numbers it   *)
(* holds for.  From it, that a list can be run through from its first      *)
(* element to its last (Recursion), which is what the recursive functions  *)
(* of the models and the operators of the community modules do.            *)
(***************************************************************************)
EXTENDS SequencesExt, SequenceTheorems, WellFoundedInduction, TLAPS

\* Every set of numbers that is not empty has a least element.
LEMMA LeastNatural ==
    ASSUME NEW S, S \subseteq Nat, S # {}
    PROVE  \E x \in S : \A y \in S : x <= y
<1> DEFINE R == {ss \in Nat \X Nat : ss[1] < ss[2]}
<1>1. PICK x \in S : \A y \in S : <<y, x>> \notin R
    <2>1. IsWellFoundedOn(R, Nat)
        BY NatLessThanWellFounded DEF OpToRel
    <2> HIDE DEF R
    <2> QED BY <2>1, WFMin
<1>2. ASSUME NEW y \in S
      PROVE  x <= y
    <2>1. <<y, x>> \in Nat \X Nat
        OBVIOUS
    <2> QED BY <1>1, <2>1
<1> QED BY <1>2

\* A set that has 0, and with a number the one after it, has them all.
LEMMA Induction ==
    ASSUME NEW S, 0 \in S, \A n \in Nat : n \in S => n + 1 \in S
    PROVE  \A n \in Nat : n \in S
<1> SUFFICES ASSUME Nat \ S # {} PROVE FALSE
    OBVIOUS
<1>1. PICK x \in Nat \ S : \A y \in Nat \ S : x <= y
    BY LeastNatural
<1>2. x # 0 /\ x - 1 \in Nat /\ x - 1 \in S
    BY <1>1
<1> QED BY <1>2

\* Min of a set of numbers is its least element.
LEMMA MinIsLeast ==
    ASSUME NEW S, S \subseteq Nat, S # {}
    PROVE  Min(S) \in S /\ \A y \in S : Min(S) <= y
BY LeastNatural DEF Min

\* g holds what Step computes for 1, 2, .. N from the value before, v0 at first.
Iterates(g, N, v0, Step) == g[0] = v0 /\ \A k \in 1..N : g[k] = Step[k][g[k - 1]]

\* What is computed from a first value by one step for each of the numbers up
\* to N, where every step stays in V, is a function into V.
LEMMA Recursion ==
    ASSUME NEW V, NEW N \in Nat, NEW v0 \in V, NEW Step \in [1..N -> [V -> V]]
    PROVE  \E g \in [0..N -> V] : Iterates(g, N, v0, Step)
<1> USE DEF Iterates
<1> DEFINE S == {n \in Nat : n <= N => \E g \in [0..n -> V] : Iterates(g, n, v0, Step)}
<1>1. 0 \in S
    <2>1. [k \in 0..0 |-> v0] \in [0..0 -> V] /\ Iterates([k \in 0..0 |-> v0], 0, v0, Step)
        OBVIOUS
    <2> QED BY <2>1
<1>2. ASSUME NEW n \in Nat, n \in S
      PROVE  n + 1 \in S
    <2> SUFFICES ASSUME n + 1 <= N
                 PROVE  \E g \in [0..n + 1 -> V] : Iterates(g, n + 1, v0, Step)
        OBVIOUS
    <2>1. PICK g \in [0..n -> V] : Iterates(g, n, v0, Step)
        BY <1>2
    <2> DEFINE h == [k \in 0..n + 1 |-> IF k <= n THEN g[k] ELSE Step[n + 1][g[n]]]
    <2>2. h \in [0..n + 1 -> V]
        BY <2>1
    <2>3. h[0] = v0
        BY <2>1
    <2>4. ASSUME NEW k \in 1..n + 1
          PROVE  h[k] = Step[k][h[k - 1]]
        <3>1. CASE k <= n
            BY <2>1, <3>1
        <3>2. CASE k = n + 1
            BY <3>2
        <3> QED BY <3>1, <3>2
    <2> QED BY <2>2, <2>3, <2>4
<1>3. N \in S
    <2> HIDE DEF S
    <2> QED BY <1>1, <1>2, Induction
<1> QED BY <1>3

\* A list, of whatever elements.
IsList(s) == Len(s) \in Nat /\ s = [i \in 1..Len(s) |-> s[i]]

\* A function on 1..n is a list of n elements.
LEMMA ListOfFunction ==
    ASSUME NEW n \in Nat, NEW f, f = [i \in 1..n |-> f[i]]
    PROVE  IsList(f) /\ Len(f) = n /\ DOMAIN f = 1..n
<1> DEFINE S == {f[i] : i \in 1..n}
<1>1. f \in [1..n -> S]
    OBVIOUS
<1> HIDE DEF S
<1>2. f \in Seq(S)
    BY <1>1
<1>3. Len(f) = n /\ DOMAIN f = 1..n
    BY <1>1, <1>2
<1> QED BY <1>3 DEF IsList

\* A list with one element more.
LEMMA AppendList ==
    ASSUME NEW s, IsList(s), NEW x
    PROVE  /\ IsList(Append(s, x)) /\ Len(Append(s, x)) = Len(s) + 1
           /\ DOMAIN s = 1..Len(s) /\ DOMAIN Append(s, x) = 1..Len(s) + 1
           /\ Append(s, x)[Len(s) + 1] = x /\ \A i \in 1..Len(s) : Append(s, x)[i] = s[i]
<1> DEFINE S == {s[i] : i \in 1..Len(s)} \cup {x}
           t == Append(s, x)
<1>1. s \in [1..Len(s) -> S] /\ x \in S /\ Len(s) \in Nat
    BY DEF IsList
<1> HIDE DEF S
<1>2. s \in Seq(S)
    BY <1>1
<1>3. /\ t \in Seq(S) /\ Len(t) = Len(s) + 1 /\ t[Len(s) + 1] = x
      /\ \A i \in 1..Len(s) : t[i] = s[i]
    BY <1>1, <1>2
<1>4. DOMAIN s = 1..Len(s) /\ DOMAIN t = 1..Len(s) + 1
    BY <1>1, <1>2, <1>3
<1> HIDE DEF t
<1>5. t = [i \in 1..Len(t) |-> t[i]] /\ Len(t) \in Nat
    BY <1>1, <1>3
<1> QED BY <1>3, <1>4, <1>5 DEF IsList, t

\* The lists of a list of lists, one after the other, are one list.
LEMMA FlattenSeqType ==
    ASSUME NEW S, NEW seqs \in Seq(Seq(S))
    PROVE  FlattenSeq(seqs) \in Seq(S)
<1>1. CASE seqs = <<>>
    BY <1>1 DEF FlattenSeq
<1>2. CASE seqs # <<>>
    <2> DEFINE N == Len(seqs)
               Flattens(g) == g = [i \in 1..N |-> IF i = 1 THEN seqs[i] ELSE g[i - 1] \o seqs[i]]
               Step == [i \in 1..N |-> [s \in Seq(S) |-> IF i = 1 THEN seqs[1] ELSE s \o seqs[i]]]
               f == CHOOSE g : Flattens(g)
    <2>1. N \in Nat /\ N >= 1 /\ N # 0 /\ \A i \in 1..N : seqs[i] \in Seq(S)
        BY <1>2
    <2>2. Step \in [1..N -> [Seq(S) -> Seq(S)]]
        BY <2>1
    <2>3. PICK g \in [0..N -> Seq(S)] : Iterates(g, N, <<>>, Step)
        <3>1. <<>> \in Seq(S)
            OBVIOUS
        <3> HIDE DEF Step, N
        <3> QED BY <2>1, <2>2, <3>1, Recursion
    <2> DEFINE h == [i \in 1..N |-> g[i]]
    <2>4. Flattens(h)
        <3>1. ASSUME NEW i \in 1..N
              PROVE  h[i] = IF i = 1 THEN seqs[i] ELSE h[i - 1] \o seqs[i]
            <4> HIDE DEF N
            <4>1. CASE i = 1
                <5>1. <<>> \in Seq(S)
                    OBVIOUS
                <5> HIDE DEF Step
                <5>2. g[1] = Step[1][g[0]] /\ g[0] = <<>> /\ 1 \in 1..N
                    BY <2>1, <2>3 DEF Iterates
                <5>3. Step[1][<<>>] = seqs[1]
                    BY <5>1, <5>2 DEF Step
                <5> QED BY <4>1, <5>2, <5>3
            <4>2. CASE i # 1
                <5>1. i - 1 \in 1..N /\ i - 1 \in 0..N
                    BY <2>1, <4>2
                <5>2. g[i] = g[i - 1] \o seqs[i]
                    BY <2>1, <2>3, <4>2, <5>1 DEF Iterates
                <5> QED BY <4>2, <5>1, <5>2
            <4> QED BY <4>1, <4>2
        <3> QED BY <3>1
    <2>5. Flattens(f)
        <3> HIDE DEF h
        <3> QED BY <2>4, Zenon
    <2>6. FlattenSeq(seqs) = f[N]
        BY <2>1, Zenon DEF FlattenSeq
    <2>7. \A i \in 1..N : f[i] \in Seq(S)
        <3> HIDE DEF f, N
        <3> DEFINE T == {n \in Nat : n + 1 \in 1..N => f[n + 1] \in Seq(S)}
        <3>1. 0 \in T
            BY <2>1, <2>5
        <3>2. ASSUME NEW n \in Nat, n \in T PROVE n + 1 \in T
            <4> SUFFICES ASSUME n + 2 \in 1..N
                         PROVE  f[n + 2] \in Seq(S)
                OBVIOUS
            <4>1. n + 1 \in 1..N /\ f[n + 1] \in Seq(S) /\ n + 2 # 1 /\ (n + 2) - 1 = n + 1
                BY <2>1, <3>2
            <4>2. f[n + 2] = f[n + 1] \o seqs[n + 2]
                BY <2>5, <4>1
            <4> QED BY <2>1, <4>1, <4>2
        <3>3. \A n \in Nat : n \in T
            <4> HIDE DEF T
            <4> QED BY <3>1, <3>2, Induction
        <3>4. ASSUME NEW i \in 1..N
              PROVE  f[i] \in Seq(S)
            <4>1. i - 1 \in Nat /\ (i - 1) + 1 = i
                BY <2>1
            <4> QED BY <3>3, <4>1
        <3> QED BY <3>4
    <2>8. N \in 1..N
        BY <2>1
    <2> HIDE DEF f, N
    <2> QED BY <2>6, <2>7, <2>8
<1> QED BY <1>1, <1>2
=============================================================================
