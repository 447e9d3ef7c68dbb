---------------------------- MODULE CommandProofs ----------------------------
(***************************************************************************)
(* For every set of lines, patterns and names: what Command's properties   *)
(* say of a session of any length.                                         *)
(***************************************************************************)
EXTENDS Command, SetInduction

-----------------------------------------------------------------------------
(* The lists of the grammars. *)

\* Reverse turns a list around.
LEMMA ReverseList ==
    ASSUME NEW S, NEW xs \in Seq(S)
    PROVE  /\ Reverse(xs) \in Seq(S) /\ Len(Reverse(xs)) = Len(xs)
           /\ \A n \in 1..Len(xs) : Reverse(xs)[n] = xs[Len(xs) - n + 1]
BY DEF Reverse

\* The second time it turns it back.
LEMMA ReverseTwice ==
    ASSUME NEW S, NEW xs \in Seq(S)
    PROVE  Reverse(Reverse(xs)) = xs
<1> DEFINE ys == Reverse(xs)
           zs == Reverse(ys)
<1>1. ys \in Seq(S) /\ Len(ys) = Len(xs) /\ \A n \in 1..Len(xs) : ys[n] = xs[Len(xs) - n + 1]
    BY ReverseList
<1> HIDE DEF ys
<1>2. zs \in Seq(S) /\ Len(zs) = Len(xs) /\ \A n \in 1..Len(xs) : zs[n] = ys[Len(xs) - n + 1]
    BY <1>1, ReverseList
<1> HIDE DEF zs
<1>3. \A n \in 1..Len(xs) : zs[n] = xs[n]
    BY <1>1, <1>2
<1>4. zs = xs
    BY <1>2, <1>3, SeqEqual
<1> QED BY <1>4 DEF ys, zs

\* buildPatterns and buildIdents leave the list turned around.
LEMMA BuildReverses ==
    ASSUME NEW S, NEW xs \in Seq(S)
    PROVE  BuildList(xs) = Reverse(xs)
<1> DEFINE N == Len(xs)
           Built(b) == b = [n \in 0..N |-> IF n = 0 THEN <<>> ELSE <<xs[n]>> \o b[n - 1]]
           g == [n \in 0..N |-> [j \in 1..n |-> xs[n - j + 1]]]
           f == CHOOSE b : Built(b)
<1>0. N \in Nat
    OBVIOUS
<1>1. Built(g)
    <2>1. ASSUME NEW n \in 1..N
          PROVE  g[n] = <<xs[n]>> \o g[n - 1]
        <3>1. g[n - 1] \in Seq(S) /\ Len(g[n - 1]) = n - 1
            OBVIOUS
        <3> QED BY <3>1
    <2>2. g[0] = <<>>
        OBVIOUS
    <2>3. g = [n \in 0..N |-> g[n]]
        OBVIOUS
    <2>4. \A n \in 0..N : g[n] = IF n = 0 THEN <<>> ELSE <<xs[n]>> \o g[n - 1]
        <3> HIDE DEF g, N
        <3> TAKE n \in 0..N
        <3>1. n = 0 \/ n \in 1..N
            BY <1>0
        <3> QED BY <2>1, <2>2, <3>1
    <2> HIDE DEF g
    <2> QED BY <2>3, <2>4
<1>2. Built(f)
    <2> HIDE DEF g
    <2> QED BY <1>1, Zenon
<1>3. BuildList(xs) = f[N]
    BY Zenon DEF BuildList, Build
<1>4. f[N] = g[N]
    <2> DEFINE T == {n \in Nat : n <= N => f[n] = g[n]}
    <2> HIDE DEF f, g, N
    <2>1. 0 \in T
        BY <1>0, <1>1, <1>2
    <2>2. ASSUME NEW n \in Nat, n \in T
          PROVE  n + 1 \in T
        <3> SUFFICES ASSUME n + 1 <= N
                     PROVE  f[n + 1] = g[n + 1]
            OBVIOUS
        <3>1. n + 1 \in 0..N /\ n + 1 # 0 /\ (n + 1) - 1 = n /\ f[n] = g[n]
            BY <1>0, <2>2
        <3>2. f[n + 1] = <<xs[n + 1]>> \o f[n]
            BY <1>2, <3>1
        <3>3. g[n + 1] = <<xs[n + 1]>> \o g[n]
            BY <1>1, <3>1
        <3> QED BY <3>1, <3>2, <3>3
    <2>3. \A n \in Nat : n \in T
        <3> HIDE DEF T
        <3> QED BY <2>1, <2>2, Induction
    <2> QED BY <1>0, <2>3
<1>5. g[N] = Reverse(xs)
    BY DEF Reverse
<1> QED BY <1>3, <1>4, <1>5

\* The keys are in the order of the line again.
LEMMA AssignKeysOrder ==
    ASSUME NEW S, NEW xs \in Seq(S)
    PROVE  AssignKeys(BuildList(xs)) = xs
BY BuildReverses, ReverseTwice DEF AssignKeys

-----------------------------------------------------------------------------
(* The type of a tree. *)

\* addTypeOp adds one type to those before it.
LEMMA CombineAdds ==
    ASSUME NEW T \in SUBSET KeyTypes, T # {}, NEW t \in KeyTypes
    PROVE  Combine(TypeOfAll(T), t) = TypeOfAll(T \cup {t})
BY DEF KeyTypes, Combine, TypeOfAll

\* The types of the nodes, combined from left to right, are the type of them all.
LEMMA TreeTypeOfAll ==
    ASSUME NEW nodes, DOMAIN nodes = 1..Len(nodes), Len(nodes) \in Nat \ {0},
           \A n \in 1..Len(nodes) : nodes[n].type \in KeyTypes
    PROVE  TreeType(nodes) = TypeOfAll({nodes[n].type : n \in DOMAIN nodes})
<1> DEFINE N == Len(nodes)
           Upto(n) == {nodes[k].type : k \in 1..n}
           Combined(c) == c = [n \in 1..N |-> IF n = 1 THEN nodes[1].type
                                              ELSE Combine(c[n - 1], nodes[n].type)]
           g == [n \in 1..N |-> TypeOfAll(Upto(n))]
           f == CHOOSE c : Combined(c)
<1>0. N \in Nat /\ N >= 1 /\ nodes # <<>>
    OBVIOUS
<1>1. ASSUME NEW n \in 1..N
      PROVE  g[n] = IF n = 1 THEN nodes[1].type ELSE Combine(g[n - 1], nodes[n].type)
    <2>1. CASE n = 1
        <3>1. Upto(1) = {nodes[1].type}
            OBVIOUS
        <3>2. nodes[1].type \in KeyTypes
            BY <1>0
        <3>3. \A t \in KeyTypes : TypeOfAll({t}) = t
            <4> TAKE t \in KeyTypes
            <4>1. \A x : {t} = {x} <=> t = x
                OBVIOUS
            <4>2. t \in {"INT", "DOUBLE", "TEXT"}
                BY DEF KeyTypes
            <4>3. CASE t = "INT"
                <5>1. {t} = {"INT"} /\ {t} # {"TEXT"}
                    BY <4>1, <4>3
                <5> QED BY <4>3, <5>1 DEF TypeOfAll
            <4>4. CASE t = "DOUBLE"
                <5>1. {t} # {"INT"} /\ {t} # {"TEXT"} /\ "TEXT" \notin {t}
                    BY <4>1, <4>4
                <5> QED BY <4>4, <5>1 DEF TypeOfAll
            <4>5. CASE t = "TEXT"
                BY <4>1, <4>5 DEF TypeOfAll
            <4> QED BY <4>2, <4>3, <4>4, <4>5
        <3> QED BY <2>1, <3>1, <3>2, <3>3
    <2>2. CASE n # 1
        <3>1. Upto(n) = Upto(n - 1) \cup {nodes[n].type}
            BY <2>2
        <3>2. Upto(n - 1) # {} /\ Upto(n - 1) \subseteq KeyTypes /\ nodes[n].type \in KeyTypes
            <4>1. 1 \in 1..n - 1 /\ \A k \in 1..n - 1 : k \in 1..N
                BY <2>2
            <4> QED BY <4>1
        <3>3. n - 1 \in 1..N
            BY <2>2
        <3> QED BY <2>2, <3>1, <3>2, <3>3, CombineAdds
    <2> QED BY <2>1, <2>2
<1>2. Combined(g)
    <2>1. g = [n \in 1..N |-> g[n]]
        OBVIOUS
    <2> HIDE DEF g, N
    <2> QED BY <1>1, <2>1
<1>3. Combined(f)
    <2> HIDE DEF g
    <2> QED BY <1>2, Zenon
<1>4. TreeType(nodes) = f[N]
    <2>1. ~\E n \in DOMAIN nodes : nodes[n].type = Unset
        BY CommandAssumption
    <2> QED BY <1>0, <2>1, Zenon DEF TreeType
<1>5. f[N] = g[N]
    <2> DEFINE S == {n \in Nat : n + 1 <= N => f[n + 1] = g[n + 1]}
    <2> HIDE DEF f, g, N
    <2>1. 0 \in S
        BY <1>0, <1>2, <1>3
    <2>2. ASSUME NEW n \in Nat, n \in S
          PROVE  n + 1 \in S
        <3> SUFFICES ASSUME n + 2 <= N
                     PROVE  f[n + 2] = g[n + 2]
            OBVIOUS
        <3>1. n + 2 \in 1..N /\ n + 2 # 1 /\ (n + 2) - 1 = n + 1 /\ f[n + 1] = g[n + 1]
            BY <1>0, <2>2
        <3>2. f[n + 2] = Combine(f[n + 1], nodes[n + 2].type)
            BY <1>3, <3>1
        <3>3. g[n + 2] = Combine(g[n + 1], nodes[n + 2].type)
            BY <1>2, <3>1
        <3> QED BY <3>1, <3>2, <3>3
    <2>3. \A n \in Nat : n \in S
        <3> HIDE DEF S
        <3> QED BY <2>1, <2>2, Induction
    <2>4. N - 1 \in Nat /\ (N - 1) + 1 = N
        BY <1>0
    <2> QED BY <2>3, <2>4
<1>6. Upto(N) = {nodes[n].type : n \in DOMAIN nodes}
    OBVIOUS
<1>7. g[N] = TypeOfAll(Upto(N))
    BY <1>0
<1> HIDE DEF f, g, Upto
<1> QED BY <1>4, <1>5, <1>6, <1>7

-----------------------------------------------------------------------------
(* The grammar of .scan. *)

\* What the token of a word says of the word.
LEMMA TokenOfWord ==
    ASSUME NEW w \in Words
    PROVE  /\ Token(w) = "filename" <=> w = Word("name", w.text) /\ w.text \in Names \cap Dotted
           /\ Token(w) = "identifier" <=> w = Word("name", w.text) /\ w.text \in Names \ Dotted
           /\ Token(w) = "pattern" <=> w = Word("pattern", w.text) /\ w.text \in Patterns
           /\ \A k \in Keywords : Token(w) = k <=> w = Word(k, NoText)
           /\ \A k \in Keywords : w.kind = k <=> w = Word(k, NoText)
<1>1. /\ w = [kind |-> w.kind, text |-> w.text]
      /\ \/ w.kind \in Keywords /\ w.text = NoText
         \/ w.kind = "name" /\ w.text \in Names
         \/ w.kind = "pattern" /\ w.text \in Patterns
    BY DEF Words
<1>2. ASSUME NEW k, NEW x
      PROVE  w = Word(k, x) <=> w.kind = k /\ w.text = x
    <2>1. PICK kind, text : w = [kind |-> kind, text |-> text]
        BY <1>1
    <2> QED BY <2>1 DEF Word
<1>3. /\ Token(w) = "filename" <=> w.kind = "name" /\ w.text \in Dotted
      /\ Token(w) = "identifier" <=> w.kind = "name" /\ w.text \notin Dotted
      /\ Token(w) = "pattern" <=> w.kind = "pattern"
      /\ \A k \in Keywords : Token(w) = k <=> w.kind = k
    BY <1>1 DEF Token, Keywords
<1>4. "name" \notin Keywords /\ "pattern" \notin Keywords
    BY DEF Keywords
<1> QED BY <1>1, <1>2, <1>3, <1>4

\* The even and the odd numbers.
LEMMA Halves ==
    ASSUME NEW n \in Nat
    PROVE  /\ n % 2 \in 0..1 /\ n \div 2 \in Nat /\ n = 2 * (n \div 2) + (n % 2)
           /\ (2 * n) % 2 = 0 /\ (2 * n) \div 2 = n /\ (2 * n + 1) % 2 = 1
OBVIOUS

\* A list of two.
LEMMA Pair ==
    ASSUME NEW S, NEW a \in S, NEW b \in S
    PROVE  <<a, b>> \in Seq(S) /\ Len(<<a, b>>) = 2 /\ <<a, b>>[1] = a /\ <<a, b>>[2] = b
OBVIOUS

\* A list of two is its two elements.
LEMMA PairOf ==
    ASSUME NEW S, NEW s \in Seq(S), Len(s) = 2
    PROVE  s = <<s[1], s[2]>> /\ s[1] \in S /\ s[2] \in S
<1>1. s[1] \in S /\ s[2] \in S
    <2>1. 1 \in 1..Len(s) /\ 2 \in 1..Len(s)
        OBVIOUS
    <2> QED BY <2>1, ElementOfSeq
<1>2. <<s[1], s[2]>> \in Seq(S) /\ Len(<<s[1], s[2]>>) = 2
    BY <1>1
<1>3. \A i \in 1..2 : s[i] = <<s[1], s[2]>>[i]
    OBVIOUS
<1> DEFINE r == <<s[1], s[2]>>
<1> HIDE DEF r
<1>4. r \in Seq(S) /\ Len(r) = 2 /\ \A i \in 1..2 : s[i] = r[i]
    BY <1>2, <1>3 DEF r
<1>5. s = r
    BY <1>4, SeqEqual
<1> QED BY <1>1, <1>5 DEF r

\* The words of a tablename.
LEMMA TablenameWords ==
    ASSUME NEW t \in Seq(Words)
    PROVE  IsTablename(t) <=> /\ Len(t) = 2 /\ t[1] = Word("-t", NoText)
                              /\ t[2] = Word("name", t[2].text) /\ t[2].text \in Names \ Dotted
<1>1. IsTablename(t) <=> Len(t) = 2 /\ Token(t[1]) = "-t" /\ Token(t[2]) = "identifier"
    BY DEF IsTablename, Tokens
<1>2. Len(t) = 2 => t[1] \in Words /\ t[2] \in Words
    OBVIOUS
<1> QED BY <1>1, <1>2, TokenOfWord DEF Keywords

\* The words of a single pattern.
LEMMA ExpWords ==
    ASSUME NEW e \in Seq(Words)
    PROVE  IsExp(e) <=> /\ Len(e) = 2 /\ e[1] = Word("-e", NoText)
                        /\ e[2] = Word("pattern", e[2].text) /\ e[2].text \in Patterns
<1>1. IsExp(e) <=> Len(e) = 2 /\ Token(e[1]) = "-e" /\ Token(e[2]) = "pattern"
    BY DEF IsExp, Tokens
<1>2. Len(e) = 2 => e[1] \in Words /\ e[2] \in Words
    OBVIOUS
<1> QED BY <1>1, <1>2, TokenOfWord DEF Keywords

\* A list between two elements.
LEMMA Framed ==
    ASSUME NEW S, NEW s \in Seq(S), NEW a \in S, NEW b \in S
    PROVE  /\ <<a>> \o s \o <<b>> \in Seq(S)
           /\ Len(<<a>> \o s \o <<b>>) = Len(s) + 2
           /\ (<<a>> \o s \o <<b>>)[1] = a
           /\ (<<a>> \o s \o <<b>>)[Len(s) + 2] = b
           /\ \A n \in 1..Len(s) : (<<a>> \o s \o <<b>>)[n + 1] = s[n]
<1> DEFINE t == <<a>> \o s
<1>1. t \in Seq(S) /\ Len(t) = Len(s) + 1 /\ t[1] = a /\ \A n \in 1..Len(s) : t[n + 1] = s[n]
    OBVIOUS
<1> HIDE DEF t
<1>2. t \o <<b>> \in Seq(S) /\ Len(t \o <<b>>) = Len(s) + 2 /\ (t \o <<b>>)[Len(s) + 2] = b
    BY <1>1
<1>3. \A n \in 1..Len(s) + 1 : (t \o <<b>>)[n] = t[n]
    BY <1>1
<1>4. \A n \in 1..Len(s) : n + 1 \in 1..Len(s) + 1
    OBVIOUS
<1>5. 1 \in 1..Len(s) + 1
    OBVIOUS
<1> QED BY <1>1, <1>2, <1>3, <1>4, <1>5 DEF t

\* A list of keys, as it is written.
Keyed(ps) == <<Word("-k", NoText)>> \o KeyWords(ps) \o <<Word("]", NoText)>>

\* The words of a list of keys; its patterns are those that KeyPatterns takes.
LEMMA KeysWords ==
    ASSUME NEW e \in Seq(Words), IsKeys(e)
    PROVE  /\ KeyPatterns(e) \in Seq(Patterns) /\ KeyPatterns(e) # <<>>
           /\ e = Keyed(KeyPatterns(e))
<1> DEFINE ps == KeyPatterns(e)
           kw == KeyWords(ps)
<1>0. PICK m \in 1..Len(e) :
          /\ Len(e) = 2 * m + 2
          /\ Token(e[1]) = "-k" /\ Token(e[2]) = "[" /\ Token(e[2 * m + 2]) = "]"
          /\ \A k \in 1..m : Token(e[2 * k + 1]) = "pattern"
          /\ \A k \in 2..m : Token(e[2 * k]) = "comma"
    BY DEF IsKeys
<1>1. m \in Nat /\ m >= 1 /\ Len(e) \in Nat /\ Len(e) = 2 * m + 2
    BY <1>0
<1>2. \A i \in 1..Len(e) : e[i] \in Words
    OBVIOUS
<1>3. /\ e[1] = Word("-k", NoText) /\ e[2] = Word("[", NoText) /\ e[2 * m + 2] = Word("]", NoText)
      /\ \A n \in 2..m : e[2 * n] = Word("comma", NoText)
      /\ \A n \in 1..m : e[2 * n + 1] = Word("pattern", e[2 * n + 1].text)
                        /\ e[2 * n + 1].text \in Patterns
    <2>1. {"-k", "[", "]", "comma"} \subseteq Keywords
        BY DEF Keywords
    <2>2. \A n \in 1..m : 2 * n \in 1..Len(e) /\ 2 * n + 1 \in 1..Len(e)
        BY <1>1
    <2>3. 1 \in 1..Len(e) /\ 2 \in 1..Len(e) /\ 2 * m + 2 \in 1..Len(e)
        BY <1>1
    <2>4. e[1] \in Words /\ e[2] \in Words /\ e[2 * m + 2] \in Words
        BY <1>2, <2>3
    <2>5. e[1] = Word("-k", NoText) /\ e[2] = Word("[", NoText) /\ e[2 * m + 2] = Word("]", NoText)
        BY <1>0, <2>1, <2>4, TokenOfWord
    <2>6. ASSUME NEW n \in 2..m
          PROVE  e[2 * n] = Word("comma", NoText)
        <3>1. n \in 1..m
            BY <1>1
        <3>2. e[2 * n] \in Words /\ Token(e[2 * n]) = "comma"
            BY <1>0, <1>2, <2>2, <3>1
        <3> QED BY <2>1, <3>2, TokenOfWord
    <2>7. ASSUME NEW n \in 1..m
          PROVE  e[2 * n + 1] = Word("pattern", e[2 * n + 1].text) /\ e[2 * n + 1].text \in Patterns
        <3>1. e[2 * n + 1] \in Words /\ Token(e[2 * n + 1]) = "pattern"
            BY <1>0, <1>2, <2>2
        <3> QED BY <3>1, TokenOfWord
    <2> QED BY <2>5, <2>6, <2>7
<1>4. ps \in Seq(Patterns) /\ Len(ps) = m /\ \A n \in 1..m : ps[n] = e[2 * n + 1].text
    <2>1. (Len(e) - 2) \div 2 = m
        BY <1>1
    <2>2. ps = [n \in 1..m |-> e[2 * n + 1].text]
        BY <2>1 DEF KeyPatterns
    <2> HIDE DEF ps
    <2>3. \A n \in 1..m : e[2 * n + 1].text \in Patterns
        BY <1>3
    <2>4. ps \in [1..m -> Patterns]
        BY <2>2, <2>3
    <2>5. ps \in Seq(Patterns)
        BY <1>1, <2>4
    <2>6. Len(ps) = m
        BY <1>1, <2>4, <2>5
    <2> QED BY <2>2, <2>5, <2>6
<1> HIDE DEF ps
<1>5. /\ DOMAIN kw = 1..2 * m
      /\ \A n \in 1..2 * m : kw[n] = IF n % 2 = 0 THEN Word("pattern", ps[n \div 2])
                                     ELSE Word(IF n = 1 THEN "[" ELSE "comma", NoText)
    BY <1>4 DEF KeyWords
<1>6. ASSUME NEW n \in 1..2 * m
      PROVE  kw[n] \in Words /\ e[n + 1] = kw[n]
    <2>0. n \in Nat /\ n % 2 \in 0..1 /\ n \div 2 \in Nat /\ n = 2 * (n \div 2) + (n % 2)
        BY Halves
    <2>1. CASE n % 2 = 0
        <3>1. PICK k \in 1..m : k = n \div 2 /\ n = 2 * k
            BY <1>1, <2>0, <2>1
        <3>2. kw[n] = Word("pattern", ps[k])
            BY <1>5, <2>1, <3>1
        <3>3. e[2 * k + 1] = Word("pattern", ps[k]) /\ ps[k] \in Patterns
            BY <1>3, <1>4
        <3>4. e[n + 1] = kw[n]
            BY <3>1, <3>2, <3>3
        <3>5. Word("pattern", ps[k]) \in Words
            BY <3>3 DEF Words, Word
        <3> QED BY <3>2, <3>4, <3>5
    <2>2. CASE n = 1
        <3>1. n % 2 # 0
            BY <2>2
        <3>2. kw[n] = Word("[", NoText)
            BY <1>5, <2>2, <3>1
        <3>3. Word("[", NoText) \in Words
            BY DEF Words, Word, Keywords
        <3>4. n + 1 = 2
            BY <2>2
        <3>5. e[n + 1] = Word("[", NoText)
            BY <1>3, <3>4
        <3> QED BY <3>2, <3>3, <3>5
    <2>3. CASE n % 2 = 1 /\ n # 1
        <3>1. PICK k \in 2..m : n + 1 = 2 * k
            <4>1. (n \div 2) + 1 \in 2..m /\ n + 1 = 2 * ((n \div 2) + 1)
                BY <1>1, <2>0, <2>3
            <4> QED BY <4>1
        <3>2. n % 2 # 0
            BY <2>3
        <3>3. kw[n] = Word("comma", NoText)
            BY <1>5, <2>3, <3>2
        <3>4. e[n + 1] = Word("comma", NoText)
            BY <1>3, <3>1
        <3>5. Word("comma", NoText) \in Words
            BY DEF Words, Word, Keywords
        <3> QED BY <3>3, <3>4, <3>5
    <2> QED BY <2>0, <2>1, <2>2, <2>3
<1>7. kw \in Seq(Words) /\ Len(kw) = 2 * m
    <2>1. 2 * m \in Nat
        BY <1>1
    <2>2. kw = [n \in 1..2 * m |-> kw[n]]
        BY <1>4 DEF KeyWords
    <2> HIDE DEF kw
    <2>3. kw \in [1..2 * m -> Words]
        BY <1>6, <2>2
    <2>4. kw \in Seq(Words)
        BY <2>1, <2>3
    <2> QED BY <2>1, <2>3, <2>4
<1> HIDE DEF kw
<1>8. Word("-k", NoText) \in Words /\ Word("]", NoText) \in Words
    BY DEF Words, Word, Keywords
<1>9. e = <<Word("-k", NoText)>> \o kw \o <<Word("]", NoText)>>
    <2> DEFINE a == Word("-k", NoText)
               b == Word("]", NoText)
               r == <<a>> \o kw \o <<b>>
    <2>1. /\ r \in Seq(Words) /\ Len(r) = 2 * m + 2
          /\ r[1] = Word("-k", NoText) /\ r[2 * m + 2] = Word("]", NoText)
          /\ \A n \in 1..2 * m : r[n + 1] = kw[n]
        <3>0. kw \in Seq(Words) /\ a \in Words /\ b \in Words
            BY <1>7, <1>8
        <3> HIDE DEF a, b
        <3>1. /\ r \in Seq(Words) /\ Len(r) = Len(kw) + 2
              /\ r[1] = a /\ r[Len(kw) + 2] = b
              /\ \A n \in 1..Len(kw) : r[n + 1] = kw[n]
            BY <3>0, Framed
        <3> USE DEF a, b
        <3> QED BY <1>7, <3>1
    <2> HIDE DEF r
    <2>2. ASSUME NEW i \in 1..Len(e)
          PROVE  e[i] = r[i]
        <3>1. CASE i = 1
            BY <1>3, <2>1, <3>1
        <3>2. CASE i = 2 * m + 2
            BY <1>3, <2>1, <3>2
        <3>3. CASE i # 1 /\ i # 2 * m + 2
            <4>1. PICK n \in 1..2 * m : i = n + 1
                <5>1. i - 1 \in 1..2 * m /\ i = (i - 1) + 1
                    BY <1>1, <3>3
                <5> QED BY <5>1
            <4> QED BY <1>6, <2>1, <4>1
        <3> QED BY <3>1, <3>2, <3>3
    <2>3. e = r
        BY <1>1, <2>1, <2>2, SeqEqual
    <2> QED BY <2>3 DEF r
<1>10. ps # <<>>
    BY <1>1, <1>4
<1> QED BY <1>4, <1>9, <1>10 DEF ps, kw, Keyed

\* A list of keys is read as the patterns it was written with.
LEMMA WordsOfKeys ==
    ASSUME NEW ps \in Seq(Patterns), ps # <<>>
    PROVE  /\ Keyed(ps) \in Seq(Words) /\ Len(Keyed(ps)) >= 2
           /\ Keyed(ps)[1] = Word("-k", NoText)
           /\ IsKeys(Keyed(ps)) /\ KeyPatterns(Keyed(ps)) = ps
<1> DEFINE m  == Len(ps)
           kw == KeyWords(ps)
           a  == Word("-k", NoText)
           b  == Word("]", NoText)
           e  == <<a>> \o kw \o <<b>>
<1> HIDE DEF e
<1>1. m \in Nat /\ m >= 1 /\ \A n \in 1..m : ps[n] \in Patterns
    OBVIOUS
<1>2. kw = [n \in 1..2 * m |-> IF n % 2 = 0 THEN Word("pattern", ps[n \div 2])
                               ELSE Word(IF n = 1 THEN "[" ELSE "comma", NoText)]
    BY DEF KeyWords
<1>3. \A x \in Patterns : Word("pattern", x) \in Words
    BY DEF Words, Word
<1>4. \A x \in Keywords : Word(x, NoText) \in Words
    BY DEF Words, Word
<1>5. {"-k", "[", "]", "comma"} \subseteq Keywords
    BY DEF Keywords
<1>6. /\ \A n \in 1..m : kw[2 * n] = Word("pattern", ps[n])
      /\ \A n \in 2..m : kw[2 * n - 1] = Word("comma", NoText)
      /\ kw[1] = Word("[", NoText)
    <2>1. ASSUME NEW n \in 1..m
          PROVE  kw[2 * n] = Word("pattern", ps[n])
        <3>1. 2 * n \in 1..2 * m /\ (2 * n) % 2 = 0 /\ (2 * n) \div 2 = n
            BY <1>1
        <3> HIDE DEF m
        <3> QED BY <1>2, <3>1
    <2>2. ASSUME NEW n \in 2..m
          PROVE  kw[2 * n - 1] = Word("comma", NoText)
        <3>1. 2 * n - 1 \in 1..2 * m /\ (2 * n - 1) % 2 # 0 /\ 2 * n - 1 # 1
            BY <1>1
        <3> HIDE DEF m
        <3> QED BY <1>2, <3>1
    <2>3. 1 \in 1..2 * m /\ 1 % 2 # 0
        BY <1>1
    <2>4. kw[1] = Word("[", NoText)
        <3> HIDE DEF m
        <3> QED BY <1>2, <2>3
    <2> QED BY <2>1, <2>2, <2>4
<1>7. kw \in Seq(Words) /\ Len(kw) = 2 * m
    <2>1. ASSUME NEW n \in 1..2 * m
          PROVE  kw[n] \in Words
        <3>1. n \in Nat /\ n % 2 \in 0..1 /\ n \div 2 \in Nat /\ n = 2 * (n \div 2) + (n % 2)
            BY Halves, <1>1
        <3>2. CASE n % 2 = 0
            <4>1. n \div 2 \in 1..m
                BY <1>1, <3>1, <3>2
            <4>2. kw[n] = Word("pattern", ps[n \div 2])
                BY <1>2, <3>2
            <4> QED BY <1>1, <1>3, <4>1, <4>2
        <3>3. CASE n % 2 # 0
            <4>1. kw[n] = Word("[", NoText) \/ kw[n] = Word("comma", NoText)
                BY <1>2, <3>3
            <4> QED BY <1>4, <1>5, <4>1
        <3> QED BY <3>2, <3>3
    <2>2. 2 * m \in Nat
        BY <1>1
    <2>3. kw = [n \in 1..2 * m |-> kw[n]]
        BY <1>2
    <2> HIDE DEF kw, m
    <2>4. kw \in [1..2 * m -> Words]
        BY <2>1, <2>3
    <2> DEFINE K == 2 * m
    <2>5. K \in Nat /\ kw \in [1..K -> Words]
        BY <2>2, <2>4
    <2> HIDE DEF K
    <2>6. kw \in Seq(Words) /\ Len(kw) = K
        BY <2>5
    <2> QED BY <2>6, Zenon DEF K
<1> HIDE DEF kw
<1>8. a \in Words /\ b \in Words
    BY <1>4, <1>5
<1>9. Keyed(ps) = e
    BY DEF e, kw, Keyed
<1>10. /\ e \in Seq(Words) /\ Len(e) = Len(kw) + 2
       /\ e[1] = a /\ e[Len(kw) + 2] = b
       /\ \A n \in 1..Len(kw) : e[n + 1] = kw[n]
    <2> HIDE DEF a, b, m
    <2>1. kw \in Seq(Words) /\ a \in Words /\ b \in Words
        BY <1>7, <1>8
    <2>2. LET f == <<a>> \o kw \o <<b>>
          IN  /\ f \in Seq(Words) /\ Len(f) = Len(kw) + 2
              /\ f[1] = a /\ f[Len(kw) + 2] = b
              /\ \A n \in 1..Len(kw) : f[n + 1] = kw[n]
        BY ONLY <2>1, Framed, SMT
    <2> QED BY <2>2, Zenon DEF e
<1>11. Len(e) = 2 * m + 2 /\ e[2 * m + 2] = b /\ \A n \in 1..2 * m : e[n + 1] = kw[n]
    BY <1>7, <1>10
<1>12. /\ e[2] = Word("[", NoText)
       /\ \A n \in 1..m : e[2 * n + 1] = Word("pattern", ps[n])
       /\ \A n \in 2..m : e[2 * n] = Word("comma", NoText)
    <2>1. 1 \in 1..2 * m /\ 1 + 1 = 2
        BY <1>1
    <2>2. \A n \in 1..m : 2 * n \in 1..2 * m
        BY <1>1
    <2>3. \A n \in 2..m : 2 * n - 1 \in 1..2 * m /\ (2 * n - 1) + 1 = 2 * n
        BY <1>1
    <2> HIDE DEF m
    <2>4. e[2] = Word("[", NoText)
        BY <1>6, <1>11, <2>1
    <2>5. \A n \in 1..m : e[2 * n + 1] = Word("pattern", ps[n])
        BY <1>6, <1>11, <2>2
    <2>6. ASSUME NEW n \in 2..m
          PROVE  e[2 * n] = Word("comma", NoText)
        <3>1. e[(2 * n - 1) + 1] = kw[2 * n - 1]
            BY <1>11, <2>3
        <3> QED BY <1>6, <2>3, <3>1
    <2> QED BY <2>4, <2>5, <2>6
<1>13. /\ \A x \in Keywords : Token(Word(x, NoText)) = x
       /\ \A x : Token(Word("pattern", x)) = "pattern"
    BY DEF Token, Word, Keywords
<1>14. IsKeys(e)
    <2>1. m \in 1..Len(e)
        <3> HIDE DEF m
        <3>1. Len(e) = 2 * m + 2
            BY <1>11
        <3> QED BY <1>1, <3>1
    <2>2. /\ Token(e[1]) = "-k" /\ Token(e[2]) = "[" /\ Token(e[2 * m + 2]) = "]"
          /\ \A k \in 1..m : Token(e[2 * k + 1]) = "pattern"
          /\ \A k \in 2..m : Token(e[2 * k]) = "comma"
        BY <1>5, <1>10, <1>11, <1>12, <1>13
    <2> HIDE DEF m
    <2> QED BY <1>11, <2>1, <2>2 DEF IsKeys
<1>15. KeyPatterns(e) = ps
    <2>1. (Len(e) - 2) \div 2 = m
        <3> HIDE DEF m
        <3>1. Len(e) = 2 * m + 2
            BY <1>11
        <3> QED BY <1>1, <3>1
    <2>2. \A n \in 1..m : e[2 * n + 1].text = ps[n]
        <3> HIDE DEF m
        <3>1. \A n \in 1..m : e[2 * n + 1] = Word("pattern", ps[n])
            BY <1>12
        <3>2. \A x : Word("pattern", x).text = x
            BY DEF Word
        <3> QED BY <3>1, <3>2
    <2>3. KeyPatterns(e) = [n \in 1..m |-> ps[n]]
        BY <2>1, <2>2 DEF KeyPatterns
    <2> QED BY <2>3
<1>16. Len(e) >= 2
    <2> HIDE DEF m
    <2>1. Len(e) = 2 * m + 2
        BY <1>11
    <2> QED BY <1>1, <2>1
<1>17. e \in Seq(Words) /\ e[1] = Word("-k", NoText)
    BY <1>10
<1> QED BY <1>9, <1>14, <1>15, <1>16, <1>17

\* What a declaration is, however many patterns it has.
IsDeclaration(d) ==
    /\ d \in [name : Names \ Dotted, filename : Names \cap Dotted,
              patterns : Seq(Patterns) \ {<<>>}, isKeys : BOOLEAN]
    /\ d.isKeys \/ Len(d.patterns) = 1

\* The declarations of Command are such, and all such a line is long enough for.
LEMMA DeclarationType ==
    ASSUME NEW d \in Declarations
    PROVE  IsDeclaration(d)
<1>1. d \in AllDeclarations(Len(d.patterns))
    BY CommandAssumption
<1>2. PICK k : k \in 1..Len(d.patterns) /\ d.patterns \in [1..k -> Patterns]
    BY <1>1 DEF AllDeclarations
<1>3. k \in Nat /\ k >= 1
    BY <1>2
<1>4. d.patterns \in Seq(Patterns) /\ d.patterns # <<>>
    BY <1>2, <1>3
<1>5. /\ d = [name |-> d.name, filename |-> d.filename, patterns |-> d.patterns, isKeys |-> d.isKeys]
      /\ d.name \in Names \ Dotted /\ d.filename \in Names \cap Dotted /\ d.isKeys \in BOOLEAN
      /\ d.isKeys \/ Len(d.patterns) = 1
    BY <1>1 DEF AllDeclarations
<1> QED BY <1>4, <1>5 DEF IsDeclaration

\* A declaration has a bounded number of patterns, so it is in a set that can
\* be enumerated.
LEMMA DeclarationOf ==
    ASSUME NEW d, IsDeclaration(d), NEW n \in Int, Len(d.patterns) <= n
    PROVE  d \in AllDeclarations(n)
<1>1. d.patterns \in Seq(Patterns) /\ d.patterns # <<>>
    BY DEF IsDeclaration
<1>2. Len(d.patterns) \in 1..n /\ d.patterns \in [1..Len(d.patterns) -> Patterns]
    BY <1>1
<1>3. d.patterns \in UNION {[1..k -> Patterns] : k \in 1..n}
    BY <1>2
<1> QED BY <1>3 DEF IsDeclaration, AllDeclarations

\* The words a declaration is written with are read as what it declares.
LEMMA WordsOfDeclaration ==
    ASSUME NEW d, IsDeclaration(d)
    PROVE  /\ NamedWords(d) \in Seq(Words) /\ IsTablename(NamedWords(d))
           /\ NamedWords(d)[1] = Word("-t", NoText) /\ NamedWords(d)[2].text = d.name
           /\ RowWords(d) \in Seq(Words) /\ Len(RowWords(d)) >= 2
           /\ d.isKeys => /\ RowWords(d)[1] = Word("-k", NoText)
                          /\ IsKeys(RowWords(d)) /\ KeyPatterns(RowWords(d)) = d.patterns
           /\ ~d.isKeys => /\ RowWords(d)[1] = Word("-e", NoText)
                           /\ IsExp(RowWords(d)) /\ <<RowWords(d)[2].text>> = d.patterns
<1>1. /\ d.name \in Names \ Dotted /\ d.patterns \in Seq(Patterns) /\ d.patterns # <<>>
      /\ d.isKeys \/ Len(d.patterns) = 1
    BY DEF IsDeclaration
<1>2. /\ Word("-t", NoText) \in Words /\ Word("-e", NoText) \in Words /\ Word("name", d.name) \in Words
      /\ \A x \in Patterns : Word("pattern", x) \in Words
    BY <1>1 DEF Words, Word, Keywords
<1>3. /\ Token(Word("-t", NoText)) = "-t" /\ Token(Word("name", d.name)) = "identifier"
      /\ Token(Word("-e", NoText)) = "-e" /\ \A x : Token(Word("pattern", x)) = "pattern"
    BY <1>1 DEF Token, Word
<1>4. /\ NamedWords(d) \in Seq(Words) /\ IsTablename(NamedWords(d))
      /\ NamedWords(d)[1] = Word("-t", NoText) /\ NamedWords(d)[2].text = d.name
    <2>1. /\ NamedWords(d) \in Seq(Words) /\ Len(NamedWords(d)) = 2
          /\ NamedWords(d)[1] = Word("-t", NoText) /\ NamedWords(d)[2] = Word("name", d.name)
        BY <1>2, Pair DEF NamedWords
    <2>2. Word("name", d.name).text = d.name
        BY DEF Word
    <2>3. IsTablename(NamedWords(d))
        BY <1>1, <2>1, <2>2, TablenameWords
    <2> QED BY <2>1, <2>2, <2>3
<1>5. CASE d.isKeys
    <2>1. RowWords(d) = Keyed(d.patterns)
        BY <1>5 DEF RowWords, Keyed
    <2> QED BY <1>1, <1>4, <1>5, <2>1, WordsOfKeys
<1>6. CASE ~d.isKeys
    <2>1. RowWords(d) = <<Word("-e", NoText), Word("pattern", d.patterns[1])>>
        BY <1>6 DEF RowWords
    <2>2. d.patterns[1] \in Patterns /\ Len(d.patterns) = 1
        BY <1>1, <1>6
    <2>3. /\ RowWords(d) \in Seq(Words) /\ Len(RowWords(d)) = 2
          /\ RowWords(d)[1] = Word("-e", NoText) /\ RowWords(d)[2] = Word("pattern", d.patterns[1])
        <3> DEFINE a == Word("-e", NoText)
                   b == Word("pattern", d.patterns[1])
        <3>1. a \in Words /\ b \in Words
            BY <1>2, <2>2
        <3> HIDE DEF a, b
        <3>2. <<a, b>> \in Seq(Words) /\ Len(<<a, b>>) = 2 /\ <<a, b>>[1] = a /\ <<a, b>>[2] = b
            BY <3>1, Pair
        <3>3. RowWords(d) = <<a, b>>
            BY <2>1 DEF a, b
        <3> QED BY <3>2, <3>3 DEF a, b
    <2>4. RowWords(d)[2].text = d.patterns[1]
        BY <2>3 DEF Word
    <2>5. IsExp(RowWords(d))
        BY <2>2, <2>3, <2>4, ExpWords
    <2>6. <<RowWords(d)[2].text>> = d.patterns
        <3> DEFINE x == RowWords(d)[2].text
                   s == <<x>>
        <3>1. x = d.patterns[1] /\ x \in Patterns
            BY <2>2, <2>4
        <3> HIDE DEF x
        <3>2. s \in Seq(Patterns) /\ Len(s) = 1 /\ s[1] = x
            BY <3>1
        <3> HIDE DEF s
        <3>3. \A i \in 1..Len(s) : s[i] = d.patterns[i]
            BY <3>1, <3>2
        <3>4. s = d.patterns
            BY <1>1, <2>2, <3>2, <3>3, SeqEqual
        <3> QED BY <3>4 DEF s, x
    <2>7. Len(RowWords(d)) >= 2
        BY <2>3
    <2> QED BY <1>4, <1>6, <2>3, <2>5, <2>6, <2>7
<1> QED BY <1>5, <1>6

\* No expression is a list of keys and a single pattern, or starts as a tablename.
LEMMA ExpressionStarts ==
    ASSUME NEW e \in Seq(Words), IsExpression(e)
    PROVE  /\ Len(e) >= 2
           /\ IsKeys(e) => e[1] = Word("-k", NoText) /\ ~IsExp(e)
           /\ IsExp(e) => e[1] = Word("-e", NoText) /\ ~IsKeys(e)
           /\ e[1] # Word("-t", NoText)
<1>1. Word("-k", NoText) # Word("-e", NoText) /\ Word("-k", NoText) # Word("-t", NoText) /\ Word("-e", NoText) # Word("-t", NoText)
    BY DEF Word
<1>2. IsKeys(e) => e[1] = Word("-k", NoText) /\ Len(e) >= 2
    <2> SUFFICES ASSUME IsKeys(e)
                 PROVE  e[1] = Word("-k", NoText) /\ Len(e) >= 2
        OBVIOUS
    <2>1. KeyPatterns(e) \in Seq(Patterns) /\ KeyPatterns(e) # <<>> /\ e = Keyed(KeyPatterns(e))
        BY KeysWords
    <2> QED BY <2>1, WordsOfKeys
<1>3. IsExp(e) => e[1] = Word("-e", NoText) /\ Len(e) = 2
    BY ExpWords
<1>4. IsKeys(e) \/ IsExp(e)
    BY DEF IsExpression
<1> HIDE DEF Word
<1>5. CASE IsKeys(e)
    <2>1. e[1] = Word("-k", NoText) /\ Len(e) >= 2
        BY <1>2, <1>5
    <2>2. ~IsExp(e)
        BY <1>1, <1>3, <2>1
    <2> QED BY <1>1, <1>5, <2>1, <2>2
<1>6. CASE IsExp(e)
    <2>1. e[1] = Word("-e", NoText) /\ Len(e) = 2
        BY <1>3, <1>6
    <2>2. ~IsKeys(e)
        BY <1>1, <1>2, <2>1
    <2>3. Len(e) >= 2
        BY <2>1
    <2> QED BY <1>1, <1>6, <2>1, <2>2, <2>3
<1> QED BY <1>4, <1>5, <1>6

\* What the words of a tablename and of an expression declare, in a file.
DeclarationFrom(f, t, e) ==
    [name |-> t[2].text, filename |-> f, isKeys |-> IsKeys(e),
     patterns |-> IF IsKeys(e) THEN KeyPatterns(e) ELSE <<e[2].text>>]

\* What two well-formed options declare is a declaration, and its words are
\* theirs.
LEMMA DeclarationOfWords ==
    ASSUME NEW f \in Names \cap Dotted, NEW t \in Seq(Words), NEW e \in Seq(Words),
           IsTablename(t), IsExpression(e)
    PROVE  /\ IsDeclaration(DeclarationFrom(f, t, e))
           /\ NamedWords(DeclarationFrom(f, t, e)) = t /\ RowWords(DeclarationFrom(f, t, e)) = e
           /\ Len(e) >= 2 * Len(DeclarationFrom(f, t, e).patterns)
<1> DEFINE d == DeclarationFrom(f, t, e)
<1>1. /\ d.name = t[2].text /\ d.filename = f /\ d.isKeys = IsKeys(e)
      /\ d.patterns = IF IsKeys(e) THEN KeyPatterns(e) ELSE <<e[2].text>>
    BY DEF DeclarationFrom
<1>2. /\ t \in Seq(Words) /\ Len(t) = 2 /\ t[1] = Word("-t", NoText)
      /\ t[2] = Word("name", t[2].text) /\ t[2].text \in Names \ Dotted
    BY TablenameWords
<1>3. NamedWords(d) = t
    <2>1. t = <<t[1], t[2]>>
        BY <1>2, PairOf
    <2> QED BY <1>1, <1>2, <2>1 DEF NamedWords
<1>4. CASE IsKeys(e)
    <2>1. KeyPatterns(e) \in Seq(Patterns) /\ KeyPatterns(e) # <<>> /\ e = Keyed(KeyPatterns(e))
        BY <1>4, KeysWords
    <2>2. d.patterns = KeyPatterns(e) /\ d.isKeys
        BY <1>1, <1>4
    <2>3. RowWords(d) = e
        BY <2>1, <2>2 DEF RowWords, Keyed
    <2>4. IsDeclaration(d)
        BY <1>2, <1>4, <2>1 DEF IsDeclaration, DeclarationFrom
    <2>5. Len(e) >= 2 * Len(KeyPatterns(e))
        BY <1>4 DEF IsKeys, KeyPatterns
    <2> QED BY <1>3, <2>2, <2>3, <2>4, <2>5
<1>5. CASE ~IsKeys(e)
    <2>1. Len(e) = 2 /\ e[1] = Word("-e", NoText) /\ e[2] = Word("pattern", e[2].text) /\ e[2].text \in Patterns
        BY <1>5, ExpWords DEF IsExpression
    <2>2. /\ d.patterns = <<e[2].text>> /\ ~d.isKeys /\ d.patterns[1] = e[2].text
          /\ d.patterns \in Seq(Patterns) /\ d.patterns # <<>> /\ Len(d.patterns) = 1
        <3>1. d.patterns = <<e[2].text>> /\ ~d.isKeys
            BY <1>1, <1>5
        <3>2. \A x \in Patterns : <<x>> \in Seq(Patterns) /\ <<x>> # <<>> /\ Len(<<x>>) = 1 /\ <<x>>[1] = x
            OBVIOUS
        <3> HIDE DEF d
        <3> QED BY <2>1, <3>1, <3>2
    <2>3. RowWords(d) = e
        <3>1. e = <<e[1], e[2]>>
            BY <2>1, PairOf
        <3> QED BY <2>1, <2>2, <3>1 DEF RowWords
    <2>4. IsDeclaration(d)
        <3>0. d.isKeys \in BOOLEAN
            BY DEF DeclarationFrom, IsKeys
        <3>1. d = [name |-> d.name, filename |-> d.filename, patterns |-> d.patterns, isKeys |-> d.isKeys]
            BY DEF DeclarationFrom
        <3> HIDE DEF d
        <3>2. d.patterns \in Seq(Patterns) \ {<<>>} /\ Len(d.patterns) = 1
            BY <2>2
        <3> QED BY <1>1, <1>2, <3>0, <3>1, <3>2 DEF IsDeclaration
    <2> HIDE DEF d
    <2>5. Len(e) >= 2 * Len(d.patterns)
        BY <2>1, <2>2
    <2> QED BY <1>3, <2>3, <2>4, <2>5 DEF d
<1> QED BY <1>4, <1>5

\* A tablename and an expression are found in either order, and nothing else is.
LEMMA ArgumentsOf ==
    ASSUME NEW t \in Seq(Words), NEW e \in Seq(Words), IsTablename(t), IsExpression(e),
           NEW ws, ws = t \o e \/ ws = e \o t
    PROVE  {a \in Arguments(ws) : IsArguments(a)} = {[t |-> t, e |-> e]}
<1>1. Len(t) = 2 /\ t[1] = Word("-t", NoText) /\ Len(e) \in Nat /\ Len(e) >= 2 /\ e[1] # Word("-t", NoText)
    BY TablenameWords, ExpressionStarts
<1>2. \A a : IsArguments(a) <=> IsTablename(a.t) /\ IsExpression(a.e)
    BY DEF IsArguments
<1>3. IsArguments([t |-> t, e |-> e])
    BY <1>2
<1>4. CASE ws = t \o e
    <2>1. ws \in Seq(Words) /\ Len(ws) = Len(e) + 2 /\ ws[1] = t[1]
        <3>1. t \o e \in Seq(Words) /\ Len(t \o e) = Len(t) + Len(e)
            BY ConcatProperties
        <3>2. 1 \in 1..Len(t) + Len(e) /\ 1 <= Len(t)
            BY <1>1
        <3>3. (t \o e)[1] = t[1]
            BY <3>2, ConcatProperties
        <3> QED BY <1>1, <1>4, <3>1, <3>3
    <2>2. SubSeq(ws, 1, 2) = t
        <3>1. 1 \in 1..Len(t) /\ Len(t) \in 1..Len(t)
            BY <1>1
        <3>2. SubSeq(t \o e, 1, Len(t)) = SubSeq(t, 1, Len(t))
            BY <3>1, SubSeqOfConcat1
        <3>3. SubSeq(t, 1, Len(t)) = t
            BY SubSeqFull
        <3> QED BY <1>1, <1>4, <3>2, <3>3
    <2>3. SubSeq(ws, 3, Len(ws)) = e
        <3>1. Len(t) + 1 = 3 /\ 3 \in Len(t) + 1..Len(t) + Len(e) /\ Len(ws) \in Len(t) + 1..Len(t) + Len(e)
            BY <1>1, <2>1
        <3>2. 3 - Len(t) = 1 /\ Len(ws) - Len(t) = Len(e)
            BY <1>1, <2>1
        <3> QED BY <1>4, <3>1, <3>2, SubSeqOfConcat2, SubSeqFull
    <2> DEFINE other == [t |-> SubSeq(ws, Len(ws) - 1, Len(ws)), e |-> SubSeq(ws, 1, Len(ws) - 2)]
    <2>4. Arguments(ws) = {[t |-> t, e |-> e], other}
        BY <2>2, <2>3 DEF Arguments
    <2>5. ~IsArguments(other)
        <3>1. Len(ws) \in Nat /\ Len(ws) - 2 >= 2
            BY <1>1, <2>1
        <3>2. /\ SubSeq(ws, 1, Len(ws) - 2) \in Seq(Words)
              /\ SubSeq(ws, 1, Len(ws) - 2)[1] = ws[1]
            <4>1. \A i \in 1..Len(ws) - 2 : i \in 1..Len(ws)
                BY <3>1
            <4>2. \A i \in 1..Len(ws) - 2 : ws[i] \in Words
                BY <2>1, <4>1, ElementOfSeq
            <4>3. 1 \in 1..(Len(ws) - 2) - 1 + 1 /\ 1 + 1 - 1 = 1
                BY <3>1
            <4> QED BY <3>1, <4>2, <4>3, SubSeqProperties
        <3>3. other.e = SubSeq(ws, 1, Len(ws) - 2)
            OBVIOUS
        <3>4. ~IsExpression(other.e)
            BY <1>1, <2>1, <3>2, <3>3, ExpressionStarts
        <3> QED BY <1>2, <3>4
    <2> HIDE DEF other
    <2> QED BY <1>3, <2>4, <2>5
<1>5. CASE ws = e \o t
    <2>1. ws \in Seq(Words) /\ Len(ws) = Len(e) + 2 /\ ws[1] = e[1]
        <3>1. e \o t \in Seq(Words) /\ Len(e \o t) = Len(e) + Len(t)
            BY ConcatProperties
        <3>2. 1 \in 1..Len(e) + Len(t) /\ 1 <= Len(e)
            BY <1>1
        <3>3. (e \o t)[1] = e[1]
            BY <3>2, ConcatProperties
        <3> QED BY <1>1, <1>5, <3>1, <3>3
    <2>2. SubSeq(ws, 1, Len(ws) - 2) = e
        <3>1. 1 \in 1..Len(e) /\ Len(ws) - 2 \in 1..Len(e) /\ Len(ws) - 2 = Len(e)
            BY <1>1, <2>1
        <3> QED BY <1>1, <1>5, <3>1, SubSeqOfConcat1, SubSeqFull
    <2>3. SubSeq(ws, Len(ws) - 1, Len(ws)) = t
        <3>1. /\ Len(ws) - 1 \in Len(e) + 1..Len(e) + Len(t) /\ Len(ws) \in Len(e) + 1..Len(e) + Len(t)
              /\ (Len(ws) - 1) - Len(e) = 1 /\ Len(ws) - Len(e) = Len(t)
            BY <1>1, <2>1
        <3>2. SubSeq(e \o t, Len(ws) - 1, Len(ws)) = SubSeq(t, (Len(ws) - 1) - Len(e), Len(ws) - Len(e))
            BY <3>1, SubSeqOfConcat2
        <3>3. SubSeq(t, 1, Len(t)) = t
            BY SubSeqFull
        <3>4. SubSeq(e \o t, Len(ws) - 1, Len(ws)) = t
            BY <3>1, <3>2, <3>3
        <3> QED BY <1>5, <3>4
    <2> DEFINE other == [t |-> SubSeq(ws, 1, 2), e |-> SubSeq(ws, 3, Len(ws))]
    <2>4. Arguments(ws) = {other, [t |-> t, e |-> e]}
        BY <2>2, <2>3 DEF Arguments
    <2>5. ~IsArguments(other)
        <3>1. Len(ws) \in Nat /\ Len(ws) >= 2
            BY <1>1, <2>1
        <3>2. SubSeq(ws, 1, 2) \in Seq(Words) /\ SubSeq(ws, 1, 2)[1] = ws[1]
            <4>1. \A i \in 1..2 : i \in 1..Len(ws)
                BY <3>1
            <4>2. \A i \in 1..2 : ws[i] \in Words
                BY <2>1, <4>1, ElementOfSeq
            <4>3. 1 \in 1..2 - 1 + 1 /\ 1 + 1 - 1 = 1
                OBVIOUS
            <4> QED BY <4>2, <4>3, SubSeqProperties
        <3>3. other.t = SubSeq(ws, 1, 2)
            OBVIOUS
        <3>4. ~IsTablename(other.t)
            BY <1>1, <2>1, <3>2, <3>3, TablenameWords
        <3> QED BY <1>2, <3>4
    <2> HIDE DEF other
    <2> QED BY <1>3, <2>4, <2>5
<1> QED BY <1>4, <1>5

\* What is found is the whole of the words.
LEMMA ArgumentsJoin ==
    ASSUME NEW ws \in Seq(Words), Len(ws) >= 4, NEW a \in Arguments(ws)
    PROVE  /\ a.t \in Seq(Words) /\ a.e \in Seq(Words) /\ Len(a.e) = Len(ws) - 2
           /\ ws = a.t \o a.e \/ ws = a.e \o a.t
<1>1. Len(ws) \in Nat /\ \A i \in 1..Len(ws) : ws[i] \in Words
    BY ElementOfSeq
<1>2. ASSUME NEW k \in Nat, NEW m \in Nat, 1 <= k, m <= Len(ws)
      PROVE  SubSeq(ws, k, m) \in Seq(Words) /\ Len(SubSeq(ws, k, m)) = IF k <= m THEN m - k + 1 ELSE 0
    <2>1. \A i \in k..m : i \in 1..Len(ws)
        BY <1>1, <1>2
    <2> QED BY <1>1, <2>1, SubSeqProperties
<1>3. ASSUME NEW k \in 1..Len(ws)
      PROVE  ws = SubSeq(ws, 1, k) \o SubSeq(ws, k + 1, Len(ws))
    <2>1. 1 \in 1..Len(ws) + 1 /\ k \in 1 - 1..Len(ws) /\ Len(ws) \in k..Len(ws)
        BY <1>1
    <2> QED BY <2>1, ConcatAdjacentSubSeq, SubSeqFull
<1>4. CASE a = [t |-> SubSeq(ws, 1, 2), e |-> SubSeq(ws, 3, Len(ws))]
    <2>1. a.t = SubSeq(ws, 1, 2) /\ a.e = SubSeq(ws, 3, Len(ws))
        BY <1>4
    <2>2. ws = SubSeq(ws, 1, 2) \o SubSeq(ws, 2 + 1, Len(ws))
        BY <1>1, <1>3
    <2>3. SubSeq(ws, 1, 2) \in Seq(Words)
        BY <1>1, <1>2
    <2>4. SubSeq(ws, 3, Len(ws)) \in Seq(Words) /\ Len(SubSeq(ws, 3, Len(ws))) = Len(ws) - 2
        BY <1>1, <1>2
    <2> QED BY <2>1, <2>2, <2>3, <2>4
<1>5. CASE a = [t |-> SubSeq(ws, Len(ws) - 1, Len(ws)), e |-> SubSeq(ws, 1, Len(ws) - 2)]
    <2>1. a.t = SubSeq(ws, Len(ws) - 1, Len(ws)) /\ a.e = SubSeq(ws, 1, Len(ws) - 2)
        BY <1>5
    <2>2. Len(ws) - 2 \in 1..Len(ws) /\ (Len(ws) - 2) + 1 = Len(ws) - 1
        BY <1>1
    <2>3. ws = SubSeq(ws, 1, Len(ws) - 2) \o SubSeq(ws, Len(ws) - 1, Len(ws))
        BY <1>3, <2>2
    <2>4. SubSeq(ws, Len(ws) - 1, Len(ws)) \in Seq(Words)
        <3>1. Len(ws) - 1 \in Nat /\ 1 <= Len(ws) - 1
            BY <1>1
        <3> QED BY <1>1, <1>2, <3>1
    <2>5. SubSeq(ws, 1, Len(ws) - 2) \in Seq(Words) /\ Len(SubSeq(ws, 1, Len(ws) - 2)) = Len(ws) - 2
        <3>1. Len(ws) - 2 \in Nat /\ 1 <= Len(ws) - 2 /\ Len(ws) - 2 <= Len(ws)
            BY <1>1
        <3> QED BY <1>2, <3>1
    <2> QED BY <2>1, <2>3, <2>4, <2>5
<1> QED BY <1>4, <1>5 DEF Arguments

\* The command that a declaration is parsed into.
Scanned(d) ==
    [mode |-> "SCAN", filename |-> d.filename, tablename |-> d.name,
     keys    |-> IF d.isKeys THEN d.patterns ELSE <<>>,
     pattern |-> IF d.isKeys THEN NoText ELSE d.patterns[1]]

\* The command of a declaration is a SCAN of what it declares, by keys if it
\* has keys.
LEMMA ScannedCommand ==
    ASSUME NEW d, IsDeclaration(d)
    PROVE  /\ Scanned(d) # NULL /\ Scanned(d).mode = "SCAN"
           /\ Scanned(d).filename = d.filename /\ Scanned(d).tablename = d.name
           /\ IsScanByKeys(Scanned(d)) = d.isKeys /\ PatternsOf(Scanned(d)) = d.patterns
<1> DEFINE c == Scanned(d)
<1>1. /\ d.name \in Names /\ d.filename \in Names /\ d.patterns \in Seq(Patterns)
      /\ d.patterns # <<>> /\ d.isKeys \in BOOLEAN /\ (d.isKeys \/ Len(d.patterns) = 1)
    BY DEF IsDeclaration
<1>2. c.mode = "SCAN" /\ c.filename = d.filename /\ c.tablename = d.name
    BY DEF Scanned
<1>3. CASE d.isKeys
    <2>1. c.keys = d.patterns
        BY <1>3 DEF Scanned
    <2>2. c \in [mode : {"SCAN"}, filename : Names, tablename : Names,
                 keys : Seq(Patterns), pattern : Patterns \cup {NoText}]
        BY <1>1, <1>3 DEF Scanned
    <2> HIDE DEF c
    <2>3. IsScanByKeys(c) /\ PatternsOf(c) = d.patterns
        <3>1. d.patterns # <<>>
            BY DEF IsDeclaration
        <3>2. c.keys # <<>>
            BY <2>1, <3>1, Zenon
        <3>3. IsScanByKeys(c)
            BY <3>2, Zenon DEF IsScanByKeys
        <3> QED BY <2>1, <3>3 DEF PatternsOf
    <2>4. c # NULL
        BY <2>2, CommandAssumption
    <2>5. IsScanByKeys(c) = d.isKeys
        BY <1>1, <1>3, <2>3, Zenon DEF IsScanByKeys
    <2> QED BY <1>2, <2>3, <2>4, <2>5 DEF c
<1>4. CASE ~d.isKeys
    <2>1. c.keys = <<>> /\ c.pattern = d.patterns[1]
        BY <1>4 DEF Scanned
    <2>2. d.patterns[1] \in Patterns /\ <<>> \in Seq(Patterns)
        BY <1>1
    <2>3. c \in [mode : {"SCAN"}, filename : Names, tablename : Names,
                 keys : Seq(Patterns), pattern : Patterns \cup {NoText}]
        BY <1>1, <1>4, <2>2 DEF Scanned
    <2>4. <<c.pattern>> = d.patterns
        <3> DEFINE x == c.pattern
                   s == <<x>>
        <3>1. x = d.patterns[1] /\ x \in Patterns
            BY <2>1, <2>2
        <3> HIDE DEF x
        <3>2. s \in Seq(Patterns) /\ Len(s) = 1 /\ s[1] = x
            BY <3>1
        <3> HIDE DEF s
        <3>3. Len(d.patterns) = 1 /\ \A i \in 1..Len(s) : s[i] = d.patterns[i]
            BY <1>1, <1>4, <3>1, <3>2
        <3>4. s = d.patterns
            BY <1>1, <3>2, <3>3, SeqEqual
        <3> QED BY <3>4 DEF s, x
    <2> HIDE DEF c
    <2>5. ~IsScanByKeys(c) /\ PatternsOf(c) = d.patterns
        BY <2>1, <2>4 DEF IsScanByKeys, PatternsOf
    <2>6. c # NULL
        BY <2>3, CommandAssumption
    <2>7. IsScanByKeys(c) = d.isKeys
        <3>1. d.isKeys = FALSE
            BY <1>1, <1>4
        <3>2. (c.keys # <<>>) = FALSE
            BY <2>5 DEF IsScanByKeys
        <3> QED BY <3>1, <3>2 DEF IsScanByKeys
    <2> QED BY <1>2, <2>5, <2>6, <2>7 DEF c
<1> QED BY <1>1, <1>3, <1>4

\* What is declared is parsed.
LEMMA ParseDeclared ==
    ASSUME NEW l \in Lines, NEW d, IsDeclaration(d), l.words \in Sentences(d)
    PROVE  ParseCommand(l) = Scanned(d)
<1> DEFINE ws    == l.words
           a     == Word(".scan", NoText)
           b     == Word("name", d.filename)
           start == <<a, b>>
           t     == NamedWords(d)
           e     == RowWords(d)
           arg   == [t |-> t, e |-> e]
<1>1. d.filename \in Names /\ d.filename \in Dotted
    BY DEF IsDeclaration
<1>2. a \in Words /\ b \in Words /\ a.kind = ".scan" /\ Token(b) = "filename" /\ b.text = d.filename
    BY <1>1 DEF Words, Word, Keywords, Token
<1>3. start \in Seq(Words) /\ Len(start) = 2 /\ start[1] = a /\ start[2] = b
    <2> HIDE DEF a, b
    <2> QED BY <1>2, Pair
<1>4. /\ t \in Seq(Words) /\ IsTablename(t) /\ t[2].text = d.name /\ Len(t) = 2
      /\ e \in Seq(Words) /\ Len(e) >= 2 /\ Len(e) \in Nat /\ IsExpression(e)
    BY WordsOfDeclaration, TablenameWords DEF IsExpression
<1>5. PICK r : (r = t \o e \/ r = e \o t) /\ ws = start \o r
    <2>1. ws = (start \o t) \o e \/ ws = (start \o e) \o t
        BY DEF Sentences
    <2>2. (start \o t) \o e = start \o (t \o e) /\ (start \o e) \o t = start \o (e \o t)
        <3> HIDE DEF start, t, e
        <3>1. (start \o t) \o e = start \o (t \o e)
            BY <1>3, <1>4, ConcatAssociative
        <3>2. (start \o e) \o t = start \o (e \o t)
            BY <1>3, <1>4, ConcatAssociative
        <3> QED BY <3>1, <3>2
    <2> HIDE DEF start, t, e
    <2> QED BY <2>1, <2>2
<1> HIDE DEF a, b, start, t, e
<1>6. r \in Seq(Words) /\ Len(r) = Len(e) + 2
    <2>1. /\ t \o e \in Seq(Words) /\ Len(t \o e) = Len(t) + Len(e)
          /\ e \o t \in Seq(Words) /\ Len(e \o t) = Len(e) + Len(t)
        BY <1>4, ConcatProperties
    <2>2. CASE r = t \o e
        BY <1>4, <2>1, <2>2
    <2>3. CASE r = e \o t
        BY <1>4, <2>1, <2>3
    <2> QED BY <1>5, <2>2, <2>3
<1>7. Len(start \o r) = Len(e) + 4 /\ (start \o r)[1] = a /\ (start \o r)[2] = b
    <2>1. Len(start \o r) = Len(start) + Len(r)
        BY <1>3, <1>6, ConcatProperties
    <2>2. \A i \in 1..Len(start) + Len(r) : i <= Len(start) => (start \o r)[i] = start[i]
        BY <1>3, <1>6, ConcatProperties
    <2>3. 1 \in 1..Len(start) + Len(r) /\ 2 \in 1..Len(start) + Len(r)
        BY <1>3, <1>4, <1>6
    <2> QED BY <1>3, <1>4, <1>6, <2>1, <2>2, <2>3
<1>8. SubSeq(start \o r, 3, Len(start \o r)) = r
    <2>1. /\ 3 \in Len(start) + 1..Len(start) + Len(r)
          /\ Len(start \o r) \in Len(start) + 1..Len(start) + Len(r)
          /\ 3 - Len(start) = 1 /\ Len(start \o r) - Len(start) = Len(r)
        BY <1>3, <1>4, <1>6, <1>7
    <2>2. SubSeq(start \o r, 3, Len(start \o r)) = SubSeq(r, 3 - Len(start), Len(start \o r) - Len(start))
        BY <1>3, <1>6, <2>1, SubSeqOfConcat2
    <2> QED BY <1>6, <2>1, <2>2, SubSeqFull
<1> HIDE DEF ws
<1>9. Len(ws) = Len(e) + 4 /\ ws[1] = a /\ ws[2] = b /\ SubSeq(ws, 3, Len(ws)) = r
    BY <1>5, <1>7, <1>8
<1>10. {x \in Arguments(r) : IsArguments(x)} = {arg}
    BY <1>4, <1>5, ArgumentsOf
<1>11. ParseScan(ws) = CommandContext(d.filename, arg)
    <2>1. Len(ws) >= 6 /\ Token(ws[2]) = "filename" /\ ws[2].text = d.filename
        BY <1>2, <1>4, <1>9
    <2>2. (CHOOSE x \in {arg} : TRUE) = arg
        OBVIOUS
    <2> HIDE DEF arg
    <2> QED BY <1>9, <1>10, <2>1, <2>2 DEF ParseScan
<1>12. ParseCommand(l) = ParseScan(ws)
    <2>1. Len(ws) >= 2 /\ ws[1].kind = ".scan"
        BY <1>2, <1>4, <1>9
    <2> QED BY <2>1 DEF ParseCommand, ws
<1>13. CommandContext(d.filename, arg) = Scanned(d)
    <2>1. arg.t = t /\ arg.e = e
        OBVIOUS
    <2> HIDE DEF arg
    <2>2. CASE d.isKeys
        <3>1. IsKeys(e) /\ ~IsExp(e) /\ KeyPatterns(e) = d.patterns
            BY <1>4, <2>2, WordsOfDeclaration, ExpressionStarts DEF e
        <3>2. AssignKeys(BuildList(d.patterns)) = d.patterns
            BY AssignKeysOrder DEF IsDeclaration
        <3> QED BY <1>4, <2>1, <2>2, <3>1, <3>2 DEF CommandContext, Scanned
    <2>3. CASE ~d.isKeys
        <3>1. IsExp(e) /\ ~IsKeys(e) /\ <<e[2].text>> = d.patterns
            BY <1>4, <2>3, WordsOfDeclaration, ExpressionStarts DEF e
        <3>2. e[2].text = d.patterns[1]
            BY <3>1
        <3> QED BY <1>4, <2>1, <2>3, <3>1, <3>2 DEF CommandContext, Scanned
    <2> QED BY <2>2, <2>3
<1> QED BY <1>11, <1>12, <1>13

\* What is parsed is declared.
LEMMA DeclaredParsed ==
    ASSUME NEW l \in Lines, ParseCommand(l) # NULL, ParseCommand(l).mode = "SCAN"
    PROVE  Declared(l) # {}
<1> DEFINE ws == l.words
           r  == SubSeq(ws, 3, Len(ws))
<1>0. ws \in Seq(Words) /\ Len(ws) \in Nat
    BY CommandAssumption
<1>1. ~(Len(ws) < 2) /\ ws[1].kind = ".scan"
    <2>1. \A q : [mode |-> "EXEC", query |-> q, keys |-> <<>>, pattern |-> NoText].mode # "SCAN"
        OBVIOUS
    <2> QED BY <2>1 DEF ParseCommand
<1>2. ParseCommand(l) = ParseScan(ws)
    BY <1>1 DEF ParseCommand
<1>3. PICK a \in Arguments(r) : IsArguments(a) /\ Len(ws) >= 6 /\ Token(ws[2]) = "filename"
    BY <1>2 DEF ParseScan
<1>4. /\ ws[1] \in Words /\ ws[2] \in Words
      /\ ws[1] = Word(".scan", NoText) /\ ws[2] = Word("name", ws[2].text)
      /\ ws[2].text \in Names \cap Dotted
    <2>1. 1 \in 1..Len(ws) /\ 2 \in 1..Len(ws)
        BY <1>0, <1>3
    <2>2. ws[1] \in Words /\ ws[2] \in Words
        BY <1>0, <2>1, ElementOfSeq
    <2>3. ".scan" \in Keywords
        BY DEF Keywords
    <2> HIDE DEF ws
    <2> QED BY <1>1, <1>3, <2>2, <2>3, TokenOfWord
<1>5. r \in Seq(Words) /\ Len(r) = Len(ws) - 2 /\ Len(r) >= 4
    <2>1. \A i \in 3..Len(ws) : i \in 1..Len(ws)
        BY <1>0
    <2>2. \A i \in 3..Len(ws) : ws[i] \in Words
        BY <1>0, <2>1, ElementOfSeq
    <2>3. r \in Seq(Words) /\ Len(r) = IF 3 <= Len(ws) THEN Len(ws) - 3 + 1 ELSE 0
        BY <1>0, <2>2, SubSeqProperties
    <2> QED BY <1>0, <1>3, <2>3
<1>6. /\ a.t \in Seq(Words) /\ a.e \in Seq(Words) /\ Len(a.e) = Len(r) - 2
      /\ r = a.t \o a.e \/ r = a.e \o a.t
    <2> HIDE DEF r
    <2> QED BY <1>3, <1>5, ArgumentsJoin
<1> DEFINE d == DeclarationFrom(ws[2].text, a.t, a.e)
<1>7. /\ IsDeclaration(d) /\ NamedWords(d) = a.t /\ RowWords(d) = a.e
      /\ Len(a.e) >= 2 * Len(d.patterns) /\ d.filename = ws[2].text
    <2>1. IsTablename(a.t) /\ IsExpression(a.e)
        BY <1>3 DEF IsArguments
    <2>2. d.filename = ws[2].text
        BY DEF DeclarationFrom
    <2> HIDE DEF ws
    <2> QED BY <1>4, <1>6, <2>1, <2>2, DeclarationOfWords
<1> DEFINE start == <<Word(".scan", NoText), Word("name", d.filename)>>
<1>8. ws = start \o r
    <2>1. SubSeq(ws, 1, 2) = <<ws[1], ws[2]>>
        <3>1. \A i \in 1..2 : ws[i] \in Words
            BY <1>4
        <3>2. SubSeq(ws, 1, 2) \in Seq(Words) /\ Len(SubSeq(ws, 1, 2)) = 2
              /\ \A i \in 1..2 : SubSeq(ws, 1, 2)[i] = ws[i]
            BY <3>1, SubSeqProperties
        <3> DEFINE p == SubSeq(ws, 1, 2)
        <3>3. p[1] = ws[1] /\ p[2] = ws[2]
            BY <3>2
        <3>4. p = <<p[1], p[2]>>
            <4> HIDE DEF p
            <4>1. p \in Seq(Words) /\ Len(p) = 2
                BY <3>2 DEF p
            <4> QED BY <4>1, PairOf
        <3> QED BY <3>3, <3>4
    <2>2. ws = SubSeq(ws, 1, 2) \o SubSeq(ws, 2 + 1, Len(ws))
        <3>1. 1 \in 1..Len(ws) + 1 /\ 2 \in 1 - 1..Len(ws) /\ Len(ws) \in 2..Len(ws)
            BY <1>0, <1>3
        <3> HIDE DEF ws
        <3> QED BY <1>0, <3>1, ConcatAdjacentSubSeq, SubSeqFull
    <2>3. start = <<ws[1], ws[2]>>
        BY <1>4, <1>7
    <2> QED BY <2>1, <2>2, <2>3
<1>9. ws \in Sentences(d)
    <2>1. start \in Seq(Words)
        <3>1. Word(".scan", NoText) \in Words /\ Word("name", d.filename) \in Words
            BY <1>4, <1>7
        <3> QED BY <3>1
    <2> HIDE DEF start
    <2>2. (start \o a.t) \o a.e = start \o (a.t \o a.e) /\ (start \o a.e) \o a.t = start \o (a.e \o a.t)
        <3> DEFINE t == a.t
                   e == a.e
        <3>1. t \in Seq(Words) /\ e \in Seq(Words)
            BY <1>6
        <3> HIDE DEF t, e
        <3>2. (start \o t) \o e = start \o (t \o e)
            BY <2>1, <3>1, ConcatAssociative
        <3>3. (start \o e) \o t = start \o (e \o t)
            BY <2>1, <3>1, ConcatAssociative
        <3> QED BY <3>2, <3>3 DEF t, e
    <2> HIDE DEF ws, r, d
    <2>3. ws = (start \o a.t) \o a.e \/ ws = (start \o a.e) \o a.t
        BY <1>6, <1>8, <2>2
    <2> QED BY <1>7, <2>3 DEF Sentences, start
<1>10. d \in AllDeclarations(PatternsIn(l))
    <2> HIDE DEF d
    <2>1. Len(d.patterns) \in Nat
        BY <1>7 DEF IsDeclaration
    <2>2. Len(ws) - 4 >= 2 * Len(d.patterns)
        BY <1>0, <1>5, <1>6, <1>7
    <2>3. PatternsIn(l) \in Int /\ Len(d.patterns) <= PatternsIn(l)
        <3>1. \A n, k \in Nat : n - 4 >= 2 * k => (n - 4) \div 2 \in Int /\ k <= (n - 4) \div 2
            OBVIOUS
        <3> QED BY <1>0, <2>1, <2>2, <3>1 DEF PatternsIn
    <2> QED BY <1>7, <2>3, DeclarationOf
<1>11. d \in Declarations
    BY <1>9, <1>10, CommandAssumption
<1> QED BY <1>9, <1>11 DEF Declared

\* A line declares what its command says, and nothing when it is no .scan.
CommandIs(l) ==
    LET c == ParseCommand(l)
    IN  IF c # NULL /\ c.mode = "SCAN"
        THEN \E d : IsDeclaration(d) /\ d \in Declarations /\ Declared(l) = {d} /\ c = Scanned(d)
        ELSE Declared(l) = {}

\* ParseCommand and Declared agree on every line: a SCAN is what the line
\* declares, and any other line declares nothing.
LEMMA CommandMeans ==
    ASSUME NEW l \in Lines
    PROVE  CommandIs(l)
<1> DEFINE c == ParseCommand(l)
<1>1. ASSUME NEW d \in Declared(l)
      PROVE  d \in Declarations /\ IsDeclaration(d) /\ c = Scanned(d)
    BY DeclarationType, ParseDeclared DEF Declared
<1>2. ASSUME NEW d, NEW f, IsDeclaration(d), IsDeclaration(f), Scanned(d) = Scanned(f)
      PROVE  d = f
    <2>1. d.name = f.name /\ d.filename = f.filename /\ d.patterns = f.patterns /\ d.isKeys = f.isKeys
        BY <1>2, ScannedCommand
    <2>2. /\ d = [name |-> d.name, filename |-> d.filename, patterns |-> d.patterns, isKeys |-> d.isKeys]
          /\ f = [name |-> f.name, filename |-> f.filename, patterns |-> f.patterns, isKeys |-> f.isKeys]
        BY <1>2 DEF IsDeclaration
    <2> QED BY <2>1, <2>2
<1>3. CASE c # NULL /\ c.mode = "SCAN"
    <2>1. PICK d : d \in Declared(l)
        BY <1>3, DeclaredParsed
    <2>2. \A f \in Declared(l) : f = d
        BY <1>1, <1>2, <2>1
    <2>3. Declared(l) = {d}
        BY <2>1, <2>2
    <2> HIDE DEF c
    <2> QED BY <1>1, <1>3, <2>1, <2>3 DEF CommandIs, c
<1>4. CASE ~(c # NULL /\ c.mode = "SCAN")
    <2>1. Declared(l) = {}
        BY <1>1, <1>4, ScannedCommand
    <2> QED BY <1>4, <2>1 DEF CommandIs
<1> QED BY <1>3, <1>4

-----------------------------------------------------------------------------
(* KeyMap, and the groups that columns name. *)

\* The groups of a declaration whose patterns parse are groups.
LEMMA GroupsType ==
    ASSUME NEW d, IsDeclaration(d), Sound(d)
    PROVE  GroupsIn(d) \in Seq(Groups)
<1> DEFINE gs == [i \in DOMAIN d.patterns |-> GroupsOf[d.patterns[i]]]
<1>1. d.patterns \in Seq(Patterns)
    BY DEF IsDeclaration
<1>2. \A i \in DOMAIN d.patterns : GroupsOf[d.patterns[i]] \in Seq(Groups)
    BY CommandAssumption DEF Sound, Parses
<1>3. gs \in Seq(Seq(Groups))
    BY <1>1, <1>2
<1> HIDE DEF gs
<1>4. FlattenSeq(gs) \in Seq(Groups)
    BY <1>3, FlattenSeqType
<1> QED BY <1>4 DEF GroupsIn, gs

\* The first of the groups with a name.
FirstOf(groups, name) == SelectInSeq(groups, LAMBDA g : g.name = name)

\* SelectInSeq finds the first group with the name if there is one.
LEMMA FirstGroup ==
    ASSUME NEW groups \in Seq(Groups), NEW name, \E i \in DOMAIN groups : groups[i].name = name
    PROVE  /\ FirstOf(groups, name) \in 1..Len(groups)
           /\ groups[FirstOf(groups, name)].name = name
           /\ \A i \in 1..FirstOf(groups, name) - 1 : groups[i].name # name
<1> DEFINE I == {i \in 1..Len(groups) : groups[i].name = name}
<1>1. I \subseteq Nat /\ I # {} /\ Len(groups) \in Nat
    OBVIOUS
<1>2. FirstOf(groups, name) = Min(I)
    <2>1. FirstOf(groups, name) = IF I # {} THEN Min(I) ELSE 0
        BY Zenon DEF FirstOf, SelectInSeq
    <2> QED BY <1>1, <2>1
<1>3. Min(I) \in I /\ \A i \in I : Min(I) <= i
    <2> HIDE DEF I
    <2> QED BY <1>1, MinIsLeast
<1> DEFINE m == Min(I)
<1> HIDE DEF m
<1>4. m \in 1..Len(groups) /\ groups[m].name = name /\ \A i \in I : m <= i
    BY <1>3 DEF m
<1>5. ASSUME NEW i \in 1..m - 1
      PROVE  groups[i].name # name
    <2>1. i \in 1..Len(groups) /\ ~(m <= i)
        BY <1>1, <1>4
    <2> QED BY <1>4, <2>1
<1> QED BY <1>2, <1>4, <1>5 DEF m

\* A column is mapped to the first group of its name, and to its type.
LEMMA KeyMapColumns ==
    ASSUME NEW d, IsDeclaration(d), Sound(d)
    PROVE  LET km == KeyMap(GroupsIn(d))
           IN  /\ DOMAIN km = ColumnsIn(d)
               /\ \A name \in ColumnsIn(d) : IsColumn(d, name, km[name].id)
               /\ \A name \in ColumnsIn(d) : km[name].type \in KeyTypes
               /\ \A node : node.varKey \in ColumnsIn(d) => /\ NodeType(node, km[node.varKey]) = TypeIn(d, node)
                                                            /\ TypeIn(d, node) \in KeyTypes
<1> DEFINE groups == GroupsIn(d)
           km == KeyMap(groups)
<1>1. groups \in Seq(Groups)
    BY GroupsType
<1>2. ColumnsIn(d) = {groups[i].name : i \in DOMAIN groups}
    BY DEF ColumnsIn
<1>3. km = [name \in {groups[i].name : i \in DOMAIN groups} |->
               [id |-> FirstOf(groups, name) - 1, type |-> groups[FirstOf(groups, name)].type]]
    BY Zenon DEF KeyMap, FirstOf
<1>4. \A node : TypeIn(d, node) = IF node.ftype = "COUNT" THEN "INT"
                                  ELSE groups[FirstOf(groups, node.varKey)].type
    BY Zenon DEF TypeIn, FirstOf
<1> HIDE DEF groups, km
<1>5. ASSUME NEW name \in ColumnsIn(d)
      PROVE  /\ km[name].id = FirstOf(groups, name) - 1
             /\ km[name].type = groups[FirstOf(groups, name)].type /\ km[name].type \in KeyTypes
             /\ IsColumn(d, name, km[name].id)
    <2>1. \E i \in DOMAIN groups : groups[i].name = name
        BY <1>2
    <2> DEFINE m == FirstOf(groups, name)
    <2>2. m \in 1..Len(groups) /\ groups[m].name = name /\ \A i \in 1..m - 1 : groups[i].name # name
        BY <1>1, <2>1, FirstGroup
    <2>3. km[name] = [id |-> m - 1, type |-> groups[m].type]
        BY <1>2, <1>3
    <2> HIDE DEF m
    <2>4. groups[m].type \in KeyTypes
        <3>1. groups[m] \in Groups
            BY <1>1, <2>2
        <3> QED BY <3>1 DEF Groups
    <2>5. Len(groups) \in Nat
        BY <1>1
    <2>6. IsColumn(d, name, m - 1)
        <3>1. m - 1 \in 0..Len(groups) - 1 /\ (m - 1) + 1 = m
            BY <2>2, <2>5
        <3> QED BY <2>2, <3>1 DEF IsColumn, groups
    <2>7. km[name].id = m - 1 /\ km[name].type = groups[m].type
        BY <2>3
    <2> QED BY <2>4, <2>6, <2>7 DEF m
<1>6. DOMAIN km = ColumnsIn(d)
    BY <1>2, <1>3
<1>7. ASSUME NEW node, node.varKey \in ColumnsIn(d)
      PROVE  NodeType(node, km[node.varKey]) = TypeIn(d, node) /\ TypeIn(d, node) \in KeyTypes
    <2>1. CASE node.ftype = "COUNT"
        BY <1>4, <2>1 DEF NodeType, KeyTypes
    <2>2. CASE node.ftype # "COUNT"
        BY <1>4, <1>5, <1>7, <2>2 DEF NodeType
    <2> QED BY <2>1, <2>2
<1> QED BY <1>5, <1>6, <1>7 DEF km, groups

\* The table that a declaration makes.
TableOf(d) == [filename |-> d.filename, patterns |-> d.patterns, isKeys |-> d.isKeys,
               keyMap |-> KeyMap(GroupsIn(d))]

\* The table of a declaration's command is the declaration's.
LEMMA TableScanned ==
    ASSUME NEW d, IsDeclaration(d)
    PROVE  Table(Scanned(d)) = TableOf(d)
BY ScannedCommand DEF Table, TableOf, GroupsIn

-----------------------------------------------------------------------------
(* The tables, and the lines of .scan. *)

\* The first sound declaration of a table in a list of lines.
DeclaredIn(lines, name) ==
    UNION {Declares(lines[n], name) : n \in {k \in DOMAIN lines :
                                               \A j \in 1..k - 1 : Declares(lines[j], name) = {}}}

\* One more line declares what was not declared before.
LEMMA OneMoreLine ==
    ASSUME NEW lines \in Seq(Lines), NEW l \in Lines, NEW name
    PROVE  DeclaredIn(Append(lines, l), name) =
               IF DeclaredIn(lines, name) = {} THEN Declares(l, name) ELSE DeclaredIn(lines, name)
<1> DEFINE N == Len(lines)
           more == Append(lines, l)
           D(k) == Declares(lines[k], name)
           E(k) == Declares(more[k], name)
           First == {k \in DOMAIN lines : \A j \in 1..k - 1 : D(j) = {}}
           FirstMore == {k \in DOMAIN more : \A j \in 1..k - 1 : E(j) = {}}
<1>1. /\ N \in Nat /\ DOMAIN lines = 1..N /\ DOMAIN more = 1..N + 1
      /\ more[N + 1] = l /\ \A k \in 1..N : more[k] = lines[k]
    OBVIOUS
<1>2. (\A k \in 1..N : E(k) = D(k)) /\ E(N + 1) = Declares(l, name)
    BY <1>1
<1>3. DeclaredIn(lines, name) = UNION {D(k) : k \in First}
    BY Zenon DEF DeclaredIn
<1>4. DeclaredIn(more, name) = UNION {E(k) : k \in FirstMore}
    BY Zenon DEF DeclaredIn
<1> HIDE DEF more, D, E
<1>5. DeclaredIn(lines, name) = {} => \A k \in 1..N : D(k) = {}
    <2> SUFFICES ASSUME NEW k \in 1..N, D(k) # {}
                 PROVE  DeclaredIn(lines, name) # {}
        OBVIOUS
    <2> DEFINE S == {i \in 1..N : D(i) # {}}
    <2>1. S \subseteq Nat /\ S # {}
        OBVIOUS
    <2>2. PICK m \in S : \A i \in S : m <= i
        <3> HIDE DEF S
        <3> QED BY <2>1, LeastNatural
    <2>3. m \in First
        <3>1. ASSUME NEW j \in 1..m - 1
              PROVE  D(j) = {}
            <4>1. j \in 1..N /\ ~(m <= j)
                BY <1>1, <2>2
            <4> QED BY <2>2, <4>1
        <3> QED BY <1>1, <2>2, <3>1
    <2>4. D(m) \subseteq UNION {D(i) : i \in First} /\ D(m) # {}
        BY <2>2, <2>3
    <2> QED BY <1>3, <2>4
<1>6. \A k \in 1..N : k \in FirstMore <=> k \in First
    <2> TAKE k \in 1..N
    <2>1. \A j \in 1..k - 1 : E(j) = D(j)
        BY <1>1, <1>2
    <2> QED BY <1>1, <2>1
<1>7. N + 1 \in FirstMore <=> \A k \in 1..N : D(k) = {}
    <2>1. (N + 1) - 1 = N /\ N + 1 \in DOMAIN more
        BY <1>1
    <2> QED BY <1>2, <2>1
<1>8. CASE DeclaredIn(lines, name) = {}
    <2>1. \A k \in 1..N : D(k) = {}
        BY <1>5, <1>8
    <2>2. \A k \in FirstMore : k \in 1..N \/ k = N + 1
        BY <1>1
    <2>3. \A k \in FirstMore : k = N + 1 \/ E(k) = {}
        BY <1>2, <2>1, <2>2
    <2>4. N + 1 \in FirstMore
        BY <1>7, <2>1
    <2> HIDE DEF FirstMore
    <2>5. UNION {E(k) : k \in FirstMore} = E(N + 1)
        BY <2>3, <2>4
    <2> QED BY <1>2, <1>4, <1>8, <2>5 DEF more
<1>9. CASE DeclaredIn(lines, name) # {}
    <2>1. PICK i \in First : D(i) # {}
        BY <1>3, <1>9
    <2>2. N + 1 \notin FirstMore
        BY <1>1, <1>7, <2>1
    <2>3. FirstMore = First
        <3>1. (\A k \in FirstMore : k \in 1..N \/ k = N + 1) /\ \A k \in First : k \in 1..N
            BY <1>1
        <3> HIDE DEF First, FirstMore
        <3> QED BY <1>6, <2>2, <3>1
    <2>4. \A k \in First : E(k) = D(k)
        BY <1>1, <1>2
    <2> HIDE DEF First, FirstMore
    <2>5. UNION {E(k) : k \in FirstMore} = UNION {D(k) : k \in First}
        BY <2>3, <2>4
    <2> QED BY <1>3, <1>4, <1>9, <2>5 DEF more
<1> QED BY <1>8, <1>9

\* No lines declare nothing.
LEMMA NoLines ==
    ASSUME NEW name
    PROVE  DeclaredIn(<<>>, name) = {}
BY DEF DeclaredIn

\* Every table is as the first sound declaration of its name says.
TablesDeclared(tables, lines) ==
    /\ DOMAIN tables \subseteq Names
    /\ \A name \in Names :
          \/ name \notin DOMAIN tables /\ DeclaredIn(lines, name) = {}
          \/ /\ name \in DOMAIN tables
             /\ \E d \in Declarations : /\ Sound(d) /\ d.name = name
                                        /\ DeclaredIn(lines, name) = {d}
                                        /\ tables[name] = TableOf(d)

\* What execScan leaves of the tables.
TablesAfter(c, tables) ==
    IF c = NULL \/ NoPattern(c) \/ CrashesOn(c) THEN tables ELSE Insert(tables, c.tablename, Table(c))

\* Only a declaration that is sound makes a table, and only one that is not
\* brings the program down.
LEMMA ScanDeclared ==
    ASSUME NEW d, IsDeclaration(d)
    PROVE  /\ Sound(d) <=> ~NoPattern(Scanned(d)) /\ ~CrashesOn(Scanned(d))
           /\ CrashesOn(Scanned(d)) => d.isKeys
<1> DEFINE c == Scanned(d)
<1>1. /\ IsScanByKeys(c) = d.isKeys /\ PatternsOf(c) = d.patterns
      /\ d.patterns \in Seq(Patterns) /\ d.isKeys \in BOOLEAN /\ (d.isKeys \/ Len(d.patterns) = 1)
    BY ScannedCommand DEF IsDeclaration
<1>2. ~d.isKeys => c.pattern = d.patterns[1] /\ Len(d.patterns) = 1
    BY <1>1 DEF Scanned
<1> HIDE DEF c
<1>3. CASE d.isKeys
    <2>1. ~NoPattern(c)
        BY <1>1, <1>3 DEF NoPattern
    <2> QED BY <1>1, <1>3, <2>1 DEF CrashesOn, Sound, c
<1>4. CASE ~d.isKeys
    <2>1. DOMAIN d.patterns = {1}
        BY <1>1, <1>2, <1>4
    <2>2. Sound(d) <=> Parses(c.pattern)
        BY <1>2, <1>4, <2>1 DEF Sound
    <2>3. NoPattern(c) <=> ~Parses(c.pattern)
        BY <1>1, <1>4 DEF NoPattern
    <2>4. ~CrashesOn(c)
        BY <1>1, <1>2, <1>4, <2>1, <2>3 DEF CrashesOn
    <2> QED BY <1>4, <2>2, <2>3, <2>4 DEF c
<1> QED BY <1>3, <1>4

\* A line of .scan keeps the tables as they are declared.
LEMMA ScanKeepsTables ==
    ASSUME NEW tables, NEW lines \in Seq(Lines), TablesDeclared(tables, lines), NEW l \in Lines
    PROVE  TablesDeclared(TablesAfter(ParseCommand(l), tables), Append(lines, l))
<1> DEFINE c     == ParseCommand(l)
           after == TablesAfter(c, tables)
           more  == Append(lines, l)
<1>1. ASSUME \A name \in Names : Declares(l, name) = {}, after = tables
      PROVE  TablesDeclared(after, more)
    <2>1. \A name \in Names : DeclaredIn(more, name) = DeclaredIn(lines, name)
        BY <1>1, OneMoreLine
    <2> HIDE DEF after, more
    <2> QED BY <1>1, <2>1 DEF TablesDeclared
<1>2. CommandIs(l)
    BY CommandMeans
<1>3. CASE c = NULL \/ c.mode # "SCAN"
    <2>1. Declared(l) = {}
        BY <1>2, <1>3 DEF CommandIs
    <2>2. \A name \in Names : Declares(l, name) = {}
        BY <2>1 DEF Declares
    <2>3. after = tables
        <3>1. CASE c = NULL
            BY <3>1 DEF TablesAfter
        <3>2. CASE c # NULL
            <4>1. c.keys = <<>> /\ c.pattern = NoText
                <5>1. c = [mode |-> "EXEC", query |-> l.query, keys |-> <<>>, pattern |-> NoText] \/ c.mode = "SCAN"
                    BY <3>2 DEF ParseCommand, ParseScan, CommandContext
                <5> HIDE DEF c
                <5> QED BY <1>3, <3>2, <5>1
            <4>2. NoPattern(c)
                BY <4>1, CommandAssumption DEF NoPattern, IsScanByKeys, Parses
            <4> QED BY <4>2 DEF TablesAfter
        <3> QED BY <3>1, <3>2
    <2> QED BY <1>1, <2>2, <2>3
<1>4. CASE c # NULL /\ c.mode = "SCAN"
    <2>1. PICK d : IsDeclaration(d) /\ d \in Declarations /\ Declared(l) = {d} /\ c = Scanned(d)
        BY <1>2, <1>4 DEF CommandIs
    <2>2. \A name \in Names : Declares(l, name) = IF name = d.name /\ Sound(d) THEN {d} ELSE {}
        BY <2>1 DEF Declares
    <2>3. CASE ~Sound(d)
        <3>1. after = tables
            BY <2>1, <2>3, ScanDeclared DEF TablesAfter
        <3> QED BY <1>1, <2>2, <2>3, <3>1
    <2>4. CASE Sound(d)
        <3>1. after = Insert(tables, d.name, TableOf(d))
            <4>1. c.tablename = d.name /\ Table(c) = TableOf(d)
                BY <2>1, ScannedCommand, TableScanned
            <4>2. ~(c = NULL \/ NoPattern(c) \/ CrashesOn(c))
                BY <1>4, <2>1, <2>4, ScanDeclared
            <4> HIDE DEF c
            <4> QED BY <4>1, <4>2 DEF TablesAfter
        <3>2. d.name \in Names
            BY <2>1 DEF IsDeclaration
        <3> HIDE DEF after
        <3>3. /\ DOMAIN after = DOMAIN tables \cup {d.name}
              /\ \A n \in DOMAIN after : after[n] = IF n \in DOMAIN tables THEN tables[n] ELSE TableOf(d)
            BY <3>1 DEF Insert
        <3>4. ASSUME NEW name \in Names
              PROVE  DeclaredIn(more, name) = IF DeclaredIn(lines, name) = {} /\ name = d.name THEN {d}
                                              ELSE DeclaredIn(lines, name)
            BY <2>2, <2>4, OneMoreLine
        <3> HIDE DEF more
        <3>5. ASSUME NEW name \in Names
              PROVE  \/ name \notin DOMAIN after /\ DeclaredIn(more, name) = {}
                     \/ /\ name \in DOMAIN after
                        /\ \E f \in Declarations : /\ Sound(f) /\ f.name = name
                                                   /\ DeclaredIn(more, name) = {f}
                                                   /\ after[name] = TableOf(f)
            <4>1. CASE name \in DOMAIN tables
                <5>1. PICK f \in Declarations : /\ Sound(f) /\ f.name = name
                                                /\ DeclaredIn(lines, name) = {f}
                                                /\ tables[name] = TableOf(f)
                    BY <4>1 DEF TablesDeclared
                <5>2. DeclaredIn(more, name) = {f} /\ name \in DOMAIN after /\ after[name] = TableOf(f)
                    BY <3>3, <3>4, <4>1, <5>1
                <5> QED BY <5>1, <5>2
            <4>2. CASE name \notin DOMAIN tables
                <5>1. DeclaredIn(lines, name) = {}
                    BY <4>2 DEF TablesDeclared
                <5>2. CASE name = d.name
                    <6>1. DeclaredIn(more, name) = {d} /\ name \in DOMAIN after /\ after[name] = TableOf(d)
                        BY <3>3, <3>4, <4>2, <5>1, <5>2
                    <6> QED BY <2>1, <2>4, <5>2, <6>1
                <5>3. CASE name # d.name
                    BY <3>3, <3>4, <4>2, <5>1, <5>3
                <5> QED BY <5>2, <5>3
            <4> QED BY <4>1, <4>2
        <3>6. DOMAIN after \subseteq Names
            BY <3>2, <3>3 DEF TablesDeclared
        <3>7. TablesDeclared(after, more)
            BY <3>5, <3>6 DEF TablesDeclared
        <3> QED BY <3>7 DEF after, more
    <2> QED BY <2>3, <2>4
<1> QED BY <1>3, <1>4

-----------------------------------------------------------------------------
(* The runs of a query. *)

\* What Command's properties say of one run, for the declaration it was made from.
FileOf(r, d) == r.filename = d.filename /\ r.patterns = d.patterns /\ r.isKeys = d.isKeys

TreesOf(r, d, q) ==
    \A t \in DOMAIN q.trees :
        LET tree == q.trees[t]
        IN  (\A n \in DOMAIN tree : tree[n].varKey \in ColumnsIn(d))
            => \A n \in DOMAIN tree : /\ IsColumn(d, tree[n].varKey, r.vars[t][n].id)
                                      /\ r.vars[t][n].type = TypeIn(d, tree[n])

TypesOf(r, d, q) ==
    \A t \in DOMAIN q.trees :
        LET tree  == q.trees[t]
            types == {TypeIn(d, tree[n]) : n \in DOMAIN tree}
        IN  (tree # <<>> /\ \A n \in DOMAIN tree : tree[n].varKey \in ColumnsIn(d))
            => r.types[t] = TypeOfAll(types)

KeysOf(keyVec, d, names) ==
    Len(keyVec) = Len(names) /\ \A k \in DOMAIN names : IsColumn(d, names[k], keyVec[k])

\* The columns of one list, for the first table.
LEMMA KeysMapped ==
    ASSUME NEW d, IsDeclaration(d), Sound(d), NEW names \in Seq(Columns),
           KnowsAll(KeyMap(GroupsIn(d)), names)
    PROVE  KeysOf(<<>> \o KeysAt(KeyMap(GroupsIn(d)), names), d, names)
<1> DEFINE km  == KeyMap(GroupsIn(d))
           ids == KeysAt(km, names)
           N   == Len(names)
<1>1. N \in Nat /\ DOMAIN names = 1..N /\ \A k \in 1..N : names[k] \in ColumnsIn(d)
    BY KeyMapColumns DEF KnowsAll
<1>2. \A k \in 1..N : IsColumn(d, names[k], km[names[k]].id) /\ km[names[k]].id \in Int
    <2>1. \A k \in 1..N : IsColumn(d, names[k], km[names[k]].id)
        BY <1>1, KeyMapColumns
    <2>2. \A name, id : IsColumn(d, name, id) => id \in Int
        BY DEF IsColumn
    <2> QED BY <2>1, <2>2
<1>3. ids = [k \in 1..N |-> km[names[k]].id]
    BY <1>1 DEF KeysAt
<1> HIDE DEF km, ids, N
<1>4. ids \in Seq(Int) /\ Len(ids) = N /\ \A k \in 1..N : ids[k] = km[names[k]].id
    BY <1>1, <1>2, <1>3
<1>5. <<>> \o ids = ids
    BY <1>4, ConcatEmptySeq
<1>6. KeysOf(ids, d, names)
    BY <1>1, <1>2, <1>4 DEF KeysOf, N
<1> QED BY <1>5, <1>6 DEF ids, km

\* A tree whose columns the table has is mapped to them, whatever it was before.
LEMMA TreeMapped ==
    ASSUME NEW d, IsDeclaration(d), Sound(d), NEW tree \in Seq(Nodes), NEW old,
           \A n \in DOMAIN tree : tree[n].varKey \in ColumnsIn(d)
    PROVE  LET new == MapOpTree(tree, old, KeyMap(GroupsIn(d)))
           IN  /\ DOMAIN new = DOMAIN tree /\ Len(new) = Len(tree)
               /\ \A n \in DOMAIN tree : /\ IsColumn(d, tree[n].varKey, new[n].id)
                                         /\ new[n].type = TypeIn(d, tree[n])
               /\ tree # <<>> => TreeType(new) = TypeOfAll({TypeIn(d, tree[n]) : n \in DOMAIN tree})
<1> DEFINE km  == KeyMap(GroupsIn(d))
           new == MapOpTree(tree, old, km)
           N   == Len(tree)
<1>1. N \in Nat /\ DOMAIN tree = 1..N
    OBVIOUS
<1>2. DOMAIN km = ColumnsIn(d)
    BY KeyMapColumns
<1>3. \A node : node.varKey \in ColumnsIn(d) => /\ IsColumn(d, node.varKey, km[node.varKey].id)
                                               /\ NodeType(node, km[node.varKey]) = TypeIn(d, node)
                                               /\ TypeIn(d, node) \in KeyTypes
    BY KeyMapColumns
<1> HIDE DEF km
<1>4. new = [n \in 1..N |-> MapNode(tree[n], old[n], km)]
    <2>1. \A n \in 1..N : \A k \in 1..n : ~(tree[k].varKey \notin DOMAIN km)
        BY <1>1, <1>2
    <2> QED BY <1>1, <2>1 DEF MapOpTree
<1> HIDE DEF new, N
<1>5. \A n \in 1..N : new[n] = [id |-> km[tree[n].varKey].id, type |-> NodeType(tree[n], km[tree[n].varKey])]
    BY <1>4 DEF MapNode
<1>6. \A n \in 1..N : /\ IsColumn(d, tree[n].varKey, new[n].id)
                      /\ new[n].type = TypeIn(d, tree[n]) /\ new[n].type \in KeyTypes
    <2> TAKE n \in 1..N
    <2> DEFINE node == tree[n]
    <2>1. node.varKey \in ColumnsIn(d)
        BY <1>1
    <2>2. new[n].id = km[node.varKey].id /\ new[n].type = NodeType(node, km[node.varKey])
        <3> DEFINE x == km[node.varKey].id
                   y == NodeType(node, km[node.varKey])
        <3>1. new[n] = [id |-> x, type |-> y]
            BY <1>5
        <3> HIDE DEF x, y
        <3>2. new[n].id = x /\ new[n].type = y
            BY <3>1
        <3> QED BY <3>2 DEF x, y
    <2> HIDE DEF node
    <2>3. /\ IsColumn(d, node.varKey, km[node.varKey].id)
          /\ NodeType(node, km[node.varKey]) = TypeIn(d, node) /\ TypeIn(d, node) \in KeyTypes
        BY <1>3, <2>1
    <2> QED BY <2>2, <2>3 DEF node
<1>7. Len(new) = N /\ DOMAIN new = 1..N
    <2>1. new = [n \in 1..N |-> new[n]]
        BY <1>4
    <2> QED BY <1>1, <2>1, ListOfFunction
<1>8. ASSUME tree # <<>>
      PROVE  TreeType(new) = TypeOfAll({TypeIn(d, tree[n]) : n \in DOMAIN tree})
    <2>1. N \in Nat \ {0}
        BY <1>1, <1>8 DEF N
    <2>2. TreeType(new) = TypeOfAll({new[n].type : n \in DOMAIN new})
        BY <1>6, <1>7, <2>1, TreeTypeOfAll
    <2>3. {new[n].type : n \in DOMAIN new} = {TypeIn(d, tree[n]) : n \in DOMAIN tree}
        BY <1>1, <1>6, <1>7
    <2> QED BY <2>2, <2>3
<1> QED BY <1>1, <1>6, <1>7, <1>8 DEF new, km, N

\* A query context as it is between two tables.
Fields == {"tables", "trees", "vars", "gKeys", "gKeyVec", "oKeys", "oKeyVec"}
ContextOf(c, q) ==
    /\ c = [f \in Fields |-> c[f]]
    /\ c.trees = q.trees /\ c.gKeys = Reverse(q.gKeys) /\ c.oKeys = Reverse(q.oKeys)

\* The parser's lists are in reverse order, and no key is mapped yet.
LEMMA NewContext ==
    ASSUME NEW q, IsQuery(q)
    PROVE  /\ ContextOf(NewQuery(q), q) /\ NewQuery(q).tables = Reverse(q.tables)
           /\ NewQuery(q).gKeyVec = <<>> /\ NewQuery(q).oKeyVec = <<>>
<1>1. /\ BuildList(q.tables) = Reverse(q.tables)
      /\ BuildList(q.gKeys) = Reverse(q.gKeys)
      /\ BuildList(q.oKeys) = Reverse(q.oKeys)
    BY BuildReverses DEF IsQuery
<1> QED BY <1>1 DEF NewQuery, ContextOf, Fields

\* What mapping makes of the context for the table of d, and the run on it.
LEMMA Mapped ==
    ASSUME NEW q, IsQuery(q), NEW d, IsDeclaration(d), Sound(d), NEW c, ContextOf(c, q),
           KnowsAll(KeyMap(GroupsIn(d)), c.gKeys), KnowsAll(KeyMap(GroupsIn(d)), c.oKeys)
    PROVE  LET m == Mapping(c, KeyMap(GroupsIn(d)))
           IN  /\ ContextOf(m, q)
               /\ \A r : (r.vars = m.vars /\ r.types = [i \in DOMAIN m.vars |-> TreeType(m.vars[i])])
                         => TreesOf(r, d, q) /\ TypesOf(r, d, q)
               /\ (c.gKeyVec = <<>> /\ c.oKeyVec = <<>>)
                  => /\ KeysOf(m.gKeyVec, d, Reverse(q.gKeys))
                     /\ KeysOf(m.oKeyVec, d, Reverse(q.oKeys))
<1> DEFINE km == KeyMap(GroupsIn(d))
           m  == Mapping(c, km)
           vs == [i \in DOMAIN q.trees |-> MapOpTree(q.trees[i], c.vars[i], km)]
           g  == c.gKeyVec \o KeysAt(km, c.gKeys)
           o  == c.oKeyVec \o KeysAt(km, c.oKeys)
<1>1. c.trees = q.trees /\ c.gKeys = Reverse(q.gKeys) /\ c.oKeys = Reverse(q.oKeys)
    BY DEF ContextOf
<1>2. m = [c EXCEPT !.vars = vs, !.gKeyVec = g, !.oKeyVec = o]
    BY <1>1 DEF Mapping
<1> HIDE DEF m, km, g, o
<1>3. m.vars = vs /\ m.gKeyVec = g /\ m.oKeyVec = o /\ ContextOf(m, q)
    <2> HIDE DEF vs
    <2>1. c = [f \in Fields |-> c[f]]
        BY DEF ContextOf
    <2>2. /\ m.vars = vs /\ m.gKeyVec = g /\ m.oKeyVec = o
          /\ m.trees = c.trees /\ m.gKeys = c.gKeys /\ m.oKeys = c.oKeys
        BY <1>2, <2>1 DEF Fields
    <2>3. m = [f \in Fields |-> m[f]]
        BY <1>2, <2>1 DEF Fields
    <2> QED BY <1>1, <2>2, <2>3 DEF ContextOf
<1>4. ASSUME NEW r, r.vars = m.vars, r.types = [i \in DOMAIN m.vars |-> TreeType(m.vars[i])]
      PROVE  TreesOf(r, d, q) /\ TypesOf(r, d, q)
    <2>1. ASSUME NEW t \in DOMAIN q.trees, \A n \in DOMAIN q.trees[t] : q.trees[t][n].varKey \in ColumnsIn(d)
          PROVE  /\ \A n \in DOMAIN q.trees[t] : /\ IsColumn(d, q.trees[t][n].varKey, r.vars[t][n].id)
                                                 /\ r.vars[t][n].type = TypeIn(d, q.trees[t][n])
                 /\ q.trees[t] # <<>> => r.types[t] = TypeOfAll({TypeIn(d, q.trees[t][n]) : n \in DOMAIN q.trees[t]})
        <3> DEFINE tree == q.trees[t]
        <3>1. tree \in Seq(Nodes)
            BY DEF IsQuery
        <3>2. r.vars[t] = MapOpTree(tree, c.vars[t], km) /\ r.types[t] = TreeType(r.vars[t])
            BY <1>3, <1>4
        <3> HIDE DEF tree
        <3>3. \A n \in DOMAIN tree : tree[n].varKey \in ColumnsIn(d)
            BY <2>1 DEF tree
        <3>4. /\ \A n \in DOMAIN tree : /\ IsColumn(d, tree[n].varKey, r.vars[t][n].id)
                                        /\ r.vars[t][n].type = TypeIn(d, tree[n])
              /\ tree # <<>> => TreeType(r.vars[t]) = TypeOfAll({TypeIn(d, tree[n]) : n \in DOMAIN tree})
            BY <3>1, <3>2, <3>3, TreeMapped DEF km
        <3> QED BY <3>2, <3>4 DEF tree
    <2> QED BY <2>1 DEF TreesOf, TypesOf
<1>5. ASSUME c.gKeyVec = <<>>, c.oKeyVec = <<>>
      PROVE  /\ KeysOf(m.gKeyVec, d, Reverse(q.gKeys))
             /\ KeysOf(m.oKeyVec, d, Reverse(q.oKeys))
    <2>1. Reverse(q.gKeys) \in Seq(Columns) /\ Reverse(q.oKeys) \in Seq(Columns)
        BY ReverseList DEF IsQuery
    <2>2. KeysOf(<<>> \o KeysAt(km, Reverse(q.gKeys)), d, Reverse(q.gKeys))
        BY <1>1, <2>1, KeysMapped DEF km
    <2>3. KeysOf(<<>> \o KeysAt(km, Reverse(q.oKeys)), d, Reverse(q.oKeys))
        BY <1>1, <2>1, KeysMapped DEF km
    <2> QED BY <1>1, <1>3, <1>5, <2>2, <2>3 DEF g, o
<1> QED BY <1>3, <1>4, <1>5 DEF m, km

-----------------------------------------------------------------------------
(* The inductive invariant. *)

\* The i-th run of a query is on the table of d.
RunIs(r, i, q, d) ==
    /\ r.table = Reverse(q.tables)[i]
    /\ FileOf(r, d) /\ TreesOf(r, d, q) /\ TypesOf(r, d, q)
    /\ i = 1 => /\ KeysOf(r.gKeyVec, d, Reverse(q.gKeys))
                /\ KeysOf(r.oKeyVec, d, Reverse(q.oKeys))

Shape ==
    /\ mode \in Modes /\ pc \in {"read", "query", "tables", "fault", "exit"}
    /\ line \in Lines \cup {NoLine} /\ log \in Seq(Lines) /\ IsList(runs)

RunsAre ==
    runs # <<>> =>
        /\ line \in Lines /\ Asked # NoQuery
        /\ Len(runs) <= Len(Asked.tables)
        /\ pc = "read" => Len(runs) = Len(Asked.tables)
        /\ \A i \in DOMAIN runs : \E d \in DeclaredIn(log, runs[i].table) : RunIs(runs[i], i, Asked, d)

\* Between two tables: the rest of the FROM list, and the context.
TodoIs ==
    pc = "tables" =>
        /\ line \in Lines /\ Asked # NoQuery /\ ContextOf(ctx, Asked)
        /\ Len(runs) <= Len(Asked.tables)
        /\ todo = SubSeq(FromReversed, Len(runs) + 1, Len(Asked.tables))
        /\ runs = <<>> => ctx.gKeyVec = <<>> /\ ctx.oKeyVec = <<>>

IInv == Shape /\ TablesDeclared(tableMap, log) /\ RunsAre /\ TodoIs /\ FaultsExplained

-----------------------------------------------------------------------------
(* Every step keeps the invariant. *)

\* The invariant holds at the start.
LEMMA InitInv == Init => IInv
<1> SUFFICES ASSUME Init
             PROVE  IInv
    OBVIOUS
<1>1. Shape
    <2>1. IsList(<<>>)
        BY DEF IsList
    <2> QED BY <2>1 DEF Init, Shape, Modes
<1>2. TablesDeclared(tableMap, log)
    <2>1. tableMap = <<>> /\ log = <<>> /\ DOMAIN <<>> = {}
        BY DEF Init
    <2> QED BY <2>1, NoLines DEF TablesDeclared
<1>3. RunsAre /\ TodoIs /\ FaultsExplained
    BY DEF Init, RunsAre, TodoIs, FaultsExplained
<1> QED BY <1>1, <1>2, <1>3 DEF IInv

\* DeclaredAs is DeclaredIn of the log.
LEMMA DeclaredInLog ==
    ASSUME NEW name
    PROVE  DeclaredAs(name) = DeclaredIn(log, name)
BY Zenon DEF DeclaredAs, DeclaredIn

\* Why the program is down, for a list of lines.
FaultIs(md, ln, lines) ==
    \/ \E d \in Declared(ln) : d.isKeys /\ ~Sound(d)
    \/ md = "native" /\ Declared(ln) = {}
    \/ /\ ln.query # NoQuery
       /\ \E i \in DOMAIN ln.query.tables :
            \/ DeclaredIn(lines, ln.query.tables[i]) = {}
            \/ \E d \in DeclaredIn(lines, ln.query.tables[i]) :
                  ToSet(ln.query.gKeys \o ln.query.oKeys) \ ColumnsIn(d) # {}

\* FaultsExplained in terms of the last line and the lines before it.
LEMMA FaultForm ==
    /\ FaultsExplained <=> (pc = "fault" => FaultIs(mode, line, log))
    /\ FaultsExplained' <=> (pc' = "fault" => FaultIs(mode', line', log'))
<1>1. FaultsExplained <=> (pc = "fault" => FaultIs(mode, line, log))
    BY Zenon DEF FaultsExplained, FaultIs, Asked, DeclaredAs, DeclaredIn
<1>2. FaultsExplained' <=> (pc' = "fault" => FaultIs(mode', line', log'))
    BY Zenon DEF FaultsExplained, FaultIs, Asked, DeclaredAs, DeclaredIn
<1> QED BY <1>1, <1>2

\* After a line is read there are no runs, so nothing is said of them.
LEMMA AfterRead ==
    ASSUME NEW l \in Lines, Read(l)
    PROVE  line' = l /\ line' \in Lines /\ runs' = <<>> /\ IsList(runs') /\ RunsAre'
<1>1. IsList(<<>>)
    BY DEF IsList
<1> QED BY <1>1 DEF Read, RunsAre

\* A line of .scan, in the shell or from Spark.
LEMMA ScanStep ==
    ASSUME NEW l \in Lines, NEW c, c = ParseCommand(l), c # NULL,
           NEW tables, NEW lines \in Seq(Lines), TablesDeclared(tables, lines),
           NEW next \in {"read", "query"},
           Read(l), mode' \in Modes, log' = Append(lines, l), ScanTable(c, tables, next)
    PROVE  IInv'
<1>1. line' = l /\ line' \in Lines /\ runs' = <<>> /\ IsList(runs') /\ RunsAre'
    BY AfterRead
<1>2. TablesDeclared(tableMap', log')
    <2>1. tableMap' = TablesAfter(ParseCommand(l), tables)
        BY DEF ScanTable, TablesAfter
    <2> QED BY <2>1, ScanKeepsTables
<1>3. Shape'
    <2>1. pc' \in {"read", "query", "tables", "fault", "exit"}
        BY DEF ScanTable
    <2>2. log' \in Seq(Lines)
        OBVIOUS
    <2> QED BY <1>1, <2>1, <2>2 DEF Shape
<1>4. TodoIs'
    BY DEF TodoIs, ScanTable
<1>5. FaultsExplained'
    <2> SUFFICES ASSUME pc' = "fault"
                 PROVE  \E d \in Declared(line') : d.isKeys /\ ~Sound(d)
        BY DEF FaultsExplained
    <2>1. CrashesOn(c)
        BY DEF ScanTable
    <2>2. c.mode = "SCAN"
        <3> SUFFICES ASSUME c.mode # "SCAN"
                     PROVE  FALSE
            OBVIOUS
        <3>1. c = [mode |-> "EXEC", query |-> l.query, keys |-> <<>>, pattern |-> NoText] \/ c.mode = "SCAN"
            BY DEF ParseCommand, ParseScan, CommandContext
        <3>2. c.keys = <<>> /\ c.pattern = NoText
            BY <3>1
        <3> QED BY <2>1, <3>2, CommandAssumption DEF CrashesOn, NoPattern, IsScanByKeys, Parses
    <2>3. PICK d : IsDeclaration(d) /\ Declared(l) = {d} /\ c = Scanned(d)
        BY <2>2, CommandMeans DEF CommandIs
    <2> QED BY <1>1, <2>1, <2>3, ScanDeclared
<1> QED BY <1>1, <1>2, <1>3, <1>4, <1>5 DEF IInv

\* A query is started.
LEMMA QueryStep ==
    ASSUME IInv, NEW l \in Lines, Read(l), StartQuery(l.query), UNCHANGED <<mode, tableMap, log>>
    PROVE  IInv'
<1>1. line' = l /\ line' \in Lines /\ runs' = <<>> /\ IsList(runs') /\ RunsAre'
    BY AfterRead
<1>2. TablesDeclared(tableMap', log')
    BY DEF IInv
<1>3. Shape' /\ FaultsExplained'
    <2>1. pc' \in {"read", "tables"}
        BY DEF StartQuery
    <2> QED BY <1>1, <2>1 DEF IInv, Shape, FaultsExplained
<1>4. TodoIs'
    <2> SUFFICES ASSUME pc' = "tables"
                 PROVE  TodoIs'
        BY DEF TodoIs
    <2> DEFINE q == l.query
    <2>1. q # NoQuery /\ ctx' = NewQuery(q) /\ todo' = NewQuery(q).tables
        BY DEF StartQuery
    <2>2. IsQuery(q)
        BY <2>1, CommandAssumption
    <2>3. Asked' = q
        BY <1>1 DEF Asked
    <2> HIDE DEF q
    <2>4. /\ ContextOf(ctx', q) /\ todo' = Reverse(q.tables)
          /\ ctx'.gKeyVec = <<>> /\ ctx'.oKeyVec = <<>>
        BY <2>1, <2>2, NewContext
    <2>5. /\ Reverse(q.tables) \in Seq(Names) /\ Len(Reverse(q.tables)) = Len(q.tables)
          /\ Len(q.tables) \in Nat
        BY <2>2, ReverseList DEF IsQuery
    <2>6. SubSeq(Reverse(q.tables), 1, Len(q.tables)) = Reverse(q.tables)
        BY <2>5, SubSeqFull
    <2>7. FromReversed' = Reverse(q.tables)
        BY <2>3 DEF FromReversed
    <2>8. Len(runs') = 0 /\ Len(runs') + 1 = 1
        BY <1>1
    <2> QED BY <1>1, <2>1, <2>3, <2>4, <2>5, <2>6, <2>7, <2>8 DEF TodoIs
<1> QED BY <1>1, <1>2, <1>3, <1>4 DEF IInv

\* The rest of the FROM list.
LEMMA Rest ==
    ASSUME IInv, pc = "tables"
    PROVE  /\ IsQuery(Asked) /\ FromReversed \in Seq(Names) /\ Len(FromReversed) = Len(Asked.tables)
           /\ Len(runs) \in Nat /\ Len(Asked.tables) \in Nat
           /\ todo = <<>> <=> Len(runs) = Len(Asked.tables)
           /\ todo # <<>> => /\ Len(runs) + 1 \in 1..Len(Asked.tables)
                             /\ Head(todo) = FromReversed[Len(runs) + 1] /\ Head(todo) \in Names
                             /\ Tail(todo) = SubSeq(FromReversed, Len(runs) + 2, Len(Asked.tables))
                             /\ \E i \in DOMAIN Asked.tables : Head(todo) = Asked.tables[i]
<1> DEFINE q == Asked
           N == Len(q.tables)
           f == FromReversed
           k == Len(runs)
<1>1. /\ line \in Lines /\ q # NoQuery /\ k <= N /\ todo = SubSeq(f, k + 1, N)
      /\ IsList(runs)
    BY DEF IInv, TodoIs, Shape
<1>2. IsQuery(q)
    BY <1>1, CommandAssumption DEF Asked
<1>3. q.tables \in Seq(Names) /\ N \in Nat /\ k \in Nat
    BY <1>1, <1>2 DEF IsQuery, IsList
<1>4. f \in Seq(Names) /\ Len(f) = N /\ \A n \in 1..N : f[n] = q.tables[N - n + 1]
    BY <1>3, ReverseList DEF FromReversed
<1> HIDE DEF q, f, N, k
<1>5. Len(todo) = IF k + 1 <= N THEN N - k ELSE 0
    <2>1. \A i \in k + 1..N : f[i] \in Names
        BY <1>3, <1>4, ElementOfSeq
    <2> QED BY <1>1, <1>3, <2>1, SubSeqProperties
<1>6. todo \in Seq(Names)
    <2>1. \A i \in k + 1..N : f[i] \in Names
        BY <1>3, <1>4, ElementOfSeq
    <2> QED BY <1>1, <1>3, <2>1, SubSeqProperties
<1>7. todo = <<>> <=> k = N
    <2>1. Len(todo) = 0 <=> k = N
        <3>1. k <= N
            BY <1>1
        <3> QED BY <1>3, <1>5, <3>1
    <2>2. todo = <<>> <=> Len(todo) = 0
        BY <1>6, EmptySeq
    <2> QED BY <2>1, <2>2
<1>8. ASSUME todo # <<>>
      PROVE  /\ k + 1 \in 1..N /\ Head(todo) = f[k + 1] /\ Head(todo) \in Names
             /\ Tail(todo) = SubSeq(f, k + 2, N)
             /\ \E i \in DOMAIN q.tables : Head(todo) = q.tables[i]
    <2>1. k + 1 \in 1..N /\ N \in k + 1..N /\ k + 1 \in 1..Len(f) /\ N \in k + 1..Len(f)
        BY <1>1, <1>3, <1>4, <1>7, <1>8
    <2>2. Head(todo) = f[k + 1] /\ Tail(todo) = SubSeq(f, (k + 1) + 1, N)
        BY <1>1, <1>4, <2>1, HeadTailOfSubSeq
    <2>3. f[k + 1] = q.tables[N - (k + 1) + 1] /\ f[k + 1] \in Names
        BY <1>4, <2>1, ElementOfSeq
    <2>4. N - (k + 1) + 1 \in DOMAIN q.tables /\ (k + 1) + 1 = k + 2
        BY <1>3, <2>1 DEF N
    <2> QED BY <2>1, <2>2, <2>3, <2>4
<1> QED BY <1>2, <1>3, <1>4, <1>7, <1>8 DEF q, f, N, k

\* What the invariant says of a table that can be run.
LEMMA CanMapTable ==
    ASSUME IInv, NEW name \in Names
    PROVE  \/ name \notin DOMAIN tableMap /\ DeclaredIn(log, name) = {} /\ ~CanMap(name)
           \/ \E d : /\ IsDeclaration(d) /\ Sound(d) /\ DeclaredIn(log, name) = {d}
                     /\ tableMap[name] = TableOf(d) /\ tableMap[name].keyMap = KeyMap(GroupsIn(d))
                     /\ CanMap(name) <=> /\ KnowsAll(KeyMap(GroupsIn(d)), ctx.gKeys)
                                         /\ KnowsAll(KeyMap(GroupsIn(d)), ctx.oKeys)
<1>1. CASE name \notin DOMAIN tableMap
    BY <1>1 DEF IInv, TablesDeclared, CanMap
<1>2. CASE name \in DOMAIN tableMap
    <2>1. PICK d \in Declarations : /\ Sound(d) /\ DeclaredIn(log, name) = {d}
                                    /\ tableMap[name] = TableOf(d)
        BY <1>2 DEF IInv, TablesDeclared
    <2>2. IsDeclaration(d)
        BY DeclarationType
    <2>3. tableMap[name].keyMap = KeyMap(GroupsIn(d))
        BY <2>1 DEF TableOf
    <2> QED BY <1>2, <2>1, <2>2, <2>3 DEF CanMap
<1> QED BY <1>1, <1>2

\* A table of the FROM list is run.
LEMMA RunStep ==
    ASSUME IInv, RunTable
    PROVE  IInv'
<1> DEFINE q    == Asked
           f    == FromReversed
           k    == Len(runs)
           N    == Len(q.tables)
           name == Head(todo)
           km   == tableMap[name].keyMap
           m    == Mapping(ctx, km)
           r    == Run(name, m)
<1>1. /\ pc = "tables" /\ todo # <<>> /\ CanMap(name)
      /\ ctx' = m /\ runs' = Append(runs, r) /\ todo' = Tail(todo)
      /\ UNCHANGED <<mode, pc, tableMap, line, log, count>>
    BY DEF RunTable, NextTable
<1>2. /\ IsQuery(q) /\ k \in Nat /\ N \in Nat /\ k + 1 \in 1..N
      /\ name = f[k + 1] /\ name \in Names /\ Tail(todo) = SubSeq(f, k + 2, N)
    BY <1>1, Rest
<1>3. PICK d : /\ IsDeclaration(d) /\ Sound(d) /\ DeclaredIn(log, name) = {d}
               /\ tableMap[name] = TableOf(d) /\ km = KeyMap(GroupsIn(d))
               /\ KnowsAll(KeyMap(GroupsIn(d)), ctx.gKeys) /\ KnowsAll(KeyMap(GroupsIn(d)), ctx.oKeys)
    BY <1>1, <1>2, CanMapTable
<1>4. /\ line \in Lines /\ q # NoQuery /\ ContextOf(ctx, q)
      /\ runs = <<>> => ctx.gKeyVec = <<>> /\ ctx.oKeyVec = <<>>
    BY <1>1 DEF IInv, TodoIs
<1>5. /\ ContextOf(m, q)
      /\ \A x : (x.vars = m.vars /\ x.types = [i \in DOMAIN m.vars |-> TreeType(m.vars[i])])
                => TreesOf(x, d, q) /\ TypesOf(x, d, q)
      /\ (ctx.gKeyVec = <<>> /\ ctx.oKeyVec = <<>>)
         => KeysOf(m.gKeyVec, d, Reverse(q.gKeys)) /\ KeysOf(m.oKeyVec, d, Reverse(q.oKeys))
    <2> HIDE DEF q
    <2> QED BY <1>2, <1>3, <1>4, Mapped
<1>6. IsList(runs)
    BY DEF IInv, Shape
<1>7. UNCHANGED <<q, f, N>>
    BY <1>1 DEF Asked, FromReversed
<1>8. RunIs(r, k + 1, q, d)
    <2>1. /\ r.table = name /\ r.vars = m.vars
          /\ r.types = [i \in DOMAIN m.vars |-> TreeType(m.vars[i])]
          /\ r.gKeyVec = m.gKeyVec /\ r.oKeyVec = m.oKeyVec
        BY DEF Run
    <2>2. FileOf(r, d)
        <3>1. /\ r.filename = tableMap[name].filename /\ r.patterns = tableMap[name].patterns
              /\ r.isKeys = tableMap[name].isKeys
            BY DEF Run
        <3>2. /\ TableOf(d).filename = d.filename /\ TableOf(d).patterns = d.patterns
              /\ TableOf(d).isKeys = d.isKeys
            BY DEF TableOf
        <3> HIDE DEF r, name
        <3> QED BY <1>3, <3>1, <3>2 DEF FileOf
    <2>3. k + 1 = 1 => runs = <<>>
        BY <1>2, <1>6 DEF IsList
    <2>4. r.table = Reverse(q.tables)[k + 1]
        BY <1>2, <2>1 DEF FromReversed
    <2> HIDE DEF r, m, q, k, name
    <2>5. TreesOf(r, d, q) /\ TypesOf(r, d, q)
        BY <1>5, <2>1
    <2>6. k + 1 = 1 => KeysOf(r.gKeyVec, d, Reverse(q.gKeys)) /\ KeysOf(r.oKeyVec, d, Reverse(q.oKeys))
        BY <1>4, <1>5, <2>1, <2>3
    <2> QED BY <2>2, <2>4, <2>5, <2>6 DEF RunIs
<1>9. r.table = name
    BY DEF Run
<1> HIDE DEF q, f, k, N, name, km, m, r
<1>10. /\ IsList(runs') /\ Len(runs') = k + 1 /\ DOMAIN runs' = 1..k + 1 /\ DOMAIN runs = 1..k
       /\ runs'[k + 1] = r /\ \A i \in 1..k : runs'[i] = runs[i]
    <2>1. /\ IsList(Append(runs, r)) /\ Len(Append(runs, r)) = Len(runs) + 1
          /\ DOMAIN runs = 1..Len(runs) /\ DOMAIN Append(runs, r) = 1..Len(runs) + 1
          /\ Append(runs, r)[Len(runs) + 1] = r
          /\ \A i \in 1..Len(runs) : Append(runs, r)[i] = runs[i]
        BY <1>6, AppendList
    <2> QED BY <1>1, <2>1 DEF k
<1>11. Shape'
    BY <1>1, <1>10 DEF IInv, Shape
<1>12. TablesDeclared(tableMap', log')
    BY <1>1 DEF IInv
<1>13. RunsAre'
    <2>1. k + 1 <= N
        BY <1>2
    <2>2. ASSUME NEW i \in 1..k + 1
          PROVE  \E x \in DeclaredIn(log', runs'[i].table) : RunIs(runs'[i], i, q, x)
        <3>1. CASE i = k + 1
            BY <1>1, <1>3, <1>8, <1>9, <1>10, <3>1
        <3>2. CASE i # k + 1
            <4>1. i \in 1..k
                BY <1>2, <3>2
            <4>2. runs # <<>>
                <5>1. Len(<<>>) = 0 /\ k \in Nat
                    BY <1>2
                <5> QED BY <4>1, <5>1 DEF k
            <4>3. \E x \in DeclaredIn(log, runs[i].table) : RunIs(runs[i], i, q, x)
                BY <1>10, <4>1, <4>2 DEF IInv, RunsAre, q
            <4> QED BY <1>1, <1>10, <4>1, <4>3
        <3> QED BY <3>1, <3>2
    <2>3. pc' # "read" /\ line' \in Lines
        BY <1>1, <1>4
    <2>4. Asked' = q /\ Len(Asked'.tables) = N
        BY <1>7 DEF q, N
    <2> QED BY <1>4, <1>10, <2>1, <2>2, <2>3, <2>4 DEF RunsAre
<1>14. TodoIs'
    <2>1. /\ Asked' = q /\ FromReversed' = f /\ Len(Asked'.tables) = N
        BY <1>7 DEF q, f, N
    <2>2. Len(runs') <= N /\ Len(runs') + 1 = k + 2 /\ runs' # <<>>
        BY <1>2, <1>10
    <2> QED BY <1>1, <1>2, <1>4, <1>5, <2>1, <2>2 DEF TodoIs
<1>15. FaultsExplained'
    BY <1>1 DEF FaultsExplained
<1> QED BY <1>11, <1>12, <1>13, <1>14, <1>15 DEF IInv

\* A table is not there, or lacks a column.
LEMMA NoTableStep ==
    ASSUME IInv, NoTable
    PROVE  IInv'
<1> DEFINE q    == Asked
           name == Head(todo)
<1>1. /\ pc = "tables" /\ todo # <<>> /\ ~CanMap(name) /\ pc' = "fault"
      /\ UNCHANGED <<mode, tableMap, line, log, count, ctx, todo, runs>>
    BY DEF NoTable
<1>2. /\ IsQuery(q) /\ name \in Names /\ \E i \in DOMAIN q.tables : name = q.tables[i]
    BY <1>1, Rest
<1>3. PICK i \in DOMAIN q.tables : name = q.tables[i]
    BY <1>2
<1>4. line \in Lines /\ q # NoQuery /\ ctx.gKeys = Reverse(q.gKeys) /\ ctx.oKeys = Reverse(q.oKeys)
    BY <1>1 DEF IInv, TodoIs, ContextOf
<1>5. ASSUME NEW xs \in Seq(Columns), NEW d, IsDeclaration(d), Sound(d),
             ~KnowsAll(KeyMap(GroupsIn(d)), Reverse(xs))
      PROVE  \E j \in DOMAIN xs : xs[j] \notin ColumnsIn(d)
    <2>1. /\ Reverse(xs) \in Seq(Columns) /\ Len(Reverse(xs)) = Len(xs)
          /\ \A n \in 1..Len(xs) : Reverse(xs)[n] = xs[Len(xs) - n + 1]
        BY ReverseList
    <2>2. PICK n \in 1..Len(xs) : Reverse(xs)[n] \notin ColumnsIn(d)
        BY <1>5, <2>1, KeyMapColumns DEF KnowsAll
    <2>3. Len(xs) - n + 1 \in DOMAIN xs /\ xs[Len(xs) - n + 1] \notin ColumnsIn(d)
        BY <2>1, <2>2
    <2> QED BY <2>3
<1>6. q.gKeys \in Seq(Columns) /\ q.oKeys \in Seq(Columns)
    BY <1>2 DEF IsQuery
<1>7. \/ DeclaredIn(log, name) = {}
      \/ \E d \in DeclaredIn(log, name) : ToSet(q.gKeys \o q.oKeys) \ ColumnsIn(d) # {}
    <2> SUFFICES ASSUME DeclaredIn(log, name) # {}
                 PROVE  \E d \in DeclaredIn(log, name) : ToSet(q.gKeys \o q.oKeys) \ ColumnsIn(d) # {}
        OBVIOUS
    <2>1. PICK d : /\ IsDeclaration(d) /\ Sound(d) /\ DeclaredIn(log, name) = {d}
                   /\ CanMap(name) <=> /\ KnowsAll(KeyMap(GroupsIn(d)), ctx.gKeys)
                                       /\ KnowsAll(KeyMap(GroupsIn(d)), ctx.oKeys)
        BY <1>2, CanMapTable
    <2> DEFINE gs == q.gKeys
               os == q.oKeys
               all == gs \o os
    <2> HIDE DEF q, name, gs, os, all
    <2>2. gs \in Seq(Columns) /\ os \in Seq(Columns)
        BY <1>6 DEF gs, os
    <2>3. /\ all \in Seq(Columns) /\ Len(all) = Len(gs) + Len(os) /\ Len(gs) \in Nat /\ Len(os) \in Nat
          /\ \A n \in 1..Len(gs) + Len(os) : all[n] = IF n <= Len(gs) THEN gs[n] ELSE os[n - Len(gs)]
        BY <2>2, ConcatProperties DEF all
    <2>4. ASSUME NEW n \in 1..Len(gs) + Len(os), all[n] \notin ColumnsIn(d)
          PROVE  ToSet(q.gKeys \o q.oKeys) \ ColumnsIn(d) # {}
        <3>1. n \in DOMAIN all
            BY <2>3, <2>4
        <3> QED BY <2>4, <3>1 DEF ToSet, all, gs, os
    <2>5. CASE ~KnowsAll(KeyMap(GroupsIn(d)), Reverse(gs))
        <3>1. PICK j \in DOMAIN gs : gs[j] \notin ColumnsIn(d)
            BY <1>5, <2>1, <2>2, <2>5
        <3>2. j \in 1..Len(gs) + Len(os) /\ all[j] = gs[j]
            BY <2>2, <2>3
        <3> QED BY <2>1, <2>4, <3>1, <3>2
    <2>6. CASE ~KnowsAll(KeyMap(GroupsIn(d)), Reverse(os))
        <3>1. PICK j \in DOMAIN os : os[j] \notin ColumnsIn(d)
            BY <1>5, <2>1, <2>2, <2>6
        <3>2. Len(gs) + j \in 1..Len(gs) + Len(os) /\ all[Len(gs) + j] = os[j]
            BY <2>2, <2>3
        <3> QED BY <2>1, <2>4, <3>1, <3>2
    <2> QED BY <1>1, <1>4, <2>1, <2>5, <2>6 DEF gs, os
<1>8. Asked' = q
    BY <1>1 DEF Asked
<1>9. FaultsExplained'
    <2>1. FaultIs(mode', line', log')
        BY <1>1, <1>3, <1>4, <1>7 DEF FaultIs, Asked
    <2> QED BY <2>1, FaultForm
<1>10. Shape' /\ TablesDeclared(tableMap', log') /\ TodoIs'
    BY <1>1 DEF IInv, Shape, TodoIs
<1>11. RunsAre'
    BY <1>1 DEF IInv, RunsAre, Asked
<1> QED BY <1>9, <1>10, <1>11 DEF IInv

\* A step that touches none of what the invariant is about, but pc.
LEMMA EndStep ==
    ASSUME IInv, pc' \in {"read", "exit"}, pc' = "read" => pc = "tables" /\ todo = <<>>,
           UNCHANGED <<mode, tableMap, line, log, count, ctx, todo, runs>>
    PROVE  IInv'
<1>1. Shape' /\ TablesDeclared(tableMap', log') /\ TodoIs' /\ FaultsExplained'
    BY DEF IInv, Shape, TodoIs, FaultsExplained
<1>2. RunsAre'
    <2> SUFFICES ASSUME runs # <<>>
                 PROVE  RunsAre'
        BY DEF RunsAre
    <2>1. /\ line \in Lines /\ Asked # NoQuery /\ Len(runs) <= Len(Asked.tables)
          /\ \A i \in DOMAIN runs : \E d \in DeclaredIn(log, runs[i].table) : RunIs(runs[i], i, Asked, d)
        BY DEF IInv, RunsAre
    <2>2. pc' = "read" => Len(runs) = Len(Asked.tables)
        BY Rest
    <2>3. Asked' = Asked
        BY DEF Asked
    <2> QED BY <2>1, <2>2, <2>3 DEF RunsAre
<1> QED BY <1>1, <1>2 DEF IInv

\* Every action keeps the invariant.
LEMMA NextInv == IInv /\ [Next]_vars => IInv'
<1> SUFFICES ASSUME IInv, [Next]_vars
             PROVE  IInv'
    OBVIOUS
<1>1. Shape /\ TablesDeclared(tableMap, log) /\ RunsAre /\ TodoIs /\ FaultsExplained
    BY DEF IInv
<1>2. ASSUME NEW l \in Lines, Reenter(l)
      PROVE  IInv'
    <2>1. /\ ParseCommand(l) = NULL /\ Read(l) /\ log' = Append(log, l) /\ pc = "read"
          /\ UNCHANGED <<mode, pc, tableMap, ctx, todo>>
        BY <1>2 DEF Reenter
    <2>2. line' = l /\ line' \in Lines /\ runs' = <<>> /\ IsList(runs') /\ RunsAre'
        BY <2>1, AfterRead
    <2>3. TablesDeclared(tableMap', log')
        <3>1. TablesAfter(ParseCommand(l), tableMap) = tableMap
            BY <2>1 DEF TablesAfter
        <3>2. TablesDeclared(TablesAfter(ParseCommand(l), tableMap), Append(log, l))
            BY <1>1, ScanKeepsTables DEF Shape
        <3> QED BY <2>1, <3>1, <3>2
    <2>4. Shape' /\ TodoIs' /\ FaultsExplained'
        BY <1>1, <2>1, <2>2 DEF Shape, TodoIs, FaultsExplained
    <2> QED BY <2>2, <2>3, <2>4 DEF IInv
<1>3. ASSUME NEW l \in Lines, Scan(l)
      PROVE  IInv'
    <2> DEFINE c == ParseCommand(l)
    <2>1. /\ c # NULL /\ Read(l) /\ log' = Append(log, l) /\ ScanTable(c, tableMap, "read")
          /\ UNCHANGED <<mode, ctx, todo>>
        BY <1>3 DEF Scan
    <2>2. mode' \in Modes /\ log \in Seq(Lines)
        BY <1>1, <2>1 DEF Shape
    <2> QED BY <1>1, <2>1, <2>2, ScanStep
<1>4. ASSUME NEW l \in Lines, Exec(l)
      PROVE  IInv'
    <2> DEFINE c == ParseCommand(l)
    <2>1. /\ c # NULL /\ c.mode = "EXEC" /\ Read(l) /\ StartQuery(c.query)
          /\ UNCHANGED <<mode, tableMap, log>>
        BY <1>4 DEF Exec
    <2>2. c.query = l.query
        <3>1. c = [mode |-> "EXEC", query |-> l.query, keys |-> <<>>, pattern |-> NoText] \/ c.mode = "SCAN"
            BY <2>1 DEF ParseCommand, ParseScan, CommandContext
        <3> HIDE DEF c
        <3> QED BY <2>1, <3>1
    <2> HIDE DEF c
    <2> QED BY <2>1, <2>2, QueryStep
<1>5. ASSUME NEW l \in Lines, NativeScan(l)
      PROVE  IInv'
    <2> DEFINE c == ParseCommand(l)
    <2>1. /\ mode = "native" /\ pc = "read" /\ Read(l) /\ log' = <<l>>
          /\ IF c = NULL THEN pc' = "fault" /\ tableMap' = <<>> ELSE ScanTable(c, <<>>, "query")
          /\ UNCHANGED <<mode, ctx, todo>>
        BY <1>5 DEF NativeScan
    <2>2. log' = Append(<<>>, l) /\ <<>> \in Seq(Lines)
        BY <2>1
    <2>3. TablesDeclared(<<>>, <<>>)
        <3>1. DOMAIN <<>> = {}
            OBVIOUS
        <3> QED BY <3>1, NoLines DEF TablesDeclared
    <2>4. CASE c # NULL
        <3>1. mode' \in Modes
            BY <2>1 DEF Modes
        <3> HIDE DEF c
        <3>2. ScanTable(c, <<>>, "query")
            BY <2>1, <2>4
        <3> QED BY <2>1, <2>2, <2>3, <2>4, <3>1, <3>2, ScanStep DEF c
    <2>5. CASE c = NULL
        <3>1. line' = l /\ line' \in Lines /\ runs' = <<>> /\ IsList(runs') /\ RunsAre'
            BY <2>1, AfterRead
        <3>2. TablesDeclared(tableMap', log')
            <4>1. TablesAfter(c, <<>>) = <<>>
                BY <2>5 DEF TablesAfter
            <4>2. TablesDeclared(TablesAfter(c, <<>>), Append(<<>>, l))
                BY <2>2, <2>3, ScanKeepsTables
            <4> QED BY <2>1, <2>2, <2>5, <4>1, <4>2
        <3>3. FaultsExplained'
            <4>1. Declared(l) = {}
                BY <2>5, CommandMeans DEF CommandIs
            <4> QED BY <2>1, <3>1, <4>1 DEF FaultsExplained
        <3>4. Shape' /\ TodoIs'
            <4>1. log' \in Seq(Lines) /\ pc' = "fault" /\ mode' \in Modes
                BY <2>1, <2>2, <2>5 DEF Modes
            <4> QED BY <3>1, <4>1 DEF Shape, TodoIs
        <3> QED BY <3>1, <3>2, <3>3, <3>4 DEF IInv
    <2> QED BY <2>4, <2>5
<1>6. ASSUME NEW l \in Lines, NativeQuery(l)
      PROVE  IInv'
    BY <1>6, QueryStep DEF NativeQuery
<1>7. CASE RunTable
    BY <1>7, RunStep
<1>8. CASE NoTable
    BY <1>8, NoTableStep
<1>9. CASE EndQuery
    BY <1>9, EndStep DEF EndQuery
<1>10. CASE Quit
    BY <1>10, EndStep DEF Quit
<1>11. CASE UNCHANGED vars
    <2>1. UNCHANGED <<mode, pc, tableMap, line, log, count, ctx, todo, runs>>
        BY <1>11 DEF vars
    <2>2. Shape' /\ TablesDeclared(tableMap', log')
        BY <1>1, <2>1 DEF Shape
    <2>3. RunsAre'
        BY <1>1, <2>1 DEF RunsAre, Asked
    <2>4. TodoIs'
        BY <1>1, <2>1 DEF TodoIs, Asked, FromReversed
    <2>5. FaultsExplained'
        <3>1. pc = "fault" => FaultIs(mode, line, log)
            BY <1>1, FaultForm
        <3>2. pc' = "fault" => FaultIs(mode', line', log')
            BY <2>1, <3>1
        <3> QED BY <3>2, FaultForm
    <2> QED BY <2>2, <2>3, <2>4, <2>5 DEF IInv
<1> QED BY <1>2, <1>3, <1>4, <1>5, <1>6, <1>7, <1>8, <1>9, <1>10, <1>11 DEF Next, Tables

\* The inductive invariant holds.
LEMMA Invariance == Spec => []IInv
BY InitInv, NextInv, PTL DEF Spec

-----------------------------------------------------------------------------
(* What Command promises. *)

\* A list that another one starts with.
LEMMA PrefixOf ==
    ASSUME NEW S, NEW s, NEW t \in Seq(S), IsList(s), Len(s) <= Len(t),
           \A i \in 1..Len(s) : s[i] = t[i]
    PROVE  IsPrefix(s, t)
<1> DEFINE a == SubSeq(s, 1, Len(s))
           b == SubSeq(t, 1, Len(s))
<1>1. Len(s) \in Nat /\ \A i \in 1..Len(s) : t[i] \in S /\ s[i] \in S
    BY ElementOfSeq DEF IsList
<1>2. /\ a \in Seq(S) /\ Len(a) = IF 1 <= Len(s) THEN Len(s) - 1 + 1 ELSE 0
      /\ \A i \in 1..Len(s) - 1 + 1 : a[i] = s[1 + i - 1]
    BY <1>1, SubSeqProperties
<1>3. /\ b \in Seq(S) /\ Len(b) = IF 1 <= Len(s) THEN Len(s) - 1 + 1 ELSE 0
      /\ \A i \in 1..Len(s) - 1 + 1 : b[i] = t[1 + i - 1]
    BY <1>1, SubSeqProperties
<1> HIDE DEF a, b
<1>4. Len(a) = Len(s) /\ Len(b) = Len(s)
    BY <1>1, <1>2, <1>3
<1>5. \A i \in 1..Len(a) : a[i] = b[i]
    <2> TAKE i \in 1..Len(a)
    <2>1. i \in 1..Len(s) /\ i \in 1..Len(s) - 1 + 1 /\ 1 + i - 1 = i
        BY <1>1, <1>4
    <2> QED BY <1>2, <1>3, <2>1
<1>6. a = b
    BY <1>2, <1>3, <1>4, <1>5, SeqEqual
<1> QED BY <1>6 DEF IsPrefix, a, b

\* Every table of the FROM list is run once, from the last to the first, on
\* the file and with the patterns of the first declaration of its name
\* (execCommand, buildIdents, map::insert).
THEOREM RunsAreExact == Spec => []RunsExact
<1>1. IInv => RunsExact
    <2> SUFFICES ASSUME IInv, runs # <<>>
                 PROVE  /\ IsPrefix([i \in DOMAIN runs |-> runs[i].table], FromReversed)
                        /\ pc = "read" => Len(runs) = Len(FromReversed)
                        /\ \A i \in DOMAIN runs : \E d \in DeclaredAs(runs[i].table) :
                              /\ runs[i].filename = d.filename
                              /\ runs[i].patterns = d.patterns
                              /\ runs[i].isKeys = d.isKeys
        BY DEF RunsExact
    <2>1. /\ line \in Lines /\ Asked # NoQuery /\ Len(runs) <= Len(Asked.tables)
          /\ pc = "read" => Len(runs) = Len(Asked.tables)
          /\ \A i \in DOMAIN runs : \E d \in DeclaredIn(log, runs[i].table) : RunIs(runs[i], i, Asked, d)
        BY DEF IInv, RunsAre
    <2>2. Asked.tables \in Seq(Names)
        BY <2>1, CommandAssumption DEF Asked, IsQuery
    <2>3. FromReversed \in Seq(Names) /\ Len(FromReversed) = Len(Asked.tables)
        BY <2>2, ReverseList DEF FromReversed
    <2>4. DOMAIN runs = 1..Len(runs) /\ Len(runs) \in Nat
        BY DEF IInv, Shape, IsList
    <2> DEFINE names == [i \in DOMAIN runs |-> runs[i].table]
    <2>5. IsList(names) /\ Len(names) = Len(runs)
        <3>1. names = [i \in 1..Len(runs) |-> names[i]]
            BY <2>4
        <3> HIDE DEF names
        <3> QED BY <2>4, <3>1, ListOfFunction
    <2>6. \A i \in 1..Len(runs) : names[i] = FromReversed[i]
        BY <2>1, <2>4 DEF RunIs, FromReversed
    <2> HIDE DEF names
    <2>7. IsPrefix(names, FromReversed)
        BY <2>1, <2>3, <2>5, <2>6, PrefixOf
    <2>8. \A i \in DOMAIN runs : \E d \in DeclaredAs(runs[i].table) :
              /\ runs[i].filename = d.filename
              /\ runs[i].patterns = d.patterns
              /\ runs[i].isKeys = d.isKeys
        BY <2>1, DeclaredInLog DEF RunIs, FileOf
    <2> QED BY <2>1, <2>3, <2>7, <2>8 DEF names
<1> QED BY <1>1, Invariance, PTL

\* A tree whose columns the table has is mapped to the groups they name,
\* whatever the tables before it were; so are the columns of GROUP BY and
\* ORDER BY for the first table that is run (mapping, mapOpTree, KeyMap).
THEOREM ColumnsAreExact == Spec => []ColumnsExact
<1>1. IInv => ColumnsExact
    <2> SUFFICES ASSUME IInv, NEW i \in DOMAIN runs
                 PROVE  \E d \in DeclaredAs(runs[i].table) :
                            /\ TreesOf(runs[i], d, Asked)
                            /\ i = 1 => /\ KeysOf(runs[i].gKeyVec, d, Reverse(Asked.gKeys))
                                        /\ KeysOf(runs[i].oKeyVec, d, Reverse(Asked.oKeys))
        BY DEF ColumnsExact, TreesOf, KeysOf
    <2>1. DOMAIN runs = 1..Len(runs) /\ Len(runs) \in Nat
        BY DEF IInv, Shape, IsList
    <2>2. runs # <<>>
        BY <2>1
    <2> QED BY <2>2, DeclaredInLog DEF IInv, RunsAre, RunIs
<1> QED BY <1>1, Invariance, PTL

\* The type of a tree that is mapped is decided by all its columns: a number
\* only of numbers, DOUBLE when one of them is (addTypeOp).
THEOREM TreeTypesAreExact == Spec => []TreeTypesExact
<1>1. IInv => TreeTypesExact
    <2> SUFFICES ASSUME IInv, NEW i \in DOMAIN runs
                 PROVE  \E d \in DeclaredAs(runs[i].table) : TypesOf(runs[i], d, Asked)
        BY DEF TreeTypesExact, TypesOf
    <2>1. DOMAIN runs = 1..Len(runs) /\ Len(runs) \in Nat
        BY DEF IInv, Shape, IsList
    <2>2. runs # <<>>
        BY <2>1
    <2> QED BY <2>2, DeclaredInLog DEF IInv, RunsAre, RunIs
<1> QED BY <1>1, Invariance, PTL

\* The program is brought down by keys of which one does not parse, by a query
\* of a table nobody declared or without a column it groups or orders by, and
\* by a command from Spark that declares nothing; by nothing else.
THEOREM FaultsAreExplained == Spec => []FaultsExplained
<1>1. IInv => FaultsExplained
    BY DEF IInv
<1> QED BY <1>1, Invariance, PTL
=============================================================================
