-------------------------- MODULE QueryExecProofs --------------------------
(***************************************************************************)
(* The executor's query part computes what SqlQuery promises, for every    *)
(* table, every query and every number of rows: the proofs.                *)
(***************************************************************************)
EXTENDS QueryExec, SetInduction, FiniteSetTheorems

----------------------------------------------------------------------------
\* Lists.

\* What holds for the empty list, and for a list with one element more when
\* it holds for the list, holds for every list.
LEMMA ListInduction ==
    ASSUME NEW T, NEW Good, <<>> \in Good,
           \A s \in Seq(T), x \in T : s \in Good => Append(s, x) \in Good
    PROVE  Seq(T) \subseteq Good
<1> DEFINE S == {n \in Nat : \A s \in Seq(T) : Len(s) = n => s \in Good}
<1>1. 0 \in S
    BY EmptySeq
<1>2. ASSUME NEW n \in Nat, n \in S
      PROVE  n + 1 \in S
    <2> SUFFICES ASSUME NEW s \in Seq(T), Len(s) = n + 1
                 PROVE  s \in Good
        OBVIOUS
    <2>1. s # <<>>
        OBVIOUS
    <2>2. PICK t \in Seq(T), x \in T : s = Append(t, x)
        BY <2>1, SequenceEmptyOrAppend
    <2>3. Len(t) = n
        BY <2>2, AppendProperties
    <2> QED BY <1>2, <2>2, <2>3
<1>3. \A n \in Nat : n \in S
    <2> HIDE DEF S
    <2> QED BY <1>1, <1>2, Induction
<1> QED BY <1>3, LenProperties

\* f has what Among has found after 0, 1, 2, .. elements of the list.
Parts(f, list, S) ==
    /\ f[0] = <<>>
    /\ \A i \in 1..Len(list) :
        f[i] = IF list[i] \in S THEN Append(f[i - 1], list[i]) ELSE f[i - 1]

\* Among goes through its list from the first element to the last.
LEMMA AmongIsPart ==
    ASSUME NEW T, NEW list \in Seq(T), NEW S
    PROVE  \E f \in [0..Len(list) -> Seq(T)] : Parts(f, list, S) /\ Among(list, S) = f[Len(list)]
<1> DEFINE N == Len(list)
           Filters(g) == g = [i \in 0..N |->
                              IF i = 0 THEN <<>>
                              ELSE IF list[i] \in S THEN Append(g[i - 1], list[i]) ELSE g[i - 1]]
           Step == [i \in 1..N |-> [s \in Seq(T) |->
                              IF list[i] \in S THEN Append(s, list[i]) ELSE s]]
           f == CHOOSE g : Filters(g)
<1>1. N \in Nat /\ \A i \in 1..N : list[i] \in T
    OBVIOUS
<1>2. Step \in [1..N -> [Seq(T) -> Seq(T)]]
    BY <1>1
<1>3. PICK g \in [0..N -> Seq(T)] : Iterates(g, N, <<>>, Step)
    <2>1. <<>> \in Seq(T)
        OBVIOUS
    <2> HIDE DEF Step, N
    <2> QED BY <1>1, <1>2, <2>1, Recursion
<1>4. ASSUME NEW i \in 1..N
      PROVE  g[i] = IF list[i] \in S THEN Append(g[i - 1], list[i]) ELSE g[i - 1]
    <2>1. i - 1 \in 0..N
        BY <1>1
    <2>2. g[i - 1] \in Seq(T) /\ g[i] = Step[i][g[i - 1]]
        BY <1>3, <2>1 DEF Iterates
    <2> QED BY <2>2
<1>5. Filters(g)
    <2> HIDE DEF N, Step
    <2>1. g = [i \in 0..N |-> g[i]]
        BY <1>3
    <2>2. \A i \in 0..N : i # 0 => i \in 1..N
        BY <1>1
    <2> QED BY <1>3, <1>4, <2>1, <2>2 DEF Iterates
<1>6. Filters(f)
    BY <1>5, Zenon
<1>7. Among(list, S) = f[N]
    BY Zenon DEF Among
<1> HIDE DEF f, Step
<1>8. Parts(f, list, S)
    <2>1. f[0] = <<>>
        BY <1>1, <1>6
    <2>2. ASSUME NEW i \in 1..N
          PROVE  f[i] = IF list[i] \in S THEN Append(f[i - 1], list[i]) ELSE f[i - 1]
        <3> HIDE DEF N
        <3>1. i \in 0..N /\ i # 0
            BY <1>1
        <3> QED BY <1>6, <3>1
    <2> QED BY <2>1, <2>2 DEF Parts
<1>9. f \in [0..N -> Seq(T)]
    <2> DEFINE U == {n \in Nat : n <= N => f[n] \in Seq(T)}
    <2>1. 0 \in U
        <3>1. f[0] = <<>> /\ <<>> \in Seq(T)
            BY <1>8, EmptySeq DEF Parts
        <3> QED BY <3>1
    <2>2. ASSUME NEW n \in Nat, n \in U
          PROVE  n + 1 \in U
        <3> SUFFICES ASSUME n + 1 <= N
                     PROVE  f[n + 1] \in Seq(T)
            OBVIOUS
        <3>1. n + 1 \in 1..N /\ (n + 1) - 1 = n /\ f[n] \in Seq(T) /\ list[n + 1] \in T
            BY <1>1, <2>2
        <3>2. f[n + 1] = IF list[n + 1] \in S THEN Append(f[n], list[n + 1]) ELSE f[n]
            BY <1>8, <3>1 DEF Parts
        <3> QED BY <3>1, <3>2, AppendProperties
    <2>3. \A n \in Nat : n \in U
        <3> HIDE DEF U
        <3> QED BY <2>1, <2>2, Induction
    <2>4. \A n \in 0..N : f[n] \in Seq(T)
        BY <1>1, <2>3
    <2>5. f = [i \in 0..N |-> f[i]]
        <3> HIDE DEF N
        <3> QED BY <1>6
    <2> QED BY <2>4, <2>5
<1> QED BY <1>7, <1>8, <1>9

\* Two records of how far Among has come agree as far as both go.
LEMMA PartsAgree ==
    ASSUME NEW T, NEW list \in Seq(T), NEW x \in T, NEW S, NEW f, NEW h,
           Parts(f, list, S), Parts(h, Append(list, x), S)
    PROVE  f[Len(list)] = h[Len(list)]
<1> DEFINE U == {n \in Nat : n <= Len(list) => f[n] = h[n]}
<1>1. 0 \in U
    BY DEF Parts
<1>2. ASSUME NEW n \in Nat, n \in U
      PROVE  n + 1 \in U
    <2> SUFFICES ASSUME n + 1 <= Len(list)
                 PROVE  f[n + 1] = h[n + 1]
        OBVIOUS
    <2>1. n + 1 \in 1..Len(list) /\ n + 1 \in 1..Len(Append(list, x)) /\ (n + 1) - 1 = n
        BY AppendProperties
    <2>2. Append(list, x)[n + 1] = list[n + 1]
        BY <2>1, AppendProperties
    <2> QED BY <1>2, <2>1, <2>2 DEF Parts
<1>3. \A n \in Nat : n \in U
    <2> HIDE DEF U
    <2> QED BY <1>1, <1>2, Induction
<1> QED BY <1>3, LenProperties

\* Nothing is among the elements of an empty list.
LEMMA AmongEmpty ==
    ASSUME NEW S
    PROVE  Among(<<>>, S) = <<>>
<1>1. <<>> \in Seq({}) /\ Len(<<>>) = 0
    OBVIOUS
<1>2. PICK f \in [0..Len(<<>>) -> Seq({})] : Parts(f, <<>>, S) /\ Among(<<>>, S) = f[Len(<<>>)]
    BY <1>1, AmongIsPart
<1> QED BY <1>1, <1>2 DEF Parts

\* One element more.
LEMMA AmongAppend ==
    ASSUME NEW T, NEW list \in Seq(T), NEW x \in T, NEW S
    PROVE  /\ Among(list, S) \in Seq(T)
           /\ Among(Append(list, x), S) =
                IF x \in S THEN Append(Among(list, S), x) ELSE Among(list, S)
<1>1. PICK f \in [0..Len(list) -> Seq(T)] :
            Parts(f, list, S) /\ Among(list, S) = f[Len(list)]
    BY AmongIsPart
<1> DEFINE l == Append(list, x)
           N == Len(list)
<1>2. l \in Seq(T) /\ Len(l) = N + 1 /\ l[N + 1] = x /\ N \in Nat
    BY AppendProperties
<1>3. PICK h \in [0..Len(l) -> Seq(T)] : Parts(h, l, S) /\ Among(l, S) = h[Len(l)]
    <2> HIDE DEF l
    <2> QED BY <1>2, AmongIsPart
<1>4. f[N] = h[N]
    BY <1>1, <1>3, PartsAgree
<1>5. h[N + 1] = IF x \in S THEN Append(h[N], x) ELSE h[N]
    <2> HIDE DEF l, N
    <2>1. N + 1 \in 1..Len(l) /\ (N + 1) - 1 = N
        BY <1>2
    <2> QED BY <1>2, <1>3, <2>1 DEF Parts
<1>6. Among(list, S) \in Seq(T)
    BY <1>1, <1>2
<1> QED BY <1>1, <1>2, <1>3, <1>4, <1>5, <1>6

\* Among finds a list.
LEMMA AmongTyped ==
    ASSUME NEW T, NEW list \in Seq(T), NEW S
    PROVE  Among(list, S) \in Seq(T)
<1>1. PICK f \in [0..Len(list) -> Seq(T)] :
            Parts(f, list, S) /\ Among(list, S) = f[Len(list)]
    BY AmongIsPart
<1> QED BY <1>1, LenProperties

\* What is in a list with one element more.
LEMMA RangeAppend ==
    ASSUME NEW T, NEW list \in Seq(T), NEW x \in T
    PROVE  Range(Append(list, x)) = Range(list) \cup {x}
<1> DEFINE l == Append(list, x)
           N == Len(list)
<1>1. /\ l \in Seq(T) /\ Len(l) = N + 1 /\ l[N + 1] = x /\ N \in Nat
      /\ \A i \in 1..N : l[i] = list[i]
    BY AppendProperties
<1>2. DOMAIN l = 1..N + 1 /\ DOMAIN list = 1..N
    BY <1>1
<1> HIDE DEF l, N
<1>3. \A i \in 1..N + 1 : i \in 1..N \/ i = N + 1
    BY <1>1
<1>4. N + 1 \in 1..N + 1 /\ \A i \in 1..N : i \in 1..N + 1
    BY <1>1
<1> QED BY <1>1, <1>2, <1>3, <1>4 DEF Range, l

\* Exactly the elements of the list that are in S are among them, and there
\* are not more of them than the list has.
LEMMA AmongRange ==
    ASSUME NEW T, NEW list \in Seq(T), NEW S
    PROVE  /\ Among(list, S) \in Seq(T)
           /\ Range(Among(list, S)) = Range(list) \cap S
           /\ Len(Among(list, S)) <= Len(list)
<1> DEFINE Good == {l \in Seq(T) : /\ Range(Among(l, S)) = Range(l) \cap S
                                   /\ Len(Among(l, S)) <= Len(l)}
<1>1. <<>> \in Good
    <2>1. <<>> \in Seq(T) /\ Range(<<>>) = {} /\ Len(<<>>) = 0
        BY EmptySeq DEF Range
    <2> QED BY <2>1, AmongEmpty
<1>2. ASSUME NEW l \in Seq(T), NEW x \in T, l \in Good
      PROVE  Append(l, x) \in Good
    <2> DEFINE a == Among(l, S)
               b == Among(Append(l, x), S)
    <2>1. a \in Seq(T) /\ b = IF x \in S THEN Append(a, x) ELSE a
        BY AmongAppend
    <2>2. Range(a) = Range(l) \cap S /\ Len(a) <= Len(l)
        BY <1>2
    <2>3. /\ Append(l, x) \in Seq(T) /\ Len(Append(l, x)) = Len(l) + 1
          /\ Range(Append(l, x)) = Range(l) \cup {x}
        BY AppendProperties, RangeAppend
    <2>4. Len(a) \in Nat /\ Len(l) \in Nat
        BY <2>1
    <2> HIDE DEF a
    <2>5. CASE x \in S
        <3>1. Len(b) = Len(a) + 1 /\ Range(b) = Range(a) \cup {x}
            BY <2>1, <2>5, AppendProperties, RangeAppend
        <3> QED BY <2>2, <2>3, <2>4, <2>5, <3>1
    <2>6. CASE x \notin S
        BY <2>1, <2>2, <2>3, <2>4, <2>6
    <2> QED BY <2>5, <2>6
<1>3. Seq(T) \subseteq Good
    <2> HIDE DEF Good
    <2> QED BY <1>1, <1>2, ListInduction
<1> QED BY <1>3, AmongTyped

\* A list in which there is nothing is empty.
LEMMA RangeEmpty ==
    ASSUME NEW T, NEW list \in Seq(T)
    PROVE  Range(list) = {} <=> list = <<>>
<1>1. CASE list = <<>>
    BY <1>1 DEF Range
<1>2. CASE list # <<>>
    <2>1. 1 \in DOMAIN list
        BY <1>2
    <2> QED BY <1>2, <2>1 DEF Range
<1> QED BY <1>1, <1>2

----------------------------------------------------------------------------
\* Rows and their groups.

\* The values of a column.
Values(k, rs) == {rs[i][k] : i \in DOMAIN rs}

\* The values of a column with one row more.
LEMMA ValuesAppend ==
    ASSUME NEW rs \in Seq(Rows), NEW r \in Rows, NEW k
    PROVE  Values(k, Append(rs, r)) = Values(k, rs) \cup {r[k]}
<1>1. \A l : Values(k, l) = {x[k] : x \in Range(l)}
    BY DEF Values, Range
<1>2. Range(Append(rs, r)) = Range(rs) \cup {r}
    BY RangeAppend
<1> QED BY <1>1, <1>2

\* The groups with one row more.
LEMMA GroupKeysAppend ==
    ASSUME NEW q, NEW rs \in Seq(Rows), NEW r \in Rows
    PROVE  GroupKeys(q, Append(rs, r)) = GroupKeys(q, rs) \cup {r[q.keys[1]]}
<1>1. \A l : GroupKeys(q, l) = Values(q.keys[1], l)
    BY DEF GroupKeys, Values
<1> QED BY <1>1, ValuesAppend

\* The rows of a group with one row more.
LEMMA GroupOfAppend ==
    ASSUME NEW q, NEW rs \in Seq(Rows), NEW r \in Rows, NEW g
    PROVE  /\ GroupOf(q, rs, g) \in Seq(Rows)
           /\ GroupOf(q, Append(rs, r), g) =
                IF r[q.keys[1]] = g THEN Append(GroupOf(q, rs, g), r) ELSE GroupOf(q, rs, g)
<1> DEFINE S == {x \in Rows : x[q.keys[1]] = g}
<1>1. \A l : GroupOf(q, l, g) = Among(l, S)
    BY DEF GroupOf
<1>2. r \in S <=> r[q.keys[1]] = g
    OBVIOUS
<1> HIDE DEF S
<1> QED BY <1>1, <1>2, AmongAppend

\* A group has a row exactly if its key is one of the rows', and all its rows
\* have its key.
LEMMA GroupOfKeys ==
    ASSUME NEW q, NEW rs \in Seq(Rows), NEW g
    PROVE  /\ g \in GroupKeys(q, rs) <=> GroupOf(q, rs, g) # <<>>
           /\ GroupOf(q, rs, g) # <<>> => GroupOf(q, rs, g)[1][q.keys[1]] = g
           /\ GroupOf(q, rs, g) \in Seq(Rows)
<1> DEFINE S == {x \in Rows : x[q.keys[1]] = g}
           l == Among(rs, S)
<1>1. GroupOf(q, rs, g) = l
    BY DEF GroupOf
<1>2. l \in Seq(Rows) /\ Range(l) = Range(rs) \cap S
    <2> HIDE DEF S
    <2> QED BY AmongRange
<1>3. Range(rs) \subseteq Rows
    BY DEF Range
<1>4. g \in GroupKeys(q, rs) <=> \E x \in Range(rs) : x[q.keys[1]] = g
    BY DEF GroupKeys, Range
<1>5. Range(l) = {} <=> l = <<>>
    <2> HIDE DEF l
    <2> QED BY <1>2, RangeEmpty
<1>6. ASSUME l # <<>>
      PROVE  l[1] \in S
    <2> HIDE DEF S, l
    <2>1. 1 \in DOMAIN l
        BY <1>2, <1>6
    <2> QED BY <1>2, <2>1 DEF Range
<1> HIDE DEF l
<1>7. g \in GroupKeys(q, rs) <=> Range(l) # {}
    BY <1>2, <1>3, <1>4
<1> QED BY <1>1, <1>2, <1>5, <1>6, <1>7

\* The sum of a column with one row more.
LEMMA TotalAppend ==
    ASSUME NEW k \in Keys, KeyType[k] # "TEXT"
    PROVE  /\ Total(k, <<>>) = 0
           /\ \A rs \in Seq(Rows), r \in Rows :
                /\ Total(k, rs) \in Int
                /\ Total(k, Append(rs, r)) = Total(k, rs) + r[k]
<1> DEFINE Sums(f, rs) == /\ f[0] = 0
                          /\ \A i \in 1..Len(rs) : f[i] = f[i - 1] + rs[i][k]
<1>1. \A r \in Rows : r[k] \in Int
    BY QueryAssumption DEF QueryAssumption
<1>2. ASSUME NEW rs \in Seq(Rows)
      PROVE  \E f \in [0..Len(rs) -> Int] : Sums(f, rs) /\ Total(k, rs) = f[Len(rs)]
    <2> DEFINE N == Len(rs)
               Adds(g) == g = [i \in 0..N |-> IF i = 0 THEN 0 ELSE g[i - 1] + rs[i][k]]
               Step == [i \in 1..N |-> [n \in Int |-> n + rs[i][k]]]
               f == CHOOSE g : Adds(g)
    <2>1. N \in Nat /\ \A i \in 1..N : rs[i][k] \in Int
        BY <1>1
    <2>2. Step \in [1..N -> [Int -> Int]]
        BY <2>1
    <2>3. PICK g \in [0..N -> Int] : Iterates(g, N, 0, Step)
        <3>1. 0 \in Int
            OBVIOUS
        <3> HIDE DEF Step, N
        <3> QED BY <2>1, <2>2, <3>1, Recursion
    <2>4. ASSUME NEW i \in 1..N
          PROVE  g[i] = g[i - 1] + rs[i][k]
        <3>1. i - 1 \in 0..N
            BY <2>1
        <3>2. g[i - 1] \in Int /\ g[i] = Step[i][g[i - 1]]
            BY <2>3, <3>1 DEF Iterates
        <3> QED BY <3>2
    <2>5. Adds(g)
        <3> HIDE DEF N, Step
        <3>1. g = [i \in 0..N |-> g[i]]
            BY <2>3
        <3>2. \A i \in 0..N : i # 0 => i \in 1..N
            BY <2>1
        <3> QED BY <2>3, <2>4, <3>1, <3>2 DEF Iterates
    <2>6. Adds(f)
        BY <2>5, Zenon
    <2>7. Total(k, rs) = f[N]
        BY Zenon DEF Total
    <2> HIDE DEF f, Step
    <2>8. f[0] = 0
        BY <2>1, <2>6
    <2>9. ASSUME NEW i \in 1..N
          PROVE  f[i] = f[i - 1] + rs[i][k]
        <3> HIDE DEF N
        <3>1. i \in 0..N /\ i # 0
            BY <2>1
        <3> QED BY <2>6, <3>1
    <2>10. f \in [0..N -> Int]
        <3> DEFINE U == {n \in Nat : n <= N => f[n] \in Int}
        <3>1. 0 \in U
            BY <2>8
        <3>2. ASSUME NEW n \in Nat, n \in U
              PROVE  n + 1 \in U
            <4> SUFFICES ASSUME n + 1 <= N
                         PROVE  f[n + 1] \in Int
                OBVIOUS
            <4>1. n + 1 \in 1..N /\ (n + 1) - 1 = n /\ f[n] \in Int
                BY <2>1, <3>2
            <4> QED BY <2>1, <2>9, <4>1
        <3>3. \A n \in Nat : n \in U
            <4> HIDE DEF U
            <4> QED BY <3>1, <3>2, Induction
        <3>4. \A n \in 0..N : f[n] \in Int
            BY <2>1, <3>3
        <3>5. f = [i \in 0..N |-> f[i]]
            <4> HIDE DEF N
            <4> QED BY <2>6
        <3> QED BY <3>4, <3>5
    <2> QED BY <2>7, <2>8, <2>9, <2>10
<1>3. Total(k, <<>>) = 0
    <2>1. <<>> \in Seq(Rows) /\ Len(<<>>) = 0
        OBVIOUS
    <2> QED BY <1>2, <2>1
<1>4. ASSUME NEW rs \in Seq(Rows), NEW r \in Rows
      PROVE  /\ Total(k, rs) \in Int
             /\ Total(k, Append(rs, r)) = Total(k, rs) + r[k]
    <2> DEFINE l == Append(rs, r)
               N == Len(rs)
    <2>1. /\ l \in Seq(Rows) /\ Len(l) = N + 1 /\ l[N + 1] = r /\ N \in Nat
          /\ \A i \in 1..N : l[i] = rs[i]
        BY AppendProperties
    <2>2. PICK f \in [0..N -> Int] : Sums(f, rs) /\ Total(k, rs) = f[N]
        BY <1>2
    <2>3. PICK h \in [0..Len(l) -> Int] : Sums(h, l) /\ Total(k, l) = h[Len(l)]
        <3> HIDE DEF l, Sums
        <3> QED BY <1>2, <2>1
    <2> DEFINE U == {n \in Nat : n <= N => f[n] = h[n]}
    <2>4. 0 \in U
        BY <2>2, <2>3
    <2>5. ASSUME NEW n \in Nat, n \in U
          PROVE  n + 1 \in U
        <3> SUFFICES ASSUME n + 1 <= N
                     PROVE  f[n + 1] = h[n + 1]
            OBVIOUS
        <3> HIDE DEF l, N
        <3>1. n + 1 \in 1..N /\ n + 1 \in 1..Len(l) /\ (n + 1) - 1 = n
            BY <2>1
        <3>2. f[n + 1] = f[n] + rs[n + 1][k]
            BY <2>2, <3>1 DEF N
        <3>3. h[n + 1] = h[n] + l[n + 1][k]
            BY <2>3, <3>1
        <3> QED BY <2>1, <2>5, <3>1, <3>2, <3>3
    <2>6. \A n \in Nat : n \in U
        <3> HIDE DEF U
        <3> QED BY <2>4, <2>5, Induction
    <2>7. f[N] = h[N]
        BY <2>1, <2>6
    <2>8. h[N + 1] = h[N] + r[k]
        <3> HIDE DEF l, N
        <3>1. N + 1 \in 1..Len(l) /\ (N + 1) - 1 = N
            BY <2>1
        <3> QED BY <2>1, <2>3, <3>1
    <2> QED BY <2>1, <2>2, <2>3, <2>7, <2>8
<1> QED BY <1>3, <1>4

\* The greatest, the least of a set of numbers.
IsGreatest(m, S) == m \in S /\ \A y \in S : y <= m
IsLeast(m, S)    == m \in S /\ \A y \in S : m <= y

\* Max and Min find them.
LEMMA Extremes ==
    ASSUME NEW S, S \subseteq Int, NEW m
    PROVE  /\ IsGreatest(m, S) => Max(S) = m
           /\ IsLeast(m, S) => Min(S) = m
<1>1. ASSUME IsGreatest(m, S)
      PROVE  Max(S) = m
    <2>1. m \in S /\ \A y \in S : m >= y
        BY <1>1 DEF IsGreatest
    <2>2. Max(S) \in S /\ \A y \in S : Max(S) >= y
        BY <2>1 DEF Max
    <2>3. Max(S) >= m /\ m >= Max(S) /\ m \in Int /\ Max(S) \in Int
        BY <2>1, <2>2
    <2> QED BY <2>3
<1>2. ASSUME IsLeast(m, S)
      PROVE  Min(S) = m
    <2>1. m \in S /\ \A y \in S : m <= y
        BY <1>2 DEF IsLeast
    <2>2. Min(S) \in S /\ \A y \in S : Min(S) <= y
        BY <2>1 DEF Min
    <2>3. Min(S) <= m /\ m <= Min(S) /\ m \in Int /\ Min(S) \in Int
        BY <2>1, <2>2
    <2> QED BY <2>3
<1> QED BY <1>1, <1>2

\* The extremes of a column are values of it; and what they are with one row
\* more.
LEMMA ExtremesAppend ==
    ASSUME NEW k \in Keys, KeyType[k] # "TEXT", NEW rs \in Seq(Rows), NEW r \in Rows
    PROVE  LET hi == Max(Values(k, rs))
               lo == Min(Values(k, rs))
           IN  /\ rs # <<>> => /\ hi \in Int /\ lo \in Int
                              /\ hi \in Values(k, rs) /\ lo \in Values(k, rs)
               /\ Max(Values(k, Append(rs, r))) = IF rs = <<>> \/ r[k] > hi THEN r[k] ELSE hi
               /\ Min(Values(k, Append(rs, r))) = IF rs = <<>> \/ r[k] < lo THEN r[k] ELSE lo
<1> DEFINE hi(l) == Max(Values(k, l))
           lo(l) == Min(Values(k, l))
           Found(l) == IsGreatest(hi(l), Values(k, l)) /\ IsLeast(lo(l), Values(k, l))
           Grows(l, x) == /\ hi(Append(l, x)) = IF l = <<>> \/ x[k] > hi(l) THEN x[k] ELSE hi(l)
                          /\ lo(Append(l, x)) = IF l = <<>> \/ x[k] < lo(l) THEN x[k] ELSE lo(l)
           Good == {l \in Seq(Rows) : l # <<>> => Found(l)}
<1>1. \A x \in Rows : x[k] \in Int
    BY QueryAssumption DEF QueryAssumption
<1>2. \A l \in Seq(Rows) : Values(k, l) \subseteq Int
    BY <1>1 DEF Values
<1>3. ASSUME NEW l \in Seq(Rows), NEW x \in Rows, l # <<>> => Found(l)
      PROVE  Found(Append(l, x)) /\ Grows(l, x)
    <2> DEFINE V == Values(k, l)
               W == Values(k, Append(l, x))
               m == IF l = <<>> \/ x[k] > hi(l) THEN x[k] ELSE hi(l)
               n == IF l = <<>> \/ x[k] < lo(l) THEN x[k] ELSE lo(l)
    <2>1. W = V \cup {x[k]} /\ V \subseteq Int /\ x[k] \in Int
        BY <1>1, <1>2, ValuesAppend
    <2>2. l = <<>> => V = {}
        BY DEF Values
    <2>3. IsGreatest(m, W) /\ IsLeast(n, W)
        <3> HIDE DEF V, W
        <3>1. CASE l = <<>>
            BY <2>1, <2>2, <3>1 DEF IsGreatest, IsLeast
        <3>2. CASE l # <<>>
            <4>1. /\ hi(l) \in V /\ \A y \in V : y <= hi(l)
                  /\ lo(l) \in V /\ \A y \in V : lo(l) <= y
                BY <1>3, <3>2 DEF IsGreatest, IsLeast, V
            <4> HIDE DEF hi, lo
            <4>2. hi(l) \in Int /\ lo(l) \in Int
                BY <2>1, <4>1
            <4> QED BY <2>1, <3>2, <4>1, <4>2 DEF IsGreatest, IsLeast
        <3> QED BY <3>1, <3>2
    <2>4. W \subseteq Int
        BY <2>1
    <2>5. Max(W) = m /\ Min(W) = n
        <3> HIDE DEF m, n, W
        <3> QED BY <2>3, <2>4, Extremes
    <2> QED BY <2>3, <2>5
<1>4. <<>> \in Good
    BY EmptySeq
<1>5. ASSUME NEW l \in Seq(Rows), NEW x \in Rows, l \in Good
      PROVE  Append(l, x) \in Good
    <2>1. Append(l, x) \in Seq(Rows)
        BY AppendProperties
    <2>2. Found(Append(l, x))
        <3> HIDE DEF Found
        <3> QED BY <1>3, <1>5
    <2> HIDE DEF Found
    <2> QED BY <2>1, <2>2
<1>6. Seq(Rows) \subseteq Good
    <2> HIDE DEF Good
    <2> QED BY <1>4, <1>5, ListInduction
<1>7. rs # <<>> => Found(rs)
    <2> HIDE DEF Found
    <2> QED BY <1>6
<1>8. Grows(rs, r)
    <2> HIDE DEF Found, Grows
    <2> QED BY <1>3, <1>7
<1>9. rs # <<>> => /\ hi(rs) \in Int /\ lo(rs) \in Int
                   /\ hi(rs) \in Values(k, rs) /\ lo(rs) \in Values(k, rs)
    BY <1>2, <1>7 DEF IsGreatest, IsLeast
<1> QED BY <1>8, <1>9

\* No value of a number column reaches the ends of the range.
LEMMA ValueInRange ==
    ASSUME NEW k \in Keys, KeyType[k] # "TEXT", NEW r \in Rows, MaxRows # 0
    PROVE  r[k] \in Int /\ Lowest < r[k] /\ r[k] < Largest
<1>1. r[k] \in Int /\ MaxRows \in Nat
    BY QueryAssumption DEF QueryAssumption
<1>2. <<>> \in Seq(Rows) /\ Append(<<>>, r) = <<r>>
    OBVIOUS
<1>3. Total(k, <<r>>) = r[k]
    <2>1. Total(k, <<>>) = 0 /\ Total(k, Append(<<>>, r)) = Total(k, <<>>) + r[k]
        BY <1>2, TotalAppend
    <2> QED BY <1>1, <1>2, <2>1
<1>4. 1 \in 0..MaxRows /\ <<r>> \in [1..1 -> Rows]
    BY <1>1
<1> QED BY <1>1, <1>3, <1>4, QueryExecAssumption DEF QueryExecAssumption

\* The sum of a column over the rows of a file does not reach them either.
LEMMA TotalInRange ==
    ASSUME NEW k \in Keys, KeyType[k] # "TEXT", NEW rs \in Seq(Rows), Len(rs) <= MaxRows
    PROVE  Total(k, rs) \in Int /\ Lowest < Total(k, rs) /\ Total(k, rs) < Largest
<1>1. CASE rs = <<>>
    <2>1. 0 \in 0..MaxRows /\ <<>> \in [1..0 -> Rows]
        BY QueryAssumption DEF QueryAssumption
    <2>2. Total(k, <<>>) = 0
        BY TotalAppend
    <2>3. Lowest < Total(k, <<>>) /\ Total(k, <<>>) < Largest
        <3> DEFINE e == <<>>
        <3>1. e \in [1..0 -> Rows]
            BY <2>1
        <3> HIDE DEF e
        <3>2. Lowest < Total(k, e) /\ Total(k, e) < Largest
            BY <2>1, <3>1, QueryExecAssumption DEF QueryExecAssumption
        <3> QED BY <3>2 DEF e
    <2> QED BY <1>1, <2>2, <2>3
<1>2. CASE rs # <<>>
    <2>1. Len(rs) \in 0..MaxRows /\ rs \in [1..Len(rs) -> Rows]
        BY QueryAssumption DEF QueryAssumption
    <2>2. PICK s \in Seq(Rows), r \in Rows : rs = Append(s, r)
        BY <1>2, SequenceEmptyOrAppend
    <2>3. Total(k, rs) \in Int
        BY <2>2, TotalAppend
    <2> QED BY <2>1, <2>3, QueryExecAssumption DEF QueryExecAssumption
<1> QED BY <1>1, <1>2

----------------------------------------------------------------------------
\* Statements and contexts.

\* What a context of the executor is: an aggregate whose function, if it
\* computes, has numbers to compute with, or COUNT(*).
IsContext(c) ==
    /\ c \in Aggregates
    /\ c.ftype \in ValueFunctions => c.key \in Keys /\ KeyType[c.key] # "TEXT"
    /\ IsWildCard(c) => c.ftype = "COUNT"

\* A SELECT list is a list of statements, each a column, a context or the
\* wildcard, and the wildcards stand alone.
LEMMA SelectListType ==
    ASSUME NEW stmts, IsSelectList(stmts)
    PROVE  /\ stmts \in Seq(Statement) /\ stmts # <<>>
           /\ \A i \in DOMAIN stmts : IsAggregate(stmts[i]) => IsContext(stmts[i])
           /\ \A i \in DOMAIN stmts : IsWildCard(stmts[i]) =>
                stmts = <<WildCard>> \/ stmts = <<CountWildCard>>
<1> DEFINE Typed(s) == s \in Statement /\ (IsAggregate(s) => IsContext(s))
<1>1. ASSUME NEW s, s = WildCard \/ s = CountWildCard
      PROVE  Typed(s)
    <2>1. s \in [ftype : {"NONE", "COUNT"}, key : {Star}]
        BY <1>1 DEF WildCard, CountWildCard
    <2>2. s.ftype = "NONE" \/ s.ftype = "COUNT"
        BY <2>1
    <2>3. s \in Statement /\ (IsAggregate(s) => s \in Aggregates)
        BY <2>1, <2>2 DEF Statement, Aggregates, AggFuncType, IsAggregate
    <2> QED BY <2>2, <2>3 DEF IsContext, ValueFunctions, IsAggregate
<1>2. ASSUME NEW s \in Statement, ~IsWildCard(s),
             s.ftype \in ValueFunctions => KeyType[s.key] # "TEXT"
      PROVE  Typed(s)
    <2>1. s.key \in Keys
        BY <1>2 DEF Statement, IsWildCard
    <2>2. IsAggregate(s) => s \in Aggregates
        BY DEF Statement, Aggregates, IsAggregate
    <2> QED BY <1>2, <2>1, <2>2 DEF IsContext
<1>3. ASSUME NEW w, w = WildCard \/ w = CountWildCard, stmts = <<w>>
      PROVE  stmts \in Seq(Statement) /\ stmts # <<>> /\ \A i \in DOMAIN stmts : Typed(stmts[i])
    <2>1. Typed(w)
        <3> HIDE DEF Typed
        <3> QED BY <1>1, <1>3
    <2>2. w \in Statement
        BY <2>1
    <2>3. stmts \in Seq(Statement) /\ DOMAIN stmts = {1} /\ stmts[1] = w /\ stmts # <<>>
        BY <1>3, <2>2
    <2> HIDE DEF Typed
    <2> QED BY <2>1, <2>3
<1>4. CASE stmts = <<WildCard>> \/ stmts = <<CountWildCard>>
    <2>1. \E w : (w = WildCard \/ w = CountWildCard) /\ stmts = <<w>>
        BY <1>4
    <2> QED BY <1>3, <1>4, <2>1
<1>5. CASE stmts \in Seq(Statement) \ {<<>>} /\
           \A i \in DOMAIN stmts : /\ ~IsWildCard(stmts[i])
                                   /\ stmts[i].ftype \in ValueFunctions =>
                                        KeyType[stmts[i].key] # "TEXT"
    <2>1. ASSUME NEW i \in DOMAIN stmts
          PROVE  Typed(stmts[i]) /\ ~IsWildCard(stmts[i])
        <3>1. stmts[i] \in Statement
            BY <1>5
        <3> HIDE DEF Typed
        <3> QED BY <1>2, <1>5, <3>1
    <2> QED BY <1>5, <2>1
<1> QED BY <1>4, <1>5 DEF IsSelectList

\* op->aggId is where the contexts have the statement's context: the list is
\* turned round twice.
LEMMA AggIdCorrect ==
    ASSUME NEW stmts \in Seq(Statement)
    PROVE  \A i \in DOMAIN stmts : IsAggregate(stmts[i]) =>
                /\ AggId(stmts, i) \in DOMAIN Contexts(stmts)
                /\ Contexts(stmts)[AggId(stmts, i)] = stmts[i]
<1> DEFINE a(l) == Among(l, Aggregates)
           Cited(l, i) == {j \in i..Len(l) : IsAggregate(l[j])}
           Found(l, i) == /\ AggId(l, i) \in 1..Len(a(l))
                          /\ a(l)[(Len(a(l)) - AggId(l, i)) + 1] = l[i]
           Good == {l \in Seq(Statement) :
                        \A i \in 1..Len(l) : IsAggregate(l[i]) => Found(l, i)}
<1>1. \A s \in Statement : s \in Aggregates <=> IsAggregate(s)
    BY DEF Statement, Aggregates, IsAggregate, AggFuncType
<1>2. \A l \in Seq(Statement) : a(l) \in Seq(Statement)
    BY AmongTyped
<1>3. <<>> \in Good
    BY EmptySeq
<1>4. ASSUME NEW l \in Seq(Statement), NEW x \in Statement, l \in Good
      PROVE  Append(l, x) \in Good
    <2> DEFINE m == Append(l, x)
               N == Len(l)
    <2>1. /\ m \in Seq(Statement) /\ Len(m) = N + 1 /\ m[N + 1] = x /\ N \in Nat
          /\ \A i \in 1..N : m[i] = l[i]
        BY AppendProperties
    <2>2. a(m) = IF IsAggregate(x) THEN Append(a(l), x) ELSE a(l)
        <3>1. Among(m, Aggregates) = IF x \in Aggregates THEN Append(Among(l, Aggregates), x)
                                     ELSE Among(l, Aggregates)
            BY AmongAppend
        <3> QED BY <1>1, <3>1
    <2> HIDE DEF m, N
    <2> SUFFICES ASSUME NEW i \in 1..N + 1, IsAggregate(m[i])
                 PROVE  Found(m, i)
        BY <2>1 DEF m
    <2> DEFINE A == a(l)
               L == Len(A)
    <2>3. A \in Seq(Statement) /\ L \in Nat
        BY <1>2
    <2>4. CASE i = N + 1
        <3>1. Cited(m, i) = {N + 1}
            BY <2>1, <2>4
        <3>2. AggId(m, i) = 1
            BY <3>1, FS_Singleton DEF AggId
        <3>3. a(m) = Append(A, x) /\ Len(a(m)) = L + 1 /\ a(m)[L + 1] = x
            BY <2>1, <2>2, <2>3, <2>4, AppendProperties
        <3> HIDE DEF A, L, a
        <3>4. (Len(a(m)) - AggId(m, i)) + 1 = L + 1 /\ AggId(m, i) \in 1..Len(a(m))
            BY <2>3, <3>2, <3>3
        <3> QED BY <2>1, <2>4, <3>3, <3>4
    <2>5. CASE i \in 1..N
        <3>1. IsAggregate(l[i]) /\ m[i] = l[i]
            BY <2>1, <2>5
        <3>2. Found(l, i)
            <4> HIDE DEF Found
            <4> QED BY <1>4, <2>5, <3>1 DEF N
        <3> DEFINE C == Cited(l, i)
                   n == AggId(l, i)
        <3>3. IsFiniteSet(C) /\ N + 1 \notin C
            <4>1. C \subseteq i..N /\ IsFiniteSet(i..N)
                BY <2>1, <2>5, FS_Interval DEF N
            <4> HIDE DEF C
            <4>2. IsFiniteSet(C)
                BY <4>1, FS_Subset
            <4> QED BY <2>1, <4>1, <4>2
        <3>4. Cited(m, i) = IF IsAggregate(x) THEN C \cup {N + 1} ELSE C
            <4>1. \A j : j \in i..N + 1 <=> j \in i..N \/ j = N + 1
                BY <2>1, <2>5
            <4>2. \A j \in i..N : m[j] = l[j]
                BY <2>1, <2>5
            <4>3. Cited(m, i) = {j \in i..N + 1 : IsAggregate(m[j])} /\ C = {j \in i..N : IsAggregate(l[j])}
                BY <2>1 DEF N
            <4> HIDE DEF C
            <4> QED BY <2>1, <4>1, <4>2, <4>3
        <3>5. n = Cardinality(C) /\ AggId(m, i) = Cardinality(Cited(m, i))
            BY DEF AggId
        <3>6. n \in 1..L /\ A[(L - n) + 1] = l[i]
            BY <3>2
        <3> HIDE DEF C, n, Cited, A
        <3>7. CASE IsAggregate(x)
            <4>1. AggId(m, i) = n + 1
                BY <3>3, <3>4, <3>5, <3>7, FS_AddElement
            <4>2. a(m) = Append(A, x) /\ Len(a(m)) = L + 1 /\ \A j \in 1..L : a(m)[j] = A[j]
                BY <2>1, <2>2, <2>3, <3>7, AppendProperties DEF A
            <4> HIDE DEF L, a
            <4>3. (Len(a(m)) - AggId(m, i)) + 1 = (L - n) + 1 /\ (L - n) + 1 \in 1..L
                  /\ AggId(m, i) \in 1..Len(a(m))
                BY <2>3, <3>6, <4>1, <4>2
            <4> QED BY <3>1, <3>6, <4>2, <4>3
        <3>8. CASE ~IsAggregate(x)
            <4>1. AggId(m, i) = n /\ a(m) = A
                BY <2>2, <3>4, <3>5, <3>8 DEF A
            <4> HIDE DEF a
            <4> QED BY <3>1, <3>6, <4>1
        <3> QED BY <3>7, <3>8
    <2> QED BY <2>1, <2>4, <2>5
<1>5. stmts \in Good
    <2> HIDE DEF Good
    <2> QED BY <1>3, <1>4, ListInduction
<1> HIDE DEF a
<1>6. Contexts(stmts) = [k \in 1..Len(a(stmts)) |-> a(stmts)[(Len(a(stmts)) - k) + 1]]
    BY DEF Contexts, Reverse, a
<1>7. DOMAIN stmts = 1..Len(stmts)
    OBVIOUS
<1> QED BY <1>5, <1>6, <1>7

\* What a query is: its contexts are exactly the aggregates among its
\* statements, and the tables it needs are those they need.
LEMMA QueryType ==
    ASSUME NEW q \in Queries
    PROVE  LET cs == Contexts(q.stmts)
           IN  /\ q.stmts \in Seq(Statement) /\ q.stmts # <<>>
               /\ q.keys \in Seq(Keys) /\ q.where \subseteq Rows /\ q.limit \in Nat
               /\ cs \in Seq(Statement)
               /\ \A j \in DOMAIN cs : /\ IsContext(cs[j])
                                       /\ \E i \in DOMAIN q.stmts : cs[j] = q.stmts[i]
               /\ IntersectionHTType(q.stmts) = UNION {HTType(cs[j]) : j \in DOMAIN cs}
<1> DEFINE stmts == q.stmts
           cs == Contexts(stmts)
           a == Among(stmts, Aggregates)
<1>1. IsSelectList(stmts) /\ q.keys \in Seq(Keys) /\ q.where \subseteq Rows /\ q.limit \in Nat
    BY QueryAssumption DEF QueryAssumption
<1>2. /\ stmts \in Seq(Statement) /\ stmts # <<>>
      /\ \A i \in DOMAIN stmts : IsAggregate(stmts[i]) => IsContext(stmts[i])
    <2> HIDE DEF stmts
    <2> QED BY <1>1, SelectListType
<1>3. a \in Seq(Statement) /\ Range(a) = Range(stmts) \cap Aggregates
    <2> HIDE DEF stmts
    <2> QED BY <1>2, AmongRange
<1>4. cs = [k \in 1..Len(a) |-> a[(Len(a) - k) + 1]]
    BY DEF Contexts, Reverse
<1>5. Len(a) \in Nat /\ a \in [1..Len(a) -> Statement]
    <2> HIDE DEF a
    <2> QED BY <1>3
<1> DEFINE N == Len(a)
<1>6. /\ cs \in [1..N -> Statement]
      /\ \A k \in 1..N : cs[k] = a[(N - k) + 1] /\ (N - k) + 1 \in 1..N
    <2> HIDE DEF a, cs
    <2> QED BY <1>4, <1>5
<1>7. cs \in Seq(Statement) /\ DOMAIN cs = 1..N /\ DOMAIN a = 1..N
    <2> HIDE DEF cs, a
    <2>1. N \in Nat /\ cs \in [1..N -> Statement]
        BY <1>5, <1>6
    <2>2. DOMAIN cs = 1..N /\ DOMAIN a = 1..N
        BY <1>5, <2>1
    <2> HIDE DEF N
    <2> QED BY <2>1, <2>2
<1>8. \A j \in DOMAIN cs : cs[j] \in Range(a)
    <2> HIDE DEF cs, a, N
    <2> QED BY <1>6, <1>7 DEF Range
<1>9. ASSUME NEW j \in DOMAIN cs
      PROVE  IsContext(cs[j]) /\ \E i \in DOMAIN stmts : cs[j] = stmts[i]
    <2>1. cs[j] \in Range(stmts) /\ cs[j] \in Aggregates
        <3> HIDE DEF cs, stmts, a
        <3> QED BY <1>3, <1>8
    <2>2. IsAggregate(cs[j])
        <3> HIDE DEF cs
        <3> QED BY <2>1 DEF Aggregates, AggFuncType, IsAggregate
    <2> HIDE DEF cs, stmts
    <2> QED BY <1>2, <2>1, <2>2 DEF Range
<1>10. IntersectionHTType(stmts) = UNION {HTType(cs[j]) : j \in DOMAIN cs}
    <2>1. ASSUME NEW i \in DOMAIN stmts, HTType(stmts[i]) # {}
          PROVE  \E j \in DOMAIN cs : cs[j] = stmts[i]
        <3>1. IsAggregate(stmts[i])
            <4> HIDE DEF stmts
            <4> QED BY <2>1 DEF IsAggregate, HTType
        <3> HIDE DEF stmts
        <3> QED BY <1>2, <3>1, AggIdCorrect
    <2> HIDE DEF cs, stmts
    <2> QED BY <1>9, <2>1 DEF IntersectionHTType
<1> QED BY <1>1, <1>2, <1>7, <1>9, <1>10

----------------------------------------------------------------------------
\* What the tables and the cells hold, and what one row more makes of it.

\* The value and the count of a context with one row more.
LEMMA ValueAppend ==
    ASSUME NEW c, IsContext(c), NEW rs \in Seq(Rows), NEW r \in Rows, MaxRows # 0
    PROVE  /\ ValueOf(c, <<>>) = InitialValue(c) /\ CountOf(c, <<>>) = 0
           /\ ValueOf(c, Append(rs, r)) = IF c.ftype \in ValueFunctions
                                          THEN Updated(c, ValueOf(c, rs), r[c.key])
                                          ELSE ValueOf(c, rs)
           /\ CountOf(c, rs) \in Nat
           /\ CountOf(c, Append(rs, r)) = IF c.ftype \in {"COUNT", "AVG"} THEN CountOf(c, rs) + 1
                                          ELSE CountOf(c, rs)
<1>1. /\ ValueOf(c, <<>>) = InitialValue(c) /\ CountOf(c, <<>>) = 0
    BY DEF ValueOf, CountOf
<1>2. Append(rs, r) # <<>> /\ Len(Append(rs, r)) = Len(rs) + 1 /\ Len(rs) \in Nat
    BY AppendProperties
<1>3. /\ CountOf(c, rs) \in Nat
      /\ CountOf(c, Append(rs, r)) = IF c.ftype \in {"COUNT", "AVG"} THEN CountOf(c, rs) + 1
                                     ELSE CountOf(c, rs)
    BY <1>2 DEF CountOf
<1>4. CASE c.ftype \notin ValueFunctions
    BY <1>1, <1>3, <1>4 DEF ValueOf
<1>5. CASE c.ftype \in {"SUM", "AVG"}
    <2>1. c.key \in Keys /\ KeyType[c.key] # "TEXT" /\ c.ftype \in ValueFunctions
        BY <1>5 DEF IsContext, ValueFunctions
    <2>2. /\ Total(c.key, <<>>) = 0
          /\ Total(c.key, Append(rs, r)) = Total(c.key, rs) + r[c.key]
        BY <2>1, TotalAppend
    <2>3. InitialValue(c) = 0
        BY <1>5 DEF InitialValue
    <2>4. ValueOf(c, rs) = Total(c.key, rs)
        BY <1>5, <2>1, <2>2, <2>3 DEF ValueOf
    <2>5. ValueOf(c, Append(rs, r)) = Total(c.key, Append(rs, r))
        BY <1>2, <1>5, <2>1 DEF ValueOf
    <2>6. Updated(c, ValueOf(c, rs), r[c.key]) = ValueOf(c, rs) + r[c.key]
        BY <1>5 DEF Updated
    <2> QED BY <1>1, <1>3, <2>1, <2>2, <2>4, <2>5, <2>6
<1>6. CASE c.ftype \in {"MAX", "MIN"}
    <2>1. c.key \in Keys /\ KeyType[c.key] # "TEXT" /\ c.ftype \in ValueFunctions
        BY <1>6 DEF IsContext, ValueFunctions
    <2> DEFINE k == c.key
               hi == Max(Values(k, rs))
               lo == Min(Values(k, rs))
    <2>2. /\ rs # <<>> => hi \in Int /\ lo \in Int
          /\ Max(Values(k, Append(rs, r))) = IF rs = <<>> \/ r[k] > hi THEN r[k] ELSE hi
          /\ Min(Values(k, Append(rs, r))) = IF rs = <<>> \/ r[k] < lo THEN r[k] ELSE lo
        BY <2>1, ExtremesAppend
    <2>3. r[k] \in Int /\ Lowest < r[k] /\ r[k] < Largest /\ Lowest \in Int /\ Largest \in Int
        BY <2>1, ValueInRange, QueryExecAssumption DEF QueryExecAssumption
    <2>4. \A l : Aggregate(c, l) = IF c.ftype = "MAX" THEN Max(Values(k, l)) ELSE Min(Values(k, l))
        BY <1>6 DEF Aggregate, Values
    <2>5. ValueOf(c, Append(rs, r)) = IF c.ftype = "MAX" THEN Max(Values(k, Append(rs, r)))
                                      ELSE Min(Values(k, Append(rs, r)))
        BY <1>2, <1>6, <2>1, <2>4 DEF ValueOf
    <2>6. ValueOf(c, rs) = IF rs = <<>> THEN IF c.ftype = "MAX" THEN Lowest ELSE Largest
                           ELSE IF c.ftype = "MAX" THEN hi ELSE lo
        BY <1>6, <2>1, <2>4 DEF ValueOf, InitialValue
    <2> HIDE DEF hi, lo
    <2>7. ValueOf(c, Append(rs, r)) = Updated(c, ValueOf(c, rs), r[k])
        BY <1>6, <2>2, <2>3, <2>5, <2>6 DEF Updated
    <2> QED BY <1>1, <1>3, <2>1, <2>7
<1> QED BY <1>4, <1>5, <1>6 DEF ValueFunctions

\* The sum of numbers that are not negative is not negative.
LEMMA TotalNonNegative ==
    ASSUME NEW k \in Keys, KeyType[k] # "TEXT", NEW rs \in Seq(Rows),
           \A i \in DOMAIN rs : rs[i][k] >= 0
    PROVE  Total(k, rs) >= 0
<1> DEFINE Good == {l \in Seq(Rows) : (\A i \in DOMAIN l : l[i][k] >= 0) => Total(k, l) >= 0}
<1>1. <<>> \in Good
    <2>1. <<>> \in Seq(Rows) /\ Total(k, <<>>) = 0
        BY TotalAppend
    <2> QED BY <2>1
<1>2. ASSUME NEW l \in Seq(Rows), NEW x \in Rows, l \in Good
      PROVE  Append(l, x) \in Good
    <2> DEFINE m == Append(l, x)
               N == Len(l)
    <2>1. /\ m \in Seq(Rows) /\ Len(m) = N + 1 /\ m[N + 1] = x /\ N \in Nat
          /\ \A i \in 1..N : m[i] = l[i]
        BY AppendProperties
    <2>2. Total(k, l) \in Int /\ Total(k, m) = Total(k, l) + x[k] /\ x[k] \in Int
        BY TotalAppend, QueryAssumption DEF QueryAssumption
    <2>3. DOMAIN m = 1..N + 1 /\ DOMAIN l = 1..N
        BY <2>1
    <2> HIDE DEF m, N
    <2>4. ASSUME \A i \in DOMAIN m : m[i][k] >= 0
          PROVE  Total(k, m) >= 0
        <3>1. x[k] >= 0
            <4>1. N + 1 \in DOMAIN m
                BY <2>1, <2>3
            <4> QED BY <2>1, <2>4, <4>1
        <3>2. \A i \in DOMAIN l : l[i][k] >= 0
            <4> SUFFICES ASSUME NEW i \in 1..N PROVE l[i][k] >= 0
                BY <2>3
            <4>1. i \in DOMAIN m /\ m[i] = l[i]
                BY <2>1, <2>3
            <4> QED BY <2>4, <4>1
        <3>3. Total(k, l) >= 0
            BY <1>2, <3>2
        <3> QED BY <2>2, <3>1, <3>3
    <2> QED BY <2>1, <2>4 DEF m
<1>3. Seq(Rows) \subseteq Good
    <2> HIDE DEF Good
    <2> QED BY <1>1, <1>2, ListInduction
<1> QED BY <1>3

\* A negative value anywhere stays one when a row is added.
LEMMA NonNegativeAppend ==
    ASSUME NEW c, NEW rs \in Seq(Rows), NEW r \in Rows, NonNegative(c, Append(rs, r))
    PROVE  /\ NonNegative(c, rs)
           /\ c.ftype \in ValueFunctions /\ TypeOf(c) = "INT" => r[c.key] >= 0
<1> DEFINE m == Append(rs, r)
           N == Len(rs)
<1>1. /\ m \in Seq(Rows) /\ Len(m) = N + 1 /\ m[N + 1] = r /\ N \in Nat
      /\ \A i \in 1..N : m[i] = rs[i]
    BY AppendProperties
<1>2. DOMAIN m = 1..N + 1 /\ DOMAIN rs = 1..N
    BY <1>1
<1>3. (\A i \in 1..N : i \in 1..N + 1) /\ N + 1 \in 1..N + 1
    BY <1>1
<1> HIDE DEF m, N
<1>4. NonNegative(c, m)
    BY DEF m
<1> QED BY <1>1, <1>2, <1>3, <1>4 DEF NonNegative

\* aggregation0 adds and compares as doubles what aggregation1 adds and
\* compares as what it is: for an INT that is not negative, and for a DOUBLE,
\* that is the same, the initial values included.
LEMMA FoldedValue ==
    ASSUME NEW c, IsContext(c), c.ftype \in ValueFunctions,
           NEW rs \in Seq(Rows), NEW r \in Rows, Len(rs) < MaxRows,
           NonNegative(c, Append(rs, r))
    PROVE  LET a == ValueOf(c, rs)
               t == r[c.key]
           IN  /\ c.ftype \in {"SUM", "AVG"} => DoubleSums(c, a, t) = {Updated(c, a, t)}
               /\ c.ftype = "MAX" => DoubleMax(c, a, t) = Updated(c, a, t)
               /\ c.ftype = "MIN" => DoubleMin(c, a, t) = Updated(c, a, t)
<1> DEFINE k == c.key
           a == ValueOf(c, rs)
           t == r[k]
<1>1. k \in Keys /\ KeyType[k] # "TEXT" /\ MaxRows # 0 /\ MaxRows \in Nat /\ Len(rs) \in Nat
    BY QueryAssumption DEF IsContext, QueryAssumption
<1>2. t \in Int /\ Lowest < t /\ t < Largest /\ Lowest \in Int /\ Largest \in Int
    BY <1>1, ValueInRange, QueryExecAssumption DEF QueryExecAssumption
<1>3. /\ TypeOf(c) = "INT" => t >= 0
      /\ c.ftype \in ValueFunctions /\ TypeOf(c) = "INT" => \A i \in DOMAIN rs : rs[i][k] >= 0
    BY NonNegativeAppend DEF NonNegative
<1>4. ~IsNaN(c, t)
    BY <1>2, <1>3 DEF IsNaN
<1>5. Lowest < Largest /\ Lowest < 0 /\ 0 < Largest
    <2>1. Total(k, <<>>) = 0 /\ <<>> \in Seq(Rows) /\ Len(<<>>) <= MaxRows
        BY <1>1, TotalAppend
    <2>2. Lowest < Total(k, <<>>) /\ Total(k, <<>>) < Largest
        BY <1>1, <2>1, TotalInRange
    <2> QED BY <1>2, <2>1, <2>2
<1>6. CASE c.ftype \in {"SUM", "AVG"}
    <2>1. a = Total(k, rs)
        <3>1. InitialValue(c) = 0 /\ Total(k, <<>>) = 0
            BY <1>1, <1>6, TotalAppend DEF InitialValue
        <3> QED BY <1>6, <3>1 DEF ValueOf
    <2>2. a \in Int /\ Lowest < a /\ a < Largest
        BY <1>1, <2>1, TotalInRange
    <2>3. TypeOf(c) = "INT" => a >= 0
        BY <1>1, <1>3, <2>1, TotalNonNegative
    <2>4. ~IsNaN(c, a)
        BY <1>2, <2>2, <2>3 DEF IsNaN
    <2> HIDE DEF a, t
    <2>5. DoubleSums(c, a, t) = {a + t}
        BY <1>4, <2>4 DEF DoubleSums
    <2>6. Updated(c, a, t) = a + t
        BY <1>6 DEF Updated
    <2> QED BY <1>6, <2>5, <2>6 DEF a, t
<1>7. CASE c.ftype \in {"MAX", "MIN"} /\ rs = <<>>
    <2>1. a = IF c.ftype = "MAX" THEN Lowest ELSE Largest
        BY <1>7 DEF ValueOf, InitialValue
    <2> HIDE DEF a, t
    <2> QED BY <1>2, <1>4, <1>5, <1>7, <2>1 DEF a, t, DoubleMax, DoubleMin, Updated, IsNaN
<1>8. CASE c.ftype \in {"MAX", "MIN"} /\ rs # <<>>
    <2>1. a = IF c.ftype = "MAX" THEN Max(Values(k, rs)) ELSE Min(Values(k, rs))
        BY <1>8 DEF ValueOf, Aggregate, Values
    <2>2. a \in Values(k, rs)
        <3>1. Max(Values(k, rs)) \in Values(k, rs) /\ Min(Values(k, rs)) \in Values(k, rs)
            BY <1>1, <1>8, ExtremesAppend
        <3> QED BY <2>1, <3>1
    <2>3. PICK i \in DOMAIN rs : a = rs[i][k]
        BY <2>2 DEF Values
    <2>4. rs[i] \in Rows
        BY <2>3
    <2>5. a \in Int /\ Lowest < a /\ a < Largest
        BY <1>1, <2>3, <2>4, ValueInRange
    <2>6. ~IsNaN(c, a)
        BY <1>2, <1>3, <2>3, <2>5 DEF IsNaN
    <2> HIDE DEF a, t
    <2> QED BY <1>2, <1>4, <1>8, <2>5, <2>6 DEF a, t, DoubleMax, DoubleMin, Updated
<1> QED BY <1>6, <1>7, <1>8 DEF ValueFunctions

----------------------------------------------------------------------------
\* Where a loop stands.

\* A list that is not empty is its front and its last element.
LEMMA FrontLast ==
    ASSUME NEW T, NEW s \in Seq(T)
    PROVE  /\ s # <<>> => /\ Front(s) \in Seq(T) /\ s[Len(s)] \in T
                          /\ s = Append(Front(s), s[Len(s)]) /\ Len(s) = Len(Front(s)) + 1
           /\ \A x \in T : /\ Front(Append(s, x)) = s
                           /\ Append(s, x)[Len(Append(s, x))] = x
<1>1. ASSUME NEW t \in Seq(T), NEW x \in T
      PROVE  Front(Append(t, x)) = t /\ Append(t, x)[Len(Append(t, x))] = x
    <2> DEFINE u == Append(t, x)
    <2>1. /\ u \in Seq(T) /\ Len(u) = Len(t) + 1 /\ u[Len(t) + 1] = x /\ Len(t) \in Nat
          /\ \A i \in 1..Len(t) : u[i] = t[i]
        BY AppendProperties
    <2> HIDE DEF u
    <2>2. Front(u) = SubSeq(u, 1, Len(t))
        BY <2>1 DEF Front
    <2>3. Front(u) = t
        BY <2>1, <2>2
    <2> QED BY <2>1, <2>3 DEF u
<1>2. ASSUME s # <<>>
      PROVE  /\ Front(s) \in Seq(T) /\ s[Len(s)] \in T
             /\ s = Append(Front(s), s[Len(s)]) /\ Len(s) = Len(Front(s)) + 1
    <2>1. PICK t \in Seq(T), x \in T : s = Append(t, x)
        BY <1>2, SequenceEmptyOrAppend
    <2>2. Front(s) = t /\ s[Len(s)] = x
        BY <1>1, <2>1
    <2>3. Len(s) = Len(t) + 1
        BY <2>1, AppendProperties
    <2> QED BY <2>1, <2>2, <2>3
<1> QED BY <1>1, <1>2

\* What is selected from one row more.
LEMMA SelectedAppend ==
    ASSUME NEW q, NEW rs \in Seq(Rows)
    PROVE  /\ Selected(q, <<>>) = <<>>
           /\ Selected(q, rs) \in Seq(Rows) /\ Len(Selected(q, rs)) <= Len(rs)
           /\ \A r \in Rows : Selected(q, Append(rs, r)) =
                IF r \in q.where THEN Append(Selected(q, rs), r) ELSE Selected(q, rs)
<1>1. Among(<<>>, q.where) = <<>>
    BY AmongEmpty
<1>2. Among(rs, q.where) \in Seq(Rows) /\ Len(Among(rs, q.where)) <= Len(rs)
    BY AmongRange
<1>3. \A r \in Rows : Among(Append(rs, r), q.where) =
            IF r \in q.where THEN Append(Among(rs, q.where), r) ELSE Among(rs, q.where)
    <2> DEFINE W == q.where
    <2> HIDE DEF W
    <2>1. \A r \in Rows : Among(Append(rs, r), W) =
                IF r \in W THEN Append(Among(rs, W), r) ELSE Among(rs, W)
        BY AmongAppend
    <2> QED BY <2>1 DEF W
<1> QED BY <1>1, <1>2, <1>3 DEF Selected

\* What TypeOK says of the query that is running.
LEMMA QueryFacts ==
    ASSUME TypeOK
    PROVE  /\ query \in Queries
           /\ query.stmts \in Seq(Statement) /\ query.stmts # <<>>
           /\ query.keys \in Seq(Keys) /\ query.where \subseteq Rows /\ query.limit \in Nat
           /\ Len(aggContexts) \in Nat /\ DOMAIN aggContexts = 1..Len(aggContexts)
           /\ \A j \in DOMAIN aggContexts : IsContext(aggContexts[j])
           /\ httype = UNION {HTType(aggContexts[j]) : j \in DOMAIN aggContexts}
<1>1. query \in Queries
    BY DEF TypeOK
<1>2. aggContexts \in Seq(Statement)
    BY <1>1, QueryType DEF aggContexts
<1>3. Len(aggContexts) \in Nat /\ DOMAIN aggContexts = 1..Len(aggContexts)
    BY <1>2
<1> QED BY <1>1, <1>3, QueryType DEF aggContexts, httype

\* In a loop the context it stands at lacks the last row, which is selected.
LEMMA LoopFacts ==
    ASSUME TypeOK, LoopInv, pc \in {"fold", "group"}
    PROVE  /\ vk \in DOMAIN aggContexts /\ vk \in Nat
           /\ tuple \in Rows /\ rows \in Seq(Rows) /\ rows # <<>>
           /\ Done(vk) = Selected(query, Front(rows))
           /\ Done(vk) \in Seq(Rows) /\ Len(Done(vk)) < MaxRows /\ MaxRows # 0
           /\ Selected(query, rows) = Append(Done(vk), tuple)
<1>1. rows \in Seq(Rows) /\ rows # <<>> /\ Len(rows) <= MaxRows /\ vk \in DOMAIN aggContexts
    BY DEF TypeOK
<1>2. vk \in Nat
    BY <1>1, QueryFacts
<1>3. /\ Front(rows) \in Seq(Rows) /\ tuple \in Rows
      /\ rows = Append(Front(rows), tuple) /\ Len(rows) = Len(Front(rows)) + 1
    BY <1>1, FrontLast DEF tuple
<1>4. Done(vk) = Selected(query, Front(rows))
    BY <1>2 DEF Done
<1>5. /\ Selected(query, Front(rows)) \in Seq(Rows)
      /\ Len(Selected(query, Front(rows))) <= Len(Front(rows))
      /\ Selected(query, Append(Front(rows), tuple)) = Append(Selected(query, Front(rows)), tuple)
    BY <1>3, SelectedAppend DEF LoopInv
<1>6. MaxRows \in Nat /\ Len(Selected(query, Front(rows))) \in Nat /\ Len(Front(rows)) \in Nat
    BY <1>3, <1>5, QueryAssumption DEF QueryAssumption
<1>7. Selected(query, rows) = Append(Selected(query, Front(rows)), tuple)
    BY <1>3, <1>5
<1>8. Len(Selected(query, Front(rows))) < MaxRows /\ MaxRows # 0
    <2>1. Len(rows) <= MaxRows
        BY <1>1
    <2> QED BY <1>3, <1>5, <1>6, <2>1
<1> QED BY <1>1, <1>2, <1>3, <1>4, <1>5, <1>7, <1>8

\* A turn of a loop adds the last row to what the context has aggregated.
LEMMA OneContext ==
    ASSUME TypeOK, LoopInv, pc \in {"fold", "group"}, NextContext, UNCHANGED <<query, rows>>
    PROVE  \A j \in DOMAIN aggContexts :
                Done(j)' = IF j = vk THEN Append(Done(vk), tuple) ELSE Done(j)
<1> SUFFICES ASSUME NEW j \in DOMAIN aggContexts
             PROVE  Done(j)' = IF j = vk THEN Append(Done(vk), tuple) ELSE Done(j)
    OBVIOUS
<1>1. /\ vk \in Nat /\ vk \in 1..Len(aggContexts) /\ j \in 1..Len(aggContexts)
      /\ Len(aggContexts) \in Nat
    BY QueryFacts, LoopFacts
<1>2. vk' = vk + 1 /\ pc' = IF vk = Len(aggContexts) THEN "row" ELSE pc
    BY DEF NextContext
<1>3. Done(j)' = Selected(query, IF pc' \in {"fold", "group"} /\ j >= vk' THEN Front(rows) ELSE rows)
    BY DEF Done
<1>4. pc' \in {"fold", "group"} <=> vk # Len(aggContexts)
    BY <1>2
<1>5. Done(j) = Selected(query, IF j >= vk THEN Front(rows) ELSE rows)
    BY DEF Done
<1>6. CASE j = vk
    <2>1. Done(j)' = Selected(query, rows)
        BY <1>1, <1>2, <1>3, <1>6
    <2> QED BY <1>6, <2>1, LoopFacts
<1>7. CASE j < vk
    BY <1>1, <1>2, <1>3, <1>5, <1>7
<1>8. CASE j > vk
    <2>1. pc' \in {"fold", "group"} /\ j >= vk' /\ j >= vk
        BY <1>1, <1>2, <1>4, <1>8
    <2> QED BY <1>1, <1>3, <1>5, <1>8, <2>1
<1> QED BY <1>1, <1>6, <1>7, <1>8

----------------------------------------------------------------------------
\* Types, and where the loops run.

\* The variables a step of the loops, of the printing and of the end leaves.
LEMMA StillTyped ==
    ASSUME TypeOK, UNCHANGED loopVars,
           vk' \in 0..Len(aggContexts) + 1,
           pc' \in {"fold", "group"} => pc' = pc /\ vk' \in DOMAIN aggContexts,
           pc' \in {"row", "fold", "group", "print", "done", "fault"},
           DOMAIN agg' = Cells, DOMAIN aggCount' = Cells,
           query.keys # <<>> => /\ DOMAIN aggMap' \subseteq GroupKeys(query, rows)
                                /\ DOMAIN aggCountMap' \subseteq GroupKeys(query, rows),
           \A g \in DOMAIN aggMap' : DOMAIN aggMap'[g] = DOMAIN aggContexts,
           \A g \in DOMAIN aggCountMap' : DOMAIN aggCountMap'[g] = DOMAIN aggContexts
    PROVE  TypeOK'
<1>1. query' = query /\ wild' = wild /\ rows' = rows /\ count' = count
    BY DEF loopVars
<1>2. aggContexts' = aggContexts /\ Cells' = Cells
    BY <1>1 DEF aggContexts, Cells
<1>3. pc' \in {"fold", "group"} => rows # <<>>
    BY DEF TypeOK
<1> QED BY <1>1, <1>2, <1>3 DEF TypeOK

\* The loops' condition is kept as long as the loop runs.
LEMMA StillInLoop ==
    ASSUME TypeOK, LoopInv, UNCHANGED <<query, rows>>, pc' \in {"fold", "group"} => pc' = pc
    PROVE  LoopInv'
<1>1. tuple' = tuple
    BY DEF tuple
<1> QED BY <1>1 DEF LoopInv

\* A turn of a loop keeps the index in its range.
LEMMA NextContextTyped ==
    ASSUME TypeOK, pc \in {"fold", "group"}, NextContext
    PROVE  /\ vk' \in 0..Len(aggContexts) + 1
           /\ pc' \in {"fold", "group"} => pc' = pc /\ vk' \in DOMAIN aggContexts
           /\ pc' \in {"row", "fold", "group", "print", "done", "fault"}
<1>1. vk \in 1..Len(aggContexts) /\ Len(aggContexts) \in Nat
    BY QueryFacts DEF TypeOK
<1>2. DOMAIN aggContexts = 1..Len(aggContexts)
    BY QueryFacts
<1>3. vk' = vk + 1 /\ pc' = IF vk = Len(aggContexts) THEN "row" ELSE pc
    BY DEF NextContext
<1>4. vk' \in 0..Len(aggContexts) + 1 /\ (vk # Len(aggContexts) => vk' \in 1..Len(aggContexts))
    BY <1>1, <1>3
<1>5. pc' \in {"row", "fold", "group"} /\ (pc' \in {"fold", "group"} => pc' = pc /\ vk # Len(aggContexts))
    BY <1>3
<1> QED BY <1>2, <1>4, <1>5

\* A row more keeps the types.
LEMMA TypeQueryExec ==
    ASSUME TypeOK, LoopInv, NEW r \in Rows, QueryExec(r)
    PROVE  TypeOK' /\ LoopInv'
<1>1. /\ rows \in Seq(Rows) /\ Len(rows) < MaxRows /\ rows' = Append(rows, r) /\ pc = "row"
      /\ UNCHANGED <<query, wild, agg, aggCount, aggMap, aggCountMap, printed>>
    BY DEF QueryExec, TypeOK
<1>2. /\ rows' \in Seq(Rows) /\ Len(rows') = Len(rows) + 1 /\ rows' # <<>>
      /\ Len(rows) \in Nat /\ MaxRows \in Nat
    BY <1>1, AppendProperties, QueryAssumption DEF QueryAssumption
<1>3. aggContexts' = aggContexts /\ Cells' = Cells
    BY <1>1 DEF aggContexts, Cells
<1>4. /\ Len(aggContexts) \in Nat /\ DOMAIN aggContexts = 1..Len(aggContexts)
      /\ query.keys \in Seq(Keys)
    BY QueryFacts
<1>5. GroupKeys(query, rows') = GroupKeys(query, rows) \cup {r[query.keys[1]]}
    BY <1>1, GroupKeysAppend
<1>6. tuple' = r
    BY <1>1, FrontLast DEF tuple
<1>7. /\ count' \in 0..Len(rows')
      /\ vk' \in 0..Len(aggContexts) + 1
      /\ pc' \in {"row", "fold", "group", "fault"}
      /\ pc' \in {"fold", "group"} => vk' \in DOMAIN aggContexts /\ r \in query.where
      /\ pc' = "fold" => query.keys = <<>>
      /\ pc' = "group" => Len(query.keys) = 1
    <2>1. count \in 0..Len(rows) /\ vk \in 0..Len(aggContexts) + 1
        BY DEF TypeOK
    <2>2. CASE Skip(r)
        BY <1>1, <1>2, <2>1, <2>2 DEF Skip
    <2>3. CASE Project(r)
        BY <1>1, <1>2, <2>1, <2>3 DEF Project
    <2>4. CASE Aggregation(r)
        <3>1. count' \in 0..Len(rows')
            BY <1>1, <1>2, <2>1, <2>4 DEF Aggregation
        <3>2. /\ r \in query.where
              /\ pc' = IF aggContexts = <<>> \/ Len(query.keys) > 1 THEN "row"
                       ELSE IF query.keys = <<>> THEN "fold"
                       ELSE IF KeyType[query.keys[1]] = "TEXT" THEN "group"
                       ELSE "fault"
              /\ vk' = IF pc' \in {"fold", "group"} THEN 1 ELSE vk
            BY <2>4 DEF Aggregation
        <3>3. pc' \in {"fold", "group"} => 1 \in DOMAIN aggContexts
            BY <1>4, <3>2
        <3>4. Len(query.keys) \in Nat /\ (Len(query.keys) = 0 => query.keys = <<>>)
            BY <1>4
        <3>5. pc' = "group" => Len(query.keys) = 1
            <4> DEFINE n == Len(query.keys)
            <4>1. pc' = "group" => ~(n > 1) /\ query.keys # <<>>
                BY <3>2
            <4>2. n \in Nat /\ (n = 0 => query.keys = <<>>)
                BY <3>4
            <4> HIDE DEF n
            <4>3. pc' = "group" => n = 1
                BY <4>1, <4>2
            <4> QED BY <4>3 DEF n
        <3> QED BY <1>4, <2>1, <3>1, <3>2, <3>3, <3>5
    <2> QED BY <2>2, <2>3, <2>4 DEF QueryExec
<1>8. TypeOK'
    BY <1>1, <1>2, <1>3, <1>5, <1>7 DEF TypeOK
<1>9. LoopInv'
    BY <1>1, <1>6, <1>7 DEF LoopInv
<1> QED BY <1>8, <1>9

\* A turn of aggregation0 keeps the types.
LEMMA TypeFold ==
    ASSUME TypeOK, LoopInv, NEW c, FoldSkip(c) \/ FoldCount(c) \/ FoldSum(c) \/ FoldExtreme(c)
    PROVE  TypeOK' /\ LoopInv'
<1>1. /\ pc = "fold" /\ NextContext
      /\ UNCHANGED loopVars /\ UNCHANGED <<aggMap, aggCountMap>>
    BY DEF FoldSkip, FoldCount, FoldSum, FoldExtreme, Folding
<1>2. DOMAIN agg' = Cells /\ DOMAIN aggCount' = Cells
    BY DEF TypeOK, FoldSkip, FoldCount, FoldSum, FoldExtreme
<1>3. TypeOK'
    BY <1>1, <1>2, NextContextTyped, StillTyped DEF TypeOK
<1>4. LoopInv'
    BY <1>1, NextContextTyped, StillInLoop DEF loopVars
<1> QED BY <1>3, <1>4

\* A turn of aggregation1 keeps the types.
LEMMA TypeGroup ==
    ASSUME TypeOK, LoopInv, NEW c,
           GroupCount(c) \/ GroupDistinct(c) \/ GroupValue(c) \/ GroupAvg(c)
    PROVE  TypeOK' /\ LoopInv'
<1>1. pc = "group" /\ UNCHANGED loopVars /\ UNCHANGED <<agg, aggCount>>
    BY DEF GroupCount, GroupDistinct, GroupValue, GroupAvg, Grouping
<1>2. NextContext \/ (pc' = "fault" /\ vk' = vk)
    BY DEF GroupCount, GroupDistinct, GroupValue, GroupAvg
<1>3. /\ vk' \in 0..Len(aggContexts) + 1
      /\ pc' \in {"fold", "group"} => pc' = pc /\ vk' \in DOMAIN aggContexts
      /\ pc' \in {"row", "fold", "group", "print", "done", "fault"}
    BY <1>1, <1>2, NextContextTyped DEF TypeOK
<1>4. group \in GroupKeys(query, rows)
    <2>1. Len(rows) \in DOMAIN rows
        BY <1>1, LoopFacts
    <2> QED BY <2>1 DEF group, GroupKeys, tuple
<1>9. /\ \A g \in DOMAIN aggMap' : DOMAIN aggMap'[g] = DOMAIN aggContexts
      /\ \A g \in DOMAIN aggCountMap' : DOMAIN aggCountMap'[g] = DOMAIN aggContexts
    <2> DEFINE D == DOMAIN aggContexts
               Wide(table) == \A g \in DOMAIN table : DOMAIN table[g] = D
    <2>1. Wide(aggMap) /\ Wide(aggCountMap)
        BY DEF TypeOK
    <2>2. ASSUME NEW table, Wide(table)
          PROVE  /\ Wide(AssignValues(table, group)) /\ group \in DOMAIN AssignValues(table, group)
                 /\ Wide(AssignCounts(table, group)) /\ group \in DOMAIN AssignCounts(table, group)
        BY <2>2 DEF AssignValues, AssignCounts, Assign
    <2>3. ASSUME NEW table, NEW g, NEW k, NEW w, Wide(table)
          PROVE  Wide([table EXCEPT ![g][k] = w])
        BY <2>3
    <2> HIDE DEF Wide
    <2>4. Wide(aggMap') /\ Wide(aggCountMap')
        <3>1. CASE GroupCount(c)
            BY <2>1, <2>2, <2>3, <3>1 DEF GroupCount
        <3>2. CASE GroupDistinct(c)
            BY <2>1, <2>2, <3>2 DEF GroupDistinct
        <3>3. CASE GroupValue(c)
            BY <2>1, <2>2, <2>3, <3>3 DEF GroupValue, UpdateValue
        <3>4. CASE GroupAvg(c)
            <4> DEFINE counts == IF group \in DOMAIN aggMap THEN aggCountMap
                                 ELSE AssignCounts(aggCountMap, group)
            <4>1. Wide(counts)
                BY <2>1, <2>2
            <4>2. \/ aggCountMap' = [counts EXCEPT ![group][vk] = counts[group][vk] + 1]
                  \/ aggCountMap' = aggCountMap
                BY <3>4 DEF GroupAvg
            <4>3. Wide(aggMap')
                BY <2>1, <2>2, <2>3, <3>4 DEF GroupAvg, UpdateValue
            <4> HIDE DEF counts
            <4>4. Wide([counts EXCEPT ![group][vk] = counts[group][vk] + 1])
                BY <2>3, <4>1
            <4>5. Wide(aggCountMap')
                BY <2>1, <4>2, <4>4
            <4> QED BY <4>3, <4>5
        <3> QED BY <3>1, <3>2, <3>3, <3>4
    <2> QED BY <2>4 DEF Wide
<1>5. /\ DOMAIN aggMap' \subseteq DOMAIN aggMap \cup {group}
      /\ DOMAIN aggCountMap' \subseteq DOMAIN aggCountMap \cup {group}
    <2>1. \A values : DOMAIN Assign(aggMap, group, values) = DOMAIN aggMap \cup {group}
        BY DEF Assign
    <2>2. \A values : DOMAIN Assign(aggCountMap, group, values) = DOMAIN aggCountMap \cup {group}
        BY DEF Assign
    <2>3. /\ aggMap' = aggMap \/ DOMAIN aggMap' = DOMAIN AssignValues(aggMap, group)
          /\ \/ aggCountMap' = aggCountMap \/ DOMAIN aggCountMap' = DOMAIN aggCountMap
             \/ DOMAIN aggCountMap' = DOMAIN AssignCounts(aggCountMap, group)
        <3>1. CASE GroupCount(c)
            BY <3>1 DEF GroupCount
        <3>2. CASE GroupDistinct(c)
            BY <3>2 DEF GroupDistinct
        <3>3. CASE GroupValue(c)
            BY <3>3 DEF GroupValue, UpdateValue
        <3>4. CASE GroupAvg(c)
            BY <3>4 DEF GroupAvg, UpdateValue
        <3> QED BY <3>1, <3>2, <3>3, <3>4
    <2> QED BY <2>1, <2>2, <2>3 DEF AssignValues, AssignCounts
<1>6. query.keys # <<>> => /\ DOMAIN aggMap' \subseteq GroupKeys(query, rows)
                           /\ DOMAIN aggCountMap' \subseteq GroupKeys(query, rows)
    BY <1>4, <1>5 DEF TypeOK
<1>7. TypeOK'
    BY <1>1, <1>3, <1>6, <1>9, StillTyped DEF TypeOK
<1>8. LoopInv'
    BY <1>1, <1>3, StillInLoop DEF loopVars
<1> QED BY <1>7, <1>8

\* The end of the data, the printing and the end keep the types.
LEMMA TypeEnd ==
    ASSUME TypeOK, LoopInv,
           EndOfData \/ PrintAggregation0 \/ (\E g \in iterated : PrintAggregation1(g)) \/ EndQuery
    PROVE  TypeOK' /\ LoopInv'
<1>1. /\ UNCHANGED loopVars /\ UNCHANGED <<vk, agg, aggCount, aggMap, aggCountMap>>
      /\ pc' \in {"print", "fault", "done"}
    BY DEF EndOfData, PrintAggregation0, PrintAggregation1, EndQuery
<1>2. TypeOK'
    BY <1>1, StillTyped DEF TypeOK
<1>3. LoopInv'
    BY <1>1, StillInLoop DEF loopVars
<1> QED BY <1>2, <1>3

----------------------------------------------------------------------------
\* GROUP BY.

\* A query that needs no table has no context.
LEMMA NoContext ==
    ASSUME TypeOK
    PROVE  httype = {} <=> DOMAIN aggContexts = {}
<1>1. \A c : HTType(c) # {} \/ c.ftype = "NONE"
    BY DEF HTType
<1>2. \A j \in DOMAIN aggContexts : aggContexts[j].ftype # "NONE"
    BY QueryFacts DEF IsContext, Aggregates, AggFuncType
<1>3. httype = UNION {HTType(aggContexts[j]) : j \in DOMAIN aggContexts}
    BY QueryFacts
<1> QED BY <1>1, <1>2, <1>3

\* A row that is read is not among those a context has aggregated: it is not
\* selected, or the loop comes to the context later.
LEMMA DoneQueryExec ==
    ASSUME TypeOK, NEW r \in Rows, QueryExec(r),
           query.keys = <<>> \/ (Len(query.keys) = 1 /\ pc' # "fault")
    PROVE  \A j \in DOMAIN aggContexts : Done(j)' = Done(j)
<1> SUFFICES ASSUME NEW j \in DOMAIN aggContexts
             PROVE  Done(j)' = Done(j)
    OBVIOUS
<1>1. /\ rows \in Seq(Rows) /\ rows' = Append(rows, r) /\ pc = "row" /\ query' = query
    BY DEF QueryExec, TypeOK
<1>2. Done(j) = Selected(query, rows)
    BY <1>1 DEF Done
<1>3. Done(j)' = Selected(query, IF pc' \in {"fold", "group"} /\ j >= vk' THEN Front(rows')
                                 ELSE rows')
    BY <1>1 DEF Done
<1>4. CASE Skip(r)
    <2>1. pc' = "row" /\ r \notin query.where
        BY <1>1, <1>4 DEF Skip
    <2>2. Selected(query, rows') = Selected(query, rows)
        BY <1>1, <2>1, SelectedAppend
    <2> QED BY <1>2, <1>3, <2>1, <2>2
<1>5. CASE Project(r)
    BY <1>5, NoContext DEF Project
<1>6. CASE Aggregation(r)
    <2>1. /\ pc' = IF aggContexts = <<>> \/ Len(query.keys) > 1 THEN "row"
                   ELSE IF query.keys = <<>> THEN "fold"
                   ELSE IF KeyType[query.keys[1]] = "TEXT" THEN "group"
                   ELSE "fault"
          /\ vk' = IF pc' \in {"fold", "group"} THEN 1 ELSE vk
        BY <1>6 DEF Aggregation
    <2>2. aggContexts # <<>>
        OBVIOUS
    <2>3. ~(Len(query.keys) > 1)
        <3>1. CASE query.keys = <<>>
            <4>1. Len(query.keys) = 0
                BY <3>1
            <4> QED BY <4>1
        <3>2. CASE Len(query.keys) = 1
            BY <3>2
        <3> QED BY <3>1, <3>2
    <2>4. pc' \in {"fold", "group"}
        BY <2>1, <2>2, <2>3
    <2>5. j >= vk'
        BY <2>1, <2>4, QueryFacts
    <2>6. Front(rows') = rows
        BY <1>1, FrontLast
    <2> QED BY <1>2, <1>3, <2>4, <2>5, <2>6
<1> QED BY <1>4, <1>5, <1>6 DEF QueryExec

\* What a table has for a group and a context, the initial value if nothing.
ValueAt(g, j) == IF g \in DOMAIN aggMap THEN aggMap[g][j] ELSE InitialValue(aggContexts[j])
CountAt(g, j) == IF g \in DOMAIN aggCountMap THEN aggCountMap[g][j] ELSE 0

\* Which tables the functions fill.
LEMMA NeedsOf ==
    ASSUME TypeOK, NEW j \in DOMAIN aggContexts
    PROVE  /\ j \in Needs("value") <=> aggContexts[j].ftype \in ValueFunctions
           /\ j \in Needs("count") <=> aggContexts[j].ftype \in {"COUNT", "AVG", "DISTINCT"}
<1>1. aggContexts[j].ftype \in AggFuncType
    BY QueryFacts DEF IsContext, Aggregates
<1> QED BY <1>1 DEF Needs, HTType, AggFuncType, ValueFunctions

\* What a table would hold for a group it does not have yet is right, too:
\* the functions that fill the table have not seen a row of that group.
LEMMA AtExact ==
    ASSUME TypeOK, LoopInv, GroupsExact, pc = "group"
    PROVE  \A j \in DOMAIN aggContexts : \A g :
                LET d == GroupOf(query, Done(j), g)
                IN  /\ ValueAt(g, j) = ValueOf(aggContexts[j], d)
                    /\ CountAt(g, j) = CountOf(aggContexts[j], d)
<1> SUFFICES ASSUME NEW j \in DOMAIN aggContexts, NEW g
             PROVE  LET d == GroupOf(query, Done(j), g)
                    IN  /\ ValueAt(g, j) = ValueOf(aggContexts[j], d)
                        /\ CountAt(g, j) = CountOf(aggContexts[j], d)
    OBVIOUS
<1> DEFINE d == GroupOf(query, Done(j), g)
           c == aggContexts[j]
<1>1. /\ DOMAIN aggMap = UNION {GroupKeys(query, Done(i)) : i \in Needs("value")}
      /\ DOMAIN aggCountMap = UNION {GroupKeys(query, Done(i)) : i \in Needs("count")}
      /\ g \in DOMAIN aggMap => aggMap[g][j] = ValueOf(c, d)
      /\ g \in DOMAIN aggCountMap => aggCountMap[g][j] = CountOf(c, d)
    BY DEF GroupsExact, LoopInv
<1>2. Done(j) \in Seq(Rows)
    <2>1. rows \in Seq(Rows) /\ Front(rows) \in Seq(Rows)
        BY LoopFacts, FrontLast
    <2> QED BY <2>1, SelectedAppend DEF Done
<1>3. g \notin GroupKeys(query, Done(j)) => d = <<>>
    BY <1>2, GroupOfKeys
<1>4. ASSUME g \notin DOMAIN aggMap
      PROVE  InitialValue(c) = ValueOf(c, d)
    <2>1. CASE c.ftype \in ValueFunctions
        <3>1. j \in Needs("value")
            BY <2>1, NeedsOf
        <3>2. d = <<>>
            BY <1>1, <1>3, <1>4, <3>1
        <3> QED BY <3>2 DEF ValueOf
    <2>2. CASE c.ftype \notin ValueFunctions
        BY <2>2 DEF ValueOf
    <2> QED BY <2>1, <2>2
<1>5. ASSUME g \notin DOMAIN aggCountMap
      PROVE  0 = CountOf(c, d)
    <2>1. CASE c.ftype \in {"COUNT", "AVG"}
        <3>1. j \in Needs("count")
            BY <2>1, NeedsOf
        <3>2. d = <<>>
            BY <1>1, <1>3, <1>5, <3>1
        <3> QED BY <3>2 DEF CountOf
    <2>2. CASE c.ftype \notin {"COUNT", "AVG"}
        BY <2>2 DEF CountOf
    <2> QED BY <2>1, <2>2
<1> HIDE DEF c, d
<1>6. ValueAt(g, j) = ValueOf(c, d) /\ CountAt(g, j) = CountOf(c, d)
    BY <1>1, <1>4, <1>5 DEF ValueAt, CountAt, c
<1> QED BY <1>6 DEF c, d

\* A turn of the loop that fills the tables its function needs, and changes
\* the value and the count of its group and its context only, keeps them exact.
LEMMA GroupTurn ==
    ASSUME TypeOK, LoopInv, GroupsExact, pc = "group", NextContext, UNCHANGED <<query, rows>>,
           DOMAIN aggMap' = DOMAIN aggMap \cup (IF vk \in Needs("value") THEN {group} ELSE {}),
           DOMAIN aggCountMap' =
                DOMAIN aggCountMap \cup (IF vk \in Needs("count") THEN {group} ELSE {}),
           \A g \in DOMAIN aggMap' : \A j \in DOMAIN aggContexts :
                aggMap'[g][j] = IF g = group /\ j = vk /\ vk \in Needs("value")
                                THEN Updated(aggContexts[vk], ValueAt(g, vk), tuple[aggContexts[vk].key])
                                ELSE ValueAt(g, j),
           \A g \in DOMAIN aggCountMap' : \A j \in DOMAIN aggContexts :
                aggCountMap'[g][j] = IF g = group /\ j = vk /\ aggContexts[vk].ftype \in {"COUNT", "AVG"}
                                     THEN CountAt(g, vk) + 1 ELSE CountAt(g, j)
    PROVE  GroupsExact'
<1> DEFINE c == aggContexts[vk]
           D == DOMAIN aggContexts
           d == Done(vk)
<1>1. /\ vk \in D /\ tuple \in Rows /\ d \in Seq(Rows) /\ MaxRows # 0
      /\ \A j \in D : Done(j)' = IF j = vk THEN Append(d, tuple) ELSE Done(j)
    BY LoopFacts, OneContext
<1>2. aggContexts' = aggContexts /\ Needs("value")' = Needs("value") /\ Needs("count")' = Needs("count")
    BY DEF aggContexts, Needs
<1>3. \A table : Needs(table) \subseteq D
    BY DEF Needs
<1>4. GroupKeys(query, Append(d, tuple)) = GroupKeys(query, d) \cup {group}
    BY <1>1, GroupKeysAppend DEF group
<1>5. \A g : GroupOf(query, Append(d, tuple), g) =
                IF group = g THEN Append(GroupOf(query, d, g), tuple) ELSE GroupOf(query, d, g)
    <2> SUFFICES ASSUME NEW g
                 PROVE  GroupOf(query, Append(d, tuple), g) =
                        IF group = g THEN Append(GroupOf(query, d, g), tuple) ELSE GroupOf(query, d, g)
        OBVIOUS
    <2>1. d \in Seq(Rows) /\ tuple \in Rows
        BY <1>1
    <2> HIDE DEF d
    <2>2. \A r \in Rows : GroupOf(query, Append(d, r), g) =
                IF r[query.keys[1]] = g THEN Append(GroupOf(query, d, g), r)
                ELSE GroupOf(query, d, g)
        BY <2>1, GroupOfAppend
    <2> QED BY <2>1, <2>2 DEF group
<1>6. \A table : UNION {GroupKeys(query, Done(j)') : j \in Needs(table)} =
                 (UNION {GroupKeys(query, Done(j)) : j \in Needs(table)})
                    \cup (IF vk \in Needs(table) THEN {group} ELSE {})
    <2> SUFFICES ASSUME NEW table
                 PROVE  UNION {GroupKeys(query, Done(j)') : j \in Needs(table)} =
                        (UNION {GroupKeys(query, Done(j)) : j \in Needs(table)})
                            \cup (IF vk \in Needs(table) THEN {group} ELSE {})
        OBVIOUS
    <2>1. \A j \in Needs(table) : GroupKeys(query, Done(j)') =
                GroupKeys(query, Done(j)) \cup (IF j = vk THEN {group} ELSE {})
        <3> SUFFICES ASSUME NEW j \in Needs(table)
                     PROVE  GroupKeys(query, Done(j)') =
                            GroupKeys(query, Done(j)) \cup (IF j = vk THEN {group} ELSE {})
            OBVIOUS
        <3>1. CASE j = vk
            <4>1. Done(j)' = Append(d, tuple) /\ Done(j) = d
                BY <1>1, <3>1
            <4> QED BY <1>4, <3>1, <4>1
        <3>2. CASE j # vk
            BY <1>1, <1>3, <3>2
        <3> QED BY <3>1, <3>2
    <2> QED BY <2>1
<1>7. /\ DOMAIN aggMap = UNION {GroupKeys(query, Done(j)) : j \in Needs("value")}
      /\ DOMAIN aggCountMap = UNION {GroupKeys(query, Done(j)) : j \in Needs("count")}
    BY DEF GroupsExact, LoopInv
<1>8. /\ DOMAIN aggMap' = UNION {GroupKeys(query, Done(j)') : j \in Needs("value")}
      /\ DOMAIN aggCountMap' = UNION {GroupKeys(query, Done(j)') : j \in Needs("count")}
    BY <1>6, <1>7
<1>9. ASSUME NEW j \in D, NEW g
      PROVE  LET was == GroupOf(query, Done(j), g)
                 now == GroupOf(query, Done(j)', g)
             IN  /\ now = IF j = vk /\ g = group THEN Append(was, tuple) ELSE was
                 /\ was \in Seq(Rows)
                 /\ ValueAt(g, j) = ValueOf(aggContexts[j], was)
                 /\ CountAt(g, j) = CountOf(aggContexts[j], was)
    <2>1. CASE j = vk
        BY <1>1, <1>5, <2>1, AtExact, GroupOfAppend
    <2>2. CASE j # vk
        <3>1. GroupOf(query, Done(j), g) \in Seq(Rows)
            <4>1. rows \in Seq(Rows) /\ Front(rows) \in Seq(Rows)
                BY LoopFacts, FrontLast
            <4>2. Done(j) \in Seq(Rows)
                BY <4>1, SelectedAppend DEF Done
            <4> QED BY <4>2, GroupOfKeys
        <3> QED BY <1>1, <2>2, <3>1, AtExact
    <2> QED BY <2>1, <2>2
<1>10. ASSUME NEW j \in D, NEW g
       PROVE  /\ ValueOf(aggContexts[j], GroupOf(query, Done(j)', g)) =
                    IF g = group /\ j = vk /\ vk \in Needs("value")
                    THEN Updated(c, ValueAt(g, vk), tuple[c.key]) ELSE ValueAt(g, j)
              /\ CountOf(aggContexts[j], GroupOf(query, Done(j)', g)) =
                    IF g = group /\ j = vk /\ c.ftype \in {"COUNT", "AVG"}
                    THEN CountAt(g, vk) + 1 ELSE CountAt(g, j)
    <2> DEFINE was == GroupOf(query, Done(j), g)
               now == GroupOf(query, Done(j)', g)
    <2>1. /\ now = IF j = vk /\ g = group THEN Append(was, tuple) ELSE was
          /\ was \in Seq(Rows)
          /\ ValueAt(g, j) = ValueOf(aggContexts[j], was)
          /\ CountAt(g, j) = CountOf(aggContexts[j], was)
        BY <1>9
    <2>2. IsContext(aggContexts[j])
        BY QueryFacts
    <2>3. vk \in Needs("value") <=> c.ftype \in ValueFunctions
        BY <1>1, NeedsOf
    <2> HIDE DEF was, now
    <2>4. CASE j = vk /\ g = group
        <3>1. now = Append(was, tuple)
            BY <2>1, <2>4
        <3>2. /\ ValueOf(c, Append(was, tuple)) = IF c.ftype \in ValueFunctions
                                                  THEN Updated(c, ValueOf(c, was), tuple[c.key])
                                                  ELSE ValueOf(c, was)
              /\ CountOf(c, Append(was, tuple)) = IF c.ftype \in {"COUNT", "AVG"}
                                                  THEN CountOf(c, was) + 1 ELSE CountOf(c, was)
            BY <1>1, <2>1, <2>2, <2>4, ValueAppend
        <3> QED BY <2>1, <2>3, <2>4, <3>1, <3>2 DEF now
    <2>5. CASE ~(j = vk /\ g = group)
        BY <2>1, <2>5 DEF now
    <2> QED BY <2>4, <2>5
<1> HIDE DEF D, c, d
<1>11. /\ \A j \in D : \A g \in DOMAIN aggMap' :
            aggMap'[g][j] = ValueOf(aggContexts[j], GroupOf(query, Done(j)', g))
       /\ \A j \in D : \A g \in DOMAIN aggCountMap' :
            aggCountMap'[g][j] = CountOf(aggContexts[j], GroupOf(query, Done(j)', g))
    BY <1>10 DEF D, c
<1> QED BY <1>2, <1>8, <1>11 DEF GroupsExact, D

\* One cell of a table is written.
LEMMA OneCell ==
    ASSUME NEW B, NEW g \in DOMAIN B, NEW k \in DOMAIN B[g], NEW w
    PROVE  LET u == [B EXCEPT ![g][k] = w]
           IN  /\ DOMAIN u = DOMAIN B
               /\ \A h \in DOMAIN B : \A j \in DOMAIN B[h] :
                    u[h][j] = IF h = g /\ j = k THEN w ELSE B[h][j]
OBVIOUS

\* What assign leaves of the tables.
LEMMA Assigned ==
    ASSUME TypeOK, NEW g
    PROVE  LET vs == AssignValues(aggMap, g)
               cs == AssignCounts(aggCountMap, g)
               D == DOMAIN aggContexts
           IN  /\ DOMAIN vs = DOMAIN aggMap \cup {g} /\ DOMAIN cs = DOMAIN aggCountMap \cup {g}
               /\ \A h \in DOMAIN vs : DOMAIN vs[h] = D /\ \A j \in D : vs[h][j] = ValueAt(h, j)
               /\ \A h \in DOMAIN cs : DOMAIN cs[h] = D /\ \A j \in D : cs[h][j] = CountAt(h, j)
BY DEF AssignValues, AssignCounts, Assign, ValueAt, CountAt, TypeOK

\* The functions of aggregation1 keep the tables exact.
LEMMA GroupsGroup ==
    ASSUME TypeOK, LoopInv, GroupsExact, NEW c,
           GroupCount(c) \/ GroupDistinct(c) \/ GroupValue(c) \/ GroupAvg(c)
    PROVE  GroupsExact'
<1> DEFINE D == DOMAIN aggContexts
           vs == AssignValues(aggMap, group)
           cs == AssignCounts(aggCountMap, group)
<1>1. pc = "group" /\ c = aggContexts[vk] /\ query' = query /\ rows' = rows
    BY DEF GroupCount, GroupDistinct, GroupValue, GroupAvg, Grouping, loopVars
<1>2. vk \in D
    BY <1>1, LoopFacts
<1>3. /\ DOMAIN vs = DOMAIN aggMap \cup {group} /\ DOMAIN cs = DOMAIN aggCountMap \cup {group}
      /\ \A h \in DOMAIN vs : DOMAIN vs[h] = D /\ \A j \in D : vs[h][j] = ValueAt(h, j)
      /\ \A h \in DOMAIN cs : DOMAIN cs[h] = D /\ \A j \in D : cs[h][j] = CountAt(h, j)
    BY Assigned
<1>4. /\ \A h \in DOMAIN aggMap : DOMAIN aggMap[h] = D
      /\ \A h \in DOMAIN aggCountMap : DOMAIN aggCountMap[h] = D
      /\ \A h \in DOMAIN aggMap : \A j \in D : aggMap[h][j] = ValueAt(h, j)
      /\ \A h \in DOMAIN aggCountMap : \A j \in D : aggCountMap[h][j] = CountAt(h, j)
    BY DEF TypeOK, ValueAt, CountAt
<1>5. /\ vk \in Needs("value") <=> c.ftype \in ValueFunctions
      /\ vk \in Needs("count") <=> c.ftype \in {"COUNT", "AVG", "DISTINCT"}
    BY <1>1, <1>2, NeedsOf
<1> DEFINE nv == Updated(c, ValueAt(group, vk), tuple[c.key])
           nc == CountAt(group, vk) + 1
           Valued == [vs EXCEPT ![group][vk] = nv]
           Counted == [cs EXCEPT ![group][vk] = nc]
           Values1(table) ==
              /\ DOMAIN table = DOMAIN aggMap \cup {group}
              /\ \A g \in DOMAIN table : \A j \in D :
                    table[g][j] = IF g = group /\ j = vk THEN nv ELSE ValueAt(g, j)
           Counts1(table) ==
              /\ DOMAIN table = DOMAIN aggCountMap \cup {group}
              /\ \A g \in DOMAIN table : \A j \in D :
                    table[g][j] = IF g = group /\ j = vk THEN nc ELSE CountAt(g, j)
<1>6. Values1(Valued)
    <2> HIDE DEF vs, nv, D
    <2>1. group \in DOMAIN vs /\ vk \in DOMAIN vs[group]
        BY <1>2, <1>3
    <2>2. /\ DOMAIN Valued = DOMAIN vs
          /\ \A h \in DOMAIN vs : \A j \in DOMAIN vs[h] :
                Valued[h][j] = IF h = group /\ j = vk THEN nv ELSE vs[h][j]
        BY <2>1, OneCell
    <2> HIDE DEF Valued
    <2> QED BY <1>3, <2>2
<1>7. ASSUME NEW B, DOMAIN B = DOMAIN aggCountMap \cup {group},
             \A h \in DOMAIN B : DOMAIN B[h] = D /\ \A j \in D : B[h][j] = CountAt(h, j)
      PROVE  Counts1([B EXCEPT ![group][vk] = nc])
    <2> DEFINE u == [B EXCEPT ![group][vk] = nc]
    <2> HIDE DEF nc, D
    <2>1. group \in DOMAIN B /\ vk \in DOMAIN B[group]
        BY <1>2, <1>7
    <2>2. /\ DOMAIN u = DOMAIN B
          /\ \A h \in DOMAIN B : \A j \in DOMAIN B[h] :
                u[h][j] = IF h = group /\ j = vk THEN nc ELSE B[h][j]
        BY <2>1, OneCell
    <2> HIDE DEF u
    <2>3. Counts1(u)
        BY <1>7, <2>2
    <2> QED BY <2>3 DEF u
<1>8. Counts1(Counted)
    <2> HIDE DEF cs, nc, D, Counts1
    <2> QED BY <1>3, <1>7
<1>9. /\ vs[group][vk] = ValueAt(group, vk) /\ cs[group][vk] = CountAt(group, vk)
    BY <1>2, <1>3
<1>10. CASE GroupCount(c)
    <2>1. /\ c.ftype = "COUNT" /\ NextContext /\ aggMap' = aggMap
          /\ aggCountMap' = Counted
        BY <1>9, <1>10 DEF GroupCount
    <2>2. vk \notin Needs("value") /\ vk \in Needs("count")
        BY <1>5, <2>1 DEF ValueFunctions
    <2>3. Counts1(aggCountMap')
        BY <1>8, <2>1
    <2> HIDE DEF nv, vs, cs, Counted
    <2> QED BY <1>1, <1>4, <2>1, <2>2, <2>3, GroupTurn
<1>11. CASE GroupDistinct(c)
    <2>1. /\ c.ftype = "DISTINCT" /\ NextContext /\ aggMap' = aggMap
          /\ aggCountMap' = cs
        BY <1>11 DEF GroupDistinct
    <2>2. vk \notin Needs("value") /\ vk \in Needs("count")
        BY <1>5, <2>1 DEF ValueFunctions
    <2> HIDE DEF nv, vs, cs, Counted
    <2> QED BY <1>1, <1>3, <1>4, <2>1, <2>2, GroupTurn
<1>12. CASE GroupValue(c)
    <2>1. /\ c.ftype \in {"SUM", "MAX", "MIN"} /\ NextContext /\ aggCountMap' = aggCountMap
          /\ aggMap' = Valued
        BY <1>9, <1>12 DEF GroupValue, UpdateValue
    <2>2. vk \in Needs("value") /\ vk \notin Needs("count")
        BY <1>5, <2>1 DEF ValueFunctions
    <2>3. Values1(aggMap')
        BY <1>6, <2>1
    <2> HIDE DEF vs, cs, Valued
    <2> QED BY <1>1, <1>4, <2>1, <2>2, <2>3, GroupTurn
<1>13. CASE GroupAvg(c)
    <2> DEFINE B == IF group \in DOMAIN aggMap THEN aggCountMap ELSE cs
    <2>1. /\ c.ftype = "AVG" /\ aggMap' = Valued
          /\ IF group \in DOMAIN B
             THEN aggCountMap' = [B EXCEPT ![group][vk] = B[group][vk] + 1] /\ NextContext
             ELSE pc' = "fault"
        BY <1>9, <1>13 DEF GroupAvg, UpdateValue
    <2>2. CASE group \notin DOMAIN B
        BY <2>1, <2>2 DEF GroupsExact
    <2>3. CASE group \in DOMAIN B
        <3>1. /\ DOMAIN B = DOMAIN aggCountMap \cup {group}
              /\ \A h \in DOMAIN B : DOMAIN B[h] = D /\ \A j \in D : B[h][j] = CountAt(h, j)
            BY <1>3, <1>4, <2>3
        <3>2. B[group][vk] = CountAt(group, vk)
            BY <1>2, <2>3, <3>1
        <3> HIDE DEF B
        <3>3. Counts1([B EXCEPT ![group][vk] = nc])
            <4> HIDE DEF Counts1
            <4> QED BY <1>7, <3>1
        <3>4. aggCountMap' = [B EXCEPT ![group][vk] = nc] /\ NextContext
            BY <2>1, <2>3, <3>2
        <3>5. Counts1(aggCountMap')
            <4> HIDE DEF Counts1
            <4> QED BY <3>3, <3>4
        <3>6. vk \in Needs("value") /\ vk \in Needs("count")
            BY <1>5, <2>1 DEF ValueFunctions
        <3>7. Values1(aggMap')
            BY <1>6, <2>1
        <3> HIDE DEF vs, cs, Valued
        <3> QED BY <1>1, <1>4, <2>1, <3>4, <3>5, <3>6, <3>7, GroupTurn
    <2> QED BY <2>2, <2>3
<1> QED BY <1>10, <1>11, <1>12, <1>13

\* Nothing else touches the tables.
LEMMA GroupsRest ==
    ASSUME TypeOK, GroupsExact, UNCHANGED <<query, rows, aggMap, aggCountMap>>,
           (pc' = pc /\ vk' = vk) \/ {pc, pc'} \subseteq {"row", "print", "done", "fault"},
           pc' # "fault" => pc # "fault"
    PROVE  GroupsExact'
<1>1. aggContexts' = aggContexts /\ Needs("value")' = Needs("value") /\ Needs("count")' = Needs("count")
    BY DEF aggContexts, Needs
<1>2. \A j : Done(j)' = Done(j)
    BY DEF Done
<1> QED BY <1>1, <1>2 DEF GroupsExact

\* Nor does a row that is read.
LEMMA GroupsQueryExec ==
    ASSUME TypeOK, GroupsExact, NEW r \in Rows, QueryExec(r)
    PROVE  GroupsExact'
<1>1. pc = "row" /\ UNCHANGED <<query, aggMap, aggCountMap>>
    BY DEF QueryExec
<1>2. aggContexts' = aggContexts /\ Needs("value")' = Needs("value") /\ Needs("count")' = Needs("count")
    BY <1>1 DEF aggContexts, Needs
<1>3. CASE Len(query.keys) = 1 /\ pc' # "fault"
    <2>1. \A j \in DOMAIN aggContexts : Done(j)' = Done(j)
        BY <1>3, DoneQueryExec
    <2>2. Needs("value") \subseteq DOMAIN aggContexts /\ Needs("count") \subseteq DOMAIN aggContexts
        BY DEF Needs
    <2> QED BY <1>1, <1>2, <1>3, <2>1, <2>2 DEF GroupsExact
<1>4. CASE ~(Len(query.keys) = 1 /\ pc' # "fault")
    BY <1>1, <1>4 DEF GroupsExact
<1> QED BY <1>3, <1>4

----------------------------------------------------------------------------
\* Without GROUP BY.

\* A row that is read does not change what the cells should hold.
LEMMA CellsQueryExec ==
    ASSUME TypeOK, CellsExact, NEW r \in Rows, QueryExec(r)
    PROVE  CellsExact'
<1> SUFFICES ASSUME query.keys = <<>>
             PROVE  CellsExact'
    BY DEF QueryExec, CellsExact
<1>1. UNCHANGED <<query, wild, agg, aggCount>>
    BY DEF QueryExec
<1>2. aggContexts' = aggContexts /\ Cells' = Cells /\ Cells = DOMAIN aggContexts
    BY <1>1 DEF aggContexts, Cells
<1>3. \A j \in DOMAIN aggContexts : Done(j)' = Done(j)
    BY DoneQueryExec
<1> QED BY <1>1, <1>2, <1>3 DEF CellsExact

\* A turn of aggregation0: if the cell of the context is overtaken by a
\* negative INT nothing is promised, otherwise the row is added to it.
LEMMA CellsFold ==
    ASSUME TypeOK, LoopInv, CellsExact, NEW c,
           FoldSkip(c) \/ FoldCount(c) \/ FoldSum(c) \/ FoldExtreme(c)
    PROVE  CellsExact'
<1> DEFINE d == Done(vk)
           t == tuple
           now == Append(d, t)
<1>1. /\ pc = "fold" /\ c = aggContexts[vk] /\ NextContext /\ query.keys = <<>>
      /\ UNCHANGED <<query, wild, rows>>
    BY DEF FoldSkip, FoldCount, FoldSum, FoldExtreme, Folding, loopVars, LoopInv
<1>2. aggContexts' = aggContexts /\ Cells' = Cells /\ Cells = DOMAIN aggContexts
    BY <1>1 DEF aggContexts, Cells
<1>3. /\ vk \in Cells /\ t \in Rows /\ d \in Seq(Rows) /\ Len(d) < MaxRows /\ MaxRows # 0
      /\ DOMAIN agg = Cells /\ DOMAIN aggCount = Cells
    BY <1>1, <1>2, LoopFacts DEF TypeOK
<1>4. \A j \in Cells : Done(j)' = IF j = vk THEN now ELSE Done(j)
    BY <1>1, <1>2, OneContext
<1>5. IsContext(c)
    BY <1>1, <1>2, <1>3, QueryFacts
<1>6. \A j \in Cells : j # vk => agg'[j] = agg[j] /\ aggCount'[j] = aggCount[j]
    BY <1>3 DEF FoldSkip, FoldCount, FoldSum, FoldExtreme
<1>7. ASSUME ~wild[vk], NonNegative(c, now)
      PROVE  agg'[vk] = ValueOf(c, now) /\ aggCount'[vk] = CountOf(c, now)
    <2> DEFINE a == ValueOf(c, d)
               n == CountOf(c, d)
               v == t[c.key]
    <2>1. NonNegative(c, d)
        BY <1>3, <1>7, NonNegativeAppend
    <2>2. agg[vk] = a /\ aggCount[vk] = n
        BY <1>1, <1>3, <1>7, <2>1 DEF CellsExact
    <2>3. /\ ValueOf(c, now) = IF c.ftype \in ValueFunctions THEN Updated(c, a, v) ELSE a
          /\ CountOf(c, now) = IF c.ftype \in {"COUNT", "AVG"} THEN n + 1 ELSE n
        BY <1>3, <1>5, ValueAppend
    <2>4. c.ftype \in ValueFunctions =>
            /\ c.ftype \in {"SUM", "AVG"} => DoubleSums(c, a, v) = {Updated(c, a, v)}
            /\ c.ftype = "MAX" => DoubleMax(c, a, v) = Updated(c, a, v)
            /\ c.ftype = "MIN" => DoubleMin(c, a, v) = Updated(c, a, v)
        BY <1>3, <1>5, <1>7, FoldedValue
    <2> HIDE DEF a, n, v, now
    <2>5. CASE FoldSkip(c)
        <3>1. c.ftype = "DISTINCT" /\ agg' = agg /\ aggCount' = aggCount
            BY <1>7, <2>5 DEF FoldSkip
        <3> QED BY <2>2, <2>3, <3>1 DEF ValueFunctions
    <2>6. CASE FoldCount(c)
        <3>1. c.ftype = "COUNT" /\ agg' = agg /\ aggCount'[vk] = aggCount[vk] + 1
            BY <1>3, <2>6 DEF FoldCount
        <3> QED BY <2>2, <2>3, <3>1 DEF ValueFunctions
    <2>7. CASE FoldSum(c)
        <3>1. /\ c.ftype \in {"SUM", "AVG"}
              /\ agg'[vk] \in DoubleSums(c, agg[vk], v)
              /\ aggCount'[vk] = IF c.ftype = "AVG" THEN aggCount[vk] + 1 ELSE aggCount[vk]
            BY <1>3, <2>7 DEF FoldSum, v
        <3> QED BY <2>2, <2>3, <2>4, <3>1 DEF ValueFunctions
    <2>8. CASE FoldExtreme(c)
        <3>1. /\ c.ftype \in {"MAX", "MIN"} /\ aggCount' = aggCount
              /\ agg'[vk] = IF c.ftype = "MAX" THEN DoubleMax(c, agg[vk], v)
                            ELSE DoubleMin(c, agg[vk], v)
            BY <1>3, <2>8 DEF FoldExtreme, v
        <3> QED BY <2>2, <2>3, <2>4, <3>1 DEF ValueFunctions
    <2> QED BY <2>5, <2>6, <2>7, <2>8
<1> HIDE DEF now
<1>8. ASSUME NEW j \in Cells, ~wild[j], NonNegative(aggContexts[j], Done(j)')
      PROVE  /\ agg'[j] = ValueOf(aggContexts[j], Done(j)')
             /\ aggCount'[j] = CountOf(aggContexts[j], Done(j)')
    <2>1. CASE j = vk
        BY <1>1, <1>4, <1>7, <1>8, <2>1
    <2>2. CASE j # vk
        BY <1>1, <1>4, <1>6, <1>8, <2>2 DEF CellsExact
    <2> QED BY <2>1, <2>2
<1> QED BY <1>1, <1>2, <1>8 DEF CellsExact

\* Nothing else touches the cells.
LEMMA CellsRest ==
    ASSUME TypeOK, CellsExact, UNCHANGED <<query, wild, rows, agg, aggCount>>,
           \/ query.keys # <<>>
           \/ pc' = pc /\ vk' = vk
           \/ {pc, pc'} \subseteq {"row", "print", "done", "fault"}
    PROVE  CellsExact'
<1>1. aggContexts' = aggContexts /\ Cells' = Cells
    BY DEF aggContexts, Cells
<1>2. CASE query.keys # <<>>
    BY <1>2 DEF CellsExact
<1>3. CASE (pc' = pc /\ vk' = vk) \/ {pc, pc'} \subseteq {"row", "print", "done", "fault"}
    <2>1. \A j : Done(j)' = Done(j)
        BY <1>3 DEF Done
    <2> QED BY <1>1, <2>1 DEF CellsExact
<1> QED BY <1>2, <1>3

----------------------------------------------------------------------------
\* What is printed.

\* A line more.
LEMMA LineAppend ==
    ASSUME NEW l, l \in Seq(Range(l)), NEW x
    PROVE  Append(l, x) \in Seq(Range(Append(l, x))) /\ Len(Append(l, x)) = Len(l) + 1
<1> DEFINE T == Range(l) \cup {x}
<1>1. Range(l) \subseteq T /\ x \in T
    OBVIOUS
<1> HIDE DEF T
<1>2. l \in Seq(T)
    BY <1>1, SeqMonotonic
<1>3. Append(l, x) \in Seq(T) /\ Len(Append(l, x)) = Len(l) + 1 /\ Range(Append(l, x)) = Range(l) \cup {x}
    BY <1>1, <1>2, AppendProperties, RangeAppend
<1> QED BY <1>3 DEF T

\* A row more: it is counted if it is selected, and printed by a projection
\* below the limit.
LEMMA OutQueryExec ==
    ASSUME TypeOK, OutInv, NEW r \in Rows, QueryExec(r)
    PROVE  OutInv'
<1>1. /\ pc = "row" /\ rows \in Seq(Rows) /\ rows' = Append(rows, r)
      /\ UNCHANGED <<query, aggMap, aggCountMap, printed>>
    BY DEF QueryExec, TypeOK
<1>2. httype' = httype /\ iterated' = iterated
    BY <1>1 DEF httype, iterated
<1> DEFINE sel == Selected(query, rows)
<1>3. /\ Selected(query, rows') = IF r \in query.where THEN Append(sel, r) ELSE sel
      /\ sel \in Seq(Rows)
    BY <1>1, SelectedAppend
<1>4. Len(Append(sel, r)) = Len(sel) + 1 /\ Len(sel) \in Nat
    BY <1>3, AppendProperties
<1>5. count' = Len(Selected(query, rows')) /\ count \in Nat
    <2>1. count = Len(sel)
        BY DEF OutInv
    <2>2. IF r \in query.where THEN count' = count + 1 ELSE count' = count
        BY DEF QueryExec, Skip, Project, Aggregation
    <2> HIDE DEF sel
    <2> QED BY <1>3, <1>4, <2>1, <2>2
<1>8. out' \in Seq(Range(out'))
    <2>1. out' = out \/ \E line : out' = Append(out, line)
        BY DEF QueryExec, Skip, Project, Aggregation
    <2> QED BY <2>1, LineAppend DEF OutInv
<1>6. CASE httype = {}
    <2>1. query.limit \in Nat
        BY QueryFacts
    <2>2. query.stmts # <<WildCard>> =>
                Len(out') = IF count' <= query.limit THEN count' ELSE query.limit
        <3> SUFFICES ASSUME query.stmts # <<WildCard>>
                     PROVE  Len(out') = IF count' <= query.limit THEN count' ELSE query.limit
            OBVIOUS
        <3>1. Len(out) = IF count <= query.limit THEN count ELSE query.limit
            BY <1>6 DEF OutInv
        <3>2. CASE Skip(r)
            BY <3>1, <3>2 DEF Skip
        <3>3. CASE Project(r)
            <4>1. /\ count' = count + 1 /\ count' <= query.limit
                  /\ out' = Append(out, [i \in DOMAIN query.stmts |-> r[query.stmts[i].key]])
                BY <3>3 DEF Project
            <4>2. Len(out) = count
                BY <1>5, <2>1, <3>1, <4>1
            <4>3. Len(out') = Len(out) + 1
                BY <4>1, LineAppend DEF OutInv
            <4> QED BY <4>1, <4>2, <4>3
        <3>4. CASE Aggregation(r)
            <4>1. count' = count + 1 /\ ~(count' <= query.limit) /\ out' = out
                BY <1>6, <3>4 DEF Aggregation
            <4> QED BY <1>5, <2>1, <3>1, <4>1
        <3> QED BY <3>2, <3>3, <3>4 DEF QueryExec
    <2> QED BY <1>1, <1>2, <1>5, <1>6, <1>8, <2>2 DEF OutInv
<1>7. CASE httype # {}
    <2>1. out' = out
        BY <1>7 DEF QueryExec, Skip, Project, Aggregation
    <2>2. printed = {}
        BY <1>1, <1>7 DEF OutInv
    <2> QED BY <1>1, <1>2, <1>5, <1>7, <1>8, <2>1, <2>2 DEF OutInv
<1> QED BY <1>6, <1>7

\* The loops, the end of the data and the end print nothing.
LEMMA OutRest ==
    ASSUME OutInv, UNCHANGED <<query, rows, count, out, printed>>,
           \/ pc \in {"row", "fold", "group"}
           \/ /\ UNCHANGED <<aggMap, aggCountMap>>
              /\ pc' = pc \/ (pc # "fault" /\ pc' \in {"print", "done", "fault"})
    PROVE  OutInv'
<1>1. httype' = httype
    BY DEF httype
<1>2. CASE httype = {}
    BY <1>1, <1>2 DEF OutInv
<1>3. CASE httype # {} /\ pc \in {"row", "fold", "group"}
    <2>1. printed = {}
        BY <1>3 DEF OutInv
    <2> QED BY <1>1, <1>3, <2>1 DEF OutInv
<1>4. CASE httype # {} /\ UNCHANGED <<aggMap, aggCountMap>> /\
           (pc' = pc \/ (pc # "fault" /\ pc' \in {"print", "done", "fault"}))
    <2>1. iterated' = iterated
        BY <1>1, <1>4 DEF iterated
    <2> QED BY <1>1, <1>4, <2>1 DEF OutInv
<1> QED BY <1>2, <1>3, <1>4

\* Printing: a line for every group that is passed, unless it is a fault.
LEMMA OutPrint ==
    ASSUME TypeOK, OutInv, PrintAggregation0 \/ \E g \in iterated : PrintAggregation1(g)
    PROVE  OutInv'
<1>1. UNCHANGED <<query, rows, count, aggMap, aggCountMap>> /\ pc = "print" /\ httype # {}
    BY DEF PrintAggregation0, PrintAggregation1, loopVars
<1>2. httype' = httype /\ iterated' = iterated
    BY <1>1 DEF httype, iterated
<1>3. IsFiniteSet(printed) /\ Len(out) = Cardinality(printed) /\ out \in Seq(Range(out))
      /\ count = Len(Selected(query, rows))
    BY <1>1 DEF OutInv
<1>4. CASE PrintAggregation0
    <2>1. query.keys = <<>> /\ printed = {} /\ printed' = {Star} /\ out' = Append(out, TotalLine)
          /\ pc' = pc
        BY <1>4 DEF PrintAggregation0
    <2>2. out' \in Seq(Range(out')) /\ Len(out') = Len(out) + 1
        BY <1>3, <2>1, LineAppend
    <2>3. IsFiniteSet(printed') /\ Cardinality(printed') = 1 /\ Cardinality(printed) = 0
        BY <2>1, FS_Singleton, FS_EmptySet
    <2>4. Len(query.keys) # 1
        <3>1. Len(query.keys) = 0
            BY <2>1
        <3> QED BY <3>1
    <2>5. Len(out') = Cardinality(printed')
        BY <1>3, <2>2, <2>3
    <2> QED BY <1>1, <1>2, <1>3, <2>1, <2>2, <2>3, <2>4, <2>5 DEF OutInv
<1>5. ASSUME NEW g \in iterated, PrintAggregation1(g)
      PROVE  OutInv'
    <2>1. /\ g \notin printed /\ printed' = printed \cup {g} /\ Len(query.keys) = 1
          /\ \/ out' = Append(out, GroupLine(g)) /\ pc' = pc
             \/ out' = out /\ pc' = "fault"
        BY <1>5 DEF PrintAggregation1
    <2>2. IsFiniteSet(printed') /\ Cardinality(printed') = Cardinality(printed) + 1
        BY <1>3, <2>1, FS_AddElement
    <2>3. out' \in Seq(Range(out')) /\ (pc' # "fault" => Len(out') = Len(out) + 1)
        BY <1>1, <1>3, <2>1, LineAppend
    <2>4. query.keys # <<>>
        <3>1. query.keys = <<>> => Len(query.keys) = Len(<<>>)
            OBVIOUS
        <3> QED BY <2>1, <3>1
    <2>5. printed' \subseteq iterated
        BY <1>1, <1>5, <2>1 DEF OutInv
    <2>6. pc' # "fault" => Len(out') = Cardinality(printed')
        BY <1>3, <2>2, <2>3
    <2> QED BY <1>1, <1>2, <1>3, <2>1, <2>2, <2>3, <2>4, <2>5, <2>6 DEF OutInv
<1> QED BY <1>4, <1>5

----------------------------------------------------------------------------
\* The invariant.

\* It holds at the start.
LEMMA InitInv == Init => IInv
<1> SUFFICES ASSUME Init PROVE IInv
    OBVIOUS
<1>1. /\ query \in Queries /\ rows = <<>> /\ count = 0 /\ vk = 0 /\ pc = "row"
      /\ aggMap = <<>> /\ aggCountMap = <<>> /\ out = <<>> /\ printed = {}
      /\ DOMAIN agg = Cells /\ DOMAIN aggCount = Cells
    BY DEF Init
<1>2. DOMAIN aggMap = {} /\ DOMAIN aggCountMap = {}
    BY <1>1
<1>3. TypeOK
    <2>1. Len(aggContexts) \in Nat
        <3>1. aggContexts \in Seq(Statement)
            BY <1>1, QueryType DEF aggContexts
        <3> QED BY <3>1
    <2>2. rows \in Seq(Rows) /\ Len(rows) = 0 /\ MaxRows \in Nat
        BY <1>1, QueryAssumption DEF QueryAssumption
    <2>3. wild \in [Cells -> BOOLEAN]
        BY DEF Init
    <2> QED BY <1>1, <1>2, <2>1, <2>2, <2>3 DEF TypeOK
<1>4. LoopInv
    BY <1>1 DEF LoopInv
<1>5. Selected(query, rows) = <<>> /\ \A j : Done(j) = <<>>
    <2>1. Selected(query, <<>>) = <<>>
        BY SelectedAppend, EmptySeq
    <2> QED BY <1>1, <2>1 DEF Done
<1>6. GroupsExact
    <2>1. GroupKeys(query, <<>>) = {}
        BY DEF GroupKeys
    <2> QED BY <1>2, <1>5, <2>1 DEF GroupsExact
<1>7. CellsExact
    <2> SUFFICES ASSUME NEW j \in Cells, ~wild[j]
                 PROVE  /\ agg[j] = ValueOf(aggContexts[j], <<>>)
                        /\ aggCount[j] = CountOf(aggContexts[j], <<>>)
        BY <1>5 DEF CellsExact
    <2>1. agg[j] = InitialValue(aggContexts[j]) /\ aggCount[j] = 0
        BY DEF Init
    <2>2. ValueOf(aggContexts[j], <<>>) = InitialValue(aggContexts[j])
        BY DEF ValueOf
    <2>3. CountOf(aggContexts[j], <<>>) = 0
        BY DEF CountOf
    <2> QED BY <2>1, <2>2, <2>3
<1>8. OutInv
    <2>1. out \in Seq(Range(out)) /\ Len(out) = 0
        BY <1>1, EmptySeq
    <2>2. count = Len(Selected(query, rows))
        BY <1>1, <1>5
    <2>3. IsFiniteSet(printed) /\ Cardinality(printed) = 0
        BY <1>1, FS_EmptySet
    <2>4. query.limit \in Nat
        BY <1>3, QueryFacts
    <2> QED BY <1>1, <2>1, <2>2, <2>3, <2>4 DEF OutInv
<1> QED BY <1>3, <1>4, <1>6, <1>7, <1>8 DEF IInv

\* Every step keeps it.
LEMMA NextInv == IInv /\ [Next]_vars => IInv'
<1> SUFFICES ASSUME IInv, [Next]_vars PROVE IInv'
    OBVIOUS
<1>1. TypeOK /\ LoopInv /\ GroupsExact /\ CellsExact /\ OutInv
    BY DEF IInv
<1>2. ASSUME NEW r \in Rows, QueryExec(r)
      PROVE  IInv'
    BY <1>1, <1>2, TypeQueryExec, GroupsQueryExec, CellsQueryExec, OutQueryExec DEF IInv
<1>3. ASSUME NEW c, FoldSkip(c) \/ FoldCount(c) \/ FoldSum(c) \/ FoldExtreme(c)
      PROVE  IInv'
    <2>1. /\ pc = "fold" /\ query' = query /\ UNCHANGED <<query, rows, count, out, printed>>
        BY <1>3 DEF FoldSkip, FoldCount, FoldSum, FoldExtreme, Folding, loopVars
    <2>2. GroupsExact'
        <3>1. query.keys = <<>>
            BY <1>1, <2>1 DEF LoopInv
        <3>2. Len(query'.keys) # 1
            <4>1. Len(query.keys) = 0
                BY <3>1
            <4> QED BY <2>1, <4>1
        <3> QED BY <3>2 DEF GroupsExact
    <2> QED BY <1>1, <1>3, <2>1, <2>2, TypeFold, CellsFold, OutRest DEF IInv
<1>4. ASSUME NEW c, GroupCount(c) \/ GroupDistinct(c) \/ GroupValue(c) \/ GroupAvg(c)
      PROVE  IInv'
    <2>1. /\ pc = "group" /\ UNCHANGED <<query, wild, rows, count, out, printed, agg, aggCount>>
        BY <1>4 DEF GroupCount, GroupDistinct, GroupValue, GroupAvg, Grouping, loopVars
    <2>2. CellsExact'
        <3>1. query.keys # <<>>
            <4>1. query.keys = <<>> => Len(query.keys) = Len(<<>>)
                OBVIOUS
            <4> QED BY <1>1, <2>1, <4>1 DEF LoopInv
        <3> QED BY <1>1, <2>1, <3>1, CellsRest
    <2> QED BY <1>1, <1>4, <2>1, <2>2, TypeGroup, GroupsGroup, OutRest DEF IInv
<1>5. CASE EndOfData \/ EndQuery
    <2>1. /\ UNCHANGED <<query, wild, rows, count, agg, aggCount, aggMap, aggCountMap, out, printed>>
          /\ pc \in {"row", "print"} /\ pc' \in {"print", "done"}
        BY <1>5 DEF EndOfData, EndQuery, loopVars
    <2>2. TypeOK' /\ LoopInv'
        BY <1>1, <1>5, TypeEnd
    <2> QED BY <1>1, <2>1, <2>2, GroupsRest, CellsRest, OutRest DEF IInv
<1>6. CASE PrintAggregation0 \/ \E g \in iterated : PrintAggregation1(g)
    <2>1. /\ UNCHANGED <<query, wild, rows, count, agg, aggCount, aggMap, aggCountMap>>
          /\ pc = "print" /\ pc' \in {"print", "fault"}
        BY <1>6 DEF PrintAggregation0, PrintAggregation1, loopVars
    <2>2. TypeOK' /\ LoopInv'
        BY <1>1, <1>6, TypeEnd
    <2> QED BY <1>1, <1>6, <2>1, <2>2, GroupsRest, CellsRest, OutPrint DEF IInv
<1>7. CASE UNCHANGED vars
    <2>1. UNCHANGED <<query, wild, rows, count, vk, agg, aggCount, aggMap, aggCountMap, out, printed, pc>>
        BY <1>7 DEF vars
    <2>2. TypeOK'
        <3>1. aggContexts' = aggContexts /\ Cells' = Cells
            BY <2>1 DEF aggContexts, Cells
        <3> QED BY <1>1, <2>1, <3>1 DEF TypeOK
    <2>3. LoopInv'
        BY <1>1, <2>1 DEF LoopInv, tuple
    <2> QED BY <1>1, <2>1, <2>2, <2>3, GroupsRest, CellsRest, OutRest DEF IInv
<1> QED BY <1>2, <1>3, <1>4, <1>5, <1>6, <1>7 DEF Next, Aggregate1

\* The inductive invariant holds.
THEOREM Invariance == Spec => []IInv
<1> QED BY InitInv, NextInv, PTL DEF Spec

\* Types: above all, a loop over the contexts stays within them, and the
\* tables have no group no row has.
THEOREM TypeCorrect == Spec => []TypeOK
<1>1. IInv => TypeOK
    BY DEF IInv
<1> QED BY <1>1, Invariance, PTL

\* The two tables of a GROUP BY are exact at any moment, whatever functions
\* fill them in whatever order.
THEOREM GroupsAreExact == Spec => []GroupsExact
<1>1. IInv => GroupsExact
    BY DEF IInv
<1> QED BY <1>1, Invariance, PTL

\* Without GROUP BY the cells are exact at any moment, negative INTs and
\* unwritten wildcards excepted.
THEOREM CellsAreExact == Spec => []CellsExact
<1>1. IInv => CellsExact
    BY DEF IInv
<1> QED BY <1>1, Invariance, PTL


----------------------------------------------------------------------------
\* The executor answers the query.

\* At the end of the data all contexts have aggregated all selected rows.
LEMMA AllDone ==
    ASSUME pc = "print"
    PROVE  \A j : Done(j) = Selected(query, rows)
BY DEF Done

\* What is printed from the value and the count of a context is the aggregate
\* of its rows.
LEMMA ValueIsAggregate ==
    ASSUME NEW s, IsContext(s), s.ftype # "DISTINCT", NEW rs \in Seq(Rows),
           s.ftype \in {"MAX", "MIN", "AVG"} => rs # <<>>
    PROVE  /\ TypeOf(s) # "TEXT"
           /\ Value(s, ValueOf(s, rs), CountOf(s, rs)) = Aggregate(s, rs)
           /\ s.ftype = "COUNT" => CountOf(s, rs) = Aggregate(s, rs)
           /\ s.ftype \in {"SUM", "MAX", "MIN"} => ValueOf(s, rs) = Aggregate(s, rs)
<1>1. s.ftype \in {"COUNT", "SUM", "AVG", "MAX", "MIN"}
    BY DEF IsContext, Aggregates, AggFuncType
<1>2. TypeOf(s) # "TEXT"
    BY <1>1 DEF TypeOf, IsContext, ValueFunctions
<1>3. CASE s.ftype = "COUNT"
    BY <1>2, <1>3 DEF Value, CountOf, Aggregate
<1>4. CASE s.ftype = "SUM"
    <2>1. s.key \in Keys /\ KeyType[s.key] # "TEXT"
        BY <1>4 DEF IsContext, ValueFunctions
    <2>2. ValueOf(s, rs) = Total(s.key, rs)
        BY <1>4, <2>1, TotalAppend DEF ValueOf, InitialValue, ValueFunctions
    <2> QED BY <1>2, <1>4, <2>2 DEF Value, Aggregate
<1>5. CASE s.ftype = "AVG"
    <2>1. rs # <<>> /\ Len(rs) # 0
        BY <1>5
    <2>2. ValueOf(s, rs) = Total(s.key, rs) /\ CountOf(s, rs) = Len(rs)
        BY <1>5, <2>1 DEF ValueOf, CountOf, ValueFunctions
    <2> QED BY <1>2, <1>5, <2>1, <2>2 DEF Value, Aggregate
<1>6. CASE s.ftype \in {"MAX", "MIN"}
    <2>1. ValueOf(s, rs) = Aggregate(s, rs)
        BY <1>6 DEF ValueOf, ValueFunctions
    <2>2. Value(s, ValueOf(s, rs), CountOf(s, rs)) = ValueOf(s, rs)
        BY <1>6 DEF Value
    <2> QED BY <1>2, <1>6, <2>1, <2>2
<1> QED BY <1>1, <1>3, <1>4, <1>5, <1>6

\* No AVG of a query that is answered finds the group in the value table alone.
LEMMA AvgDoesNotThrow ==
    ASSUME IInv, Answered, NEW c, GroupAvg(c)
    PROVE  NextContext
<1>1. TypeOK /\ LoopInv /\ GroupsExact /\ pc = "group" /\ c = aggContexts[vk] /\ c.ftype = "AVG"
    BY DEF IInv, GroupAvg, Grouping
<1>2. vk \in DOMAIN aggContexts /\ vk \in 1..Len(aggContexts) /\ Len(aggContexts) \in Nat
    BY <1>1, LoopFacts, QueryFacts
<1>3. AvgFirst(aggContexts)
    <2>1. httype # {}
        BY <1>1, <1>2, NoContext
    <2>2. query.keys # <<>>
        <3>1. query.keys = <<>> => Len(query.keys) = Len(<<>>)
            OBVIOUS
        <3>2. Len(query.keys) = 1
            BY <1>1 DEF LoopInv
        <3> QED BY <3>1, <3>2
    <2> QED BY <2>1, <2>2 DEF Answered
<1>4. \A j \in DOMAIN aggContexts : aggContexts[j].ftype \in {"COUNT", "AVG"} =>
            GroupKeys(query, Done(j)) \subseteq DOMAIN aggCountMap
    BY <1>1, NeedsOf DEF GroupsExact, LoopInv
<1>5. \A j \in DOMAIN aggContexts :
            /\ j < vk => Done(j) = Selected(query, rows)
            /\ j >= vk => Done(j) = Done(vk)
    BY <1>1, <1>2, QueryFacts DEF Done
<1>6. group \in GroupKeys(query, Selected(query, rows))
    <2>1. /\ Done(vk) \in Seq(Rows) /\ tuple \in Rows
          /\ Selected(query, rows) = Append(Done(vk), tuple)
        BY <1>1, LoopFacts
    <2>2. GroupKeys(query, Append(Done(vk), tuple)) = GroupKeys(query, Done(vk)) \cup {group}
        BY <2>1, GroupKeysAppend DEF group
    <2> QED BY <2>1, <2>2
<1>7. group \in DOMAIN aggMap => group \in DOMAIN aggCountMap
    <2> SUFFICES ASSUME group \in DOMAIN aggMap PROVE group \in DOMAIN aggCountMap
        OBVIOUS
    <2>1. ASSUME NEW i \in 1..vk-1, aggContexts[i].ftype \in {"COUNT", "AVG"}
          PROVE  group \in DOMAIN aggCountMap
        <3>1. i \in DOMAIN aggContexts /\ i < vk
            BY <1>1, <1>2, QueryFacts
        <3> QED BY <1>4, <1>5, <1>6, <2>1, <3>1
    <2>2. CASE vk = 1
        <3>1. PICK j \in Needs("value") : group \in GroupKeys(query, Done(j))
            BY <1>1 DEF GroupsExact, LoopInv
        <3>2. j \in DOMAIN aggContexts /\ j >= vk
            BY <1>1, <2>2, QueryFacts DEF Needs
        <3>3. Done(j) = Done(vk)
            BY <1>5, <3>2
        <3> QED BY <1>1, <1>2, <1>4, <3>1, <3>3
    <2>3. CASE vk # 1
        <3>1. \/ \E i \in 1..vk-1 : aggContexts[i].ftype = "COUNT"
              \/ \A i \in 1..vk-1 : aggContexts[i].ftype = "AVG"
            BY <1>1, <1>2, <1>3 DEF AvgFirst
        <3>2. 1 \in 1..vk-1
            BY <1>2, <2>3
        <3> QED BY <2>1, <3>1, <3>2
    <2> QED BY <2>2, <2>3
<1>8. group \in DOMAIN AssignCounts(aggCountMap, group)
    BY DEF AssignCounts, Assign
<1>9. group \in DOMAIN (IF group \in DOMAIN aggMap THEN aggCountMap
                        ELSE AssignCounts(aggCountMap, group))
    BY <1>7, <1>8
<1> QED BY <1>9 DEF GroupAvg

\* SqlQuery has its own copies of Query's operators.
LEMMA SqlOperators ==
    /\ \A list, S : Sql!Among(list, S) = Among(list, S)
    /\ \A q, rs : Sql!Selected(q, rs) = Selected(q, rs)
    /\ \A q, rs, g : Sql!GroupOf(q, rs, g) = GroupOf(q, rs, g)
    /\ \A q, rs : Sql!GroupKeys(q, rs) = GroupKeys(q, rs)
    /\ Sql!IsProjection <=> httype = {}
    /\ \A s : Sql!IsAggregate(s) <=> IsAggregate(s)
    /\ \A s, rs : Sql!Aggregate(s, rs) = Aggregate(s, rs)
<1>1. \A list, S : Sql!Among(list, S) = Among(list, S)
    BY DEF Sql!Among, Among
<1>2. \A q, rs : Sql!Selected(q, rs) = Selected(q, rs)
    BY <1>1 DEF Sql!Selected, Selected
<1>3. \A q, rs, g : Sql!GroupOf(q, rs, g) = GroupOf(q, rs, g)
    BY <1>1 DEF Sql!GroupOf, GroupOf
<1>4. \A q, rs : Sql!GroupKeys(q, rs) = GroupKeys(q, rs)
    BY DEF Sql!GroupKeys, GroupKeys
<1>5. Sql!IsProjection <=> httype = {}
    BY DEF Sql!IsProjection, Sql!IntersectionHTType, Sql!HTType, httype, IntersectionHTType, HTType
<1>6. \A s : Sql!IsAggregate(s) <=> IsAggregate(s)
    BY DEF Sql!IsAggregate, IsAggregate
<1>7. \A s, rs : Sql!Aggregate(s, rs) = Aggregate(s, rs)
  <2>1. \A k, rs : Sql!Total(k, rs) = Total(k, rs)
      BY DEF Sql!Total, Total
  <2>2. \A s, t, n : Sql!Quotient(s, t, n) = Quotient(s, t, n)
      BY DEF Sql!Quotient, Quotient, Sql!Truncated, Truncated, Sql!TypeOf, TypeOf
  <2>3. \A S : Sql!Max(S) = Max(S) /\ Sql!Min(S) = Min(S)
      BY DEF Sql!Max, Max, Sql!Min, Min
  <2> QED BY <2>1, <2>2, <2>3 DEF Sql!Aggregate, Aggregate
<1> QED BY <1>1, <1>2, <1>3, <1>4, <1>5, <1>6, <1>7

\* The groups of finitely many rows are finitely many.
LEMMA GroupKeysFinite ==
    ASSUME NEW q, NEW rs \in Seq(Rows)
    PROVE  IsFiniteSet(GroupKeys(q, rs))
<1> DEFINE Good == {l \in Seq(Rows) : IsFiniteSet(GroupKeys(q, l))}
<1>1. <<>> \in Good
    <2>1. GroupKeys(q, <<>>) = {} /\ <<>> \in Seq(Rows)
        BY EmptySeq DEF GroupKeys
    <2> QED BY <2>1, FS_EmptySet
<1>2. ASSUME NEW l \in Seq(Rows), NEW r \in Rows, l \in Good
      PROVE  Append(l, r) \in Good
    <2>1. GroupKeys(q, Append(l, r)) = GroupKeys(q, l) \cup {r[q.keys[1]]}
        BY GroupKeysAppend
    <2>2. Append(l, r) \in Seq(Rows)
        BY AppendProperties
    <2>3. IsFiniteSet(GroupKeys(q, l))
        BY <1>2
    <2>4. IsFiniteSet(GroupKeys(q, l) \cup {r[q.keys[1]]})
        BY <2>3, FS_AddElement
    <2> QED BY <2>1, <2>2, <2>4
<1>3. Seq(Rows) \subseteq Good
    <2> HIDE DEF Good
    <2> QED BY <1>1, <1>2, ListInduction
<1> QED BY <1>3

\* A statement of a query that is answered is a column or a function other
\* than DISTINCT, which op->aggId finds among the contexts.
LEMMA AnsweredStatement ==
    ASSUME TypeOK, Answered, httype # {}, NEW i \in DOMAIN query.stmts,
           IsAggregate(query.stmts[i])
    PROVE  LET s == query.stmts[i]
               j == AggId(query.stmts, i)
           IN  /\ IsContext(s) /\ s.ftype # "DISTINCT"
               /\ j \in DOMAIN aggContexts /\ aggContexts[j] = s
<1>1. IsSelectList(query.stmts) /\ query.stmts \in Seq(Statement)
    BY QueryFacts, QueryAssumption DEF QueryAssumption, TypeOK
<1>2. IsContext(query.stmts[i])
    BY <1>1, SelectListType
<1>3. query.stmts[i].ftype # "DISTINCT"
    BY DEF Answered
<1>4. /\ AggId(query.stmts, i) \in DOMAIN aggContexts
      /\ aggContexts[AggId(query.stmts, i)] = query.stmts[i]
    BY <1>1, AggIdCorrect DEF aggContexts
<1> QED BY <1>2, <1>3, <1>4

\* The line of an aggregation without GROUP BY.
LEMMA TotalLineCorrect ==
    ASSUME IInv, Answered, pc = "print", httype # {}, query.keys = <<>>
    PROVE  \A i \in DOMAIN query.stmts :
                /\ IsAggregate(query.stmts[i])
                /\ TotalLine[i] = Aggregate(query.stmts[i], Selected(query, rows))
<1> SUFFICES ASSUME NEW i \in DOMAIN query.stmts
             PROVE  /\ IsAggregate(query.stmts[i])
                    /\ TotalLine[i] = Aggregate(query.stmts[i], Selected(query, rows))
    OBVIOUS
<1> DEFINE s == query.stmts[i]
           j == AggId(query.stmts, i)
           sel == Selected(query, rows)
<1>1. TypeOK /\ CellsExact /\ OutInv
    BY DEF IInv
<1>2. IsAggregate(s) /\ (s.ftype \in {"MAX", "MIN", "AVG"} => sel # <<>>)
    BY DEF Answered
<1>3. IsContext(s) /\ s.ftype # "DISTINCT" /\ j \in DOMAIN aggContexts /\ aggContexts[j] = s
    BY <1>1, <1>2, AnsweredStatement
<1>4. sel \in Seq(Rows)
    BY <1>1, SelectedAppend DEF TypeOK
<1>5. TotalLine[i] = IF IsWildCard(s) THEN count
                     ELSE IF TypeOf(s) = "TEXT" THEN NoText
                     ELSE Value(s, agg[j], aggCount[j])
    BY <1>2 DEF TotalLine
<1>6. CASE IsWildCard(s)
    <2>1. s.ftype = "COUNT"
        BY <1>3, <1>6 DEF IsContext
    <2>2. count = Len(sel)
        BY <1>1 DEF OutInv
    <2> QED BY <1>2, <1>5, <1>6, <2>1, <2>2 DEF Aggregate
<1>7. CASE ~IsWildCard(s)
    <2>1. j \in Cells
        BY <1>3 DEF Cells
    <2>2. ~wild[j] /\ NonNegative(s, sel)
        BY <1>3, <1>7, <2>1 DEF Answered
    <2>3. Done(j) = sel
        BY AllDone
    <2>4. agg[j] = ValueOf(s, sel) /\ aggCount[j] = CountOf(s, sel)
        BY <1>1, <1>3, <2>1, <2>2, <2>3 DEF CellsExact
    <2> HIDE DEF s, j, sel
    <2>5. TypeOf(s) # "TEXT" /\ Value(s, ValueOf(s, sel), CountOf(s, sel)) = Aggregate(s, sel)
        BY <1>2, <1>3, <1>4, ValueIsAggregate
    <2> QED BY <1>2, <1>5, <1>7, <2>4, <2>5 DEF s, sel
<1> QED BY <1>6, <1>7

\* At the end of the data a table that is needed has exactly the groups of
\* the selected rows.
LEMMA AllGroups ==
    ASSUME IInv, Answered, pc = "print", httype # {}, Len(query.keys) = 1
    PROVE  /\ "count" \in httype => DOMAIN aggCountMap = GroupKeys(query, Selected(query, rows))
           /\ "value" \in httype => DOMAIN aggMap = GroupKeys(query, Selected(query, rows))
           /\ iterated = GroupKeys(query, Selected(query, rows))
<1> DEFINE keys == GroupKeys(query, Selected(query, rows))
<1>1. TypeOK /\ GroupsExact
    BY DEF IInv
<1>2. /\ DOMAIN aggMap = UNION {GroupKeys(query, Done(j)) : j \in Needs("value")}
      /\ DOMAIN aggCountMap = UNION {GroupKeys(query, Done(j)) : j \in Needs("count")}
    BY <1>1 DEF GroupsExact
<1>3. \A j : Done(j) = Selected(query, rows)
    BY AllDone
<1>4. ASSUME NEW t \in httype
      PROVE  Needs(t) # {}
    <2>1. PICK j \in DOMAIN aggContexts : t \in HTType(aggContexts[j])
        BY <1>1, QueryFacts
    <2>2. aggContexts[j].ftype # "DISTINCT"
        <3>1. \E i \in DOMAIN query.stmts : aggContexts[j] = query.stmts[i]
            BY <1>1, QueryType DEF TypeOK, aggContexts
        <3> QED BY <3>1 DEF Answered
    <2> QED BY <2>1, <2>2 DEF Needs
<1>5. "count" \in httype => DOMAIN aggCountMap = keys
    BY <1>2, <1>3, <1>4
<1>6. "value" \in httype => DOMAIN aggMap = keys
    BY <1>2, <1>3, <1>4
<1>7. httype \subseteq {"count", "value"}
    BY DEF httype, IntersectionHTType, HTType
<1>8. httype = {"count"} \/ "value" \in httype
    BY <1>7
<1>9. iterated = keys
    BY <1>5, <1>6, <1>8 DEF iterated
<1> QED BY <1>5, <1>6, <1>9

\* The line of a group.
LEMMA GroupLineCorrect ==
    ASSUME IInv, Answered, pc = "print", httype # {}, Len(query.keys) = 1,
           NEW g \in iterated
    PROVE  LET d == GroupOf(query, Selected(query, rows), g)
           IN  /\ Printable(g)
               /\ \A i \in DOMAIN query.stmts :
                    GroupLine(g)[i] = IF IsAggregate(query.stmts[i])
                                      THEN Aggregate(query.stmts[i], d)
                                      ELSE d[1][query.stmts[i].key]
<1> DEFINE sel == Selected(query, rows)
           d == GroupOf(query, sel, g)
<1>1. TypeOK /\ GroupsExact
    BY DEF IInv
<1>2. sel \in Seq(Rows)
    BY <1>1, SelectedAppend DEF TypeOK
<1>3. g \in GroupKeys(query, sel)
    BY AllGroups
<1>4. d \in Seq(Rows) /\ d # <<>> /\ d[1][query.keys[1]] = g
    <2> HIDE DEF sel
    <2> QED BY <1>2, <1>3, GroupOfKeys
<1>5. query.keys # <<>>
    <2>1. query.keys = <<>> => Len(query.keys) = Len(<<>>)
        OBVIOUS
    <2> QED BY <2>1
<1>6. /\ \A i \in DOMAIN query.stmts :
            IsAggregate(query.stmts[i]) \/ query.stmts[i].key = query.keys[1]
      /\ query.stmts # <<CountWildCard>>
    BY <1>5 DEF Answered
<1>7. ASSUME NEW i \in DOMAIN query.stmts
      PROVE  LET s == query.stmts[i]
             IN  /\ ~IsWildCard(s)
                 /\ "count" \in HTType(s) => g \in DOMAIN aggCountMap
                 /\ "value" \in HTType(s) => g \in DOMAIN aggMap
    <2>1. HTType(query.stmts[i]) \subseteq httype
        BY DEF httype, IntersectionHTType
    <2>2. ~IsWildCard(query.stmts[i])
        <3>1. IsSelectList(query.stmts)
            BY <1>1, QueryAssumption DEF QueryAssumption, TypeOK
        <3>2. query.stmts # <<WildCard>>
            BY DEF httype, IntersectionHTType, HTType, WildCard
        <3> QED BY <1>6, <3>1, <3>2, SelectListType
    <2> QED BY <1>3, <2>1, <2>2, AllGroups
<1>8. ASSUME NEW i \in DOMAIN query.stmts
      PROVE  GroupLine(g)[i] = IF IsAggregate(query.stmts[i]) THEN Aggregate(query.stmts[i], d)
                               ELSE d[1][query.stmts[i].key]
    <2> DEFINE s == query.stmts[i]
               j == AggId(query.stmts, i)
    <2>1. CASE ~IsAggregate(s)
        <3>1. GroupLine(g)[i] = g
            BY <2>1 DEF GroupLine
        <3> QED BY <1>4, <1>6, <2>1, <3>1
    <2>2. CASE IsAggregate(s)
        <3>1. /\ IsContext(s) /\ s.ftype # "DISTINCT"
              /\ j \in DOMAIN aggContexts /\ aggContexts[j] = s
            BY <1>1, <2>2, AnsweredStatement
        <3>2. s.ftype \in {"COUNT", "SUM", "AVG", "MAX", "MIN"}
            <4> HIDE DEF s
            <4> QED BY <3>1 DEF IsContext, Aggregates, AggFuncType
        <3>3. Done(j) = sel
            BY AllDone
        <3>4. /\ g \in DOMAIN aggMap => aggMap[g][j] = ValueOf(s, d)
              /\ g \in DOMAIN aggCountMap => aggCountMap[g][j] = CountOf(s, d)
            <4> HIDE DEF s, j, sel
            <4> QED BY <1>1, <3>1, <3>3 DEF GroupsExact
        <3>5. /\ "count" \in HTType(s) => g \in DOMAIN aggCountMap
              /\ "value" \in HTType(s) => g \in DOMAIN aggMap
            BY <1>7
        <3>6. GroupLine(g)[i] = IF TypeOf(s) = "TEXT" THEN NoText
                                ELSE IF HTType(s) = {"count"} THEN aggCountMap[g][j]
                                ELSE IF HTType(s) = {"value"} THEN aggMap[g][j]
                                ELSE Value(s, aggMap[g][j], aggCountMap[g][j])
            BY <2>2 DEF GroupLine
        <3> HIDE DEF s, j, d
        <3>7. /\ TypeOf(s) # "TEXT"
              /\ Value(s, ValueOf(s, d), CountOf(s, d)) = Aggregate(s, d)
              /\ s.ftype = "COUNT" => CountOf(s, d) = Aggregate(s, d)
              /\ s.ftype \in {"SUM", "MAX", "MIN"} => ValueOf(s, d) = Aggregate(s, d)
            BY <1>4, <3>1, ValueIsAggregate
        <3>8. CASE s.ftype = "COUNT"
            <4>1. HTType(s) = {"count"}
                BY <3>8 DEF HTType
            <4> QED BY <2>2, <3>4, <3>5, <3>6, <3>7, <3>8, <4>1 DEF s
        <3>9. CASE s.ftype \in {"SUM", "MAX", "MIN"}
            <4>1. HTType(s) = {"value"}
                BY <3>9 DEF HTType
            <4> QED BY <2>2, <3>4, <3>5, <3>6, <3>7, <3>9, <4>1 DEF s
        <3>10. CASE s.ftype = "AVG"
            <4>1. HTType(s) = {"count", "value"}
                BY <3>10 DEF HTType
            <4> QED BY <2>2, <3>4, <3>5, <3>6, <3>7, <4>1 DEF s
        <3> QED BY <3>2, <3>8, <3>9, <3>10
    <2> QED BY <2>1, <2>2
<1> QED BY <1>7, <1>8 DEF Printable

\* A row that is read: a projection shows it if it is selected and the limit
\* is not reached, an aggregation does not.
LEMMA RefinesRead ==
    ASSUME IInv, Answered, NEW r \in Rows, QueryExec(r)
    PROVE  Sql!Read(r)
<1>1. TypeOK /\ OutInv
    BY DEF IInv
<1>2. /\ pc = "row" /\ Len(rows) < MaxRows /\ rows' = Append(rows, r)
      /\ query' = query /\ printed' = printed
      /\ Skip(r) \/ Project(r) \/ Aggregation(r)
    BY DEF QueryExec
<1>3. query.limit \in Nat /\ count \in Nat
    BY <1>1, QueryFacts DEF TypeOK
<1>4. httype = {} => query.keys = <<>> /\ query.stmts # <<WildCard>>
    BY DEF Answered
<1>5. pc' \in {"row", "fold", "group"}
    <2>1. CASE Skip(r)
        BY <1>2, <2>1 DEF Skip
    <2>2. CASE Project(r)
        BY <1>2, <1>4, <2>2 DEF Project
    <2>3. CASE Aggregation(r)
        <3>1. query.keys = <<>> \/ KeyType[query.keys[1]] = "TEXT"
            BY <1>4 DEF Answered
        <3> QED BY <2>3, <3>1 DEF Aggregation
    <2> QED BY <1>2, <2>1, <2>2, <2>3
<1>6. out' = IF httype = {} /\ r \in query.where /\ Len(out) < query.limit
             THEN Append(out, [i \in DOMAIN query.stmts |-> r[query.stmts[i].key]])
             ELSE out
    <2>1. CASE httype # {}
        BY <1>2, <2>1 DEF Skip, Project, Aggregation
    <2>2. CASE httype = {}
        <3>1. Len(out) = IF count <= query.limit THEN count ELSE query.limit
            BY <1>1, <1>4, <2>2 DEF OutInv
        <3>2. CASE Skip(r)
            BY <3>2 DEF Skip
        <3>3. CASE Project(r)
            <4>1. r \in query.where /\ count + 1 <= query.limit
                BY <3>3 DEF Project
            <4>2. Len(out) < query.limit
                BY <1>3, <3>1, <4>1
            <4> QED BY <1>4, <2>2, <3>3, <4>1, <4>2 DEF Project
        <3>4. CASE Aggregation(r)
            <4>1. ~(count + 1 <= query.limit) /\ out' = out
                BY <2>2, <3>4 DEF Aggregation
            <4>2. ~(Len(out) < query.limit)
                BY <1>3, <3>1, <4>1
            <4> QED BY <4>1, <4>2
        <3> QED BY <1>2, <3>2, <3>3, <3>4
    <2> QED BY <2>1, <2>2
<1>7. Sql!IsProjection <=> httype = {}
    BY SqlOperators
<1> QED BY <1>2, <1>5, <1>6, <1>7 DEF Sql!Read

\* A turn of a loop shows nothing.
LEMMA RefinesLoops ==
    ASSUME IInv, Answered, NEW c, Aggregate1(c)
    PROVE  UNCHANGED Sql!vars
<1>1. /\ NextContext \/ GroupAvg(c)
      /\ pc \in {"fold", "group"}
      /\ UNCHANGED <<query, rows, out, printed>>
    BY DEF Aggregate1, FoldSkip, FoldCount, FoldSum, FoldExtreme, Folding,
           GroupCount, GroupDistinct, GroupValue, GroupAvg, Grouping, loopVars
<1>2. NextContext
    BY <1>1, AvgDoesNotThrow
<1>3. pc' \in {"row", "fold", "group"}
    BY <1>1, <1>2 DEF NextContext
<1> QED BY <1>1, <1>3 DEF Sql!vars

\* The groups of the answer and their rows.
LEMMA SqlGroups ==
    /\ httype = {} => Sql!Groups = {}
    /\ httype # {} /\ query.keys = <<>> =>
            /\ Sql!Groups = {Star}
            /\ \A g : Sql!RowsOf(g) = Selected(query, rows)
    /\ httype # {} /\ query.keys # <<>> =>
            /\ Sql!Groups = GroupKeys(query, Selected(query, rows))
            /\ \A g : Sql!RowsOf(g) = GroupOf(query, Selected(query, rows), g)
BY SqlOperators DEF Sql!Groups, Sql!RowsOf, Sql!Star, Star

\* A line that is printed is a row of the answer.
LEMMA RefinesPrint ==
    ASSUME IInv, Answered, PrintAggregation0 \/ \E g \in iterated : PrintAggregation1(g)
    PROVE  \E g \in Sql!Groups : Sql!Answer(g)
<1>1. /\ TypeOK /\ OutInv /\ pc = "print" /\ httype # {} /\ query.limit \in Nat
      /\ query.limit > 0 /\ UNCHANGED <<query, rows>>
    BY QueryFacts DEF IInv, PrintAggregation0, PrintAggregation1, loopVars, Answered
<1>2. Len(out) = Cardinality(printed) /\ IsFiniteSet(printed)
    BY <1>1 DEF OutInv
<1>3. ASSUME NEW rs, NEW line,
             line = [i \in DOMAIN query.stmts |-> line[i]],
             \A i \in DOMAIN query.stmts :
                line[i] = IF IsAggregate(query.stmts[i]) THEN Aggregate(query.stmts[i], rs)
                          ELSE rs[1][query.stmts[i].key]
      PROVE  line = Sql!AnswerRow(rs)
    BY <1>3, SqlOperators DEF Sql!AnswerRow
<1>4. CASE PrintAggregation0
    <2>1. /\ query.keys = <<>> /\ printed = {} /\ printed' = printed \cup {Star}
          /\ out' = Append(out, TotalLine) /\ pc' = pc
        BY <1>4 DEF PrintAggregation0
    <2>2. Sql!Groups = {Star} /\ Sql!RowsOf(Star) = Selected(query, rows)
        BY <1>1, <2>1, SqlGroups
    <2>3. TotalLine = [i \in DOMAIN query.stmts |-> TotalLine[i]]
        BY DEF TotalLine
    <2>4. TotalLine = Sql!AnswerRow(Selected(query, rows))
        BY <1>1, <1>3, <2>1, <2>3, TotalLineCorrect
    <2>5. Len(out) < query.limit
        BY <1>1, <1>2, <2>1, FS_EmptySet
    <2> QED BY <1>1, <2>1, <2>2, <2>4, <2>5 DEF Sql!Answer
<1>5. ASSUME NEW g \in iterated, PrintAggregation1(g)
      PROVE  \E h \in Sql!Groups : Sql!Answer(h)
    <2>1. /\ Len(query.keys) = 1 /\ g \notin printed /\ printed' = printed \cup {g}
          /\ Cardinality(printed) < groupsToPrint
          /\ Printable(g) => out' = Append(out, GroupLine(g)) /\ pc' = pc
        BY <1>5 DEF PrintAggregation1
    <2>2. query.keys # <<>>
        <3>1. query.keys = <<>> => Len(query.keys) = Len(<<>>)
            OBVIOUS
        <3> QED BY <2>1, <3>1
    <2> DEFINE d == GroupOf(query, Selected(query, rows), g)
    <2>3. g \in Sql!Groups /\ Sql!RowsOf(g) = d
        BY <1>1, <2>1, <2>2, SqlGroups, AllGroups
    <2>4. /\ Printable(g)
          /\ \A i \in DOMAIN query.stmts :
                GroupLine(g)[i] = IF IsAggregate(query.stmts[i]) THEN Aggregate(query.stmts[i], d)
                                  ELSE d[1][query.stmts[i].key]
        BY <1>1, <2>1, GroupLineCorrect
    <2>5. GroupLine(g) = [i \in DOMAIN query.stmts |-> GroupLine(g)[i]]
        BY DEF GroupLine
    <2>6. GroupLine(g) = Sql!AnswerRow(d)
        <3> HIDE DEF d
        <3> QED BY <1>3, <2>4, <2>5
    <2>7. Len(out) < query.limit
        <3>1. iterated = GroupKeys(query, Selected(query, rows))
            BY <1>1, <2>1, AllGroups
        <3>2. IsFiniteSet(iterated)
            BY <1>1, <3>1, GroupKeysFinite, SelectedAppend DEF TypeOK
        <3>3. Cardinality(iterated) \in Nat /\ Cardinality(printed) \in Nat
            BY <1>2, <3>2, FS_CardinalityType
        <3> QED BY <1>1, <1>2, <2>1, <3>3 DEF groupsToPrint
    <2> QED BY <1>1, <2>1, <2>3, <2>4, <2>6, <2>7 DEF Sql!Answer
<1> QED BY <1>4, <1>5

\* When the executor is done every group has been shown, or the limit's number.
LEMMA RefinesEnd ==
    ASSUME IInv, Answered, EndQuery
    PROVE  Sql!Finish
<1>1. /\ TypeOK /\ OutInv /\ pc = "print" /\ pc' = "done" /\ query.limit \in Nat
      /\ UNCHANGED <<query, rows, out, printed>>
    BY QueryFacts DEF IInv, EndQuery, loopVars
<1>2. printed = Sql!Groups \/ Len(out) >= query.limit
    <2>1. CASE httype = {}
        BY <1>1, <2>1, SqlGroups DEF OutInv
    <2>2. CASE httype # {} /\ query.keys = <<>>
        <3>1. printed # {}
            BY <2>2 DEF EndQuery
        <3>2. printed \subseteq {Star}
            BY <1>1, <2>2 DEF OutInv
        <3> QED BY <2>2, <3>1, <3>2, SqlGroups
    <2>3. CASE httype # {} /\ query.keys # <<>>
        <3>1. Len(query.keys) = 1 /\ query.limit > 0
            BY <2>3 DEF Answered
        <3>2. Cardinality(printed) = groupsToPrint
            BY <2>3, <3>1 DEF EndQuery
        <3>3. iterated = GroupKeys(query, Selected(query, rows)) /\ iterated = Sql!Groups
            BY <1>1, <2>3, <3>1, AllGroups, SqlGroups
        <3>4. IsFiniteSet(iterated)
            <4>1. Selected(query, rows) \in Seq(Rows)
                BY <1>1, SelectedAppend DEF TypeOK
            <4> QED BY <3>3, <4>1, GroupKeysFinite
        <3>5. printed \subseteq iterated /\ Len(out) = Cardinality(printed) /\ IsFiniteSet(printed)
            BY <1>1, <2>3, <3>1 DEF OutInv
        <3>6. Cardinality(iterated) \in Nat /\ Cardinality(printed) \in Nat
            BY <3>4, <3>5, FS_CardinalityType
        <3>7. Cardinality(printed) = Cardinality(iterated) \/ Cardinality(printed) = query.limit
            BY <3>2 DEF groupsToPrint
        <3>8. Cardinality(printed) = Cardinality(iterated) => printed = iterated
            BY <3>4, <3>5, FS_Subset
        <3> QED BY <1>1, <3>3, <3>5, <3>6, <3>7, <3>8
    <2> QED BY <2>1, <2>2, <2>3
<1> QED BY <1>1, <1>2 DEF Sql!Finish

\* Every step is a step of SqlQuery or shows nothing.
LEMMA RefinesNext == IInv /\ [Next]_vars => [Answered => Sql!Next]_(Sql!vars)
<1> SUFFICES ASSUME IInv, [Next]_vars, Answered
             PROVE  Sql!Next \/ UNCHANGED Sql!vars
    OBVIOUS
<1>1. ASSUME NEW r \in Rows, QueryExec(r)
      PROVE  Sql!Next
    BY <1>1, RefinesRead DEF Sql!Next
<1>2. ASSUME NEW j \in DOMAIN aggContexts, Aggregate1(aggContexts[j])
      PROVE  UNCHANGED Sql!vars
    BY <1>2, RefinesLoops
<1>3. CASE EndOfData
    BY <1>3 DEF EndOfData, loopVars, Sql!Next, Sql!EndOfFile
<1>4. CASE PrintAggregation0 \/ \E g \in iterated : PrintAggregation1(g)
    BY <1>4, RefinesPrint DEF Sql!Next
<1>5. CASE EndQuery
    BY <1>5, RefinesEnd DEF Sql!Next
<1>6. CASE UNCHANGED vars
    BY <1>6 DEF vars, Sql!vars
<1> QED BY <1>1, <1>2, <1>3, <1>4, <1>5, <1>6 DEF Next

\* The executor implements SqlQuery for the queries it answers: it shows the
\* selected rows up to the limit, or one row for every group with the values
\* of that group's rows, and does not fault.
THEOREM Refinement == Spec => Implements
<1>1. Init => Sql!Init
    BY DEF Init, Sql!Init
<1> QED BY <1>1, Invariance, RefinesNext, PTL DEF Spec, Implements
=============================================================================
