---------------------------- MODULE SparkProofs ----------------------------
(***************************************************************************)
(* The partitioned scan for Spark, for every automaton, file, size of      *)
(* partitions and schema: the proofs.                                      *)
(***************************************************************************)
EXTENDS SparkScan, SetInduction, FiniteSetTheorems

Types3 == {"INT", "DOUBLE", "TEXT"}

\* A group's range, as it may be left by a partition before.
Ranges == [1..fa.groups -> [start : Int, end : Int]]

Phases == {"sample", "seek", "read", "load", "preload", "pre", "exec", "done", "fault"}

\* The group that is open, and the rows.
OpenGroups == [id : 0..fa.groups, index : Nat]
ScanRows   == [subs : Ranges, end : Nat]

\* Types: of what does not change, and of the scan.
FixedTyped ==
    /\ file \in Seq(Chars) /\ sample \in Nat /\ sample < Len(file)
    /\ keyTypes \in Seq(Types3) /\ Len(keyTypes) = fa.groups
    /\ E!IsAutomaton(fa)

ContextTyped ==
    /\ i \in Nat
    /\ currentState \in fa.states /\ recentAcceptState \in fa.states /\ recentAcceptIndex \in Nat
    /\ startSMS \in OpenGroups /\ subMatches \in Ranges

Typed ==
    /\ FixedTyped /\ ContextTyped
    /\ data \in Seq(Chars) /\ rows \in Seq(ScanRows)
    /\ junk \in Chars /\ IsList(frame)

Scanning == {"load", "preload", "pre", "exec"}

Start(k) == PartitionSize * k

\* The bytes of partition k that are read: all but the last byte of the file.
Piece(k) ==
    SubSeq(file, Start(k) + 1, IF k + 1 < NumPartitions THEN Start(k + 1) ELSE Len(file) - 1)

\* What data of the stream may point to; nothing is deleted twice.
Buffers == [state : {"null", "live", "freed"}, bytes : Seq(Chars)]

\* The stream, by the phase of the runtime.
IoInv ==
    /\ buf \in Buffers
    /\ phase \in Phases /\ part \in 0..NumPartitions
    /\ phase \in {"sample", "seek"} => part = 0
    /\ phase = "sample" => pos = 0 /\ offset = 0 /\ buf = Io!NoBuffer
    /\ phase = "seek" => buf.state \in {"null", "live"}
    /\ phase = "read" /\ part < NumPartitions =>
            pos = Start(part) /\ offset = Start(part) /\ buf.state \in {"null", "live"}
    /\ phase \in Scanning =>
            /\ part < NumPartitions
            /\ part + 1 < NumPartitions => pos = Start(part + 1) /\ offset = Start(part + 1)
            /\ \/ buf = [state |-> "live", bytes |-> Piece(part)]
               \/ buf.state = "freed" /\ LastByteAlone /\ part + 1 = NumPartitions

Inv == Typed /\ IoInv /\ RowsFit

----------------------------------------------------------------------------
\* Rows.

\* What the code writes of one text: at most its room, and never a negative
\* number of bytes, however stale the range is.
LEMMA TextFits ==
    ASSUME NEW s \in [start : Int, end : Int]
    PROVE  R!TextSize(s) \in 0..StringSize
BY SparkAssumption DEF R!TextSize

\* A copy has as many bytes as asked for.
LEMMA CopyLength ==
    ASSUME NEW d, NEW start, NEW n \in Nat
    PROVE  Len(R!Copy(d, start, n)) = n
<1> DEFINE f == [t \in 1..n |-> IF start + t <= Len(d) THEN d[start + t] ELSE 0]
<1>1. f = [t \in 1..n |-> f[t]]
    OBVIOUS
<1> HIDE DEF f
<1>2. Len(f) = n
    BY <1>1, ListOfFunction
<1> QED BY <1>2 DEF R!Copy, f

\* The cardinality that the instance counts with is the one of FiniteSets.
LEMMA SameCardinality == \A S : R!Cardinality(S) = Cardinality(S)
BY DEF R!Cardinality, Cardinality

\* A text stored is one of the schema's texts, and so are those before it.
LEMMA RoomFor ==
    ASSUME NEW types \in Seq(Types3), NEW taken, taken \subseteq 1..Len(types),
           NEW g \in taken, types[g] = "TEXT"
    PROVE  /\ R!TextsBefore(types, taken, g) \in Nat
           /\ Cardinality(R!TextKeys(types)) \in Nat
           /\ R!TextsBefore(types, taken, g) + 1 <= Cardinality(R!TextKeys(types))
<1> DEFINE B == {h \in {k \in taken : types[k] = "TEXT"} : h < g}
           T == R!TextKeys(types)
<1>1. IsFiniteSet(T) /\ Cardinality(T) \in Nat
    <2>1. IsFiniteSet(1..Len(types)) /\ T \in SUBSET (1..Len(types))
        BY FS_Interval DEF R!TextKeys
    <2> HIDE DEF T
    <2> QED BY <2>1, FS_Subset, FS_CardinalityType
<1>2. B \cup {g} \in SUBSET T /\ B \in SUBSET T /\ g \notin B
    <2>1. g \in Nat /\ ~(g < g)
        OBVIOUS
    <2>2. g \in T /\ B \subseteq T
        BY DEF R!TextKeys
    <2> HIDE DEF T
    <2> QED BY <2>1, <2>2
<1>3. R!TextsBefore(types, taken, g) = Cardinality(B)
    BY SameCardinality DEF R!TextsBefore, R!Before
<1> HIDE DEF B, T
<1>4. IsFiniteSet(B) /\ Cardinality(B) \in Nat
    BY <1>1, <1>2, FS_Subset, FS_CardinalityType
<1>5. Cardinality(B \cup {g}) = Cardinality(B) + 1
    BY <1>2, <1>4, FS_AddElement
<1>6. Cardinality(B \cup {g}) <= Cardinality(T)
    BY <1>1, <1>2, FS_Subset
<1> QED BY <1>1, <1>3, <1>4, <1>5, <1>6 DEF T

\* A row that is stored stays inside its record.
RowFits(types, row) ==
    \A o \in DOMAIN row.texts :
        /\ o >= 8 + 8 * Len(types)
        /\ o + Len(row.texts[o]) <= R!SizeInRow(types)

LEMMA StoredFits ==
    ASSUME NEW types \in Seq(Types3), NEW subs \in [1..Len(types) -> [start : Int, end : Int]], NEW d
    PROVE  RowFits(types, R!StoreToDataFrame(types, subs, d))
<1> DEFINE n == Len(types)
           taken == R!Taken(subs)
           texts == {g \in taken : types[g] = "TEXT"}
           at(g) == R!VarOffset(types, R!TextsBefore(types, taken, g) + 1)
           row == R!StoreToDataFrame(types, subs, d)
           room == Cardinality(R!TextKeys(types))
<1>1. n \in Nat /\ Len(subs) = n /\ taken \subseteq 1..n
    BY DEF R!Taken
<1>2. DOMAIN row.texts = {at(g) : g \in texts}
    BY DEF R!StoreToDataFrame
<1>3. ASSUME NEW o \in DOMAIN row.texts
      PROVE  \E g \in texts : /\ o = at(g)
                              /\ row.texts[o] = R!Copy(d, subs[g].start, R!TextSize(subs[g]))
    <2> DEFINE g == CHOOSE h \in texts : at(h) = o
    <2>1. g \in texts /\ at(g) = o
        <3> HIDE DEF texts, at, row
        <3> QED BY <1>2
    <2>2. row.texts[o] = R!Copy(d, subs[g].start, R!TextSize(subs[g]))
        BY <1>2 DEF R!StoreToDataFrame
    <2> HIDE DEF g, texts, at, row
    <2> QED BY <2>1, <2>2
<1>4. ASSUME NEW g \in texts
      PROVE  /\ at(g) >= 8 + 8 * n
             /\ at(g) + Len(R!Copy(d, subs[g].start, R!TextSize(subs[g]))) <= R!SizeInRow(types)
    <2> DEFINE k == R!TextsBefore(types, taken, g)
               size == R!TextSize(subs[g])
    <2>1. k \in Nat /\ room \in Nat /\ k + 1 <= room
        <3> HIDE DEF taken
        <3> QED BY <1>1, RoomFor
    <2>2. size \in Nat /\ size <= StringSize /\ StringSize \in Nat
        BY <1>1, TextFits, SparkAssumption
    <2>3. Len(R!Copy(d, subs[g].start, size)) = size
        BY <2>2, CopyLength
    <2>4. at(g) = 8 + 8 * n + k * StringSize
        BY <2>1 DEF R!VarOffset
    <2>5. R!SizeInRow(types) = 8 * (n \div 64 + 1) + 8 * n + StringSize * room
        BY SameCardinality DEF R!SizeInRow
    <2>6. n \div 64 \in Nat
        BY <1>1
    <2>7. k * StringSize \in Nat /\ k * StringSize + StringSize <= StringSize * room
        <3> HIDE DEF k, room
        <3>1. PICK m \in Nat : room = (k + 1) + m
            BY <2>1
        <3>2. StringSize * room = k * StringSize + StringSize + StringSize * m
            BY <2>1, <2>2, <3>1
        <3>3. StringSize * m \in Nat /\ k * StringSize \in Nat
            BY <2>1, <2>2
        <3> QED BY <2>2, <3>2, <3>3
    <2> DEFINE a == k * StringSize
               b == StringSize * room
               v == n \div 64
    <2>8. /\ at(g) = 8 + 8 * n + a /\ R!SizeInRow(types) = 8 * (v + 1) + 8 * n + b
          /\ a \in Nat /\ a + StringSize <= b /\ v \in Nat /\ b \in Nat
        BY <2>1, <2>2, <2>4, <2>5, <2>6, <2>7
    <2> HIDE DEF at, a, b, v, size, n, room, k
    <2> QED BY <1>1, <2>2, <2>3, <2>8 DEF size
<1> HIDE DEF row, at, texts
<1>5. ASSUME NEW o \in DOMAIN row.texts
      PROVE  o >= 8 + 8 * n /\ o + Len(row.texts[o]) <= R!SizeInRow(types)
    BY <1>3, <1>4
<1> QED BY <1>5 DEF RowFits, row

----------------------------------------------------------------------------
\* Partitions.

\* Division: the quotient and the rest.
LEMMA Divided ==
    ASSUME NEW a \in Nat, NEW b \in Nat \ {0}
    PROVE  /\ a \div b \in Nat /\ a % b \in 0..(b - 1)
           /\ a = b * (a \div b) + (a % b)
OBVIOUS

\* A multiple leaves no rest.
LEMMA Multiple ==
    ASSUME NEW b \in Nat \ {0}, NEW k \in Nat
    PROVE  (b * k) % b = 0
<1> DEFINE a == b * k
           q == a \div b
           r == a % b
<1>1. a \in Nat /\ q \in Nat /\ r \in 0..(b - 1) /\ a = b * q + r
    <2>1. a \in Nat
        OBVIOUS
    <2> HIDE DEF a
    <2> QED BY <2>1, Divided
<1>2. b * k = b * q + r
    BY <1>1
<1> HIDE DEF a, q, r
<1>3. ASSUME k > q PROVE FALSE
    <2>1. PICK m \in Nat : k = q + 1 + m
        BY <1>1, <1>3
    <2>2. b * k = b * q + b + b * m /\ b * m \in Nat
        BY <1>1, <2>1
    <2> QED BY <1>1, <1>2, <2>2
<1>4. ASSUME k < q PROVE FALSE
    <2>1. PICK m \in Nat : q = k + 1 + m
        BY <1>1, <1>4
    <2>2. b * q = b * k + b + b * m /\ b * m \in Nat /\ b * k \in Nat
        BY <1>1, <2>1
    <2> QED BY <1>1, <1>2, <2>2
<1>5. k = q
    BY <1>1, <1>3, <1>4
<1>6. r = 0
    BY <1>1, <1>2, <1>5
<1> QED BY <1>6 DEF a, r

\* The file is cut into pieces of which only the last may be shorter.
LEMMA Cut ==
    ASSUME file \in Seq(Chars), Len(file) > 0
    PROVE  /\ NumPartitions \in Nat /\ NumPartitions >= 1 /\ PartitionSize \in Nat /\ PartitionSize > 0
           /\ Len(file) \in Nat
           /\ \A k \in 0..NumPartitions - 1 :
                /\ Start(k) \in Nat /\ Start(k + 1) \in Nat
                /\ Start(k + 1) = Start(k) + PartitionSize
                /\ Start(k) < Len(file)
                /\ k + 1 < NumPartitions => Start(k + 1) < Len(file)
                /\ k + 1 = NumPartitions => Len(file) <= Start(k + 1)
<1> DEFINE n == Len(file)
           w == PartitionSize
           a == (n + w) - 1
           q == a \div w
           r == a % w
<1>1. n \in Nat /\ n > 0 /\ w \in Nat \ {0} /\ a \in Nat /\ NumPartitions = q
    BY SparkAssumption DEF NumPartitions
<1>2. q \in Nat /\ r \in 0..(w - 1) /\ a = w * q + r
    <2> HIDE DEF a, w
    <2> QED BY <1>1, Divided
<1>3. (n + w) - 1 = w * q + r
    BY <1>2
<1> HIDE DEF n, w, q, r
<1>4. q >= 1
    <2> SUFFICES ASSUME q = 0 PROVE FALSE
        BY <1>2
    <2>1. w * q = 0
        BY <1>1
    <2> QED BY <1>1, <1>2, <1>3, <2>1
<1>5. ASSUME NEW k \in 0..q - 1
      PROVE  /\ w * k \in Nat /\ w * (k + 1) \in Nat /\ w * (k + 1) = w * k + w
             /\ w * k < n
             /\ k + 1 < q => w * (k + 1) < n
             /\ k + 1 = q => n <= w * (k + 1)
    <2>1. w * k \in Nat /\ w * (k + 1) = w * k + w
        BY <1>1, <1>2
    <2>2. PICK m \in Nat : q = k + 1 + m
        BY <1>2
    <2>3. w * q = w * k + w + w * m /\ w * m \in Nat
        BY <1>1, <1>2, <2>2
    <2>4. w * k < n
        BY <1>1, <1>2, <1>3, <2>1, <2>3
    <2>5. ASSUME k + 1 < q PROVE w * (k + 1) < n
        <3>1. PICK l \in Nat : m = l + 1
            BY <2>2, <2>5
        <3>2. w * m = w * l + w /\ w * l \in Nat
            BY <1>1, <3>1
        <3> QED BY <1>1, <1>2, <1>3, <2>1, <2>3, <3>2
    <2>6. ASSUME k + 1 = q PROVE n <= w * (k + 1)
        <3>1. m = 0 /\ w * m = 0
            BY <1>1, <2>2, <2>6
        <3> QED BY <1>1, <1>2, <1>3, <2>1, <2>3, <3>1
    <2> QED BY <1>1, <2>1, <2>4, <2>5, <2>6
<1> QED BY <1>1, <1>2, <1>4, <1>5 DEF Start, n, w

\* The size of a partition, and the last byte.
LEMMA Sizes ==
    ASSUME file \in Seq(Chars), Len(file) > 0, part \in 0..NumPartitions - 1
    PROVE  /\ PartSize \in Nat /\ PartSize > 0
           /\ part + 1 < NumPartitions => PartSize = PartitionSize
           /\ part + 1 = NumPartitions => Start(part) + PartSize = Len(file)
           /\ ~LastByteAlone => Start(part) + 1 < Len(file)
<1> DEFINE n == Len(file)
<1>1. /\ NumPartitions \in Nat /\ NumPartitions >= 1 /\ n \in Nat
      /\ Start(part) \in Nat /\ Start(part + 1) \in Nat
      /\ Start(part + 1) = Start(part) + PartitionSize /\ Start(part) < n
      /\ part + 1 < NumPartitions => Start(part + 1) < n
      /\ PartitionSize \in Nat /\ PartitionSize > 0
    BY Cut
<1>2. PartSize = (IF part + 1 < NumPartitions THEN Start(part + 1) ELSE n) - Start(part)
    <2>1. part \in 0..NumPartitions /\ part + 1 \in 0..NumPartitions /\ part < NumPartitions
        BY <1>1
    <2> QED BY <2>1 DEF PartSize, Partitions, NumPartitions, Start
<1>3. ASSUME ~LastByteAlone
      PROVE  Start(part) + 1 < n
    <2> SUFFICES ASSUME Start(part) + 1 = n PROVE FALSE
        BY <1>1
    <2>1. n - 1 = PartitionSize * part /\ part \in Nat
        BY <1>1 DEF Start
    <2>2. (PartitionSize * part) % PartitionSize = 0
        BY <2>1, Multiple, SparkAssumption
    <2> QED BY <1>3, <2>1, <2>2 DEF LastByteAlone
<1> QED BY <1>1, <1>2, <1>3

----------------------------------------------------------------------------
\* Buffers.

\* What the invariant says of the file.
LEMMA FileFacts ==
    ASSUME Typed
    PROVE  /\ file \in Seq(Chars) /\ Len(file) \in Nat /\ Len(file) > 0
           /\ sample \in Nat /\ sample < Len(file)
           /\ \A k \in 1..Len(file) : file[k] \in Chars
<1>1. file \in Seq(Chars) /\ sample \in Nat /\ sample < Len(file)
    BY DEF Typed, FixedTyped
<1> QED BY <1>1

\* While there is a partition, it is one of the file's.
LEMMA PartOfFile ==
    ASSUME Typed, IoInv, part < NumPartitions
    PROVE  part \in 0..NumPartitions - 1 /\ part \in Nat /\ NumPartitions \in Nat
<1>1. NumPartitions \in Nat
    BY FileFacts, Cut
<1>2. part \in 0..NumPartitions
    BY DEF IoInv
<1> HIDE DEF NumPartitions
<1> QED BY <1>1, <1>2

\* A piece of the file.
LEMMA PieceOf ==
    ASSUME Typed, NEW a \in Nat, NEW b \in Nat, b <= Len(file)
    PROVE  /\ SubSeq(file, a + 1, b) \in Seq(Chars)
           /\ Len(SubSeq(file, a + 1, b)) = IF a <= b THEN b - a ELSE 0
           /\ \A t \in 1..b - a : SubSeq(file, a + 1, b)[t] = file[a + t]
<1>1. \A k \in (a + 1)..b : file[k] \in Chars
    BY FileFacts
<1>2. a + 1 \in Int /\ b \in Int
    OBVIOUS
<1>3. /\ SubSeq(file, a + 1, b) \in Seq(Chars)
      /\ Len(SubSeq(file, a + 1, b)) = IF a + 1 <= b THEN b - (a + 1) + 1 ELSE 0
      /\ \A t \in 1..b - (a + 1) + 1 : SubSeq(file, a + 1, b)[t] = file[(a + 1) + t - 1]
    BY <1>1, <1>2, SubSeqProperties
<1>4. \A t \in 1..b - a : (a + 1) + t - 1 = a + t /\ t \in 1..b - (a + 1) + 1
    OBVIOUS
<1> QED BY <1>3, <1>4

\* The piece of a partition.
LEMMA PieceTyped ==
    ASSUME Typed, NEW k \in 0..NumPartitions - 1
    PROVE  Piece(k) \in Seq(Chars)
<1> DEFINE b == IF k + 1 < NumPartitions THEN Start(k + 1) ELSE Len(file) - 1
<1>1. Start(k) \in Nat /\ b \in Nat /\ b <= Len(file)
    BY FileFacts, Cut
<1>2. Piece(k) = SubSeq(file, Start(k) + 1, b)
    BY DEF Piece
<1> HIDE DEF b
<1> QED BY <1>1, <1>2, PieceOf

\* The buffer of a partition, as the scan sees it, is a sequence of bytes.
LEMMA SeenTyped ==
    ASSUME Typed, IoInv, NEW n \in Nat
    PROVE  Seen(n) \in Seq(Chars) /\ Len(Seen(n)) = n
<1> DEFINE read == IF buf.state = "live" THEN buf.bytes ELSE <<>>
           pad  == IF buf.state = "live" THEN VecBytes ELSE 0
           f == [t \in 1..n |-> CASE t <= Len(read)      -> read[t]
                                  [] t > Len(read) + pad -> junk
                                  [] OTHER               -> 0]
<1>1. read \in Seq(Chars)
    <2>1. buf.bytes \in Seq(Chars) /\ <<>> \in Seq(Chars)
        BY EmptySeq DEF IoInv, Buffers
    <2> QED BY <2>1
<1>2. 0 \in Chars /\ junk \in Chars
    BY SparkAssumption DEF Typed, E!NUL
<1>3. Len(read) \in Nat /\ \A t \in 1..Len(read) : read[t] \in Chars
    <2> HIDE DEF read
    <2> QED BY <1>1
<1>4. pad \in Nat
    BY SparkAssumption
<1> HIDE DEF read, pad
<1>5. f \in [1..n -> Chars]
    BY <1>2, <1>3, <1>4
<1>6. Seen(n) = f
    BY Zenon DEF Seen, read, pad
<1> HIDE DEF f
<1>7. f \in Seq(Chars) /\ Len(f) = n
    BY <1>5
<1> QED BY <1>6, <1>7

\* The file as one scan of the whole of it sees it.
LEMMA WholeFileIs ==
    ASSUME Typed
    PROVE  /\ WholeFile \in Seq(Chars) /\ Len(WholeFile) = Len(file)
           /\ \A k \in 1..Len(file) : WholeFile[k] = IF k < Len(file) THEN file[k] ELSE 0
<1> DEFINE n == Len(file)
           front == SubSeq(file, 0 + 1, n - 1)
<1>1. n \in Nat /\ n > 0 /\ n - 1 \in Nat
    BY FileFacts
<1>2. front \in Seq(Chars) /\ Len(front) = n - 1 /\ \A t \in 1..n - 1 : front[t] = file[t]
    <2> DEFINE b == n - 1
    <2>1. 0 \in Nat /\ b \in Nat /\ b <= Len(file)
        BY <1>1
    <2> HIDE DEF b
    <2>2. /\ SubSeq(file, 0 + 1, b) \in Seq(Chars)
          /\ Len(SubSeq(file, 0 + 1, b)) = IF 0 <= b THEN b - 0 ELSE 0
          /\ \A t \in 1..b - 0 : SubSeq(file, 0 + 1, b)[t] = file[0 + t]
        BY <2>1, PieceOf
    <2>3. \A t \in 1..b : t \in 1..b - 0 /\ 0 + t = t
        BY <2>1
    <2>4. /\ SubSeq(file, 0 + 1, b) \in Seq(Chars)
          /\ Len(SubSeq(file, 0 + 1, b)) = b
          /\ \A t \in 1..b : SubSeq(file, 0 + 1, b)[t] = file[t]
        BY <2>1, <2>2, <2>3
    <2> QED BY <2>4 DEF b
<1>3. WholeFile = Append(front, 0)
    <2>1. file # <<>>
        BY <1>1
    <2>2. Front(file) = front
        BY DEF Front
    <2> QED BY <2>1, <2>2 DEF WholeFile
<1>4. 0 \in Chars
    BY SparkAssumption DEF E!NUL
<1> HIDE DEF front, n
<1>5. /\ Append(front, 0) \in Seq(Chars) /\ Len(Append(front, 0)) = Len(front) + 1
      /\ \A k \in 1..Len(front) : Append(front, 0)[k] = front[k]
      /\ Append(front, 0)[Len(front) + 1] = 0
    BY <1>2, <1>4
<1> QED BY <1>1, <1>2, <1>3, <1>5 DEF n

\* A partition's buffer holds its piece of the file.
LEMMA PieceSeen ==
    ASSUME Typed, IoInv, phase \in Scanning, ~LastByteAlone
    PROVE  Seen(PartSize) = SubSeq(WholeFile, Start(part) + 1, Start(part) + PartSize)
<1> DEFINE s == Start(part)
           b == IF part + 1 < NumPartitions THEN Start(part + 1) ELSE Len(file) - 1
           n == PartSize
<1>1. part \in 0..NumPartitions - 1 /\ Len(file) \in Nat /\ Len(file) > 0 /\ file \in Seq(Chars)
    BY FileFacts, PartOfFile DEF IoInv
<1>2. /\ s \in Nat /\ n \in Nat /\ n > 0 /\ b \in Nat /\ s <= b /\ b < Len(file)
      /\ n = IF part + 1 < NumPartitions THEN b - s ELSE (b - s) + 1
      /\ part + 1 < NumPartitions => s + n < Len(file)
      /\ ~(part + 1 < NumPartitions) => s + n = Len(file)
    <2>1. part + 1 < NumPartitions \/ part + 1 = NumPartitions
        BY <1>1, Cut
    <2> QED BY <1>1, <2>1, Cut, Sizes
<1>3. buf.state = "live" /\ buf.bytes = SubSeq(file, s + 1, b)
    <2>1. buf = [state |-> "live", bytes |-> Piece(part)]
        BY DEF IoInv
    <2>2. Piece(part) = SubSeq(file, s + 1, b)
        BY DEF Piece
    <2> HIDE DEF s, b
    <2>3. buf.state = "live" /\ buf.bytes = Piece(part)
        BY <2>1
    <2> QED BY <2>2, <2>3
<1> HIDE DEF s, b, n
<1> DEFINE read == SubSeq(file, s + 1, b)
<1>4. Len(read) = b - s /\ \A t \in 1..b - s : read[t] = file[s + t]
    <2>0. s \in Nat /\ b \in Nat /\ b <= Len(file)
        BY <1>1, <1>2
    <2>1. /\ Len(SubSeq(file, s + 1, b)) = IF s <= b THEN b - s ELSE 0
          /\ \A t \in 1..b - s : SubSeq(file, s + 1, b)[t] = file[s + t]
        BY <2>0, PieceOf
    <2> QED BY <1>2, <2>1
<1> HIDE DEF read
<1>5. Seen(n) = [t \in 1..n |-> CASE t <= Len(read)            -> read[t]
                                  [] t > Len(read) + VecBytes -> junk
                                  [] OTHER                    -> 0]
    <2> DEFINE r == IF buf.state = "live" THEN buf.bytes ELSE <<>>
               v == IF buf.state = "live" THEN VecBytes ELSE 0
    <2>1. r = read /\ v = VecBytes
        BY <1>3, Zenon DEF read
    <2>2. Seen(n) = [t \in 1..n |-> CASE t <= Len(r)     -> r[t]
                                      [] t > Len(r) + v -> junk
                                      [] OTHER          -> 0]
        BY Zenon DEF Seen
    <2> HIDE DEF r, v
    <2> QED BY <2>1, <2>2, Zenon
<1>6. VecBytes \in Nat /\ VecBytes > 0
    BY SparkAssumption
<1>7. \A t \in 1..n : Seen(n)[t] = WholeFile[s + t]
    <2> SUFFICES ASSUME NEW t \in 1..n PROVE Seen(n)[t] = WholeFile[s + t]
        OBVIOUS
    <2>1. s + t \in 1..Len(file)
        BY <1>1, <1>2
    <2>2. WholeFile[s + t] = IF s + t < Len(file) THEN file[s + t] ELSE 0
        BY <2>1, WholeFileIs
    <2>3. CASE t <= Len(read)
        <3>1. t \in 1..b - s /\ s + t < Len(file)
            BY <1>1, <1>2, <1>4, <2>3
        <3>2. ~(t > Len(read) + VecBytes)
            BY <1>2, <1>4, <1>6, <2>3
        <3>3. Seen(n)[t] = read[t]
            BY <1>5, <2>3, <3>2
        <3> QED BY <1>4, <2>2, <3>1, <3>3
    <2>4. CASE ~(t <= Len(read))
        <3>1. ~(t > Len(read) + VecBytes) /\ ~(s + t < Len(file))
            BY <1>1, <1>2, <1>4, <1>6, <2>4
        <3>2. Seen(n)[t] = 0
            BY <1>5, <2>4, <3>1
        <3> QED BY <2>2, <3>1, <3>2
    <2> QED BY <2>3, <2>4
<1>8. Seen(n) \in Seq(Chars) /\ Len(Seen(n)) = n
    BY <1>2, SeenTyped
<1> DEFINE p == SubSeq(WholeFile, s + 1, s + n)
<1>9. p \in Seq(Chars) /\ Len(p) = n /\ \A t \in 1..n : p[t] = WholeFile[s + t]
    <2>1. s + 1 \in Int /\ s + n \in Int /\ s + 1 <= s + n
        BY <1>2
    <2>2. \A k \in (s + 1)..(s + n) : WholeFile[k] \in Chars
        <3>1. \A k \in (s + 1)..(s + n) : k \in 1..Len(WholeFile)
            BY <1>1, <1>2, WholeFileIs
        <3> QED BY <3>1, WholeFileIs
    <2>3. /\ p \in Seq(Chars)
          /\ Len(p) = IF s + 1 <= s + n THEN (s + n) - (s + 1) + 1 ELSE 0
          /\ \A t \in 1..(s + n) - (s + 1) + 1 : p[t] = WholeFile[(s + 1) + t - 1]
        BY <2>1, <2>2, SubSeqProperties
    <2>4. (s + n) - (s + 1) + 1 = n /\ \A t \in 1..n : (s + 1) + t - 1 = s + t
        BY <1>2
    <2> HIDE DEF p
    <2> QED BY <2>1, <2>3, <2>4
<1> HIDE DEF p
<1>10. Seen(n) = p
    BY <1>7, <1>8, <1>9, SeqEqual
<1> QED BY <1>10 DEF p, s, n

----------------------------------------------------------------------------
\* The scan.

\* What each table of the automaton holds.
LEMMA Tables ==
    ASSUME Typed
    PROVE  /\ fa.groups \in Nat /\ E!INV_STATE \in fa.states /\ E!INIT_STATE \in fa.states
           /\ \A q \in fa.states, b \in Chars : fa.next[q][b] \in fa.states
           /\ \A q \in fa.states : fa.sink[q] \in fa.states /\ Len(fa.str[q]) \in Nat
           /\ \A q \in fa.states : fa.start[q] \in 0..fa.groups
           /\ \A q \in fa.accept : q \in fa.states
           /\ E!size \in Nat /\ VecBytes \in Nat
           /\ \A k \in Nat : E!Byte(k) \in Chars
<1>1. E!IsAutomaton(fa) /\ data \in Seq(Chars)
    BY DEF Typed, FixedTyped
<1>2. /\ fa.groups \in Nat /\ E!INV_STATE \in fa.states /\ E!INIT_STATE \in fa.states
      /\ \A q \in fa.states, b \in Chars : fa.next[q][b] \in fa.states
      /\ \A q \in fa.states : fa.sink[q] \in fa.states /\ Len(fa.str[q]) \in Nat
      /\ \A q \in fa.states : fa.start[q] \in 0..fa.groups
      /\ \A q \in fa.accept : q \in fa.states
    <2>1. fa.groups \in Nat /\ E!INV_STATE \in fa.states /\ E!INIT_STATE \in fa.states
        BY <1>1 DEF E!IsAutomaton, E!INV_STATE, E!INIT_STATE
    <2>2. fa.next \in [fa.states -> [Chars -> fa.states]] /\ fa.sink \in [fa.states -> fa.states]
        BY <1>1 DEF E!IsAutomaton
    <2>3. fa.str \in [fa.states -> Seq(Chars)] /\ fa.start \in [fa.states -> 0..fa.groups]
        BY <1>1 DEF E!IsAutomaton
    <2>4. \A q \in fa.accept : q \in fa.states
        BY <1>1 DEF E!IsAutomaton
    <2>5. \A q \in fa.states : Len(fa.str[q]) \in Nat
        BY <2>3
    <2> QED BY <2>1, <2>2, <2>3, <2>4, <2>5
<1>3. E!size \in Nat /\ VecBytes \in Nat /\ \A k \in Nat : E!Byte(k) \in Chars
    BY <1>1, SparkAssumption DEF E!size, E!Byte
<1> QED BY <1>2, <1>3

\* No group took part yet.
LEMMA NoMatchesTyped == E!NoMatches \in Ranges
BY DEF E!NoMatches, E!NoMatch, E!Unset, Ranges

\* The group that is open is closed: its id is 0.
LEMMA ClosedTyped ==
    ASSUME Typed, NEW g \in OpenGroups
    PROVE  [g EXCEPT !.id = 0] \in OpenGroups
<1>1. fa.groups \in Nat
    BY Tables
<1> QED BY <1>1 DEF OpenGroups

\* The range of an open group is entered in the sub-matches.
LEMMA EnteredTyped ==
    ASSUME Typed, NEW subs \in Ranges, NEW g, NEW s \in [start : Int, end : Int]
    PROVE  [subs EXCEPT ![g] = s] \in Ranges
BY DEF Ranges

\* What is kept where the state is the initial one.
LEMMA KeptTyped ==
    ASSUME Typed
    PROVE  /\ E!KeptState \in fa.states /\ E!KeptIndex \in Nat
           /\ E!KeptSubs \in Ranges /\ E!KeptGroup \in OpenGroups
<1>1. ContextTyped
    BY DEF Typed
<1>2. E!KeptState \in fa.states /\ E!KeptIndex \in Nat
    BY <1>1, Tables DEF E!KeptState, E!KeptIndex, ContextTyped
<1>3. E!KeptSubs \in Ranges
    BY <1>1, NoMatchesTyped DEF E!KeptSubs, ContextTyped
<1>4. E!KeptGroup \in OpenGroups
    <2>1. startSMS \in OpenGroups
        BY <1>1 DEF ContextTyped
    <2>2. [startSMS EXCEPT !.id = 0] \in OpenGroups
        BY <2>1, ClosedTyped
    <2> QED BY <2>1, <2>2 DEF E!KeptGroup
<1> QED BY <1>2, <1>3, <1>4

\* The types of the next state of a turn, from the new values.
TurnTyped ==
    /\ i' \in Nat
    /\ currentState' \in fa.states /\ recentAcceptState' \in fa.states /\ recentAcceptIndex' \in Nat
    /\ startSMS' \in OpenGroups /\ subMatches' \in Ranges

\* The end of a turn.
LEMMA NoteTyped ==
    ASSUME Typed, NEW q \in fa.states, NEW k \in Nat, NEW a \in fa.states, NEW x \in Nat,
           E!NoteAccept(q, k, a, x)
    PROVE  /\ i' \in Nat
           /\ currentState' \in fa.states /\ recentAcceptState' \in fa.states
           /\ recentAcceptIndex' \in Nat
BY DEF E!NoteAccept

\* The end of a group.
LEMMA EndTyped ==
    ASSUME Typed, NEW subs \in Ranges, NEW g \in OpenGroups, NEW q, NEW k \in Nat,
           E!EndSubMatch(subs, g, q, k)
    PROVE  startSMS' \in OpenGroups /\ subMatches' \in Ranges
<1>1. [g EXCEPT !.id = 0] \in OpenGroups
    BY ClosedTyped
<1>2. [start |-> g.index, end |-> k] \in [start : Int, end : Int]
    BY DEF OpenGroups
<1>3. [subs EXCEPT ![g.id] = [start |-> g.index, end |-> k]] \in Ranges
    BY <1>2, EnteredTyped
<1> QED BY <1>1, <1>3 DEF E!EndSubMatch

\* A byte is read by a table.
LEMMA StepTyped ==
    ASSUME Typed, NEW k \in Nat, NEW g \in OpenGroups, E!Step(k, g)
    PROVE  TurnTyped
<1> DEFINE q == fa.next[currentState][E!Byte(k)]
<1>1. q \in fa.states
    <2>1. currentState \in fa.states /\ E!Byte(k) \in Chars
        BY Tables DEF Typed, ContextTyped
    <2> QED BY <2>1, Tables
<1>2. E!NoteAccept(q, k + 1, E!KeptState, E!KeptIndex) /\ E!EndSubMatch(E!KeptSubs, g, q, k)
    BY DEF E!Step
<1> HIDE DEF q
<1>3. E!KeptState \in fa.states /\ E!KeptIndex \in Nat /\ E!KeptSubs \in Ranges
    BY KeptTyped
<1>4. k + 1 \in Nat
    OBVIOUS
<1>5. /\ i' \in Nat
      /\ currentState' \in fa.states /\ recentAcceptState' \in fa.states
      /\ recentAcceptIndex' \in Nat
    BY <1>1, <1>2, <1>3, <1>4, NoteTyped
<1>6. startSMS' \in OpenGroups /\ subMatches' \in Ranges
    BY <1>2, <1>3, EndTyped
<1> QED BY <1>5, <1>6 DEF TurnTyped

\* A group is opened.
LEMMA StartTyped ==
    ASSUME Typed, NEW g \in OpenGroups
    PROVE  E!StartSubMatch(g) \in OpenGroups
<1>1. fa.start[currentState] \in 0..fa.groups /\ i \in Nat
    BY Tables DEF Typed, ContextTyped
<1> QED BY <1>1 DEF E!StartSubMatch, OpenGroups

\* What every turn may use of the state before it.
LEMMA ContextFacts ==
    ASSUME Typed
    PROVE  /\ i \in Nat /\ currentState \in fa.states /\ recentAcceptState \in fa.states
           /\ recentAcceptIndex \in Nat /\ startSMS \in OpenGroups /\ subMatches \in Ranges
           /\ \A r \in 0..VecBytes : r \in Nat /\ i + r \in Nat
           /\ VecBytes \in Nat
BY Tables DEF Typed, ContextTyped

LEMMA WindowOrdTyped ==
    ASSUME Typed, NEW r \in 0..VecBytes, E!WindowOrd(r)
    PROVE  TurnTyped /\ UNCHANGED rows
<1>1. CASE E!Loop(i + VecBytes) \/ E!Loop(i + r)
    <2>1. i + VecBytes \in Nat /\ i + r \in Nat
        BY ContextFacts
    <2>2. i' \in Nat /\ UNCHANGED <<currentState, recentAcceptState, recentAcceptIndex>>
          /\ UNCHANGED <<startSMS, subMatches, rows>>
        BY <1>1, <2>1 DEF E!Loop, E!ctx
    <2> QED BY <2>2, ContextFacts DEF TurnTyped
<1>2. CASE /\ E!NoteAccept(fa.sink[currentState], i + r + Len(E!Needle), E!KeptState, E!KeptIndex)
           /\ startSMS' = E!KeptGroup /\ subMatches' = E!KeptSubs /\ rows' = rows
    <2>1. fa.sink[currentState] \in fa.states /\ Len(E!Needle) \in Nat
        BY ContextFacts, Tables DEF E!Needle
    <2>2. i + r + Len(E!Needle) \in Nat
        BY <2>1, ContextFacts
    <2>3. TurnTyped
        BY <1>2, <2>1, <2>2, KeptTyped, NoteTyped DEF TurnTyped
    <2> QED BY <1>2, <2>3
<1>3. UNCHANGED rows
    BY DEF E!WindowOrd, E!Loop
<1> QED BY <1>1, <1>2, <1>3 DEF E!WindowOrd

LEMMA WindowSetTyped ==
    ASSUME Typed, NEW r \in 0..VecBytes, E!WindowSet(r)
    PROVE  TurnTyped /\ UNCHANGED rows
<1>0. i + r \in Nat /\ i + VecBytes \in Nat
    BY ContextFacts
<1>1. CASE E!Loop(i + VecBytes)
    <2>1. i' \in Nat /\ UNCHANGED <<currentState, recentAcceptState, recentAcceptIndex>>
          /\ UNCHANGED <<startSMS, subMatches, rows>>
        BY <1>0, <1>1 DEF E!Loop, E!ctx
    <2> QED BY <2>1, ContextFacts DEF TurnTyped
<1>2. CASE /\ E!NoteAccept(currentState, i + r, E!KeptState, E!KeptIndex)
           /\ startSMS' = E!KeptGroup /\ subMatches' = E!KeptSubs
    <2>1. TurnTyped
        BY <1>0, <1>2, ContextFacts, KeptTyped, NoteTyped DEF TurnTyped
    <2>2. UNCHANGED rows
        BY DEF E!WindowSet, E!Loop
    <2> QED BY <2>1, <2>2
<1>3. CASE E!Step(i + r, E!KeptGroup)
    <2>1. TurnTyped
        BY <1>0, <1>3, KeptTyped, StepTyped
    <2>2. UNCHANGED rows
        BY DEF E!WindowSet, E!Loop
    <2> QED BY <2>1, <2>2
<1> QED BY <1>1, <1>2, <1>3 DEF E!WindowSet

LEMMA StepCTyped ==
    ASSUME Typed, E!StepC
    PROVE  TurnTyped /\ UNCHANGED rows
<1>1. E!Step(i, E!StartSubMatch(E!KeptGroup)) /\ rows' = rows
    BY DEF E!StepC
<1>2. i \in Nat /\ E!StartSubMatch(E!KeptGroup) \in OpenGroups
    BY ContextFacts, KeptTyped, StartTyped
<1> QED BY <1>1, <1>2, StepTyped

LEMMA EnterTyped ==
    ASSUME Typed, E!Enter
    PROVE  TurnTyped /\ UNCHANGED rows
<1>1. UNCHANGED <<i, currentState, recentAcceptState, recentAcceptIndex, subMatches, rows>>
    BY DEF E!Enter, E!ctx
<1>2. startSMS' \in OpenGroups
    BY ContextFacts, StartTyped DEF E!Enter
<1> QED BY <1>1, <1>2, ContextFacts DEF TurnTyped

LEMMA WindowEndTyped ==
    ASSUME Typed, E!WindowEnd
    PROVE  TurnTyped /\ UNCHANGED rows
<1>1. /\ E!NoteAccept(currentState, i, recentAcceptState, recentAcceptIndex)
      /\ UNCHANGED <<startSMS, subMatches, rows>>
    BY DEF E!WindowEnd, E!Return
<1> QED BY <1>1, ContextFacts, NoteTyped DEF TurnTyped

LEMMA AbandonTyped ==
    ASSUME Typed, E!Abandon
    PROVE  TurnTyped /\ UNCHANGED rows
<1>1. /\ E!NoteAccept(E!INIT_STATE, i, E!INV_STATE, 0) /\ UNCHANGED rows
      /\ startSMS' = [startSMS EXCEPT !.id = 0] /\ subMatches' = E!NoMatches
    BY DEF E!Abandon
<1>2. 0 \in Nat /\ i \in Nat /\ E!INIT_STATE \in fa.states /\ E!INV_STATE \in fa.states
    BY ContextFacts, Tables
<1>3. startSMS' \in OpenGroups /\ subMatches' \in Ranges
    BY <1>1, ContextFacts, ClosedTyped, NoMatchesTyped
<1> QED BY <1>1, <1>2, <1>3, NoteTyped DEF TurnTyped

LEMMA EmitTyped ==
    ASSUME Typed, E!Emit
    PROVE  /\ TurnTyped
           /\ \E row \in ScanRows : rows' = Append(rows, row)
<1> DEFINE s == [start |-> startSMS.index, end |-> i - 1]
           subs == IF startSMS.id > 0 THEN [subMatches EXCEPT ![startSMS.id] = s] ELSE subMatches
<1>1. /\ rows' = Append(rows, [subs |-> subs, end |-> recentAcceptIndex])
      /\ E!NoteAccept(E!INIT_STATE, recentAcceptIndex + 1, E!INV_STATE, 0)
      /\ startSMS' = [startSMS EXCEPT !.id = 0] /\ subMatches' = E!NoMatches
    BY DEF E!Emit
<1>2. s \in [start : Int, end : Int]
    BY ContextFacts DEF OpenGroups
<1> HIDE DEF s
<1>3. subs \in Ranges
    BY <1>2, ContextFacts, EnteredTyped
<1> HIDE DEF subs
<1>4. [subs |-> subs, end |-> recentAcceptIndex] \in ScanRows
    BY <1>3, ContextFacts DEF ScanRows
<1>5. 0 \in Nat /\ recentAcceptIndex + 1 \in Nat /\ E!INIT_STATE \in fa.states /\ E!INV_STATE \in fa.states
    <2>1. recentAcceptIndex \in Nat
        BY ContextFacts
    <2>2. E!INIT_STATE \in fa.states /\ E!INV_STATE \in fa.states
        BY Tables
    <2> QED BY <2>1, <2>2
<1>6. startSMS' \in OpenGroups /\ subMatches' \in Ranges
    BY <1>1, ContextFacts, ClosedTyped, NoMatchesTyped
<1> QED BY <1>1, <1>4, <1>5, <1>6, NoteTyped DEF TurnTyped

LEMMA ScanEndTyped ==
    ASSUME Typed, E!Finish
    PROVE  TurnTyped /\ UNCHANGED rows
BY ContextFacts DEF E!Finish, E!ctx, TurnTyped

----------------------------------------------------------------------------
\* The steps.

\* The types after a step.
LEMMA TypedNext ==
    ASSUME Typed, UNCHANGED fixed, TurnTyped, data' \in Seq(Chars), rows' \in Seq(ScanRows),
           junk' \in Chars, IsList(frame')
    PROVE  Typed'
<1>1. file' = file /\ keyTypes' = keyTypes /\ fa' = fa /\ sample' = sample
    BY DEF fixed
<1>2. FixedTyped'
    BY <1>1 DEF Typed, FixedTyped, E!IsAutomaton
<1>3. Ranges' = Ranges /\ OpenGroups' = OpenGroups /\ ScanRows' = ScanRows
    BY <1>1 DEF Ranges, OpenGroups, ScanRows
<1>4. ContextTyped'
    BY <1>1, <1>3 DEF TurnTyped, ContextTyped
<1> QED BY <1>2, <1>3, <1>4 DEF Typed

\* A step that leaves the context as it is.
LEMMA SameContext ==
    ASSUME Typed,
           UNCHANGED <<i, currentState, recentAcceptState, recentAcceptIndex, startSMS, subMatches>>
    PROVE  TurnTyped
BY ContextFacts DEF TurnTyped

\* A step that leaves the stream alone.
LEMMA IoSame ==
    ASSUME IoInv, UNCHANGED <<file, pos, offset, buf, part>>,
           \/ phase' = phase
           \/ phase \in Scanning /\ phase' \in Scanning
           \/ phase' \in {"done", "fault"}
    PROVE  IoInv'
<1>1. NumPartitions' = NumPartitions /\ Piece(part)' = Piece(part) /\ LastByteAlone' = LastByteAlone
    BY DEF NumPartitions, Piece, LastByteAlone, Start
<1>2. Start(part)' = Start(part) /\ Start(part + 1)' = Start(part + 1) /\ Io!NoBuffer' = Io!NoBuffer
    BY DEF Start, Io!NoBuffer
<1>3. Buffers' = Buffers
    BY DEF Buffers
<1> HIDE DEF NumPartitions, Piece, LastByteAlone, Start
<1> QED BY <1>1, <1>2, <1>3 DEF IoInv, Scanning, Phases

\* A step that leaves the data frame alone.
LEMMA FrameSame ==
    ASSUME RowsFit, UNCHANGED <<frame, keyTypes>>
    PROVE  RowsFit'
BY DEF RowsFit, R!SizeInRow, R!TextKeys

\* A step with a row that is stored.
LEMMA FrameAppend ==
    ASSUME Typed, RowsFit, UNCHANGED keyTypes, NEW row, RowFits(keyTypes, row),
           frame' = Append(frame, row)
    PROVE  RowsFit' /\ IsList(frame')
<1>1. IsList(frame)
    BY DEF Typed
<1>2. /\ IsList(Append(frame, row)) /\ Len(Append(frame, row)) = Len(frame) + 1
      /\ Append(frame, row)[Len(frame) + 1] = row
      /\ \A k \in 1..Len(frame) : Append(frame, row)[k] = frame[k]
    BY <1>1, AppendList
<1>3. Len(frame) \in Nat
    BY <1>1 DEF IsList
<1>4. \A k \in 1..Len(frame) : RowFits(keyTypes, frame[k])
    BY DEF RowsFit, RowFits
<1>5. ASSUME NEW k \in 1..Len(frame')
      PROVE  RowFits(keyTypes, frame'[k])
    <2>1. CASE k \in 1..Len(frame)
        BY <1>2, <1>4, <2>1
    <2>2. CASE k = Len(frame) + 1
        BY <1>2, <2>2
    <2>3. k \in 1..Len(frame) \/ k = Len(frame) + 1
        BY <1>2, <1>3
    <2> QED BY <2>1, <2>2, <2>3
<1>6. R!SizeInRow(keyTypes)' = R!SizeInRow(keyTypes) /\ keyTypes' = keyTypes
    BY DEF R!SizeInRow, R!TextKeys
<1> QED BY <1>2, <1>5, <1>6 DEF RowsFit, RowFits

\* readFile returns early: the buffer is gone.
LEMMA NothingRead ==
    ASSUME NEW n, buf \in Buffers, buf.state \in {"null", "live"}, Io!ReadNothing(n)
    PROVE  buf' \in Buffers /\ buf'.state = IF buf.state = "live" THEN "freed" ELSE "null"
<1> DEFINE d == Io!Deleted(buf.state)
<1>1. buf' = [buf EXCEPT !.state = d]
    BY DEF Io!ReadNothing
<1>2. d = IF buf.state = "live" THEN "freed" ELSE "null"
    BY DEF Io!Deleted
<1> HIDE DEF d
<1> QED BY <1>1, <1>2 DEF Buffers

\* readFile reads n bytes, or what the file has of them.
LEMMA PieceRead ==
    ASSUME Typed, NEW n \in Nat, pos \in Nat, offset \in Nat, buf.state \in {"null", "live"},
           Io!ReadPiece(n)
    PROVE  buf' \in Buffers /\ buf'.state = "live"
<1> DEFINE end == offset + Io!ReadSize(n)
           b   == IF end < Io!fileSize THEN end ELSE Io!fileSize
<1>1. buf' = [state |-> IF buf.state = "freed" THEN "freed twice" ELSE "live",
              bytes |-> SubSeq(file, offset + 1, b)]
    BY DEF Io!ReadPiece
<1>2. b \in Int /\ b <= Len(file)
    BY FileFacts DEF Io!ReadSize, Io!fileSize
<1> HIDE DEF b
<1>3. SubSeq(file, offset + 1, b) \in Seq(Chars)
    <2>1. \A k \in (offset + 1)..b : file[k] \in Chars
        BY <1>2, FileFacts
    <2>2. offset + 1 \in Int
        OBVIOUS
    <2> QED BY <1>2, <2>1, <2>2, SubSeqProperties
<1> QED BY <1>1, <1>3 DEF Buffers

\* constructVFA reads a sample of a new file: nothing is deleted.
LEMMA ReadSampleIo ==
    ASSUME Typed, IoInv, ReadSample
    PROVE  IoInv'
<1>1. /\ pos = 0 /\ offset = 0 /\ buf = Io!NoBuffer /\ part = 0 /\ phase' = "seek"
      /\ Io!ReadFile(sample) /\ UNCHANGED <<file, part>>
    BY DEF ReadSample, IoInv, fixed
<1>2. buf' \in Buffers /\ buf'.state \in {"null", "live"}
    <2>1. buf \in Buffers /\ buf.state = "null" /\ offset \in Nat /\ pos \in Nat
        BY <1>1 DEF IoInv, Io!NoBuffer
    <2>2. CASE Io!ReadNothing(sample)
        BY <2>1, <2>2, NothingRead
    <2>3. CASE Io!ReadPiece(sample)
        <3>1. sample \in Nat /\ buf.state \in {"null", "live"}
            BY <2>1, FileFacts
        <3> QED BY <2>1, <2>3, <3>1, PieceRead
    <2> QED BY <1>1, <2>2, <2>3 DEF Io!ReadFile
<1>3. NumPartitions' = NumPartitions
    BY <1>1 DEF NumPartitions
<1>4. part' \in 0..NumPartitions'
    BY <1>1, <1>3 DEF IoInv
<1> QED BY <1>1, <1>2, <1>4 DEF IoInv, Phases, Scanning, Buffers

\* seek(0): the count and the descriptor go back together.
LEMMA SeekStartIo ==
    ASSUME Typed, IoInv, SeekStart
    PROVE  IoInv'
<1>1. /\ part = 0 /\ phase' = "read" /\ buf \in Buffers /\ buf.state \in {"null", "live"}
      /\ pos' = 0 /\ offset' = 0 /\ UNCHANGED <<file, buf, part>>
    BY DEF SeekStart, IoInv, Io!Seek, fixed
<1>2. Start(0) = 0
    BY SparkAssumption DEF Start
<1>3. Start(part)' = 0
    BY <1>1, <1>2 DEF Start
<1>4. NumPartitions' = NumPartitions
    BY <1>1 DEF NumPartitions
<1>5. part' \in 0..NumPartitions'
    BY <1>1, <1>4 DEF IoInv
<1> QED BY <1>1, <1>3, <1>5 DEF IoInv, Phases, Scanning, Buffers

\* A partition is read from where the one before ended.  Where only the last
\* byte of the file is left, nothing is read, and the buffer is gone.
LEMMA ReadPartitionIo ==
    ASSUME Typed, IoInv, ReadPartition
    PROVE  IoInv'
<1> DEFINE s == Start(part)
           n == PartSize
           size == Len(file)
           N == NumPartitions
<1>1. /\ phase = "read" /\ part < N /\ Io!ReadFile(n) /\ UNCHANGED <<file, part>>
      /\ phase' = IF buf'.state = "null" THEN "fault"
                  ELSE IF prevStart = NoPrev THEN "load" ELSE "preload"
    BY DEF ReadPartition, fixed
<1>2. pos = s /\ offset = s /\ buf \in Buffers /\ buf.state \in {"null", "live"}
    BY <1>1 DEF IoInv
<1>3. part \in 0..N - 1 /\ part \in Nat /\ N \in Nat /\ part + 1 <= N
    BY <1>1, PartOfFile
<1>4. /\ size \in Nat /\ size > 0 /\ s \in Nat /\ s < size /\ n \in Nat /\ n > 0
      /\ part + 1 < N => Start(part + 1) = s + n /\ s + n < size
      /\ part + 1 = N => s + n = size
    BY <1>3, FileFacts, Cut, Sizes
<1>5. N' = N /\ Piece(part)' = Piece(part) /\ LastByteAlone' = LastByteAlone
      /\ Start(part + 1)' = Start(part + 1)
    BY <1>1 DEF NumPartitions, Piece, LastByteAlone, Start
<1>6. CASE Io!ReadNothing(n)
    <2>1. s + 1 = size
        BY <1>2, <1>4, <1>6 DEF Io!ReadNothing, Io!NothingToRead, Io!fileSize
    <2>2. part + 1 = N
        BY <1>3, <1>4, <2>1
    <2>3. LastByteAlone
        <3>1. size - 1 = PartitionSize * part
            BY <1>4, <2>1 DEF Start
        <3>2. (PartitionSize * part) % PartitionSize = 0
            BY <1>3, Multiple, SparkAssumption
        <3> QED BY <3>1, <3>2 DEF LastByteAlone
    <2>4. buf' \in Buffers /\ buf'.state = IF buf.state = "live" THEN "freed" ELSE "null"
        BY <1>2, <1>6, NothingRead
    <2>5. \/ phase' = "fault"
          \/ phase' \in {"load", "preload"} /\ buf'.state = "freed"
        BY <1>1, <1>2, <2>4
    <2> HIDE DEF N
    <2>6. part' \in 0..N'
        BY <1>1, <1>3, <1>5
    <2> QED BY <1>1, <1>5, <2>2, <2>3, <2>4, <2>5, <2>6 DEF IoInv, Phases, Scanning, Buffers, N
<1>7. CASE Io!ReadPiece(n)
    <2> DEFINE e == IF part + 1 < N THEN Start(part + 1) ELSE size - 1
    <2>1. s + 1 < size
        <3>1. ~Io!NothingToRead(n)
            BY <1>7, Zenon DEF Io!ReadPiece
        <3>2. ~(size > 0 /\ s >= size - 1)
            BY <1>2, <3>1 DEF Io!NothingToRead, Io!fileSize
        <3> HIDE DEF s, size
        <3> QED BY <1>4, <3>2
    <2>2. s + Io!ReadSize(n) = e /\ e < size
        <3>1. Io!ReadSize(n) = IF s + n >= size THEN (size - s) - 1 ELSE n
            BY <1>2, Zenon DEF Io!ReadSize, Io!fileSize
        <3> HIDE DEF s, size, n, N
        <3> QED BY <1>3, <1>4, <3>1
    <2>3. /\ buf' = [state |-> "live", bytes |-> SubSeq(file, s + 1, e)]
          /\ pos' = e /\ offset' = e
        BY <1>2, <1>7, <2>2, Zenon DEF Io!ReadPiece, Io!fileSize
    <2>4. SubSeq(file, s + 1, e) = Piece(part)
        BY DEF Piece
    <2>5. Piece(part) \in Seq(Chars)
        BY <1>3, PieceTyped
    <2>6. phase' \in {"load", "preload"}
        <3>1. buf'.state = "live"
            BY <2>3
        <3> QED BY <1>1, <3>1
    <2>7. part + 1 < N => pos' = Start(part + 1) /\ offset' = Start(part + 1)
        BY <2>3
    <2> HIDE DEF e, s, n, size, N
    <2>8. buf' = [state |-> "live", bytes |-> Piece(part)]
        BY <2>3, <2>4
    <2>9. buf' \in Buffers
        BY <2>5, <2>8 DEF Buffers
    <2>10. part' \in 0..N' /\ part' = part
        BY <1>1, <1>3, <1>5
    <2>11. part' < N' /\ Piece(part') = Piece(part) /\ Start(part' + 1) = Start(part + 1)
        BY <1>1, <1>3, <1>5
    <2> QED BY <1>1, <1>5, <2>6, <2>7, <2>8, <2>9, <2>10, <2>11
            DEF IoInv, Phases, Scanning, Buffers, N
<1> QED BY <1>1, <1>6, <1>7 DEF Io!ReadFile

\* The partition is done: the next one follows in the stream.
LEMMA PostExecIo ==
    ASSUME Typed, IoInv, PostExec
    PROVE  IoInv'
<1>1. /\ phase = "exec" /\ part' = part + 1 /\ phase' \in {"read", "fault"}
      /\ UNCHANGED <<file, pos, offset, buf>>
    BY DEF PostExec, fixed, io
<1>2. part < NumPartitions /\ buf \in Buffers
    BY <1>1 DEF IoInv, Scanning
<1>3. part \in Nat /\ NumPartitions \in Nat
    BY <1>2, PartOfFile
<1>4. NumPartitions' = NumPartitions /\ Start(part)' = Start(part + 1)
    BY <1>1 DEF NumPartitions, Start
<1>5. part + 1 < NumPartitions =>
        pos = Start(part + 1) /\ offset = Start(part + 1) /\ buf.state \in {"null", "live"}
    <2>1. ASSUME part + 1 < NumPartitions
          PROVE  /\ pos = Start(part + 1) /\ offset = Start(part + 1)
                 /\ buf = [state |-> "live", bytes |-> Piece(part)]
        <3>1. part + 1 # NumPartitions
            BY <1>3, <2>1
        <3> QED BY <1>1, <2>1, <3>1 DEF IoInv, Scanning
    <2>2. ASSUME buf = [state |-> "live", bytes |-> Piece(part)]
          PROVE  buf.state = "live"
        BY <2>2
    <2> QED BY <2>1, <2>2
<1> HIDE DEF NumPartitions
<1>6. part' \in 0..NumPartitions'
    BY <1>1, <1>2, <1>3, <1>4
<1>7. buf' \in Buffers /\ Buffers' = Buffers
    BY <1>1, <1>2 DEF Buffers
<1> QED BY <1>1, <1>4, <1>5, <1>6, <1>7 DEF IoInv, Phases, Scanning

\* A step of the runtime that is not one of the scan's.
LEMMA ExecFromTyped ==
    ASSUME Typed, IoInv, phase \in Scanning, NEW start \in Nat, ExecFrom(start)
    PROVE  /\ data' \in Seq(Chars) /\ i' \in Nat /\ phase' = "exec"
           /\ UNCHANGED <<fixed, io, rows, frame, part, junk>>
<1>1. part < NumPartitions
    BY DEF IoInv
<1>2. PartSize \in Nat
    BY <1>1, FileFacts, PartOfFile, Sizes
<1>3. Seen(PartSize) \in Seq(Chars)
    BY <1>2, SeenTyped
<1> QED BY <1>3 DEF ExecFrom, df

\* A step of the scan leaves the buffer alone, and emits at most one row.
LEMMA ScanStep ==
    ASSUME Typed, E!Next
    PROVE  /\ TurnTyped /\ data' = data
           /\ rows' = rows \/ \E row \in ScanRows : rows' = Append(rows, row)
<1>1. CASE E!Enter
    BY <1>1, EnterTyped DEF E!Enter
<1>2. CASE E!WindowEnd
    BY <1>2, WindowEndTyped DEF E!WindowEnd, E!Return
<1>3. ASSUME NEW r \in 0..VecBytes, E!WindowOrd(r)
      PROVE  TurnTyped /\ data' = data /\ rows' = rows
    <2>1. data' = data
        BY <1>3 DEF E!WindowOrd, E!Loop
    <2> QED BY <1>3, <2>1, WindowOrdTyped
<1>4. ASSUME NEW r \in 0..VecBytes, E!WindowSet(r)
      PROVE  TurnTyped /\ data' = data /\ rows' = rows
    <2>1. data' = data
        BY <1>4 DEF E!WindowSet, E!Loop
    <2> QED BY <1>4, <2>1, WindowSetTyped
<1>5. CASE E!StepC
    BY <1>5, StepCTyped DEF E!StepC
<1>6. CASE E!Emit
    <2>1. data' = data
        BY <1>6 DEF E!Emit
    <2> QED BY <1>6, <2>1, EmitTyped
<1>7. CASE E!Abandon
    BY <1>7, AbandonTyped DEF E!Abandon
<1>8. CASE E!Finish
    BY <1>8, ScanEndTyped DEF E!Finish
<1> QED BY <1>1, <1>2, <1>3, <1>4, <1>5, <1>6, <1>7, <1>8 DEF E!Next

\* The scan of a partition: a row that is emitted is stored.
LEMMA ExecScanStep ==
    ASSUME Inv, ExecScan
    PROVE  Inv'
<1> USE DEF Inv
<1>1. /\ E!Next /\ phase = "exec"
      /\ IF Len(rows') = Len(rows)
         THEN UNCHANGED <<frame, phase>>
         ELSE LET subs == rows'[Len(rows')].subs
              IN  IF R!StoreFaults(keyTypes, subs)
                  THEN phase' = "fault" /\ UNCHANGED frame
                  ELSE /\ frame' = Append(frame, R!StoreToDataFrame(keyTypes, subs, data))
                       /\ UNCHANGED phase
      /\ UNCHANGED <<fixed, io, part, junk>>
    BY DEF ExecScan
<1>2. file' = file /\ keyTypes' = keyTypes /\ UNCHANGED <<pos, offset, buf>>
    BY <1>1 DEF fixed, io
<1>3. rows \in Seq(ScanRows) /\ data \in Seq(Chars) /\ junk \in Chars /\ IsList(frame)
    BY DEF Typed
<1>4. /\ TurnTyped /\ data' = data
      /\ rows' = rows \/ \E row \in ScanRows : rows' = Append(rows, row)
    BY <1>1, ScanStep
<1>5. phase' \in {"exec", "fault"}
    BY <1>1
<1>6. IoInv'
    BY <1>1, <1>2, <1>5, IoSame DEF Scanning
<1>7. rows' \in Seq(ScanRows)
    BY <1>3, <1>4
<1>8. CASE frame' = frame
    BY <1>1, <1>2, <1>3, <1>4, <1>6, <1>7, <1>8, TypedNext, FrameSame
<1>9. CASE frame' # frame
    <2>1. rows' # rows
        BY <1>1, <1>9
    <2>2. PICK row \in ScanRows : rows' = Append(rows, row)
        BY <1>4, <2>1
    <2>3. rows'[Len(rows')] = row
        BY <1>3, <2>2
    <2> DEFINE stored == R!StoreToDataFrame(keyTypes, row.subs, data)
    <2>4. frame' = Append(frame, stored)
        BY <1>1, <1>9, <2>3
    <2>5. RowFits(keyTypes, stored)
        <3>1. keyTypes \in Seq(Types3) /\ Len(keyTypes) = fa.groups
            BY DEF Typed, FixedTyped
        <3>2. row.subs \in [1..Len(keyTypes) -> [start : Int, end : Int]]
            BY <3>1 DEF ScanRows, Ranges
        <3> QED BY <3>1, <3>2, StoredFits
    <2> HIDE DEF stored
    <2>6. RowsFit' /\ IsList(frame')
        BY <1>2, <2>4, <2>5, FrameAppend
    <2> QED BY <1>1, <1>3, <1>4, <1>6, <1>7, <2>6, TypedNext
<1> QED BY <1>8, <1>9

\* Every step of the runtime.
LEMMA IexecStep ==
    ASSUME Inv, Iexec
    PROVE  Inv'
<1> USE DEF Inv
<1>1. ContextTyped /\ data \in Seq(Chars) /\ rows \in Seq(ScanRows) /\ junk \in Chars /\ IsList(frame)
    BY DEF Typed
<1>2. ASSUME UNCHANGED <<fixed, scan, frame>>, junk' \in Chars
      PROVE  Typed' /\ RowsFit'
    <2>1. TurnTyped
        BY <1>2, SameContext DEF scan
    <2>2. data' = data /\ rows' = rows /\ frame' = frame /\ keyTypes' = keyTypes
        BY <1>2 DEF scan, fixed
    <2> QED BY <1>1, <1>2, <2>1, <2>2, TypedNext, FrameSame
<1>3. ASSUME UNCHANGED <<fixed, io, part, rows, frame, junk>>, phase \in Scanning, phase' \in Scanning,
             TurnTyped, data' \in Seq(Chars)
      PROVE  Inv'
    <2>1. keyTypes' = keyTypes /\ file' = file /\ UNCHANGED <<pos, offset, buf>>
        BY <1>3 DEF fixed, io
    <2>2. Typed'
        BY <1>1, <1>3, TypedNext
    <2>3. IoInv'
        BY <1>3, <2>1, IoSame
    <2> QED BY <1>3, <2>1, <2>2, <2>3, FrameSame
<1>4. CASE ReadSample
    <2>1. UNCHANGED <<fixed, scan, frame>> /\ junk' = junk
        BY <1>4 DEF ReadSample, df
    <2> QED BY <1>1, <1>2, <1>4, <2>1, ReadSampleIo
<1>5. CASE SeekStart
    <2>1. UNCHANGED <<fixed, scan, frame>> /\ junk' = junk
        BY <1>5 DEF SeekStart, df
    <2> QED BY <1>1, <1>2, <1>5, <2>1, SeekStartIo
<1>6. CASE ReadPartition
    <2>1. UNCHANGED <<fixed, scan, frame>> /\ junk' \in {0} \cup Chars
        BY <1>6 DEF ReadPartition, df
    <2>2. 0 \in Chars
        BY SparkAssumption DEF E!NUL
    <2> QED BY <1>2, <1>6, <2>1, <2>2, ReadPartitionIo
<1>7. CASE PreLoad
    <2>1. /\ UNCHANGED <<fixed, io, part, rows, frame, junk>> /\ phase = "preload" /\ phase' = "pre"
          /\ data' = Seen(Len(data)) /\ i' = 0
          /\ UNCHANGED <<currentState, recentAcceptState, recentAcceptIndex, startSMS, subMatches>>
        BY <1>7 DEF PreLoad, df
    <2>2. data' \in Seq(Chars)
        <3>1. Len(data) \in Nat
            BY <1>1
        <3> QED BY <2>1, <3>1, SeenTyped
    <2>3. TurnTyped
        BY <2>1, ContextFacts DEF TurnTyped
    <2> QED BY <1>3, <2>1, <2>2, <2>3 DEF Scanning
<1>8. CASE PreScan
    <2>1. UNCHANGED <<fixed, io, part, frame, junk, phase>> /\ phase = "pre"
        BY <1>8 DEF PreScan, df, run
    <2>2. CASE E!Enter
        <3>1. data' = data
            BY <2>2 DEF E!Enter
        <3> QED BY <1>1, <1>3, <2>1, <2>2, <3>1, EnterTyped DEF Scanning
    <2>3. CASE E!WindowEnd
        <3>1. data' = data
            BY <2>3 DEF E!WindowEnd, E!Return
        <3> QED BY <1>1, <1>3, <2>1, <2>3, <3>1, WindowEndTyped DEF Scanning
    <2>4. CASE E!StepC
        <3>1. data' = data
            BY <2>4 DEF E!StepC
        <3> QED BY <1>1, <1>3, <2>1, <2>4, <3>1, StepCTyped DEF Scanning
    <2>5. ASSUME NEW r \in 0..VecBytes, E!WindowOrd(r)
          PROVE  Inv'
        <3>1. data' = data
            BY <2>5 DEF E!WindowOrd, E!Loop
        <3> QED BY <1>1, <1>3, <2>1, <2>5, <3>1, WindowOrdTyped DEF Scanning
    <2>6. ASSUME NEW r \in 0..VecBytes, E!WindowSet(r)
          PROVE  Inv'
        <3>1. data' = data
            BY <2>6 DEF E!WindowSet, E!Loop
        <3> QED BY <1>1, <1>3, <2>1, <2>6, <3>1, WindowSetTyped DEF Scanning
    <2> QED BY <1>8, <2>2, <2>3, <2>4, <2>5, <2>6 DEF PreScan
<1>9. ASSUME NEW start \in Nat, ExecFrom(start), phase \in Scanning,
             currentState' \in fa.states, recentAcceptState' \in fa.states, recentAcceptIndex' \in Nat,
             startSMS' \in OpenGroups, subMatches' \in Ranges
      PROVE  Inv'
    <2>1. /\ data' \in Seq(Chars) /\ i' \in Nat /\ phase' = "exec"
          /\ UNCHANGED <<fixed, io, rows, frame, part, junk>>
        BY <1>9, ExecFromTyped
    <2>2. TurnTyped
        BY <1>9, <2>1 DEF TurnTyped
    <2> QED BY <1>3, <1>9, <2>1, <2>2 DEF Scanning
<1>10. CASE ExecLoad
    <2>1. 0 \in Nat /\ phase \in Scanning /\ ExecFrom(0)
        BY <1>10 DEF ExecLoad, Scanning
    <2> QED BY <1>9, <1>10, <2>1, ContextFacts DEF ExecLoad
<1>11. CASE PreMatch
    <2> DEFINE s == [start |-> startSMS.index, end |-> i - 1]
               start == IF recentAcceptIndex > prevStart THEN 0 ELSE recentAcceptIndex + 1
    <2>1. phase \in Scanning /\ ExecFrom(start)
        BY <1>11 DEF PreMatch, PreDead, Scanning
    <2>2. start \in Nat
        BY ContextFacts
    <2>3. /\ UNCHANGED <<currentState, recentAcceptState, recentAcceptIndex>>
          /\ startSMS' = [startSMS EXCEPT !.id = 0]
          /\ subMatches' = IF startSMS.id > 0 THEN [subMatches EXCEPT ![startSMS.id] = s] ELSE subMatches
        BY <1>11 DEF PreMatch
    <2>4. s \in [start : Int, end : Int]
        BY ContextFacts DEF OpenGroups
    <2> HIDE DEF s, start
    <2>5. startSMS' \in OpenGroups
        BY <2>3, ContextFacts, ClosedTyped
    <2>6. subMatches' \in Ranges
        BY <2>3, <2>4, ContextFacts, EnteredTyped
    <2> QED BY <1>9, <2>1, <2>2, <2>3, <2>5, <2>6, ContextFacts
<1>12. CASE PreAbandon
    <2>1. /\ phase \in Scanning /\ ExecFrom(0) /\ 0 \in Nat
          /\ currentState' = E!INIT_STATE /\ recentAcceptState' = E!INV_STATE /\ recentAcceptIndex' = 0
          /\ startSMS' = [startSMS EXCEPT !.id = 0] /\ subMatches' = E!NoMatches
        BY <1>12 DEF PreAbandon, PreDead, Scanning
    <2>2. E!INIT_STATE \in fa.states /\ E!INV_STATE \in fa.states
        BY Tables
    <2>3. startSMS' \in OpenGroups /\ subMatches' \in Ranges
        BY <2>1, ContextFacts, ClosedTyped, NoMatchesTyped
    <2> QED BY <1>9, <2>1, <2>2, <2>3
<1>13. CASE PreEnd
    <2>1. /\ phase \in Scanning /\ ExecFrom(E!size)
          /\ UNCHANGED <<currentState, recentAcceptState, recentAcceptIndex, startSMS, subMatches>>
        BY <1>13 DEF PreEnd, Scanning
    <2>2. E!size \in Nat
        BY Tables
    <2> QED BY <1>9, <2>1, <2>2, ContextFacts
<1>14. CASE ExecScan
    BY <1>14, ExecScanStep
<1>15. CASE PostExec
    <2>1. UNCHANGED <<fixed, scan, frame, junk>>
        BY <1>15 DEF PostExec
    <2> QED BY <1>1, <1>2, <1>15, <2>1, PostExecIo
<1>16. CASE Finish
    <2>1. UNCHANGED <<fixed, scan, frame, junk, io, part>> /\ phase' = "done"
        BY <1>16 DEF Finish, df
    <2>2. file' = file /\ UNCHANGED <<pos, offset, buf>>
        BY <2>1 DEF fixed, io
    <2>3. IoInv'
        BY <2>1, <2>2, IoSame
    <2> QED BY <1>1, <1>2, <2>1, <2>3
<1> QED BY <1>4, <1>5, <1>6, <1>7, <1>8, <1>10, <1>11, <1>12, <1>13, <1>14, <1>15, <1>16 DEF Iexec

\* The scan of the whole file, beside it, touches nothing of the runtime.
LEMMA WholeScanStep ==
    ASSUME Inv, UNCHANGED <<fixed, io, scan, df, run>>
    PROVE  Inv'
<1>1. Typed /\ IoInv /\ RowsFit
    BY DEF Inv
<1>2. /\ UNCHANGED <<file, keyTypes, frame, junk, data, rows, pos, offset, buf, part, phase>>
      /\ UNCHANGED <<i, currentState, recentAcceptState, recentAcceptIndex, startSMS, subMatches>>
    BY DEF fixed, io, scan, df, run
<1>3. data \in Seq(Chars) /\ rows \in Seq(ScanRows) /\ junk \in Chars /\ IsList(frame)
    BY <1>1 DEF Typed
<1>4. TurnTyped
    BY <1>1, <1>2, SameContext
<1>5. Typed'
    <2>1. data' \in Seq(Chars) /\ rows' \in Seq(ScanRows) /\ junk' \in Chars /\ IsList(frame')
        BY <1>2, <1>3
    <2> QED BY <1>1, <1>4, <2>1, TypedNext
<1>6. IoInv'
    BY <1>1, <1>2, IoSame
<1> QED BY <1>1, <1>2, <1>5, <1>6, FrameSame DEF Inv

\* A pattern of every type becomes a column of a type.
LEMMA KeyTypesTyped ==
    ASSUME NEW types \in Seq(PatternTypes)
    PROVE  /\ [g \in 1..Len(types) |-> KeyType(types[g])] \in Seq(Types3)
           /\ Len([g \in 1..Len(types) |-> KeyType(types[g])]) = Len(types)
<1>1. Len(types) \in Nat /\ \A g \in 1..Len(types) : types[g] \in PatternTypes
    OBVIOUS
<1>2. \A t \in PatternTypes : KeyType(t) \in Types3
    BY DEF PatternTypes, KeyType, Types3, IntPT, DoublePT, TextPT
<1> DEFINE f == [g \in 1..Len(types) |-> KeyType(types[g])]
<1>3. f \in [1..Len(types) -> Types3]
    BY <1>1, <1>2
<1> HIDE DEF f
<1>4. f \in Seq(Types3) /\ Len(f) = Len(types)
    BY <1>1, <1>3
<1> QED BY <1>4 DEF f

\* No row is stored at first.
LEMMA EmptyList == IsList(<<>>) /\ Len(<<>>) = 0
<1>1. <<>> \in Seq({}) /\ Len(<<>>) = 0
    OBVIOUS
<1> QED BY <1>1 DEF IsList

\* The runtime as it starts.
LEMMA InitInv ==
    ASSUME Init
    PROVE  Inv
<1>1. PICK in \in Inputs :
        /\ in.sample < Len(in.file)
        /\ fa = in.fa /\ file = in.file /\ sample = in.sample
        /\ keyTypes = [g \in 1..Len(in.types) |-> KeyType(in.types[g])]
    BY DEF Init
<1>2. /\ E!IsAutomaton(in.fa)
      /\ in.types \in Seq(PatternTypes) /\ Len(in.types) = in.fa.groups
      /\ in.file \in Seq(Chars) /\ in.sample \in Nat
    BY SparkAssumption
<1>3. FixedTyped
    BY <1>1, <1>2, KeyTypesTyped DEF FixedTyped
<1>4. /\ pos = 0 /\ offset = 0 /\ buf = Io!NoBuffer
      /\ data = <<>> /\ i = 0 /\ rows = <<>> /\ frame = <<>>
      /\ currentState = E!INIT_STATE /\ recentAcceptState = E!INV_STATE /\ recentAcceptIndex = 0
      /\ startSMS = E!NoGroup /\ phase = "sample" /\ part = 0 /\ junk = 0
    BY DEF Init, Io!Init
<1>5. PICK g \in Garbage : subMatches = [k \in 1..fa.groups |-> [start |-> g, end |-> g]]
    BY DEF Init
<1>6. ContextTyped
    <2>1. fa.groups \in Nat /\ E!INV_STATE \in fa.states /\ E!INIT_STATE \in fa.states
        BY <1>3 DEF FixedTyped, E!IsAutomaton, E!INV_STATE, E!INIT_STATE
    <2>2. startSMS \in OpenGroups
        BY <1>4, <2>1 DEF OpenGroups, E!NoGroup
    <2>3. subMatches \in Ranges
        <3>1. g \in Nat
            BY SparkAssumption
        <3> QED BY <1>5, <3>1 DEF Ranges
    <2> QED BY <1>4, <2>1, <2>2, <2>3 DEF ContextTyped
<1>7. Typed
    <2>1. <<>> \in Seq(Chars) /\ <<>> \in Seq(ScanRows)
        BY EmptySeq
    <2>2. 0 \in Chars
        BY SparkAssumption DEF E!NUL
    <2>3. data \in Seq(Chars) /\ rows \in Seq(ScanRows) /\ junk \in Chars /\ IsList(frame)
        BY <1>4, <2>1, <2>2, EmptyList
    <2> QED BY <1>3, <1>6, <2>3 DEF Typed
<1>8. IoInv
    <2>1. NumPartitions \in Nat
        BY <1>7, FileFacts, Cut
    <2> HIDE DEF NumPartitions
    <2>2. part \in 0..NumPartitions
        BY <1>4, <2>1
    <2>3. <<>> \in Seq(Chars)
        BY EmptySeq
    <2>4. buf \in Buffers
        BY <1>4, <2>3 DEF Buffers, Io!NoBuffer
    <2> QED BY <1>4, <2>2, <2>4 DEF IoInv, Phases, Scanning
<1>9. RowsFit
    BY <1>4, EmptyList DEF RowsFit
<1> QED BY <1>7, <1>8, <1>9 DEF Inv

----------------------------------------------------------------------------
(* One scan byte by byte.  A turn of the loop, whatever the windows and the *)
(* partitions it goes through, comes to the next byte that matters in its   *)
(* state: an event.  A point is what the scan knows after an event: state   *)
(* q, the byte k it goes on at, the recent match a, x, the open group g,    *)
(* the sub-matches m, and the rows.                                         *)

\* A state that the scan stays in over many bytes; one with a set.
Dwelling(A, q) == A.kind[q] \in {"ORDERED", "ANY", "RANGES"}
SetKind(A, q)  == A.kind[q] \in {"ANY", "RANGES"}

\* Behind an event at byte e.
EventEnd(A, q, e) == IF A.kind[q] = "ORDERED" THEN e + Len(A.str[q]) ELSE e + 1

\* Byte e of T matters in state q: a needle begins, or a byte is read.
Event(A, T, q, e) ==
    /\ e < Len(T)
    /\ SetKind(A, q) => T[e + 1] \in A.leave[q]
    /\ A.kind[q] = "ORDERED" =>
        /\ e + Len(A.str[q]) <= Len(T) /\ Len(A.str[q]) <= VecBytes
        /\ \A j \in 1..Len(A.str[q]) : T[e + j] = A.str[q][j]

IsNextEvent(A, T, c, e) ==
    /\ c.k <= e /\ Event(A, T, c.q, e)
    /\ \A d \in c.k..(e - 1) : ~Event(A, T, c.q, d)

Untouched(A) == [h \in 1..A.groups |-> [start |-> -1, end |-> -1]]
Closed       == [id |-> 0, index |-> 0]

\* A group that state q opens at byte k; the group that q does not keep open.
Opened(A, q, k, g)   == IF A.start[q] > 0 THEN [id |-> A.start[q], index |-> k] ELSE g
EndsGroup(A, q, g)   == g.id > 0 /\ g.id \notin A.open[q]
KeptOpen(A, q, g)    == IF EndsGroup(A, q, g) THEN Closed ELSE g
Marked(A, m, g, k)   == [h \in 1..A.groups |-> IF h = g.id THEN [start |-> g.index, end |-> k] ELSE m[h]]
MarkedIf(A, q, m, g, k) == IF EndsGroup(A, q, g) THEN Marked(A, m, g, k) ELSE m

\* The group while the scan dwells in the state.
Dwelt(A, c) == IF SetKind(A, c.q) THEN Opened(A, c.q, c.k, c.g) ELSE c.g

\* The row of a point in the dead state.
RowOf(A, s, k) == [subs |-> Marked(A, s.m, s.g, k), end |-> s.x]

\* State q is reached at byte k, with a recent match a, x from before.
Arrive(A, q, k, a, x, g, m, rs) ==
    [q |-> q, k |-> k, a |-> IF q \in A.accept THEN q ELSE a, x |-> IF q \in A.accept THEN k ELSE x,
     g |-> g, m |-> m, rows |-> rs]

Fresh(c) == c.q = E!INIT_STATE

\* What an event at byte e leads to.
AfterOrdered(A, T, c, e) ==
    Arrive(A, A.sink[c.q], e + Len(A.str[c.q]), IF Fresh(c) THEN 0 ELSE c.a, IF Fresh(c) THEN 0 ELSE c.x,
           IF Fresh(c) THEN Closed ELSE c.g, IF Fresh(c) THEN Untouched(A) ELSE c.m, c.rows)

\* g is the group that is open when the byte is read.
AfterByte(A, T, c, e, g) ==
    LET q == A.next[c.q][T[e + 1]]
        m == IF Fresh(c) THEN Untouched(A) ELSE c.m
    IN  Arrive(A, q, e + 1, IF Fresh(c) THEN 0 ELSE c.a, IF Fresh(c) THEN 0 ELSE c.x,
               KeptOpen(A, q, g), MarkedIf(A, q, m, g, e), c.rows)

AfterDead(A, c) ==
    Arrive(A, E!INIT_STATE, IF c.a # 0 THEN c.x + 1 ELSE c.k, 0, 0, Closed, Untouched(A),
           IF c.a # 0 THEN Append(c.rows, RowOf(A, c, c.k - 1)) ELSE c.rows)

After(A, T, c, e) ==
    CASE A.kind[c.q] = "ORDERED" -> AfterOrdered(A, T, c, e)
      [] SetKind(A, c.q)         -> AfterByte(A, T, c, e, IF Fresh(c) THEN Closed ELSE Opened(A, c.q, c.k, c.g))
      [] A.kind[c.q] = "C"       -> AfterByte(A, T, c, e, Opened(A, c.q, c.k, IF Fresh(c) THEN Closed ELSE c.g))
      [] A.kind[c.q] = "INV"     -> AfterDead(A, c)

\* The point after a point; the last one is its own.
AtEnd(A, T, c) == \A e \in Nat : ~IsNextEvent(A, T, c, e)
After1(A, T, c) ==
    IF AtEnd(A, T, c) THEN c ELSE After(A, T, c, CHOOSE e \in Nat : IsNextEvent(A, T, c, e))

FirstPoint(A) == Arrive(A, E!INIT_STATE, 0, 0, 0, Closed, Untouched(A), <<>>)

\* The points of T one after the other, and those that are reached.
Points(A, T, p, n) == p[0] = FirstPoint(A) /\ \A k \in 1..n : p[k] = After1(A, T, p[k - 1])
Reached(A, T, c)   == \E n \in Nat : \E p : Points(A, T, p, n) /\ p[n] = c

----------------------------------------------------------------------------
(* A scan s of n bytes from byte b of T on, and a point it is at.           *)

Moved(r, b) == IF r.start = -1 THEN [start |-> -1, end |-> -1] ELSE [start |-> r.start + b, end |-> r.end + b]

SameGroup(g, h, b)    == g.id = h.id /\ (g.id > 0 => h.index = g.index + b)
SameMatches(A, m, w, b) == \A h \in 1..A.groups : w[h] = Moved(m[h], b)
SameRecent(s, c, b)   == c.a = s.a /\ (s.a # 0 => c.x = s.x + b)

ScanTyped(A, s) ==
    /\ s.pc \in {"switch", "window", "done"} /\ s.k \in Nat
    /\ s.q \in A.states /\ s.a \in A.states /\ s.x \in Nat
    /\ s.g \in [id : 0..A.groups, index : Nat]
    /\ s.m \in [1..A.groups -> [start : Nat \cup {-1}, end : Nat \cup {-1}]]

MatchesBounded(A, n, s) ==
    \A h \in 1..A.groups : s.m[h] # [start |-> -1, end |-> -1] =>
        0 <= s.m[h].start /\ s.m[h].start <= s.m[h].end /\ s.m[h].end < n

Bounded(A, n, s) ==
    /\ s.a # 0 => s.x <= s.k /\ (s.q = 0 => s.x < s.k)
    /\ s.g.id > 0 => s.g.index < n /\ s.g.index <= s.k /\ (s.q = 0 => s.g.index < s.k)
    /\ s.q # E!INIT_STATE => MatchesBounded(A, n, s)

\* The scan is at point c, or dwells there; the only events it has passed are
\* needles that reach over its end.
Anchored(A, T, b, n, s, c) ==
    /\ c.k \in Nat /\ c.q = s.q /\ c.k <= b + n
    /\ s.pc = "done" => s.k >= n
    /\ \A e \in c.k..(b + s.k - 1) : Event(A, T, s.q, e) => e >= b /\ b + n < EventEnd(A, s.q, e)
    /\ \/ /\ c.k = b + s.k /\ s.pc # "window" /\ s.k <= n
          /\ s.q # E!INIT_STATE => SameGroup(s.g, c.g, b)
       \/ /\ c.k <= b + s.k /\ Dwelling(A, s.q)
          /\ s.q # E!INIT_STATE => SameGroup(s.g, Dwelt(A, c), b)
          /\ s.pc # "window" /\ s.k < n /\ s.q # E!INIT_STATE /\ SetKind(A, s.q) => A.start[s.q] = 0
    /\ s.q # E!INIT_STATE =>
        /\ SameMatches(A, s.m, c.m, b)
        /\ \/ SameRecent(s, c, b)
           \/ (s.pc # "window" /\ s.k >= n /\ s.a # 0 /\ Dwelling(A, s.q))

\* Between two partitions, the next of which begins at byte b.
AtRest(A, T, b, s, c) ==
    /\ c.k \in Nat /\ c.q = s.q /\ c.k <= b
    /\ \A e \in c.k..(b - 1) : ~Event(A, T, s.q, e)
    /\ s.a = 0 /\ s.g.id = 0
    /\ c.k # b => Dwelling(A, s.q) /\ (s.q # E!INIT_STATE /\ SetKind(A, s.q) => A.start[s.q] = 0)
    /\ s.q # E!INIT_STATE =>
        /\ c.a = 0 /\ c.g.id = 0 /\ s.m = Untouched(A)
        /\ SameMatches(A, Untouched(A), c.m, b)

EScan == [pc |-> pc, k |-> i, q |-> currentState, a |-> recentAcceptState, x |-> recentAcceptIndex,
          g |-> startSMS, m |-> subMatches, rows |-> rows]
PScan == [pc |-> pc0, k |-> i0, q |-> currentState0, a |-> recentAcceptState0, x |-> recentAcceptIndex0,
          g |-> startSMS0, m |-> subMatches0, rows |-> rows0]

\* The rows of the whole scan, as the points have them.
WholeInv ==
    /\ ScanTyped(fa, PScan) /\ Bounded(fa, Len(WholeFile), PScan)
    /\ phase # "sample" => pc0 = "done"
    /\ \E c : /\ Reached(fa, WholeFile, c) /\ c.rows = rows0
              /\ Anchored(fa, WholeFile, 0, Len(WholeFile), PScan, c)

\* The frame shows the rows.
Shows(rs) ==
    /\ Len(frame) = Len(rs)
    /\ \A k \in 1..Len(rs) : AllTook(rs[k]) =>
        \A h \in 1..fa.groups : R!ReadColumn(keyTypes, frame[k], h) = Expected(rs[k], h)

\* Between two partitions.
Resting(c) ==
    /\ AtRest(fa, WholeFile, Start(part), EScan, c) /\ prevStart = NoPrev /\ pc # "window"
    /\ part > 0 => subMatches = Untouched(fa)

\* In a partition.
InPart(c) ==
    /\ Anchored(fa, WholeFile, Start(part), Len(data), EScan, c) /\ Bounded(fa, Len(data), EScan)
    /\ part > 0 => MatchesBounded(fa, Len(data), EScan)
    /\ data = SubSeq(WholeFile, Start(part) + 1, Start(part) + PartSize)

\* The partitions, as long as they cut no match.
AtPoint(c) ==
    /\ Reached(fa, WholeFile, c) /\ Shows(c.rows)
    /\ phase \notin {"preload", "pre", "fault"} /\ (phase = "done" => part = NumPartitions)
    /\ IF phase = "exec" THEN InPart(c)
       ELSE IF part < NumPartitions THEN Resting(c)
       ELSE AtEnd(fa, WholeFile, c) /\ count = Len(frame)

\* A fault that is accounted for.
KnownFault ==
    /\ phase = "fault"
    /\ LongNumber \/ (\E g \in 1..fa.groups : subMatches[g].start > Len(file))

PartsInv ==
    whole /\ ~LastByteAlone => ScanTyped(fa, EScan) /\ (KnownFault \/ \E c : AtPoint(c))


\* A step of the scan s of D: t, which went on at once to a point p.
Arrives(A, t, p) ==
    /\ t.pc = "switch" /\ t.k = p.k /\ t.q = p.q /\ t.a = p.a /\ t.x = p.x
    /\ t.g \in [id : 0..A.groups, index : Nat]
    /\ SameGroup(t.g, p.g, 0) /\ t.m = p.m /\ t.rows = p.rows

\* No event in D from byte k on, before byte l.
Quiet(A, D, q, k, l) == \A e \in k..(l - 1) : ~Event(A, D, q, e)

\* A window is entered.
EnterTurn(A, D, s, t) ==
    /\ s.pc = "switch" /\ s.k < Len(D) /\ Dwelling(A, s.q)
    /\ t.pc = "window" /\ t.k = s.k /\ t.q = s.q /\ t.a = s.a /\ t.x = s.x /\ t.m = s.m /\ t.rows = s.rows
    /\ t.g = IF SetKind(A, s.q) THEN Opened(A, s.q, s.k, s.g) ELSE s.g

\* A window in which nothing is found.
LoopTurn(A, D, s, t) ==
    /\ s.pc = "window" /\ t.k \in Nat /\ t.k >= s.k /\ Quiet(A, D, s.q, s.k, t.k)
    /\ t.pc = s.pc /\ t.q = s.q /\ t.a = s.a /\ t.x = s.x /\ t.m = s.m /\ t.rows = s.rows /\ t.g = s.g

\* The window ends with the data; what the state accepts may be noted.
LeaveTurn(A, D, s, t) ==
    /\ s.pc = "window" /\ t.k \in Nat /\ t.k >= s.k /\ Quiet(A, D, s.q, s.k, t.k) /\ t.k >= Len(D)
    /\ t.pc = "switch" /\ t.q = s.q /\ t.rows = s.rows
    /\ \/ t.a = s.a /\ t.x = s.x
       \/ t.a = s.q /\ t.x = t.k
       \/ Fresh(s) /\ t.a = 0 /\ t.x = 0
    /\ \/ t.g = s.g /\ t.m = s.m
       \/ Fresh(s) /\ t.g \in [id : {0}, index : Nat] /\ t.m = Untouched(A)

\* A needle, or a byte of a set, is found in the window.
OrderedTurn(A, D, s, t) ==
    /\ s.pc = "window" /\ A.kind[s.q] = "ORDERED"
    /\ \E e \in Nat : /\ s.k <= e /\ Event(A, D, s.q, e) /\ Quiet(A, D, s.q, s.k, e)
                      /\ Arrives(A, t, AfterOrdered(A, D, s, e))

SetTurn(A, D, s, t) ==
    /\ s.pc = "window" /\ SetKind(A, s.q)
    /\ \E e \in Nat : /\ s.k <= e /\ Event(A, D, s.q, e) /\ Quiet(A, D, s.q, s.k, e)
                      /\ Arrives(A, t, AfterByte(A, D, s, e, IF Fresh(s) THEN Closed ELSE s.g))

\* One byte is read.
ByteTurn(A, D, s, t) ==
    /\ s.pc = "switch" /\ s.k < Len(D) /\ A.kind[s.q] = "C"
    /\ Arrives(A, t, AfterByte(A, D, s, s.k, Opened(A, s.q, s.k, IF Fresh(s) THEN Closed ELSE s.g)))

\* The dead state: a row, or none, and the scan goes back.
DeadTurn(A, D, s, t) ==
    /\ s.pc = "switch" /\ s.k < Len(D) /\ A.kind[s.q] = "INV"
    /\ Arrives(A, t, AfterDead(A, s))

\* The data ends.
EndTurn(A, D, s, t) ==
    /\ s.pc = "switch" /\ s.k >= Len(D)
    /\ t.pc = "done" /\ t.k = s.k /\ t.q = s.q /\ t.a = s.a /\ t.x = s.x /\ t.m = s.m /\ t.rows = s.rows
    /\ t.g = s.g

Turn(A, D, s, t) ==
    \/ EnterTurn(A, D, s, t) \/ LoopTurn(A, D, s, t) \/ LeaveTurn(A, D, s, t)
    \/ OrderedTurn(A, D, s, t) \/ SetTurn(A, D, s, t)
    \/ ByteTurn(A, D, s, t) \/ DeadTurn(A, D, s, t) \/ EndTurn(A, D, s, t)

----------------------------------------------------------------------------
(* Every step of the loop is such a turn.                                   *)

\* No needle holds a NUL.
NoNul(A) == \A q \in A.states : A.kind[q] = "ORDERED" => \A j \in 1..Len(A.str[q]) : A.str[q][j] # 0

\* The tables of an automaton.
LEMMA Automaton ==
    ASSUME NEW A, E!IsAutomaton(A)
    PROVE  /\ A.groups \in Nat /\ 0 \in A.states /\ E!INIT_STATE \in A.states
           /\ E!INIT_STATE = 1 /\ E!INV_STATE = 0 /\ E!NUL = 0
           /\ \A q \in A.states : /\ A.kind[q] \in {"ORDERED", "ANY", "RANGES", "C", "INV"}
                                  /\ A.kind[q] = "INV" <=> q = 0
                                  /\ A.sink[q] \in A.states /\ A.start[q] \in 0..A.groups
                                  /\ Len(A.str[q]) \in Nat
                                  /\ A.kind[q] = "ORDERED" => Len(A.str[q]) >= 1
                                  /\ q \in A.accept => q # 0
                                  /\ \A byte \in Chars : A.next[q][byte] \in A.states
<1>1. /\ A.groups \in Nat /\ 0 \in A.states /\ E!INIT_STATE \in A.states
      /\ E!INIT_STATE = 1 /\ E!INV_STATE = 0 /\ E!NUL = 0
    BY DEF E!IsAutomaton, E!INV_STATE, E!INIT_STATE, E!NUL
<1> SUFFICES ASSUME NEW q \in A.states
             PROVE  /\ A.kind[q] \in {"ORDERED", "ANY", "RANGES", "C", "INV"}
                    /\ A.kind[q] = "INV" <=> q = 0
                    /\ A.sink[q] \in A.states /\ A.start[q] \in 0..A.groups
                    /\ Len(A.str[q]) \in Nat
                    /\ A.kind[q] = "ORDERED" => Len(A.str[q]) >= 1
                    /\ q \in A.accept => q # 0
                    /\ \A byte \in Chars : A.next[q][byte] \in A.states
    BY <1>1, Zenon
<1>2. A.kind[q] \in {"ORDERED", "ANY", "RANGES", "C", "INV"} /\ (A.kind[q] = "INV" <=> q = 0)
    BY <1>1 DEF E!IsAutomaton, E!Kinds
<1>3. A.sink[q] \in A.states /\ A.start[q] \in 0..A.groups
    BY DEF E!IsAutomaton
<1>4. A.str[q] \in Seq(Chars)
    BY DEF E!IsAutomaton
<1>5. A.kind[q] = "ORDERED" => A.str[q] # <<>>
    BY DEF E!IsAutomaton
<1>6. A.next[q] \in [Chars -> A.states]
    BY DEF E!IsAutomaton
<1>7. q \in A.accept => q # 0
    BY <1>1 DEF E!IsAutomaton
<1>8. Len(A.str[q]) \in Nat /\ (A.str[q] # <<>> => Len(A.str[q]) >= 1)
    BY <1>4
<1> QED BY <1>2, <1>3, <1>5, <1>6, <1>7, <1>8

\* What the scan of a partition is given.
ScanReady == E!IsAutomaton(fa) /\ NoNul(fa) /\ data \in Seq(Chars) /\ ScanTyped(fa, EScan)

\* The fields of the scan.
LEMMA ScanFields ==
    /\ EScan.pc = pc /\ EScan.k = i /\ EScan.q = currentState /\ EScan.a = recentAcceptState
    /\ EScan.x = recentAcceptIndex /\ EScan.g = startSMS /\ EScan.m = subMatches /\ EScan.rows = rows
    /\ EScan'.pc = pc' /\ EScan'.k = i' /\ EScan'.q = currentState' /\ EScan'.a = recentAcceptState'
    /\ EScan'.x = recentAcceptIndex' /\ EScan'.g = startSMS' /\ EScan'.m = subMatches' /\ EScan'.rows = rows'
BY DEF EScan

\* The types of the scan.
LEMMA ScanTypes ==
    ASSUME ScanReady
    PROVE  /\ pc \in {"switch", "window", "done"} /\ i \in Nat /\ currentState \in fa.states
           /\ recentAcceptState \in fa.states /\ recentAcceptIndex \in Nat
           /\ startSMS \in [id : 0..fa.groups, index : Nat]
           /\ subMatches \in [1..fa.groups -> [start : Nat \cup {-1}, end : Nat \cup {-1}]]
           /\ E!INIT_STATE = 1 /\ E!INV_STATE = 0
BY ScanFields DEF ScanReady, ScanTyped, E!INIT_STATE, E!INV_STATE

\* A byte of the data, and of what follows it.
LEMMA ScanBytes ==
    ASSUME ScanReady, NEW k \in Nat
    PROVE  /\ E!size \in Nat /\ E!size = Len(data) /\ VecBytes \in Nat /\ VecBytes >= 1
           /\ E!Byte(k) = IF k < Len(data) THEN data[k + 1] ELSE 0
           /\ k < Len(data) => data[k + 1] \in Chars
BY SparkAssumption DEF ScanReady, E!size, E!Byte, E!NUL

\* The index found for a needle: none begins before it, and where it is whole
\* inside the window, one begins there.
LEMMA OrdIndex ==
    ASSUME ScanReady, fa.kind[currentState] = "ORDERED", NEW r \in 0..VecBytes,
           E!IsOrdIndex(r, fa.str[currentState], i)
    PROVE  /\ Quiet(fa, data, currentState, i, i + r)
           /\ r < VecBytes /\ r <= VecBytes - Len(fa.str[currentState]) =>
                Event(fa, data, currentState, i + r)
<1> DEFINE w == fa.str[currentState]
           n == Len(w)
           fits(t) == \A j \in 1..n : t + j <= VecBytes => E!Byte(i + t + j - 1) = w[j]
<1>1. /\ r < VecBytes => fits(r)
      /\ \A t \in 0..(r - 1) : ~fits(t)
    BY DEF E!IsOrdIndex, E!IsFirst
<1>2. n \in Nat /\ n >= 1 /\ i \in Nat /\ \A j \in 1..n : w[j] # 0
    BY Automaton, ScanTypes DEF ScanReady, NoNul
<1>3. VecBytes \in Nat /\ ~SetKind(fa, currentState)
    BY ScanBytes DEF SetKind
<1> HIDE DEF w, n
<1>4. ASSUME NEW e \in i..((i + r) - 1), Event(fa, data, currentState, e)
      PROVE  FALSE
    <2>1. e + n <= Len(data) /\ \A j \in 1..n : data[e + j] = w[j]
        BY <1>4 DEF Event, w, n
    <2>2. e - i \in 0..(r - 1)
        BY <1>2, <1>3, <1>4
    <2>3. ASSUME NEW j \in 1..n
          PROVE  E!Byte(i + (e - i) + j - 1) = w[j]
        <3>1. i + (e - i) + j - 1 \in Nat /\ i + (e - i) + j - 1 < Len(data)
              /\ (i + (e - i) + j - 1) + 1 = e + j
            BY <1>2, <1>3, <1>4, <2>1 DEF ScanReady
        <3> QED BY <2>1, <3>1, ScanBytes
    <2>4. fits(e - i)
        BY <2>3
    <2> HIDE DEF fits
    <2> QED BY <1>1, <2>2, <2>4
<1>5. ASSUME r < VecBytes, r <= VecBytes - n
      PROVE  Event(fa, data, currentState, i + r)
    <2>1. ASSUME NEW j \in 1..n
          PROVE  i + r + j - 1 < Len(data) /\ data[i + r + j] = w[j]
        <3>1. r + j <= VecBytes /\ i + r + j - 1 \in Nat /\ (i + r + j - 1) + 1 = i + r + j
            BY <1>2, <1>3, <1>5
        <3>2. E!Byte(i + r + j - 1) = w[j]
            BY <1>1, <1>5, <3>1
        <3> QED BY <1>2, <3>1, <3>2, ScanBytes
    <2>2. n \in 1..n /\ Len(data) \in Nat /\ r \in Nat /\ n <= VecBytes
        BY <1>2, <1>3, <1>5 DEF ScanReady
    <2>3. i + r + n - 1 < Len(data)
        BY <2>1, <2>2
    <2>4. i + r < Len(data) /\ (i + r) + n <= Len(data)
        BY <1>2, <2>2, <2>3
    <2>5. \A j \in 1..n : data[(i + r) + j] = w[j]
        BY <2>1
    <2> QED BY <1>3, <2>2, <2>4, <2>5 DEF Event, w, n
<1> QED BY <1>4, <1>5 DEF Quiet, w, n

\* The index found for a set: no byte of it before, and inside the data one is.
LEMMA SetIndex ==
    ASSUME ScanReady, SetKind(fa, currentState), NEW r \in 0..VecBytes,
           E!IsSetIndex(r, fa.leave[currentState], i)
    PROVE  /\ Quiet(fa, data, currentState, i, i + r)
           /\ r < VecBytes /\ i + r < Len(data) => Event(fa, data, currentState, i + r)
<1> DEFINE S == fa.leave[currentState]
           fits(t) == E!Byte(i + t) \in S
<1>1. /\ r < VecBytes => fits(r)
      /\ \A t \in 0..(r - 1) : ~fits(t)
    BY DEF E!IsSetIndex, E!IsFirst
<1>2. i \in Nat /\ r \in Nat /\ VecBytes \in Nat /\ fa.kind[currentState] # "ORDERED"
    BY ScanTypes, ScanBytes DEF SetKind
<1> HIDE DEF S
<1>3. ASSUME NEW e \in i..((i + r) - 1), Event(fa, data, currentState, e)
      PROVE  FALSE
    <2>1. e < Len(data) /\ data[e + 1] \in S
        BY <1>3 DEF Event, S
    <2>2. e - i \in 0..(r - 1) /\ i + (e - i) = e /\ e \in Nat
        BY <1>2, <1>3
    <2>3. E!Byte(e) \in S
        BY <2>1, <2>2, ScanBytes
    <2> QED BY <1>1, <2>2, <2>3
<1>4. ASSUME r < VecBytes, i + r < Len(data)
      PROVE  Event(fa, data, currentState, i + r)
    <2>1. i + r \in Nat /\ E!Byte(i + r) \in S
        BY <1>1, <1>2, <1>4
    <2>2. data[(i + r) + 1] \in S
        BY <1>4, <2>1, ScanBytes
    <2> QED BY <1>2, <1>4, <2>2 DEF Event, S
<1> QED BY <1>3, <1>4 DEF Quiet

\* What is kept, in the words of the points.
LEMMA ScanKept ==
    ASSUME ScanReady
    PROVE  /\ E!KeptState = (IF Fresh(EScan) THEN 0 ELSE EScan.a)
           /\ E!KeptIndex = (IF Fresh(EScan) THEN 0 ELSE EScan.x)
           /\ E!KeptSubs = (IF Fresh(EScan) THEN Untouched(fa) ELSE EScan.m)
           /\ Fresh(EScan) => E!KeptGroup = [startSMS EXCEPT !.id = 0] /\ E!KeptGroup.id = 0
           /\ ~Fresh(EScan) => E!KeptGroup = startSMS
           /\ E!KeptGroup \in [id : 0..fa.groups, index : Nat]
           /\ Fresh(EScan) => E!KeptGroup \in [id : {0}, index : Nat]
           /\ E!NoMatches = Untouched(fa)
<1>1. E!NoMatches = Untouched(fa)
    BY DEF E!NoMatches, E!NoMatch, E!Unset, Untouched
<1>2. Fresh(EScan) <=> E!Reset
    BY ScanFields DEF Fresh, E!Reset, E!INIT_STATE
<1>3. /\ [startSMS EXCEPT !.id = 0].id = 0
      /\ [startSMS EXCEPT !.id = 0] \in [id : {0}, index : Nat]
      /\ [startSMS EXCEPT !.id = 0] \in [id : 0..fa.groups, index : Nat]
      /\ startSMS \in [id : 0..fa.groups, index : Nat]
    <2>1. fa.groups \in Nat
        BY Automaton DEF ScanReady
    <2> QED BY <2>1, ScanTypes
<1>4. E!INV_STATE = 0
    BY DEF E!INV_STATE
<1> QED BY <1>1, <1>2, <1>3, <1>4, ScanFields DEF E!KeptState, E!KeptIndex, E!KeptSubs, E!KeptGroup

\* The end of a group, in the words of the points: h is g, where it is open.
LEMMA ScanEnd ==
    ASSUME ScanReady, NEW m \in [1..fa.groups -> [start : Nat \cup {-1}, end : Nat \cup {-1}]],
           NEW g \in [id : 0..fa.groups, index : Nat], NEW h, SameGroup(g, h, 0),
           NEW q, NEW e, E!EndSubMatch(m, g, q, e)
    PROVE  /\ startSMS' \in [id : 0..fa.groups, index : Nat]
           /\ SameGroup(startSMS', KeptOpen(fa, q, h), 0)
           /\ subMatches' = MarkedIf(fa, q, m, h, e)
<1>1. g.id = h.id /\ (g.id > 0 => h.index = g.index) /\ g.id \in 0..fa.groups /\ g.index \in Nat
    <2>1. g.index \in Nat /\ g.id \in 0..fa.groups
        OBVIOUS
    <2> QED BY <2>1 DEF SameGroup
<1>2. CASE EndsGroup(fa, q, h)
    <2>1. g.id > 0 /\ g.id \notin fa.open[q]
        BY <1>1, <1>2 DEF EndsGroup
    <2>2. subMatches' = [m EXCEPT ![g.id] = [start |-> g.index, end |-> e]]
          /\ startSMS' = [g EXCEPT !.id = 0]
        BY <2>1 DEF E!EndSubMatch
    <2>3. startSMS'.id = 0 /\ startSMS' \in [id : 0..fa.groups, index : Nat]
        <3>1. fa.groups \in Nat
            BY Automaton DEF ScanReady
        <3> QED BY <2>2, <3>1
    <2>4. subMatches' = [d \in 1..fa.groups |-> IF d = h.id THEN [start |-> h.index, end |-> e] ELSE m[d]]
        BY <1>1, <2>1, <2>2
    <2> QED BY <1>2, <2>3, <2>4 DEF SameGroup, KeptOpen, MarkedIf, Marked, Closed
<1>3. CASE ~EndsGroup(fa, q, h)
    <2>1. ~(g.id > 0 /\ g.id \notin fa.open[q])
        BY <1>1, <1>3 DEF EndsGroup
    <2>2. subMatches' = m /\ startSMS' = g
        BY <2>1 DEF E!EndSubMatch
    <2> QED BY <1>1, <1>3, <2>2 DEF SameGroup, KeptOpen, MarkedIf
<1> QED BY <1>2, <1>3

\* A byte inside the data is read by a table.
LEMMA ScanByte ==
    ASSUME ScanReady, NEW e \in Nat, e < Len(data),
           NEW g \in [id : 0..fa.groups, index : Nat], NEW h, SameGroup(g, h, 0),
           E!Step(e, g), pc' = "switch", rows' = rows
    PROVE  Arrives(fa, EScan', AfterByte(fa, data, EScan, e, h))
<1> DEFINE q == fa.next[currentState][E!Byte(e)]
           m == IF Fresh(EScan) THEN Untouched(fa) ELSE EScan.m
           p == AfterByte(fa, data, EScan, e, h)
<1>1. E!Byte(e) = data[e + 1]
    BY ScanBytes
<1>2. E!NoteAccept(q, e + 1, E!KeptState, E!KeptIndex) /\ E!EndSubMatch(m, g, q, e)
    BY ScanKept DEF E!Step
<1>3. m \in [1..fa.groups -> [start : Nat \cup {-1}, end : Nat \cup {-1}]]
    BY ScanTypes, ScanFields DEF Untouched
<1>4. p = Arrive(fa, q, e + 1, IF Fresh(EScan) THEN 0 ELSE EScan.a, IF Fresh(EScan) THEN 0 ELSE EScan.x,
                 KeptOpen(fa, q, h), MarkedIf(fa, q, m, h, e), EScan.rows)
    BY <1>1, ScanFields DEF AfterByte
<1> HIDE DEF q, m, p
<1>5. /\ startSMS' \in [id : 0..fa.groups, index : Nat]
      /\ SameGroup(startSMS', KeptOpen(fa, q, h), 0)
      /\ subMatches' = MarkedIf(fa, q, m, h, e)
    BY <1>2, <1>3, ScanEnd
<1>6. /\ p.k = e + 1 /\ p.q = q /\ p.g = KeptOpen(fa, q, h) /\ p.m = MarkedIf(fa, q, m, h, e)
      /\ p.a = IF q \in fa.accept THEN q ELSE IF Fresh(EScan) THEN 0 ELSE EScan.a
      /\ p.x = IF q \in fa.accept THEN e + 1 ELSE IF Fresh(EScan) THEN 0 ELSE EScan.x
      /\ p.rows = EScan.rows
    BY <1>4 DEF Arrive
<1>7. /\ i' = e + 1 /\ currentState' = q
      /\ recentAcceptState' = IF q \in fa.accept THEN q ELSE IF Fresh(EScan) THEN 0 ELSE EScan.a
      /\ recentAcceptIndex' = IF q \in fa.accept THEN e + 1 ELSE IF Fresh(EScan) THEN 0 ELSE EScan.x
    BY <1>2, ScanKept DEF E!NoteAccept
<1> QED BY <1>5, <1>6, <1>7, ScanFields DEF Arrives, p

\* The switch enters the window of a state.
LEMMA EnterIsTurn ==
    ASSUME ScanReady, E!Enter
    PROVE  EnterTurn(fa, data, EScan, EScan')
<1>1. /\ pc = "switch" /\ i < E!size /\ fa.kind[currentState] \in {"ORDERED", "ANY", "RANGES"}
      /\ pc' = "window"
      /\ startSMS' = IF fa.kind[currentState] = "ORDERED" THEN startSMS ELSE E!StartSubMatch(startSMS)
      /\ UNCHANGED <<i, currentState, recentAcceptState, recentAcceptIndex, subMatches, rows>>
    BY DEF E!Enter, E!Kind, E!ctx
<1>2. E!StartSubMatch(startSMS) = Opened(fa, currentState, i, startSMS)
    BY DEF E!StartSubMatch, Opened
<1>3. E!size = Len(data)
    BY ScanBytes, ScanTypes
<1> QED BY <1>1, <1>2, <1>3, ScanFields DEF EnterTurn, Dwelling, SetKind

\* The loop is left at the end of the data.
LEMMA WindowEndIsTurn ==
    ASSUME ScanReady, E!WindowEnd
    PROVE  LeaveTurn(fa, data, EScan, EScan')
<1>1. /\ pc = "window" /\ i >= E!size /\ pc' = "switch"
      /\ E!NoteAccept(currentState, i, recentAcceptState, recentAcceptIndex)
      /\ UNCHANGED <<startSMS, subMatches, rows>>
    BY DEF E!WindowEnd, E!Return
<1>2. /\ currentState' = currentState /\ i' = i
      /\ \/ recentAcceptState' = recentAcceptState /\ recentAcceptIndex' = recentAcceptIndex
         \/ recentAcceptState' = currentState /\ recentAcceptIndex' = i
    BY <1>1 DEF E!NoteAccept
<1>3. E!size = Len(data) /\ i \in Nat
    BY ScanBytes, ScanTypes
<1>4. Quiet(fa, data, currentState, i, i)
    BY <1>3 DEF Quiet
<1> QED BY <1>1, <1>2, <1>3, <1>4, ScanFields DEF LeaveTurn

\* A window without an event.
LEMMA LoopIsTurn ==
    ASSUME ScanReady, pc = "window", NEW k \in Nat, k >= i, Quiet(fa, data, currentState, i, k), E!Loop(k)
    PROVE  LoopTurn(fa, data, EScan, EScan')
BY ScanFields DEF E!Loop, E!ctx, LoopTurn

\* A window of a needle.
LEMMA WindowOrdIsTurn ==
    ASSUME ScanReady, NEW r \in 0..VecBytes, E!WindowOrd(r)
    PROVE  LoopTurn(fa, data, EScan, EScan') \/ OrderedTurn(fa, data, EScan, EScan')
<1>1. /\ pc = "window" /\ i < E!size /\ fa.kind[currentState] = "ORDERED"
      /\ E!IsOrdIndex(r, fa.str[currentState], i)
    BY DEF E!WindowOrd, E!Kind, E!Needle
<1>2. /\ Quiet(fa, data, currentState, i, i + r)
      /\ r < VecBytes /\ r <= VecBytes - Len(fa.str[currentState]) =>
            Event(fa, data, currentState, i + r)
    BY <1>1, OrdIndex
<1>3. i \in Nat /\ r \in Nat /\ VecBytes \in Nat /\ i + r \in Nat /\ i <= i + r
    BY ScanTypes, ScanBytes
<1>4. CASE r = VecBytes /\ E!Loop(i + VecBytes)
    BY <1>1, <1>2, <1>3, <1>4, LoopIsTurn
<1>5. CASE E!Loop(i + r)
    BY <1>1, <1>2, <1>3, <1>5, LoopIsTurn
<1>6. CASE /\ r < VecBytes /\ r <= VecBytes - Len(E!Needle)
           /\ E!NoteAccept(fa.sink[currentState], i + r + Len(E!Needle), E!KeptState, E!KeptIndex)
           /\ startSMS' = E!KeptGroup /\ subMatches' = E!KeptSubs
           /\ pc' = "switch" /\ rows' = rows
    <2> DEFINE q == fa.sink[currentState]
               e == i + r
               k == e + Len(fa.str[currentState])
               p == AfterOrdered(fa, data, EScan, e)
               a == IF Fresh(EScan) THEN 0 ELSE EScan.a
               x == IF Fresh(EScan) THEN 0 ELSE EScan.x
               m == IF Fresh(EScan) THEN Untouched(fa) ELSE EScan.m
               g == IF Fresh(EScan) THEN Closed ELSE EScan.g
    <2>1. Event(fa, data, currentState, e)
        BY <1>2, <1>6 DEF E!Needle
    <2>2. p = Arrive(fa, q, k, a, x, g, m, EScan.rows)
        BY ScanFields DEF AfterOrdered
    <2>3. E!NoteAccept(q, k, a, x) /\ subMatches' = m
        BY <1>6, ScanKept DEF E!Needle
    <2>4. SameGroup(startSMS', g, 0) /\ startSMS' \in [id : 0..fa.groups, index : Nat]
        BY <1>6, ScanKept, ScanTypes, ScanFields DEF SameGroup, Closed
    <2> HIDE DEF q, e, k, p, a, x, m, g
    <2>5. Arrives(fa, EScan', p)
        BY <1>6, <2>2, <2>3, <2>4, ScanFields DEF E!NoteAccept, Arrive, Arrives
    <2> QED BY <1>1, <1>2, <1>3, <2>1, <2>5, ScanFields DEF OrderedTurn, p, e
<1> QED BY <1>4, <1>5, <1>6 DEF E!WindowOrd

\* A window of a set.
LEMMA WindowSetIsTurn ==
    ASSUME ScanReady, NEW r \in 0..VecBytes, E!WindowSet(r)
    PROVE  \/ LoopTurn(fa, data, EScan, EScan') \/ LeaveTurn(fa, data, EScan, EScan')
           \/ SetTurn(fa, data, EScan, EScan')
<1>1. /\ pc = "window" /\ i < E!size /\ SetKind(fa, currentState)
      /\ E!IsSetIndex(r, fa.leave[currentState], i)
    BY DEF E!WindowSet, E!Kind, SetKind
<1>2. /\ Quiet(fa, data, currentState, i, i + r)
      /\ r < VecBytes /\ i + r < Len(data) => Event(fa, data, currentState, i + r)
    BY <1>1, SetIndex
<1>3. i \in Nat /\ r \in Nat /\ VecBytes \in Nat /\ i + r \in Nat /\ i <= i + r /\ E!size = Len(data)
    BY ScanTypes, ScanBytes
<1>4. CASE r = VecBytes /\ E!Loop(i + VecBytes)
    BY <1>1, <1>2, <1>3, <1>4, LoopIsTurn
<1>5. CASE /\ i + r >= E!size
           /\ E!NoteAccept(currentState, i + r, E!KeptState, E!KeptIndex)
           /\ startSMS' = E!KeptGroup /\ subMatches' = E!KeptSubs
           /\ pc' = "switch" /\ rows' = rows
    <2>1. /\ currentState' = currentState /\ i' = i + r
          /\ \/ recentAcceptState' = E!KeptState /\ recentAcceptIndex' = E!KeptIndex
             \/ recentAcceptState' = currentState /\ recentAcceptIndex' = i + r
        BY <1>5 DEF E!NoteAccept
    <2>2. \/ EScan'.g = EScan.g /\ EScan'.m = EScan.m
          \/ Fresh(EScan) /\ EScan'.g \in [id : {0}, index : Nat] /\ EScan'.m = Untouched(fa)
        BY <1>5, ScanKept, ScanFields
    <2>3. \/ EScan'.a = EScan.a /\ EScan'.x = EScan.x
          \/ EScan'.a = EScan.q /\ EScan'.x = EScan'.k
          \/ Fresh(EScan) /\ EScan'.a = 0 /\ EScan'.x = 0
        BY <2>1, ScanKept, ScanFields
    <2> QED BY <1>1, <1>2, <1>3, <1>5, <2>1, <2>2, <2>3, ScanFields DEF LeaveTurn
<1>6. CASE r < VecBytes /\ i + r < E!size /\ E!Step(i + r, E!KeptGroup) /\ pc' = "switch" /\ rows' = rows
    <2> DEFINE g == IF Fresh(EScan) THEN Closed ELSE EScan.g
    <2>1. Event(fa, data, currentState, i + r)
        BY <1>2, <1>3, <1>6
    <2>2. E!KeptGroup \in [id : 0..fa.groups, index : Nat]
        BY ScanKept
    <2>3. SameGroup(E!KeptGroup, g, 0)
        BY ScanKept, ScanTypes, ScanFields DEF SameGroup, Closed
    <2> HIDE DEF g
    <2>4. Arrives(fa, EScan', AfterByte(fa, data, EScan, i + r, g))
        BY <1>3, <1>6, <2>2, <2>3, ScanByte
    <2> QED BY <1>1, <1>2, <1>3, <2>1, <2>4, ScanFields DEF SetTurn, g
<1> QED BY <1>4, <1>5, <1>6 DEF E!WindowSet

\* A byte.
LEMMA StepCIsTurn ==
    ASSUME ScanReady, E!StepC
    PROVE  ByteTurn(fa, data, EScan, EScan')
<1> DEFINE g == E!StartSubMatch(E!KeptGroup)
           h == Opened(fa, currentState, i, IF Fresh(EScan) THEN Closed ELSE EScan.g)
<1>1. /\ pc = "switch" /\ i < E!size /\ fa.kind[currentState] = "C"
      /\ E!Step(i, g) /\ pc' = pc /\ rows' = rows
    BY DEF E!StepC, E!Kind
<1>2. i \in Nat /\ E!size = Len(data)
    BY ScanTypes, ScanBytes
<1>3. fa.groups \in Nat /\ fa.start[currentState] \in 0..fa.groups
    BY Automaton, ScanTypes DEF ScanReady
<1>4. E!KeptGroup \in [id : 0..fa.groups, index : Nat]
    BY ScanKept
<1>5. g \in [id : 0..fa.groups, index : Nat]
    BY <1>2, <1>3, <1>4 DEF E!StartSubMatch
<1>6. SameGroup(g, h, 0)
    BY <1>2, <1>3, ScanKept, ScanTypes, ScanFields DEF SameGroup, Closed, Opened, E!StartSubMatch
<1> HIDE DEF g, h
<1>7. Arrives(fa, EScan', AfterByte(fa, data, EScan, i, h))
    BY <1>1, <1>2, <1>5, <1>6, ScanByte
<1> QED BY <1>1, <1>2, <1>7, ScanFields DEF ByteTurn, h

\* The dead state.
LEMMA DeadIsTurn ==
    ASSUME ScanReady, E!Emit \/ E!Abandon
    PROVE  DeadTurn(fa, data, EScan, EScan')
<1> DEFINE p == AfterDead(fa, EScan)
           k == IF recentAcceptState # 0 THEN recentAcceptIndex + 1 ELSE i
           rs == IF recentAcceptState # 0 THEN Append(rows, RowOf(fa, EScan, i - 1)) ELSE rows
           subs == IF startSMS.id > 0
                   THEN [subMatches EXCEPT ![startSMS.id] = [start |-> startSMS.index, end |-> i - 1]]
                   ELSE subMatches
<1>1. E!INIT_STATE = 1 /\ E!INV_STATE = 0 /\ i \in Nat /\ E!size = Len(data)
      /\ 1 = E!INIT_STATE
    BY ScanTypes, ScanBytes DEF E!INIT_STATE
<1>2. pc = "switch" /\ i < E!size /\ fa.kind[currentState] = "INV" /\ pc' = pc
    BY DEF E!Emit, E!Abandon, E!Kind
<1>3. /\ E!NoteAccept(1, k, 0, 0)
      /\ startSMS' = [startSMS EXCEPT !.id = 0] /\ subMatches' = Untouched(fa)
    BY <1>1, ScanKept DEF E!Emit, E!Abandon
<1>4. subs = Marked(fa, subMatches, startSMS, i - 1)
    <2>1. /\ startSMS.id \in 0..fa.groups
          /\ subMatches \in [1..fa.groups -> [start : Nat \cup {-1}, end : Nat \cup {-1}]]
        BY ScanTypes
    <2>2. CASE startSMS.id > 0
        BY <2>1, <2>2 DEF Marked
    <2>3. CASE startSMS.id = 0
        BY <2>1, <2>3 DEF Marked
    <2> QED BY <2>1, <2>2, <2>3
<1>5. rows' = rs
    <2>1. RowOf(fa, EScan, i - 1) = [subs |-> subs, end |-> recentAcceptIndex]
        BY <1>4, ScanFields DEF RowOf
    <2> HIDE DEF subs
    <2>2. CASE E!Emit
        BY <1>1, <2>1, <2>2 DEF E!Emit, subs
    <2>3. CASE E!Abandon
        BY <1>1, <2>3 DEF E!Abandon
    <2> QED BY <2>2, <2>3
<1>6. p = Arrive(fa, 1, k, 0, 0, Closed, Untouched(fa), rs)
    BY <1>1, ScanFields DEF AfterDead
<1>7. SameGroup(startSMS', Closed, 0)
    <2>1. startSMS'.id = 0
        BY <1>3, ScanTypes
    <2> QED BY <2>1 DEF SameGroup, Closed
<1>9. startSMS' \in [id : 0..fa.groups, index : Nat]
    <2>1. fa.groups \in Nat
        BY Automaton DEF ScanReady
    <2> QED BY <1>3, <2>1, ScanTypes
<1> HIDE DEF p, k, rs, subs
<1>8. Arrives(fa, EScan', p)
    BY <1>2, <1>3, <1>5, <1>6, <1>7, <1>9, ScanFields DEF E!NoteAccept, Arrive, Arrives
<1> QED BY <1>1, <1>2, <1>8, ScanFields DEF DeadTurn, p

\* Every step of the loop is a turn.
LEMMA ScanIsTurn ==
    ASSUME ScanReady, E!Next
    PROVE  Turn(fa, data, EScan, EScan')
<1>1. CASE E!Enter
    BY <1>1, EnterIsTurn DEF Turn
<1>2. CASE E!WindowEnd
    BY <1>2, WindowEndIsTurn DEF Turn
<1>3. CASE \E r \in 0..VecBytes : E!WindowOrd(r) \/ E!WindowSet(r)
    BY <1>3, WindowOrdIsTurn, WindowSetIsTurn DEF Turn
<1>4. CASE E!StepC
    BY <1>4, StepCIsTurn DEF Turn
<1>5. CASE E!Emit \/ E!Abandon
    BY <1>5, DeadIsTurn DEF Turn
<1>6. CASE E!Finish
    <2>1. /\ pc = "switch" /\ i >= E!size /\ pc' = "done"
          /\ UNCHANGED <<i, currentState, recentAcceptState, recentAcceptIndex, startSMS, subMatches, rows>>
        BY <1>6 DEF E!Finish, E!ctx
    <2>2. E!size = Len(data)
        BY ScanBytes, ScanTypes
    <2>3. EndTurn(fa, data, EScan, EScan')
        BY <2>1, <2>2, ScanFields DEF EndTurn
    <2> QED BY <2>3 DEF Turn
<1> QED BY <1>1, <1>2, <1>3, <1>4, <1>5, <1>6 DEF E!Next

----------------------------------------------------------------------------
(* The scan of the whole file runs the same loop; its steps are the same    *)
(* turns, and the proofs are the same.                                      *)

\* What the scan of the file is given.
WholeReady == E!IsAutomaton(fa) /\ NoNul(fa) /\ WholeFile \in Seq(Chars) /\ ScanTyped(fa, PScan)

\* The fields of the scan.
LEMMA WholeFields ==
    /\ PScan.pc = pc0 /\ PScan.k = i0 /\ PScan.q = currentState0 /\ PScan.a = recentAcceptState0
    /\ PScan.x = recentAcceptIndex0 /\ PScan.g = startSMS0 /\ PScan.m = subMatches0 /\ PScan.rows = rows0
    /\ PScan'.pc = pc0' /\ PScan'.k = i0' /\ PScan'.q = currentState0' /\ PScan'.a = recentAcceptState0'
    /\ PScan'.x = recentAcceptIndex0' /\ PScan'.g = startSMS0' /\ PScan'.m = subMatches0' /\ PScan'.rows = rows0'
BY DEF PScan

\* The types of the scan.
LEMMA WholeTypes ==
    ASSUME WholeReady
    PROVE  /\ pc0 \in {"switch", "window", "done"} /\ i0 \in Nat /\ currentState0 \in fa.states
           /\ recentAcceptState0 \in fa.states /\ recentAcceptIndex0 \in Nat
           /\ startSMS0 \in [id : 0..fa.groups, index : Nat]
           /\ subMatches0 \in [1..fa.groups -> [start : Nat \cup {-1}, end : Nat \cup {-1}]]
           /\ P!INIT_STATE = 1 /\ P!INV_STATE = 0
BY WholeFields DEF WholeReady, ScanTyped, P!INIT_STATE, P!INV_STATE

\* A byte of the data, and of what follows it.
LEMMA WholeBytes ==
    ASSUME WholeReady, NEW k \in Nat
    PROVE  /\ P!size \in Nat /\ P!size = Len(WholeFile) /\ VecBytes \in Nat /\ VecBytes >= 1
           /\ P!Byte(k) = IF k < Len(WholeFile) THEN WholeFile[k + 1] ELSE 0
           /\ k < Len(WholeFile) => WholeFile[k + 1] \in Chars
BY SparkAssumption DEF WholeReady, P!size, P!Byte, P!NUL

\* The index found for a needle: none begins before it, and where it is whole
\* inside the window, one begins there.
LEMMA WholeOrdIndex ==
    ASSUME WholeReady, fa.kind[currentState0] = "ORDERED", NEW r \in 0..VecBytes,
           P!IsOrdIndex(r, fa.str[currentState0], i0)
    PROVE  /\ Quiet(fa, WholeFile, currentState0, i0, i0 + r)
           /\ r < VecBytes /\ r <= VecBytes - Len(fa.str[currentState0]) =>
                Event(fa, WholeFile, currentState0, i0 + r)
<1> DEFINE w == fa.str[currentState0]
           n == Len(w)
           fits(t) == \A j \in 1..n : t + j <= VecBytes => P!Byte(i0 + t + j - 1) = w[j]
<1>1. /\ r < VecBytes => fits(r)
      /\ \A t \in 0..(r - 1) : ~fits(t)
    BY DEF P!IsOrdIndex, P!IsFirst
<1>2. n \in Nat /\ n >= 1 /\ i0 \in Nat /\ \A j \in 1..n : w[j] # 0
    BY Automaton, WholeTypes DEF WholeReady, NoNul
<1>3. VecBytes \in Nat /\ ~SetKind(fa, currentState0)
    BY WholeBytes DEF SetKind
<1> HIDE DEF w, n
<1>4. ASSUME NEW e \in i0..((i0 + r) - 1), Event(fa, WholeFile, currentState0, e)
      PROVE  FALSE
    <2>1. e + n <= Len(WholeFile) /\ \A j \in 1..n : WholeFile[e + j] = w[j]
        BY <1>4 DEF Event, w, n
    <2>2. e - i0 \in 0..(r - 1)
        BY <1>2, <1>3, <1>4
    <2>3. ASSUME NEW j \in 1..n
          PROVE  P!Byte(i0 + (e - i0) + j - 1) = w[j]
        <3>1. i0 + (e - i0) + j - 1 \in Nat /\ i0 + (e - i0) + j - 1 < Len(WholeFile)
              /\ (i0 + (e - i0) + j - 1) + 1 = e + j
            BY <1>2, <1>3, <1>4, <2>1 DEF WholeReady
        <3> QED BY <2>1, <3>1, WholeBytes
    <2>4. fits(e - i0)
        BY <2>3
    <2> HIDE DEF fits
    <2> QED BY <1>1, <2>2, <2>4
<1>5. ASSUME r < VecBytes, r <= VecBytes - n
      PROVE  Event(fa, WholeFile, currentState0, i0 + r)
    <2>1. ASSUME NEW j \in 1..n
          PROVE  i0 + r + j - 1 < Len(WholeFile) /\ WholeFile[i0 + r + j] = w[j]
        <3>1. r + j <= VecBytes /\ i0 + r + j - 1 \in Nat /\ (i0 + r + j - 1) + 1 = i0 + r + j
            BY <1>2, <1>3, <1>5
        <3>2. P!Byte(i0 + r + j - 1) = w[j]
            BY <1>1, <1>5, <3>1
        <3> QED BY <1>2, <3>1, <3>2, WholeBytes
    <2>2. n \in 1..n /\ Len(WholeFile) \in Nat /\ r \in Nat /\ n <= VecBytes
        BY <1>2, <1>3, <1>5 DEF WholeReady
    <2>3. i0 + r + n - 1 < Len(WholeFile)
        BY <2>1, <2>2
    <2>4. i0 + r < Len(WholeFile) /\ (i0 + r) + n <= Len(WholeFile)
        BY <1>2, <2>2, <2>3
    <2>5. \A j \in 1..n : WholeFile[(i0 + r) + j] = w[j]
        BY <2>1
    <2> QED BY <1>3, <2>2, <2>4, <2>5 DEF Event, w, n
<1> QED BY <1>4, <1>5 DEF Quiet, w, n

\* The index found for a set: no byte of it before, and inside the data one is.
LEMMA WholeSetIndex ==
    ASSUME WholeReady, SetKind(fa, currentState0), NEW r \in 0..VecBytes,
           P!IsSetIndex(r, fa.leave[currentState0], i0)
    PROVE  /\ Quiet(fa, WholeFile, currentState0, i0, i0 + r)
           /\ r < VecBytes /\ i0 + r < Len(WholeFile) => Event(fa, WholeFile, currentState0, i0 + r)
<1> DEFINE S == fa.leave[currentState0]
           fits(t) == P!Byte(i0 + t) \in S
<1>1. /\ r < VecBytes => fits(r)
      /\ \A t \in 0..(r - 1) : ~fits(t)
    BY DEF P!IsSetIndex, P!IsFirst
<1>2. i0 \in Nat /\ r \in Nat /\ VecBytes \in Nat /\ fa.kind[currentState0] # "ORDERED"
    BY WholeTypes, WholeBytes DEF SetKind
<1> HIDE DEF S
<1>3. ASSUME NEW e \in i0..((i0 + r) - 1), Event(fa, WholeFile, currentState0, e)
      PROVE  FALSE
    <2>1. e < Len(WholeFile) /\ WholeFile[e + 1] \in S
        BY <1>3 DEF Event, S
    <2>2. e - i0 \in 0..(r - 1) /\ i0 + (e - i0) = e /\ e \in Nat
        BY <1>2, <1>3
    <2>3. P!Byte(e) \in S
        BY <2>1, <2>2, WholeBytes
    <2> QED BY <1>1, <2>2, <2>3
<1>4. ASSUME r < VecBytes, i0 + r < Len(WholeFile)
      PROVE  Event(fa, WholeFile, currentState0, i0 + r)
    <2>1. i0 + r \in Nat /\ P!Byte(i0 + r) \in S
        BY <1>1, <1>2, <1>4
    <2>2. WholeFile[(i0 + r) + 1] \in S
        BY <1>4, <2>1, WholeBytes
    <2> QED BY <1>2, <1>4, <2>2 DEF Event, S
<1> QED BY <1>3, <1>4 DEF Quiet

\* What is kept, in the words of the points.
LEMMA WholeKept ==
    ASSUME WholeReady
    PROVE  /\ P!KeptState = (IF Fresh(PScan) THEN 0 ELSE PScan.a)
           /\ P!KeptIndex = (IF Fresh(PScan) THEN 0 ELSE PScan.x)
           /\ P!KeptSubs = (IF Fresh(PScan) THEN Untouched(fa) ELSE PScan.m)
           /\ Fresh(PScan) => P!KeptGroup = [startSMS0 EXCEPT !.id = 0] /\ P!KeptGroup.id = 0
           /\ ~Fresh(PScan) => P!KeptGroup = startSMS0
           /\ P!KeptGroup \in [id : 0..fa.groups, index : Nat]
           /\ Fresh(PScan) => P!KeptGroup \in [id : {0}, index : Nat]
           /\ P!NoMatches = Untouched(fa)
<1>1. P!NoMatches = Untouched(fa)
    BY DEF P!NoMatches, P!NoMatch, P!Unset, Untouched
<1>2. Fresh(PScan) <=> P!Reset
    BY WholeFields DEF Fresh, P!Reset, P!INIT_STATE, E!INIT_STATE
<1>3. /\ [startSMS0 EXCEPT !.id = 0].id = 0
      /\ [startSMS0 EXCEPT !.id = 0] \in [id : {0}, index : Nat]
      /\ [startSMS0 EXCEPT !.id = 0] \in [id : 0..fa.groups, index : Nat]
      /\ startSMS0 \in [id : 0..fa.groups, index : Nat]
    <2>1. fa.groups \in Nat
        BY Automaton DEF WholeReady
    <2> QED BY <2>1, WholeTypes
<1>4. P!INV_STATE = 0
    BY DEF P!INV_STATE
<1> QED BY <1>1, <1>2, <1>3, <1>4, WholeFields DEF P!KeptState, P!KeptIndex, P!KeptSubs, P!KeptGroup

\* The end of a group, in the words of the points: h is g, where it is open.
LEMMA WholeEnd ==
    ASSUME WholeReady, NEW m \in [1..fa.groups -> [start : Nat \cup {-1}, end : Nat \cup {-1}]],
           NEW g \in [id : 0..fa.groups, index : Nat], NEW h, SameGroup(g, h, 0),
           NEW q, NEW e, P!EndSubMatch(m, g, q, e)
    PROVE  /\ startSMS0' \in [id : 0..fa.groups, index : Nat]
           /\ SameGroup(startSMS0', KeptOpen(fa, q, h), 0)
           /\ subMatches0' = MarkedIf(fa, q, m, h, e)
<1>1. g.id = h.id /\ (g.id > 0 => h.index = g.index) /\ g.id \in 0..fa.groups /\ g.index \in Nat
    <2>1. g.index \in Nat /\ g.id \in 0..fa.groups
        OBVIOUS
    <2> QED BY <2>1 DEF SameGroup
<1>2. CASE EndsGroup(fa, q, h)
    <2>1. g.id > 0 /\ g.id \notin fa.open[q]
        BY <1>1, <1>2 DEF EndsGroup
    <2>2. subMatches0' = [m EXCEPT ![g.id] = [start |-> g.index, end |-> e]]
          /\ startSMS0' = [g EXCEPT !.id = 0]
        BY <2>1 DEF P!EndSubMatch
    <2>3. startSMS0'.id = 0 /\ startSMS0' \in [id : 0..fa.groups, index : Nat]
        <3>1. fa.groups \in Nat
            BY Automaton DEF WholeReady
        <3> QED BY <2>2, <3>1
    <2>4. subMatches0' = [d \in 1..fa.groups |-> IF d = h.id THEN [start |-> h.index, end |-> e] ELSE m[d]]
        BY <1>1, <2>1, <2>2
    <2> QED BY <1>2, <2>3, <2>4 DEF SameGroup, KeptOpen, MarkedIf, Marked, Closed
<1>3. CASE ~EndsGroup(fa, q, h)
    <2>1. ~(g.id > 0 /\ g.id \notin fa.open[q])
        BY <1>1, <1>3 DEF EndsGroup
    <2>2. subMatches0' = m /\ startSMS0' = g
        BY <2>1 DEF P!EndSubMatch
    <2> QED BY <1>1, <1>3, <2>2 DEF SameGroup, KeptOpen, MarkedIf
<1> QED BY <1>2, <1>3

\* A byte inside the data is read by a table.
LEMMA WholeByte ==
    ASSUME WholeReady, NEW e \in Nat, e < Len(WholeFile),
           NEW g \in [id : 0..fa.groups, index : Nat], NEW h, SameGroup(g, h, 0),
           P!Step(e, g), pc0' = "switch", rows0' = rows0
    PROVE  Arrives(fa, PScan', AfterByte(fa, WholeFile, PScan, e, h))
<1> DEFINE q == fa.next[currentState0][P!Byte(e)]
           m == IF Fresh(PScan) THEN Untouched(fa) ELSE PScan.m
           p == AfterByte(fa, WholeFile, PScan, e, h)
<1>1. P!Byte(e) = WholeFile[e + 1]
    BY WholeBytes
<1>2. P!NoteAccept(q, e + 1, P!KeptState, P!KeptIndex) /\ P!EndSubMatch(m, g, q, e)
    BY WholeKept DEF P!Step
<1>3. m \in [1..fa.groups -> [start : Nat \cup {-1}, end : Nat \cup {-1}]]
    BY WholeTypes, WholeFields DEF Untouched
<1>4. p = Arrive(fa, q, e + 1, IF Fresh(PScan) THEN 0 ELSE PScan.a, IF Fresh(PScan) THEN 0 ELSE PScan.x,
                 KeptOpen(fa, q, h), MarkedIf(fa, q, m, h, e), PScan.rows)
    BY <1>1, WholeFields DEF AfterByte
<1> HIDE DEF q, m, p
<1>5. /\ startSMS0' \in [id : 0..fa.groups, index : Nat]
      /\ SameGroup(startSMS0', KeptOpen(fa, q, h), 0)
      /\ subMatches0' = MarkedIf(fa, q, m, h, e)
    BY <1>2, <1>3, WholeEnd
<1>6. /\ p.k = e + 1 /\ p.q = q /\ p.g = KeptOpen(fa, q, h) /\ p.m = MarkedIf(fa, q, m, h, e)
      /\ p.a = IF q \in fa.accept THEN q ELSE IF Fresh(PScan) THEN 0 ELSE PScan.a
      /\ p.x = IF q \in fa.accept THEN e + 1 ELSE IF Fresh(PScan) THEN 0 ELSE PScan.x
      /\ p.rows = PScan.rows
    BY <1>4 DEF Arrive
<1>7. /\ i0' = e + 1 /\ currentState0' = q
      /\ recentAcceptState0' = IF q \in fa.accept THEN q ELSE IF Fresh(PScan) THEN 0 ELSE PScan.a
      /\ recentAcceptIndex0' = IF q \in fa.accept THEN e + 1 ELSE IF Fresh(PScan) THEN 0 ELSE PScan.x
    BY <1>2, WholeKept DEF P!NoteAccept
<1> QED BY <1>5, <1>6, <1>7, WholeFields DEF Arrives, p

\* The switch enters the window of a state.
LEMMA WholeEnterIsTurn ==
    ASSUME WholeReady, P!Enter
    PROVE  EnterTurn(fa, WholeFile, PScan, PScan')
<1>1. /\ pc0 = "switch" /\ i0 < P!size /\ fa.kind[currentState0] \in {"ORDERED", "ANY", "RANGES"}
      /\ pc0' = "window"
      /\ startSMS0' = IF fa.kind[currentState0] = "ORDERED" THEN startSMS0 ELSE P!StartSubMatch(startSMS0)
      /\ UNCHANGED <<i0, currentState0, recentAcceptState0, recentAcceptIndex0, subMatches0, rows0>>
    BY DEF P!Enter, P!Kind, P!ctx
<1>2. P!StartSubMatch(startSMS0) = Opened(fa, currentState0, i0, startSMS0)
    BY DEF P!StartSubMatch, Opened
<1>3. P!size = Len(WholeFile)
    BY WholeBytes, WholeTypes
<1> QED BY <1>1, <1>2, <1>3, WholeFields DEF EnterTurn, Dwelling, SetKind

\* The loop is left at the end of the data.
LEMMA WholeWindowEndIsTurn ==
    ASSUME WholeReady, P!WindowEnd
    PROVE  LeaveTurn(fa, WholeFile, PScan, PScan')
<1>1. /\ pc0 = "window" /\ i0 >= P!size /\ pc0' = "switch"
      /\ P!NoteAccept(currentState0, i0, recentAcceptState0, recentAcceptIndex0)
      /\ UNCHANGED <<startSMS0, subMatches0, rows0>>
    BY DEF P!WindowEnd, P!Return
<1>2. /\ currentState0' = currentState0 /\ i0' = i0
      /\ \/ recentAcceptState0' = recentAcceptState0 /\ recentAcceptIndex0' = recentAcceptIndex0
         \/ recentAcceptState0' = currentState0 /\ recentAcceptIndex0' = i0
    BY <1>1 DEF P!NoteAccept
<1>3. P!size = Len(WholeFile) /\ i0 \in Nat
    BY WholeBytes, WholeTypes
<1>4. Quiet(fa, WholeFile, currentState0, i0, i0)
    BY <1>3 DEF Quiet
<1> QED BY <1>1, <1>2, <1>3, <1>4, WholeFields DEF LeaveTurn

\* A window without an event.
LEMMA WholeLoopIsTurn ==
    ASSUME WholeReady, pc0 = "window", NEW k \in Nat, k >= i0, Quiet(fa, WholeFile, currentState0, i0, k), P!Loop(k)
    PROVE  LoopTurn(fa, WholeFile, PScan, PScan')
BY WholeFields DEF P!Loop, P!ctx, LoopTurn

\* A window of a needle.
LEMMA WholeWindowOrdIsTurn ==
    ASSUME WholeReady, NEW r \in 0..VecBytes, P!WindowOrd(r)
    PROVE  LoopTurn(fa, WholeFile, PScan, PScan') \/ OrderedTurn(fa, WholeFile, PScan, PScan')
<1>1. /\ pc0 = "window" /\ i0 < P!size /\ fa.kind[currentState0] = "ORDERED"
      /\ P!IsOrdIndex(r, fa.str[currentState0], i0)
    BY DEF P!WindowOrd, P!Kind, P!Needle
<1>2. /\ Quiet(fa, WholeFile, currentState0, i0, i0 + r)
      /\ r < VecBytes /\ r <= VecBytes - Len(fa.str[currentState0]) =>
            Event(fa, WholeFile, currentState0, i0 + r)
    BY <1>1, WholeOrdIndex
<1>3. i0 \in Nat /\ r \in Nat /\ VecBytes \in Nat /\ i0 + r \in Nat /\ i0 <= i0 + r
    BY WholeTypes, WholeBytes
<1>4. CASE r = VecBytes /\ P!Loop(i0 + VecBytes)
    BY <1>1, <1>2, <1>3, <1>4, WholeLoopIsTurn
<1>5. CASE P!Loop(i0 + r)
    BY <1>1, <1>2, <1>3, <1>5, WholeLoopIsTurn
<1>6. CASE /\ r < VecBytes /\ r <= VecBytes - Len(P!Needle)
           /\ P!NoteAccept(fa.sink[currentState0], i0 + r + Len(P!Needle), P!KeptState, P!KeptIndex)
           /\ startSMS0' = P!KeptGroup /\ subMatches0' = P!KeptSubs
           /\ pc0' = "switch" /\ rows0' = rows0
    <2> DEFINE q == fa.sink[currentState0]
               e == i0 + r
               k == e + Len(fa.str[currentState0])
               p == AfterOrdered(fa, WholeFile, PScan, e)
               a == IF Fresh(PScan) THEN 0 ELSE PScan.a
               x == IF Fresh(PScan) THEN 0 ELSE PScan.x
               m == IF Fresh(PScan) THEN Untouched(fa) ELSE PScan.m
               g == IF Fresh(PScan) THEN Closed ELSE PScan.g
    <2>1. Event(fa, WholeFile, currentState0, e)
        BY <1>2, <1>6 DEF P!Needle
    <2>2. p = Arrive(fa, q, k, a, x, g, m, PScan.rows)
        BY WholeFields DEF AfterOrdered
    <2>3. P!NoteAccept(q, k, a, x) /\ subMatches0' = m
        BY <1>6, WholeKept DEF P!Needle
    <2>4. SameGroup(startSMS0', g, 0) /\ startSMS0' \in [id : 0..fa.groups, index : Nat]
        BY <1>6, WholeKept, WholeTypes, WholeFields DEF SameGroup, Closed
    <2> HIDE DEF q, e, k, p, a, x, m, g
    <2>5. Arrives(fa, PScan', p)
        BY <1>6, <2>2, <2>3, <2>4, WholeFields DEF P!NoteAccept, Arrive, Arrives
    <2> QED BY <1>1, <1>2, <1>3, <2>1, <2>5, WholeFields DEF OrderedTurn, p, e
<1> QED BY <1>4, <1>5, <1>6 DEF P!WindowOrd

\* A window of a set.
LEMMA WholeWindowSetIsTurn ==
    ASSUME WholeReady, NEW r \in 0..VecBytes, P!WindowSet(r)
    PROVE  \/ LoopTurn(fa, WholeFile, PScan, PScan') \/ LeaveTurn(fa, WholeFile, PScan, PScan')
           \/ SetTurn(fa, WholeFile, PScan, PScan')
<1>1. /\ pc0 = "window" /\ i0 < P!size /\ SetKind(fa, currentState0)
      /\ P!IsSetIndex(r, fa.leave[currentState0], i0)
    BY DEF P!WindowSet, P!Kind, SetKind
<1>2. /\ Quiet(fa, WholeFile, currentState0, i0, i0 + r)
      /\ r < VecBytes /\ i0 + r < Len(WholeFile) => Event(fa, WholeFile, currentState0, i0 + r)
    BY <1>1, WholeSetIndex
<1>3. i0 \in Nat /\ r \in Nat /\ VecBytes \in Nat /\ i0 + r \in Nat /\ i0 <= i0 + r /\ P!size = Len(WholeFile)
    BY WholeTypes, WholeBytes
<1>4. CASE r = VecBytes /\ P!Loop(i0 + VecBytes)
    BY <1>1, <1>2, <1>3, <1>4, WholeLoopIsTurn
<1>5. CASE /\ i0 + r >= P!size
           /\ P!NoteAccept(currentState0, i0 + r, P!KeptState, P!KeptIndex)
           /\ startSMS0' = P!KeptGroup /\ subMatches0' = P!KeptSubs
           /\ pc0' = "switch" /\ rows0' = rows0
    <2>1. /\ currentState0' = currentState0 /\ i0' = i0 + r
          /\ \/ recentAcceptState0' = P!KeptState /\ recentAcceptIndex0' = P!KeptIndex
             \/ recentAcceptState0' = currentState0 /\ recentAcceptIndex0' = i0 + r
        BY <1>5 DEF P!NoteAccept
    <2>2. \/ PScan'.g = PScan.g /\ PScan'.m = PScan.m
          \/ Fresh(PScan) /\ PScan'.g \in [id : {0}, index : Nat] /\ PScan'.m = Untouched(fa)
        BY <1>5, WholeKept, WholeFields
    <2>3. \/ PScan'.a = PScan.a /\ PScan'.x = PScan.x
          \/ PScan'.a = PScan.q /\ PScan'.x = PScan'.k
          \/ Fresh(PScan) /\ PScan'.a = 0 /\ PScan'.x = 0
        BY <2>1, WholeKept, WholeFields
    <2> QED BY <1>1, <1>2, <1>3, <1>5, <2>1, <2>2, <2>3, WholeFields DEF LeaveTurn
<1>6. CASE r < VecBytes /\ i0 + r < P!size /\ P!Step(i0 + r, P!KeptGroup) /\ pc0' = "switch" /\ rows0' = rows0
    <2> DEFINE g == IF Fresh(PScan) THEN Closed ELSE PScan.g
    <2>1. Event(fa, WholeFile, currentState0, i0 + r)
        BY <1>2, <1>3, <1>6
    <2>2. P!KeptGroup \in [id : 0..fa.groups, index : Nat]
        BY WholeKept
    <2>3. SameGroup(P!KeptGroup, g, 0)
        BY WholeKept, WholeTypes, WholeFields DEF SameGroup, Closed
    <2> HIDE DEF g
    <2>4. Arrives(fa, PScan', AfterByte(fa, WholeFile, PScan, i0 + r, g))
        BY <1>3, <1>6, <2>2, <2>3, WholeByte
    <2> QED BY <1>1, <1>2, <1>3, <2>1, <2>4, WholeFields DEF SetTurn, g
<1> QED BY <1>4, <1>5, <1>6 DEF P!WindowSet

\* A byte.
LEMMA WholeStepCIsTurn ==
    ASSUME WholeReady, P!StepC
    PROVE  ByteTurn(fa, WholeFile, PScan, PScan')
<1> DEFINE g == P!StartSubMatch(P!KeptGroup)
           h == Opened(fa, currentState0, i0, IF Fresh(PScan) THEN Closed ELSE PScan.g)
<1>1. /\ pc0 = "switch" /\ i0 < P!size /\ fa.kind[currentState0] = "C"
      /\ P!Step(i0, g) /\ pc0' = pc0 /\ rows0' = rows0
    BY DEF P!StepC, P!Kind
<1>2. i0 \in Nat /\ P!size = Len(WholeFile)
    BY WholeTypes, WholeBytes
<1>3. fa.groups \in Nat /\ fa.start[currentState0] \in 0..fa.groups
    BY Automaton, WholeTypes DEF WholeReady
<1>4. P!KeptGroup \in [id : 0..fa.groups, index : Nat]
    BY WholeKept
<1>5. g \in [id : 0..fa.groups, index : Nat]
    BY <1>2, <1>3, <1>4 DEF P!StartSubMatch
<1>6. SameGroup(g, h, 0)
    BY <1>2, <1>3, WholeKept, WholeTypes, WholeFields DEF SameGroup, Closed, Opened, P!StartSubMatch
<1> HIDE DEF g, h
<1>7. Arrives(fa, PScan', AfterByte(fa, WholeFile, PScan, i0, h))
    BY <1>1, <1>2, <1>5, <1>6, WholeByte
<1> QED BY <1>1, <1>2, <1>7, WholeFields DEF ByteTurn, h

\* The dead state.
LEMMA WholeDeadIsTurn ==
    ASSUME WholeReady, P!Emit \/ P!Abandon
    PROVE  DeadTurn(fa, WholeFile, PScan, PScan')
<1> DEFINE p == AfterDead(fa, PScan)
           k == IF recentAcceptState0 # 0 THEN recentAcceptIndex0 + 1 ELSE i0
           rs == IF recentAcceptState0 # 0 THEN Append(rows0, RowOf(fa, PScan, i0 - 1)) ELSE rows0
           subs == IF startSMS0.id > 0
                   THEN [subMatches0 EXCEPT ![startSMS0.id] = [start |-> startSMS0.index, end |-> i0 - 1]]
                   ELSE subMatches0
<1>1. P!INIT_STATE = 1 /\ P!INV_STATE = 0 /\ i0 \in Nat /\ P!size = Len(WholeFile)
      /\ 1 = E!INIT_STATE
    BY WholeTypes, WholeBytes DEF E!INIT_STATE
<1>2. pc0 = "switch" /\ i0 < P!size /\ fa.kind[currentState0] = "INV" /\ pc0' = pc0
    BY DEF P!Emit, P!Abandon, P!Kind
<1>3. /\ P!NoteAccept(1, k, 0, 0)
      /\ startSMS0' = [startSMS0 EXCEPT !.id = 0] /\ subMatches0' = Untouched(fa)
    BY <1>1, WholeKept DEF P!Emit, P!Abandon
<1>4. subs = Marked(fa, subMatches0, startSMS0, i0 - 1)
    <2>1. /\ startSMS0.id \in 0..fa.groups
          /\ subMatches0 \in [1..fa.groups -> [start : Nat \cup {-1}, end : Nat \cup {-1}]]
        BY WholeTypes
    <2>2. CASE startSMS0.id > 0
        BY <2>1, <2>2 DEF Marked
    <2>3. CASE startSMS0.id = 0
        BY <2>1, <2>3 DEF Marked
    <2> QED BY <2>1, <2>2, <2>3
<1>5. rows0' = rs
    <2>1. RowOf(fa, PScan, i0 - 1) = [subs |-> subs, end |-> recentAcceptIndex0]
        BY <1>4, WholeFields DEF RowOf
    <2> HIDE DEF subs
    <2>2. CASE P!Emit
        BY <1>1, <2>1, <2>2 DEF P!Emit, subs
    <2>3. CASE P!Abandon
        BY <1>1, <2>3 DEF P!Abandon
    <2> QED BY <2>2, <2>3
<1>6. p = Arrive(fa, 1, k, 0, 0, Closed, Untouched(fa), rs)
    BY <1>1, WholeFields DEF AfterDead
<1>7. SameGroup(startSMS0', Closed, 0)
    <2>1. startSMS0'.id = 0
        BY <1>3, WholeTypes
    <2> QED BY <2>1 DEF SameGroup, Closed
<1>9. startSMS0' \in [id : 0..fa.groups, index : Nat]
    <2>1. fa.groups \in Nat
        BY Automaton DEF WholeReady
    <2> QED BY <1>3, <2>1, WholeTypes
<1> HIDE DEF p, k, rs, subs
<1>8. Arrives(fa, PScan', p)
    BY <1>2, <1>3, <1>5, <1>6, <1>7, <1>9, WholeFields DEF P!NoteAccept, Arrive, Arrives
<1> QED BY <1>1, <1>2, <1>8, WholeFields DEF DeadTurn, p

\* Every step of the loop is a turn.
LEMMA WholeIsTurn ==
    ASSUME WholeReady, P!Next
    PROVE  Turn(fa, WholeFile, PScan, PScan')
<1>1. CASE P!Enter
    BY <1>1, WholeEnterIsTurn DEF Turn
<1>2. CASE P!WindowEnd
    BY <1>2, WholeWindowEndIsTurn DEF Turn
<1>3. CASE \E r \in 0..VecBytes : P!WindowOrd(r) \/ P!WindowSet(r)
    BY <1>3, WholeWindowOrdIsTurn, WholeWindowSetIsTurn DEF Turn
<1>4. CASE P!StepC
    BY <1>4, WholeStepCIsTurn DEF Turn
<1>5. CASE P!Emit \/ P!Abandon
    BY <1>5, WholeDeadIsTurn DEF Turn
<1>6. CASE P!Finish
    <2>1. /\ pc0 = "switch" /\ i0 >= P!size /\ pc0' = "done"
          /\ UNCHANGED <<i0, currentState0, recentAcceptState0, recentAcceptIndex0, startSMS0, subMatches0, rows0>>
        BY <1>6 DEF P!Finish, P!ctx
    <2>2. P!size = Len(WholeFile)
        BY WholeBytes, WholeTypes
    <2>3. EndTurn(fa, WholeFile, PScan, PScan')
        BY <2>1, <2>2, WholeFields DEF EndTurn
    <2> QED BY <2>3 DEF Turn
<1> QED BY <1>1, <1>2, <1>3, <1>4, <1>5, <1>6 DEF P!Next

----------------------------------------------------------------------------
(* The points of a file.                                                    *)

\* The rows rs are the first ones of us.
RowsBefore(rs, us) == Len(rs) <= Len(us) /\ \A k \in 1..Len(rs) : us[k] = rs[k]

\* What every point is.
PointOk(A, c) == c.q \in A.states /\ IsList(c.rows)

\* The fields of a point at its arrival.
LEMMA ArriveFields ==
    ASSUME NEW A, NEW q, NEW k, NEW a, NEW x, NEW g, NEW m, NEW rs, NEW p, p = Arrive(A, q, k, a, x, g, m, rs)
    PROVE  /\ p.q = q /\ p.k = k /\ p.g = g /\ p.m = m /\ p.rows = rs
           /\ p.a = IF q \in A.accept THEN q ELSE a
           /\ p.x = IF q \in A.accept THEN k ELSE x
BY DEF Arrive

\* What an event leads to is a point, and keeps the rows.
LEMMA AfterOk ==
    ASSUME NEW A, E!IsAutomaton(A), NEW T \in Seq(Chars), NEW c, PointOk(A, c),
           NEW e \in Nat, Event(A, T, c.q, e)
    PROVE  PointOk(A, After(A, T, c, e)) /\ RowsBefore(c.rows, After(A, T, c, e).rows)
<1> DEFINE d == After(A, T, c, e)
<1>1. c.q \in A.states /\ IsList(c.rows)
    BY DEF PointOk
<1>2. T[e + 1] \in Chars
    BY DEF Event
<1>3. RowsBefore(c.rows, c.rows)
    BY <1>1 DEF RowsBefore, IsList
<1>4. A.sink[c.q] \in A.states /\ A.next[c.q][T[e + 1]] \in A.states /\ E!INIT_STATE \in A.states
    BY <1>1, <1>2, Automaton
<1>5. CASE A.kind[c.q] = "ORDERED"
    <2>1. d = AfterOrdered(A, T, c, e)
        BY <1>5 DEF After, SetKind
    <2>2. d.q = A.sink[c.q] /\ d.rows = c.rows
        BY <2>1, ArriveFields DEF AfterOrdered
    <2> QED BY <1>1, <1>3, <1>4, <2>2 DEF PointOk
<1>6. ASSUME NEW g, d = AfterByte(A, T, c, e, g)
      PROVE  PointOk(A, d) /\ RowsBefore(c.rows, d.rows)
    <2>1. d.q = A.next[c.q][T[e + 1]] /\ d.rows = c.rows
        BY <1>6, ArriveFields DEF AfterByte
    <2> HIDE DEF d
    <2> QED BY <1>1, <1>3, <1>4, <2>1 DEF PointOk
<1>7. CASE SetKind(A, c.q)
    <2>1. d = AfterByte(A, T, c, e, IF Fresh(c) THEN Closed ELSE Opened(A, c.q, c.k, c.g))
        BY <1>7 DEF After, SetKind
    <2> QED BY <1>6, <2>1
<1>8. CASE A.kind[c.q] = "C"
    <2>1. d = AfterByte(A, T, c, e, Opened(A, c.q, c.k, IF Fresh(c) THEN Closed ELSE c.g))
        BY <1>8 DEF After, SetKind
    <2> QED BY <1>6, <2>1
<1>9. CASE A.kind[c.q] = "INV"
    <2>1. d = AfterDead(A, c)
        BY <1>9 DEF After, SetKind
    <2>2. d.q = E!INIT_STATE /\ d.rows = IF c.a # 0 THEN Append(c.rows, RowOf(A, c, c.k - 1)) ELSE c.rows
        BY <2>1, ArriveFields DEF AfterDead
    <2> DEFINE row == RowOf(A, c, c.k - 1)
    <2>3. /\ IsList(Append(c.rows, row)) /\ Len(Append(c.rows, row)) = Len(c.rows) + 1
          /\ \A k \in 1..Len(c.rows) : Append(c.rows, row)[k] = c.rows[k]
        BY <1>1, AppendList
    <2>4. RowsBefore(c.rows, Append(c.rows, row))
        BY <1>1, <2>3 DEF RowsBefore, IsList
    <2> HIDE DEF d
    <2>5. PointOk(A, d) /\ RowsBefore(c.rows, d.rows)
        BY <1>1, <1>3, <1>4, <2>2, <2>3, <2>4 DEF PointOk
    <2> QED BY <2>5 DEF d
<1>10. \/ A.kind[c.q] = "ORDERED" \/ SetKind(A, c.q) \/ A.kind[c.q] = "C" \/ A.kind[c.q] = "INV"
    BY <1>1, Automaton DEF SetKind
<1> HIDE DEF d
<1> QED BY <1>5, <1>7, <1>8, <1>9, <1>10, Zenon

\* The point after a point is one.
LEMMA After1Ok ==
    ASSUME NEW A, E!IsAutomaton(A), NEW T \in Seq(Chars), NEW c, PointOk(A, c)
    PROVE  PointOk(A, After1(A, T, c)) /\ RowsBefore(c.rows, After1(A, T, c).rows)
<1>1. CASE AtEnd(A, T, c)
    BY <1>1 DEF After1, RowsBefore, PointOk, IsList
<1>2. CASE ~AtEnd(A, T, c)
    <2> DEFINE e == CHOOSE e \in Nat : IsNextEvent(A, T, c, e)
    <2>1. e \in Nat /\ IsNextEvent(A, T, c, e)
        BY <1>2 DEF AtEnd
    <2>2. After1(A, T, c) = After(A, T, c, e)
        BY <1>2 DEF After1
    <2> HIDE DEF e
    <2> QED BY <2>1, <2>2, AfterOk DEF IsNextEvent
<1> QED BY <1>1, <1>2

\* The next event is where it is found, and there is but one.
LEMMA After1Is ==
    ASSUME NEW A, NEW T, NEW c, c.k \in Nat, NEW e \in Nat, IsNextEvent(A, T, c, e)
    PROVE  After1(A, T, c) = After(A, T, c, e)
<1> DEFINE d == CHOOSE d \in Nat : IsNextEvent(A, T, c, d)
<1>1. d \in Nat /\ IsNextEvent(A, T, c, d)
    OBVIOUS
<1>2. After1(A, T, c) = After(A, T, c, d)
    BY DEF After1, AtEnd
<1> HIDE DEF d
<1>3. ~(d < e) /\ ~(e < d)
    BY <1>1 DEF IsNextEvent
<1>4. d = e
    BY <1>1, <1>3
<1> QED BY <1>2, <1>4

\* The first point is reached.
LEMMA ReachedFirst == \A A, T : Reached(A, T, FirstPoint(A))
<1> SUFFICES ASSUME NEW A, NEW T PROVE Reached(A, T, FirstPoint(A))
    OBVIOUS
<1> DEFINE p == [k \in {0} |-> FirstPoint(A)]
<1>1. Points(A, T, p, 0) /\ p[0] = FirstPoint(A)
    BY DEF Points
<1> HIDE DEF p
<1> QED BY <1>1 DEF Reached

\* The point after one that is reached is reached.
LEMMA ReachedNext ==
    ASSUME NEW A, NEW T, NEW c, Reached(A, T, c)
    PROVE  Reached(A, T, After1(A, T, c))
<1>1. PICK n \in Nat : \E p : Points(A, T, p, n) /\ p[n] = c
    BY DEF Reached
<1>2. PICK p : Points(A, T, p, n) /\ p[n] = c
    BY <1>1
<1> DEFINE r == [k \in 0..n + 1 |-> IF k <= n THEN p[k] ELSE After1(A, T, c)]
<1>3. r[0] = p[0] /\ r[n + 1] = After1(A, T, c)
    OBVIOUS
<1>4. ASSUME NEW k \in 1..n + 1
      PROVE  r[k] = After1(A, T, r[k - 1])
    <2>1. CASE k <= n
        <3>1. r[k] = p[k] /\ r[k - 1] = p[k - 1] /\ k \in 1..n
            BY <2>1
        <3> HIDE DEF r
        <3> QED BY <1>2, <3>1 DEF Points
    <2>2. CASE k = n + 1
        <3>1. r[k - 1] = c
            BY <1>2, <2>2
        <3> QED BY <1>3, <2>2, <3>1
    <2> QED BY <2>1, <2>2
<1> HIDE DEF r
<1>5. Points(A, T, r, n + 1)
    BY <1>2, <1>3, <1>4 DEF Points
<1>6. n + 1 \in Nat
    OBVIOUS
<1> QED BY <1>3, <1>5, <1>6 DEF Reached

\* What is reached is a point.
LEMMA ReachedOk ==
    ASSUME NEW A, E!IsAutomaton(A), NEW T \in Seq(Chars), NEW n \in Nat, NEW p, Points(A, T, p, n)
    PROVE  \A k \in 0..n : PointOk(A, p[k])
<1> DEFINE S == {k \in Nat : k <= n => PointOk(A, p[k])}
<1>1. 0 \in S
    <2>1. p[0] = FirstPoint(A)
        BY DEF Points
    <2>2. p[0].q = E!INIT_STATE /\ p[0].rows = <<>>
        BY <2>1, ArriveFields DEF FirstPoint
    <2>3. PointOk(A, p[0])
        BY <2>2, Automaton, EmptyList DEF PointOk
    <2> QED BY <2>3
<1>2. ASSUME NEW k \in Nat, k \in S PROVE k + 1 \in S
    <2> SUFFICES ASSUME k + 1 <= n PROVE PointOk(A, p[k + 1])
        OBVIOUS
    <2>1. PointOk(A, p[k]) /\ k + 1 \in 1..n /\ (k + 1) - 1 = k
        BY <1>2
    <2>2. p[k + 1] = After1(A, T, p[k])
        BY <2>1 DEF Points
    <2> QED BY <2>1, <2>2, After1Ok
<1> HIDE DEF S
<1>3. \A k \in Nat : k \in S
    BY <1>1, <1>2, Induction
<1> QED BY <1>3 DEF S

\* The last point comes after every other: it has their rows.
LEMMA ReachedLast ==
    ASSUME NEW A, E!IsAutomaton(A), NEW T \in Seq(Chars), NEW c, NEW d,
           Reached(A, T, c), Reached(A, T, d), AtEnd(A, T, d)
    PROVE  RowsBefore(c.rows, d.rows) /\ (AtEnd(A, T, c) => c = d)
<1>1. PICK n \in Nat : \E p : Points(A, T, p, n) /\ p[n] = c
    BY DEF Reached
<1>2. PICK p : Points(A, T, p, n) /\ p[n] = c
    BY <1>1
<1>3. PICK m \in Nat : \E r : Points(A, T, r, m) /\ r[m] = d
    BY DEF Reached
<1>4. PICK r : Points(A, T, r, m) /\ r[m] = d
    BY <1>3
\* From a point on that the two have in common.
<1>5. \A k \in Nat : k <= n /\ k <= m => p[k] = r[k]
    <2> DEFINE S == {k \in Nat : k <= n /\ k <= m => p[k] = r[k]}
    <2>1. 0 \in S
        BY <1>2, <1>4 DEF Points
    <2>2. ASSUME NEW k \in Nat, k \in S PROVE k + 1 \in S
        <3> SUFFICES ASSUME k + 1 <= n, k + 1 <= m PROVE p[k + 1] = r[k + 1]
            OBVIOUS
        <3>1. p[k] = r[k] /\ k + 1 \in 1..n /\ k + 1 \in 1..m /\ (k + 1) - 1 = k
            BY <2>2
        <3> QED BY <1>2, <1>4, <3>1 DEF Points
    <2> HIDE DEF S
    <2>3. \A k \in Nat : k \in S
        BY <2>1, <2>2, Induction
    <2> QED BY <2>3 DEF S
<1>6. ASSUME NEW f, NEW l \in Nat, Points(A, T, f, l), NEW a \in Nat, a <= l, AtEnd(A, T, f[a])
      PROVE  f[l] = f[a]
    <2> DEFINE S == {k \in Nat : a + k <= l => f[a + k] = f[a]}
    <2>1. 0 \in S
        OBVIOUS
    <2>2. ASSUME NEW k \in Nat, k \in S PROVE k + 1 \in S
        <3> SUFFICES ASSUME a + (k + 1) <= l PROVE f[a + (k + 1)] = f[a]
            OBVIOUS
        <3>1. f[a + k] = f[a] /\ a + (k + 1) \in 1..l /\ (a + (k + 1)) - 1 = a + k
            BY <2>2
        <3>2. f[a + (k + 1)] = After1(A, T, f[a])
            BY <1>6, <3>1 DEF Points
        <3> QED BY <1>6, <3>2 DEF After1
    <2> HIDE DEF S
    <2>3. \A k \in Nat : k \in S
        BY <2>1, <2>2, Induction
    <2>4. l - a \in Nat /\ a + (l - a) = l
        BY <1>6
    <2>5. a + (l - a) <= l => f[a + (l - a)] = f[a]
        BY <2>3, <2>4 DEF S
    <2> QED BY <2>4, <2>5
<1>7. CASE n <= m
    <2>1. r[n] = c
        BY <1>2, <1>5, <1>7
    <2> DEFINE S == {k \in Nat : n + k <= m => RowsBefore(c.rows, r[n + k].rows)}
    <2>2. \A k \in 0..m : PointOk(A, r[k])
        BY <1>4, ReachedOk
    <2>3. 0 \in S
        <3>1. n \in 0..m
            BY <1>7
        <3>2. IsList(c.rows)
            BY <2>1, <2>2, <3>1 DEF PointOk
        <3> QED BY <2>1, <3>2 DEF RowsBefore, IsList
    <2>4. ASSUME NEW k \in Nat, k \in S PROVE k + 1 \in S
        <3> SUFFICES ASSUME n + (k + 1) <= m PROVE RowsBefore(c.rows, r[n + (k + 1)].rows)
            OBVIOUS
        <3>1. /\ RowsBefore(c.rows, r[n + k].rows) /\ n + (k + 1) \in 1..m /\ n + k \in 0..m /\ n \in 0..m
              /\ (n + (k + 1)) - 1 = n + k
            BY <2>4
        <3>2. r[n + (k + 1)] = After1(A, T, r[n + k])
            BY <1>4, <3>1 DEF Points
        <3>3. RowsBefore(r[n + k].rows, r[n + (k + 1)].rows) /\ PointOk(A, r[n + (k + 1)])
            BY <2>2, <3>1, <3>2, After1Ok
        <3>4. Len(c.rows) \in Nat /\ Len(r[n + k].rows) \in Nat /\ Len(r[n + (k + 1)].rows) \in Nat
            BY <2>1, <2>2, <3>1, <3>3 DEF PointOk, IsList
        <3> QED BY <3>1, <3>3, <3>4 DEF RowsBefore
    <2> HIDE DEF S
    <2>5. \A k \in Nat : k \in S
        BY <2>3, <2>4, Induction
    <2>6. m - n \in Nat /\ n + (m - n) = m
        BY <1>7
    <2>7. n + (m - n) <= m => RowsBefore(c.rows, r[n + (m - n)].rows)
        BY <2>5, <2>6 DEF S
    <2>8. AtEnd(A, T, c) => c = d
        BY <1>4, <1>6, <1>7, <2>1
    <2> QED BY <1>4, <2>6, <2>7, <2>8
<1>8. CASE m < n
    <2>1. p[m] = d
        BY <1>4, <1>5, <1>8
    <2>2. c = d
        BY <1>2, <1>6, <1>8, <2>1
    <2>3. IsList(c.rows)
        <3>1. n \in 0..n
            OBVIOUS
        <3> QED BY <1>2, <3>1, ReachedOk DEF PointOk
    <2> QED BY <2>2, <2>3 DEF RowsBefore, IsList
<1> QED BY <1>7, <1>8

----------------------------------------------------------------------------
(* A turn goes to the next point, or stays at the point.                    *)

\* D is a piece of T, from byte b on.
PieceAt(T, b, D) ==
    /\ T \in Seq(Chars) /\ b \in Nat /\ D \in Seq(Chars)
    /\ b + Len(D) <= Len(T) /\ \A k \in 1..Len(D) : D[k] = T[b + k]

\* p, in the piece, is where c is.
Met(A, b, p, c) ==
    /\ c.k = b + p.k /\ c.q = p.q /\ SameRecent(p, c, b)
    /\ SameGroup(p.g, c.g, b) /\ SameMatches(A, p.m, c.m, b)

PointTyped(A, n, p) ==
    /\ p.k \in 0..n /\ p.q \in A.states /\ p.a \in A.states /\ p.x \in Nat
    /\ p.g.id \in 0..A.groups /\ p.g.index \in Nat
    /\ p.m \in [1..A.groups -> [start : Nat \cup {-1}, end : Nat \cup {-1}]]

\* The rows of a piece and of the whole: one more, or none.
RowMoved(A, b, n, r, w) ==
    \E m \in [1..A.groups -> [start : Nat \cup {-1}, end : Nat \cup {-1}]], x \in Nat :
        /\ MatchesBounded(A, n, [m |-> m])
        /\ r = [subs |-> m, end |-> x]
        /\ w = [subs |-> [h \in 1..A.groups |-> Moved(m[h], b)], end |-> x + b]

RowsAlike(A, b, n, rs, us, cs, ds) ==
    \/ us = rs /\ ds = cs
    \/ \E r, w : us = Append(rs, r) /\ ds = Append(cs, w) /\ RowMoved(A, b, n, r, w)

\* An event of the piece is one of the whole that does not reach over the end.
LEMMA EventOfPiece ==
    ASSUME NEW A, E!IsAutomaton(A), NEW T, NEW b, NEW D, PieceAt(T, b, D),
           NEW q \in A.states, NEW e \in Nat
    PROVE  Event(A, D, q, e) <=> Event(A, T, q, b + e) /\ EventEnd(A, q, b + e) <= b + Len(D)
<1>1. /\ b \in Nat /\ Len(D) \in Nat /\ Len(T) \in Nat /\ b + Len(D) <= Len(T)
      /\ \A k \in 1..Len(D) : D[k] = T[b + k]
    BY DEF PieceAt
<1>2. CASE A.kind[q] = "ORDERED"
    <2> DEFINE w == A.str[q]
               n == Len(w)
    <2>1. n \in Nat /\ n >= 1 /\ ~SetKind(A, q) /\ EventEnd(A, q, b + e) = b + e + n
        BY <1>2, Automaton DEF SetKind, EventEnd
    <2>2. Event(A, D, q, e) <=> /\ e < Len(D) /\ e + n <= Len(D) /\ n <= VecBytes
                                /\ \A j \in 1..n : D[e + j] = w[j]
        BY <1>2, <2>1 DEF Event
    <2>3. Event(A, T, q, b + e) <=> /\ b + e < Len(T) /\ (b + e) + n <= Len(T) /\ n <= VecBytes
                                    /\ \A j \in 1..n : T[(b + e) + j] = w[j]
        BY <1>2, <2>1 DEF Event
    <2> HIDE DEF w, n
    <2>4. ASSUME e + n <= Len(D), NEW j \in 1..n
          PROVE  D[e + j] = T[(b + e) + j]
        <3>1. e + j \in 1..Len(D) /\ b + (e + j) = (b + e) + j
            BY <1>1, <2>1, <2>4
        <3> QED BY <1>1, <3>1
    <2> QED BY <1>1, <2>1, <2>2, <2>3, <2>4
<1>3. CASE A.kind[q] # "ORDERED"
    <2>1. EventEnd(A, q, b + e) = b + e + 1
        BY <1>1, <1>3 DEF EventEnd
    <2>2. e < Len(D) => D[e + 1] = T[(b + e) + 1]
        <3>1. e < Len(D) => e + 1 \in 1..Len(D) /\ b + (e + 1) = (b + e) + 1
            BY <1>1
        <3> QED BY <1>1, <3>1
    <2>3. Event(A, D, q, e) <=> e < Len(D) /\ (SetKind(A, q) => D[e + 1] \in A.leave[q])
        BY <1>3 DEF Event
    <2>4. Event(A, T, q, b + e) <=> b + e < Len(T) /\ (SetKind(A, q) => T[(b + e) + 1] \in A.leave[q])
        BY <1>3 DEF Event
    <2> QED BY <1>1, <2>1, <2>2, <2>3, <2>4
<1> QED BY <1>2, <1>3

\* What has been passed up to byte k of the piece stays so up to byte l, if
\* there is no event of the piece between.
Passed(A, T, b, n, q, from, k) ==
    \A e \in from..(b + k - 1) : Event(A, T, q, e) => e >= b /\ b + n < EventEnd(A, q, e)

\* Without an event between, what is passed up to byte k is passed up to l.
LEMMA PassedOn ==
    ASSUME NEW A, E!IsAutomaton(A), NEW T, NEW b, NEW D, PieceAt(T, b, D), NEW q \in A.states,
           NEW from \in Nat, NEW k \in Nat, Passed(A, T, b, Len(D), q, from, k),
           NEW l \in Nat, Quiet(A, D, q, k, l)
    PROVE  Passed(A, T, b, Len(D), q, from, l)
<1>1. b \in Nat /\ Len(D) \in Nat
    BY DEF PieceAt
<1> SUFFICES ASSUME NEW e \in from..(b + l - 1), Event(A, T, q, e)
             PROVE  e >= b /\ b + Len(D) < EventEnd(A, q, e)
    BY DEF Passed
<1>2. CASE e < b + k
    <2>1. e \in from..(b + k - 1)
        BY <1>1, <1>2
    <2> QED BY <2>1 DEF Passed
<1>3. CASE e >= b + k
    <2>1. e - b \in Nat /\ e - b \in k..(l - 1) /\ b + (e - b) = e
        BY <1>1, <1>3
    <2>2. ~Event(A, D, q, e - b)
        BY <2>1 DEF Quiet
    <2>3. ~(EventEnd(A, q, e) <= b + Len(D))
        BY <2>1, <2>2, EventOfPiece
    <2>4. EventEnd(A, q, e) \in Nat
        BY <2>1, <1>1, Automaton DEF EventEnd
    <2> QED BY <1>1, <1>3, <2>3, <2>4
<1> QED BY <1>1, <1>2, <1>3

\* The first event of the piece from where the scan is, is the next one.
LEMMA NextOfPiece ==
    ASSUME NEW A, E!IsAutomaton(A), NEW T, NEW b, NEW D, PieceAt(T, b, D), NEW q \in A.states,
           NEW c, c.k \in Nat, c.q = q, NEW k \in Nat, c.k <= b + k, Passed(A, T, b, Len(D), q, c.k, k),
           NEW e \in Nat, k <= e, Event(A, D, q, e), Quiet(A, D, q, k, e)
    PROVE  /\ IsNextEvent(A, T, c, b + e) /\ b + e \in Nat
           /\ After1(A, T, c) = After(A, T, c, b + e)
<1>1. b \in Nat /\ Len(D) \in Nat
    BY DEF PieceAt
<1>2. Event(A, T, q, b + e) /\ EventEnd(A, q, b + e) <= b + Len(D) /\ b + e \in Nat
    BY <1>1, EventOfPiece
<1>3. Passed(A, T, b, Len(D), q, c.k, e)
    BY PassedOn
<1>4. ASSUME NEW d \in c.k..(b + e - 1), Event(A, T, q, d)
      PROVE  FALSE
    <2>1. b + Len(D) < EventEnd(A, q, d)
        BY <1>4, <1>3 DEF Passed
    <2> DEFINE l == IF A.kind[q] = "ORDERED" THEN Len(A.str[q]) ELSE 1
    <2>2. l \in Nat /\ EventEnd(A, q, d) = d + l /\ EventEnd(A, q, b + e) = (b + e) + l
        BY Automaton DEF EventEnd
    <2> HIDE DEF l
    <2>3. d \in Int /\ d < b + e
        BY <1>1, <1>4
    <2> QED BY <1>1, <1>2, <2>1, <2>2, <2>3
<1>5. IsNextEvent(A, T, c, b + e)
    BY <1>1, <1>2, <1>4 DEF IsNextEvent
<1> QED BY <1>2, <1>5, After1Is

\* Groups alike stay alike, when they are ended.
LEMMA EndsAlike ==
    ASSUME NEW A, E!IsAutomaton(A), NEW b \in Nat, NEW n \in Nat, NEW q, NEW e \in Nat, e < n,
           NEW g, g.id \in 0..A.groups, g.index \in Nat, g.id > 0 => g.index <= e, NEW h, SameGroup(g, h, b),
           NEW m \in [1..A.groups -> [start : Nat \cup {-1}, end : Nat \cup {-1}]], NEW w, SameMatches(A, m, w, b),
           MatchesBounded(A, n, [m |-> m])
    PROVE  /\ SameGroup(KeptOpen(A, q, g), KeptOpen(A, q, h), b)
           /\ KeptOpen(A, q, g).id \in 0..A.groups /\ KeptOpen(A, q, g).index \in Nat
           /\ KeptOpen(A, q, g).id > 0 => KeptOpen(A, q, g) = g
           /\ SameMatches(A, MarkedIf(A, q, m, g, e), MarkedIf(A, q, w, h, b + e), b)
           /\ MatchesBounded(A, n, [m |-> MarkedIf(A, q, m, g, e)])
           /\ MarkedIf(A, q, m, g, e) \in [1..A.groups -> [start : Nat \cup {-1}, end : Nat \cup {-1}]]
<1>1. g.id = h.id /\ (g.id > 0 => h.index = g.index + b)
    BY DEF SameGroup
<1>2. EndsGroup(A, q, g) <=> EndsGroup(A, q, h)
    BY <1>1 DEF EndsGroup
<1>3. A.groups \in Nat
    BY Automaton
<1>4. CASE ~EndsGroup(A, q, g)
    BY <1>2, <1>4 DEF KeptOpen, MarkedIf
<1>5. CASE EndsGroup(A, q, g)
    <2>1. g.id > 0 /\ g.id \in 1..A.groups
        BY <1>3, <1>5 DEF EndsGroup
    <2>2. KeptOpen(A, q, g) = Closed /\ KeptOpen(A, q, h) = Closed
        BY <1>2, <1>5 DEF KeptOpen
    <2>3. Closed.id = 0 /\ Closed.index = 0
        BY DEF Closed
    <2> DEFINE s == [start |-> g.index, end |-> e]
               u == MarkedIf(A, q, m, g, e)
               v == MarkedIf(A, q, w, h, b + e)
    <2>4. /\ u = [d \in 1..A.groups |-> IF d = g.id THEN s ELSE m[d]]
          /\ v = [d \in 1..A.groups |-> IF d = g.id THEN [start |-> g.index + b, end |-> e + b] ELSE w[d]]
        BY <1>1, <1>2, <1>5, <2>1 DEF MarkedIf, Marked
    <2>5. /\ s.start = g.index /\ s.end = e /\ s \in [start : Nat \cup {-1}, end : Nat \cup {-1}]
          /\ Moved(s, b) = [start |-> g.index + b, end |-> e + b]
        BY DEF Moved
    <2> HIDE DEF s, u, v
    <2>6. SameMatches(A, u, v, b)
        BY <2>4, <2>5 DEF SameMatches
    <2>7. u \in [1..A.groups -> [start : Nat \cup {-1}, end : Nat \cup {-1}]]
        BY <2>4, <2>5
    <2>8. ASSUME NEW d \in 1..A.groups, u[d] # [start |-> -1, end |-> -1]
          PROVE  0 <= u[d].start /\ u[d].start <= u[d].end /\ u[d].end < n
        <3>1. CASE d = g.id
            BY <2>1, <2>4, <2>5, <3>1
        <3>2. CASE d # g.id
            BY <2>4, <2>8, <3>2 DEF MatchesBounded
        <3> QED BY <3>1, <3>2
    <2>9. MatchesBounded(A, n, [m |-> u])
        BY <2>8 DEF MatchesBounded
    <2> QED BY <1>3, <2>2, <2>3, <2>6, <2>7, <2>9 DEF u, v, SameGroup
<1> QED BY <1>4, <1>5

Setting(A, T, b, D) == E!IsAutomaton(A) /\ PieceAt(T, b, D)

\* The scan s of the piece is at point c.
At(A, T, b, D, s, c) ==
    ScanTyped(A, s) /\ Bounded(A, Len(D), s) /\ Anchored(A, T, b, Len(D), s, c)

\* The types of a piece and its file.
LEMMA SettingFacts ==
    ASSUME NEW A, NEW T, NEW b, NEW D, Setting(A, T, b, D)
    PROVE  /\ E!IsAutomaton(A) /\ PieceAt(T, b, D) /\ b \in Nat /\ Len(D) \in Nat /\ A.groups \in Nat
           /\ 0 \in A.states /\ 1 \in A.states /\ E!INIT_STATE = 1
           /\ T \in Seq(Chars) /\ D \in Seq(Chars)
BY Automaton DEF Setting, PieceAt

\* No group has taken part yet.
LEMMA Untaken ==
    ASSUME NEW A, NEW b, NEW n
    PROVE  /\ Untouched(A) \in [1..A.groups -> [start : Nat \cup {-1}, end : Nat \cup {-1}]]
           /\ SameMatches(A, Untouched(A), Untouched(A), b)
           /\ MatchesBounded(A, n, [m |-> Untouched(A)])
BY DEF Untouched, SameMatches, Moved, MatchesBounded

\* A point that is reached is one the scan is at.
LEMMA LandedAt ==
    ASSUME NEW A, NEW T, NEW b, NEW D, Setting(A, T, b, D), NEW p, NEW d, NEW t,
           PointTyped(A, Len(D), p), Bounded(A, Len(D), p), MatchesBounded(A, Len(D), p),
           Met(A, b, p, d), Arrives(A, t, p)
    PROVE  At(A, T, b, D, t, d) /\ MatchesBounded(A, Len(D), t)
<1> DEFINE n == Len(D)
<1>1. /\ t.pc = "switch" /\ t.k = p.k /\ t.q = p.q /\ t.a = p.a /\ t.x = p.x /\ t.m = p.m
      /\ t.g \in [id : 0..A.groups, index : Nat] /\ SameGroup(t.g, p.g, 0)
    BY DEF Arrives
<1>2. /\ p.k \in 0..n /\ p.q \in A.states /\ p.a \in A.states /\ p.x \in Nat
      /\ p.m \in [1..A.groups -> [start : Nat \cup {-1}, end : Nat \cup {-1}]]
      /\ p.g.index \in Nat
    BY DEF PointTyped
<1>3. b \in Nat /\ n \in Nat
    BY SettingFacts
<1>4. t.g.id = p.g.id /\ (t.g.id > 0 => p.g.index = t.g.index) /\ t.g.index \in Nat
    BY <1>1 DEF SameGroup
<1> HIDE DEF n
<1>5. ScanTyped(A, t)
    BY <1>1, <1>2, <1>3 DEF ScanTyped
<1>6. MatchesBounded(A, n, t)
    BY <1>1 DEF MatchesBounded, n
<1>7. Bounded(A, n, t)
    BY <1>1, <1>4, <1>6 DEF Bounded, n
<1>8. SameGroup(t.g, d.g, b) /\ SameMatches(A, t.m, d.m, b) /\ SameRecent(t, d, b)
    <2>1. SameGroup(p.g, d.g, b) /\ SameMatches(A, p.m, d.m, b) /\ SameRecent(p, d, b)
        BY DEF Met
    <2> QED BY <1>1, <1>4, <2>1 DEF SameGroup, SameRecent
<1>9. Anchored(A, T, b, n, t, d)
    <2>1. d.k = b + t.k /\ d.q = t.q /\ d.k \in Nat /\ d.k <= b + n /\ t.k <= n
        BY <1>1, <1>2, <1>3 DEF Met
    <2>2. \A e \in d.k..(b + t.k - 1) : FALSE
        BY <1>1, <1>2, <1>3, <2>1
    <2> QED BY <1>1, <1>8, <2>1, <2>2 DEF Anchored
<1> QED BY <1>5, <1>6, <1>7, <1>9 DEF At, n

\* What the scan and the point know before an event in state q: in the initial
\* state it does not matter.
Alike(A, b, n, s, c) ==
    /\ c.q = s.q
    /\ ~Fresh(s) => /\ SameRecent(s, c, b) /\ SameMatches(A, s.m, c.m, b)
                    /\ MatchesBounded(A, n, s) /\ (s.a # 0 => s.x <= s.k)

\* What a turn begins with, emptied in the initial state, is alike too.
LEMMA KeptAlike ==
    ASSUME NEW A, NEW T, NEW b, NEW D, Setting(A, T, b, D), NEW s, NEW c, ScanTyped(A, s),
           Alike(A, b, Len(D), s, c)
    PROVE  LET a  == IF Fresh(s) THEN 0 ELSE s.a
               x  == IF Fresh(s) THEN 0 ELSE s.x
               m  == IF Fresh(s) THEN Untouched(A) ELSE s.m
               ca == IF Fresh(c) THEN 0 ELSE c.a
               cx == IF Fresh(c) THEN 0 ELSE c.x
               cm == IF Fresh(c) THEN Untouched(A) ELSE c.m
           IN  /\ a \in A.states /\ x \in Nat /\ (a # 0 => x <= s.k)
               /\ ca = a /\ (a # 0 => cx = x + b)
               /\ m \in [1..A.groups -> [start : Nat \cup {-1}, end : Nat \cup {-1}]]
               /\ SameMatches(A, m, cm, b) /\ MatchesBounded(A, Len(D), [m |-> m])
<1>1. Fresh(s) <=> Fresh(c)
    BY DEF Fresh, Alike
<1>2. CASE Fresh(s)
    <2>1. 0 \in A.states
        BY SettingFacts
    <2> QED BY <1>1, <1>2, <2>1, Untaken
<1>3. CASE ~Fresh(s)
    <2>1. SameRecent(s, c, b) /\ SameMatches(A, s.m, c.m, b) /\ MatchesBounded(A, Len(D), s)
          /\ (s.a # 0 => s.x <= s.k)
        BY <1>3 DEF Alike
    <2>2. MatchesBounded(A, Len(D), [m |-> s.m])
        BY <2>1 DEF MatchesBounded
    <2>3. /\ s.a \in A.states /\ s.x \in Nat
          /\ s.m \in [1..A.groups -> [start : Nat \cup {-1}, end : Nat \cup {-1}]]
        BY DEF ScanTyped
    <2> QED BY <1>1, <1>3, <2>1, <2>2, <2>3 DEF SameRecent
<1> QED BY <1>2, <1>3

\* A byte that is read leads to a point, here and there.
LEMMA AfterByteMet ==
    ASSUME NEW A, NEW T, NEW b, NEW D, Setting(A, T, b, D), NEW s, NEW c, ScanTyped(A, s),
           Alike(A, b, Len(D), s, c), NEW e \in Nat, e < Len(D), s.k <= e,
           NEW g, g.id \in 0..A.groups, g.index \in Nat, g.id > 0 => g.index <= e, NEW h, SameGroup(g, h, b)
    PROVE  /\ PointTyped(A, Len(D), AfterByte(A, D, s, e, g))
           /\ Bounded(A, Len(D), AfterByte(A, D, s, e, g))
           /\ MatchesBounded(A, Len(D), AfterByte(A, D, s, e, g))
           /\ Met(A, b, AfterByte(A, D, s, e, g), AfterByte(A, T, c, b + e, h))
           /\ AfterByte(A, D, s, e, g).rows = s.rows /\ AfterByte(A, T, c, b + e, h).rows = c.rows
<1> DEFINE n == Len(D)
           p == AfterByte(A, D, s, e, g)
           d == AfterByte(A, T, c, b + e, h)
           q == A.next[s.q][D[e + 1]]
           a  == IF Fresh(s) THEN 0 ELSE s.a
           x  == IF Fresh(s) THEN 0 ELSE s.x
           m  == IF Fresh(s) THEN Untouched(A) ELSE s.m
           ca == IF Fresh(c) THEN 0 ELSE c.a
           cx == IF Fresh(c) THEN 0 ELSE c.x
           cm == IF Fresh(c) THEN Untouched(A) ELSE c.m
           M  == MarkedIf(A, q, m, g, e)
           CM == MarkedIf(A, q, cm, h, b + e)
           G  == KeptOpen(A, q, g)
           CG == KeptOpen(A, q, h)
<1>1. b \in Nat /\ n \in Nat /\ A.groups \in Nat /\ s.q \in A.states /\ s.k \in Nat /\ c.q = s.q
    BY SettingFacts DEF ScanTyped, Alike
<1>2. D[e + 1] \in Chars /\ T[(b + e) + 1] = D[e + 1]
    <2>1. e + 1 \in 1..Len(D) /\ b + (e + 1) = (b + e) + 1
        BY <1>1
    <2> QED BY <2>1, SettingFacts DEF PieceAt
<1>3. q \in A.states /\ (q \in A.accept => q # 0)
    BY <1>1, <1>2, SettingFacts, Automaton
<1>4. /\ a \in A.states /\ x \in Nat /\ (a # 0 => x <= s.k)
      /\ ca = a /\ (a # 0 => cx = x + b)
      /\ m \in [1..A.groups -> [start : Nat \cup {-1}, end : Nat \cup {-1}]]
      /\ SameMatches(A, m, cm, b) /\ MatchesBounded(A, n, [m |-> m])
    BY KeptAlike
<1>5. p = Arrive(A, q, e + 1, a, x, G, M, s.rows)
    BY DEF AfterByte
<1>6. d = Arrive(A, q, (b + e) + 1, ca, cx, CG, CM, c.rows)
    BY <1>1, <1>2 DEF AfterByte
<1>0. e < n
    OBVIOUS
<1> HIDE DEF n, p, d, q, a, x, m, ca, cx, cm, M, CM, G, CG
<1>7. /\ SameGroup(G, CG, b) /\ G.id \in 0..A.groups /\ G.index \in Nat /\ (G.id > 0 => G = g)
      /\ SameMatches(A, M, CM, b) /\ MatchesBounded(A, n, [m |-> M])
      /\ M \in [1..A.groups -> [start : Nat \cup {-1}, end : Nat \cup {-1}]]
    <2>1. E!IsAutomaton(A)
        BY SettingFacts
    <2>2. /\ SameGroup(KeptOpen(A, q, g), KeptOpen(A, q, h), b)
          /\ KeptOpen(A, q, g).id \in 0..A.groups /\ KeptOpen(A, q, g).index \in Nat
          /\ KeptOpen(A, q, g).id > 0 => KeptOpen(A, q, g) = g
          /\ SameMatches(A, MarkedIf(A, q, m, g, e), MarkedIf(A, q, cm, h, b + e), b)
          /\ MatchesBounded(A, n, [m |-> MarkedIf(A, q, m, g, e)])
          /\ MarkedIf(A, q, m, g, e) \in [1..A.groups -> [start : Nat \cup {-1}, end : Nat \cup {-1}]]
        BY <1>0, <1>1, <1>4, <2>1, EndsAlike
    <2> QED BY <2>2 DEF G, CG, M, CM
<1>8. /\ p.q = q /\ p.k = e + 1 /\ p.g = G /\ p.m = M /\ p.rows = s.rows
      /\ p.a = IF q \in A.accept THEN q ELSE a
      /\ p.x = IF q \in A.accept THEN e + 1 ELSE x
    BY <1>5, ArriveFields
<1>9. /\ d.q = q /\ d.k = (b + e) + 1 /\ d.g = CG /\ d.m = CM /\ d.rows = c.rows
      /\ d.a = IF q \in A.accept THEN q ELSE ca
      /\ d.x = IF q \in A.accept THEN (b + e) + 1 ELSE cx
    BY <1>6, ArriveFields
<1>10. PointTyped(A, n, p)
    <2>1. e + 1 \in 0..n /\ e + 1 \in Nat
        BY <1>1 DEF n
    <2> QED BY <1>3, <1>4, <1>7, <1>8, <2>1 DEF PointTyped
<1>11. MatchesBounded(A, n, p)
    BY <1>7, <1>8 DEF MatchesBounded
<1>12. Bounded(A, n, p)
    <2>1. p.a # 0 => p.x <= p.k /\ (p.q = 0 => p.x < p.k)
        BY <1>1, <1>3, <1>4, <1>8
    <2>2. p.g.id > 0 => p.g.index < n /\ p.g.index <= p.k /\ (p.q = 0 => p.g.index < p.k)
        BY <1>1, <1>7, <1>8 DEF n
    <2> QED BY <1>11, <2>1, <2>2 DEF Bounded
<1>13. Met(A, b, p, d)
    <2>1. CASE q \in A.accept
        <3>1. p.a = q /\ d.a = q /\ p.x = e + 1 /\ d.x = (b + e) + 1
            BY <1>8, <1>9, <2>1
        <3> QED BY <1>1, <1>7, <1>8, <1>9, <3>1 DEF Met, SameRecent
    <2>2. CASE q \notin A.accept
        <3>1. p.a = a /\ d.a = a /\ p.x = x /\ (a # 0 => d.x = x + b)
            BY <1>4, <1>8, <1>9, <2>2
        <3> QED BY <1>1, <1>7, <1>8, <1>9, <3>1 DEF Met, SameRecent
    <2> QED BY <2>1, <2>2
<1> QED BY <1>8, <1>9, <1>10, <1>11, <1>12, <1>13 DEF p, d, n

\* So does a needle that is found.
LEMMA AfterOrderedMet ==
    ASSUME NEW A, NEW T, NEW b, NEW D, Setting(A, T, b, D), NEW s, NEW c, ScanTyped(A, s),
           Alike(A, b, Len(D), s, c), NEW e \in Nat, e + Len(A.str[s.q]) <= Len(D), s.k <= e,
           Len(A.str[s.q]) >= 1,
           ~Fresh(s) => /\ SameGroup(s.g, c.g, b)
                        /\ (s.g.id > 0 => s.g.index < Len(D) /\ s.g.index <= s.k)
    PROVE  /\ PointTyped(A, Len(D), AfterOrdered(A, D, s, e))
           /\ Bounded(A, Len(D), AfterOrdered(A, D, s, e))
           /\ MatchesBounded(A, Len(D), AfterOrdered(A, D, s, e))
           /\ Met(A, b, AfterOrdered(A, D, s, e), AfterOrdered(A, T, c, b + e))
           /\ AfterOrdered(A, D, s, e).rows = s.rows /\ AfterOrdered(A, T, c, b + e).rows = c.rows
<1> DEFINE n == Len(D)
           l == Len(A.str[s.q])
           p == AfterOrdered(A, D, s, e)
           d == AfterOrdered(A, T, c, b + e)
           q == A.sink[s.q]
           a  == IF Fresh(s) THEN 0 ELSE s.a
           x  == IF Fresh(s) THEN 0 ELSE s.x
           m  == IF Fresh(s) THEN Untouched(A) ELSE s.m
           g  == IF Fresh(s) THEN Closed ELSE s.g
           ca == IF Fresh(c) THEN 0 ELSE c.a
           cx == IF Fresh(c) THEN 0 ELSE c.x
           cm == IF Fresh(c) THEN Untouched(A) ELSE c.m
           cg == IF Fresh(c) THEN Closed ELSE c.g
<1>1. b \in Nat /\ n \in Nat /\ A.groups \in Nat /\ s.q \in A.states /\ s.k \in Nat /\ c.q = s.q
    BY SettingFacts DEF ScanTyped, Alike
<1>2. q \in A.states /\ (q \in A.accept => q # 0) /\ l \in Nat /\ l >= 1
    BY <1>1, SettingFacts, Automaton
<1>4. /\ a \in A.states /\ x \in Nat /\ (a # 0 => x <= s.k)
      /\ ca = a /\ (a # 0 => cx = x + b)
      /\ m \in [1..A.groups -> [start : Nat \cup {-1}, end : Nat \cup {-1}]]
      /\ SameMatches(A, m, cm, b) /\ MatchesBounded(A, n, [m |-> m])
    BY KeptAlike
<1>5. p = Arrive(A, q, e + l, a, x, g, m, s.rows)
    BY DEF AfterOrdered
<1>6. d = Arrive(A, q, (b + e) + l, ca, cx, cg, cm, c.rows)
    BY <1>1 DEF AfterOrdered
<1>7. /\ SameGroup(g, cg, b) /\ g.id \in 0..A.groups /\ g.index \in Nat
      /\ (g.id > 0 => g.index < n /\ g.index <= s.k)
    <2>1. Fresh(s) <=> Fresh(c)
        BY <1>1 DEF Fresh
    <2>2. CASE Fresh(s)
        BY <1>1, <2>1, <2>2 DEF Closed, SameGroup
    <2>3. CASE ~Fresh(s)
        <3>1. s.g.id \in 0..A.groups /\ s.g.index \in Nat
            BY DEF ScanTyped
        <3> QED BY <2>1, <2>3, <3>1
    <2> QED BY <2>2, <2>3
<1>3. e + l <= n
    OBVIOUS
<1> HIDE DEF n, l, p, d, q, a, x, m, g, ca, cx, cm, cg
<1>8. /\ p.q = q /\ p.k = e + l /\ p.g = g /\ p.m = m /\ p.rows = s.rows
      /\ p.a = IF q \in A.accept THEN q ELSE a
      /\ p.x = IF q \in A.accept THEN e + l ELSE x
    BY <1>5, ArriveFields
<1>9. /\ d.q = q /\ d.k = (b + e) + l /\ d.g = cg /\ d.m = cm /\ d.rows = c.rows
      /\ d.a = IF q \in A.accept THEN q ELSE ca
      /\ d.x = IF q \in A.accept THEN (b + e) + l ELSE cx
    BY <1>6, ArriveFields
<1>10. PointTyped(A, n, p)
    <2>1. e + l \in 0..n /\ e + l \in Nat
        BY <1>1, <1>2, <1>3
    <2> QED BY <1>2, <1>4, <1>7, <1>8, <2>1 DEF PointTyped
<1>11. MatchesBounded(A, n, p)
    BY <1>4, <1>8 DEF MatchesBounded
<1>12. Bounded(A, n, p)
    <2>1. p.a # 0 => p.x <= p.k /\ (p.q = 0 => p.x < p.k)
        BY <1>1, <1>2, <1>4, <1>8
    <2>2. p.g.id > 0 => p.g.index < n /\ p.g.index <= p.k /\ (p.q = 0 => p.g.index < p.k)
        BY <1>1, <1>2, <1>7, <1>8
    <2> QED BY <1>11, <2>1, <2>2 DEF Bounded
<1>13. Met(A, b, p, d)
    <2>1. SameRecent(p, d, b)
        BY <1>1, <1>2, <1>4, <1>8, <1>9 DEF SameRecent
    <2> QED BY <1>1, <1>2, <1>4, <1>7, <1>8, <1>9, <2>1 DEF Met
<1> QED BY <1>8, <1>9, <1>10, <1>11, <1>12, <1>13 DEF p, d, n

\* The dead state leads to a point, and with a match to a row.
LEMMA AfterDeadMet ==
    ASSUME NEW A, NEW T, NEW b, NEW D, Setting(A, T, b, D), NEW s, NEW c, ScanTyped(A, s),
           Bounded(A, Len(D), s), s.q = 0, s.k < Len(D), c.q = 0, c.k = b + s.k,
           SameRecent(s, c, b), SameGroup(s.g, c.g, b), SameMatches(A, s.m, c.m, b)
    PROVE  /\ PointTyped(A, Len(D), AfterDead(A, s)) /\ Bounded(A, Len(D), AfterDead(A, s))
           /\ MatchesBounded(A, Len(D), AfterDead(A, s))
           /\ Met(A, b, AfterDead(A, s), AfterDead(A, c))
           /\ RowsAlike(A, b, Len(D), s.rows, AfterDead(A, s).rows, c.rows, AfterDead(A, c).rows)
<1> DEFINE n == Len(D)
           p == AfterDead(A, s)
           d == AfterDead(A, c)
           k == IF s.a # 0 THEN s.x + 1 ELSE s.k
           ck == IF c.a # 0 THEN c.x + 1 ELSE c.k
           rs == IF s.a # 0 THEN Append(s.rows, RowOf(A, s, s.k - 1)) ELSE s.rows
           cs == IF c.a # 0 THEN Append(c.rows, RowOf(A, c, c.k - 1)) ELSE c.rows
           M  == Marked(A, s.m, s.g, s.k - 1)
           CM == Marked(A, c.m, c.g, c.k - 1)
           Ranges0 == [start : Nat \cup {-1}, end : Nat \cup {-1}]
<1>1. /\ b \in Nat /\ n \in Nat /\ A.groups \in Nat /\ 0 \in A.states /\ 1 \in A.states
      /\ E!INIT_STATE = 1
    BY SettingFacts
<1>2. /\ s.k \in Nat /\ s.x \in Nat /\ s.g.id \in 0..A.groups /\ s.g.index \in Nat /\ s.a \in A.states
      /\ s.m \in [1..A.groups -> Ranges0]
    BY DEF ScanTyped
<1>3. /\ s.a # 0 => s.x < s.k
      /\ s.g.id > 0 => s.g.index < s.k
      /\ MatchesBounded(A, n, s)
      /\ s.k < n
    BY <1>1 DEF Bounded
<1>4. c.a = s.a /\ (s.a # 0 => c.x = s.x + b)
    BY DEF SameRecent
<1>5. c.g.id = s.g.id /\ (s.g.id > 0 => c.g.index = s.g.index + b)
    BY DEF SameGroup
<1>6. p = Arrive(A, 1, k, 0, 0, Closed, Untouched(A), rs)
    BY <1>1 DEF AfterDead
<1>7. d = Arrive(A, 1, ck, 0, 0, Closed, Untouched(A), cs)
    BY <1>1 DEF AfterDead
<1>8. k \in 0..n /\ k \in Nat /\ ck = b + k
    BY <1>1, <1>2, <1>3, <1>4
<1> HIDE DEF p, d, k, ck
<1>9. /\ p.q = 1 /\ p.k = k /\ p.g = Closed /\ p.m = Untouched(A) /\ p.rows = rs
      /\ p.a = IF 1 \in A.accept THEN 1 ELSE 0
      /\ p.x = IF 1 \in A.accept THEN k ELSE 0
    BY <1>6, ArriveFields
<1>10. /\ d.q = 1 /\ d.k = ck /\ d.g = Closed /\ d.m = Untouched(A) /\ d.rows = cs
       /\ d.a = IF 1 \in A.accept THEN 1 ELSE 0
       /\ d.x = IF 1 \in A.accept THEN ck ELSE 0
    BY <1>7, ArriveFields
<1>11. Closed.id = 0 /\ Closed.index = 0
    BY DEF Closed
<1>12. PointTyped(A, n, p)
    <2>1. p.g.id \in 0..A.groups /\ p.g.index \in Nat
        BY <1>1, <1>9, <1>11
    <2>2. p.m \in [1..A.groups -> Ranges0]
        BY <1>9, Untaken
    <2>3. p.a \in A.states /\ p.x \in Nat
        BY <1>1, <1>8, <1>9
    <2> QED BY <1>1, <1>8, <1>9, <2>1, <2>2, <2>3 DEF PointTyped
<1>13. MatchesBounded(A, n, p)
    BY <1>9 DEF MatchesBounded, Untouched
<1>14. Bounded(A, n, p)
    BY <1>8, <1>9, <1>11, <1>13 DEF Bounded
<1>15. Met(A, b, p, d)
    <2>1. SameMatches(A, p.m, d.m, b)
        <3>1. SameMatches(A, Untouched(A), Untouched(A), b)
            BY <1>1, Untaken
        <3>2. p.m = Untouched(A) /\ d.m = Untouched(A)
            BY <1>9, <1>10
        <3> QED BY <3>1, <3>2
    <2>2. SameGroup(p.g, d.g, b)
        BY <1>9, <1>10, <1>11 DEF SameGroup
    <2>3. SameRecent(p, d, b)
        <3>1. CASE 1 \in A.accept
            <4>1. p.a = 1 /\ d.a = 1 /\ p.x = k /\ d.x = ck
                BY <1>9, <1>10, <3>1
            <4> QED BY <1>1, <1>8, <4>1 DEF SameRecent
        <3>2. CASE 1 \notin A.accept
            BY <1>9, <1>10, <3>2 DEF SameRecent
        <3> QED BY <3>1, <3>2
    <2> QED BY <1>8, <1>9, <1>10, <2>1, <2>2, <2>3 DEF Met
<1>16. RowsAlike(A, b, n, s.rows, rs, c.rows, cs)
    <2>1. CASE s.a = 0
        BY <1>4, <2>1 DEF RowsAlike
    <2>2. CASE s.a # 0
        <3>1. M = [h \in 1..A.groups |-> IF h = s.g.id THEN [start |-> s.g.index, end |-> s.k - 1] ELSE s.m[h]]
            BY DEF Marked
        <3>2. CM = [h \in 1..A.groups |-> IF h = s.g.id THEN [start |-> s.g.index + b, end |-> (s.k - 1) + b]
                                          ELSE Moved(s.m[h], b)]
            <4>1. \A h \in 1..A.groups : c.m[h] = Moved(s.m[h], b)
                BY DEF SameMatches
            <4>2. \A h \in 1..A.groups : h = s.g.id => s.g.id > 0
                BY <1>1, <1>2
            <4>3. c.k - 1 = (s.k - 1) + b
                BY <1>1, <1>2
            <4> QED BY <1>5, <4>1, <4>2, <4>3 DEF Marked
        <3>3. \A h \in 1..A.groups : h = s.g.id =>
                    s.g.index \in Nat /\ s.k - 1 \in Nat /\ s.g.index <= s.k - 1 /\ s.k - 1 < n
            BY <1>1, <1>2, <1>3
        <3> HIDE DEF M, CM, n
        <3>4. M \in [1..A.groups -> Ranges0]
            BY <1>2, <3>1, <3>3
        <3>5. MatchesBounded(A, n, [m |-> M])
            <4> SUFFICES ASSUME NEW h \in 1..A.groups, M[h] # [start |-> -1, end |-> -1]
                         PROVE  0 <= M[h].start /\ M[h].start <= M[h].end /\ M[h].end < n
                BY DEF MatchesBounded
            <4>1. CASE h = s.g.id
                <5>1. M[h] = [start |-> s.g.index, end |-> s.k - 1]
                    BY <3>1, <4>1
                <5>2. M[h].start = s.g.index /\ M[h].end = s.k - 1
                    BY <5>1
                <5> QED BY <3>3, <4>1, <5>2
            <4>2. CASE h # s.g.id
                <5>1. M[h] = s.m[h]
                    BY <3>1, <4>2
                <5> QED BY <1>3, <5>1 DEF MatchesBounded
            <4> QED BY <4>1, <4>2
        <3>6. CM = [h \in 1..A.groups |-> Moved(M[h], b)]
            <4>1. ASSUME NEW h \in 1..A.groups
                  PROVE  CM[h] = Moved(M[h], b)
                <5>1. CASE h = s.g.id
                    <6>1. M[h] = [start |-> s.g.index, end |-> s.k - 1]
                        BY <3>1, <5>1
                    <6>2. M[h].start = s.g.index /\ M[h].end = s.k - 1 /\ M[h].start # -1
                        BY <3>3, <5>1, <6>1
                    <6>3. CM[h] = [start |-> s.g.index + b, end |-> (s.k - 1) + b]
                        BY <3>2, <5>1
                    <6> QED BY <6>2, <6>3 DEF Moved
                <5>2. CASE h # s.g.id
                    BY <3>1, <3>2, <5>2
                <5> QED BY <5>1, <5>2
            <4> QED BY <3>2, <4>1
        <3> DEFINE r == RowOf(A, s, s.k - 1)
                   w == RowOf(A, c, c.k - 1)
        <3>7. r = [subs |-> M, end |-> s.x] /\ w = [subs |-> CM, end |-> s.x + b]
            BY <1>4, <2>2 DEF RowOf, M, CM
        <3>8. rs = Append(s.rows, r) /\ cs = Append(c.rows, w)
            BY <1>4, <2>2
        <3> HIDE DEF r, w, rs, cs
        <3>9. RowMoved(A, b, n, r, w)
            <4>1. w = [subs |-> [h \in 1..A.groups |-> Moved(M[h], b)], end |-> s.x + b]
                BY <3>6, <3>7, Zenon
            <4> QED BY <1>2, <3>4, <3>5, <3>7, <4>1 DEF RowMoved
        <3> QED BY <3>8, <3>9 DEF RowsAlike
    <2> QED BY <2>1, <2>2
<1> HIDE DEF rs, cs
<1> QED BY <1>9, <1>10, <1>12, <1>13, <1>14, <1>15, <1>16 DEF p, d, n

----------------------------------------------------------------------------
(* The turns one by one.                                                    *)

\* What the scan has of its point.
LEMMA AtFacts ==
    ASSUME NEW A, NEW T, NEW b, NEW D, Setting(A, T, b, D), NEW s, NEW c, At(A, T, b, D, s, c)
    PROVE  /\ ScanTyped(A, s) /\ Bounded(A, Len(D), s) /\ Anchored(A, T, b, Len(D), s, c)
           /\ s.k \in Nat /\ s.q \in A.states /\ c.q = s.q /\ c.k \in Nat /\ c.k <= b + s.k
           /\ Passed(A, T, b, Len(D), s.q, c.k, s.k)
           /\ s.g.id \in 0..A.groups /\ s.g.index \in Nat
           /\ s.pc = "window" => Dwelling(A, s.q)
           /\ s.pc = "window" \/ s.k < Len(D) => Alike(A, b, Len(D), s, c)
<1>1. ScanTyped(A, s) /\ Bounded(A, Len(D), s) /\ Anchored(A, T, b, Len(D), s, c)
    BY DEF At
<1>2. s.k \in Nat /\ s.q \in A.states /\ s.g.id \in 0..A.groups /\ s.g.index \in Nat
    BY <1>1 DEF ScanTyped
<1>3. b \in Nat /\ Len(D) \in Nat
    BY SettingFacts
<1>4. /\ c.q = s.q /\ c.k \in Nat /\ c.k <= b + s.k /\ Passed(A, T, b, Len(D), s.q, c.k, s.k)
      /\ s.pc = "window" => Dwelling(A, s.q)
    BY <1>1, <1>2, <1>3 DEF Anchored, Passed
<1>5. ASSUME s.pc = "window" \/ s.k < Len(D)
      PROVE  Alike(A, b, Len(D), s, c)
    <2> SUFFICES ASSUME ~Fresh(s)
                 PROVE  /\ SameRecent(s, c, b) /\ SameMatches(A, s.m, c.m, b)
                        /\ MatchesBounded(A, Len(D), s) /\ (s.a # 0 => s.x <= s.k)
        BY <1>4 DEF Alike
    <2>1. s.q # E!INIT_STATE
        BY DEF Fresh
    <2>2. SameMatches(A, s.m, c.m, b) /\ SameRecent(s, c, b)
        BY <1>1, <1>2, <1>3, <1>5, <2>1 DEF Anchored
    <2> QED BY <1>1, <2>1, <2>2 DEF Bounded
<1> QED BY <1>1, <1>2, <1>4, <1>5

Stays(A, T, b, D, s, t, c) ==
    /\ At(A, T, b, D, t, c) /\ t.rows = s.rows
    /\ MatchesBounded(A, Len(D), s) => MatchesBounded(A, Len(D), t)

Goes(A, T, b, D, s, t, c) ==
    /\ At(A, T, b, D, t, After1(A, T, c))
    /\ RowsAlike(A, b, Len(D), s.rows, t.rows, c.rows, After1(A, T, c).rows)
    /\ MatchesBounded(A, Len(D), t)

\* A window is entered: the scan stays at its point.
LEMMA EnterAt ==
    ASSUME NEW A, NEW T, NEW b, NEW D, Setting(A, T, b, D), NEW s, NEW c, At(A, T, b, D, s, c),
           NEW t, EnterTurn(A, D, s, t)
    PROVE  Stays(A, T, b, D, s, t, c)
<1> DEFINE n == Len(D)
<1>1. /\ s.pc = "switch" /\ s.k < n /\ Dwelling(A, s.q)
      /\ t.pc = "window" /\ t.k = s.k /\ t.q = s.q /\ t.a = s.a /\ t.x = s.x /\ t.m = s.m /\ t.rows = s.rows
      /\ t.g = IF SetKind(A, s.q) THEN Opened(A, s.q, s.k, s.g) ELSE s.g
    BY DEF EnterTurn
<1>2. /\ ScanTyped(A, s) /\ Bounded(A, n, s) /\ Anchored(A, T, b, n, s, c)
      /\ s.k \in Nat /\ s.q \in A.states /\ c.q = s.q /\ c.k \in Nat /\ c.k <= b + s.k
      /\ s.g.id \in 0..A.groups /\ s.g.index \in Nat
    BY AtFacts
<1>3. b \in Nat /\ n \in Nat /\ A.start[s.q] \in 0..A.groups /\ A.groups \in Nat
    BY <1>2, SettingFacts, Automaton
<1> HIDE DEF n
<1>4. t.g \in [id : 0..A.groups, index : Nat] /\ (t.g.id > 0 => t.g = s.g \/ t.g.index = s.k)
    <2>1. s.g \in [id : 0..A.groups, index : Nat]
        BY <1>2 DEF ScanTyped
    <2> QED BY <1>1, <1>2, <1>3, <2>1 DEF Opened
<1>5. ScanTyped(A, t)
    BY <1>1, <1>2, <1>4 DEF ScanTyped
<1>6. s.q # 0
    BY <1>1, <1>2, SettingFacts, Automaton DEF Dwelling
<1>7. MatchesBounded(A, n, s) => MatchesBounded(A, n, t)
    BY <1>1 DEF MatchesBounded
<1>8. Bounded(A, n, t)
    <2>1. t.a # 0 => t.x <= t.k /\ (t.q = 0 => t.x < t.k)
        BY <1>1, <1>2 DEF Bounded
    <2>2. t.g.id > 0 => t.g.index < n /\ t.g.index <= t.k /\ (t.q = 0 => t.g.index < t.k)
        BY <1>1, <1>2, <1>3, <1>4, <1>6 DEF Bounded
    <2> QED BY <1>1, <1>2, <1>7, <2>1, <2>2 DEF Bounded
<1>9. s.q # E!INIT_STATE => SameGroup(t.g, Dwelt(A, c), b)
    <2> SUFFICES ASSUME s.q # E!INIT_STATE PROVE SameGroup(t.g, Dwelt(A, c), b)
        OBVIOUS
    <2>1. CASE ~SetKind(A, s.q) \/ A.start[s.q] = 0
        <3>1. t.g = s.g /\ Dwelt(A, c) = c.g
            BY <1>1, <1>2, <2>1 DEF Dwelt, Opened
        <3> QED BY <1>2, <3>1 DEF Anchored
    <2>2. CASE SetKind(A, s.q) /\ A.start[s.q] # 0
        <3>1. c.k = b + s.k
            BY <1>1, <1>2, <2>2 DEF Anchored
        <3>2. t.g = [id |-> A.start[s.q], index |-> s.k] /\ Dwelt(A, c) = [id |-> A.start[s.q], index |-> c.k]
            BY <1>1, <1>2, <1>3, <2>2 DEF Dwelt, Opened
        <3> QED BY <1>2, <1>3, <3>1, <3>2 DEF SameGroup
    <2> QED BY <2>1, <2>2
<1>10. Anchored(A, T, b, n, t, c)
    <2>1. s.q # E!INIT_STATE => SameMatches(A, t.m, c.m, b) /\ SameRecent(t, c, b)
        BY <1>1, <1>2, <1>3 DEF Anchored, SameRecent
    <2>2. \A e \in c.k..(b + t.k - 1) : Event(A, T, t.q, e) => e >= b /\ b + n < EventEnd(A, t.q, e)
        BY <1>1, <1>2 DEF Anchored
    <2>3. c.k <= b + n
        BY <1>2 DEF Anchored
    <2> QED BY <1>1, <1>2, <1>9, <2>1, <2>2, <2>3 DEF Anchored
<1> QED BY <1>1, <1>5, <1>7, <1>8, <1>10 DEF Stays, At, n

\* A window without an event: the scan stays at its point.
LEMMA LoopAt ==
    ASSUME NEW A, NEW T, NEW b, NEW D, Setting(A, T, b, D), NEW s, NEW c, At(A, T, b, D, s, c),
           NEW t, LoopTurn(A, D, s, t)
    PROVE  Stays(A, T, b, D, s, t, c)
<1> DEFINE n == Len(D)
<1>1. /\ s.pc = "window" /\ t.k \in Nat /\ t.k >= s.k /\ Quiet(A, D, s.q, s.k, t.k)
      /\ t.pc = s.pc /\ t.q = s.q /\ t.a = s.a /\ t.x = s.x /\ t.m = s.m /\ t.rows = s.rows /\ t.g = s.g
    BY DEF LoopTurn
<1>2. /\ ScanTyped(A, s) /\ Bounded(A, n, s) /\ Anchored(A, T, b, n, s, c)
      /\ s.k \in Nat /\ s.q \in A.states /\ c.q = s.q /\ c.k \in Nat /\ c.k <= b + s.k
      /\ Passed(A, T, b, n, s.q, c.k, s.k) /\ Dwelling(A, s.q) /\ s.g.index \in Nat /\ s.x \in Nat
    BY <1>1, AtFacts DEF ScanTyped
<1>3. b \in Nat /\ n \in Nat
    BY SettingFacts
<1>4. Passed(A, T, b, n, s.q, c.k, t.k)
    BY <1>1, <1>2, SettingFacts, PassedOn
<1> HIDE DEF n
<1>5. ScanTyped(A, t)
    BY <1>1, <1>2 DEF ScanTyped
<1>6. s.q # 0
    BY <1>2, SettingFacts, Automaton DEF Dwelling
<1>7. MatchesBounded(A, n, s) => MatchesBounded(A, n, t)
    BY <1>1 DEF MatchesBounded
<1>8. Bounded(A, n, t)
    BY <1>1, <1>2, <1>6, <1>7 DEF Bounded
<1>9. Anchored(A, T, b, n, t, c)
    <2>1. s.q # E!INIT_STATE => /\ SameGroup(t.g, Dwelt(A, c), b)
                                /\ SameMatches(A, t.m, c.m, b) /\ SameRecent(t, c, b)
        BY <1>1, <1>2 DEF Anchored, SameRecent
    <2>2. c.k <= b + n /\ c.k <= b + t.k
        BY <1>1, <1>2, <1>3 DEF Anchored
    <2> QED BY <1>1, <1>2, <1>4, <2>1, <2>2 DEF Anchored, Passed
<1> QED BY <1>1, <1>5, <1>7, <1>8, <1>9 DEF Stays, At, n

\* The loop is left: the scan stays at its point.
LEMMA LeaveAt ==
    ASSUME NEW A, NEW T, NEW b, NEW D, Setting(A, T, b, D), NEW s, NEW c, At(A, T, b, D, s, c),
           NEW t, LeaveTurn(A, D, s, t)
    PROVE  Stays(A, T, b, D, s, t, c)
<1> DEFINE n == Len(D)
<1>1. /\ s.pc = "window" /\ t.k \in Nat /\ t.k >= s.k /\ Quiet(A, D, s.q, s.k, t.k) /\ t.k >= n
      /\ t.pc = "switch" /\ t.q = s.q /\ t.rows = s.rows
      /\ \/ t.a = s.a /\ t.x = s.x
         \/ t.a = s.q /\ t.x = t.k
         \/ Fresh(s) /\ t.a = 0 /\ t.x = 0
      /\ \/ t.g = s.g /\ t.m = s.m
         \/ Fresh(s) /\ t.g \in [id : {0}, index : Nat] /\ t.m = Untouched(A)
    BY DEF LeaveTurn
<1>2. /\ ScanTyped(A, s) /\ Bounded(A, n, s) /\ Anchored(A, T, b, n, s, c)
      /\ s.k \in Nat /\ s.q \in A.states /\ c.q = s.q /\ c.k \in Nat /\ c.k <= b + s.k
      /\ Passed(A, T, b, n, s.q, c.k, s.k) /\ Dwelling(A, s.q) /\ s.g.index \in Nat /\ s.x \in Nat
    BY <1>1, AtFacts DEF ScanTyped
<1>3. b \in Nat /\ n \in Nat /\ A.groups \in Nat /\ 0 \in A.states
    BY SettingFacts
<1>4. Passed(A, T, b, n, s.q, c.k, t.k)
    BY <1>1, <1>2, SettingFacts, PassedOn
<1>5. s.q # 0
    BY <1>2, SettingFacts, Automaton DEF Dwelling
<1> HIDE DEF n
<1>6. /\ t.a \in A.states /\ t.x \in Nat
      /\ t.g \in [id : 0..A.groups, index : Nat]
      /\ t.m \in [1..A.groups -> [start : Nat \cup {-1}, end : Nat \cup {-1}]]
    <2>1. /\ s.a \in A.states /\ s.x \in Nat
          /\ s.g \in [id : 0..A.groups, index : Nat]
          /\ s.m \in [1..A.groups -> [start : Nat \cup {-1}, end : Nat \cup {-1}]]
        BY <1>2 DEF ScanTyped
    <2>2. t.a \in A.states /\ t.x \in Nat
        BY <1>1, <1>2, <1>3, <2>1
    <2>3. t.g \in [id : 0..A.groups, index : Nat]
        <3>1. CASE t.g = s.g
            BY <2>1, <3>1
        <3>2. CASE t.g \in [id : {0}, index : Nat]
            BY <1>3, <3>2
        <3> QED BY <1>1, <3>1, <3>2
    <2>4. t.m \in [1..A.groups -> [start : Nat \cup {-1}, end : Nat \cup {-1}]]
        BY <1>1, <2>1, Untaken
    <2> QED BY <2>2, <2>3, <2>4
<1>7. ScanTyped(A, t)
    BY <1>1, <1>2, <1>6 DEF ScanTyped
<1>8. MatchesBounded(A, n, s) => MatchesBounded(A, n, t)
    <2>1. CASE t.m = s.m
        BY <2>1 DEF MatchesBounded
    <2>2. CASE t.m = Untouched(A)
        BY <2>2 DEF MatchesBounded, Untouched
    <2> QED BY <1>1, <2>1, <2>2
<1>9. t.q # E!INIT_STATE => t.g = s.g /\ t.m = s.m /\ ((t.a = s.a /\ t.x = s.x) \/ t.a = s.q)
    BY <1>1 DEF Fresh
<1>10. Bounded(A, n, t)
    <2>1. t.a # 0 => t.x <= t.k
        BY <1>1, <1>2 DEF Bounded
    <2>2. t.g.id > 0 => t.g = s.g
        <3>1. CASE t.g \in [id : {0}, index : Nat]
            BY <3>1
        <3> QED BY <1>1, <3>1
    <2>3. t.g.id > 0 => t.g.index < n /\ t.g.index <= t.k
        BY <1>1, <1>2, <2>2 DEF Bounded
    <2> QED BY <1>1, <1>2, <1>5, <1>8, <1>9, <2>1, <2>3 DEF Bounded
<1>11. Anchored(A, T, b, n, t, c)
    <2>1. t.q # E!INIT_STATE =>
            /\ SameGroup(t.g, Dwelt(A, c), b) /\ SameMatches(A, t.m, c.m, b)
            /\ SameRecent(t, c, b) \/ (t.a # 0 /\ Dwelling(A, t.q))
        <3> SUFFICES ASSUME t.q # E!INIT_STATE
                     PROVE  /\ SameGroup(t.g, Dwelt(A, c), b) /\ SameMatches(A, t.m, c.m, b)
                            /\ SameRecent(t, c, b) \/ (t.a # 0 /\ Dwelling(A, t.q))
            OBVIOUS
        <3>1. SameGroup(s.g, Dwelt(A, c), b) /\ SameMatches(A, s.m, c.m, b) /\ SameRecent(s, c, b)
            BY <1>1, <1>2 DEF Anchored
        <3> QED BY <1>1, <1>2, <1>5, <1>9, <3>1 DEF SameRecent
    <2>2. c.k <= b + n /\ c.k <= b + t.k
        BY <1>1, <1>2, <1>3 DEF Anchored
    <2>3. t.pc # "done" /\ ~(t.k < n)
        BY <1>1, <1>3
    <2>4. \A e \in c.k..(b + t.k - 1) : Event(A, T, t.q, e) => e >= b /\ b + n < EventEnd(A, t.q, e)
        BY <1>1, <1>4 DEF Passed
    <2>5. t.pc # "window" /\ t.k >= n /\ t.q = s.q
        BY <1>1
    <2> QED BY <1>2, <2>1, <2>2, <2>3, <2>4, <2>5 DEF Anchored
<1> QED BY <1>1, <1>7, <1>8, <1>10, <1>11 DEF Stays, At, n

\* The data ends: the scan stays at its point.
LEMMA EndAt ==
    ASSUME NEW A, NEW T, NEW b, NEW D, Setting(A, T, b, D), NEW s, NEW c, At(A, T, b, D, s, c),
           NEW t, EndTurn(A, D, s, t)
    PROVE  Stays(A, T, b, D, s, t, c)
<1> DEFINE n == Len(D)
<1>1. /\ s.pc = "switch" /\ s.k >= n
      /\ t.pc = "done" /\ t.k = s.k /\ t.q = s.q /\ t.a = s.a /\ t.x = s.x /\ t.m = s.m /\ t.rows = s.rows
      /\ t.g = s.g
    BY DEF EndTurn
<1>2. ScanTyped(A, s) /\ Bounded(A, n, s) /\ Anchored(A, T, b, n, s, c)
    BY AtFacts
<1> HIDE DEF n
<1>3. ScanTyped(A, t)
    BY <1>1, <1>2 DEF ScanTyped
<1>4. MatchesBounded(A, n, s) => MatchesBounded(A, n, t)
    BY <1>1 DEF MatchesBounded
<1>5. Bounded(A, n, t)
    BY <1>1, <1>2, <1>4 DEF Bounded
<1>6. Anchored(A, T, b, n, t, c)
    <2>1. SameRecent(s, c, b) => SameRecent(t, c, b)
        BY <1>1 DEF SameRecent
    <2> QED BY <1>1, <1>2, <2>1 DEF Anchored
<1> QED BY <1>1, <1>3, <1>4, <1>5, <1>6 DEF Stays, At, n

\* A needle is found: the scan goes to the next point.
LEMMA OrderedAt ==
    ASSUME NEW A, NEW T, NEW b, NEW D, Setting(A, T, b, D), NEW s, NEW c, At(A, T, b, D, s, c),
           NEW t, OrderedTurn(A, D, s, t)
    PROVE  Goes(A, T, b, D, s, t, c)
<1> DEFINE n == Len(D)
<1>1. /\ s.pc = "window" /\ A.kind[s.q] = "ORDERED"
      /\ \E e \in Nat : /\ s.k <= e /\ Event(A, D, s.q, e) /\ Quiet(A, D, s.q, s.k, e)
                        /\ Arrives(A, t, AfterOrdered(A, D, s, e))
    BY DEF OrderedTurn
<1>2. PICK e \in Nat : /\ s.k <= e /\ Event(A, D, s.q, e) /\ Quiet(A, D, s.q, s.k, e)
                       /\ Arrives(A, t, AfterOrdered(A, D, s, e))
    BY <1>1
<1>3. /\ ScanTyped(A, s) /\ Bounded(A, n, s) /\ Anchored(A, T, b, n, s, c)
      /\ s.k \in Nat /\ s.q \in A.states /\ c.q = s.q /\ c.k \in Nat /\ c.k <= b + s.k
      /\ Passed(A, T, b, n, s.q, c.k, s.k) /\ s.g.index \in Nat
      /\ Alike(A, b, n, s, c)
    BY <1>1, AtFacts
<1>4. E!IsAutomaton(A) /\ PieceAt(T, b, D) /\ b \in Nat /\ n \in Nat
    BY SettingFacts
<1> DEFINE p == AfterOrdered(A, D, s, e)
           d == AfterOrdered(A, T, c, b + e)
<1>5. After1(A, T, c) = d
    <2>1. After1(A, T, c) = After(A, T, c, b + e)
        BY <1>2, <1>3, <1>4, NextOfPiece
    <2>2. After(A, T, c, b + e) = d
        BY <1>1, <1>3 DEF After, SetKind
    <2> QED BY <2>1, <2>2
<1>6. ~Fresh(s) => /\ SameGroup(s.g, c.g, b)
                   /\ (s.g.id > 0 => s.g.index < n /\ s.g.index <= s.k)
    <2>1. ~Fresh(s) => SameGroup(s.g, Dwelt(A, c), b)
        BY <1>1, <1>3 DEF Anchored, Fresh
    <2>2. Dwelt(A, c) = c.g
        BY <1>1, <1>3 DEF Dwelt, SetKind
    <2> QED BY <1>3, <2>1, <2>2 DEF Bounded
<1>7. e + Len(A.str[s.q]) <= n /\ Len(A.str[s.q]) >= 1
    BY <1>1, <1>2, <1>3, <1>4, Automaton DEF Event
<1>8. /\ PointTyped(A, n, p) /\ Bounded(A, n, p) /\ MatchesBounded(A, n, p)
      /\ Met(A, b, p, d) /\ p.rows = s.rows /\ d.rows = c.rows
    BY <1>2, <1>3, <1>6, <1>7, AfterOrderedMet
<1>9. Arrives(A, t, p)
    BY <1>2
<1> HIDE DEF p, d
<1>10. At(A, T, b, D, t, d) /\ MatchesBounded(A, n, t)
    BY <1>8, <1>9, LandedAt
<1>11. t.rows = s.rows
    BY <1>8, <1>9 DEF Arrives
<1> QED BY <1>5, <1>8, <1>10, <1>11 DEF Goes, RowsAlike

\* A byte of the set is found: the scan goes to the next point.
LEMMA SetAt ==
    ASSUME NEW A, NEW T, NEW b, NEW D, Setting(A, T, b, D), NEW s, NEW c, At(A, T, b, D, s, c),
           NEW t, SetTurn(A, D, s, t)
    PROVE  Goes(A, T, b, D, s, t, c)
<1> DEFINE n == Len(D)
           g == IF Fresh(s) THEN Closed ELSE s.g
           h == IF Fresh(c) THEN Closed ELSE Opened(A, c.q, c.k, c.g)
<1>1. /\ s.pc = "window" /\ SetKind(A, s.q)
      /\ \E e \in Nat : /\ s.k <= e /\ Event(A, D, s.q, e) /\ Quiet(A, D, s.q, s.k, e)
                        /\ Arrives(A, t, AfterByte(A, D, s, e, g))
    BY DEF SetTurn
<1>2. PICK e \in Nat : /\ s.k <= e /\ Event(A, D, s.q, e) /\ Quiet(A, D, s.q, s.k, e)
                       /\ Arrives(A, t, AfterByte(A, D, s, e, g))
    BY <1>1
<1>3. /\ ScanTyped(A, s) /\ Bounded(A, n, s) /\ Anchored(A, T, b, n, s, c)
      /\ s.k \in Nat /\ s.q \in A.states /\ c.q = s.q /\ c.k \in Nat /\ c.k <= b + s.k
      /\ Passed(A, T, b, n, s.q, c.k, s.k) /\ s.g.index \in Nat /\ s.g.id \in 0..A.groups
      /\ Alike(A, b, n, s, c)
    BY <1>1, AtFacts
<1>4. E!IsAutomaton(A) /\ PieceAt(T, b, D) /\ b \in Nat /\ n \in Nat /\ A.groups \in Nat
    BY SettingFacts
<1> DEFINE p == AfterByte(A, D, s, e, g)
           d == AfterByte(A, T, c, b + e, h)
<1>5. After1(A, T, c) = d
    <2>1. After1(A, T, c) = After(A, T, c, b + e)
        BY <1>2, <1>3, <1>4, NextOfPiece
    <2>2. After(A, T, c, b + e) = d
        BY <1>1, <1>3 DEF After, SetKind
    <2> QED BY <2>1, <2>2
<1>6. /\ g.id \in 0..A.groups /\ g.index \in Nat /\ (g.id > 0 => g.index <= e) /\ SameGroup(g, h, b)
    <2>0. Fresh(s) <=> Fresh(c)
        BY <1>3 DEF Fresh
    <2>1. CASE Fresh(s)
        BY <1>4, <2>0, <2>1 DEF Closed, SameGroup
    <2>2. CASE ~Fresh(s)
        <3>1. SameGroup(s.g, Dwelt(A, c), b)
            BY <1>1, <1>3, <2>2 DEF Anchored, Fresh
        <3>2. Dwelt(A, c) = h
            BY <1>1, <1>3, <2>0, <2>2 DEF Dwelt
        <3>3. s.g.id > 0 => s.g.index <= e
            BY <1>2, <1>3 DEF Bounded
        <3> QED BY <1>3, <2>2, <3>1, <3>2, <3>3
    <2> QED BY <2>1, <2>2
<1>7. e < n
    BY <1>2 DEF Event
<1>8. Arrives(A, t, p)
    BY <1>2
<1> HIDE DEF g, h
<1>9. /\ PointTyped(A, n, p) /\ Bounded(A, n, p) /\ MatchesBounded(A, n, p)
      /\ Met(A, b, p, d) /\ p.rows = s.rows /\ d.rows = c.rows
    BY <1>2, <1>3, <1>6, <1>7, AfterByteMet
<1> HIDE DEF p, d
<1>10. At(A, T, b, D, t, d) /\ MatchesBounded(A, n, t)
    BY <1>8, <1>9, LandedAt
<1>11. t.rows = s.rows
    BY <1>8, <1>9 DEF Arrives
<1> QED BY <1>5, <1>9, <1>10, <1>11 DEF Goes, RowsAlike

\* A byte is read: the scan goes to the next point.
LEMMA ByteAt ==
    ASSUME NEW A, NEW T, NEW b, NEW D, Setting(A, T, b, D), NEW s, NEW c, At(A, T, b, D, s, c),
           NEW t, ByteTurn(A, D, s, t)
    PROVE  Goes(A, T, b, D, s, t, c)
<1> DEFINE n == Len(D)
           g0 == IF Fresh(s) THEN Closed ELSE s.g
           h0 == IF Fresh(c) THEN Closed ELSE c.g
           g == Opened(A, s.q, s.k, g0)
           h == Opened(A, c.q, c.k, h0)
           p == AfterByte(A, D, s, s.k, g)
           d == AfterByte(A, T, c, b + s.k, h)
<1>1. /\ s.pc = "switch" /\ s.k < n /\ A.kind[s.q] = "C" /\ Arrives(A, t, p)
    BY DEF ByteTurn
<1>2. /\ ScanTyped(A, s) /\ Bounded(A, n, s) /\ Anchored(A, T, b, n, s, c)
      /\ s.k \in Nat /\ s.q \in A.states /\ c.q = s.q /\ c.k \in Nat /\ c.k <= b + s.k
      /\ Passed(A, T, b, n, s.q, c.k, s.k) /\ s.g.index \in Nat /\ s.g.id \in 0..A.groups
      /\ Alike(A, b, n, s, c)
    BY <1>1, AtFacts
<1>3. E!IsAutomaton(A) /\ PieceAt(T, b, D) /\ b \in Nat /\ n \in Nat /\ A.groups \in Nat
    BY SettingFacts
<1>4. c.k = b + s.k /\ (s.q # E!INIT_STATE => SameGroup(s.g, c.g, b))
    BY <1>1, <1>2 DEF Anchored, Dwelling
<1>5. After1(A, T, c) = d
    <2>1. Event(A, D, s.q, s.k) /\ Quiet(A, D, s.q, s.k, s.k)
        BY <1>1, <1>2 DEF Event, SetKind, Quiet
    <2>2. After1(A, T, c) = After(A, T, c, b + s.k)
        BY <1>2, <1>3, <2>1, NextOfPiece
    <2>3. After(A, T, c, b + s.k) = d
        BY <1>1, <1>2 DEF After, SetKind
    <2> QED BY <2>2, <2>3
<1>6. /\ g0.id \in 0..A.groups /\ g0.index \in Nat /\ (g0.id > 0 => g0.index <= s.k)
      /\ SameGroup(g0, h0, b)
    <2>0. Fresh(s) <=> Fresh(c)
        BY <1>2 DEF Fresh
    <2>1. CASE Fresh(s)
        BY <1>3, <2>0, <2>1 DEF Closed, SameGroup
    <2>2. CASE ~Fresh(s)
        <3>1. SameGroup(s.g, c.g, b)
            BY <1>4, <2>2 DEF Fresh
        <3>2. s.g.id > 0 => s.g.index <= s.k
            BY <1>2 DEF Bounded
        <3> QED BY <1>2, <2>0, <2>2, <3>1, <3>2
    <2> QED BY <2>1, <2>2
<1> HIDE DEF g0, h0, n
<1>7. /\ g.id \in 0..A.groups /\ g.index \in Nat /\ (g.id > 0 => g.index <= s.k) /\ SameGroup(g, h, b)
    <2>0. A.start[s.q] \in 0..A.groups
        BY <1>2, <1>3, Automaton
    <2>1. CASE A.start[s.q] = 0
        <3>1. g = g0 /\ h = h0
            BY <1>2, <2>1 DEF Opened
        <3> HIDE DEF g, h
        <3> QED BY <1>6, <3>1
    <2>2. CASE A.start[s.q] # 0
        <3>1. g = [id |-> A.start[s.q], index |-> s.k] /\ h = [id |-> A.start[s.q], index |-> c.k]
            BY <1>2, <1>3, <2>0, <2>2 DEF Opened
        <3> HIDE DEF g, h
        <3>2. g.id = A.start[s.q] /\ h.id = A.start[s.q] /\ g.index = s.k /\ h.index = c.k
            BY <3>1
        <3> QED BY <1>2, <1>3, <1>4, <2>0, <3>2 DEF SameGroup
    <2> QED BY <2>1, <2>2
<1> HIDE DEF g, h
<1>8. /\ PointTyped(A, n, p) /\ Bounded(A, n, p) /\ MatchesBounded(A, n, p)
      /\ Met(A, b, p, d) /\ p.rows = s.rows /\ d.rows = c.rows
    <2>1. s.k < Len(D) /\ s.k <= s.k
        BY <1>1, <1>2 DEF n
    <2>2. Alike(A, b, Len(D), s, c)
        BY <1>2 DEF n
    <2> QED BY <1>2, <1>7, <2>1, <2>2, AfterByteMet DEF n
<1>9. Arrives(A, t, p)
    BY <1>1
<1> HIDE DEF p, d
<1>10. At(A, T, b, D, t, d) /\ MatchesBounded(A, n, t)
    BY <1>8, <1>9, LandedAt DEF n
<1>11. t.rows = s.rows
    BY <1>8, <1>9 DEF Arrives
<1> QED BY <1>5, <1>8, <1>10, <1>11 DEF Goes, RowsAlike, n

\* The dead state: the scan goes to the next point, which may have one more row.
LEMMA DeadAt ==
    ASSUME NEW A, NEW T, NEW b, NEW D, Setting(A, T, b, D), NEW s, NEW c, At(A, T, b, D, s, c),
           NEW t, DeadTurn(A, D, s, t)
    PROVE  Goes(A, T, b, D, s, t, c)
<1> DEFINE n == Len(D)
           p == AfterDead(A, s)
           d == AfterDead(A, c)
<1>1. s.pc = "switch" /\ s.k < n /\ A.kind[s.q] = "INV" /\ Arrives(A, t, p)
    BY DEF DeadTurn
<1>2. /\ ScanTyped(A, s) /\ Bounded(A, n, s) /\ Anchored(A, T, b, n, s, c)
      /\ s.k \in Nat /\ s.q \in A.states /\ c.q = s.q /\ c.k \in Nat /\ c.k <= b + s.k
      /\ Passed(A, T, b, n, s.q, c.k, s.k) /\ Alike(A, b, n, s, c)
    BY <1>1, AtFacts
<1>3. E!IsAutomaton(A) /\ PieceAt(T, b, D) /\ b \in Nat /\ n \in Nat /\ E!INIT_STATE = 1
    BY SettingFacts
<1>4. s.q = 0 /\ c.q = 0 /\ s.q # E!INIT_STATE
    BY <1>1, <1>2, <1>3, Automaton
<1>5. c.k = b + s.k /\ SameGroup(s.g, c.g, b)
    BY <1>1, <1>2, <1>4 DEF Anchored, Dwelling
<1>6. SameRecent(s, c, b) /\ SameMatches(A, s.m, c.m, b)
    BY <1>2, <1>4 DEF Alike, Fresh
<1>7. After1(A, T, c) = d
    <2>1. Event(A, D, s.q, s.k) /\ Quiet(A, D, s.q, s.k, s.k)
        BY <1>1, <1>2 DEF Event, SetKind, Quiet
    <2>2. After1(A, T, c) = After(A, T, c, b + s.k)
        BY <1>2, <1>3, <2>1, NextOfPiece
    <2>3. After(A, T, c, b + s.k) = d
        BY <1>1, <1>2 DEF After, SetKind
    <2> QED BY <2>2, <2>3
<1>8. /\ PointTyped(A, n, p) /\ Bounded(A, n, p) /\ MatchesBounded(A, n, p)
      /\ Met(A, b, p, d) /\ RowsAlike(A, b, n, s.rows, p.rows, c.rows, d.rows)
    BY <1>1, <1>2, <1>4, <1>5, <1>6, AfterDeadMet
<1>9. Arrives(A, t, p)
    BY <1>1
<1> HIDE DEF p, d
<1>10. At(A, T, b, D, t, d) /\ MatchesBounded(A, n, t)
    BY <1>8, <1>9, LandedAt
<1>11. t.rows = p.rows
    BY <1>9 DEF Arrives
<1> QED BY <1>7, <1>8, <1>10, <1>11 DEF Goes

\* A turn stays at the point, or goes to the next.
LEMMA TurnAt ==
    ASSUME NEW A, NEW T, NEW b, NEW D, Setting(A, T, b, D), NEW s, NEW c, At(A, T, b, D, s, c),
           NEW t, Turn(A, D, s, t)
    PROVE  Stays(A, T, b, D, s, t, c) \/ Goes(A, T, b, D, s, t, c)
<1>1. CASE EnterTurn(A, D, s, t)
    BY <1>1, EnterAt
<1>2. CASE LoopTurn(A, D, s, t)
    BY <1>2, LoopAt
<1>3. CASE LeaveTurn(A, D, s, t)
    BY <1>3, LeaveAt
<1>4. CASE OrderedTurn(A, D, s, t)
    BY <1>4, OrderedAt
<1>5. CASE SetTurn(A, D, s, t)
    BY <1>5, SetAt
<1>6. CASE ByteTurn(A, D, s, t)
    BY <1>6, ByteAt
<1>7. CASE DeadTurn(A, D, s, t)
    BY <1>7, DeadAt
<1>8. CASE EndTurn(A, D, s, t)
    BY <1>8, EndAt
<1> QED BY <1>1, <1>2, <1>3, <1>4, <1>5, <1>6, <1>7, <1>8 DEF Turn

----------------------------------------------------------------------------
(* A row that is stored is the row Spark is to see.                         *)

\* A text of l bytes, and its first n bytes, as they are copied from byte from of D.
CopiedText(D, from, l, n, text) ==
    /\ Len(text) = l /\ text = R!Copy(D, from, l)
    /\ SubSeq(text, 1, n) = R!Copy(D, from, n)
    /\ SubSeq(R!Copy(D, from, n), 1, n) = R!Copy(D, from, n)

\* The text of a piece is the text of the file, or the beginning of it.
LEMMA TextOfPiece ==
    ASSUME NEW T, NEW b, NEW D, PieceAt(T, b, D),
           NEW from \in Nat, NEW to \in Nat, from <= to, to <= Len(D), NEW n \in 0..to - from,
           NEW text, text = SubSeq(T, (from + b) + 1, to + b)
    PROVE  CopiedText(D, from, to - from, n, text)
<1> DEFINE l == to - from
<1>1. /\ b \in Nat /\ Len(D) \in Nat /\ Len(T) \in Nat /\ b + Len(D) <= Len(T) /\ T \in Seq(Chars)
      /\ D \in Seq(Chars) /\ \A k \in 1..Len(D) : D[k] = T[b + k] /\ D[k] \in Chars
    BY DEF PieceAt
<1>2. l \in Nat /\ n \in Nat /\ n <= l
    OBVIOUS
<1>3. ASSUME NEW j \in Nat, j <= l
      PROVE  /\ R!Copy(D, from, j) \in Seq(Chars) /\ Len(R!Copy(D, from, j)) = j
             /\ \A t \in 1..j : R!Copy(D, from, j)[t] = D[from + t]
    <2> DEFINE f == [t \in 1..j |-> IF from + t <= Len(D) THEN D[from + t] ELSE 0]
    <2>1. \A t \in 1..j : from + t <= Len(D) /\ from + t \in 1..Len(D)
        BY <1>1, <1>3
    <2>2. f \in [1..j -> Chars] /\ \A t \in 1..j : f[t] = D[from + t]
        BY <1>1, <2>1
    <2>3. R!Copy(D, from, j) = f
        BY DEF R!Copy
    <2> HIDE DEF f
    <2> QED BY <1>3, <2>2, <2>3
<1>4. /\ text \in Seq(Chars) /\ Len(text) = l
      /\ \A t \in 1..l : text[t] = D[from + t]
    <2> DEFINE u == (from + b) + 1
               v == to + b
    <2>1. u \in Int /\ v \in Int /\ (v - u) + 1 = l /\ u <= v + 1
        BY <1>1
    <2>2. \A k \in u..v : T[k] \in Chars
        <3>1. \A k \in u..v : k \in 1..Len(T)
            BY <1>1
        <3> QED BY <1>1, <3>1
    <2> HIDE DEF u, v, l
    <2>3. /\ SubSeq(T, u, v) \in Seq(Chars)
          /\ Len(SubSeq(T, u, v)) = IF u <= v THEN v - u + 1 ELSE 0
          /\ \A t \in 1..v - u + 1 : SubSeq(T, u, v)[t] = T[u + t - 1]
        BY <2>1, <2>2, SubSeqProperties
    <2>4. Len(SubSeq(T, u, v)) = l
        BY <1>2, <2>1, <2>3
    <2>5. ASSUME NEW t \in 1..l
          PROVE  T[u + t - 1] = D[from + t]
        <3>1. from + t \in 1..Len(D) /\ b + (from + t) = u + t - 1
            BY <1>1, <1>2 DEF u, l
        <3> QED BY <1>1, <3>1
    <2>6. \A t \in 1..l : t \in 1..v - u + 1
        BY <2>1
    <2> QED BY <2>3, <2>4, <2>5, <2>6 DEF u, v
<1> HIDE DEF l
<1>5. text = R!Copy(D, from, l)
    <2>1. /\ R!Copy(D, from, l) \in Seq(Chars) /\ Len(R!Copy(D, from, l)) = l
          /\ \A t \in 1..l : R!Copy(D, from, l)[t] = D[from + t]
        BY <1>2, <1>3
    <2>2. PICK u : u = R!Copy(D, from, l)
        OBVIOUS
    <2>3. u \in Seq(Chars) /\ Len(u) = Len(text) /\ \A t \in 1..Len(text) : text[t] = u[t]
        BY <1>4, <2>1, <2>2
    <2>4. text = u
        BY <1>4, <2>3, SeqEqual
    <2> QED BY <2>2, <2>4
<1>6. ASSUME NEW s \in Seq(Chars), n <= Len(s), \A t \in 1..n : s[t] = D[from + t]
      PROVE  SubSeq(s, 1, n) = R!Copy(D, from, n)
    <2>1. 1 \in Int /\ n \in Int /\ \A k \in 1..n : s[k] \in Chars
        BY <1>2, <1>6
    <2>2. /\ SubSeq(s, 1, n) \in Seq(Chars)
          /\ Len(SubSeq(s, 1, n)) = IF 1 <= n THEN n - 1 + 1 ELSE 0
          /\ \A t \in 1..n - 1 + 1 : SubSeq(s, 1, n)[t] = s[1 + t - 1]
        BY <2>1, SubSeqProperties
    <2>3. Len(SubSeq(s, 1, n)) = n /\ \A t \in 1..n : SubSeq(s, 1, n)[t] = D[from + t]
        <3>1. \A t \in 1..n : t \in 1..n - 1 + 1 /\ 1 + t - 1 = t
            BY <1>2
        <3> QED BY <1>2, <1>6, <2>2, <3>1
    <2> QED BY <1>2, <1>3, <2>2, <2>3, SeqEqual
<1>7. SubSeq(text, 1, n) = R!Copy(D, from, n)
    <2>1. \A t \in 1..n : t \in 1..l
        BY <1>2
    <2>2. n <= Len(text) /\ \A t \in 1..n : text[t] = D[from + t]
        BY <1>2, <1>4, <2>1
    <2> QED BY <1>4, <1>6, <2>2
<1>8. SubSeq(R!Copy(D, from, n), 1, n) = R!Copy(D, from, n)
    BY <1>2, <1>3, <1>6
<1> QED BY <1>4, <1>5, <1>7, <1>8 DEF l, CopiedText

\* Where all groups took part, each column has its word, and each text its room.
LEMMA PlacesApart ==
    ASSUME NEW types \in Seq(Types3)
    PROVE  LET all == 1..Len(types)
           IN  /\ \A g \in all : R!WordOffset(all, g) = 8 * g
               /\ \A g \in all, h \in all :
                    types[g] = "TEXT" /\ types[h] = "TEXT"
                    /\ R!VarOffset(types, R!TextsBefore(types, all, g) + 1) =
                            R!VarOffset(types, R!TextsBefore(types, all, h) + 1)
                        => g = h
<1> DEFINE n == Len(types)
           all == 1..n
<1>1. n \in Nat
    OBVIOUS
<1> HIDE DEF n
<1>2. ASSUME NEW g \in all
      PROVE  R!WordOffset(all, g) = 8 * g
    <2>1. {h \in all : h < g} = 1..g - 1
        BY <1>1
    <2>2. Cardinality(1..g - 1) = g - 1
        BY FS_Interval
    <2>3. R!Before(all, g) = g - 1
        BY <2>1, <2>2, SameCardinality DEF R!Before
    <2> QED BY <2>3 DEF R!WordOffset
<1> DEFINE texts == {h \in all : types[h] = "TEXT"}
           B(g) == {h \in texts : h < g}
           k(g) == R!TextsBefore(types, all, g)
<1>3. ASSUME NEW g \in texts
      PROVE  k(g) = Cardinality(B(g)) /\ k(g) \in Nat /\ IsFiniteSet(B(g))
    <2>1. B(g) \in SUBSET all /\ IsFiniteSet(all)
        <3>1. IsFiniteSet(1..n)
            BY <1>1, FS_Interval
        <3>2. B(g) \in SUBSET all
            OBVIOUS
        <3> QED BY <3>1, <3>2
    <2>2. k(g) = Cardinality(B(g))
        BY SameCardinality DEF R!TextsBefore, R!Before
    <2> HIDE DEF B, all, k
    <2> QED BY <2>1, <2>2, FS_Subset, FS_CardinalityType
<1>4. ASSUME NEW g \in texts, NEW h \in texts, g < h
      PROVE  k(g) + 1 <= k(h)
    <2>1. B(g) \cup {g} \in SUBSET B(h) /\ g \notin B(g)
        BY <1>1, <1>4
    <2> HIDE DEF B, k, texts
    <2>2. Cardinality(B(g) \cup {g}) = Cardinality(B(g)) + 1
        BY <1>3, <2>1, FS_AddElement
    <2>3. Cardinality(B(g) \cup {g}) <= Cardinality(B(h))
        BY <1>3, <2>1, FS_Subset
    <2> QED BY <1>3, <2>2, <2>3
<1>5. ASSUME NEW g \in texts, NEW h \in texts, R!VarOffset(types, k(g) + 1) = R!VarOffset(types, k(h) + 1)
      PROVE  g = h
    <2> DEFINE a == k(g)
               c == k(h)
    <2>1. a \in Nat /\ c \in Nat /\ StringSize \in Nat /\ StringSize > 0
        <3>1. k(g) \in Nat /\ k(h) \in Nat
            BY <1>3
        <3> QED BY <3>1, SparkAssumption
    <2>2. g < h => a + 1 <= c
        BY <1>4
    <2>3. h < g => c + 1 <= a
        BY <1>4
    <2>4. 8 + 8 * n + ((a + 1) - 1) * StringSize = 8 + 8 * n + ((c + 1) - 1) * StringSize
        BY <1>5 DEF R!VarOffset, n
    <2> HIDE DEF a, c
    <2>5. (a + 1) - 1 = a /\ (c + 1) - 1 = c
        BY <2>1
    <2>6. a * StringSize = c * StringSize
        <3> DEFINE u == a * StringSize
                   v == c * StringSize
        <3>1. u \in Nat /\ v \in Nat
            BY <2>1
        <3>2. 8 + 8 * n + u = 8 + 8 * n + v
            BY <2>4, <2>5
        <3> HIDE DEF u, v
        <3>3. u = v
            BY <1>1, <3>1, <3>2
        <3> QED BY <3>3 DEF u, v
    <2>7. ASSUME NEW x \in Nat, NEW y \in Nat, x + 1 <= y, x * StringSize = y * StringSize
          PROVE  FALSE
        <3>1. PICK m \in Nat : y = x + 1 + m
            BY <2>7
        <3>2. y * StringSize = x * StringSize + StringSize + m * StringSize /\ m * StringSize \in Nat
              /\ x * StringSize \in Nat
            BY <2>1, <3>1
        <3> QED BY <2>1, <2>7, <3>2
    <2>8. ~(g < h) /\ ~(h < g)
        BY <2>1, <2>2, <2>3, <2>6, <2>7
    <2> QED BY <1>1, <2>8
<1> HIDE DEF k
<1>6. \A g \in all, h \in all :
        types[g] = "TEXT" /\ types[h] = "TEXT" /\ R!VarOffset(types, k(g) + 1) = R!VarOffset(types, k(h) + 1)
            => g = h
    BY <1>5
<1> QED BY <1>2, <1>6 DEF k, n

\* A group s that was found in a piece of n bytes, and v in the whole file.
GroupAlike(b, n, s, v) ==
    /\ R!Took(s) <=> R!Took(v)
    /\ R!Took(s) => /\ s.start \in Nat /\ s.end \in Nat /\ s.start <= s.end /\ s.end < n
                    /\ v.start = s.start + b /\ v.end = s.end + b

\* The group of a row, as it was found and in the whole file.
LEMMA GroupMoved ==
    ASSUME NEW b \in Nat, NEW n \in Nat, NEW s \in [start : Nat \cup {-1}, end : Nat \cup {-1}],
           s # [start |-> -1, end |-> -1] => 0 <= s.start /\ s.start <= s.end /\ s.end < n,
           NEW v, v = Moved(s, b)
    PROVE  GroupAlike(b, n, s, v)
<1>1. CASE s = [start |-> -1, end |-> -1]
    <2>1. s.start = -1 /\ s.end = -1
        BY <1>1
    <2>2. Moved(s, b) = [start |-> -1, end |-> -1]
        BY <2>1 DEF Moved
    <2>3. v.start = -1
        BY <2>2
    <2> QED BY <2>1, <2>3 DEF R!Took, GroupAlike
<1>2. CASE s # [start |-> -1, end |-> -1]
    <2>1. s.start \in Nat /\ s.end \in Nat /\ s.start <= s.end /\ s.end < n
        BY <1>2
    <2>2. Moved(s, b) = [start |-> s.start + b, end |-> s.end + b]
        BY <2>1 DEF Moved
    <2>3. v.start = s.start + b /\ v.end = s.end + b
        BY <2>2
    <2> QED BY <2>1, <2>3 DEF R!Took, GroupAlike
<1> QED BY <1>1, <1>2

\* What is stored in a column, and read again.
LEMMA ColumnShown ==
    ASSUME NEW types \in Seq(Types3), NEW subs \in [1..Len(types) -> [start : Int, end : Int]], NEW D,
           \A g \in 1..Len(types) : R!Took(subs[g]), NEW h \in 1..Len(types)
    PROVE  LET seen == R!ReadColumn(types, R!StoreToDataFrame(types, subs, D), h)
               size == R!TextSize(subs[h])
           IN  IF types[h] = "TEXT"
               THEN seen = SubSeq(R!Copy(D, subs[h].start, size), 1, size)
               ELSE seen = R!Number(types[h], R!Copy(D, subs[h].start, subs[h].end - subs[h].start))
<1> DEFINE all == R!Taken(subs)
           texts == {g \in all : types[g] = "TEXT"}
           word(g) == R!WordOffset(all, g)
           at(g) == R!VarOffset(types, R!TextsBefore(types, all, g) + 1)
           Word(g) == IF g \in texts
                      THEN [size |-> R!TextSize(subs[g]), offset |-> at(g), number |-> <<>>]
                      ELSE [size |-> 0, offset |-> 0,
                            number |-> R!Number(types[g],
                                           R!Copy(D, subs[g].start, subs[g].end - subs[g].start))]
           Text(g) == R!Copy(D, subs[g].start, R!TextSize(subs[g]))
           words == [o \in {word(g) : g \in all} |-> Word(CHOOSE g \in all : word(g) = o)]
           kept  == [o \in {at(g) : g \in texts} |-> Text(CHOOSE g \in texts : at(g) = o)]
           row == R!StoreToDataFrame(types, subs, D)
<1>1. all = 1..Len(types)
    <2>1. Len(subs) = Len(types)
        OBVIOUS
    <2> QED BY <2>1 DEF R!Taken
<1>2. row = [words |-> words, texts |-> kept]
    BY Zenon DEF R!StoreToDataFrame
<1> HIDE DEF all
<1>3. \A g \in all : word(g) = 8 * g
    BY <1>1, PlacesApart
<1>4. \A g \in texts, k \in texts : at(g) = at(k) => g = k
    BY <1>1, PlacesApart
<1> HIDE DEF word, at, Word, Text
<1>5. words[8 * h] = Word(h)
    <2>1. h \in all /\ word(h) = 8 * h
        BY <1>1, <1>3
    <2> DEFINE k == CHOOSE g \in all : word(g) = 8 * h
    <2>2. k \in all /\ word(k) = 8 * h
        BY <2>1
    <2> HIDE DEF k
    <2>3. k = h
        <3>1. 8 * k = 8 * h /\ k \in 1..Len(types)
            BY <1>1, <1>3, <2>2
        <3> QED BY <3>1
    <2>4. 8 * h \in {word(g) : g \in all}
        BY <2>1
    <2>5. words[8 * h] = Word(CHOOSE g \in all : word(g) = 8 * h)
        BY <2>4
    <2> QED BY <2>3, <2>5 DEF k
<1>6. ASSUME h \in texts
      PROVE  kept[at(h)] = Text(h)
    <2> DEFINE k == CHOOSE g \in texts : at(g) = at(h)
    <2>1. k \in texts /\ at(k) = at(h)
        BY <1>6
    <2> HIDE DEF k
    <2>2. k = h
        BY <1>4, <1>6, <2>1
    <2>3. kept[at(h)] = Text(CHOOSE g \in texts : at(g) = at(h))
        BY <1>6
    <2> QED BY <2>2, <2>3 DEF k
<1>7. row.words = words /\ row.texts = kept
    <2> HIDE DEF words, kept, row
    <2> QED BY <1>2
<1> HIDE DEF words, kept, row
<1>8. CASE types[h] = "TEXT"
    <2>1. h \in texts
        BY <1>1, <1>8
    <2>2. Word(h).size = R!TextSize(subs[h]) /\ Word(h).offset = at(h)
        BY <2>1 DEF Word
    <2>3. R!ReadColumn(types, row, h) = SubSeq(row.texts[row.words[8 * h].offset], 1, row.words[8 * h].size)
        BY <1>8 DEF R!ReadColumn
    <2>4. R!ReadColumn(types, row, h) = SubSeq(Text(h), 1, R!TextSize(subs[h]))
        BY <1>5, <1>6, <1>7, <2>1, <2>2, <2>3
    <2> QED BY <1>8, <2>4 DEF Text, row
<1>9. CASE types[h] # "TEXT"
    <2>1. h \notin texts
        BY <1>9
    <2>2. Word(h).number = R!Number(types[h], R!Copy(D, subs[h].start, subs[h].end - subs[h].start))
        BY <2>1 DEF Word
    <2>3. R!ReadColumn(types, row, h) = row.words[8 * h].number
        BY <1>9 DEF R!ReadColumn
    <2> QED BY <1>5, <1>7, <1>9, <2>2, <2>3 DEF row
<1> QED BY <1>8, <1>9

\* The groups of a row, as they were found and in the whole file.
LEMMA GroupsMoved ==
    ASSUME NEW A, A.groups \in Nat, NEW b \in Nat, NEW n \in Nat, NEW r, NEW w, RowMoved(A, b, n, r, w)
    PROVE  /\ r.subs \in [1..A.groups -> [start : Int, end : Int]]
           /\ \A h \in 1..A.groups : GroupAlike(b, n, r.subs[h], w.subs[h])
<1>1. PICK m \in [1..A.groups -> [start : Nat \cup {-1}, end : Nat \cup {-1}]], x \in Nat :
        /\ MatchesBounded(A, n, [m |-> m])
        /\ r = [subs |-> m, end |-> x]
        /\ w = [subs |-> [h \in 1..A.groups |-> Moved(m[h], b)], end |-> x + b]
    BY DEF RowMoved
<1>2. r.subs = m /\ \A h \in 1..A.groups : w.subs[h] = Moved(m[h], b)
    BY <1>1
<1>3. m \in [1..A.groups -> [start : Int, end : Int]]
    OBVIOUS
<1>4. ASSUME NEW h \in 1..A.groups
      PROVE  GroupAlike(b, n, m[h], w.subs[h])
    <2> DEFINE s == m[h]
               v == w.subs[h]
    <2>1. s \in [start : Nat \cup {-1}, end : Nat \cup {-1}] /\ v = Moved(s, b)
        BY <1>2
    <2>2. s # [start |-> -1, end |-> -1] => 0 <= s.start /\ s.start <= s.end /\ s.end < n
        BY <1>1 DEF MatchesBounded
    <2> HIDE DEF s, v
    <2>3. GroupAlike(b, n, s, v)
        BY <2>1, <2>2, GroupMoved
    <2> QED BY <2>3 DEF s, v
<1> QED BY <1>2, <1>3, <1>4

\* What a column of type shows of a text.
ShownAs(type, text) ==
    IF type # "TEXT" THEN R!Number(type, text)
    ELSE SubSeq(text, 1, IF Len(text) < StringSize THEN Len(text) ELSE StringSize)

\* All groups took part in a match of n bytes.
AllFound(types, n, subs) ==
    /\ subs \in [1..Len(types) -> [start : Int, end : Int]]
    /\ \A g \in 1..Len(types) :
        /\ R!Took(subs[g]) /\ subs[g].start \in Nat /\ subs[g].end \in Nat
        /\ subs[g].start <= subs[g].end /\ subs[g].end < n

\* The text of a group that was found in the piece of T from byte b on.
TextAt(T, b, sub) == SubSeq(T, (sub.start + b) + 1, sub.end + b)

\* One column.
LEMMA ColumnRight ==
    ASSUME NEW types \in Seq(Types3), NEW T, NEW b, NEW D, PieceAt(T, b, D),
           NEW subs, AllFound(types, Len(D), subs), NEW h \in 1..Len(types),
           NEW text, text = TextAt(T, b, subs[h])
    PROVE  R!ReadColumn(types, R!StoreToDataFrame(types, subs, D), h) = ShownAs(types[h], text)
<1> DEFINE from == subs[h].start
           to == subs[h].end
           size == R!TextSize(subs[h])
           seen == R!ReadColumn(types, R!StoreToDataFrame(types, subs, D), h)
<1>1. IF types[h] = "TEXT" THEN seen = SubSeq(R!Copy(D, from, size), 1, size)
      ELSE seen = R!Number(types[h], R!Copy(D, from, to - from))
    BY ColumnShown DEF AllFound
<1>2. from \in Nat /\ to \in Nat /\ from <= to /\ to <= Len(D) /\ text = SubSeq(T, (from + b) + 1, to + b)
    BY DEF PieceAt, AllFound, TextAt
<1>3. size = IF to - from < StringSize THEN to - from ELSE StringSize
    BY <1>2, SparkAssumption DEF R!TextSize
<1> HIDE DEF from, to, size, seen
<1>4. size \in 0..to - from
    BY <1>2, <1>3, SparkAssumption
<1>8. CopiedText(D, from, to - from, size, text)
    BY <1>2, <1>4, TextOfPiece
<1>5. /\ Len(text) = to - from /\ text = R!Copy(D, from, to - from)
      /\ SubSeq(text, 1, size) = R!Copy(D, from, size)
      /\ SubSeq(R!Copy(D, from, size), 1, size) = R!Copy(D, from, size)
    BY <1>8, Zenon DEF CopiedText
<1>6. CASE types[h] = "TEXT"
    <2>1. seen = SubSeq(text, 1, size)
        BY <1>1, <1>5, <1>6
    <2>2. size = IF Len(text) < StringSize THEN Len(text) ELSE StringSize
        BY <1>3, <1>5
    <2> QED BY <1>6, <2>1, <2>2 DEF seen, from, to, ShownAs
<1>7. CASE types[h] # "TEXT"
    <2>1. seen = R!Number(types[h], text)
        BY <1>1, <1>5, <1>7
    <2> QED BY <1>7, <2>1 DEF seen, from, to, ShownAs
<1> QED BY <1>6, <1>7

\* A row of a piece is stored as Spark is to see it; where a number is too
\* long to be stored, it is so in the whole scan.
LEMMA RowShown ==
    ASSUME keyTypes \in Seq(Types3), Len(keyTypes) = fa.groups, fa.groups \in Nat,
           NEW b, PieceAt(WholeFile, b, data),
           NEW r, NEW w, RowMoved(fa, b, Len(data), r, w)
    PROVE  /\ AllTook(w) => \A h \in 1..fa.groups :
                R!ReadColumn(keyTypes, R!StoreToDataFrame(keyTypes, r.subs, data), h) = Expected(w, h)
           /\ R!StoreFaults(keyTypes, r.subs) => \E g \in 1..fa.groups :
                keyTypes[g] # "TEXT" /\ R!Took(w.subs[g]) /\ w.subs[g].end - w.subs[g].start >= NumberSize
<1> DEFINE n == Len(data)
           m == r.subs
<1>1. b \in Nat /\ n \in Nat
    BY DEF PieceAt
<1>2. /\ m \in [1..fa.groups -> [start : Int, end : Int]]
      /\ \A h \in 1..fa.groups : GroupAlike(b, n, m[h], w.subs[h])
    BY <1>1, GroupsMoved
<1>3. Len(m) = fa.groups /\ m \in [1..Len(keyTypes) -> [start : Int, end : Int]]
    BY <1>2
<1> HIDE DEF n, m
<1>4. ASSUME AllTook(w), NEW h \in 1..fa.groups
      PROVE  R!ReadColumn(keyTypes, R!StoreToDataFrame(keyTypes, m, data), h) = Expected(w, h)
    <2>1. AllFound(keyTypes, n, m)
        BY <1>2, <1>3, <1>4 DEF AllTook, GroupAlike, AllFound
    <2>2. w.subs[h].start = m[h].start + b /\ w.subs[h].end = m[h].end + b /\ h \in 1..Len(keyTypes)
        BY <1>2, <1>4 DEF AllTook, GroupAlike
    <2> DEFINE text == TextAt(WholeFile, b, m[h])
    <2>5. text = TextAt(WholeFile, b, m[h])
        OBVIOUS
    <2> HIDE DEF text
    <2>3. R!ReadColumn(keyTypes, R!StoreToDataFrame(keyTypes, m, data), h) = ShownAs(keyTypes[h], text)
        BY <2>1, <2>2, <2>5, ColumnRight DEF n
    <2>4. Expected(w, h) = ShownAs(keyTypes[h], text)
        BY <2>2, <2>5 DEF Expected, ShownAs, TextAt
    <2> QED BY <2>3, <2>4
<1>5. ASSUME R!StoreFaults(keyTypes, m)
      PROVE  \E g \in 1..fa.groups :
                keyTypes[g] # "TEXT" /\ R!Took(w.subs[g]) /\ w.subs[g].end - w.subs[g].start >= NumberSize
    <2>1. PICK g \in 1..fa.groups : /\ R!Took(m[g]) /\ keyTypes[g] # "TEXT"
                                    /\ m[g].end < m[g].start \/ m[g].end - m[g].start >= NumberSize
        BY <1>3, <1>5 DEF R!StoreFaults
    <2>2. /\ m[g].start \in Nat /\ m[g].end \in Nat /\ m[g].start <= m[g].end
          /\ w.subs[g].start = m[g].start + b /\ w.subs[g].end = m[g].end + b /\ R!Took(w.subs[g])
        BY <1>2, <2>1 DEF GroupAlike
    <2>3. m[g].end - m[g].start >= NumberSize
        BY <2>1, <2>2
    <2>4. w.subs[g].end - w.subs[g].start >= NumberSize
        BY <1>1, <2>2, <2>3
    <2> QED BY <2>1, <2>2, <2>4
<1>6. \A h \in 1..fa.groups : AllTook(w) =>
        R!ReadColumn(keyTypes, R!StoreToDataFrame(keyTypes, m, data), h) = Expected(w, h)
    BY <1>4
<1> QED BY <1>5, <1>6 DEF m

----------------------------------------------------------------------------
(* The scan of the whole file.                                              *)

\* At the end of the file there is no event left.
LEMMA EndOfFile ==
    ASSUME NEW A, NEW T, NEW b, NEW D, Setting(A, T, b, D), b + Len(D) = Len(T),
           NEW s, NEW c, At(A, T, b, D, s, c), s.pc = "done"
    PROVE  AtEnd(A, T, c)
<1>1. /\ s.k \in Nat /\ s.q \in A.states /\ c.q = s.q /\ c.k \in Nat
      /\ Passed(A, T, b, Len(D), s.q, c.k, s.k) /\ s.k >= Len(D)
    BY AtFacts DEF Anchored
<1>2. E!IsAutomaton(A) /\ b \in Nat /\ Len(D) \in Nat
    BY SettingFacts
<1> SUFFICES ASSUME NEW e \in Nat, IsNextEvent(A, T, c, e) PROVE FALSE
    BY DEF AtEnd
<1>3. c.k <= e /\ Event(A, T, s.q, e)
    BY <1>1 DEF IsNextEvent
<1>4. e < Len(T) /\ EventEnd(A, s.q, e) <= Len(T)
    <2>1. e < Len(T) /\ (A.kind[s.q] = "ORDERED" => e + Len(A.str[s.q]) <= Len(T))
        BY <1>3 DEF Event
    <2>2. Len(T) \in Nat
        BY <1>2
    <2> QED BY <2>1, <2>2 DEF EventEnd
<1>5. e \in c.k..(b + s.k - 1)
    BY <1>1, <1>2, <1>3, <1>4
<1>6. b + Len(D) < EventEnd(A, s.q, e)
    BY <1>1, <1>3, <1>5 DEF Passed
<1>7. EventEnd(A, s.q, e) \in Nat
    BY <1>1, <1>2, Automaton DEF EventEnd
<1> QED BY <1>2, <1>4, <1>6, <1>7

\* A row of the whole file is not moved.
LEMMA RowStays ==
    ASSUME NEW A, NEW n, NEW r, NEW w, RowMoved(A, 0, n, r, w)
    PROVE  r = w
<1>1. PICK m \in [1..A.groups -> [start : Nat \cup {-1}, end : Nat \cup {-1}]], x \in Nat :
        /\ MatchesBounded(A, n, [m |-> m])
        /\ r = [subs |-> m, end |-> x]
        /\ w = [subs |-> [h \in 1..A.groups |-> Moved(m[h], 0)], end |-> x + 0]
    BY DEF RowMoved
<1>2. ASSUME NEW s \in [start : Nat \cup {-1}, end : Nat \cup {-1}],
             s # [start |-> -1, end |-> -1] => 0 <= s.start
      PROVE  Moved(s, 0) = s
    <2>1. CASE s = [start |-> -1, end |-> -1]
        BY <2>1 DEF Moved
    <2>2. CASE s # [start |-> -1, end |-> -1]
        <3>1. s.start # -1 /\ s.start + 0 = s.start /\ s.end + 0 = s.end
            BY <1>2, <2>2
        <3>2. Moved(s, 0) = [start |-> s.start, end |-> s.end]
            BY <3>1 DEF Moved
        <3>3. s = [start |-> s.start, end |-> s.end]
            OBVIOUS
        <3> QED BY <3>2, <3>3
    <2> QED BY <2>1, <2>2
<1>5. ASSUME NEW h \in 1..A.groups
      PROVE  Moved(m[h], 0) = m[h]
    <2>1. m[h] \in [start : Nat \cup {-1}, end : Nat \cup {-1}]
        OBVIOUS
    <2>2. m[h] # [start |-> -1, end |-> -1] => 0 <= m[h].start
        BY <1>1 DEF MatchesBounded
    <2> QED BY <1>2, <2>1, <2>2
<1>3. [h \in 1..A.groups |-> Moved(m[h], 0)] = m
    <2>1. m = [h \in 1..A.groups |-> m[h]]
        OBVIOUS
    <2> QED BY <1>5, <2>1
<1>4. x + 0 = x
    OBVIOUS
<1> QED BY <1>1, <1>3, <1>4

\* The fields of the scan of the whole file, after a step that leaves it alone.
LEMMA WholeScanSame ==
    ASSUME UNCHANGED <<fixed, pvars>>
    PROVE  /\ PScan' = PScan /\ WholeFile' = WholeFile /\ fa' = fa /\ pc0' = pc0 /\ rows0' = rows0
           /\ keyTypes' = keyTypes /\ file' = file
BY DEF fixed, pvars, PScan, WholeFile

\* What the types say of the scan of the whole file.
LEMMA WholeSetting ==
    ASSUME Typed
    PROVE  /\ Setting(fa, WholeFile, 0, WholeFile) /\ WholeFile \in Seq(Chars)
           /\ E!IsAutomaton(fa) /\ fa.groups \in Nat
<1>1. E!IsAutomaton(fa)
    BY DEF Typed, FixedTyped
<1>2. WholeFile \in Seq(Chars)
    BY WholeFileIs
<1>3. PieceAt(WholeFile, 0, WholeFile)
    <2> DEFINE W == WholeFile
    <2> HIDE DEF W
    <2>1. W \in Seq(Chars)
        BY <1>2 DEF W
    <2>2. PieceAt(W, 0, W)
        BY <2>1 DEF PieceAt
    <2> QED BY <2>2 DEF W
<1> QED BY <1>1, <1>2, <1>3, Automaton DEF Setting

\* A step of the scan of the whole file keeps what the points say of it.
LEMMA WholeStep ==
    ASSUME Typed, NoNul(fa), WholeInv, WholeScan
    PROVE  WholeInv' /\ phase = "sample"
<1>1. P!Next /\ UNCHANGED fixed /\ phase' = phase
    BY DEF WholeScan, run
<1>2. WholeReady
    BY WholeSetting DEF WholeReady, WholeInv
<1>3. Turn(fa, WholeFile, PScan, PScan')
    BY <1>1, <1>2, WholeIsTurn
<1>4. PICK c : /\ Reached(fa, WholeFile, c) /\ c.rows = rows0
               /\ Anchored(fa, WholeFile, 0, Len(WholeFile), PScan, c)
    BY DEF WholeInv
<1>5. At(fa, WholeFile, 0, WholeFile, PScan, c)
    BY <1>4 DEF At, WholeInv
<1>6. \/ Stays(fa, WholeFile, 0, WholeFile, PScan, PScan', c)
      \/ Goes(fa, WholeFile, 0, WholeFile, PScan, PScan', c)
    BY <1>3, <1>5, WholeSetting, TurnAt
<1>7. phase = "sample"
    <2>1. PScan.pc # "done"
        BY <1>3 DEF Turn, EnterTurn, LoopTurn, LeaveTurn, OrderedTurn, SetTurn, ByteTurn, DeadTurn, EndTurn
    <2> QED BY <2>1 DEF WholeInv, PScan
<1>8. PScan.rows = rows0 /\ PScan'.rows = rows0' /\ fa' = fa /\ WholeFile' = WholeFile
    BY <1>1 DEF PScan, fixed, WholeFile
<1>9. \E d : Reached(fa, WholeFile, d) /\ d.rows = rows0' /\ At(fa, WholeFile, 0, WholeFile, PScan', d)
    <2>1. CASE Stays(fa, WholeFile, 0, WholeFile, PScan, PScan', c)
        BY <1>4, <1>8, <2>1 DEF Stays
    <2>2. CASE Goes(fa, WholeFile, 0, WholeFile, PScan, PScan', c)
        <3> DEFINE d == After1(fa, WholeFile, c)
        <3>1. Reached(fa, WholeFile, d)
            BY <1>4, ReachedNext
        <3>2. /\ At(fa, WholeFile, 0, WholeFile, PScan', d)
              /\ RowsAlike(fa, 0, Len(WholeFile), rows0, rows0', c.rows, d.rows)
            BY <1>8, <2>2 DEF Goes
        <3>3. d.rows = rows0'
            BY <1>4, <3>2, RowStays DEF RowsAlike
        <3> QED BY <3>1, <3>2, <3>3
    <2> QED BY <1>6, <2>1, <2>2
<1> QED BY <1>1, <1>7, <1>8, <1>9 DEF WholeInv, At

\* The points say of the rows of the whole file what they are.
LEMMA WholeRows ==
    ASSUME Typed, WholeInv, pc0 = "done"
    PROVE  \E d : Reached(fa, WholeFile, d) /\ d.rows = rows0 /\ AtEnd(fa, WholeFile, d)
<1>1. PICK c : /\ Reached(fa, WholeFile, c) /\ c.rows = rows0
               /\ Anchored(fa, WholeFile, 0, Len(WholeFile), PScan, c)
    BY DEF WholeInv
<1>2. At(fa, WholeFile, 0, WholeFile, PScan, c)
    BY <1>1 DEF At, WholeInv
<1>3. PScan.pc = "done"
    BY DEF PScan
<1>4. 0 + Len(WholeFile) = Len(WholeFile)
    <2>1. Len(WholeFile) \in Nat
        BY WholeSetting
    <2> QED BY <2>1
<1> QED BY <1>1, <1>2, <1>3, <1>4, WholeSetting, EndOfFile

----------------------------------------------------------------------------
(* From one partition to the next.                                          *)

\* A scan begins where the one before came to rest.
LEMMA BeginsAt ==
    ASSUME NEW A, NEW T, NEW b, NEW D, Setting(A, T, b, D), NEW s, NEW c,
           ScanTyped(A, s), AtRest(A, T, b, s, c),
           NEW t, t.pc = "switch", t.k = 0, t.q = s.q, t.a = s.a, t.x = s.x, t.g = s.g, t.m = s.m
    PROVE  At(A, T, b, D, t, c)
<1> DEFINE n == Len(D)
<1>1. /\ b \in Nat /\ n \in Nat /\ E!IsAutomaton(A)
      /\ s.q \in A.states /\ s.a \in A.states /\ s.x \in Nat
      /\ s.g \in [id : 0..A.groups, index : Nat]
      /\ s.m \in [1..A.groups -> [start : Nat \cup {-1}, end : Nat \cup {-1}]]
    BY SettingFacts DEF ScanTyped
<1>2. /\ c.k \in Nat /\ c.q = s.q /\ c.k <= b /\ s.a = 0 /\ s.g.id = 0
      /\ \A e \in c.k..(b - 1) : ~Event(A, T, s.q, e)
      /\ c.k # b => Dwelling(A, s.q) /\ (s.q # E!INIT_STATE /\ SetKind(A, s.q) => A.start[s.q] = 0)
      /\ s.q # E!INIT_STATE =>
            c.a = 0 /\ c.g.id = 0 /\ s.m = Untouched(A) /\ SameMatches(A, Untouched(A), c.m, b)
    BY DEF AtRest
<1> HIDE DEF n
<1>3. ScanTyped(A, t)
    BY <1>1 DEF ScanTyped
<1>4. MatchesBounded(A, n, [m |-> Untouched(A)])
    BY Untaken
<1>5. t.q # E!INIT_STATE => MatchesBounded(A, n, t)
    BY <1>2, <1>4 DEF MatchesBounded
<1>6. Bounded(A, n, t)
    BY <1>2, <1>5 DEF Bounded
<1>7. \A e \in c.k..(b + t.k - 1) : Event(A, T, t.q, e) => e >= b /\ b + n < EventEnd(A, t.q, e)
    <2>1. b + t.k - 1 = b - 1
        BY <1>1
    <2> QED BY <1>2, <2>1
<1>8. t.q # E!INIT_STATE => SameGroup(t.g, c.g, b) /\ SameMatches(A, t.m, c.m, b) /\ SameRecent(t, c, b)
    BY <1>2 DEF SameGroup, SameRecent
<1>9. ASSUME c.k # b, t.q # E!INIT_STATE
      PROVE  SameGroup(t.g, Dwelt(A, c), b)
    <2>1. SetKind(A, t.q) => A.start[t.q] = 0
        BY <1>2, <1>9
    <2>2. Dwelt(A, c) = c.g
        BY <1>2, <2>1 DEF Dwelt, Opened
    <2> QED BY <1>8, <1>9, <2>2
<1>10. Anchored(A, T, b, n, t, c)
    <2>1. /\ c.k \in Nat /\ c.q = t.q /\ c.k <= b + n /\ t.pc # "done" /\ t.pc # "window" /\ t.k <= n
          /\ c.k <= b + t.k /\ (c.k = b => c.k = b + t.k)
        BY <1>1, <1>2
    <2>2. CASE c.k = b
        BY <1>7, <1>8, <2>1, <2>2 DEF Anchored
    <2>3. CASE c.k # b
        <3>1. Dwelling(A, t.q) /\ (t.q # E!INIT_STATE /\ SetKind(A, t.q) => A.start[t.q] = 0)
            BY <1>2, <2>3
        <3> QED BY <1>7, <1>8, <1>9, <2>1, <2>3, <3>1 DEF Anchored
    <2> QED BY <2>2, <2>3
<1> QED BY <1>3, <1>6, <1>10 DEF At, n

\* The end of the piece is in the middle of a needle.
CutNeedle(A, q, D) ==
    /\ A.kind[q] = "ORDERED"
    /\ \E m \in 1..(Len(A.str[q]) - 1) :
        m <= Len(D) /\ SubSeq(D, Len(D) - m + 1, Len(D)) = SubSeq(A.str[q], 1, m)

\* A needle that begins in the piece and reaches over its end is cut.
LEMMA NeedleIsCut ==
    ASSUME NEW A, NEW T, NEW b, NEW D, Setting(A, T, b, D), NEW q \in A.states, NEW e \in Nat,
           Event(A, T, q, e), A.kind[q] = "ORDERED", e >= b, e < b + Len(D), b + Len(D) < EventEnd(A, q, e)
    PROVE  CutNeedle(A, q, D)
<1> DEFINE w == A.str[q]
           l == Len(w)
           n == Len(D)
           m == (b + n) - e
<1>1. b \in Nat /\ n \in Nat /\ E!IsAutomaton(A) /\ D \in Seq(Chars) /\ \A k \in 1..n : D[k] = T[b + k]
    BY SettingFacts DEF PieceAt
<1>2. w \in Seq(Chars) /\ l \in Nat
    <2>1. A.str \in [A.states -> Seq(Chars)]
        BY <1>1 DEF E!IsAutomaton
    <2> QED BY <2>1
<1>3. EventEnd(A, q, e) = e + l
    BY DEF EventEnd
<1>4. \A j \in 1..l : T[e + j] = w[j]
    BY DEF Event
<1> HIDE DEF w, l, n
<1>5. m \in 1..(l - 1) /\ m <= n /\ m \in Nat /\ b + (n - m) = e /\ n - m \in Nat
    BY <1>1, <1>2, <1>3 DEF n
<1> HIDE DEF m
<1>6. /\ SubSeq(w, 1, m) \in Seq(Chars) /\ Len(SubSeq(w, 1, m)) = m
      /\ \A t \in 1..m : SubSeq(w, 1, m)[t] = w[t]
    <2>1. 1 \in Int /\ m \in Int /\ \A k \in 1..m : w[k] \in Chars
        <3>1. \A k \in 1..m : k \in 1..l
            BY <1>2, <1>5
        <3> QED BY <1>2, <1>5, <3>1 DEF l
    <2>2. /\ SubSeq(w, 1, m) \in Seq(Chars)
          /\ Len(SubSeq(w, 1, m)) = IF 1 <= m THEN m - 1 + 1 ELSE 0
          /\ \A t \in 1..m - 1 + 1 : SubSeq(w, 1, m)[t] = w[1 + t - 1]
        BY <2>1, SubSeqProperties
    <2>3. \A t \in 1..m : t \in 1..m - 1 + 1 /\ 1 + t - 1 = t
        BY <1>5
    <2> QED BY <1>5, <2>2, <2>3
<1>7. /\ SubSeq(D, n - m + 1, n) \in Seq(Chars) /\ Len(SubSeq(D, n - m + 1, n)) = m
      /\ \A t \in 1..m : SubSeq(D, n - m + 1, n)[t] = D[(n - m) + t]
    <2> DEFINE u == n - m + 1
    <2>1. u \in Int /\ n \in Int /\ u <= n + 1 /\ n - u + 1 = m /\ \A k \in u..n : D[k] \in Chars
        <3>1. \A k \in u..n : k \in 1..n
            BY <1>1, <1>5
        <3>2. \A k \in 1..n : D[k] \in Chars
            BY <1>1 DEF n
        <3> QED BY <1>1, <1>5, <3>1, <3>2
    <2> HIDE DEF u
    <2>2. /\ SubSeq(D, u, n) \in Seq(Chars)
          /\ Len(SubSeq(D, u, n)) = IF u <= n THEN n - u + 1 ELSE 0
          /\ \A t \in 1..n - u + 1 : SubSeq(D, u, n)[t] = D[u + t - 1]
        BY <2>1, SubSeqProperties
    <2>3. Len(SubSeq(D, u, n)) = m
        BY <1>5, <2>1, <2>2
    <2>4. \A t \in 1..m : t \in 1..n - u + 1 /\ u + t - 1 = (n - m) + t
        BY <1>1, <1>5, <2>1 DEF u
    <2> QED BY <2>2, <2>3, <2>4 DEF u
<1>8. ASSUME NEW t \in 1..m
      PROVE  D[(n - m) + t] = w[t]
    <2>1. (n - m) + t \in 1..n /\ b + ((n - m) + t) = e + t /\ t \in 1..l
        BY <1>1, <1>2, <1>5
    <2> QED BY <1>1, <1>4, <2>1
<1>9. SubSeq(D, n - m + 1, n) = SubSeq(w, 1, m)
    BY <1>6, <1>7, <1>8, SeqEqual
<1> QED BY <1>5, <1>9 DEF CutNeedle, w, l, n

\* A scan that ends with nothing but its state comes to rest.
LEMMA EndsAtRest ==
    ASSUME NEW A, NEW T, NEW b, NEW D, Setting(A, T, b, D), NEW s, NEW c, At(A, T, b, D, s, c),
           s.pc = "done", s.a = 0, s.g.id = 0, s.m = Untouched(A), ~CutNeedle(A, s.q, D)
    PROVE  AtRest(A, T, b + Len(D), s, c)
<1> DEFINE n == Len(D)
<1>1. /\ b \in Nat /\ n \in Nat /\ E!IsAutomaton(A) /\ A.groups \in Nat
      /\ Anchored(A, T, b, n, s, c) /\ s.k \in Nat /\ s.q \in A.states /\ c.q = s.q /\ c.k \in Nat
      /\ s.k >= n /\ c.k <= b + n /\ Passed(A, T, b, n, s.q, c.k, s.k)
    BY AtFacts, SettingFacts DEF Anchored
<1>2. A.start[s.q] \in 0..A.groups
    BY <1>1, Automaton
<1>3. ASSUME NEW e \in c.k..(b + n - 1), Event(A, T, s.q, e)
      PROVE  FALSE
    <2>1. e \in c.k..(b + s.k - 1) /\ e \in Nat /\ e < b + n
        BY <1>1, <1>3
    <2>2. e >= b /\ b + n < EventEnd(A, s.q, e)
        BY <1>1, <1>3, <2>1 DEF Passed
    <2>3. A.kind[s.q] = "ORDERED"
        BY <1>1, <2>1, <2>2 DEF EventEnd
    <2>4. CutNeedle(A, s.q, D)
        BY <1>1, <1>3, <2>1, <2>2, <2>3, NeedleIsCut
    <2> QED BY <2>4
<1> HIDE DEF n
<1>4. /\ \/ /\ c.k = b + s.k /\ s.k <= n
            /\ s.q # E!INIT_STATE => SameGroup(s.g, c.g, b)
         \/ /\ Dwelling(A, s.q)
            /\ s.q # E!INIT_STATE => SameGroup(s.g, Dwelt(A, c), b)
      /\ s.q # E!INIT_STATE => SameMatches(A, s.m, c.m, b) /\ SameRecent(s, c, b)
    BY <1>1 DEF Anchored
<1>5. ASSUME s.q # E!INIT_STATE
      PROVE  /\ c.a = 0 /\ c.g.id = 0 /\ SameMatches(A, Untouched(A), c.m, b + n)
             /\ c.k # b + n /\ SetKind(A, s.q) => A.start[s.q] = 0
    <2>1. c.a = 0
        BY <1>4, <1>5 DEF SameRecent
    <2>2. SameMatches(A, Untouched(A), c.m, b + n)
        BY <1>4, <1>5 DEF SameMatches, Untouched, Moved
    <2>3. CASE c.k = b + s.k /\ s.k <= n /\ SameGroup(s.g, c.g, b)
        <3>1. c.k = b + n
            BY <1>1, <2>3
        <3> QED BY <2>1, <2>2, <2>3, <3>1 DEF SameGroup
    <2>4. CASE SameGroup(s.g, Dwelt(A, c), b)
        <3>1. Dwelt(A, c).id = 0
            BY <2>4 DEF SameGroup
        <3>2. CASE SetKind(A, s.q)
            <4>1. A.start[s.q] = 0 /\ c.g.id = 0
                BY <1>1, <1>2, <3>1, <3>2 DEF Dwelt, Opened
            <4> QED BY <2>1, <2>2, <4>1
        <3>3. CASE ~SetKind(A, s.q)
            BY <1>1, <2>1, <2>2, <3>1, <3>3 DEF Dwelt
        <3> QED BY <3>2, <3>3
    <2> QED BY <1>4, <1>5, <2>3, <2>4
<1>6. c.k # b + n => Dwelling(A, s.q)
    BY <1>1, <1>4
<1> QED BY <1>1, <1>3, <1>5, <1>6 DEF AtRest, n

----------------------------------------------------------------------------
(* The steps of the runtime, as long as no partition cuts a match.          *)

\* What the two invariants give.
LEMMA PartSetting ==
    ASSUME Typed, IoInv, part < NumPartitions
    PROVE  /\ Start(part) \in Nat /\ PartSize \in Nat /\ PartSize > 0 /\ part \in Nat
           /\ Start(part) + PartSize <= Len(WholeFile) /\ Len(WholeFile) = Len(file)
           /\ part + 1 < NumPartitions => Start(part) + PartSize = Start(part + 1)
           /\ part + 1 = NumPartitions => Start(part) + PartSize = Len(WholeFile)
           /\ part + 1 < NumPartitions \/ part + 1 = NumPartitions
<1> DEFINE N == NumPartitions
<1>1. part \in 0..N - 1 /\ part \in Nat /\ N \in Nat /\ Len(file) > 0 /\ file \in Seq(Chars) /\ Len(file) \in Nat
    BY PartOfFile, FileFacts
<1>2. /\ PartSize \in Nat /\ PartSize > 0
      /\ part + 1 < N => PartSize = PartitionSize
      /\ part + 1 = N => Start(part) + PartSize = Len(file)
    BY <1>1, Sizes
<1>3. /\ Start(part) \in Nat /\ Start(part + 1) = Start(part) + PartitionSize
      /\ part + 1 < N => Start(part + 1) < Len(file)
    BY <1>1, Cut
<1>4. Len(WholeFile) = Len(file)
    BY WholeFileIs
<1>5. part + 1 < N \/ part + 1 = N
    <2> HIDE DEF N
    <2> QED BY <1>1
<1> HIDE DEF N
<1> QED BY <1>1, <1>2, <1>3, <1>4, <1>5 DEF N

\* A piece of n bytes of a sequence.
IsPiece(T, b, n, D) == D = SubSeq(T, b + 1, b + n) /\ b + n <= Len(T)

PieceOfSize(T, b, n, D) == PieceAt(T, b, D) /\ Len(D) = n

\* Such a piece is one, and has n bytes.
LEMMA PieceIs ==
    ASSUME NEW T \in Seq(Chars), NEW b \in Nat, NEW n \in Nat, n > 0, NEW D, IsPiece(T, b, n, D)
    PROVE  PieceOfSize(T, b, n, D)
<1>0. D = SubSeq(T, b + 1, b + n) /\ b + n <= Len(T)
    BY DEF IsPiece
<1>1. b + 1 \in Int /\ b + n \in Int /\ b + 1 <= b + n /\ (b + n) - (b + 1) + 1 = n
    OBVIOUS
<1>2. \A k \in (b + 1)..(b + n) : T[k] \in Chars
    <2>1. \A k \in (b + 1)..(b + n) : k \in 1..Len(T)
        BY <1>0
    <2> QED BY <2>1
<1>3. /\ D \in Seq(Chars)
      /\ Len(D) = IF b + 1 <= b + n THEN (b + n) - (b + 1) + 1 ELSE 0
      /\ \A t \in 1..(b + n) - (b + 1) + 1 : D[t] = T[(b + 1) + t - 1]
    BY <1>0, <1>1, <1>2, SubSeqProperties
<1>4. Len(D) = n
    BY <1>1, <1>3
<1>5. \A k \in 1..n : D[k] = T[b + k]
    <2>1. \A t \in 1..n : (b + 1) + t - 1 = b + t
        OBVIOUS
    <2> QED BY <1>1, <1>3, <2>1
<1>6. b + Len(D) <= Len(T) /\ \A k \in 1..Len(D) : D[k] = T[b + k]
    BY <1>0, <1>4, <1>5
<1>7. D \in Seq(Chars)
    BY <1>3
<1>8. PieceAt(T, b, D)
    BY <1>6, <1>7 DEF PieceAt
<1> QED BY <1>4, <1>8 DEF PieceOfSize

\* The buffer of the partition is a piece of the file.
LEMMA PartPiece ==
    ASSUME Typed, IoInv, part < NumPartitions,
           NEW D, D = SubSeq(WholeFile, Start(part) + 1, Start(part) + PartSize)
    PROVE  Setting(fa, WholeFile, Start(part), D) /\ Len(D) = PartSize
<1>1. WholeFile \in Seq(Chars) /\ E!IsAutomaton(fa)
    BY WholeSetting
<1>2. /\ Start(part) \in Nat /\ PartSize \in Nat /\ PartSize > 0
      /\ Start(part) + PartSize <= Len(WholeFile)
    BY PartSetting
<1> DEFINE T == WholeFile
           b == Start(part)
           n == PartSize
<1> HIDE DEF T, b, n
<1>3. T \in Seq(Chars) /\ b \in Nat /\ n \in Nat /\ n > 0 /\ IsPiece(T, b, n, D)
    BY <1>1, <1>2 DEF T, b, n, IsPiece
<1>4. PieceOfSize(T, b, n, D)
    BY <1>3, PieceIs
<1> QED BY <1>1, <1>4 DEF Setting, PieceOfSize, T, b, n

\* What a step leaves alone of the definitions.
LEMMA FixedSame ==
    ASSUME UNCHANGED fixed
    PROVE  /\ fa' = fa /\ file' = file /\ keyTypes' = keyTypes /\ WholeFile' = WholeFile
           /\ NumPartitions' = NumPartitions /\ LastByteAlone' = LastByteAlone
BY DEF fixed, WholeFile, NumPartitions, LastByteAlone

\* The frame shows the same rows.
LEMMA ShowsSame ==
    ASSUME NEW rs, Shows(rs), UNCHANGED fixed, frame' = frame
    PROVE  Shows(rs)'
<1>1. fa' = fa /\ file' = file /\ keyTypes' = keyTypes /\ WholeFile' = WholeFile
    BY FixedSame
<1>2. ASSUME NEW w PROVE AllTook(w)' = AllTook(w)
    BY <1>1 DEF AllTook
<1>3. ASSUME NEW w, NEW h PROVE Expected(w, h)' = Expected(w, h)
    BY <1>1 DEF Expected
<1> QED BY <1>1, <1>2, <1>3 DEF Shows

\* Between the partitions, while the scan and the frame are left alone.
LEMMA RestingSame ==
    ASSUME NEW c, AtPoint(c), phase # "exec",
           UNCHANGED <<fixed, scan, df, part, prevStart>>,
           phase' \notin {"exec", "preload", "pre", "fault"}, phase' = "done" => part = NumPartitions
    PROVE  AtPoint(c)'
<1>1. fa' = fa /\ WholeFile' = WholeFile /\ NumPartitions' = NumPartitions
    BY FixedSame
<1>2. Shows(c.rows)'
    BY ShowsSame DEF AtPoint, df
<1>3. EScan' = EScan /\ pc' = pc /\ subMatches' = subMatches
    BY DEF scan, EScan
<1>4. Start(part)' = Start(part)
    BY DEF Start
<1>5. Resting(c) => Resting(c)'
    BY <1>1, <1>3, <1>4 DEF Resting
<1> QED BY <1>1, <1>2, <1>5 DEF AtPoint, df

\* A partition that is read is there, unless it is the last byte alone.
LEMMA ReadAt ==
    ASSUME Typed, IoInv, ~LastByteAlone, NEW c, AtPoint(c), ReadPartition
    PROVE  AtPoint(c)'
<1>1. /\ phase = "read" /\ part < NumPartitions /\ Io!ReadFile(PartSize)
      /\ phase' = IF buf'.state = "null" THEN "fault" ELSE IF prevStart = NoPrev THEN "load" ELSE "preload"
      /\ UNCHANGED <<fixed, scan, df, part, prevStart>>
    BY DEF ReadPartition
<1>2. prevStart = NoPrev
    BY <1>1 DEF AtPoint, Resting
<1>3. buf'.state # "null"
    <2>1. pos = Start(part) /\ Start(part) + 1 < Len(file) /\ Len(file) \in Nat /\ Start(part) \in Nat /\ PartSize # 0
        BY <1>1, PartOfFile, FileFacts, Sizes, PartSetting DEF IoInv
    <2>2. ~(Len(file) > 0 /\ Start(part) >= Len(file) - 1)
        BY <2>1
    <2>3. ~Io!NothingToRead(PartSize)
        BY <2>1, <2>2 DEF Io!NothingToRead, Io!fileSize
    <2>4. Io!ReadPiece(PartSize)
        BY <1>1, <2>3 DEF Io!ReadFile, Io!ReadNothing
    <2>5. PICK bytes : buf' = [state |-> IF buf.state = "freed" THEN "freed twice" ELSE "live", bytes |-> bytes]
        BY <2>4, Zenon DEF Io!ReadPiece
    <2>6. buf'.state = IF buf.state = "freed" THEN "freed twice" ELSE "live"
        BY <2>5, Zenon
    <2> QED BY <2>6
<1>4. phase' = "load"
    BY <1>1, <1>2, <1>3
<1> QED BY <1>1, <1>4, RestingSame

\* The scan of a partition begins.
LEMMA LoadAt ==
    ASSUME Typed, IoInv, ~LastByteAlone, ScanTyped(fa, EScan), NEW c, AtPoint(c), ExecLoad
    PROVE  ScanTyped(fa, EScan)' /\ AtPoint(c)'
<1> DEFINE b == Start(part)
           D == SubSeq(WholeFile, b + 1, b + PartSize)
           n == Len(D)
<1>1. /\ phase = "load" /\ data' = Seen(PartSize) /\ i' = 0 /\ pc' = "switch" /\ phase' = "exec"
      /\ UNCHANGED <<fixed, rows, df, part, prevStart>>
      /\ UNCHANGED <<currentState, recentAcceptState, recentAcceptIndex, startSMS, subMatches>>
    BY DEF ExecLoad, ExecFrom
<1>2. phase \in Scanning /\ part < NumPartitions
    BY <1>1 DEF IoInv, Scanning
<1>3. data' = D
    BY <1>1, <1>2, PieceSeen
<1>4. Setting(fa, WholeFile, b, D)
    BY <1>2, PartPiece
<1>5. AtRest(fa, WholeFile, b, EScan, c) /\ (part > 0 => subMatches = Untouched(fa))
    BY <1>1, <1>2 DEF AtPoint, Resting
<1>6. /\ EScan'.pc = "switch" /\ EScan'.k = 0 /\ EScan'.q = EScan.q /\ EScan'.a = EScan.a
      /\ EScan'.x = EScan.x /\ EScan'.g = EScan.g /\ EScan'.m = EScan.m /\ EScan'.m = subMatches
    BY <1>1, ScanFields
<1> HIDE DEF b, D
<1>7. At(fa, WholeFile, b, D, EScan', c)
    BY <1>4, <1>5, <1>6, BeginsAt
<1>8. part > 0 => MatchesBounded(fa, n, EScan')
    <2>1. MatchesBounded(fa, n, [m |-> Untouched(fa)])
        BY Untaken
    <2> QED BY <1>5, <1>6, <2>1 DEF MatchesBounded
<1>9. /\ fa' = fa /\ WholeFile' = WholeFile /\ NumPartitions' = NumPartitions /\ part' = part
      /\ Start(part)' = b /\ PartSize' = PartSize /\ Shows(c.rows)'
    <2>1. PartSize' = PartSize
        BY <1>1 DEF PartSize, Partitions, fixed
    <2>2. Shows(c.rows)'
        BY <1>1, ShowsSame DEF AtPoint, df
    <2>3. Start(part)' = b
        BY <1>1 DEF Start, b
    <2> QED BY <1>1, <2>1, <2>2, <2>3, FixedSame
<1>10. InPart(c)'
    BY <1>3, <1>7, <1>8, <1>9 DEF InPart, At, D, b
<1>11. ScanTyped(fa, EScan)'
    BY <1>7, <1>9 DEF At
<1> QED BY <1>1, <1>9, <1>10, <1>11 DEF AtPoint

\* A point that is reached has a list of rows.
LEMMA ReachedRows ==
    ASSUME NEW A, E!IsAutomaton(A), NEW T \in Seq(Chars), NEW c, Reached(A, T, c)
    PROVE  IsList(c.rows)
<1>1. PICK n \in Nat : \E p : Points(A, T, p, n) /\ p[n] = c
    BY DEF Reached
<1>2. PICK p : Points(A, T, p, n) /\ p[n] = c
    BY <1>1
<1>3. n \in 0..n
    OBVIOUS
<1>4. PointOk(A, p[n])
    BY <1>2, <1>3, ReachedOk
<1> QED BY <1>2, <1>4 DEF PointOk

\* A row that is stored is shown.
LEMMA ShowsMore ==
    ASSUME Typed, NEW rs, IsList(rs), Shows(rs), UNCHANGED fixed, NEW w, NEW row,
           frame' = Append(frame, row),
           AllTook(w) => \A h \in 1..fa.groups : R!ReadColumn(keyTypes, row, h) = Expected(w, h)
    PROVE  Shows(Append(rs, w))'
<1>1. fa' = fa /\ file' = file /\ keyTypes' = keyTypes /\ WholeFile' = WholeFile
    BY FixedSame
<1>2. ASSUME NEW v PROVE AllTook(v)' = AllTook(v)
    BY <1>1 DEF AllTook
<1>3. ASSUME NEW v, NEW h PROVE Expected(v, h)' = Expected(v, h)
    BY <1>1 DEF Expected
<1> DEFINE n == Len(rs)
           us == Append(rs, w)
<1>4. /\ n \in Nat /\ Len(us) = n + 1 /\ us[n + 1] = w /\ \A k \in 1..n : us[k] = rs[k]
    BY AppendList DEF IsList
<1>5. IsList(frame) /\ Len(frame) = n
    BY DEF Typed, Shows
<1>6. Len(frame') = n + 1 /\ frame'[n + 1] = row /\ \A k \in 1..n : frame'[k] = frame[k]
    BY <1>5, AppendList
<1> HIDE DEF us, n
<1>7. ASSUME NEW k \in 1..n + 1, AllTook(us[k]), NEW h \in 1..fa.groups
      PROVE  R!ReadColumn(keyTypes, frame'[k], h) = Expected(us[k], h)
    <2>1. CASE k \in 1..n
        <3>1. us[k] = rs[k] /\ frame'[k] = frame[k] /\ k \in 1..Len(rs)
            BY <1>4, <1>6, <2>1 DEF n
        <3>2. AllTook(rs[k])
            BY <1>7, <3>1
        <3>3. R!ReadColumn(keyTypes, frame[k], h) = Expected(rs[k], h)
            BY <3>1, <3>2 DEF Shows
        <3> QED BY <3>1, <3>3
    <2>2. CASE k = n + 1
        BY <1>4, <1>6, <1>7, <2>2
    <2>3. k \in 1..n \/ k = n + 1
        <3>1. n \in Nat
            BY <1>4
        <3> QED BY <3>1
    <2> QED BY <2>1, <2>2, <2>3
<1>8. Len(frame') = Len(us)
    BY <1>4, <1>6
<1>9. Shows(us)'
    BY <1>1, <1>2, <1>3, <1>4, <1>7, <1>8 DEF Shows
<1> QED BY <1>9 DEF us

\* A row with a long number is one of the whole scan.
LEMMA FaultIsKnown ==
    ASSUME Typed, WholeInv, pc0 = "done", UNCHANGED <<fixed, pvars>>, phase' = "fault",
           NEW d, Reached(fa, WholeFile, d), NEW k \in 1..Len(d.rows), NEW g \in 1..fa.groups,
           keyTypes[g] # "TEXT", R!Took(d.rows[k].subs[g]),
           d.rows[k].subs[g].end - d.rows[k].subs[g].start >= NumberSize
    PROVE  KnownFault'
<1>1. PICK z : Reached(fa, WholeFile, z) /\ z.rows = rows0 /\ AtEnd(fa, WholeFile, z)
    BY WholeRows
<1>2. RowsBefore(d.rows, rows0)
    BY <1>1, WholeSetting, ReachedLast
<1>3. IsList(d.rows) /\ IsList(rows0)
    BY <1>1, WholeSetting, ReachedRows
<1>4. k \in 1..Len(rows0) /\ rows0[k] = d.rows[k]
    BY <1>2, <1>3 DEF RowsBefore, IsList
<1>5. fa' = fa /\ keyTypes' = keyTypes /\ rows0' = rows0
    BY FixedSame DEF pvars
<1>6. LongNumber'
    BY <1>4, <1>5 DEF LongNumber
<1> QED BY <1>6 DEF KnownFault

\* The scan of a partition goes on.
LEMMA ScanAt ==
    ASSUME Typed, IoInv, NoNul(fa), WholeInv, ScanTyped(fa, EScan), NEW c, AtPoint(c), ExecScan
    PROVE  ScanTyped(fa, EScan)' /\ (KnownFault' \/ \E d : AtPoint(d)')
<1> DEFINE b == Start(part)
           n == Len(data)
<1>1. /\ phase = "exec" /\ E!Next
      /\ IF Len(rows') = Len(rows)
         THEN UNCHANGED <<frame, phase>>
         ELSE LET subs == rows'[Len(rows')].subs
              IN  IF R!StoreFaults(keyTypes, subs)
                  THEN phase' = "fault" /\ UNCHANGED frame
                  ELSE /\ frame' = Append(frame, R!StoreToDataFrame(keyTypes, subs, data))
                       /\ UNCHANGED phase
      /\ UNCHANGED <<fixed, part, pvars>>
    BY DEF ExecScan
<1>2. part < NumPartitions /\ pc0 = "done"
    BY <1>1 DEF IoInv, Scanning, WholeInv
<1>3. InPart(c) /\ Reached(fa, WholeFile, c) /\ Shows(c.rows)
    BY <1>1 DEF AtPoint
<1>4. Setting(fa, WholeFile, b, data)
    BY <1>2, <1>3, PartPiece DEF InPart
<1>5. E!IsAutomaton(fa) /\ fa.groups \in Nat /\ WholeFile \in Seq(Chars) /\ data \in Seq(Chars)
    BY WholeSetting DEF Typed
<1>6. Turn(fa, data, EScan, EScan')
    BY <1>1, <1>5, ScanIsTurn DEF ScanReady
<1>7. At(fa, WholeFile, b, data, EScan, c)
    BY <1>3 DEF InPart, At
<1>8. Stays(fa, WholeFile, b, data, EScan, EScan', c) \/ Goes(fa, WholeFile, b, data, EScan, EScan', c)
    BY <1>4, <1>6, <1>7, TurnAt
<1>9. data' = data /\ fa' = fa /\ WholeFile' = WholeFile /\ NumPartitions' = NumPartitions
      /\ part' = part /\ Start(part)' = b /\ PartSize' = PartSize
    <2>1. data' = data
        BY <1>1, ScanStep
    <2>2. PartSize' = PartSize
        BY <1>1 DEF PartSize, Partitions, fixed
    <2> QED BY <1>1, <2>1, <2>2, FixedSame DEF Start
<1>10. EScan.rows = rows /\ EScan'.rows = rows'
    BY ScanFields
<1> HIDE DEF b, n
<1>11. ASSUME NEW d, At(fa, WholeFile, b, data, EScan', d)
       PROVE  ScanTyped(fa, EScan)'
    BY <1>9, <1>11 DEF At
<1>12. ASSUME NEW d, At(fa, WholeFile, b, data, EScan', d), part > 0 => MatchesBounded(fa, n, EScan'),
              Reached(fa, WholeFile, d), Shows(d.rows)', phase' = phase
       PROVE  AtPoint(d)'
    <2>1. data = SubSeq(WholeFile, Start(part) + 1, Start(part) + PartSize)
        BY <1>3 DEF InPart
    <2>2. InPart(d)'
        BY <1>9, <1>12, <2>1 DEF InPart, At, b, n
    <2> QED BY <1>1, <1>9, <1>12, <2>2 DEF AtPoint
<1>13. part > 0 => MatchesBounded(fa, n, EScan)
    BY <1>3 DEF InPart, n
<1>14. CASE Stays(fa, WholeFile, b, data, EScan, EScan', c)
    <2>1. /\ At(fa, WholeFile, b, data, EScan', c) /\ rows' = rows
          /\ part > 0 => MatchesBounded(fa, n, EScan')
        BY <1>10, <1>13, <1>14 DEF Stays, n
    <2>2. frame' = frame /\ phase' = phase
        BY <1>1, <2>1
    <2>3. Shows(c.rows)'
        BY <1>1, <1>3, <2>2, ShowsSame
    <2> QED BY <1>3, <1>11, <1>12, <2>1, <2>2, <2>3
<1>15. CASE Goes(fa, WholeFile, b, data, EScan, EScan', c)
    <2>0. PICK d : d = After1(fa, WholeFile, c)
        OBVIOUS
    <2>1. /\ At(fa, WholeFile, b, data, EScan', d) /\ MatchesBounded(fa, n, EScan')
          /\ RowsAlike(fa, b, n, rows, rows', c.rows, d.rows)
        BY <1>10, <1>15, <2>0 DEF Goes, n
    <2>2. Reached(fa, WholeFile, d)
        BY <1>3, <2>0, ReachedNext
    <2>3. CASE rows' = rows /\ d.rows = c.rows
        <3>1. frame' = frame /\ phase' = phase
            BY <1>1, <2>3
        <3>2. Shows(d.rows)'
            BY <1>1, <1>3, <2>3, <3>1, ShowsSame
        <3> QED BY <1>11, <1>12, <2>1, <2>2, <3>1, <3>2
    <2>4. ASSUME NEW r, NEW w, rows' = Append(rows, r), d.rows = Append(c.rows, w), RowMoved(fa, b, n, r, w)
          PROVE  KnownFault' \/ AtPoint(d)'
        <3>1. IsList(rows) /\ IsList(c.rows)
            BY <1>3, <1>5, ReachedRows DEF Typed, IsList
        <3>2. Len(rows') # Len(rows) /\ rows'[Len(rows')] = r
            <4> DEFINE us == Append(rows, r)
            <4>1. Len(us) = Len(rows) + 1 /\ us[Len(rows) + 1] = r /\ Len(rows) \in Nat
                BY <3>1, AppendList DEF IsList
            <4> HIDE DEF us
            <4>2. rows' = us
                BY <2>4 DEF us
            <4> QED BY <4>1, <4>2
        <3>3. Len(d.rows) \in 1..Len(d.rows) /\ d.rows[Len(d.rows)] = w
            BY <2>4, <3>1, AppendList DEF IsList
        <3>4. /\ AllTook(w) => \A h \in 1..fa.groups :
                    R!ReadColumn(keyTypes, R!StoreToDataFrame(keyTypes, r.subs, data), h) = Expected(w, h)
              /\ R!StoreFaults(keyTypes, r.subs) => \E g \in 1..fa.groups :
                    keyTypes[g] # "TEXT" /\ R!Took(w.subs[g]) /\ w.subs[g].end - w.subs[g].start >= NumberSize
            <4>1. keyTypes \in Seq(Types3) /\ Len(keyTypes) = fa.groups
                BY DEF Typed, FixedTyped
            <4>2. PieceAt(WholeFile, b, data) /\ RowMoved(fa, b, Len(data), r, w)
                BY <1>4, <2>4 DEF Setting, n
            <4> QED BY <1>5, <4>1, <4>2, RowShown
        <3>5. CASE R!StoreFaults(keyTypes, r.subs)
            <4>1. phase' = "fault"
                BY <1>1, <3>2, <3>5
            <4>2. PICK g \in 1..fa.groups :
                    keyTypes[g] # "TEXT" /\ R!Took(w.subs[g]) /\ w.subs[g].end - w.subs[g].start >= NumberSize
                BY <3>4, <3>5
            <4> QED BY <1>1, <1>2, <2>2, <3>3, <4>1, <4>2, FaultIsKnown
        <3>6. CASE ~R!StoreFaults(keyTypes, r.subs)
            <4>1. phase' = phase /\ frame' = Append(frame, R!StoreToDataFrame(keyTypes, r.subs, data))
                BY <1>1, <3>2, <3>6
            <4>2. Shows(Append(c.rows, w))'
                BY <1>1, <1>3, <3>1, <3>4, <4>1, ShowsMore
            <4>3. Shows(d.rows)'
                BY <2>4, <4>2
            <4> QED BY <1>12, <2>1, <2>2, <4>1, <4>3
        <3> QED BY <3>5, <3>6
    <2> QED BY <1>11, <2>1, <2>3, <2>4 DEF RowsAlike
<1> QED BY <1>8, <1>14, <1>15

\* The ranges of the groups.
LEMMA ScanTypedMatches ==
    ASSUME ScanTyped(fa, EScan)
    PROVE  \A g \in 1..fa.groups : subMatches[g].start \in Nat \cup {-1} /\ subMatches[g].end \in Nat \cup {-1}
<1>1. subMatches \in [1..fa.groups -> [start : Nat \cup {-1}, end : Nat \cup {-1}]]
    BY ScanFields DEF ScanTyped
<1> QED BY <1>1

\* The partition ends: it leaves nothing but the state, or it is the last one.
LEMMA PostAt ==
    ASSUME Typed, IoInv, ScanTyped(fa, EScan), NEW c, AtPoint(c), PostExec, whole'
    PROVE  KnownFault' \/ AtPoint(c)'
<1> DEFINE b == Start(part)
           n == PartSize
           N == NumPartitions
<1>1. /\ phase = "exec" /\ pc = "done" /\ count' = Len(frame) /\ part' = part + 1
      /\ prevStart' = IF Starts = {} THEN NoPrev ELSE CHOOSE s \in Starts : \A t \in Starts : s <= t
      /\ phase' = IF prevStart' > E!size THEN "fault" ELSE "read"
      /\ Clean \/ part + 1 = N
      /\ UNCHANGED <<fixed, scan, frame>>
    BY DEF PostExec, RowsStored
<1>2. part < N
    BY <1>1 DEF IoInv, Scanning
<1>3. InPart(c) /\ Reached(fa, WholeFile, c) /\ Shows(c.rows)
    BY <1>1 DEF AtPoint
<1>4. Setting(fa, WholeFile, b, data) /\ Len(data) = n /\ E!size = n
    BY <1>2, <1>3, PartPiece DEF InPart, E!size
<1>5. At(fa, WholeFile, b, data, EScan, c)
    BY <1>3 DEF InPart, At
<1>6. /\ EScan.pc = "done" /\ EScan.a = recentAcceptState /\ EScan.g = startSMS /\ EScan.m = subMatches
      /\ EScan.q = currentState
    BY <1>1, ScanFields
<1>7. /\ fa' = fa /\ WholeFile' = WholeFile /\ NumPartitions' = N /\ EScan' = EScan /\ pc' = pc
      /\ subMatches' = subMatches /\ file' = file /\ frame' = frame /\ Start(part)' = Start(part + 1)
      /\ Shows(c.rows)'
    <2>1. EScan' = EScan
        BY <1>1 DEF scan, EScan
    <2>2. Shows(c.rows)'
        BY <1>1, <1>3, ShowsSame
    <2> QED BY <1>1, <2>1, <2>2, FixedSame DEF scan, Start, fixed
<1>8. /\ b \in Nat /\ n \in Nat /\ part \in Nat /\ b + n <= Len(WholeFile) /\ Len(WholeFile) = Len(file)
      /\ part + 1 < N => b + n = Start(part + 1)
      /\ part + 1 = N => b + n = Len(WholeFile)
      /\ part + 1 < N \/ part + 1 = N
    BY <1>2, PartSetting
<1>9. N \in Nat
    BY <1>2, PartOfFile
<1> HIDE DEF b, n, N
<1>10. CASE part + 1 < N
    <2>1. Clean
        BY <1>1, <1>8, <1>9, <1>10
    <2>2. /\ recentAcceptState = 0 /\ startSMS.id = 0 /\ subMatches = Untouched(fa)
          /\ ~CutNeedle(fa, currentState, data)
        <3>1. ~CutNeedle(fa, currentState, data)
            BY <2>1 DEF Clean, NeedleCut, CutNeedle, E!Kind, E!Needle, E!size
        <3>2. E!NoMatches = Untouched(fa)
            BY DEF E!NoMatches, E!NoMatch, E!Unset, Untouched
        <3> QED BY <2>1, <3>1, <3>2 DEF Clean, E!INV_STATE
    <2>3. AtRest(fa, WholeFile, b + n, EScan, c)
        BY <1>4, <1>5, <1>6, <2>2, EndsAtRest
    <2>4. prevStart' = NoPrev
        <3>1. \A g \in 1..fa.groups : subMatches[g].start = -1
            BY <2>2 DEF Untouched
        <3>2. Starts = {}
            BY <3>1 DEF Starts, E!Unset
        <3> QED BY <1>1, <3>2
    <2>5. phase' = "read"
        <3>1. ~(prevStart' > E!size)
            BY <1>4, <1>8, <2>4 DEF NoPrev
        <3> QED BY <1>1, <3>1
    <2>6. Resting(c)'
        BY <1>1, <1>7, <1>8, <1>10, <2>2, <2>3, <2>4 DEF Resting, NoPrev
    <2> QED BY <1>1, <1>3, <1>7, <1>10, <2>5, <2>6 DEF AtPoint, N
<1>11. CASE part + 1 = N
    <2>1. AtEnd(fa, WholeFile, c)
        BY <1>4, <1>5, <1>6, <1>8, <1>11, EndOfFile
    <2>2. CASE ~(prevStart' > E!size)
        <3>1. phase' = "read"
            BY <1>1, <2>2
        <3>2. ~(part' < NumPartitions')
            BY <1>1, <1>7, <1>8, <1>11
        <3> QED BY <1>1, <1>3, <1>7, <2>1, <3>1, <3>2 DEF AtPoint
    <2>3. CASE prevStart' > E!size
        <3>1. phase' = "fault"
            BY <1>1, <2>3
        <3>2. prevStart' # NoPrev
            BY <1>4, <1>8, <2>3 DEF NoPrev
        <3>3. Starts # {} /\ prevStart' = CHOOSE s \in Starts : \A t \in Starts : s <= t
            BY <1>1, <3>2
        <3>4. Starts \subseteq Nat
            BY ScanTypedMatches DEF Starts, E!Unset
        <3>5. prevStart' \in Starts
            <4> DEFINE S == Starts
            <4> HIDE DEF S
            <4>1. PICK m \in S : \A k \in S : m <= k
                BY <3>3, <3>4, LeastNatural DEF S
            <4>2. (CHOOSE s \in S : \A t \in S : s <= t) \in S
                BY <4>1
            <4> QED BY <3>3, <4>2 DEF S
        <3>6. PICK g \in 1..fa.groups : subMatches[g].start = prevStart' /\ prevStart' # -1
            BY <3>5 DEF Starts, E!Unset
        <3>7. prevStart' \in Nat
            BY <3>4, <3>5
        <3>8. part = 0
            <4> SUFFICES ASSUME part # 0 PROVE FALSE
                OBVIOUS
            <4>1. MatchesBounded(fa, n, EScan)
                <5>1. part > 0
                    BY <1>8
                <5>2. MatchesBounded(fa, Len(data), EScan)
                    BY <1>3, <5>1 DEF InPart
                <5> QED BY <1>4, <5>2
            <4>2. subMatches[g] # [start |-> -1, end |-> -1]
                BY <3>6
            <4>3. /\ subMatches[g].start <= subMatches[g].end /\ subMatches[g].end < n
                BY <1>6, <4>1, <4>2 DEF MatchesBounded
            <4>4. subMatches[g].end \in Int
                BY ScanTypedMatches
            <4> QED BY <1>4, <1>8, <2>3, <3>6, <3>7, <4>3, <4>4
        <3>9. n = Len(file)
            <4>1. b = 0
                BY <3>8, SparkAssumption DEF b, Start
            <4> QED BY <1>8, <1>11, <4>1
        <3> QED BY <1>4, <1>7, <2>3, <3>1, <3>6, <3>9 DEF KnownFault
    <2> QED BY <2>2, <2>3
<1> QED BY <1>8, <1>10, <1>11

\* A step that leaves all of this alone.
LEMMA PointSame ==
    ASSUME NEW c, AtPoint(c), UNCHANGED <<fixed, scan, df, part, prevStart, phase>>
    PROVE  AtPoint(c)'
<1>1. fa' = fa /\ WholeFile' = WholeFile /\ NumPartitions' = NumPartitions
    BY FixedSame
<1>2. Shows(c.rows)'
    BY ShowsSame DEF AtPoint, df
<1>3. EScan' = EScan /\ pc' = pc /\ subMatches' = subMatches /\ data' = data
    BY DEF scan, EScan
<1>4. Start(part)' = Start(part) /\ PartSize' = PartSize
    BY DEF Start, PartSize, Partitions, fixed
<1>5. Resting(c) => Resting(c)'
    BY <1>1, <1>3, <1>4 DEF Resting
<1>6. InPart(c) => InPart(c)'
    BY <1>1, <1>3, <1>4 DEF InPart
<1> QED BY <1>1, <1>2, <1>5, <1>6 DEF AtPoint, df

\* A step that leaves the scan of the whole file alone.
LEMMA WholeInvSame ==
    ASSUME WholeInv, UNCHANGED <<fixed, pvars>>, phase' # "sample" => pc0 = "done"
    PROVE  WholeInv'
<1>1. PScan' = PScan /\ WholeFile' = WholeFile /\ fa' = fa /\ pc0' = pc0 /\ rows0' = rows0
    BY WholeScanSame
<1>2. ScanTyped(fa, PScan)' /\ Bounded(fa, Len(WholeFile), PScan)'
    BY <1>1 DEF WholeInv
<1>3. PICK c : /\ Reached(fa, WholeFile, c) /\ c.rows = rows0
               /\ Anchored(fa, WholeFile, 0, Len(WholeFile), PScan, c)
    BY DEF WholeInv
<1>4. /\ Reached(fa, WholeFile, c)' /\ c.rows = rows0'
      /\ Anchored(fa, WholeFile, 0, Len(WholeFile), PScan, c)'
    BY <1>1, <1>3
<1> QED BY <1>1, <1>2, <1>4 DEF WholeInv

\* The two scans before their first byte.
LEMMA FirstPointIs ==
    /\ FirstPoint(fa).q = 1 /\ FirstPoint(fa).k = 0 /\ FirstPoint(fa).rows = <<>>
    /\ Reached(fa, WholeFile, FirstPoint(fa))
<1>1. PICK p : p = FirstPoint(fa)
    OBVIOUS
<1>2. p.q = 1 /\ p.k = 0 /\ p.rows = <<>>
    BY <1>1, ArriveFields DEF FirstPoint, E!INIT_STATE
<1>3. Reached(fa, WholeFile, FirstPoint(fa))
    BY ReachedFirst
<1> QED BY <1>1, <1>2, <1>3

\* Both scans start at the first point.
LEMMA InitPoints ==
    ASSUME Init, Inv
    PROVE  WholeInv /\ PartsInv
<1>1. Typed /\ IoInv
    BY DEF Inv
<1>4. PICK g \in Garbage : subMatches = [h \in 1..fa.groups |-> [start |-> g, end |-> g]]
    BY DEF Init
<1>5. g \in Nat
    BY SparkAssumption
<1>6. /\ pc = "switch" /\ i = 0 /\ currentState = 1 /\ recentAcceptState = 0 /\ recentAcceptIndex = 0
      /\ startSMS = [id |-> 0, index |-> 0] /\ rows = <<>>
      /\ phase = "sample" /\ part = 0 /\ prevStart = NoPrev /\ frame = <<>>
    BY DEF Init, E!INIT_STATE, E!INV_STATE, E!NoGroup
<1>7. /\ pc0 = "switch" /\ i0 = 0 /\ currentState0 = 1 /\ recentAcceptState0 = 0 /\ recentAcceptIndex0 = 0
      /\ startSMS0 = [id |-> 0, index |-> 0] /\ subMatches0 = Untouched(fa) /\ rows0 = <<>>
    BY DEF Init, E!INIT_STATE, E!INV_STATE, P!NoGroup, P!NoMatches, P!NoMatch, P!Unset, Untouched
<1>8. E!IsAutomaton(fa) /\ fa.groups \in Nat /\ Len(WholeFile) \in Nat /\ {0, 1} \subseteq fa.states
    <2>1. E!IsAutomaton(fa) /\ fa.groups \in Nat /\ WholeFile \in Seq(Chars)
        BY <1>1, WholeSetting
    <2> QED BY <2>1 DEF E!IsAutomaton, E!INIT_STATE, E!INV_STATE
<1>9. [id |-> 0, index |-> 0] \in [id : 0..fa.groups, index : Nat]
    BY <1>8
<1>10. ScanTyped(fa, PScan)
    <2>1. Untouched(fa) \in [1..fa.groups -> [start : Nat \cup {-1}, end : Nat \cup {-1}]]
        BY DEF Untouched
    <2> QED BY <1>7, <1>8, <1>9, <2>1, WholeFields DEF ScanTyped
<1>11. ScanTyped(fa, EScan)
    <2>1. subMatches \in [1..fa.groups -> [start : Nat \cup {-1}, end : Nat \cup {-1}]]
        BY <1>4, <1>5
    <2> QED BY <1>6, <1>8, <1>9, <2>1, ScanFields DEF ScanTyped
<1> DEFINE c == FirstPoint(fa)
<1>12. c.q = 1 /\ c.k = 0 /\ c.rows = <<>> /\ Reached(fa, WholeFile, c)
    BY FirstPointIs
<1> HIDE DEF c
<1>13. Bounded(fa, Len(WholeFile), PScan)
    BY <1>7, WholeFields DEF Bounded, E!INIT_STATE
<1>14. Anchored(fa, WholeFile, 0, Len(WholeFile), PScan, c)
    <2>1. c.k \in Nat /\ c.q = PScan.q /\ c.k <= 0 + Len(WholeFile)
        BY <1>7, <1>8, <1>12, WholeFields
    <2>2. c.k..(0 + PScan.k - 1) = {}
        BY <1>7, <1>12, WholeFields
    <2>3. c.k = 0 + PScan.k /\ PScan.pc = "switch" /\ PScan.k <= Len(WholeFile) /\ PScan.q = 1
        BY <1>7, <1>8, <1>12, WholeFields
    <2> QED BY <2>1, <2>2, <2>3 DEF Anchored, E!INIT_STATE
<1>15. WholeInv
    BY <1>6, <1>7, <1>10, <1>12, <1>13, <1>14 DEF WholeInv
<1>16. Start(part) = 0 /\ part < NumPartitions
    <2>1. NumPartitions \in Nat /\ NumPartitions >= 1
        BY <1>1, FileFacts, Cut
    <2> HIDE DEF NumPartitions
    <2> QED BY <1>6, <2>1, SparkAssumption DEF Start
<1>17. AtRest(fa, WholeFile, Start(part), EScan, c)
    <2>1. c.k \in Nat /\ c.q = EScan.q /\ c.k <= Start(part) /\ c.k = Start(part) /\ EScan.q = 1
        BY <1>6, <1>12, <1>16, ScanFields
    <2>2. c.k..(Start(part) - 1) = {}
        BY <1>12, <1>16
    <2>3. EScan.a = 0 /\ EScan.g.id = 0
        BY <1>6, ScanFields
    <2> QED BY <2>1, <2>2, <2>3 DEF AtRest, E!INIT_STATE
<1>18. Resting(c)
    BY <1>6, <1>17 DEF Resting
<1>19. Shows(c.rows)
    <2>1. Len(frame) = Len(c.rows) /\ Len(c.rows) = 0
        BY <1>6, <1>12, EmptyList
    <2> QED BY <2>1 DEF Shows
<1>20. AtPoint(c)
    BY <1>6, <1>12, <1>16, <1>18, <1>19 DEF AtPoint
<1> QED BY <1>11, <1>15, <1>20 DEF PartsInv

\* The automaton is the same all along.
LEMMA NextNoNul ==
    ASSUME [Next]_vars
    PROVE  NoNul(fa)' <=> NoNul(fa)
<1>1. UNCHANGED fixed
    BY DEF Next, WholeScan, Iexec, ReadSample, SeekStart, ReadPartition, PreLoad, PreScan, ExecLoad,
           PreMatch, PreAbandon, PreEnd, ExecFrom, ExecScan, PostExec, Finish, vars
<1> QED BY <1>1, FixedSame DEF NoNul

\* Every step keeps what the points say of the two scans.
LEMMA NextWhole ==
    ASSUME Inv, NoNul(fa), WholeInv, [Next]_vars
    PROVE  WholeInv'
<1>1. Typed
    BY DEF Inv
<1>3. CASE WholeScan
    BY <1>1, <1>3, WholeStep DEF WholeScan
<1>4. CASE Iexec
    <2>1. UNCHANGED <<fixed, pvars>>
        BY <1>4 DEF Iexec, ReadSample, SeekStart, ReadPartition, PreLoad, PreScan, ExecLoad, PreMatch,
                    PreAbandon, PreEnd, ExecFrom, ExecScan, PostExec, Finish
    <2>2. pc0 = "done"
        <3>1. phase # "sample" \/ ReadSample
            BY <1>4 DEF Iexec, ReadSample, SeekStart, ReadPartition, PreLoad, PreScan, ExecLoad, PreMatch,
                        PreAbandon, PreEnd, PreDead, ExecScan, PostExec, Finish
        <3> QED BY <3>1 DEF ReadSample, WholeInv
    <2> QED BY <2>1, <2>2, WholeInvSame
<1>5. CASE UNCHANGED vars
    <2>1. UNCHANGED <<fixed, pvars>> /\ phase' = phase
        BY <1>5 DEF vars, run
    <2> QED BY <2>1, WholeInvSame DEF WholeInv
<1> QED BY <1>3, <1>4, <1>5 DEF Next

\* Every step keeps the scan of the partitions at a point.
LEMMA NextParts ==
    ASSUME Inv, NoNul(fa), WholeInv, PartsInv, [Next]_vars
    PROVE  PartsInv'
<1>1. Typed /\ IoInv
    BY DEF Inv
<1> SUFFICES ASSUME whole', ~LastByteAlone'
             PROVE  ScanTyped(fa, EScan)' /\ (KnownFault' \/ \E d : AtPoint(d)')
    BY DEF PartsInv
<1>2. UNCHANGED fixed /\ whole
    BY DEF Next, WholeScan, Iexec, ReadSample, SeekStart, ReadPartition, PreLoad, PreScan, ExecLoad,
           PreMatch, PreAbandon, PreEnd, ExecFrom, ExecScan, PostExec, Finish, vars, run
<1>3. ~LastByteAlone
    BY <1>2, FixedSame
<1>4. ScanTyped(fa, EScan) /\ (KnownFault \/ \E c : AtPoint(c))
    BY <1>2, <1>3 DEF PartsInv
<1>5. ASSUME UNCHANGED scan
      PROVE  ScanTyped(fa, EScan)'
    <2>1. EScan' = EScan /\ fa' = fa
        BY <1>2, <1>5, FixedSame DEF scan, EScan
    <2> QED BY <1>4, <2>1
<1>6. CASE UNCHANGED vars
    <2>1. UNCHANGED <<fixed, scan, df, part, prevStart, phase, pvars>>
        BY <1>6 DEF vars, run
    <2>2. KnownFault => KnownFault'
        <3>1. /\ fa' = fa /\ keyTypes' = keyTypes /\ file' = file /\ rows0' = rows0 /\ subMatches' = subMatches
              /\ phase' = phase
            BY <2>1, FixedSame DEF pvars, scan
        <3> QED BY <3>1 DEF KnownFault, LongNumber
    <2> QED BY <1>4, <1>5, <2>1, <2>2, PointSame
<1>7. CASE WholeScan
    <2>1. UNCHANGED <<fixed, scan, df, part, prevStart, phase>>
        BY <1>7 DEF WholeScan, run
    <2>2. ~KnownFault
        BY <1>1, <1>7, WholeStep DEF KnownFault
    <2> QED BY <1>4, <1>5, <2>1, <2>2, PointSame
<1>8. CASE Iexec
    <2>1. PICK c : AtPoint(c)
        <3>1. phase # "fault"
            BY <1>8 DEF Iexec, ReadSample, SeekStart, ReadPartition, PreLoad, PreScan, ExecLoad, PreMatch,
                        PreAbandon, PreEnd, PreDead, ExecScan, PostExec, Finish
        <3> QED BY <1>4, <3>1 DEF KnownFault
    <2>2. phase \notin {"preload", "pre"}
        BY <2>1 DEF AtPoint
    <2>3. CASE ReadSample
        <3>1. UNCHANGED <<fixed, scan, df, part, prevStart>> /\ phase = "sample" /\ phase' = "seek"
            BY <2>3 DEF ReadSample
        <3> QED BY <1>5, <2>1, <3>1, RestingSame
    <2>4. CASE SeekStart
        <3>1. UNCHANGED <<fixed, scan, df, part, prevStart>> /\ phase = "seek" /\ phase' = "read"
            BY <2>4 DEF SeekStart
        <3> QED BY <1>5, <2>1, <3>1, RestingSame
    <2>5. CASE Finish
        <3>1. /\ UNCHANGED <<fixed, scan, df, part, prevStart>> /\ phase = "read" /\ phase' = "done"
              /\ part = NumPartitions
            BY <2>5 DEF Finish
        <3> QED BY <1>5, <2>1, <3>1, RestingSame
    <2>6. CASE ReadPartition
        <3>1. UNCHANGED scan
            BY <2>6 DEF ReadPartition
        <3> QED BY <1>1, <1>3, <1>5, <2>1, <2>6, <3>1, ReadAt
    <2>7. CASE ExecLoad
        BY <1>1, <1>3, <1>4, <2>1, <2>7, LoadAt
    <2>8. CASE ExecScan
        BY <1>1, <1>4, <2>1, <2>8, ScanAt
    <2>9. CASE PostExec
        <3>1. UNCHANGED scan
            BY <2>9 DEF PostExec
        <3> QED BY <1>1, <1>4, <1>5, <2>1, <2>9, <3>1, PostAt
    <2> QED BY <1>8, <2>2, <2>3, <2>4, <2>5, <2>6, <2>7, <2>8, <2>9
            DEF Iexec, PreLoad, PreScan, PreMatch, PreAbandon, PreEnd, PreDead
<1> QED BY <1>6, <1>7, <1>8 DEF Next

----------------------------------------------------------------------------
\* The theorems.

\* The stream and the runtime go through the file together, whatever the scan
\* of a partition leaves behind.
THEOREM Invariance == Spec => []Inv
<1>1. Inv /\ [Next]_vars => Inv'
    <2> SUFFICES ASSUME Inv, [Next]_vars PROVE Inv'
        OBVIOUS
    <2>1. CASE WholeScan
        BY <2>1, WholeScanStep DEF WholeScan
    <2>2. CASE Iexec
        BY <2>2, IexecStep
    <2>3. CASE UNCHANGED vars
        BY <2>3, WholeScanStep DEF vars
    <2> QED BY <2>1, <2>2, <2>3 DEF Next
<1> QED BY <1>1, InitInv, PTL DEF Spec

\* The buffers are the pieces of the file, one after the other, for every size
\* of partitions, sample and file: only the last byte of the file is missing,
\* and no buffer is deleted twice.
THEOREM BuffersAreExact == Spec => []BuffersExact
<1>1. Inv => BuffersExact
    <2> SUFFICES ASSUME Inv PROVE BuffersExact
        OBVIOUS
    <2>1. Typed /\ IoInv
        BY DEF Inv
    <2>2. buf.state # "freed twice"
        BY <2>1 DEF IoInv, Buffers
    <2>3. ASSUME phase \in {"load", "preload"}, ~LastByteAlone
          PROVE  Seen(PartSize) = SubSeq(WholeFile, Start(part) + 1, Start(part) + PartSize)
        BY <2>1, <2>3, PieceSeen DEF Scanning
    <2> QED BY <2>2, <2>3 DEF BuffersExact, Start
<1> QED BY <1>1, Invariance, PTL

\* Every row stays inside its record, for every schema and every room for a
\* text: whatever stale ranges a partition leaves to the next one.
THEOREM RowsAlwaysFit == Spec => []RowsFit
<1>1. Inv => RowsFit
    BY DEF Inv
<1> QED BY <1>1, Invariance, PTL

\* The two scans go through the same points as long as no partition cuts a
\* match, for every automaton without a NUL in a needle: the rows of the one are
\* those of the other.
THEOREM ScansAgree == Spec => [](Inv /\ (NeedlesPlain => WholeInv /\ PartsInv))
<1>1. Init => Inv /\ WholeInv /\ PartsInv
    BY InitInv, InitPoints
<1>2. NeedlesPlain = NoNul(fa)
    BY DEF NeedlesPlain, NoNul, E!NUL
<1>3. Inv /\ (NeedlesPlain => WholeInv /\ PartsInv) /\ [Next]_vars => (NeedlesPlain => WholeInv /\ PartsInv)'
    <2> SUFFICES ASSUME Inv, NeedlesPlain => WholeInv /\ PartsInv, [Next]_vars, NeedlesPlain'
                 PROVE  WholeInv' /\ PartsInv'
        OBVIOUS
    <2>1. NoNul(fa)
        <3>1. NoNul(fa)'
            BY DEF NeedlesPlain, NoNul, E!NUL
        <3> QED BY <3>1, NextNoNul
    <2> QED BY <1>2, <2>1, NextWhole, NextParts
<1> QED BY <1>1, <1>3, Invariance, PTL DEF Spec

\* What the partitions store is what a scan of the whole file finds: the same
\* rows in the same order, and in each column the text or the number of its
\* group, for every automaton, file, schema and size of partitions, where no
\* needle ends in NUL and none lies across a boundary.
THEOREM FrameIsExact == Spec => []FrameExact
<1>1. Inv /\ (NeedlesPlain => WholeInv /\ PartsInv) => FrameExact
    <2> SUFFICES ASSUME Inv, WholeInv, PartsInv, phase = "done", whole, ~LastByteAlone
                 PROVE  /\ count = Len(rows0) /\ Len(frame) = count
                        /\ \A k \in 1..count : AllTook(rows0[k]) =>
                                \A c \in 1..fa.groups : R!ReadColumn(keyTypes, frame[k], c) = Expected(rows0[k], c)
        BY DEF FrameExact
    <2>1. Typed /\ IoInv
        BY DEF Inv
    <2>2. PICK c : AtPoint(c)
        BY DEF PartsInv, KnownFault
    <2>3. part = NumPartitions /\ NumPartitions \in Nat
        BY <2>1, <2>2, FileFacts, Cut DEF AtPoint
    <2>4. /\ Reached(fa, WholeFile, c) /\ Shows(c.rows)
          /\ AtEnd(fa, WholeFile, c) /\ count = Len(frame)
        <3>1. ~(part < NumPartitions)
            <4> HIDE DEF NumPartitions
            <4> QED BY <2>3
        <3> QED BY <2>2, <3>1 DEF AtPoint
    <2>5. PICK d : Reached(fa, WholeFile, d) /\ d.rows = rows0 /\ AtEnd(fa, WholeFile, d)
        BY <2>1, WholeRows DEF WholeInv
    <2>6. c = d
        BY <2>1, <2>4, <2>5, WholeSetting, ReachedLast
    <2>7. Shows(rows0)
        BY <2>4, <2>5, <2>6
    <2> QED BY <2>4, <2>7 DEF Shows
<1> QED BY <1>1, ScansAgree, PTL

\* The scan for Spark does not crash, for every automaton, file, schema and
\* size of partitions, where no match was cut, no number is too long, the last
\* byte is not alone, no needle ends in NUL and the memory of the groups was
\* clean.
THEOREM NeverFaults == Spec => []Faultless
<1>1. (NeedlesPlain => WholeInv /\ PartsInv) => Faultless
    <2> SUFFICES ASSUME PartsInv, phase = "fault", whole, ~LastByteAlone
                 PROVE  LongNumber \/ \E g \in 1..fa.groups : subMatches[g].start > Len(file)
        BY DEF Faultless
    <2>1. KnownFault
        BY DEF PartsInv, AtPoint
    <2> QED BY <2>1 DEF KnownFault
<1> QED BY <1>1, ScansAgree, PTL
=============================================================================
