-------------------------- MODULE HashTableProofs --------------------------
(***************************************************************************)
(* Proofs about HashTable, for every set of keys, every hash function and  *)
(* every minimum of lookups: the table keeps the Robin Hood order through  *)
(* displacement, growth and erasure, finds exactly its keys, and           *)
(* implements KeySet.                                                      *)
(***************************************************************************)
EXTENDS HashTable, FiniteSetTheorems, TLAPS

\* What the lemmas on arrays need of the state.
ArrayOK == TypeOK /\ Homed /\ OrderedBut(Last) /\ Unique

\* The shape of the table does not change.
SameShape == UNCHANGED <<hash, num_slots_minus_one, max_lookups>>

\* A key k that has passed every entry from its slot up to position p, at
\* distance d, and beats the one there.
MayTake(k, d, p) ==
    /\ k \in Keys /\ d \in Nat /\ p \in Positions
    /\ d < max_lookups
    /\ p = Home(k) + d
    /\ \A q \in Positions : q < p /\ p - q <= d => entries[q].dist >= d - (p - q)
    /\ entries[p].dist < d
    /\ k \notin Stored(entries)

-----------------------------------------------------------------------------
\* The number of lookups of a new array is a number, and large enough.
LEMMA LookupsOK ==
    ASSUME NEW n \in Sizes
    PROVE  ComputeMaxLookups(n) \in Nat \ {0, 1, 2}
BY TableAssumption DEF ComputeMaxLookups

\* Every key hashes to a position before the sentinel, and to a slot once
\* there are slots.
LEMMA HomeOK ==
    ASSUME TypeOK, NEW k \in Keys
    PROVE  /\ Home(k) \in Nat /\ Home(k) < Last
           /\ num_slots_minus_one # 0 => Home(k) <= num_slots_minus_one
<1>1. CASE num_slots_minus_one = 0 /\ max_lookups = MinLookups - 1
  <2>1. Home(k) \in {0, 1}
    BY <1>1, TableAssumption DEF TypeOK, Home
  <2> QED BY <1>1, <2>1, TableAssumption DEF Last
<1>2. CASE num_slots_minus_one \in Slots /\ max_lookups \in Nat \ {0, 1, 2}
  <2>1. PICK n \in Sizes : num_slots_minus_one = n - 1
    BY <1>2 DEF Slots
  <2>2. Home(k) \in 0..(n - 1)
    BY <2>1, TableAssumption DEF TypeOK, Home
  <2> QED BY <1>2, <2>1, <2>2, TableAssumption DEF Last
<1> QED BY <1>1, <1>2 DEF TypeOK

\* The sentinel lies behind the slots.
LEMMA LastOK ==
    ASSUME TypeOK
    PROVE  /\ Last \in Nat \ {0} /\ max_lookups \in Nat \ {0, 1}
           /\ num_slots_minus_one \in Nat
           /\ DOMAIN entries = 0..Last
           /\ \A p \in 0..Last : /\ entries[p].dist \in Nat \cup {-1}
                                 /\ entries[p].key \in Keys \cup {NoKey}
                                 /\ entries[p] = [dist |-> entries[p].dist, key |-> entries[p].key]
<1>1. num_slots_minus_one \in Nat /\ max_lookups \in Nat \ {0, 1}
  <2>1. CASE num_slots_minus_one = 0 /\ max_lookups = MinLookups - 1
    BY <2>1, TableAssumption
  <2>2. CASE num_slots_minus_one \in Slots /\ max_lookups \in Nat \ {0, 1, 2}
    BY <2>2, TableAssumption DEF Slots
  <2> QED BY <2>1, <2>2 DEF TypeOK
<1>2. Last \in Nat \ {0}
  BY <1>1 DEF Last
<1>3. entries \in [0..Last -> [dist : Nat \cup {-1}, key : Keys \cup {NoKey}]]
  BY DEF TypeOK
<1>4. DOMAIN entries = 0..Last
  BY <1>3
<1>5. ASSUME NEW p \in 0..Last
      PROVE  /\ entries[p].dist \in Nat \cup {-1}
             /\ entries[p].key \in Keys \cup {NoKey}
             /\ entries[p] = [dist |-> entries[p].dist, key |-> entries[p].key]
  <2>1. entries[p] \in [dist : Nat \cup {-1}, key : Keys \cup {NoKey}]
    BY <1>3
  <2> QED BY <2>1
<1> QED BY <1>1, <1>2, <1>4, <1>5

\* Being stored is being the key of an entry with a value.
LEMMA StoredIs ==
    ASSUME NEW x
    PROVE  x \in Stored(entries) <=> \E p \in Positions : HasValue(p) /\ entries[p].key = x
BY DEF Stored, Positions, HasValue

\* The same of the next state.
LEMMA StoredIsNext ==
    ASSUME NEW x, SameShape
    PROVE  x \in Stored(entries)' <=> \E p \in Positions : entries'[p].dist >= 0 /\ entries'[p].key = x
BY DEF Stored, Positions, SameShape, Last

\* Only keys are stored.
LEMMA StoredKeys ==
    ASSUME ArrayOK
    PROVE  Stored(entries) \subseteq Keys
BY StoredIs DEF ArrayOK, Homed, HasValue

-----------------------------------------------------------------------------
\* A probe that stops at distance d has stopped before the sentinel, or one
\* behind the last distance allowed.
LEMMA StopOK ==
    ASSUME ArrayOK, EmptyOK, NEW k \in Keys, NEW d \in 0..max_lookups, Stops(k, d),
           num_slots_minus_one # 0, d # max_lookups, NEW p, p = Home(k) + d
    PROVE  /\ p \in Positions
           /\ entries[p].dist < d
           /\ \A q \in Positions : q < p /\ p - q <= d => entries[q].dist >= d - (p - q)
<1> USE DEF ArrayOK
<1>1. p \in Positions
  BY HomeOK, LastOK DEF Positions, Last
<1>2. ASSUME NEW q \in Positions, q < p, p - q <= d
      PROVE  entries[q].dist >= d - (p - q)
  <2>1. q - Home(k) \in 0..(d - 1)
    BY <1>2, HomeOK, LastOK DEF Positions
  <2>2. entries[Home(k) + (q - Home(k))].dist >= q - Home(k)
    BY <2>1 DEF Stops
  <2>3. Home(k) + (q - Home(k)) = q
    BY HomeOK, LastOK DEF Positions
  <2> QED BY <2>2, <2>3, HomeOK, LastOK DEF Positions
<1> QED BY <1>1, <1>2 DEF Stops

\* A key is found exactly if it is stored: no probe stops too early.
LEMMA FoundIsStored ==
    ASSUME ArrayOK, EmptyOK, NEW k \in Keys
    PROVE  Found(k) <=> k \in Stored(entries)
<1> USE DEF ArrayOK
<1>1. ASSUME Found(k) PROVE k \in Stored(entries)
  <2>1. PICK d \in 0..(max_lookups - 1) : Passes(k, d) /\ entries[Home(k) + d].key = k
    BY <1>1 DEF Found
  <2>2. d \in Nat /\ d < max_lookups
    BY <2>1, LastOK
  <2>3. entries[Home(k)].dist >= 0
    <3>1. entries[Home(k) + 0].dist >= 0
      BY <2>1, <2>2 DEF Passes
    <3> QED BY <3>1, HomeOK
  <2>4. num_slots_minus_one # 0
    BY <2>3, HomeOK, LastOK DEF EmptyOK, HasValue, Positions
  <2>5. Home(k) + d \in Positions
    BY <2>2, <2>4, HomeOK, LastOK DEF Positions, Last
  <2>6. HasValue(Home(k) + d)
    BY <2>1, <2>2, <2>5, LastOK DEF Passes, HasValue, Positions
  <2> QED BY <2>1, <2>5, <2>6, StoredIs
<1>2. ASSUME k \in Stored(entries) PROVE Found(k)
  <2>1. PICK p \in Positions : HasValue(p) /\ entries[p].key = k
    BY <1>2, StoredIs
  <2> DEFINE d == entries[p].dist
  <2>2. d \in 0..(max_lookups - 1) /\ p = Home(k) + d
    BY <2>1, LastOK DEF Homed, HasValue, Positions
  <2>3. ASSUME NEW e \in 0..d PROVE entries[Home(k) + e].dist >= e
    <3>1. CASE e = d
      BY <3>1, <2>2, LastOK DEF Positions
    <3>2. CASE e < d
      <4>1. Home(k) + e \in Positions \ {Last} /\ Home(k) + e < p /\ p - (Home(k) + e) <= d
        BY <3>2, <2>2, HomeOK, LastOK DEF Positions
      <4>2. p \in Positions \ {Last}
        BY LastOK DEF Positions
      <4>3. entries[Home(k) + e].dist >= d - (p - (Home(k) + e))
        BY <4>1, <4>2 DEF OrderedBut
      <4> QED BY <4>3, <2>2, HomeOK
    <3> QED BY <3>1, <3>2, <2>2
  <2>4. Passes(k, d)
    BY <2>3 DEF Passes
  <2> QED BY <2>1, <2>2, <2>4 DEF Found
<1> QED BY <1>1, <1>2

-----------------------------------------------------------------------------
\* A key that is put where it may be put keeps the order; the entry it puts
\* out of its place may be put into the next position on the same terms.
LEMMA PutOK ==
    ASSUME ArrayOK, SameShape, NEW k, NEW d, NEW p, MayTake(k, d, p),
           entries' = [entries EXCEPT ![p] = [dist |-> d, key |-> k]]
    PROVE  /\ entries' \in [0..Last -> [dist : Nat \cup {-1}, key : Keys \cup {NoKey}]]
           /\ Homed' /\ OrderedBut(Last)' /\ Unique'
           /\ Stored(entries)' = (Stored(entries) \ (IF HasValue(p) THEN {entries[p].key} ELSE {})) \cup {k}
<1> USE DEF ArrayOK, MayTake
<1>1. /\ p \in 0..Last /\ p # Last /\ d \in Nat
      /\ Last' = Last /\ Positions' = Positions
      /\ Positions \subseteq 0..Last /\ Last \notin Positions
  BY LastOK DEF SameShape, Last, Positions
<1>2. entries' \in [0..Last -> [dist : Nat \cup {-1}, key : Keys \cup {NoKey}]]
  BY <1>1 DEF TypeOK
<1>3. /\ entries'[p].dist = d /\ entries'[p].key = k
      /\ \A q \in 0..Last : q # p => entries'[q] = entries[q]
  BY <1>1, LastOK
<1>4. \A x : Home(x)' = Home(x)
  BY DEF Home, SameShape
<1>5. Homed'
  <2>1. (entries[Last] = End)'
    BY <1>1, <1>3, LastOK DEF Homed, End
  <2>2. ASSUME NEW q \in Positions
        PROVE  IF entries'[q].dist >= 0
               THEN /\ entries'[q].key \in Keys
                    /\ q = Home(entries'[q].key) + entries'[q].dist
                    /\ entries'[q].dist < max_lookups
               ELSE entries'[q].key = NoKey
    <3>1. CASE q = p
      BY <3>1, <1>3
    <3>2. CASE q # p
      BY <3>2, <1>1, <1>3 DEF Homed, HasValue
    <3> QED BY <3>1, <3>2
  <2> QED BY <2>1, <2>2, <1>1, <1>4 DEF Homed, HasValue, SameShape
<1>6. OrderedBut(Last)'
  <2>1. ASSUME NEW a \in Positions, NEW b \in Positions, b < a, a - b <= entries'[a].dist
        PROVE  entries'[b].dist >= entries'[a].dist - (a - b)
    <3>1. CASE a = p
      BY <3>1, <2>1, <1>1, <1>3
    <3>2. CASE a # p /\ b = p
      <4>1. entries[p].dist >= entries[a].dist - (a - p)
        BY <3>2, <2>1, <1>1, <1>3 DEF OrderedBut
      <4>2. entries[p].dist \in Int /\ entries[a].dist \in Int /\ a \in Int
        BY <1>1, LastOK
      <4> QED BY <4>1, <4>2, <3>2, <1>1, <1>3
    <3>3. CASE a # p /\ b # p
      BY <3>3, <2>1, <1>1, <1>3 DEF OrderedBut
    <3> QED BY <3>1, <3>2, <3>3
  <2> QED BY <2>1, <1>1 DEF OrderedBut
<1>7. \A q \in Positions : q # p /\ entries'[q].dist >= 0 => entries'[q].key # k
  BY <1>1, <1>3, StoredIs DEF HasValue
<1>8. Unique'
  <2>1. ASSUME NEW a \in Positions, NEW b \in Positions, entries'[a].dist >= 0,
               entries'[b].dist >= 0, entries'[a].key = entries'[b].key
        PROVE  a = b
    <3>1. CASE a = p \/ b = p
      BY <3>1, <2>1, <1>3, <1>7
    <3>2. CASE a # p /\ b # p
      BY <3>2, <2>1, <1>1, <1>3 DEF Unique, HasValue
    <3> QED BY <3>1, <3>2
  <2> QED BY <2>1, <1>1 DEF Unique, HasValue
<1>9. ASSUME NEW x
      PROVE  x \in Stored(entries)' <=>
                x \in (Stored(entries) \ (IF HasValue(p) THEN {entries[p].key} ELSE {})) \cup {k}
  <2>1. x \in Stored(entries)' <=> \E q \in Positions : entries'[q].dist >= 0 /\ entries'[q].key = x
    BY StoredIsNext
  <2>2. CASE x = k
    BY <2>1, <2>2, <1>3
  <2>3. CASE x # k
    <3>1. x \in Stored(entries)' <=> \E q \in Positions : q # p /\ HasValue(q) /\ entries[q].key = x
      BY <2>1, <2>3, <1>1, <1>3 DEF HasValue
    <3>2. CASE HasValue(p)
      BY <3>1, <3>2, <2>3, StoredIs DEF Unique
    <3>3. CASE ~HasValue(p)
      BY <3>1, <3>3, <2>3, StoredIs
    <3> QED BY <3>2, <3>3
  <2> QED BY <2>2, <2>3
<1> QED BY <1>2, <1>5, <1>6, <1>8, <1>9

\* The entry that was put out.
LEMMA PutOut ==
    ASSUME ArrayOK, SameShape, num_slots_minus_one # 0, NEW k, NEW d, NEW p, MayTake(k, d, p),
           entries' = [entries EXCEPT ![p] = [dist |-> d, key |-> k]],
           HasValue(p)
    PROVE  LET o == entries[p] IN
           /\ o.key \in Keys /\ o.dist + 1 \in 1..(max_lookups - 1)
           /\ p + 1 = Home(o.key) + (o.dist + 1)
           /\ p + 1 \in Positions
           /\ \A q \in Positions : q < p + 1 /\ p + 1 - q <= o.dist + 1
                    => entries'[q].dist >= o.dist + 1 - (p + 1 - q)
           /\ o.key \notin Stored(entries)' /\ o.key # k
<1> USE DEF ArrayOK, MayTake
<1> DEFINE o == entries[p]
<1>1. /\ p \in 0..Last /\ p # Last /\ d \in Nat /\ o.dist \in Nat
      /\ Positions \subseteq 0..Last /\ Last \notin Positions
  BY LastOK DEF Positions, HasValue
<1>2. o.key \in Keys /\ p = Home(o.key) + o.dist /\ o.dist < max_lookups
  BY DEF Homed
<1>3. o.dist + 1 \in 1..(max_lookups - 1) /\ p + 1 = Home(o.key) + (o.dist + 1)
  BY <1>1, <1>2, LastOK, HomeOK
<1>4. p + 1 \in Positions
  BY <1>2, <1>3, HomeOK, LastOK DEF Positions, Last
<1>5. ASSUME NEW q \in Positions, q < p + 1, p + 1 - q <= o.dist + 1
      PROVE  entries'[q].dist >= o.dist + 1 - (p + 1 - q)
  <2>1. q \in Int /\ p \in Int
    BY <1>1
  <2>2. CASE q = p
    <3>1. entries'[p].dist = d /\ o.dist < d
      BY <1>1, LastOK
    <3>2. o.dist + 1 - (p + 1 - p) = o.dist
      BY <2>1, <1>1
    <3> QED BY <2>2, <3>1, <3>2, <1>1
  <2>3. CASE q < p
    <3>1. entries[q].dist >= o.dist - (p - q)
      BY <2>1, <2>3, <1>1, <1>5 DEF OrderedBut
    <3>2. entries'[q] = entries[q] /\ entries[q].dist \in Int
      BY <2>1, <2>3, <1>1, LastOK
    <3> QED BY <3>1, <3>2, <2>1, <1>1
  <2>4. q = p \/ q < p
    BY <2>1, <1>5
  <2> QED BY <2>2, <2>3, <2>4
<1>6. o.key \in Stored(entries)
  BY StoredIs
<1>7. o.key # k
  BY <1>6
<1>8. o.key \notin Stored(entries)'
  <2>1. Stored(entries)' = (Stored(entries) \ {o.key}) \cup {k}
    BY PutOK
  <2> QED BY <2>1, <1>7
<1> QED BY <1>2, <1>3, <1>4, <1>5, <1>7, <1>8

-----------------------------------------------------------------------------
\* The parts of IInv that look at the table only.
LEMMA ArrayOf ==
    ASSUME IInv, pc # "shift"
    PROVE  ArrayOK
<1>1. Positions \ {Last} = Positions
  BY LastOK DEF IInv, Positions
<1> QED BY DEF IInv, ArrayOK, Ordered

\* They stay as they are if the table does.
LEMMA TableSame ==
    ASSUME IInv, SameShape, entries' = entries
    PROVE  /\ Homed' /\ Unique' /\ EmptyOK' /\ Stored(entries)' = Stored(entries)
           /\ Last' = Last /\ Positions' = Positions
           /\ \A h : OrderedBut(h) => OrderedBut(h)'
           /\ \A x : Home(x)' = Home(x)
<1> USE DEF SameShape
<1>1. Last' = Last /\ Positions' = Positions
  BY DEF Last, Positions
<1>2. \A x : Home(x)' = Home(x)
  BY DEF Home
<1>3. Homed'
  BY <1>1, <1>2 DEF IInv, Homed, HasValue
<1>4. Unique' /\ EmptyOK'
  BY <1>1 DEF IInv, Unique, EmptyOK, HasValue
<1>5. Stored(entries)' = Stored(entries)
  BY <1>1 DEF Stored
<1>6. \A h : OrderedBut(h) => OrderedBut(h)'
  BY <1>1 DEF OrderedBut
<1> QED BY <1>1, <1>2, <1>3, <1>4, <1>5, <1>6

\* The invariant at the start.
LEMMA InitOK == Init => IInv /\ Contents = {}
<1> SUFFICES ASSUME Init PROVE IInv /\ Contents = {}
  OBVIOUS
<1> USE DEF Init
<1>1. /\ Last = MinLookups - 1 /\ Last \in Nat \ {0, 1}
      /\ Positions = 0..(Last - 1)
  BY TableAssumption DEF Last, Positions
<1>2. /\ DOMAIN entries = 0..Last
      /\ entries[Last] = End
      /\ \A p \in Positions : entries[p] = Empty
  BY <1>1 DEF NewArray
<1>3. entries \in [0..Last -> [dist : Nat \cup {-1}, key : Keys \cup {NoKey}]]
  BY <1>1, TableAssumption DEF NewArray, End, Empty
<1>4. \A p \in Positions : ~HasValue(p) /\ entries[p].key = NoKey /\ entries[p].dist = -1
  BY <1>2 DEF HasValue, Empty
<1>5. TypeOK
  BY <1>3 DEF TypeOK
<1>6. Homed /\ Unique /\ EmptyOK
  BY <1>2, <1>4 DEF Homed, Unique, EmptyOK
<1>7. Ordered
  BY <1>1, <1>4 DEF Ordered, OrderedBut
<1>8. Stored(entries) = {}
  BY <1>4, StoredIs
<1>9. HandOK /\ PendingOK /\ ShiftOK
  BY <1>8 DEF HandOK, PendingOK, ShiftOK
<1>10. Contents = {}
  BY <1>8 DEF Contents
<1> QED BY <1>5, <1>6, <1>7, <1>9, <1>10 DEF IInv

\* insert is called: nothing is known of the key yet.
LEMMA InsertOK ==
    ASSUME IInv, NEW k \in Keys, Insert(k)
    PROVE  IInv' /\ Contents' = Contents
<1> USE DEF Insert, table, hand
<1>1. /\ Homed' /\ Unique' /\ EmptyOK' /\ Stored(entries)' = Stored(entries)
      /\ Last' = Last /\ Positions' = Positions
      /\ \A h : OrderedBut(h) => OrderedBut(h)'
  BY TableSame DEF SameShape
<1>2. TypeOK'
  BY <1>1 DEF IInv, TypeOK
<1>3. Ordered'
  BY <1>1 DEF IInv, Ordered
<1>4. HandOK' /\ ShiftOK'
  BY DEF HandOK, ShiftOK
<1>5. PendingOK'
  BY <1>1 DEF IInv, PendingOK
<1>6. Contents' = Contents
  BY <1>1 DEF IInv, Contents, PendingOK
<1> QED BY <1>1, <1>2, <1>3, <1>4, <1>5, <1>6 DEF IInv

-----------------------------------------------------------------------------
\* A key in hand is not in the table, or emplace finds it.
LEMMA EmplaceFoundOK ==
    ASSUME IInv, EmplaceFound
    PROVE  IInv' /\ Contents' = Contents
<1> USE DEF EmplaceFound, Return, NoHand, table
<1>1. /\ Homed' /\ Unique' /\ EmptyOK' /\ Stored(entries)' = Stored(entries)
      /\ Last' = Last /\ Positions' = Positions
      /\ \A h : OrderedBut(h) => OrderedBut(h)'
  BY TableSame DEF SameShape
<1>2. key \in Stored(entries)
  BY FoundIsStored, ArrayOf DEF IInv, TypeOK
<1>3. key = arg /\ pending = {}
  BY <1>2 DEF IInv, PendingOK
<1>4. pc' = "idle" /\ arg' = NoKey /\ key' = NoKey
  BY <1>3
<1>5. TypeOK'
  BY <1>1, <1>4 DEF IInv, TypeOK
<1>6. Ordered'
  BY <1>1, <1>4 DEF IInv, Ordered
<1>7. HandOK' /\ ShiftOK' /\ PendingOK'
  BY <1>1, <1>3, <1>4 DEF HandOK, ShiftOK, PendingOK
<1>8. Contents' = Contents
  BY <1>1, <1>3, <1>4 DEF Contents
<1> QED BY <1>1, <1>5, <1>6, <1>7, <1>8 DEF IInv

\* A new array is empty, and its sentinel in place.
LEMMA NewArrayOK ==
    ASSUME NEW n \in Nat, NEW m \in Nat \ {0, 1}, hash \in Hashes,
           num_slots_minus_one' = n, max_lookups' = m, entries' = NewArray(n, m)
    PROVE  /\ entries' \in [0..Last' -> [dist : Nat \cup {-1}, key : Keys \cup {NoKey}]]
           /\ Homed' /\ Unique' /\ EmptyOK' /\ Stored(entries)' = {}
           /\ \A h : OrderedBut(h)'
<1>1. Last' = n + m /\ Last' \in Nat \ {0, 1} /\ Positions' = 0..(n + m - 1)
  BY DEF Last, Positions
<1>2. entries'[Last'] = End /\ \A p \in Positions' : entries'[p] = Empty
  BY <1>1 DEF NewArray
<1>3. \A p \in Positions' : entries'[p].dist = -1 /\ entries'[p].key = NoKey
  BY <1>2 DEF Empty
<1>4. entries' \in [0..Last' -> [dist : Nat \cup {-1}, key : Keys \cup {NoKey}]]
  BY <1>1 DEF NewArray, End, Empty
<1>5. \A p \in Positions' : ~(entries'[p].dist >= 0)
  BY <1>3
<1>6. Homed'
  BY <1>2, <1>3, <1>5 DEF Homed, HasValue
<1>7. Unique' /\ EmptyOK'
  BY <1>5 DEF Unique, EmptyOK, HasValue
<1>8. Stored(entries)' = {}
  BY <1>1, <1>5 DEF Stored
<1>9. ASSUME NEW h PROVE OrderedBut(h)'
  <2>1. ASSUME NEW p \in Positions' \ {h}, NEW q \in Positions' \ {h},
               q < p, p - q <= entries'[p].dist
        PROVE  FALSE
    BY <2>1, <1>1, <1>3
  <2> QED BY <2>1 DEF OrderedBut
<1> QED BY <1>4, <1>6, <1>7, <1>8, <1>9

\* Growing: everything that was in the array is to be inserted again.
LEMMA RehashOK ==
    ASSUME IInv, NEW n \in Sizes, NEW array, Rehash(n, array),
           pc \in {"emplace", "displace"},
           Stored(array) \subseteq Keys, arg \notin Stored(array)
    PROVE  /\ IInv' /\ Contents' = pending \cup Stored(array) \cup ({key} \ {arg})
<1> USE DEF Rehash, NoHand
<1>1. n - 1 \in Nat /\ n - 1 \in Slots /\ ComputeMaxLookups(n) \in Nat \ {0, 1, 2}
  BY LookupsOK, TableAssumption DEF Slots
<1>2. /\ entries' \in [0..Last' -> [dist : Nat \cup {-1}, key : Keys \cup {NoKey}]]
      /\ Homed' /\ Unique' /\ EmptyOK' /\ Stored(entries)' = {}
      /\ \A h : OrderedBut(h)'
  <2>1. hash \in Hashes
    BY DEF IInv, TypeOK
  <2> QED BY <1>1, <2>1, NewArrayOK
<1>3. pending' \subseteq Keys /\ arg \notin pending'
  BY DEF IInv, TypeOK, PendingOK
<1>4. TypeOK'
  BY <1>1, <1>2, <1>3 DEF IInv, TypeOK, Slots
<1>5. Ordered'
  BY <1>2 DEF Ordered
<1>6. HandOK' /\ ShiftOK'
  BY DEF HandOK, ShiftOK
<1>7. PendingOK'
  BY <1>2, <1>3 DEF PendingOK
<1>8. Contents' = pending'
  BY <1>2 DEF Contents
<1> QED BY <1>2, <1>4, <1>5, <1>6, <1>7, <1>8 DEF IInv

\* The probe stopped where the table has to grow.
LEMMA EmplaceGrowOK ==
    ASSUME IInv, NEW d, NEW n \in Sizes, EmplaceGrow(d, n)
    PROVE  IInv' /\ Contents' = Contents
<1> USE DEF EmplaceGrow
<1>1. ArrayOK
  BY ArrayOf
<1>2. key \in Keys /\ key \notin Stored(entries)
  BY <1>1, FoundIsStored DEF IInv, TypeOK
<1>3. arg \notin Stored(entries)
  BY <1>2 DEF IInv, PendingOK
<1>4. Stored(entries) \subseteq Keys
  BY <1>1, StoredKeys
<1>5. IInv' /\ Contents' = pending \cup Stored(entries) \cup ({key} \ {arg})
  BY <1>3, <1>4, RehashOK
<1> QED BY <1>5 DEF Contents

\* The rehash takes its next key, or has none left.
LEMMA RehashNextOK ==
    ASSUME IInv, NEW k \in Keys, RehashNext(k)
    PROVE  IInv' /\ Contents' = Contents
<1> USE DEF RehashNext, table, hand
<1>1. /\ Homed' /\ Unique' /\ EmptyOK' /\ Stored(entries)' = Stored(entries)
      /\ Last' = Last /\ Positions' = Positions
      /\ \A h : OrderedBut(h) => OrderedBut(h)'
  BY TableSame DEF SameShape
<1>2. arg \notin pending /\ arg \notin Stored(entries) /\ pending \cap Stored(entries) = {}
  BY DEF IInv, PendingOK
<1>3. IF pending = {} THEN k = arg ELSE k \in pending /\ k # arg
  BY <1>2
<1>4. TypeOK'
  BY <1>1 DEF IInv, TypeOK
<1>5. Ordered'
  BY <1>1 DEF IInv, Ordered
<1>6. HandOK' /\ ShiftOK'
  BY DEF HandOK, ShiftOK
<1>7. PendingOK'
  BY <1>1, <1>2, <1>3 DEF PendingOK
<1>8. Contents' = Contents
  BY <1>1, <1>2, <1>3 DEF Contents
<1> QED BY <1>1, <1>4, <1>5, <1>6, <1>7, <1>8 DEF IInv

-----------------------------------------------------------------------------
\* The key in hand may take the place where the probe stopped.
LEMMA EmplaceMayTake ==
    ASSUME IInv, pc = "emplace", NEW d \in 0..max_lookups, ~Found(key), Stops(key, d), ~MustGrow(d),
           NEW p, p = Home(key) + d
    PROVE  /\ ArrayOK /\ num_slots_minus_one # 0
           /\ MayTake(key, d, p)
           /\ key \in Keys /\ key \notin Stored(entries) /\ arg \notin Stored(entries)
<1>1. ArrayOK /\ key \in Keys /\ max_lookups \in Nat \ {0, 1}
  BY ArrayOf, LastOK DEF IInv, TypeOK
<1>2. num_slots_minus_one # 0 /\ d \in Nat /\ d < max_lookups
  BY <1>1 DEF MustGrow
<1>3. key \notin Stored(entries)
  BY <1>1, FoundIsStored DEF IInv
<1>4. arg \notin Stored(entries)
  BY <1>3 DEF IInv, PendingOK
<1>5. /\ p \in Positions
      /\ entries[p].dist < d
      /\ \A q \in Positions : q < p /\ p - q <= d => entries[q].dist >= d - (p - q)
  BY <1>1, <1>2, StopOK DEF IInv
<1> QED BY <1>1, <1>2, <1>3, <1>4, <1>5 DEF MayTake

\* emplace_new_key puts the key into an empty entry and returns.
LEMMA EmplaceEmptyOK ==
    ASSUME IInv, NEW d \in 0..max_lookups, EmplaceEmpty(d)
    PROVE  /\ IInv'
           /\ Contents' = IF key = arg THEN Contents \cup {arg} ELSE Contents
<1> DEFINE p == Home(key) + d
<1> USE DEF EmplaceEmpty, Return, NoHand
<1>1. /\ ArrayOK /\ num_slots_minus_one # 0 /\ MayTake(key, d, p)
      /\ key \in Keys /\ key \notin Stored(entries) /\ arg \notin Stored(entries)
  BY EmplaceMayTake
<1>2. SameShape /\ ~HasValue(p)
  BY <1>1, LastOK DEF SameShape, HasValue, MayTake, ArrayOK, Positions
<1>3. /\ entries' \in [0..Last -> [dist : Nat \cup {-1}, key : Keys \cup {NoKey}]]
      /\ Homed' /\ OrderedBut(Last)' /\ Unique'
      /\ Stored(entries)' = Stored(entries) \cup {key}
  BY <1>1, <1>2, PutOK
<1>4. Last' = Last /\ num_slots_minus_one' # 0
  BY <1>1 DEF Last
<1>5. TypeOK'
  BY <1>3, <1>4 DEF IInv, TypeOK, Slots
<1>6. Ordered'
  BY <1>3 DEF Ordered
<1>7. HandOK' /\ ShiftOK' /\ EmptyOK'
  BY <1>4 DEF HandOK, ShiftOK, EmptyOK
<1>8. PendingOK'
  BY <1>1, <1>3 DEF IInv, PendingOK
<1>9. Contents' = IF key = arg THEN Contents \cup {arg} ELSE Contents
  BY <1>1, <1>3 DEF IInv, PendingOK, Contents
<1> QED BY <1>3, <1>5, <1>6, <1>7, <1>8, <1>9 DEF IInv

\* emplace_new_key puts the key into the place of an entry, which moves on.
LEMMA EmplaceSwapOK ==
    ASSUME IInv, NEW d \in 0..max_lookups, EmplaceSwap(d)
    PROVE  IInv' /\ Contents' = Contents
<1> DEFINE p == Home(key) + d
           o == entries[p]
<1>0. /\ pc = "emplace" /\ ~Found(key) /\ Stops(key, d) /\ ~MustGrow(d)
      /\ o.dist >= 0 /\ p = Home(key) + d
      /\ entries' = [entries EXCEPT ![p] = [dist |-> d, key |-> key]]
      /\ to_insert' = o.key /\ distance_from_desired' = o.dist + 1
      /\ current_entry' = p + 1 /\ result' = p
      /\ pc' = "displace"
      /\ SameShape /\ UNCHANGED <<num_elements, arg, key, pending>>
  BY DEF EmplaceSwap, SameShape
<1> HIDE DEF p
<1>1. /\ ArrayOK /\ num_slots_minus_one # 0 /\ MayTake(key, d, p)
      /\ key \in Keys /\ key \notin Stored(entries) /\ arg \notin Stored(entries)
  BY <1>0, EmplaceMayTake
<1>2. SameShape /\ HasValue(p) /\ p \in Positions
  BY <1>0, <1>1 DEF HasValue, MayTake
<1>3. /\ entries' \in [0..Last -> [dist : Nat \cup {-1}, key : Keys \cup {NoKey}]]
      /\ Homed' /\ OrderedBut(Last)' /\ Unique'
      /\ Stored(entries)' = (Stored(entries) \ {o.key}) \cup {key}
  BY <1>0, <1>1, <1>2, PutOK
<1>4. /\ o.key \in Keys /\ o.dist + 1 \in 1..(max_lookups - 1)
      /\ p + 1 = Home(o.key) + (o.dist + 1)
      /\ p + 1 \in Positions
      /\ \A q \in Positions : q < p + 1 /\ p + 1 - q <= o.dist + 1
                    => entries'[q].dist >= o.dist + 1 - (p + 1 - q)
      /\ o.key \notin Stored(entries)' /\ o.key # key
  BY <1>0, <1>1, <1>2, PutOut
<1>5. /\ Last' = Last /\ Positions' = Positions /\ num_slots_minus_one' # 0
      /\ \A x : Home(x)' = Home(x)
      /\ p \in Nat /\ p \in 0..Last /\ d \in Nat /\ o.dist \in Nat
      /\ Positions \subseteq Nat
  BY <1>1, <1>2, LastOK DEF Last, Positions, Home, ArrayOK, SameShape, MayTake, HasValue
<1>6. o.key \in Stored(entries)
  BY <1>2, StoredIs
<1>7. entries'[p].dist = d /\ entries'[p].key = key
  BY <1>0, <1>5, LastOK DEF IInv
<1>8. TypeOK'
  BY <1>0, <1>3, <1>4, <1>5 DEF IInv, TypeOK, Slots, SameShape
<1> HIDE DEF o
<1>9. Ordered'
  BY <1>0, <1>3 DEF Ordered
<1>10. HandOK'
  <2>1. /\ result' = p /\ current_entry' = p + 1 /\ to_insert' = o.key
        /\ distance_from_desired' = o.dist + 1 /\ key' = key /\ max_lookups' = max_lookups
    BY <1>0 DEF SameShape
  <2>2. (to_insert \in Keys)' /\ (distance_from_desired \in 1..(max_lookups - 1))'
    BY <1>4, <2>1
  <2>3. (current_entry = Home(to_insert) + distance_from_desired)' /\ (current_entry \in Positions)'
    BY <1>4, <1>5, <2>1
  <2>4. ASSUME NEW q \in Positions', q < current_entry', current_entry' - q <= distance_from_desired'
        PROVE  entries'[q].dist >= distance_from_desired' - (current_entry' - q)
    <3>1. q \in Positions /\ q < p + 1 /\ p + 1 - q <= o.dist + 1
      BY <2>1, <2>4, <1>5
    <3>2. entries'[q].dist >= o.dist + 1 - (p + 1 - q)
      BY <3>1, <1>4
    <3>3. distance_from_desired' - (current_entry' - q) = o.dist + 1 - (p + 1 - q)
      BY <2>1, <3>1, <1>5
    <3> QED BY <3>2, <3>3
  <2>5. (to_insert \notin Stored(entries))'
    BY <1>4, <2>1
  <2>6. /\ (result \in Positions)' /\ (HasValue(result))' /\ (entries[result].key = key)'
        /\ (result < current_entry)'
    BY <1>2, <1>5, <1>7, <2>1 DEF HasValue
  <2> QED BY <2>2, <2>3, <2>4, <2>5, <2>6 DEF HandOK
<1>11. ShiftOK' /\ EmptyOK'
  BY <1>0, <1>5 DEF ShiftOK, EmptyOK
<1>12. /\ pending \cap Stored(entries) = {} /\ key \notin pending /\ arg \notin pending
       /\ key = arg => pending = {}
  BY <1>0 DEF IInv, PendingOK
<1>13. /\ pc' = "displace" /\ to_insert' = o.key /\ key' = key /\ arg' = arg /\ pending' = pending
  BY <1>0
<1>14. PendingOK'
  <2>1. pending' \cap Stored(entries)' = {} /\ to_insert' \notin pending' /\ key' \notin pending'
    BY <1>3, <1>6, <1>12, <1>13
  <2>2. key' # arg' => arg' \notin Stored(entries)' \cup {to_insert'}
    BY <1>1, <1>3, <1>6, <1>13
  <2> QED BY <2>1, <2>2, <1>12, <1>13 DEF PendingOK
<1>15. Contents' = Contents
  <2>1. Contents = Stored(entries) \cup pending \cup ({key} \ {arg})
    BY <1>0 DEF Contents
  <2>2. Contents' = (Stored(entries)' \cup pending \cup {o.key}) \ {arg}
    BY <1>13 DEF Contents
  <2>3. Stored(entries)' \cup {o.key} = Stored(entries) \cup {key}
    BY <1>3, <1>6
  <2> QED BY <2>1, <2>2, <2>3, <1>1, <1>12
<1> QED BY <1>3, <1>8, <1>9, <1>10, <1>11, <1>14, <1>15 DEF IInv

-----------------------------------------------------------------------------
\* The entry in hand may take the place where the loop stands.
LEMMA DisplaceMayTake ==
    ASSUME IInv, pc = "displace", entries[current_entry].dist < distance_from_desired
    PROVE  /\ ArrayOK /\ num_slots_minus_one # 0
           /\ MayTake(to_insert, distance_from_desired, current_entry)
<1>1. ArrayOK /\ max_lookups \in Nat \ {0, 1}
  BY ArrayOf, LastOK DEF IInv
<1>2. num_slots_minus_one # 0
  BY DEF IInv, HandOK, EmptyOK
<1>3. distance_from_desired \in Nat /\ distance_from_desired < max_lookups
  BY <1>1 DEF IInv, HandOK
<1> QED BY <1>1, <1>2, <1>3 DEF MayTake, IInv, HandOK

\* The loop of emplace_new_key puts the entry in hand into an empty one.
LEMMA DisplaceEmptyOK ==
    ASSUME IInv, DisplaceEmpty
    PROVE  /\ IInv'
           /\ Contents' = IF key = arg THEN Contents \cup {arg} ELSE Contents
<1> USE DEF DisplaceEmpty, Return, NoHand
<1>0. distance_from_desired \in Nat /\ entries[current_entry].dist \in Int
  BY LastOK DEF IInv, TypeOK, HandOK, Positions
<1>1. /\ ArrayOK /\ num_slots_minus_one # 0
      /\ MayTake(to_insert, distance_from_desired, current_entry)
  BY <1>0, DisplaceMayTake
<1>2. SameShape /\ ~HasValue(current_entry)
  BY <1>0 DEF SameShape, HasValue
<1>3. /\ entries' \in [0..Last -> [dist : Nat \cup {-1}, key : Keys \cup {NoKey}]]
      /\ Homed' /\ OrderedBut(Last)' /\ Unique'
      /\ Stored(entries)' = Stored(entries) \cup {to_insert}
  BY <1>1, <1>2, PutOK
<1>4. Last' = Last /\ num_slots_minus_one' # 0
  BY <1>1 DEF Last
<1>5. TypeOK'
  BY <1>3, <1>4 DEF IInv, TypeOK, Slots
<1>6. Ordered'
  BY <1>3 DEF Ordered
<1>7. HandOK' /\ ShiftOK' /\ EmptyOK'
  BY <1>4 DEF HandOK, ShiftOK, EmptyOK
<1>8. /\ pending \cap Stored(entries) = {} /\ to_insert \notin pending /\ arg \notin pending
      /\ key = arg => pending = {}
      /\ key # arg => arg \notin Stored(entries) \cup {to_insert}
  BY DEF IInv, PendingOK
<1>9. key \in Stored(entries)
  BY StoredIs DEF IInv, HandOK
<1>10. PendingOK'
  BY <1>3, <1>8 DEF PendingOK
<1>11. Contents' = IF key = arg THEN Contents \cup {arg} ELSE Contents
  <2>1. Contents = (Stored(entries) \cup pending \cup {to_insert}) \ {arg}
    BY DEF Contents
  <2>2. Contents' = Stored(entries)' \cup pending
    BY DEF Contents
  <2> QED BY <2>1, <2>2, <1>3, <1>8, <1>9
<1> QED BY <1>3, <1>5, <1>6, <1>7, <1>10, <1>11 DEF IInv

\* The loop puts the entry in hand into the place of another one.
LEMMA DisplaceSwapOK ==
    ASSUME IInv, DisplaceSwap
    PROVE  IInv' /\ Contents' = Contents
<1> DEFINE p == current_entry
           o == entries[p]
<1>0. /\ pc = "displace" /\ o.dist >= 0 /\ o.dist < distance_from_desired
      /\ entries' = [entries EXCEPT ![p] = [dist |-> distance_from_desired, key |-> to_insert]]
      /\ to_insert' = o.key /\ distance_from_desired' = o.dist + 1
      /\ current_entry' = p + 1
      /\ SameShape /\ UNCHANGED <<num_elements, pc, arg, key, pending, result>>
  BY DEF DisplaceSwap, SameShape
<1>1. /\ ArrayOK /\ num_slots_minus_one # 0
      /\ MayTake(to_insert, distance_from_desired, p)
  BY <1>0, DisplaceMayTake
<1>2. SameShape /\ HasValue(p) /\ p \in Positions
  BY <1>0, <1>1 DEF HasValue, MayTake
<1>3. /\ entries' \in [0..Last -> [dist : Nat \cup {-1}, key : Keys \cup {NoKey}]]
      /\ Homed' /\ OrderedBut(Last)' /\ Unique'
      /\ Stored(entries)' = (Stored(entries) \ {o.key}) \cup {to_insert}
  BY <1>0, <1>1, <1>2, PutOK
<1>4. /\ o.key \in Keys /\ o.dist + 1 \in 1..(max_lookups - 1)
      /\ p + 1 = Home(o.key) + (o.dist + 1)
      /\ p + 1 \in Positions
      /\ \A q \in Positions : q < p + 1 /\ p + 1 - q <= o.dist + 1
                    => entries'[q].dist >= o.dist + 1 - (p + 1 - q)
      /\ o.key \notin Stored(entries)' /\ o.key # to_insert
  BY <1>0, <1>1, <1>2, PutOut
<1>5. /\ Last' = Last /\ Positions' = Positions /\ num_slots_minus_one' # 0
      /\ \A x : Home(x)' = Home(x)
      /\ p \in Nat /\ p \in 0..Last /\ o.dist \in Nat
      /\ Positions \subseteq 0..Last /\ Positions \subseteq Nat
  BY <1>1, <1>2, LastOK DEF Last, Positions, Home, ArrayOK, SameShape, MayTake, HasValue
<1>6. o.key \in Stored(entries)
  BY <1>2, StoredIs
<1>7. TypeOK'
  BY <1>0, <1>3, <1>4, <1>5 DEF IInv, TypeOK, Slots, SameShape
<1>8. /\ result \in Positions /\ HasValue(result) /\ entries[result].key = key
      /\ result < p /\ result # p
      /\ to_insert \notin Stored(entries)
  BY <1>0, <1>5 DEF IInv, HandOK
<1>9. entries'[result] = entries[result]
  BY <1>0, <1>5, <1>8, LastOK DEF IInv
<1> HIDE DEF o
<1>10. Ordered'
  BY <1>0, <1>3 DEF Ordered
<1>11. HandOK'
  <2>1. /\ result' = result /\ current_entry' = p + 1 /\ to_insert' = o.key
        /\ distance_from_desired' = o.dist + 1 /\ key' = key /\ max_lookups' = max_lookups
    BY <1>0 DEF SameShape
  <2>2. (to_insert \in Keys)' /\ (distance_from_desired \in 1..(max_lookups - 1))'
    BY <1>4, <2>1
  <2>3. (current_entry = Home(to_insert) + distance_from_desired)' /\ (current_entry \in Positions)'
    BY <1>4, <1>5, <2>1
  <2>4. ASSUME NEW q \in Positions', q < current_entry', current_entry' - q <= distance_from_desired'
        PROVE  entries'[q].dist >= distance_from_desired' - (current_entry' - q)
    <3>1. q \in Positions /\ q < p + 1 /\ p + 1 - q <= o.dist + 1
      BY <2>1, <2>4, <1>5
    <3>2. entries'[q].dist >= o.dist + 1 - (p + 1 - q)
      BY <3>1, <1>4
    <3>3. distance_from_desired' - (current_entry' - q) = o.dist + 1 - (p + 1 - q)
      BY <2>1, <3>1, <1>5
    <3> QED BY <3>2, <3>3
  <2>5. (to_insert \notin Stored(entries))'
    BY <1>4, <2>1
  <2>6. /\ (result \in Positions)' /\ (HasValue(result))' /\ (entries[result].key = key)'
        /\ (result < current_entry)'
    <3>1. result < p + 1
      BY <1>5, <1>8
    <3>2. result' \in Positions' /\ entries'[result'].key = key'
      BY <1>5, <1>8, <1>9, <2>1
    <3>3. entries'[result'].dist >= 0
      BY <1>8, <1>9, <2>1 DEF HasValue
    <3> QED BY <2>1, <3>1, <3>2, <3>3 DEF HasValue
  <2> QED BY <2>2, <2>3, <2>4, <2>5, <2>6 DEF HandOK
<1>12. ShiftOK' /\ EmptyOK'
  BY <1>0, <1>5 DEF ShiftOK, EmptyOK
<1>13. /\ pending \cap Stored(entries) = {} /\ to_insert \notin pending
       /\ key \notin pending /\ arg \notin pending
       /\ key = arg => pending = {}
       /\ key # arg => arg \notin Stored(entries) \cup {to_insert}
  BY <1>0 DEF IInv, PendingOK
<1>14. /\ pc' = "displace" /\ to_insert' = o.key /\ key' = key /\ arg' = arg /\ pending' = pending
  BY <1>0
<1>15. PendingOK'
  <2>1. pending' \cap Stored(entries)' = {} /\ to_insert' \notin pending' /\ key' \notin pending'
    BY <1>3, <1>6, <1>13, <1>14
  <2>2. key' # arg' => arg' \notin Stored(entries)' \cup {to_insert'}
    BY <1>3, <1>6, <1>13, <1>14
  <2> QED BY <2>1, <2>2, <1>13, <1>14 DEF PendingOK
<1>16. Contents' = Contents
  <2>1. Contents = (Stored(entries) \cup pending \cup {to_insert}) \ {arg}
    BY <1>0 DEF Contents
  <2>2. Contents' = (Stored(entries)' \cup pending \cup {o.key}) \ {arg}
    BY <1>14 DEF Contents
  <2>3. Stored(entries)' \cup {o.key} = Stored(entries) \cup {to_insert}
    BY <1>3, <1>6
  <2> QED BY <2>1, <2>2, <2>3
<1> QED BY <1>3, <1>7, <1>10, <1>11, <1>12, <1>15, <1>16 DEF IInv

\* The loop goes on to the next entry.
LEMMA DisplacePassOK ==
    ASSUME IInv, DisplacePass
    PROVE  IInv' /\ Contents' = Contents
<1> USE DEF DisplacePass, table
<1> DEFINE p == current_entry
           d == distance_from_desired
<1>1. /\ Homed' /\ Unique' /\ EmptyOK' /\ Stored(entries)' = Stored(entries)
      /\ Last' = Last /\ Positions' = Positions
      /\ \A h : OrderedBut(h) => OrderedBut(h)'
      /\ \A x : Home(x)' = Home(x)
  BY TableSame DEF SameShape
<1>2. /\ max_lookups \in Nat \ {0, 1} /\ p \in Nat /\ d \in Nat
      /\ Positions \subseteq 0..Last /\ Last \in Nat
      /\ num_slots_minus_one \in Nat /\ num_slots_minus_one # 0
  BY LastOK DEF IInv, TypeOK, Positions, HandOK, EmptyOK
<1>3. /\ to_insert \in Keys /\ d \in 1..(max_lookups - 1) /\ p = Home(to_insert) + d
      /\ p \in Positions /\ to_insert \notin Stored(entries)
      /\ result \in Positions /\ HasValue(result) /\ entries[result].key = key
      /\ result < p
      /\ \A q \in Positions : q < p /\ p - q <= d => entries[q].dist >= d - (p - q)
  BY DEF IInv, HandOK
<1>4. d + 1 \in 1..(max_lookups - 1) /\ p + 1 = Home(to_insert) + (d + 1)
  BY <1>2, <1>3, HomeOK DEF IInv
<1>5. p + 1 \in Positions
  BY <1>2, <1>3, <1>4, HomeOK DEF IInv, Positions, Last
<1>6. ASSUME NEW q \in Positions, q < p + 1, p + 1 - q <= d + 1
      PROVE  entries[q].dist >= d + 1 - (p + 1 - q)
  <2>1. q \in Nat /\ entries[q].dist \in Int
    BY <1>2, LastOK DEF IInv
  <2>2. CASE q = p
    BY <2>1, <2>2, <1>2
  <2>3. CASE q < p
    BY <2>1, <2>3, <1>2, <1>3, <1>6
  <2> QED BY <2>1, <2>2, <2>3, <1>2, <1>6
<1>7. TypeOK'
  BY <1>1, <1>2 DEF IInv, TypeOK
<1>8. Ordered'
  BY <1>1 DEF IInv, Ordered
<1>9. HandOK'
  <2>1. /\ result' = result /\ current_entry' = p + 1 /\ to_insert' = to_insert
        /\ distance_from_desired' = d + 1 /\ key' = key /\ max_lookups' = max_lookups
        /\ entries' = entries
    OBVIOUS
  <2> HIDE DEF DisplacePass, p, d
  <2>2. (to_insert \in Keys)' /\ (distance_from_desired \in 1..(max_lookups - 1))'
    BY <1>3, <1>4, <2>1
  <2>3. (current_entry = Home(to_insert) + distance_from_desired)' /\ (current_entry \in Positions)'
    BY <1>1, <1>4, <1>5, <2>1
  <2>4. ASSUME NEW q \in Positions', q < current_entry', current_entry' - q <= distance_from_desired'
        PROVE  entries'[q].dist >= distance_from_desired' - (current_entry' - q)
    <3>1. q \in Positions /\ q < p + 1 /\ p + 1 - q <= d + 1 /\ q \in Nat
      BY <2>1, <2>4, <1>1, <1>2
    <3>2. entries'[q].dist >= d + 1 - (p + 1 - q)
      BY <3>1, <1>6, <2>1
    <3>3. distance_from_desired' - (current_entry' - q) = d + 1 - (p + 1 - q)
      BY <2>1, <3>1, <1>2
    <3> QED BY <3>2, <3>3
  <2>5. (to_insert \notin Stored(entries))'
    BY <1>1, <1>3, <2>1
  <2>6. /\ (result \in Positions)' /\ (HasValue(result))' /\ (entries[result].key = key)'
    BY <1>1, <1>3, <2>1 DEF HasValue
  <2>7. result < p + 1
    BY <1>2, <1>3
  <2>8. (result < current_entry)'
    BY <2>1, <2>7
  <2> QED BY <2>2, <2>3, <2>4, <2>5, <2>6, <2>8 DEF HandOK
<1>10. ShiftOK' /\ PendingOK'
  BY <1>1 DEF IInv, ShiftOK, PendingOK
<1>11. Contents' = Contents
  BY <1>1 DEF Contents
<1> QED BY <1>1, <1>7, <1>8, <1>9, <1>10, <1>11 DEF IInv

\* The entry in hand has nowhere to go: it takes the place of the key, and
\* everything is inserted again, the key last.
LEMMA DisplaceGrowOK ==
    ASSUME IInv, NEW n \in Sizes, DisplaceGrow(n)
    PROVE  IInv' /\ Contents' = Contents
<1> DEFINE array == [entries EXCEPT ![result].key = to_insert]
<1>1. pc = "displace" /\ Rehash(n, array)
  BY DEF DisplaceGrow
<1>2. /\ to_insert \in Keys /\ to_insert \notin Stored(entries)
      /\ result \in Positions /\ HasValue(result) /\ entries[result].key = key
      /\ key \in Keys /\ arg \in Keys
  BY <1>1 DEF IInv, HandOK, TypeOK
<1>3. key \in Stored(entries)
  BY <1>2, StoredIs
<1>4. /\ key = arg => pending = {}
      /\ key # arg => arg \notin Stored(entries) \cup {to_insert}
      /\ arg \notin pending
  BY <1>1 DEF IInv, PendingOK
<1>5. ArrayOK
  BY <1>1, ArrayOf
<1>6. /\ array[result].dist = entries[result].dist /\ array[result].key = to_insert
      /\ \A q \in Positions : q # result => array[q] = entries[q]
  BY <1>2, LastOK DEF IInv, Positions
<1>7. ASSUME NEW x
      PROVE  x \in Stored(array) <=> x \in (Stored(entries) \ {key}) \cup {to_insert}
  <2>1. x \in Stored(array) <=> \E q \in Positions : array[q].dist >= 0 /\ array[q].key = x
    BY DEF Stored, Positions
  <2>2. CASE x = to_insert
    BY <1>2, <1>6, <2>1, <2>2 DEF HasValue
  <2>3. CASE x # to_insert
    <3>1. x \in Stored(array) <=> \E q \in Positions : q # result /\ HasValue(q) /\ entries[q].key = x
      BY <1>6, <2>1, <2>3 DEF HasValue
    <3> QED BY <3>1, <2>3, <1>2, <1>5, StoredIs DEF ArrayOK, Unique
  <2> QED BY <2>2, <2>3
<1> HIDE DEF array
<1>8. Stored(array) \subseteq Keys /\ arg \notin Stored(array)
  BY <1>2, <1>3, <1>4, <1>5, <1>7, StoredKeys
<1>9. IInv' /\ Contents' = pending \cup Stored(array) \cup ({key} \ {arg})
  BY <1>1, <1>8, RehashOK
<1>10. Contents = (Stored(entries) \cup pending \cup {to_insert}) \ {arg}
  BY <1>1 DEF Contents
<1>11. Contents' = Contents
  BY <1>2, <1>3, <1>4, <1>7, <1>9, <1>10
<1> QED BY <1>9, <1>11

-----------------------------------------------------------------------------
\* erase takes the key out and leaves a hole.
LEMMA EraseOK ==
    ASSUME IInv, NEW k \in Keys, Erase(k)
    PROVE  IInv' /\ Contents' = Contents \ {k}
<1>1. ArrayOK /\ EmptyOK /\ k # NoKey
  BY ArrayOf, TableAssumption DEF Erase, IInv
<1>2. k \in Stored(entries)
  BY <1>1, FoundIsStored DEF Erase
<1>3. num_slots_minus_one # 0
  BY <1>2, StoredIs DEF IInv, EmptyOK
<1>4. PICK d \in 0..(max_lookups - 1) :
        /\ entries[Home(k) + d].key = k
        /\ entries' = [entries EXCEPT ![Home(k) + d] = Empty]
        /\ current_entry' = Home(k) + d
  BY DEF Erase
<1> DEFINE c == Home(k) + d
<1>5. /\ c \in Positions /\ c \in Nat /\ Positions \subseteq 0..Last /\ Last \notin Positions
      /\ Last \in Nat
  BY <1>3, <1>4, HomeOK, LastOK DEF IInv, Positions, Last
<1>6. /\ entries[c].key = k /\ current_entry' = c
      /\ entries' = [entries EXCEPT ![c] = Empty]
      /\ SameShape /\ pc = "idle" /\ pc' = "shift"
      /\ UNCHANGED <<arg, key, pending, to_insert, distance_from_desired, result>>
  BY <1>4 DEF Erase, SameShape
<1> HIDE DEF c
<1>7. HasValue(c)
  BY <1>1, <1>5, <1>6 DEF ArrayOK, Homed
<1>8. /\ entries'[c] = Empty
      /\ \A q \in 0..Last : q # c => entries'[q] = entries[q]
      /\ Last' = Last /\ Positions' = Positions
      /\ \A x : Home(x)' = Home(x)
  BY <1>5, <1>6, LastOK DEF IInv, Last, Positions, Home, SameShape
<1>9. entries' \in [0..Last -> [dist : Nat \cup {-1}, key : Keys \cup {NoKey}]]
  BY <1>5, <1>6 DEF IInv, TypeOK, Empty
<1>10. TypeOK'
  BY <1>5, <1>6, <1>8, <1>9 DEF IInv, TypeOK, SameShape
<1>11. Homed'
  BY <1>1, <1>5, <1>6, <1>8 DEF ArrayOK, Homed, HasValue, Empty, SameShape
<1>12. Unique'
  <2>1. ASSUME NEW a \in Positions, NEW b \in Positions, entries'[a].dist >= 0,
               entries'[b].dist >= 0, entries'[a].key = entries'[b].key
        PROVE  a = b
    <3>1. a # c /\ b # c
      BY <2>1, <1>8 DEF Empty
    <3> QED BY <3>1, <2>1, <1>1, <1>5, <1>8 DEF ArrayOK, Unique, HasValue
  <2> QED BY <2>1, <1>8 DEF Unique, HasValue
<1>13. Ordered'
  <2>1. ASSUME NEW a \in Positions \ {c}, NEW b \in Positions \ {c}, b < a,
               a - b <= entries'[a].dist
        PROVE  entries'[b].dist >= entries'[a].dist - (a - b)
    <3>1. entries'[a] = entries[a] /\ entries'[b] = entries[b]
      BY <1>5, <1>8
    <3> QED BY <3>1, <2>1, <1>1, <1>5 DEF ArrayOK, OrderedBut
  <2> QED BY <2>1, <1>6, <1>8 DEF Ordered, OrderedBut
<1>15. ASSUME NEW x
       PROVE  x \in Stored(entries)' <=> x \in Stored(entries) \ {k}
  <2>1. x \in Stored(entries)' <=> \E q \in Positions : q # c /\ HasValue(q) /\ entries[q].key = x
    <3>1. x \in Stored(entries)' <=> \E q \in Positions : entries'[q].dist >= 0 /\ entries'[q].key = x
      BY <1>6, StoredIsNext
    <3>2. ~(entries'[c].dist >= 0)
      BY <1>8 DEF Empty
    <3> QED BY <3>1, <3>2, <1>5, <1>8 DEF HasValue
  <2> QED BY <2>1, <1>1, <1>5, <1>6, <1>7, StoredIs DEF ArrayOK, Unique
<1>16. HandOK' /\ ShiftOK' /\ EmptyOK'
  BY <1>3, <1>5, <1>6, <1>8 DEF HandOK, ShiftOK, EmptyOK, HasValue, Empty, SameShape
<1>17. pending = {} /\ pending' = {}
  BY <1>6 DEF IInv, PendingOK
<1>18. PendingOK'
  BY <1>6, <1>17 DEF PendingOK
<1>19. Contents' = Contents \ {k}
  BY <1>6, <1>15, <1>17 DEF Contents
<1> QED BY <1>10, <1>11, <1>12, <1>13, <1>16, <1>18, <1>19 DEF IInv

\* The next entry moves into the hole, which moves on by one.
LEMMA ShiftStepOK ==
    ASSUME IInv, Shift
    PROVE  IInv' /\ Contents' = Contents
<1> DEFINE c == current_entry
           next == entries[c + 1]
<1>1. /\ pc = "shift" /\ pc' = "shift" /\ next.dist > 0
      /\ entries' = [entries EXCEPT ![c] = [dist |-> next.dist - 1, key |-> next.key], ![c + 1] = Empty]
      /\ current_entry' = c + 1
      /\ SameShape
      /\ UNCHANGED <<arg, key, pending, to_insert, distance_from_desired, result>>
  BY DEF Shift, SameShape
<1>2. /\ c \in Positions /\ ~HasValue(c) /\ c \in Nat
      /\ Positions \subseteq 0..Last /\ Positions \subseteq Nat /\ Last \notin Positions
      /\ Last \in Nat
  BY <1>1, LastOK DEF IInv, ShiftOK, Positions
<1>3. Homed /\ Unique /\ OrderedBut(c)
  BY <1>1 DEF IInv, Ordered
<1>4. c + 1 \in Positions /\ next.dist \in Nat
  <2>1. c + 1 # Last
    BY <1>1, <1>2, <1>3 DEF Homed, End
  <2>2. c + 1 \in Positions
    BY <2>1, <1>2 DEF Positions
  <2> QED BY <2>2, <1>1, <1>2, LastOK DEF IInv
<1>5. HasValue(c + 1) /\ next.key \in Keys /\ c + 1 = Home(next.key) + next.dist
      /\ next.dist < max_lookups
  BY <1>1, <1>3, <1>4 DEF Homed, HasValue
<1>6. c = Home(next.key) + (next.dist - 1) /\ next.dist - 1 \in Nat /\ next.dist - 1 < max_lookups
  BY <1>1, <1>2, <1>4, <1>5, HomeOK, LastOK DEF IInv
<1>7. num_slots_minus_one # 0
  BY <1>4, <1>5 DEF IInv, EmptyOK
<1>8. /\ entries'[c].dist = next.dist - 1 /\ entries'[c].key = next.key
      /\ entries'[c + 1] = Empty
      /\ \A q \in 0..Last : q # c /\ q # c + 1 => entries'[q] = entries[q]
      /\ Last' = Last /\ Positions' = Positions
      /\ \A x : Home(x)' = Home(x)
  BY <1>1, <1>2, <1>4, LastOK DEF IInv, Last, Positions, Home, SameShape
<1>9. entries' \in [0..Last -> [dist : Nat \cup {-1}, key : Keys \cup {NoKey}]]
  BY <1>1, <1>2, <1>4, <1>5, <1>6 DEF IInv, TypeOK, Empty
<1> HIDE DEF c, next
<1>10. TypeOK'
  BY <1>1, <1>2, <1>8, <1>9 DEF IInv, TypeOK, SameShape
<1>11. Homed'
  <2>1. entries'[Last] = End
    BY <1>2, <1>3, <1>4, <1>8 DEF Homed
  <2>2. ASSUME NEW q \in Positions
        PROVE  IF entries'[q].dist >= 0
               THEN /\ entries'[q].key \in Keys
                    /\ q = Home(entries'[q].key) + entries'[q].dist
                    /\ entries'[q].dist < max_lookups
               ELSE entries'[q].key = NoKey
    <3>1. CASE q = c
      BY <3>1, <1>5, <1>6, <1>8
    <3>2. CASE q = c + 1
      BY <3>2, <1>8 DEF Empty
    <3>3. CASE q # c /\ q # c + 1
      BY <3>3, <1>2, <1>3, <1>8 DEF Homed, HasValue
    <3> QED BY <3>1, <3>2, <3>3
  <2> QED BY <2>1, <2>2, <1>1, <1>8 DEF Homed, HasValue, SameShape
<1>12. Unique'
  <2>1. ASSUME NEW a \in Positions, entries'[a].dist >= 0
        PROVE  a # c + 1 /\ entries'[a].key = entries[IF a = c THEN c + 1 ELSE a].key
                         /\ HasValue(IF a = c THEN c + 1 ELSE a)
    BY <2>1, <1>2, <1>5, <1>8 DEF Empty, HasValue, next
  <2>2. ASSUME NEW a \in Positions, NEW b \in Positions, entries'[a].dist >= 0,
               entries'[b].dist >= 0, entries'[a].key = entries'[b].key
        PROVE  a = b
    <3>1. (IF a = c THEN c + 1 ELSE a) = (IF b = c THEN c + 1 ELSE b)
      BY <2>1, <2>2, <1>3, <1>4 DEF Unique
    <3> QED BY <3>1, <2>1, <2>2
  <2> QED BY <2>2, <1>8 DEF Unique, HasValue
<1>13. Ordered'
  <2>1. ASSUME NEW a \in Positions \ {c + 1}, NEW b \in Positions \ {c + 1}, b < a,
               a - b <= entries'[a].dist
        PROVE  entries'[b].dist >= entries'[a].dist - (a - b)
    <3>1. a \in Nat /\ b \in Nat /\ entries[a].dist \in Int /\ entries[b].dist \in Int
      BY <1>2, LastOK DEF IInv
    <3>2. CASE a = c
      <4>1. (c + 1) - b <= next.dist /\ b < c + 1 /\ b # c
        BY <3>1, <3>2, <2>1, <1>2, <1>4, <1>8
      <4>2. entries[b].dist >= next.dist - ((c + 1) - b)
        BY <4>1, <3>1, <1>2, <1>3, <1>4 DEF OrderedBut, next
      <4>3. entries'[b] = entries[b] /\ entries'[a].dist = next.dist - 1
        BY <3>2, <4>1, <2>1, <1>2, <1>8
      <4> QED BY <4>2, <4>3, <3>1, <3>2, <1>2, <1>4
    <3>3. CASE b = c
      <4>1. a > c + 1 /\ a - (c + 1) <= entries[a].dist /\ entries'[a] = entries[a] /\ a # c
        BY <3>1, <3>3, <2>1, <1>2, <1>8
      <4>2. next.dist >= entries[a].dist - (a - (c + 1))
        BY <4>1, <1>2, <1>3, <1>4 DEF OrderedBut, next
      <4> QED BY <4>1, <4>2, <3>1, <3>3, <1>2, <1>4, <1>8
    <3>4. CASE a # c /\ b # c
      <4>1. entries'[a] = entries[a] /\ entries'[b] = entries[b]
        BY <3>4, <1>2, <1>8
      <4> QED BY <4>1, <3>4, <2>1, <1>2, <1>3 DEF OrderedBut
    <3> QED BY <3>2, <3>3, <3>4
  <2> QED BY <2>1, <1>1, <1>8 DEF Ordered, OrderedBut
<1>15. ASSUME NEW x
       PROVE  x \in Stored(entries)' <=> x \in Stored(entries)
  <2>1. ASSUME NEW q \in Positions, HasValue(q), entries[q].key = x
        PROVE  \E b \in Positions : entries'[b].dist >= 0 /\ entries'[b].key = x
    <3>1. CASE q = c + 1
      BY <2>1, <3>1, <1>2, <1>6, <1>8 DEF next
    <3>2. CASE q # c + 1
      BY <2>1, <3>2, <1>2, <1>8 DEF HasValue
    <3> QED BY <3>1, <3>2
  <2>2. ASSUME NEW q \in Positions, entries'[q].dist >= 0, entries'[q].key = x
        PROVE  \E b \in Positions : HasValue(b) /\ entries[b].key = x
    <3>1. CASE q = c
      BY <2>2, <3>1, <1>4, <1>5, <1>8 DEF next
    <3>2. CASE q # c
      BY <2>2, <3>2, <1>2, <1>8 DEF HasValue, Empty
    <3> QED BY <3>1, <3>2
  <2> QED BY <2>1, <2>2, <1>1, StoredIs, StoredIsNext
<1>16. HandOK' /\ ShiftOK' /\ EmptyOK'
  BY <1>1, <1>4, <1>7, <1>8 DEF HandOK, ShiftOK, EmptyOK, HasValue, Empty, SameShape
<1>17. pending = {} /\ pending' = {}
  BY <1>1 DEF IInv, PendingOK
<1>18. PendingOK'
  BY <1>1, <1>17 DEF PendingOK
<1>19. Contents' = Contents
  BY <1>1, <1>15, <1>17 DEF Contents
<1> QED BY <1>10, <1>11, <1>12, <1>13, <1>16, <1>18, <1>19 DEF IInv

\* An entry at its slot, an empty one or the sentinel ends the gap: nothing
\* behind it would be probed for across the hole.
LEMMA ShiftDoneOK ==
    ASSUME IInv, ShiftDone
    PROVE  IInv' /\ Contents' = Contents
<1> USE DEF ShiftDone, NoHand, table
<1> DEFINE c == current_entry
<1>1. /\ Homed' /\ Unique' /\ EmptyOK' /\ Stored(entries)' = Stored(entries)
      /\ Last' = Last /\ Positions' = Positions
      /\ \A h : OrderedBut(h) => OrderedBut(h)'
  BY TableSame DEF SameShape
<1>2. /\ c \in Positions /\ ~HasValue(c) /\ c \in Nat
      /\ Positions \subseteq 0..Last /\ Positions \subseteq Nat /\ Last \notin Positions
  BY LastOK DEF IInv, ShiftOK, Positions
<1>3. Homed /\ OrderedBut(c) /\ entries[c + 1].dist <= 0 /\ entries[c].dist < 0
  BY <1>2, LastOK DEF IInv, Ordered, HasValue
<1>4. ASSUME NEW p \in Positions, NEW q \in Positions, q < p, p - q <= entries[p].dist
      PROVE  entries[q].dist >= entries[p].dist - (p - q)
  <2>1. /\ p \in Nat /\ q \in Nat /\ entries[p].dist \in Int
    BY <1>2, LastOK DEF IInv
  <2>2. p # c
    BY <2>1, <1>2, <1>3, <1>4
  <2>3. CASE q = c
    <3>1. p # c + 1
      BY <2>1, <2>3, <1>2, <1>3, <1>4
    <3>2. c + 1 < p /\ p - (c + 1) <= entries[p].dist
      BY <3>1, <2>1, <2>3, <1>2, <1>4
    <3>3. c + 1 \in Positions
      BY <3>2, <2>1, <1>2, LastOK DEF IInv, Positions
    <3>4. entries[c + 1].dist >= entries[p].dist - (p - (c + 1)) /\ entries[c + 1].dist \in Int
      BY <3>2, <3>3, <2>1, <2>2, <1>2, <1>3, LastOK DEF IInv, OrderedBut
    <3> QED BY <3>4, <2>1, <2>3, <1>2, <1>3, <1>4
  <2>4. CASE q # c
    BY <2>2, <2>4, <1>3, <1>4 DEF OrderedBut
  <2> QED BY <2>3, <2>4
<1>5. Ordered'
  BY <1>1, <1>4 DEF Ordered, OrderedBut
<1>6. TypeOK'
  BY <1>1 DEF IInv, TypeOK
<1>7. HandOK' /\ ShiftOK' /\ PendingOK'
  BY <1>1 DEF IInv, HandOK, ShiftOK, PendingOK
<1>8. Contents' = Contents
  BY <1>1 DEF Contents
<1> QED BY <1>1, <1>5, <1>6, <1>7, <1>8 DEF IInv

\* clear leaves an array without values.
LEMMA ClearOK ==
    ASSUME IInv, Clear
    PROVE  IInv' /\ Contents' = {}
<1> USE DEF Clear, hand
<1>1. /\ entries' \in [0..Last' -> [dist : Nat \cup {-1}, key : Keys \cup {NoKey}]]
      /\ Homed' /\ Unique' /\ EmptyOK' /\ Stored(entries)' = {}
      /\ \A h : OrderedBut(h)'
  BY LastOK, NewArrayOK DEF IInv, TypeOK
<1>2. TypeOK'
  BY <1>1 DEF IInv, TypeOK
<1>3. Ordered' /\ HandOK' /\ ShiftOK'
  BY <1>1 DEF Ordered, HandOK, ShiftOK
<1>4. pending = {}
  BY DEF IInv, PendingOK
<1>5. PendingOK' /\ Contents' = {}
  BY <1>1, <1>4 DEF PendingOK, Contents
<1> QED BY <1>1, <1>2, <1>3, <1>5 DEF IInv

-----------------------------------------------------------------------------
\* Every step keeps the invariant, and is a call on a set of keys or none.
LEMMA StepOK ==
    ASSUME IInv, Step
    PROVE  /\ IInv'
           /\ Contents' = Contents \/ \E k \in Keys : Contents' = Contents \cup {k}
<1>1. key = arg /\ pc \in {"emplace", "displace"} => arg \in Keys
  BY DEF IInv, TypeOK
<1>2. CASE EmplaceFound                                     BY <1>2, EmplaceFoundOK
<1>3. ASSUME NEW d \in 0..max_lookups, EmplaceEmpty(d)
      PROVE  IInv' /\ (Contents' = Contents \/ \E k \in Keys : Contents' = Contents \cup {k})
  BY <1>1, <1>3, EmplaceEmptyOK DEF EmplaceEmpty
<1>4. ASSUME NEW d \in 0..max_lookups, EmplaceSwap(d)
      PROVE  IInv' /\ Contents' = Contents
  BY <1>4, EmplaceSwapOK
<1>5. ASSUME NEW d \in 0..max_lookups, NEW n \in Sizes, EmplaceGrow(d, n)
      PROVE  IInv' /\ Contents' = Contents
  BY <1>5, EmplaceGrowOK
<1>6. ASSUME NEW k \in Keys, RehashNext(k)
      PROVE  IInv' /\ Contents' = Contents
  BY <1>6, RehashNextOK
<1>7. CASE DisplaceEmpty                    BY <1>1, <1>7, DisplaceEmptyOK DEF DisplaceEmpty
<1>8. CASE DisplaceSwap                     BY <1>8, DisplaceSwapOK
<1>9. CASE DisplacePass                     BY <1>9, DisplacePassOK
<1>10. CASE \E n \in Sizes : DisplaceGrow(n)    BY <1>10, DisplaceGrowOK
<1>11. CASE Shift                           BY <1>11, ShiftStepOK
<1>12. CASE ShiftDone                       BY <1>12, ShiftDoneOK
<1> QED BY <1>2, <1>3, <1>4, <1>5, <1>6, <1>7, <1>8, <1>9, <1>10, <1>11, <1>12 DEF Step

\* So does what the caller does, and a step that changes nothing.
LEMMA NextOK ==
    ASSUME IInv, [Next]_vars
    PROVE  IInv' /\ [Map!Next]_Contents
<1>1. CASE Step
  BY <1>1, StepOK DEF Map!Next, Map!Insert
<1>2. CASE Clear
  BY <1>2, ClearOK DEF Map!Next, Map!Clear
<1>3. ASSUME NEW k \in Keys, Insert(k)
      PROVE  IInv' /\ Contents' = Contents
  BY <1>3, InsertOK
<1>4. ASSUME NEW k \in Keys, Erase(k)
      PROVE  IInv' /\ [Map!Next]_Contents
  BY <1>4, EraseOK DEF Map!Next, Map!Erase
<1>5. CASE UNCHANGED vars
  <2>1. /\ Homed' /\ Unique' /\ EmptyOK' /\ Stored(entries)' = Stored(entries)
        /\ Last' = Last /\ Positions' = Positions
        /\ \A h : OrderedBut(h) => OrderedBut(h)'
        /\ \A x : Home(x)' = Home(x)
    BY <1>5, TableSame DEF vars, table, SameShape
  <2>2. UNCHANGED <<hash, entries, num_slots_minus_one, max_lookups, pc, arg, key, pending,
                    to_insert, distance_from_desired, current_entry, result>>
    BY <1>5 DEF vars, table, hand
  <2>3. TypeOK'
    BY <2>1, <2>2 DEF IInv, TypeOK
  <2>4. Ordered' /\ ShiftOK' /\ PendingOK'
    BY <2>1, <2>2 DEF IInv, Ordered, ShiftOK, PendingOK, HasValue
  <2>5. HandOK'
    BY <2>1, <2>2 DEF IInv, HandOK, HasValue
  <2>6. Contents' = Contents
    BY <2>1, <2>2 DEF Contents
  <2> QED BY <2>1, <2>3, <2>4, <2>5, <2>6 DEF IInv
<1> QED BY <1>1, <1>2, <1>3, <1>4, <1>5 DEF Next

\* The inductive invariant: the Robin Hood order, but for the hole of an
\* erase, and the terms on which the loops hold an entry in hand.
THEOREM Invariance == Spec => []IInv
<1>1. Init => IInv
  BY InitOK
<1>2. IInv /\ [Next]_vars => IInv'
  BY NextOK
<1> QED BY <1>1, <1>2, PTL DEF Spec

\* Every variable keeps its type; the loops never leave the array.
THEOREM TypeCorrect == Spec => []TypeOK
<1>1. IInv => TypeOK
  BY DEF IInv
<1> QED BY <1>1, Invariance, PTL

\* Between calls find meets exactly the keys of the map: no probe stops in
\* front of a key, and none leaves the array.
THEOREM FindCorrect == Spec => []FindExact
<1>1. IInv => FindExact
  <2> SUFFICES ASSUME IInv, pc = "idle", NEW k \in Keys
               PROVE  Found(k) <=> k \in Contents
    BY DEF FindExact
  <2>1. ArrayOK /\ EmptyOK /\ pending = {}
    BY ArrayOf DEF IInv, PendingOK
  <2>2. Contents = Stored(entries)
    BY <2>1 DEF Contents
  <2> QED BY <2>1, <2>2, FoundIsStored
<1> QED BY <1>1, Invariance, PTL

\* The table implements the set of keys: displacement, growth and the closing
\* of gaps are steps that leave it alone.
THEOREM Refinement == Spec => Implements
<1>1. Init => Map!Init
  BY InitOK DEF Map!Init
<1>2. IInv /\ [Next]_vars => [Map!Next]_Contents
  BY NextOK
<1>3. Spec => Map!Spec
  BY <1>1, <1>2, Invariance, PTL DEF Spec, Map!Spec
<1> QED BY <1>3 DEF Implements

-----------------------------------------------------------------------------
\* The number of elements, and room for the one in hand.
CountInv ==
    /\ IsFiniteSet(Stored(entries))
    /\ num_elements = Cardinality(Stored(entries))
    /\ 2 * num_elements <= bucket_count
    /\ pc = "displace" => 2 * (num_elements + 1) <= bucket_count

\* The number of elements at the start and in a new array.
LEMMA CountNone ==
    ASSUME TypeOK, Stored(entries) = {}, num_elements = 0, pc # "displace"
    PROVE  CountInv
<1>1. bucket_count \in Nat
  BY LastOK DEF bucket_count
<1> QED BY <1>1, FS_EmptySet DEF CountInv

\* One that comes takes its place, one that is put out leaves it to another.
LEMMA CountPut ==
    ASSUME IsFiniteSet(Stored(entries)), NEW k, k \notin Stored(entries)
    PROVE  /\ IsFiniteSet(Stored(entries) \cup {k})
           /\ Cardinality(Stored(entries) \cup {k}) = Cardinality(Stored(entries)) + 1
           /\ \A o \in Stored(entries) :
                /\ IsFiniteSet((Stored(entries) \ {o}) \cup {k})
                /\ Cardinality((Stored(entries) \ {o}) \cup {k}) = Cardinality(Stored(entries))
<1>1. /\ IsFiniteSet(Stored(entries) \cup {k})
      /\ Cardinality(Stored(entries) \cup {k}) = Cardinality(Stored(entries)) + 1
  BY FS_AddElement
<1>2. ASSUME NEW o \in Stored(entries)
      PROVE  /\ IsFiniteSet((Stored(entries) \ {o}) \cup {k})
             /\ Cardinality((Stored(entries) \ {o}) \cup {k}) = Cardinality(Stored(entries))
  <2> DEFINE S == Stored(entries) \ {o}
  <2>1. IsFiniteSet(S) /\ Cardinality(S) = Cardinality(Stored(entries)) - 1
    BY FS_RemoveElement
  <2>2. k \notin S
    OBVIOUS
  <2>3. IsFiniteSet(S \cup {k}) /\ Cardinality(S \cup {k}) = Cardinality(S) + 1
    BY <2>1, <2>2, FS_AddElement
  <2>4. Cardinality(Stored(entries)) \in Nat
    BY FS_CardinalityType
  <2> QED BY <2>1, <2>3, <2>4
<1> QED BY <1>1, <1>2

\* A step of a call keeps the count.
LEMMA CountStep ==
    ASSUME IInv, IInv', CountInv, [Next]_vars
    PROVE  CountInv'
<1> USE DEF CountInv
<1>1. /\ num_elements \in Nat /\ num_slots_minus_one \in Nat
      /\ bucket_count \in Nat
      /\ bucket_count = IF num_slots_minus_one = 0 THEN 0 ELSE num_slots_minus_one + 1
  BY LastOK, FS_CardinalityType DEF IInv, bucket_count
<1>2. ASSUME SameShape, UNCHANGED <<entries, num_elements>>, pc' = "displace" => pc = "displace"
      PROVE  CountInv'
  BY <1>2, TableSame DEF SameShape, bucket_count
<1>3. ASSUME Stored(entries)' = {}, num_elements' = 0, pc' # "displace"
      PROVE  CountInv'
  <2>1. bucket_count' \in Nat
    <3>1. num_slots_minus_one' \in Nat
      BY TableAssumption DEF IInv, TypeOK, Slots
    <3>2. \A n \in Nat : (IF n = 0 THEN 0 ELSE n + 1) \in Nat
      OBVIOUS
    <3>3. bucket_count' = IF num_slots_minus_one' = 0 THEN 0 ELSE num_slots_minus_one' + 1
      BY DEF bucket_count
    <3> QED BY <3>1, <3>2, <3>3, Zenon
  <2> QED BY <1>3, <2>1, FS_EmptySet
<1>4. ASSUME NEW n \in Sizes, NEW array, Rehash(n, array)
      PROVE  CountInv'
  <2>1. ComputeMaxLookups(n) \in Nat \ {0, 1} /\ n - 1 \in Nat /\ hash \in Hashes
    BY LookupsOK, TableAssumption DEF IInv, TypeOK
  <2>2. Stored(entries)' = {}
    BY <1>4, <2>1, NewArrayOK DEF Rehash
  <2> QED BY <1>3, <1>4, <2>2 DEF Rehash
<1>5. ASSUME NEW k, NEW d, NEW p, MayTake(k, d, p), ArrayOK, SameShape,
             entries' = [entries EXCEPT ![p] = [dist |-> d, key |-> k]],
             2 * (num_elements + 1) <= bucket_count,
             IF HasValue(p) THEN num_elements' = num_elements
                            ELSE num_elements' = num_elements + 1 /\ pc' # "displace"
      PROVE  CountInv'
  <2>1. k \notin Stored(entries)
    BY <1>5 DEF MayTake
  <2>2. Stored(entries)' = (Stored(entries) \ (IF HasValue(p) THEN {entries[p].key} ELSE {})) \cup {k}
    BY <1>5, PutOK
  <2>3. bucket_count' = bucket_count
    BY <1>5 DEF SameShape, bucket_count
  <2>4. CASE HasValue(p)
    <3>1. entries[p].key \in Stored(entries)
      BY <1>5, <2>4, StoredIs DEF MayTake
    <3>2. Stored(entries)' = (Stored(entries) \ {entries[p].key}) \cup {k}
      BY <2>2, <2>4
    <3> QED BY <1>1, <1>5, <2>1, <2>3, <2>4, <3>1, <3>2, CountPut
  <2>5. CASE ~HasValue(p)
    <3>1. Stored(entries)' = Stored(entries) \cup {k}
      BY <2>2, <2>5
    <3> QED BY <1>1, <1>5, <2>1, <2>3, <2>5, <3>1, CountPut
  <2> QED BY <2>4, <2>5
<1>6. CASE EmplaceFound
  BY <1>2, <1>6 DEF EmplaceFound, Return, table, SameShape
<1>7. ASSUME NEW d \in 0..max_lookups, EmplaceEmpty(d) \/ EmplaceSwap(d)
      PROVE  CountInv'
  <2> DEFINE p == Home(key) + d
  <2>1. pc = "emplace" /\ ~Found(key) /\ Stops(key, d) /\ ~MustGrow(d)
    BY <1>7 DEF EmplaceEmpty, EmplaceSwap
  <2>2. ArrayOK /\ num_slots_minus_one # 0 /\ MayTake(key, d, p)
    BY <2>1, EmplaceMayTake
  <2>3. 2 * (num_elements + 1) <= bucket_count
    BY <1>1, <2>1, <2>2 DEF MustGrow
  <2>4. /\ SameShape /\ entries' = [entries EXCEPT ![p] = [dist |-> d, key |-> key]]
        /\ IF HasValue(p) THEN num_elements' = num_elements
                          ELSE num_elements' = num_elements + 1 /\ pc' # "displace"
    <3>1. p \in Positions /\ entries[p].dist \in Int
      BY <2>2, LastOK DEF MayTake, ArrayOK, Positions
    <3>2. CASE EmplaceEmpty(d)
      BY <3>1, <3>2 DEF EmplaceEmpty, HasValue, SameShape, Return
    <3>3. CASE EmplaceSwap(d)
      BY <3>1, <3>3 DEF EmplaceSwap, HasValue, SameShape
    <3> QED BY <3>2, <3>3, <1>7
  <2> QED BY <1>5, <2>2, <2>3, <2>4
<1>8. CASE DisplaceEmpty \/ DisplaceSwap
  <2> DEFINE p == current_entry
             d == distance_from_desired
  <2>1. pc = "displace" /\ d \in Nat /\ p \in Positions /\ entries[p].dist \in Int
    BY <1>8, LastOK DEF DisplaceEmpty, DisplaceSwap, IInv, TypeOK, HandOK, Positions
  <2>2. entries[p].dist < d
    BY <1>8, <2>1 DEF DisplaceEmpty, DisplaceSwap
  <2>3. ArrayOK /\ MayTake(to_insert, d, p)
    BY <2>1, <2>2, DisplaceMayTake
  <2>4. /\ SameShape /\ entries' = [entries EXCEPT ![p] = [dist |-> d, key |-> to_insert]]
        /\ IF HasValue(p) THEN num_elements' = num_elements
                          ELSE num_elements' = num_elements + 1 /\ pc' # "displace"
    <3>1. CASE DisplaceEmpty
      BY <3>1, <2>1 DEF DisplaceEmpty, HasValue, SameShape, Return
    <3>2. CASE DisplaceSwap
      BY <3>2, <2>1 DEF DisplaceSwap, HasValue, SameShape
    <3> QED BY <3>1, <3>2, <1>8
  <2>5. 2 * (num_elements + 1) <= bucket_count
    BY <2>1
  <2> QED BY <1>5, <2>3, <2>4, <2>5
<1>9. CASE DisplacePass
  BY <1>2, <1>9 DEF DisplacePass, table, SameShape
<1>10. ASSUME NEW k \in Keys, RehashNext(k) \/ Insert(k)
       PROVE  CountInv'
  BY <1>2, <1>10 DEF RehashNext, Insert, table, SameShape
<1>11. ASSUME NEW k \in Keys, Erase(k)
       PROVE  CountInv'
  <2>1. ArrayOK /\ EmptyOK /\ pc = "idle" /\ pc' = "shift"
    BY <1>11, ArrayOf DEF Erase, IInv
  <2>2. k \in Stored(entries)
    BY <1>11, <2>1, FoundIsStored DEF Erase
  <2>3. Stored(entries)' = Stored(entries) \ {k}
    <3>1. Contents' = Contents \ {k}
      BY <1>11, EraseOK
    <3>2. pending = {} /\ pending' = {}
      BY <2>1 DEF IInv, PendingOK
    <3> QED BY <2>1, <3>1, <3>2 DEF Contents
  <2>4. IsFiniteSet(Stored(entries)') /\ Cardinality(Stored(entries)') = Cardinality(Stored(entries)) - 1
    BY <2>2, <2>3, FS_RemoveElement
  <2>5. num_elements' = num_elements - 1 /\ bucket_count' = bucket_count
    BY <1>11 DEF Erase, bucket_count
  <2> QED BY <2>1, <2>4, <2>5, <1>1
<1>12. CASE Shift
  <2>1. pc = "shift" /\ pc' = "shift" /\ num_elements' = num_elements /\ bucket_count' = bucket_count
    BY <1>12 DEF Shift, bucket_count
  <2>2. Stored(entries)' = Stored(entries)
    <3>1. Contents' = Contents
      BY <1>12, ShiftStepOK
    <3>2. pending = {} /\ pending' = {}
      BY <2>1 DEF IInv, PendingOK
    <3> QED BY <2>1, <3>1, <3>2 DEF Contents
  <2> QED BY <2>1, <2>2
<1>13. CASE ShiftDone
  BY <1>2, <1>13 DEF ShiftDone, table, SameShape
<1>14. CASE Clear
  <2>1. Stored(entries)' = {}
    BY <1>14, NewArrayOK, LastOK DEF Clear, IInv, TypeOK
  <2> QED BY <1>3, <1>14, <2>1 DEF Clear, hand, IInv
<1>15. CASE UNCHANGED vars
  BY <1>2, <1>15 DEF vars, table, SameShape
<1>16. ASSUME NEW n \in Sizes, (\E d \in 0..max_lookups : EmplaceGrow(d, n)) \/ DisplaceGrow(n)
       PROVE  CountInv'
  BY <1>4, <1>16 DEF EmplaceGrow, DisplaceGrow
<1> QED BY <1>6, <1>7, <1>8, <1>9, <1>10, <1>11, <1>12, <1>13, <1>14, <1>15, <1>16 DEF Next, Step

\* The count is kept over displacement, growth and erasure, and at most half
\* of the slots are taken.
THEOREM CountCorrect == Spec => []CountExact
<1>1. Init => CountInv
  <2> SUFFICES ASSUME Init PROVE CountInv
    OBVIOUS
  <2>1. IInv /\ Contents = {} /\ pending = {} /\ pc = "idle" /\ num_elements = 0
    BY InitOK DEF Init
  <2> QED BY <2>1, CountNone DEF IInv, Contents
<1>2. IInv /\ IInv' /\ CountInv /\ [Next]_vars => CountInv'
  BY CountStep
<1>3. CountInv => CountExact
  BY DEF CountInv, CountExact
<1> QED BY <1>1, <1>2, <1>3, Invariance, PTL DEF Spec
=============================================================================
