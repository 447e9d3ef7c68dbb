----------------------------- MODULE HashTable -----------------------------
(***************************************************************************)
(* ska::flat_hash_map (flat_hash_map.hpp, class sherwood_v3_table), which  *)
(* holds the groups of a GROUP BY: an open table with Robin Hood hashing.  *)
(* An entry knows its distance from the slot its key hashes to.  A key     *)
(* that is inserted takes the place of the first entry that is nearer to   *)
(* its own slot than the key would be; that entry moves on in the same     *)
(* way.  A key that would be max_lookups away, or an element too many,     *)
(* makes the table grow, and growing inserts everything again, which may   *)
(* make it grow once more.  The end of the array is not tested for: a      *)
(* probe stops at an entry whose distance is too small, and the last entry *)
(* is a sentinel.                                                          *)
(*                                                                         *)
(* One action per call and per turn of the loops of emplace_new_key and    *)
(* erase; a probe is one step.  A rehash takes the entries of the old      *)
(* array in their order; here it takes them in any order.                  *)
(***************************************************************************)
EXTENDS Integers, FiniteSets

CONSTANTS
    Keys,       \* the keys
    NoKey,      \* in entries without a value
    Sizes,      \* the numbers of buckets: powers of two, up to a bound
    HashBits,   \* 64: the width of a hash
    Hashes,     \* the hash functions (after the multiplication), Keys -> number
    MinLookups  \* 4: min_lookups

\* log2 of a power of two
Log2(n) == CHOOSE b \in 0..n : 2 ^ b = n

\* fibonacci_hash_policy: the leading bits of the product; shift is 63 until
\* the first commit.
IndexForHash(h, slots1) ==
    h \div 2 ^ (HashBits - (IF slots1 = 0 THEN 1 ELSE Log2(slots1 + 1)))

ComputeMaxLookups(n) == IF Log2(n) > MinLookups THEN Log2(n) ELSE MinLookups

ASSUME TableAssumption ==
    /\ NoKey \notin Keys
    /\ Sizes \subseteq Nat \ {0, 1}
    /\ MinLookups \in Nat \ {0, 1, 2}
    /\ \A n \in Sizes : Log2(n) \in Nat
    /\ \A h \in Hashes : \A k \in Keys :
        /\ IndexForHash(h[k], 0) \in {0, 1}
        /\ \A n \in Sizes : IndexForHash(h[k], n - 1) \in 0..(n - 1)

VARIABLES
    hash,                   \* the hash function: chosen once
    entries,                \* the array: [dist, key]; dist -1 without a value
    num_slots_minus_one, max_lookups, num_elements,
    pc,                     \* "idle", or the function and loop the code is in
    arg,                    \* what insert was called with
    key,                    \* what emplace is called with: arg, or a key of a rehash
    pending,                \* keys of old arrays that a rehash has still to insert
    to_insert, distance_from_desired, current_entry,    \* the entry that moves on
    result                  \* where key was put

table == <<entries, num_slots_minus_one, max_lookups, num_elements>>
hand  == <<to_insert, distance_from_desired, current_entry, result>>
vars  == <<hash, table, pc, arg, key, pending, hand>>

Empty == [dist |-> -1, key |-> NoKey]
End   == [dist |-> 0, key |-> NoKey]        \* special_end_value

\* Where end() points: the sentinel.
Last == num_slots_minus_one + max_lookups

NewArray(slots1, lookups) == [p \in 0..(slots1 + lookups) |-> IF p = slots1 + lookups THEN End ELSE Empty]

Home(k) == IndexForHash(hash[k], num_slots_minus_one)

bucket_count == IF num_slots_minus_one = 0 THEN 0 ELSE num_slots_minus_one + 1

\* The keys in the entries of an array, the sentinel aside.
Stored(array) == {array[p].key : p \in {q \in 0..(Last - 1) : array[q].dist >= 0}}

\* A probe for k goes d entries far, and on to the next.
Passes(k, d) == \A e \in 0..d : entries[Home(k) + e].dist >= e

\* find: k is met before the probe stops.
Found(k) == \E d \in 0..(max_lookups - 1) : Passes(k, d) /\ entries[Home(k) + d].key = k

\* The probe for k stops at distance d.
Stops(k, d) ==
    /\ \A e \in 0..(d - 1) : entries[Home(k) + e].dist >= e
    /\ entries[Home(k) + d].dist < d

-----------------------------------------------------------------------------
\* The empty state shares the static empty_default_table.
Init ==
    /\ hash \in Hashes
    /\ num_slots_minus_one = 0 /\ max_lookups = MinLookups - 1 /\ num_elements = 0
    /\ entries = NewArray(0, MinLookups - 1)
    /\ pc = "idle" /\ arg = NoKey /\ key = NoKey /\ pending = {}
    /\ to_insert = NoKey /\ distance_from_desired = 0 /\ current_entry = 0 /\ result = 0

\* insert(k): emplace is called.
Insert(k) ==
    /\ pc = "idle"
    /\ pc' = "emplace" /\ arg' = k /\ key' = k
    /\ UNCHANGED <<hash, table, pending, hand>>

\* The locals of the loops do not outlive them.
NoHand == to_insert' = NoKey /\ distance_from_desired' = 0 /\ current_entry' = 0 /\ result' = 0

\* emplace returns: to the rehash, or to the caller of insert.
Return ==
    /\ pc' = IF key = arg THEN "idle" ELSE "rehash"
    /\ arg' = IF key = arg THEN NoKey ELSE arg
    /\ key' = NoKey
    /\ NoHand

\* emplace: the key is there already.
EmplaceFound ==
    /\ pc = "emplace" /\ Found(key)
    /\ Return
    /\ UNCHANGED <<hash, table, pending>>

\* grow and rehash(n) of an array: the keys of the array, and the key in hand
\* if it belongs to a rehash itself, are to be inserted again.
Rehash(n, array) ==
    /\ pending' = pending \cup Stored(array) \cup ({key} \ {arg})
    /\ num_slots_minus_one' = n - 1 /\ max_lookups' = ComputeMaxLookups(n)
    /\ entries' = NewArray(n - 1, ComputeMaxLookups(n))
    /\ num_elements' = 0
    /\ pc' = "rehash" /\ key' = NoKey /\ NoHand
    /\ UNCHANGED <<hash, arg>>

\* Mutant: grow asks for the size the table has.
LargerSame(n) == n >= 4 /\ n >= bucket_count

Larger(n) == n >= 4 /\ n >= 2 * bucket_count /\ n >= 2 * num_elements

\* next_size_over of what grow asks for.
NextSize(n) == n \in Sizes /\ Larger(n) /\ \A m \in Sizes : Larger(m) => n <= m

\* Mutant: the table grows only when no slot is left.
MustGrowWhenFull(d) == num_slots_minus_one = 0 \/ d = max_lookups \/ num_elements > num_slots_minus_one

MustGrow(d) ==
    \/ num_slots_minus_one = 0
    \/ d = max_lookups
    \/ 2 * (num_elements + 1) > num_slots_minus_one + 1

\* emplace_new_key: the table has to grow first.
EmplaceGrow(d, n) ==
    /\ pc = "emplace" /\ ~Found(key) /\ Stops(key, d)
    /\ MustGrow(d)
    /\ NextSize(n) /\ Rehash(n, entries)

\* The rehash goes on with one of its keys, or returns and emplace(arg) is
\* called again.
RehashNext(k) ==
    /\ pc = "rehash"
    /\ k \in IF pending = {} THEN {arg} ELSE pending
    /\ pc' = "emplace" /\ key' = k /\ pending' = pending \ {k}
    /\ UNCHANGED <<hash, table, arg, hand>>

\* emplace_new_key: the probe stopped at an empty entry.
EmplaceEmpty(d) ==
    /\ pc = "emplace" /\ ~Found(key) /\ Stops(key, d) /\ ~MustGrow(d)
    /\ entries[Home(key) + d].dist < 0
    /\ entries' = [entries EXCEPT ![Home(key) + d] = [dist |-> d, key |-> key]]
    /\ num_elements' = num_elements + 1
    /\ Return
    /\ UNCHANGED <<hash, num_slots_minus_one, max_lookups, pending>>

\* emplace_new_key: the key takes the entry's place, the entry moves on.
EmplaceSwap(d) ==
    /\ pc = "emplace" /\ ~Found(key) /\ Stops(key, d) /\ ~MustGrow(d)
    /\ LET p == Home(key) + d
       IN  /\ entries[p].dist >= 0
           /\ entries' = [entries EXCEPT ![p] = [dist |-> d, key |-> key]]
           /\ to_insert' = entries[p].key
           /\ distance_from_desired' = entries[p].dist + 1
           /\ current_entry' = p + 1 /\ result' = p
    /\ pc' = "displace"
    /\ UNCHANGED <<hash, num_slots_minus_one, max_lookups, num_elements, arg, key, pending>>

\* The loop of emplace_new_key: an empty entry.
DisplaceEmpty ==
    /\ pc = "displace" /\ entries[current_entry].dist < 0
    /\ entries' = [entries EXCEPT ![current_entry] =
                        [dist |-> distance_from_desired, key |-> to_insert]]
    /\ num_elements' = num_elements + 1
    /\ Return
    /\ UNCHANGED <<hash, num_slots_minus_one, max_lookups, pending>>

\* Mutant: the entry that moves on keeps the distance it had.
DisplaceSwapStale ==
    /\ pc = "displace"
    /\ entries[current_entry].dist >= 0
    /\ entries[current_entry].dist < distance_from_desired
    /\ entries' = [entries EXCEPT ![current_entry] =
                        [dist |-> distance_from_desired, key |-> to_insert]]
    /\ to_insert' = entries[current_entry].key
    /\ distance_from_desired' = entries[current_entry].dist
    /\ current_entry' = current_entry + 1
    /\ UNCHANGED <<hash, num_slots_minus_one, max_lookups, num_elements, pc, arg, key, pending, result>>

\* The loop: an entry nearer to its slot moves on in its turn.
DisplaceSwap ==
    /\ pc = "displace"
    /\ entries[current_entry].dist >= 0
    /\ entries[current_entry].dist < distance_from_desired
    /\ entries' = [entries EXCEPT ![current_entry] =
                        [dist |-> distance_from_desired, key |-> to_insert]]
    /\ to_insert' = entries[current_entry].key
    /\ distance_from_desired' = entries[current_entry].dist + 1
    /\ current_entry' = current_entry + 1
    /\ UNCHANGED <<hash, num_slots_minus_one, max_lookups, num_elements, pc, arg, key, pending, result>>

\* The loop: go on to the next entry.
DisplacePass ==
    /\ pc = "displace"
    /\ entries[current_entry].dist >= distance_from_desired
    /\ distance_from_desired + 1 # max_lookups
    /\ distance_from_desired' = distance_from_desired + 1
    /\ current_entry' = current_entry + 1
    /\ UNCHANGED <<hash, table, pc, arg, key, pending, to_insert, result>>

\* Mutant: key is left where it was put, and the entry in hand is dropped.
DisplaceGrowNoSwap(n) ==
    /\ pc = "displace"
    /\ entries[current_entry].dist >= distance_from_desired
    /\ distance_from_desired + 1 = max_lookups
    /\ NextSize(n) /\ Rehash(n, entries)

\* The loop: the entry in hand would be too far away.  It takes the place of
\* key again, whatever its distance there, and the table grows.
DisplaceGrow(n) ==
    /\ pc = "displace"
    /\ entries[current_entry].dist >= distance_from_desired
    /\ distance_from_desired + 1 = max_lookups
    /\ NextSize(n) /\ Rehash(n, [entries EXCEPT ![result].key = to_insert])

\* erase(key): destroy the entry, then close the gap.
Erase(k) ==
    /\ pc = "idle" /\ Found(k)
    /\ \E d \in 0..(max_lookups - 1) :
        /\ entries[Home(k) + d].key = k
        /\ entries' = [entries EXCEPT ![Home(k) + d] = Empty]
        /\ current_entry' = Home(k) + d
    /\ num_elements' = num_elements - 1
    /\ pc' = "shift"
    /\ UNCHANGED <<hash, num_slots_minus_one, max_lookups, arg, key, pending,
                   to_insert, distance_from_desired, result>>

\* The loop of erase: the next entry moves back by one, unless it is at its
\* slot, empty or the sentinel.
Shift ==
    /\ pc = "shift"
    /\ LET next == entries[current_entry + 1]
       IN  /\ next.dist > 0
           /\ entries' = [entries EXCEPT ![current_entry] = [dist |-> next.dist - 1, key |-> next.key],
                                         ![current_entry + 1] = Empty]
    /\ current_entry' = current_entry + 1
    /\ UNCHANGED <<hash, num_slots_minus_one, max_lookups, num_elements, pc, arg, key, pending,
                   to_insert, distance_from_desired, result>>

\* Mutant: an entry one away from its slot is left where it is.
ShiftDoneEarly ==
    /\ pc = "shift" /\ entries[current_entry + 1].dist <= 1
    /\ pc' = "idle" /\ NoHand
    /\ UNCHANGED <<hash, table, arg, key, pending>>

ShiftDone ==
    /\ pc = "shift" /\ entries[current_entry + 1].dist <= 0
    /\ pc' = "idle" /\ NoHand
    /\ UNCHANGED <<hash, table, arg, key, pending>>

\* clear: the array stays.
Clear ==
    /\ pc = "idle"
    /\ entries' = NewArray(num_slots_minus_one, max_lookups) /\ num_elements' = 0
    /\ UNCHANGED <<hash, num_slots_minus_one, max_lookups, pc, arg, key, pending, hand>>

\* A step inside a call.
Step ==
    \/ EmplaceFound
    \/ \E d \in 0..max_lookups : EmplaceEmpty(d) \/ EmplaceSwap(d)
    \/ \E d \in 0..max_lookups, n \in Sizes : EmplaceGrow(d, n)
    \/ \E k \in Keys : RehashNext(k)
    \/ DisplaceEmpty \/ DisplaceSwap \/ DisplacePass
    \/ \E n \in Sizes : DisplaceGrow(n)
    \/ Shift \/ ShiftDone

Next == Step \/ Clear \/ \E k \in Keys : Insert(k) \/ Erase(k)

\* A call that has begun goes on: one thread, which nothing blocks.
Spec == Init /\ [][Next]_vars /\ WF_vars(Step)

-----------------------------------------------------------------------------
(* Properties. *)

Positions == 0..(Last - 1)
Slots     == {s - 1 : s \in Sizes}

\* Type invariant.
TypeOK ==
    /\ hash \in Hashes
    /\ \/ num_slots_minus_one = 0 /\ max_lookups = MinLookups - 1
       \/ num_slots_minus_one \in Slots /\ max_lookups \in Nat \ {0, 1, 2}
    /\ entries \in [0..Last -> [dist : Nat \cup {-1}, key : Keys \cup {NoKey}]]
    /\ pc \in {"idle", "emplace", "rehash", "displace", "shift"}
    /\ arg \in Keys \cup {NoKey} /\ key \in Keys \cup {NoKey}
    /\ pc \in {"emplace", "rehash", "displace"} => arg \in Keys
    /\ pc \in {"emplace", "displace"} => key \in Keys
    /\ pending \in SUBSET Keys
    /\ to_insert \in Keys \cup {NoKey}
    /\ distance_from_desired \in Nat
    /\ current_entry \in Nat /\ result \in Nat

HasValue(p) == entries[p].dist >= 0

\* Every entry is as far from its slot as it says, never too far, and nothing
\* overwrites the sentinel.
Homed ==
    /\ entries[Last] = End
    /\ \A p \in Positions :
        IF HasValue(p)
        THEN /\ entries[p].key \in Keys
             /\ p = Home(entries[p].key) + entries[p].dist
             /\ entries[p].dist < max_lookups
        ELSE entries[p].key = NoKey

\* Robin Hood: between the slot of an entry and the entry, every entry is at
\* least as far from its own slot as a probe for it would be, so no probe
\* stops there.  hole is a position not counted.
OrderedBut(hole) ==
    \A p, q \in Positions \ {hole} :
        q < p /\ p - q <= entries[p].dist => entries[q].dist >= entries[p].dist - (p - q)

Ordered == OrderedBut(IF pc = "shift" THEN current_entry ELSE Last)

\* No key is in two entries.
Unique ==
    \A p, q \in Positions : HasValue(p) /\ HasValue(q) /\ entries[p].key = entries[q].key => p = q

\* The entry in hand of the loop belongs where the loop stands.
HandOK ==
    pc = "displace" =>
        /\ to_insert \in Keys
        /\ distance_from_desired \in 1..(max_lookups - 1)
        /\ current_entry = Home(to_insert) + distance_from_desired
        /\ current_entry \in Positions
        /\ \A q \in Positions :
            q < current_entry /\ current_entry - q <= distance_from_desired
                => entries[q].dist >= distance_from_desired - (current_entry - q)
        /\ to_insert \notin Stored(entries)
        /\ result \in Positions /\ HasValue(result) /\ entries[result].key = key
        /\ result < current_entry

\* The keys that a rehash has still to insert are not in the table.
PendingOK ==
    /\ pending \cap Stored(entries) = {}
    /\ pc = "displace" => to_insert \notin pending /\ key \notin pending
    /\ pc \in {"idle", "shift"} => pending = {}
    /\ pc = "emplace" => key \notin pending /\ (key # arg => key \notin Stored(entries))
    /\ pc \in {"emplace", "rehash", "displace"} => arg \notin pending
    /\ pc = "rehash" \/ (pc = "emplace" /\ key # arg) => arg \notin Stored(entries)
    /\ pc = "displace" /\ key # arg => arg \notin Stored(entries) \cup {to_insert}
    /\ pc = "emplace" /\ key = arg => pending = {}
    /\ pc = "displace" /\ key = arg => pending = {}

\* The table that is shared by all maps without a bucket holds nothing.
EmptyOK == num_slots_minus_one = 0 => \A p \in Positions : ~HasValue(p)

ShiftOK ==
    pc = "shift" => current_entry \in Positions /\ ~HasValue(current_entry)

\* The keys of the map as its user sees them: the argument of an insertion is
\* one of them once emplace has found it or has put everything in its place.
Contents ==
    CASE pc = "displace" -> (Stored(entries) \cup pending \cup {to_insert}) \ {arg}
      [] pc = "emplace"  -> Stored(entries) \cup pending \cup ({key} \ {arg})
      [] OTHER           -> Stored(entries) \cup pending

Map == INSTANCE KeySet WITH contents <- Contents

\* The table is a set of keys: whatever moves, grows or closes up on the way,
\* a call adds or takes its own key and no other.
Implements == Map!Spec

\* Between calls a probe finds exactly the keys of the map, although it stops
\* at the first entry nearer to its slot.
FindExact == pc = "idle" => \A k \in Keys : Found(k) <=> k \in Contents

\* The number of elements is kept over swaps, growth and erasure, and is never
\* more than half the slots.
CountExact == num_elements = Cardinality(Stored(entries)) /\ 2 * num_elements <= bucket_count

\* A call ends: keys that collide in a table are told apart in a larger one, and
\* the insertions of a rehash, which may rehash again, come to an end.
CallEnds == (pc # "idle") ~> (pc = "idle")

IInv == TypeOK /\ Homed /\ Ordered /\ Unique /\ HandOK /\ PendingOK /\ ShiftOK /\ EmptyOK
=============================================================================
