---------------------------- MODULE MCHashTable ----------------------------
EXTENDS HashTable

MCSizes == {4, 8, 16, 32, 64, 128}

\* Hashes of 7 bits, all different.  The keys share a slot of 16, so that an
\* insertion is max_lookups away; two neighbouring slots, so that an entry in
\* hand is; slots at the end of the array; almost the same slot of 32.
MCHashes == {
    <<40, 41, 42, 43, 44, 45>>,
    <<40, 42, 44, 48, 50, 46>>,
    <<120, 122, 127, 112, 126, 125>>,
    <<64, 65, 66, 67, 68, 5>> }
=============================================================================
