------------------------------- MODULE KeySet -------------------------------
(***************************************************************************)
(* What the hash map under the tables of a GROUP BY promises: a set of     *)
(* keys.  A key that is inserted stays, whatever else is inserted, until   *)
(* it is erased; inserting it again changes nothing.  A value travels with *)
(* its key (they are one std::pair), so the keys are all there is to say.  *)
(***************************************************************************)
CONSTANT Keys

VARIABLE contents

Init == contents = {}

Insert(k) == contents' = contents \cup {k}

Erase(k) == contents' = contents \ {k}

Clear == contents' = {}

Next == Clear \/ \E k \in Keys : Insert(k) \/ Erase(k)

Spec == Init /\ [][Next]_contents
=============================================================================
