------------------------------- MODULE SetFa -------------------------------
(***************************************************************************)
(* Executor::setFA of src/executor.cpp: the tables the executor scans      *)
(* with, from the labelled automaton Vfa builds.                           *)
(***************************************************************************)
EXTENDS Vfa

\* KeyMap: a group's id is its place in the list of the sub-matches of all
\* keys; map.insert keeps the first of two groups with one name.
KeyId(keys, name) == SelectInSeq(keys, LAMBDA k : k.name = name)

\* setSubMatchTable: of several groups that start in one state the last wins.
StartTable(keys, subms, q) ==
    LET starting == {k \in 1..Len(subms) : q \in subms[k].start}
    IN  IF starting = {} THEN 0
        ELSE KeyId(keys, subms[CHOOSE k \in starting : \A j \in starting : j <= k].name)

EndTable(keys, subms, q) ==
    {KeyId(keys, subms[k].name) : k \in {j \in 1..Len(subms) : q \in subms[j].states}}

LoadFa(keys, v) ==
    [states |-> v.states, kind |-> v.kind, next |-> v.next, leave |-> v.leave,
     str    |-> v.str, back |-> v.back, sink |-> v.sink, accept |-> v.accept,
     groups |-> Len(keys),
     start  |-> [q \in v.states |-> StartTable(keys, v.subms, q)],
     open   |-> [q \in v.states |-> EndTable(keys, v.subms, q)]]

\* The same automaton without vector instructions, for comparison.
PlainVfa(d) ==
    [states |-> States(d),
     kind   |-> [q \in States(d) |-> IF q = INV_STATE THEN "INV" ELSE "C"],
     next   |-> d.trans,
     leave  |-> [q \in States(d) |-> {}],
     str    |-> [q \in States(d) |-> <<>>],
     back   |-> [q \in States(d) |-> <<>>],
     sink   |-> [q \in States(d) |-> INV_STATE],
     accept |-> d.accept, subms |-> d.subms]
=============================================================================
