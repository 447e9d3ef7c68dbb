------------------------------- MODULE DfaGen -------------------------------
(***************************************************************************)
(* DFAGenerator of src/dfa.cpp: subset construction, the merging of states *)
(* with equal rows, and the states of each sub-match.                      *)
(*                                                                         *)
(* A DFA is a record: states 0 .. num - 1 with INV_STATE = 0 the dead      *)
(* state and INIT_STATE = 1 the initial one, trans[s][c], accept, and for  *)
(* each sub-match the states in which it starts and those it stays open    *)
(* in.  The code numbers the other states in the order of its traversal;   *)
(* nothing it computes depends on that order, so here it is arbitrary.     *)
(***************************************************************************)
EXTENDS RegexNfa, FiniteSetsExt

INV_STATE  == 0
INIT_STATE == 1

\* The constructors of DFA: gives the states of a finished automaton their
\* numbers.  The dead state is the one named inv.
NumberedDfa(inv, init, others, trans, accept, subms) ==
    LET order == FoldSet(LAMBDA s, seq : Append(seq, s), <<inv, init>>, others)
        num   == Len(order)
        id    == [s \in {inv, init} \cup others |->
                    (CHOOSE i \in 1..num : order[i] = s) - 1]
        ids(S) == {id[s] : s \in S}
    IN  [num    |-> num,
         trans  |-> [n \in 0..(num - 1) |-> [c \in Chars |-> id[trans[order[n + 1]][c]]]],
         accept |-> ids(accept),
         subms  |-> [k \in 1..Len(subms) |->
                        [name  |-> subms[k].name, type |-> subms[k].type,
                         start |-> ids(subms[k].start), states |-> ids(subms[k].states)]]]

-----------------------------------------------------------------------------
(* Subset construction.  The empty set is INV_STATE. *)

RECURSIVE ReachableSets(_, _, _)
ReachableSets(n, seen, frontier) ==
    IF frontier = {} THEN seen
    ELSE LET next == {Move(n, S, c) : S \in frontier, c \in Chars} \ ({{}} \cup seen)
         IN  ReachableSets(n, seen \cup next, next)

PowersetInit(n) == EpsClosure(n, {n.init})

PowersetStates(n) == ReachableSets(n, {PowersetInit(n)}, {PowersetInit(n)})

PowersetTable(n) ==
    [S \in PowersetStates(n) |-> [c \in Chars |-> Move(n, S, c)]]

\* minimize: two sets are merged when they agree on acceptance, on the group
\* starts and group ends they contain, and on their whole row.
Mergeable(n, table, S, T) ==
    /\ (n.accept \in S) = (n.accept \in T)
    /\ \A k \in 1..Len(n.subms) : /\ (n.subms[k].start \in S) = (n.subms[k].start \in T)
                                  /\ (n.subms[k].end \in S) = (n.subms[k].end \in T)
    /\ table[S] = table[T]

\* default2mini: the initial state represents its class.
Default2Mini(n, table) ==
    [S \in DOMAIN table \cup {{}} |->
        IF S = {} THEN {}
        ELSE IF Mergeable(n, table, S, PowersetInit(n)) THEN PowersetInit(n)
        ELSE CHOOSE T \in DOMAIN table : Mergeable(n, table, S, T)]

\* Mutant: every way back to the initial state is cut.
WithInvStatesAll(n, table, mini) ==
    [S \in DOMAIN table |->
        [c \in Chars |-> IF mini[table[S][c]] = PowersetInit(n) THEN {} ELSE table[S][c]]]

\* setInvStates: leaving an accepting state for the initial one ends the match.
WithInvStates(n, table, mini) ==
    [S \in DOMAIN table |->
        [c \in Chars |-> IF n.accept \in S /\ mini[table[S][c]] = PowersetInit(n)
                         THEN {} ELSE table[S][c]]]

\* Mutant: a group is open where all of its range is live.
StatesWithAll(mini, S) == {mini[T] : T \in {U \in DOMAIN mini : S \subseteq U}}

\* The states whose set holds a given NFA state, and those holding one of a range.
StatesWith(mini, S)  == {mini[T] : T \in {U \in DOMAIN mini : U \cap S # {}}}

GenerateDfa(n) ==
    LET table == PowersetTable(n)
        mini  == Default2Mini(n, table)
        trans == WithInvStates(n, table, mini)
        init  == PowersetInit(n)
        reps  == {mini[S] : S \in DOMAIN table}
    IN  NumberedDfa({}, init, reps \ {init},
            [S \in reps \cup {{}} |-> [c \in Chars |-> IF S = {} THEN {} ELSE mini[trans[S][c]]]],
            {S \in reps : n.accept \in S},
            [k \in 1..Len(n.subms) |->
                LET sm == n.subms[k] IN
                [name   |-> sm.name, type |-> sm.type,
                 start  |-> StatesWith(mini, {sm.start}),
                 states |-> StatesWith(mini, sm.start..sm.end)]])
=============================================================================
