----------------------------- MODULE MergeKeys -----------------------------
(***************************************************************************)
(* RuntimeKeys of src/runtime.cpp: a table may be given by a list of keys, *)
(* each a pattern of its own.  The automata of the keys are put one behind *)
(* the other: where one dies, the next begins with the following byte.     *)
(***************************************************************************)
EXTENDS DfaMerge

\* createStateMaps: how many states the keys before the i-th take; its states
\* follow in their order.
StatesBefore(dfas) ==
    [i \in 1..(Len(dfas) + 1) |-> FoldLeft(LAMBDA n, d : n + d.num - 1, 0, SubSeq(dfas, 1, i - 1))]

\* stateMaps[i][s]; reading a missing key of a std::map inserts 0.
StateMap(before, i, s) == IF s = INV_STATE THEN INV_STATE ELSE before[i] + s

\* nextInitState: the last key ends the match.
NextInitState(before, i) ==
    IF i + 1 < Len(before) THEN StateMap(before, i + 1, INIT_STATE) ELSE INV_STATE

\* The groups of the i-th key.
MergedSubMatches(before, dfas, i) ==
    [k \in 1..Len(dfas[i].subms) |->
        [dfas[i].subms[k] EXCEPT !.start  = {StateMap(before, i, s) : s \in @},
                                 !.states = {StateMap(before, i, s) : s \in @}]]

\* mergeKeys
MergeKeys(dfas) ==
    LET last    == Len(dfas)
        before  == StatesBefore(dfas)
        rows(i) == LET tt == dfas[i].trans
                   IN  [q \in (before[i] + 1)..before[i + 1] |-> [c \in Chars |->
                           IF tt[q - before[i]][c] = INV_STATE THEN NextInitState(before, i)
                           ELSE StateMap(before, i, tt[q - before[i]][c])]]
    IN  [num    |-> before[last + 1] + 1,
         trans  |-> FoldLeftDomain(LAMBDA merged, i : merged @@ rows(i),
                                   INV_STATE :> [c \in Chars |-> INV_STATE], dfas),
         accept |-> {StateMap(before, last, s) : s \in dfas[last].accept},
         subms  |-> FlattenSeq([i \in 1..last |-> MergedSubMatches(before, dfas, i)])]

\* RuntimeKeys::constructDFA.  A table with a single pattern is a single key.
\* The sets have one element each: so TLC builds the automata only once.
ConstructKeysDfa(nfas) ==
    LET keyDfas == FoldLeft(LAMBDA dfas, nfa : Append(dfas, ConstructDfa(nfa)), <<>>, nfas)
    IN  CHOOSE dfa \in {MergeKeys(dfas) : dfas \in {keyDfas}} : TRUE
=============================================================================
