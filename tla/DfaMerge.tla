------------------------------ MODULE DfaMerge ------------------------------
(***************************************************************************)
(* DFAMerger of src/dfa.cpp.  The automaton of ".*p" (r) finds the first   *)
(* place where a match ends; from there on the merged automaton follows    *)
(* the automaton of p (s), in "sticky" copies of the states of r.          *)
(***************************************************************************)
EXTENDS DfaGen

\* mapDFAStates: a depth-first walk of both automata by the same characters,
\* pairing each state of s with a state of r.  A state of r is used at most
\* once, and the first pair of a state of s stays.
RECURSIVE PairStates(_, _, _, _, _)
PairStates(r, s, stack, visited, sr) ==
    IF stack = <<>> THEN sr
    ELSE LET q    == Last(stack)
             walk == FoldLeft(
                LAMBDA acc, c :
                    LET sn == s.trans[q][c]
                        rn == r.trans[acc.sr[q]][c]
                    IN  IF sn = INV_STATE \/ rn \in acc.visited THEN acc
                        ELSE [stack   |-> Append(acc.stack, sn),
                              visited |-> acc.visited \cup {rn},
                              sr      |-> IF sn \in DOMAIN acc.sr THEN acc.sr
                                          ELSE acc.sr @@ (sn :> rn)],
                [stack |-> Front(stack), visited |-> visited, sr |-> sr],
                CharSeq)
         IN  PairStates(r, s, walk.stack, walk.visited, walk.sr)

SrMap(r, s) == PairStates(r, s, <<INIT_STATE>>, {}, INIT_STATE :> INIT_STATE)

\* Reading a missing key of a std::map inserts 0.
Lookup(map, key) == IF key \in DOMAIN map THEN map[key] ELSE 0

\* rsMap: the inverse of srMap, the lowest state of s winning.
RsMap(sr) ==
    [q \in {sr[s] : s \in DOMAIN sr} |->
        CHOOSE s \in DOMAIN sr : sr[s] = q /\ \A t \in DOMAIN sr : sr[t] = q => s <= t]

\* States of the merged automaton: <<"r", q>>, <<"sticky", q>>.  The sticky
\* copy of INV_STATE is never expanded and becomes INV_STATE.
Dead        == <<"r", INV_STATE>>
Sticky(q)   == IF q = INV_STATE THEN Dead ELSE <<"sticky", q>>
Unsticky(q) == <<"r", q>>

\* createTransMap, one state.
MergedStep(r, s, sr, rs, q, c) ==
    IF q[1] = "sticky"
    THEN LET sn == s.trans[Lookup(rs, q[2])][c]
         IN  IF sn = INV_STATE THEN Dead ELSE Sticky(Lookup(sr, sn))
    ELSE LET rn == r.trans[q[2]][c]
         IN  IF rn \in r.accept THEN Sticky(rn) ELSE Unsticky(rn)

RECURSIVE MergedStates(_, _, _)
MergedStates(step(_, _), seen, frontier) ==
    IF frontier = {} THEN seen
    ELSE LET next == {step(q, c) : q \in frontier, c \in Chars} \ seen
         IN  MergedStates(step, seen \cup next, next)

\* A pattern that matches the empty string would need its initial state to
\* be sticky; createStateMap then numbers the rows and the states apart, so
\* such patterns are left out.
MergeDfa(r, s) ==
    LET sr    == SrMap(r, s)
        rs    == RsMap(sr)
        step(q, c) == MergedStep(r, s, sr, rs, q, c)
        init  == Unsticky(INIT_STATE)
        all   == MergedStates(step, {Dead, init}, {Dead, init})
        \* createSubMatches: the plain copy of a state if there is one, else
        \* the sticky copy.
        marks(S) == {IF Unsticky(q) \in all THEN Unsticky(q) ELSE Sticky(q) :
                        q \in {p \in S : Unsticky(p) \in all \/ Sticky(p) \in all}} \ {Dead}
    IN  NumberedDfa(Dead, init, all \ {Dead, init},
            [q \in all |-> [c \in Chars |-> step(q, c)]],
            {q \in all : q[1] = "sticky" /\ q[2] \in r.accept},
            [k \in 1..Len(r.subms) |->
                [name   |-> r.subms[k].name, type |-> r.subms[k].type,
                 start  |-> marks(r.subms[k].start),
                 states |-> marks(r.subms[k].states)]])

\* Mutant: the two automata are swapped.
ConstructDfaSwapped(nfa) == MergeDfa(GenerateDfa(nfa), GenerateDfa(SearchNfa(nfa)))

\* RuntimeExpression::constructDFA.
ConstructDfa(nfa) == MergeDfa(GenerateDfa(SearchNfa(nfa)), GenerateDfa(nfa))
=============================================================================
