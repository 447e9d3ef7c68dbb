-------------------------------- MODULE Vfa --------------------------------
(***************************************************************************)
(* VectFA of src/vfa.cpp: labels each state of the merged automaton with   *)
(* the vector instruction that leaves it.                                  *)
(*   ORDERED  a chain of states that only spells a needle: search it       *)
(*   ANY      skip to the next of a few characters                         *)
(*   RANGES   skip to the next character of a few ranges                   *)
(*   C        one character at a time                                      *)
(*   INV      the dead state                                               *)
(* The states inside a chain disappear.  The code then renumbers the rest; *)
(* here states keep their numbers, and Kept gives INV_STATE for a state    *)
(* that disappeared, as the missing keys of dfas2vfas do.                  *)
(***************************************************************************)
EXTENDS DfaMerge, Pfa

CONSTANTS
    OrdLength,  \* ORD_LENGTH: shorter needles are not searched for
    VecBytes,   \* 16: bytes in a vector register
    MaxRanges   \* 8: ranges in a vector register

ASSUME VfaAssumption ==
    /\ OrdLength \in Nat \ {0, 1}
    /\ Positions \in 1..OrdLength      \* substr(opt_pos) leaves something
    /\ VecBytes \in Nat \ {0} /\ MaxRanges \in Nat

States(d) == 0..(d.num - 1)

Leaving(d, q) == {c \in Chars : d.trans[q][c] # q}

\* constructQs
Sources(d) == {q \in States(d) : Cardinality(Leaving(d, q)) = 1}

GroupStarts(d) == UNION {d.subms[k].start : k \in 1..Len(d.subms)}

\* One chain of constructQstars, from source qs.  At state q of the chain a
\* character either goes on, to a state not seen yet, or falls back to where
\* it goes from qx, the state the chain would be in had it begun one
\* character later.
RECURSIVE Chain(_, _, _, _)
Chain(d, q, qx, star) ==
    LET known   == {c \in Chars : d.trans[q][c] \in star.states}
        onward  == Chars \ known
        next    == IF onward = {} THEN NUL ELSE CHOOSE c \in onward : TRUE
        qnext   == IF onward = {} THEN INV_STATE ELSE d.trans[q][next]
    IN  IF \/ \E c \in known : d.trans[q][c] # d.trans[qx][c]
           \/ Cardinality(onward) > 1
           \/ qnext \in GroupStarts(d)
        THEN star
        ELSE Chain(d, qnext, d.trans[qx][next],
                   [star EXCEPT !.states = @ \cup {qnext}, !.sink = qnext,
                                !.str = Append(@, next)])

Qstar(d, qs) ==
    LET c == CHOOSE x \in Leaving(d, qs) : TRUE
        q == d.trans[qs][c]
    IN  Chain(d, q, qs, [source |-> qs, sink |-> INV_STATE, states |-> {qs, q}, str |-> <<c>>])

\* constructQstars
Qstars(d) == {st \in {Qstar(d, qs) : qs \in Sources(d)} : Len(st.str) >= OrdLength}

\* The states constructVFA erases.
Erased(d) == UNION {st.states \ {st.source, st.sink} : st \in Qstars(d)}

\* dfas2vfas
Kept(d, q) == IF q \in Erased(d) THEN INV_STATE ELSE q

\* constructQtilde
Qtilde(d) ==
    {q \in States(d) \ Erased(d) :
        /\ q # INV_STATE
        /\ q \notin {st.source : st \in Qstars(d)}
        /\ \E c \in Chars : d.trans[q][c] = q}

\* constructDeltaRanges: the runs of consecutive codes in S.
RangeCount(S) == Cardinality({c \in S : c - 1 \notin S})

\* constructDeltaOrds, constructDeltaAnys, constructDeltaCs
Kind(d, q) ==
    IF q = INV_STATE THEN "INV"
    ELSE IF \E st \in Qstars(d) : st.source = q THEN "ORDERED"
    ELSE IF /\ q \in Qtilde(d) /\ Leaving(d, q) # {}
            /\ Cardinality(Leaving(d, q)) <= VecBytes THEN "ANY"
    ELSE IF /\ q \in Qtilde(d) /\ Cardinality(Leaving(d, q)) > VecBytes
            /\ RangeCount(Leaving(d, q)) <= MaxRanges THEN "RANGES"
    ELSE "C"

\* constructVFA on a sample of the data.
BuildVfa(d, sample) ==
    LET stars   == {st \in Qstars(d) : st.source \notin Erased(d)}
        star(q) == CHOOSE st \in stars : st.source = q
        pos     == CalcSubString([q \in {st.source : st \in Qstars(d)} |->
                                     (CHOOSE st \in Qstars(d) : st.source = q).str], sample)
        kept    == States(d) \ Erased(d)
        kind    == [q \in kept |-> Kind(d, q)]
    IN  [states |-> kept,
         kind   |-> kind,
         next   |-> [q \in kept |-> [c \in Chars |->
                        IF kind[q] = "ORDERED" THEN INV_STATE ELSE Kept(d, d.trans[q][c])]],
         leave  |-> [q \in kept |-> IF kind[q] \in {"ANY", "RANGES"} THEN Leaving(d, q) ELSE {}],
         str    |-> [q \in kept |->
                        IF kind[q] = "ORDERED" THEN SubSeq(star(q).str, pos[q] + 1, Len(star(q).str))
                        ELSE <<>>],
         back   |-> [q \in kept |->
                        IF kind[q] = "ORDERED" THEN SubSeq(star(q).str, 1, pos[q]) ELSE <<>>],
         \* rTable[0]: a needle longer than the register leads back to its source.
         sink   |-> [q \in kept |->
                        IF kind[q] # "ORDERED" THEN INV_STATE
                        ELSE IF Len(star(q).str) - pos[q] <= VecBytes THEN Kept(d, star(q).sink)
                        ELSE q],
         accept |-> d.accept \cap kept,
         subms  |-> [k \in 1..Len(d.subms) |->
                        [d.subms[k] EXCEPT !.start = {Kept(d, q) : q \in @},
                                           !.states = {Kept(d, q) : q \in @}]]]
=============================================================================
