------------------------------ MODULE RegexNfa ------------------------------
(***************************************************************************)
(* The Thompson builders of src/regex-node.cpp.  An NFA keeps its states   *)
(* as the numbers 0 .. size - 1, exactly as the C++ struct does, because   *)
(* the code addresses a sub-match by a RANGE of state numbers; transVec is *)
(* a set of triples <<start, c, end>>, subms a sequence whose head is the  *)
(* head of the linked list.  The regex text kept beside an NFA for         *)
(* printing is left out.                                                   *)
(***************************************************************************)
EXTENDS Integers, Sequences, FiniteSets, SequencesExt

CONSTANT Chars      \* the codes standing for 0 .. ASCII_SZ - 1

ASSUME CharsAssumption == Chars \subseteq 0..127

\* The loops "for (int c = 0; c < ASCII_SZ; c++)" visit the codes in this order.
CharSeq ==
    [i \in 1..Cardinality(Chars) |->
        CHOOSE c \in Chars : Cardinality({d \in Chars : d < c}) = i - 1]

EPSILON == -1

IntPT    == "INT_PT"
DoublePT == "DOUBLE_PT"
TextPT   == "TEXT_PT"
PatternTypes == {IntPT, DoublePT, TextPT}

Nfa(subms, trans, init, accept, size, type) ==
    [subms |-> subms, trans |-> trans, init |-> init, accept |-> accept,
     size |-> size, type |-> type]

ShiftTrans(trans, k) == {<<t[1] + k, t[2], t[3] + k>> : t \in trans}

\* Mutants: sub-matches keep their numbers; they are shifted twice.
ShiftSubmNone(sm, k)  == sm
ShiftSubmTwice(sm, k) == [sm EXCEPT !.start = @ + 2 * k, !.end = @ + 2 * k]

ShiftSubm(sm, k) == [sm EXCEPT !.start = @ + k, !.end = @ + k]

-----------------------------------------------------------------------------
(* Character sets: the uint8_t[ASCII_SZ] arrays, as sets of codes. *)

RangeCharsets(first, last) == {c \in Chars : first <= c /\ c <= last}

NegateCharsets(S) == Chars \ S

-----------------------------------------------------------------------------
(* One-step automata: 0 --S--> 1. *)

StepNfa(S, type) == Nfa(<<>>, {<<0, c, 1>> : c \in S}, 0, 1, 2, type)

CharNfa(c)     == StepNfa({c}, TextPT)
CharsetsNfa(S) == StepNfa(S, TextPT)
WildcardNfa    == StepNfa(Chars, TextPT)
DigitNfa       == StepNfa(RangeCharsets(48, 57), IntPT)
AlphNfa        == StepNfa(RangeCharsets(97, 122), TextPT)
CaptNfa        == StepNfa(RangeCharsets(65, 90), TextPT)

-----------------------------------------------------------------------------
(* Combinators. *)

ConcatType(t1, t2) ==
    IF t1 = TextPT \/ t2 = TextPT \/ (t1 = DoublePT /\ t2 = DoublePT) THEN TextPT
    ELSE IF t1 = IntPT /\ t2 = IntPT THEN IntPT
    ELSE DoublePT

\* The right operand is renumbered behind the left one; its sub-matches are
\* pushed one by one on the front of the list.
ConcatNfa(n1, n2) ==
    LET k == n1.size IN
    Nfa(Reverse([i \in 1..Len(n2.subms) |-> ShiftSubm(n2.subms[i], k)]) \o n1.subms,
        n1.trans \cup ShiftTrans(n2.trans, k)
                 \cup {<<n1.accept, EPSILON, k + n2.init>>},
        n1.init, k + n2.accept, k + n2.size, ConcatType(n1.type, n2.type))

\* The sub-matches of both operands are dropped: the new list is NULL.
UnionNfa(n1, n2) ==
    LET k   == n1.size + 1
        acc == n1.size + n2.size + 1
    IN  Nfa(<<>>,
            ShiftTrans(n1.trans, 1) \cup ShiftTrans(n2.trans, k)
                \cup {<<0, EPSILON, n1.init + 1>>, <<n1.accept + 1, EPSILON, acc>>,
                      <<0, EPSILON, n2.init + k>>, <<n2.accept + k, EPSILON, acc>>},
            0, acc, n1.size + n2.size + 2, TextPT)

\* Mutant: the loop is put on the operand's own states.
StarNfaInPlace(n) ==
    [n EXCEPT !.trans = @ \cup {<<n.accept, EPSILON, n.init>>, <<n.init, EPSILON, n.accept>>}]

StarNfa(n) ==
    LET i == n.size
        a == n.size + 1
    IN  Nfa(n.subms,
            n.trans \cup {<<i, EPSILON, n.init>>, <<n.accept, EPSILON, n.init>>,
                          <<n.accept, EPSILON, a>>, <<i, EPSILON, a>>},
            i, a, n.size + 2, IF n.type = IntPT THEN IntPT ELSE TextPT)

SelectNfa(n) ==
    LET i == n.size
        a == n.size + 1
    IN  Nfa(n.subms,
            n.trans \cup {<<i, EPSILON, n.init>>, <<n.accept, EPSILON, a>>,
                          <<i, EPSILON, a>>},
            i, a, n.size + 2, n.type)

\* copyNFA rebuilds the list of sub-matches back to front.
CopyNfa(n) == [n EXCEPT !.subms = Reverse(@)]

PlusNfa(n) == ConcatNfa(n, StarNfa(CopyNfa(n)))

\* Mutant: every copy follows the first one.
NumNfaFromFirst(n, num) ==
    Nfa(n.subms,
        (UNION {ShiftTrans(n.trans, n.size * i) : i \in 0..(num - 1)})
            \cup {<<n.accept, EPSILON, n.size * i + n.init>> : i \in 1..(num - 1)},
        n.init, n.size * (num - 1) + n.accept, n.size * num, n.type)

\* num copies of the transitions, joined by epsilons; the sub-matches keep
\* naming the states of the first copy.
NumNfa(n, num) ==
    Nfa(n.subms,
        (UNION {ShiftTrans(n.trans, n.size * i) : i \in 0..(num - 1)})
            \cup {<<n.size * (i - 1) + n.accept, EPSILON, n.size * i + n.init>> :
                     i \in 1..(num - 1)},
        n.init, n.size * (num - 1) + n.accept, n.size * num,
        IF n.type = DoublePT THEN TextPT ELSE n.type)

\* A named group is remembered as a range of state numbers of its body.
SubmatchNfa(n, name) ==
    [n EXCEPT !.subms = <<[start |-> n.init, end |-> n.accept - n.init + 1,
                           name |-> name, type |-> n.type]>> \o @]

-----------------------------------------------------------------------------
(* The keywords INT and DOUBLE. *)

Sign     == SelectNfa(CharsetsNfa({43, 45} \cap Chars))
Digits10 == RangeCharsets(48, 57)
\* Mutant: leading zeros.
Natural0Leading == ConcatNfa(CharsetsNfa(Digits10), StarNfa(CharsetsNfa(Digits10)))

Natural0 == UnionNfa(CharsetsNfa({48} \cap Chars),
                     ConcatNfa(CharsetsNfa(RangeCharsets(49, 57)),
                               StarNfa(CharsetsNfa(Digits10))))

IntNfa == [ConcatNfa(Sign, Natural0) EXCEPT !.type = IntPT]

DoubleNfa ==
    LET fraction == ConcatNfa(CharsetsNfa({46} \cap Chars),
                              PlusNfa(CharsetsNfa(Digits10)))
        exponent == SelectNfa(ConcatNfa(ConcatNfa(CharsetsNfa({69, 101} \cap Chars), Sign),
                                        Natural0))
    IN  [ConcatNfa(ConcatNfa(Sign, Natural0), ConcatNfa(fraction, exponent))
            EXCEPT !.type = DoublePT]

\* Mutant: the loop over the text before the match is left out.
SearchNfaOnce(n) == ConcatNfa(WildcardNfa, CopyNfa(n))

\* ".*p", the automaton a scan searches with.
SearchNfa(n) == ConcatNfa(StarNfa(WildcardNfa), CopyNfa(n))

-----------------------------------------------------------------------------
(* What an NFA accepts, computed from its transitions alone. *)

EpsClosure(n, S) ==
    LET step(T) == T \cup {t[3] : t \in {u \in n.trans : u[1] \in T /\ u[2] = EPSILON}}
        iter[k \in 0..n.size] == IF k = 0 THEN S ELSE step(iter[k - 1])
    IN  iter[n.size]

Move(n, S, c) ==
    EpsClosure(n, {t[3] : t \in {u \in n.trans : u[1] \in S /\ u[2] = c}})

\* The runs of P, each a word and the states it leads to, one letter further.
Extended(n, P) ==
    {r \in {<<Append(p[1], c), Move(n, p[2], c)>> : p \in P, c \in Chars} : r[2] # {}}

\* The words of length at most len that lead from n's initial state to q.
WordsTo(n, q, len) ==
    LET runs[k \in 0..len] ==
            IF k = 0 THEN {<< <<>>, EpsClosure(n, {n.init}) >>}
            ELSE Extended(n, runs[k - 1])
    IN  {r[1] : r \in {p \in UNION {runs[k] : k \in 0..len} : q \in p[2]}}

\* The words of length at most len that n accepts.
LanguageUpTo(n, len) == WordsTo(n, n.accept, len)
=============================================================================
