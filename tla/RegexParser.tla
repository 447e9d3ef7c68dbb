---------------------------- MODULE RegexParser ----------------------------
(***************************************************************************)
(* The semantic actions of generator/regex.ypp, reduction by reduction.    *)
(* The LALR parser reduces a pattern bottom-up, so its value stack is a    *)
(* stack of NFAs, each with the nonterminal it stands for; a reduction     *)
(* replaces the top one or two values.  The behaviours of this module are  *)
(* the reduction sequences of all the patterns of at most MaxTokens        *)
(* operands and operators.                                                 *)
(*                                                                         *)
(* Beside each NFA the stack carries, for checking only, the language that *)
(* the usual reading of the regular expression gives it (ref, cut at words *)
(* of length MaxLen), and for each group its name and the words of the     *)
(* pattern after which the group begins (groups).                          *)
(***************************************************************************)
EXTENDS RegexNfa

CONSTANTS
    Charsets,   \* the bracket expressions offered, as sets of codes
    Keywords,   \* subset of {"digit", "alph", "capt", "int", "double"}
    Names,      \* names of sub-match groups
    Counts,     \* the numbers offered inside {n}
    MaxTokens,  \* bound: operands and operators in one pattern
    MaxLen      \* bound: length of the words of the reference languages

ASSUME ParserAssumption ==
    /\ Charsets \subseteq SUBSET Chars
    /\ Keywords \subseteq {"digit", "alph", "capt", "int", "double"}
    /\ Counts \subseteq Nat \ {0}
    /\ MaxTokens \in Nat /\ MaxLen \in Nat

VARIABLES
    stack,      \* the parser's value stack, last element on top
    tokens,     \* operands and operators consumed so far
    done        \* the pattern is complete: *nfa is the value on the stack

vars == <<stack, tokens, done>>

\* elementary_re < basic_re < simple_re < regex: each level of the grammar
\* includes the one before it, by a rule that only copies the value.
Elementary == 1
Basic      == 2
Simple     == 3
Regex      == 4

-----------------------------------------------------------------------------
(* The reference languages. *)

Words(L) == {w \in L : Len(w) <= MaxLen}

Cat(L, M) == Words({u \o v : u \in L, v \in M})

Power(L, k) ==
    LET p[i \in 0..k] == IF i = 0 THEN {<<>>} ELSE Cat(p[i - 1], L) IN p[k]

StarLang(L) == UNION {Power(L, k) : k \in 0..MaxLen}

Letters(S) == Words({<<c>> : c \in S})

Opt(L) == {<<>>} \cup L

KeywordNfa(k) ==
    CASE k = "digit"  -> DigitNfa
      [] k = "alph"   -> AlphNfa
      [] k = "capt"   -> CaptNfa
      [] k = "int"    -> IntNfa
      [] k = "double" -> DoubleNfa

IntLang ==
    Cat(Opt(Letters({43, 45} \cap Chars)),
        Letters({48} \cap Chars)
            \cup Cat(Letters(RangeCharsets(49, 57)), StarLang(Letters(Digits10))))

DoubleLang ==
    LET digits == Cat(Letters(Digits10), StarLang(Letters(Digits10)))
    IN  Cat(IntLang,
            Cat(Cat(Letters({46} \cap Chars), digits),
                Opt(Cat(Letters({69, 101} \cap Chars), IntLang))))

KeywordLang(k) ==
    CASE k = "digit"  -> Letters(Digits10)
      [] k = "alph"   -> Letters(RangeCharsets(97, 122))
      [] k = "capt"   -> Letters(RangeCharsets(65, 90))
      [] k = "int"    -> IntLang
      [] k = "double" -> DoubleLang

-----------------------------------------------------------------------------
Init == stack = <<>> /\ tokens = 0 /\ done = FALSE

Top    == stack[Len(stack)]
Second == stack[Len(stack) - 1]

CanRead == ~done /\ tokens < MaxTokens

\* The groups, moved behind the words of L.
After(L, groups) == {[g EXCEPT !.pre = Cat(L, @)] : g \in groups}

Shift(nfa, ref) ==
    /\ CanRead
    /\ stack' = Append(stack, [cat |-> Elementary, nfa |-> nfa, ref |-> ref, groups |-> {}])
    /\ tokens' = tokens + 1
    /\ UNCHANGED done

\* elementary_re: RCHAR_TK
ReduceChar == \E c \in Chars : Shift(CharNfa(c), Letters({c}))

\* elementary_re: '.'
ReduceWildcard == Shift(WildcardNfa, Letters(Chars))

\* charset: '[' setitems ']' | '[' '^' setitems ']'
ReduceCharset ==
    \E S \in Charsets :
        \/ Shift(CharsetsNfa(S), Letters(S))
        \/ Shift(CharsetsNfa(NegateCharsets(S)), Letters({c \in Chars : c \notin S}))

\* elementary_re: RDIGIT_TK | RALPH_TK | RCAPT_TK | int | double
ReduceKeyword == \E k \in Keywords : Shift(KeywordNfa(k), KeywordLang(k))

\* A reduction that replaces the top value.
Unary(from, cat, nfa, ref, groups) ==
    /\ CanRead
    /\ stack # <<>> /\ Top.cat <= from
    /\ stack' = [stack EXCEPT ![Len(stack)] =
                    [cat |-> cat, nfa |-> nfa, ref |-> ref, groups |-> groups]]
    /\ tokens' = tokens + 1
    /\ UNCHANGED done

ReduceStar   == Unary(Elementary, Basic, StarNfa(Top.nfa),
                      StarLang(Top.ref), After(StarLang(Top.ref), Top.groups))
ReducePlus   == Unary(Elementary, Basic, PlusNfa(Top.nfa),
                      Cat(Top.ref, StarLang(Top.ref)),
                      Top.groups \cup After(Cat(Top.ref, StarLang(Top.ref)), Top.groups))
ReduceSelect == Unary(Elementary, Basic, SelectNfa(Top.nfa), Opt(Top.ref), Top.groups)
\* Only the groups of the first copy are kept.
ReduceCount  == \E k \in Counts :
                    Unary(Elementary, Basic, NumNfa(Top.nfa, k), Power(Top.ref, k), Top.groups)

\* elementary_re: '(' regex ')' | '(' RSUBMATCH_TK regex ')'
ReduceParenthesis == Unary(Regex, Elementary, Top.nfa, Top.ref, Top.groups)
ReduceSubmatch    == \E name \in Names :
                         Unary(Regex, Elementary, SubmatchNfa(Top.nfa, name), Top.ref,
                               Top.groups \cup {[name |-> name, pre |-> {<<>>}]})

\* A reduction that replaces the two top values.
Binary(left, right, cat, nfa, ref, groups) ==
    /\ ~done
    /\ Len(stack) >= 2 /\ Second.cat <= left /\ Top.cat <= right
    /\ stack' = Append(SubSeq(stack, 1, Len(stack) - 2),
                       [cat |-> cat, nfa |-> nfa, ref |-> ref, groups |-> groups])
    /\ UNCHANGED <<tokens, done>>

\* concat: simple_re basic_re
ReduceConcat == Binary(Simple, Basic, Simple,
                       ConcatNfa(Second.nfa, Top.nfa), Cat(Second.ref, Top.ref),
                       Second.groups \cup After(Second.ref, Top.groups))

\* union: regex '|' simple_re.  The groups of both branches are lost.
ReduceUnion  == Binary(Regex, Simple, Regex,
                       UnionNfa(Second.nfa, Top.nfa), Second.ref \cup Top.ref, {})

\* line: regex.  The pattern is complete.
ReduceLine ==
    /\ ~done /\ Len(stack) = 1
    /\ done' = TRUE
    /\ UNCHANGED <<stack, tokens>>

Next ==
    \/ ReduceChar \/ ReduceWildcard \/ ReduceCharset \/ ReduceKeyword
    \/ ReduceStar \/ ReducePlus \/ ReduceSelect \/ ReduceCount
    \/ ReduceParenthesis \/ ReduceSubmatch
    \/ ReduceConcat \/ ReduceUnion
    \/ ReduceLine

Spec == Init /\ [][Next]_vars

-----------------------------------------------------------------------------
(* Properties. *)

Nfas == {stack[i].nfa : i \in 1..Len(stack)}

\* Every builder leaves a well-formed Thompson automaton: its states are
\* 0 .. size - 1, nothing enters the initial state and nothing leaves the
\* accepting one.  The builders rely on it of their operands (a star or a
\* union glues automata together by epsilons, and a state that leaked out
\* of an operand would be aliased with a state of its neighbour after the
\* renumbering), and the detection of a group by its initial state relies
\* on nothing re-entering it from inside the body.
Thompson(n) ==
    /\ n.size \in Nat
    /\ n.init \in 0..(n.size - 1) /\ n.accept \in 0..(n.size - 1)
    /\ n.init # n.accept
    /\ \A t \in n.trans : /\ t[1] \in 0..(n.size - 1) /\ t[1] # n.accept
                          /\ t[2] \in Chars \cup {EPSILON}
                          /\ t[3] \in 0..(n.size - 1) /\ t[3] # n.init

\* Type invariant.
TypeOK ==
    /\ \A i \in 1..Len(stack) : stack[i].cat \in Elementary..Regex
    /\ tokens \in 0..MaxTokens /\ done \in BOOLEAN
    /\ \A n \in Nfas : /\ n.type \in PatternTypes
                       /\ \A i \in 1..Len(n.subms) : n.subms[i].start \in 0..(n.size - 1)

\* Every automaton on the stack is well formed.
ThompsonShape == \A n \in Nfas : Thompson(n)

\* Whatever the order of reductions, the automaton of a (sub)pattern accepts
\* exactly the words of its regular expression: no transition of an operand
\* is lost or renumbered onto another one's states.
LanguageExact ==
    \A i \in 1..Len(stack) : LanguageUpTo(stack[i].nfa, MaxLen) = stack[i].ref

\* The automaton that searches, ".*p", accepts exactly the words that end in
\* a word of the pattern.
SearchExact ==
    done => LanguageUpTo(SearchNfa(Top.nfa), MaxLen) = Cat(StarLang(Letters(Chars)), Top.ref)

\* A group that no alternation has dropped is still tied to its place in the
\* pattern: its first state is reached by exactly the words after which the
\* regular expression lets the group begin.  All the renumbering of start
\* states by concatenations, repetitions and copies has to agree for that.
GroupsInPlace ==
    \A i \in 1..Len(stack) :
        LET n == stack[i].nfa
        IN  {[name |-> n.subms[k].name, pre |-> WordsTo(n, n.subms[k].start, MaxLen)] :
                k \in 1..Len(n.subms)} = stack[i].groups
=============================================================================
