------------------------------ MODULE Compile ------------------------------
(***************************************************************************)
(* From patterns to scans: RuntimeBase::constructVFA of src/runtime.cpp    *)
(* labels the automaton of a table, which has one pattern or one for each  *)
(* key, with the help of a sample of the data; Executor::setFA loads it.   *)
(***************************************************************************)
EXTENDS SetFa, MergeKeys

CONSTANTS
    Patterns,   \* of a table: sequences of patterns, one for each key; a pattern is a
                \* sequence of parts [nfa, name], a group where name is given
    Texts,      \* the buffers
    Samples     \* how many leading bytes of the file are the sample

NoName == ""

\* The parts of a pattern one after the other, as the parser joins them.
Part(part) == IF part.name = NoName THEN part.nfa ELSE SubmatchNfa(part.nfa, part.name)

PatternNfa(parts) ==
    FoldLeft(LAMBDA nfa, part : ConcatNfa(nfa, Part(part)), Part(Head(parts)), Tail(parts))

Prefix(text, k) == SubSeq(text, 1, IF k < Len(text) THEN k ELSE Len(text))

\* The keys of a table, in the order of KeyMap.
TableKeys(keys) == FlattenSeq([k \in 1..Len(keys) |-> PatternNfa(keys[k]).subms])

\* constructDFA and constructVFA of a table, by the head of the data.
Tables ==
    UNION {
        LET dfa   == ConstructKeysDfa([k \in 1..Len(keys) |-> PatternNfa(keys[k])])
            plain == LoadFa(TableKeys(keys), PlainVfa(dfa))
        IN  {[keys |-> keys, fa |-> LoadFa(TableKeys(keys), BuildVfa(dfa, s)), plain |-> plain,
              head |-> s] : s \in {Prefix(u, k) : u \in Texts, k \in Samples}} :
        keys \in Patterns}

\* A table on a buffer that begins with its sample.
Scans ==
    {[keys |-> x[1].keys, fa |-> x[1].fa, plain |-> x[1].plain, data |-> x[2],
      sample |-> Len(x[1].head)] :
        x \in {y \in Tables \X Texts : \E k \in Samples : Prefix(y[2], k) = y[1].head}}
=============================================================================
