----------------------------- MODULE SparkRows -----------------------------
(***************************************************************************)
(* Rows for Spark: Executor::storeToDataFrame writes a match into the      *)
(* buffer that the JVM handed over, in the layout of an UnsafeRow: a word  *)
(* of null bits, a word per column, then the texts.  A word of a TEXT      *)
(* column says how long its text is and where it begins.                   *)
(*                                                                         *)
(* A row is the words that were written, by their place in the row, and    *)
(* the texts, by theirs; bytes are counted as the code does.               *)
(***************************************************************************)
EXTENDS Integers, SequencesExt, FiniteSets

CONSTANTS
    Types,          \* INT, DOUBLE, TEXT
    StringSize,     \* 64: bytes reserved for a text
    NumberSize      \* 128: the buffer a number is copied to

\* setSparkContext and constructSparkSchema: the k-th TEXT key gets the k-th
\* room behind the words.  The schema goes through the keys by their names,
\* a row through the groups by their ids; all rooms are of one size.
VarOffset(types, k) == 8 + 8 * Len(types) + (k - 1) * StringSize

\* The row Spark expects (DefaultSource): null bits, words, texts.
TextKeys(types) == {k \in 1..Len(types) : types[k] = "TEXT"}
SizeInRow(types) ==
    8 * (Len(types) \div 64 + 1) + 8 * Len(types) + StringSize * Cardinality(TextKeys(types))

Took(sub) == sub.start >= 0 /\ sub.end >= 0

\* The groups that took part in the match, by their ids; what is stored of
\* those goes by how many come before.
Taken(subs)  == {g \in 1..Len(subs) : Took(subs[g])}
Before(S, g) == Cardinality({h \in S : h < g})

\* Mutant: the rooms are counted by the columns, not by the texts.
TextsBeforeAll(types, taken, g) == Before(taken, g)

\* ti: the texts stored before group g of a row.
TextsBefore(types, taken, g) == Before({h \in taken : types[h] = "TEXT"}, g)

\* A group that ends before it starts, by the wrapped difference: a number is
\* then copied far beyond its buffer.  So is a number that is too long.
StoreFaults(types, subs) ==
    \E g \in 1..Len(subs) :
        /\ Took(subs[g]) /\ types[g] # "TEXT"
        /\ subs[g].end < subs[g].start \/ subs[g].end - subs[g].start >= NumberSize

\* ssize: a text that does not fit is cut; a wrapped size does not fit.
TextSize(sub) ==
    IF sub.end < sub.start \/ sub.end - sub.start > StringSize THEN StringSize
    ELSE sub.end - sub.start

\* Where a group's column is written: column after column, a group that took
\* no part has none.
WordOffset(taken, g) == 8 * (Before(taken, g) + 1)

\* The bytes from start on that a text or a number is made of.
Copy(data, start, n) == [t \in 1..n |-> IF start + t <= Len(data) THEN data[start + t] ELSE 0]

\* atoll: the value of the leading digits behind a sign.
Atoll(s) ==
    LET negative == s # <<>> /\ Head(s) = 45
        body     == IF s # <<>> /\ Head(s) \in {43, 45} THEN Tail(s) ELSE s
        end      == SelectInSeq(body, LAMBDA c : c \notin 48..57)
        value    == FoldLeft(LAMBDA v, c : 10 * v + (c - 48), 0,
                             IF end = 0 THEN body ELSE SubSeq(body, 1, end - 1))
    IN  IF negative THEN -value ELSE value

\* The number of a column; a DOUBLE is left as the text that atof is given.
Number(type, s) == IF type = "INT" THEN Atoll(s) ELSE s

\* storeToDataFrame
StoreToDataFrame(types, subs, data) ==
    LET taken   == Taken(subs)
        texts   == {g \in taken : types[g] = "TEXT"}
        word(g) == WordOffset(taken, g)
        at(g)   == VarOffset(types, TextsBefore(types, taken, g) + 1)
    IN  [words |-> [o \in {word(g) : g \in taken} |->
                        LET g == CHOOSE h \in taken : word(h) = o IN
                        IF g \in texts
                        THEN [size |-> TextSize(subs[g]), offset |-> at(g), number |-> <<>>]
                        ELSE [size |-> 0, offset |-> 0,
                              number |-> Number(types[g],
                                        Copy(data, subs[g].start, subs[g].end - subs[g].start))]],
         texts |-> [o \in {at(g) : g \in texts} |->
                        LET g == CHOOSE h \in texts : at(h) = o
                        IN  Copy(data, subs[g].start, TextSize(subs[g]))]]

\* What Spark reads in column c of a row.
ReadColumn(types, row, c) ==
    LET word == row.words[8 * c]
    IN  IF types[c] = "TEXT" THEN SubSeq(row.texts[word.offset], 1, word.size) ELSE word.number
=============================================================================
