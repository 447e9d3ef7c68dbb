--------------------------- MODULE MCQueryParser ---------------------------
(* Fragments of the WHERE clause over an INT key, a DOUBLE key and two texts. *)
EXTENDS QueryParser

MCKeyType == [x |-> "INT", y |-> "DOUBLE", s |-> "TEXT", t |-> "TEXT"]
NoText == <<>>

\* Two texts s and t of a row, in its data.
Place(a, b) == [start |-> a, end |-> b]
TextRow(d, s, t) == [num |-> [x |-> Len(d) % 2], data |-> d, text |-> [s |-> s, t |-> t]]

\* Texts of one length, one or two bytes, of which the last bit of the mask of a
\* window of three is one behind; two pairs as long as the window; and a text
\* that begins another.
TextRows ==
    {TextRow(<<a, 0, b>>, Place(0, 1), Place(2, 3)) : a, b \in {1, 2}}
    \cup {TextRow(<<a, b, 0, c, d, 0>>, Place(0, 2), Place(3, 5)) : a, b, c, d \in {1, 2}}
    \cup {TextRow(<<1, 2, 1, 0, 1, 2, a, 0>>, Place(0, 3), Place(4, 7)) : a \in {1, 2}}
    \cup {TextRow(<<1, 0, 1, 2>>, Place(0, 1), Place(2, 4))}

\* Comparisons, BETWEEN, constants, AND, OR and parentheses.
Links == [keys |-> {"x"},
          rows |-> {[num |-> [x |-> a], data |-> <<>>, text |-> NoText] : a \in -1..3},
          numbers |-> {1, 2}, doubles |-> {}, signs |-> {FALSE}, strings |-> {},
          operators |-> {}, comparisons |-> {"LESS"}, maxTokens |-> 11]

\* Arithmetic and every comparison; x and y take all pairs of values.
Values == [keys |-> {"x", "y"},
           rows |-> {[num |-> [x |-> a, y |-> b], data |-> <<>>, text |-> NoText] : a, b \in 0..2},
           numbers |-> {2}, doubles |-> {1}, signs |-> {FALSE, TRUE}, strings |-> {},
           operators |-> {"ADD", "SUB", "MUL"},
           comparisons |-> {"EQUAL", "NEQUAL", "LESS", "LESSEQ", "GREATER", "GREATEQ"},
           maxTokens |-> 6]

\* Texts, alone and linked to a number's comparison.
Texts == [keys |-> {"x", "s", "t"}, rows |-> TextRows,
          numbers |-> {1}, doubles |-> {}, signs |-> {FALSE}, strings |-> {<<1>>},
          operators |-> {}, comparisons |-> {"EQUAL"}, maxTokens |-> 7]

\* A text and a constant.
OneText == [Texts EXCEPT !.keys = {"s"}, !.numbers = {}, !.maxTokens = 3]

MCFragments == [links |-> Links, values |-> Values, texts |-> Texts]
ConstantText == [text |-> OneText]
=============================================================================
