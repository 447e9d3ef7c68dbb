----------------------------- MODULE MCCommand -----------------------------
(* Four declarations of two tables, two that fail, and queries of them. *)
EXTENDS Command

Column(name) == [ftype |-> "NONE", varKey |-> name]
Group(name, type) == [name |-> name, type |-> type]

\* p has its groups in the order of the pattern reversed or not, as nfa->subms
\* gives them; q has a group that p has too.
MCGroupsOf == [p |-> <<Group("x", "INT"), Group("y", "TEXT")>>,
               q |-> <<Group("z", "DOUBLE"), Group("x", "DOUBLE")>>]
MCNames    == {"a", "b", "f", "f.txt", "g.txt"}
MCDotted   == {"f.txt", "g.txt"}
MCPatterns == {"p", "q", "bad"}
MCColumns  == {"x", "y", "z"}

Declaration(name, file, patterns, isKeys) ==
    [name |-> name, filename |-> file, patterns |-> patterns, isKeys |-> isKeys]

MCDeclarations == {
    Declaration("a", "f.txt", <<"p">>, FALSE),
    Declaration("a", "g.txt", <<"q", "p">>, TRUE),
    Declaration("b", "g.txt", <<"q">>, FALSE),
    Declaration("b", "f.txt", <<"p", "q">>, TRUE),
    Declaration("b", "f.txt", <<"bad">>, FALSE),
    Declaration("b", "f.txt", <<"p", "bad">>, TRUE) }

ScanLine(words) == [words |-> words, query |-> NoQuery]
Sql == <<Word("sql", NoText), Word("sql", NoText)>>
QueryLine(q) == [words |-> Sql, query |-> q]

\* One word, a file without a dot, and a list of keys that is left open.
Malformed == {
    <<Word("sql", NoText)>>,
    <<Word(".scan", NoText), Word("name", "f"), Word("-t", NoText), Word("name", "a"),
      Word("-e", NoText), Word("pattern", "p")>>,
    <<Word(".scan", NoText), Word("name", "f.txt"), Word("-t", NoText), Word("name", "a"),
      Word("-k", NoText), Word("[", NoText), Word("pattern", "p"), Word("comma", NoText)>> }

Ask(tables, trees, gKeys, oKeys) ==
    [tables |-> tables, trees |-> trees, gKeys |-> gKeys, oKeys |-> oKeys]

MCQueries == {
    Ask(<<"a">>, <<<<Column("x"), Column("y")>>>>, <<>>, <<"x">>),
    Ask(<<"a", "b">>, <<<<Column("x")>>, <<[ftype |-> "COUNT", varKey |-> "x"]>>>>, <<"x">>, <<>>),
    Ask(<<"b", "a">>, <<<<Column("z"), Column("x")>>, <<Column("x")>>>>, <<>>, <<>>),
    Ask(<<"b">>, <<<<>>>>, <<"z", "x">>, <<>>),
    NoQuery }

MCLines == UNION {{ScanLine(ws) : ws \in Sentences(d)} : d \in MCDeclarations}
               \cup {ScanLine(ws) : ws \in Malformed}
               \cup {QueryLine(q) : q \in MCQueries}
=============================================================================
