---------------------------- MODULE MCQueryExec ----------------------------
(* Small tables and all queries of up to MaxStatements statements over them. *)
EXTENDS QueryExec

CONSTANTS MaxStatements,  \* bound: length of a SELECT list
          XValues,        \* the values of the INT column x
          Limits

MCLowest == -100
MCXValues == {-3, 2}
MCKeyType == [k |-> "TEXT", x |-> "INT", y |-> "DOUBLE"]
Row(k, x, y) == [k |-> k, x |-> x, y |-> y]

\* Two groups; in group a all rows pass MCWhere, in group b one fails.
MCRows == {Row("a", x, y) : x \in XValues, y \in {-1}} \cup {Row("b", 1, 2), Row("b", 1, -1)}
MCWhere == {r \in MCRows : r.k = "a" \/ r.y > 0}

Statements == {Var(k) : k \in DOMAIN MCKeyType}
              \cup {AggFunc(f, k) : f \in {"COUNT", "DISTINCT"}, k \in {"k"}}
              \cup {AggFunc(f, k) : f \in ValueFunctions, k \in {"x", "y"}}

Ordered(s) == \A i \in DOMAIN s : IsAggregate(s[i]) => \A j \in i..Len(s) : IsAggregate(s[j])

\* All lists of up to MaxStatements, and all of three of the functions that
\* differ in the tables they fill.
Mixed == {AggFunc("COUNT", "k"), AggFunc("SUM", "x"), AggFunc("AVG", "x"), AggFunc("DISTINCT", "k")}
SelectLists == {s \in UNION {[1..n -> Statements] : n \in 1..MaxStatements} : Ordered(s)}
               \cup [1..3 -> Mixed] \cup {<<WildCard>>, <<CountWildCard>>}

MCQueries == [stmts : SelectLists, keys : {<<>>, <<"k">>}, where : {MCWhere}, limit : Limits]
             \cup [stmts : SelectLists, keys : {<<"x">>, <<"k", "x">>}, where : {MCWhere}, limit : {5}]
=============================================================================
