------------------------------- MODULE Query -------------------------------
(***************************************************************************)
(* Rows, SELECT lists and queries, as the parser and KeyMap hand them to   *)
(* the executor, and what an aggregate of a sequence of rows is.           *)
(*                                                                         *)
(* A SELECT list is a sequence of statements in the order of the query.    *)
(* The WHERE clause is the set of rows it is true of (QueryTree evaluates  *)
(* the trees), and a DOUBLE is a whole number, so that sums are exact.     *)
(***************************************************************************)
EXTENDS Integers, Sequences, FiniteSetsExt

CONSTANTS KeyType,  \* the type of each named group: INT, DOUBLE or TEXT
          Rows,     \* the tuples a match can be cut into, key -> value
          Queries,  \* the queries that are asked
          MaxRows   \* bound: rows in the file

Keys == DOMAIN KeyType
Star == "*"
AggFuncType == {"DISTINCT", "COUNT", "SUM", "AVG", "MAX", "MIN"}
ValueFunctions == {"SUM", "AVG", "MAX", "MIN"}

\* buildVar, buildAggFunc and the two wildcards of buildWildCard.
Var(k)        == [ftype |-> "NONE", key |-> k]
AggFunc(f, k) == [ftype |-> f, key |-> k]
WildCard      == [ftype |-> "NONE", key |-> Star]
CountWildCard == [ftype |-> "COUNT", key |-> Star]

Statement  == [ftype : AggFuncType \cup {"NONE"}, key : Keys \cup {Star}]
Aggregates == [ftype : AggFuncType, key : Keys \cup {Star}]

IsWildCard(s)  == s.key = Star
IsAggregate(s) == s.ftype # "NONE"

\* A HashTableType is the set of tables that are needed, NONE_HT the empty
\* set and BOTH_HT the set of both; intersectionHTType is then the union.
HTType(s) == CASE s.ftype = "NONE"  -> {}
               [] s.ftype = "COUNT" -> {"count"}
               [] s.ftype = "AVG"   -> {"count", "value"}
               [] OTHER             -> {"value"}

IntersectionHTType(stmts) == UNION {HTType(stmts[i]) : i \in DOMAIN stmts}

\* COUNT of any key is an INT, another function has its key's type.
TypeOf(s) == IF s.ftype = "COUNT" THEN "INT" ELSE KeyType[s.key]

\* The lists the grammar derives: a wildcard alone, or columns and then
\* aggregates. An aggregate that computes needs a number.
IsSelectList(stmts) ==
    \/ stmts \in {<<WildCard>>, <<CountWildCard>>}
    \/ /\ stmts \in Seq(Statement) \ {<<>>}
       /\ \A i \in DOMAIN stmts :
            /\ ~IsWildCard(stmts[i])
            /\ IsAggregate(stmts[i]) => \A j \in i..Len(stmts) : IsAggregate(stmts[j])
            /\ stmts[i].ftype \in ValueFunctions => KeyType[stmts[i].key] # "TEXT"

QueryAssumption ==
    /\ MaxRows \in Nat
    /\ Star \notin Keys
    /\ \A k \in Keys : KeyType[k] \in {"INT", "DOUBLE", "TEXT"}
    /\ \A r \in Rows : /\ DOMAIN r = Keys
                       /\ \A k \in Keys : KeyType[k] # "TEXT" => r[k] \in Int
    /\ \A q \in Queries : /\ IsSelectList(q.stmts)
                          /\ q.keys \in Seq(Keys)
                          /\ q.where \subseteq Rows
                          /\ q.limit \in Nat

ASSUME QueryAssumption

----------------------------------------------------------------------------
\* What the aggregates of a sequence of rows are.

\* The elements of the list that are in S, in their order. (SelectSeq has no
\* definition the provers can expand.)
Among(list, S) ==
    LET part[i \in 0..Len(list)] ==
            IF i = 0 THEN <<>>
            ELSE IF list[i] \in S THEN Append(part[i - 1], list[i]) ELSE part[i - 1]
    IN  part[Len(list)]

Selected(q, rs) == Among(rs, q.where)
GroupOf(q, rs, g) == Among(rs, {r \in Rows : r[q.keys[1]] = g})
GroupKeys(q, rs) == {rs[i][q.keys[1]] : i \in DOMAIN rs}

Total(k, rs) == LET sum[i \in 0..Len(rs)] == IF i = 0 THEN 0 ELSE sum[i - 1] + rs[i][k]
                IN  sum[Len(rs)]

\* An INT average is cut to an integer, a DOUBLE one is the fraction.
Truncated(a, b) == IF a >= 0 THEN a \div b ELSE -((-a) \div b)
Quotient(s, total, n) == IF TypeOf(s) = "INT" THEN Truncated(total, n) ELSE <<total, n>>

Aggregate(s, rs) ==
    CASE s.ftype = "COUNT" -> Len(rs)
      [] s.ftype = "SUM"   -> Total(s.key, rs)
      [] s.ftype = "AVG"   -> Quotient(s, Total(s.key, rs), Len(rs))
      [] s.ftype = "MAX"   -> Max({rs[i][s.key] : i \in DOMAIN rs})
      [] s.ftype = "MIN"   -> Min({rs[i][s.key] : i \in DOMAIN rs})

=============================================================================
