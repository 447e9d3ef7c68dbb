----------------------------- MODULE QueryExec -----------------------------
(***************************************************************************)
(* The query part of the executor: setStatements and setAggregations       *)
(* prepare it, queryExec is called for every row the scan extracts and     *)
(* projects or aggregates it, queryEndExec prints the aggregates.          *)
(*                                                                         *)
(* A row is aggregated by a loop over the aggregate functions, one step    *)
(* for each here: the value table and the count table are filled by        *)
(* different functions, and a row that fails half way leaves what was      *)
(* done. A fault is an uncaught exception or a NULL that is dereferenced.  *)
(***************************************************************************)
EXTENDS Query, SequencesExt

CONSTANTS Lowest,   \* INT64_MIN, and -DBL_MAX
          Largest,  \* INT64_MAX, and DBL_MAX
          Exact,    \* 2^53: up to it a double, and the bits of one, add like integers
          Fresh,    \* the values a bool nobody has written may be read as
          Unset     \* a number nobody has written

VARIABLES query,        \* the QueryContext
          wild,         \* isWildCard of each of aggContexts
          rows,         \* the rows handed to queryExec so far; tuple is the last
          count,        \* rows selected
          vk,           \* the aggregation loops' index into aggContexts
          agg,          \* aggregation0's values
          aggCount,     \* aggregation0's counts
          aggMap,       \* the value table, group -> values
          aggCountMap,  \* the count table, group -> counts
          out,          \* the lines printed
          printed,      \* the groups the printing iterator has passed
          pc            \* row, fold, group, print, done or fault

\* The keys whose values are summed as doubles: an INT without GROUP BY.
AddedAsDoubles == {k \in Keys : \/ KeyType[k] = "DOUBLE"
                                \/ KeyType[k] = "INT" /\ \E q \in Queries : q.keys = <<>>}

\* Numbers keep the width of an int64_t or a double: no sum of a column over
\* the rows of a file, or one row's value, reaches the ends of the range, and
\* none that is a sum of doubles is rounded.  (The sum of an INT column with a
\* negative value is none that is exact, see aggregation0.)
QueryExecAssumption ==
    /\ Lowest \in Int /\ Largest \in Int
    /\ Fresh \subseteq BOOLEAN
    /\ \A n \in 0..MaxRows : \A rs \in [1..n -> Rows], k \in Keys :
        KeyType[k] # "TEXT" => Lowest < Total(k, rs) /\ Total(k, rs) < Largest
    /\ Exact \in Nat
    /\ \A n \in 0..MaxRows : \A rs \in [1..n -> Rows], k \in AddedAsDoubles :
        (KeyType[k] = "INT" => \A i \in 1..n : rs[i][k] >= 0) => Total(k, rs) \in -Exact..Exact

ASSUME QueryExecAssumption

loopVars == <<query, wild, rows, count>>
vars == <<query, wild, rows, count, vk, agg, aggCount, aggMap, aggCountMap, out, printed, pc>>

\* setStatements walks the parser's list, which is in reverse order: the
\* contexts are numbered from the last aggregate of the query to its first.
Contexts(stmts) == Reverse(Among(stmts, Aggregates))

\* Mutant of AggId: the aggregates are numbered in the order of the query.
AggIdForward(stmts, i) == Cardinality({j \in 1..i : IsAggregate(stmts[j])})

\* op->aggId of the i-th statement.
AggId(stmts, i) == Cardinality({j \in i..Len(stmts) : IsAggregate(stmts[j])})

httype == IntersectionHTType(query.stmts)
aggContexts == Contexts(query.stmts)
tuple == rows[Len(rows)]

\* Mutant of InitialValue: the least double is taken for DBL_MIN, nearly 0.
InitialValueTiny(c) == IF c.ftype = "MIN" THEN Largest ELSE 0

\* The initial value of setAggregations and of AggregationValueMap::assign.
InitialValue(c) == CASE c.ftype = "MIN" -> Largest
                     [] c.ftype = "MAX" -> Lowest
                     [] OTHER           -> 0

\* Without GROUP BY there is a cell in agg and in aggCount for each context;
\* isWildCard is written for COUNT(*) only. Where it reads as true the cells
\* are not written either.
Cells == IF query.keys = <<>> THEN DOMAIN aggContexts ELSE {}

Init ==
    /\ query \in Queries
    /\ wild \in {w \in [Cells -> BOOLEAN] : \A j \in Cells :
                    IF IsWildCard(aggContexts[j]) THEN w[j] ELSE w[j] \in Fresh}
    /\ rows = <<>>
    /\ count = 0
    /\ vk = 0
    /\ agg = [j \in Cells |-> IF wild[j] THEN Unset ELSE InitialValue(aggContexts[j])]
    /\ aggCount = [j \in Cells |-> IF wild[j] THEN Unset ELSE 0]
    /\ aggMap = <<>>
    /\ aggCountMap = <<>>
    /\ out = <<>>
    /\ printed = {}
    /\ pc = "row"

----------------------------------------------------------------------------
\* queryExec: materialize, selection, count, and projection or aggregation.

Skip(r) == /\ r \notin query.where
           /\ UNCHANGED <<count, vk, out, pc>>

\* An INT or DOUBLE expression prints its value, a TEXT key its text. The
\* expression of a wildcard is NULL.
Project(r) ==
    /\ r \in query.where
    /\ count' = count + 1
    /\ count' <= query.limit /\ httype = {}
    /\ IF query.stmts = <<WildCard>>
       THEN pc' = "fault" /\ UNCHANGED out
       ELSE /\ out' = Append(out, [i \in DOMAIN query.stmts |-> r[query.stmts[i].key]])
            /\ pc' = pc
    /\ UNCHANGED vk

\* aggregation: with more than one key nothing is done, with none or one the
\* loop over the contexts begins. The key is read as a text pointer.
Aggregation(r) ==
    /\ r \in query.where
    /\ count' = count + 1
    /\ ~(count' <= query.limit /\ httype = {})
    /\ pc' = IF aggContexts = <<>> \/ Len(query.keys) > 1 THEN "row"
             ELSE IF query.keys = <<>> THEN "fold"
             ELSE IF KeyType[query.keys[1]] = "TEXT" THEN "group"
             ELSE "fault"
    /\ vk' = IF pc' \in {"fold", "group"} THEN 1 ELSE vk
    /\ UNCHANGED out

QueryExec(r) ==
    /\ pc = "row"
    /\ Len(rows) < MaxRows
    /\ rows' = Append(rows, r)
    /\ Skip(r) \/ Project(r) \/ Aggregation(r)
    /\ UNCHANGED <<query, wild, agg, aggCount, aggMap, aggCountMap, printed>>

\* Mutant of NextContext: the loop runs to aggSize inclusive.
NextContextLate == /\ vk' = vk + 1
                   /\ pc' = IF vk > Len(aggContexts) THEN "row" ELSE pc

\* The end of one turn of either aggregation loop.
NextContext == /\ vk' = vk + 1
               /\ pc' = IF vk = Len(aggContexts) THEN "row" ELSE pc

----------------------------------------------------------------------------
\* aggregation0: no GROUP BY. Every value is read and written as a double,
\* an INT's too. Bits of an int64_t read as a double: from 0 they are the
\* doubles in the same order (with the same sums), INT64_MIN is -0.0, the
\* other negative ones and INT64_MAX are NaN.

IsNaN(c, v) == TypeOf(c) = "INT" /\ (v = Largest \/ (v < 0 /\ v # Lowest))

\* A sum with a NaN is that NaN, of two the one the compiler put first.
DoubleSums(c, a, t) ==
    LET nans == {v \in {a, t} : IsNaN(c, v)}
    IN  IF nans = {} THEN {a + t} ELSE nans

\* a > t ? a : t and a < t ? a : t, false when either is NaN.
DoubleMax(c, a, t) == IF ~IsNaN(c, a) /\ ~IsNaN(c, t) /\ a > t THEN a ELSE t
DoubleMin(c, a, t) == IF ~IsNaN(c, a) /\ ~IsNaN(c, t) /\ a < t THEN a ELSE t

Folding(c) == /\ pc = "fold"
              /\ c = aggContexts[vk]
              /\ NextContext
              /\ UNCHANGED <<loopVars, aggMap, aggCountMap, out, printed>>

FoldSkip(c) == /\ Folding(c)
               /\ wild[vk] \/ c.ftype = "DISTINCT"
               /\ UNCHANGED <<agg, aggCount>>

FoldCount(c) == /\ Folding(c)
                /\ ~wild[vk] /\ c.ftype = "COUNT"
                /\ aggCount' = [aggCount EXCEPT ![vk] = @ + 1]
                /\ UNCHANGED agg

FoldSum(c) == /\ Folding(c)
              /\ ~wild[vk] /\ c.ftype \in {"SUM", "AVG"}
              /\ \E v \in DoubleSums(c, agg[vk], tuple[c.key]) : agg' = [agg EXCEPT ![vk] = v]
              /\ aggCount' = IF c.ftype = "AVG" THEN [aggCount EXCEPT ![vk] = @ + 1]
                             ELSE aggCount

FoldExtreme(c) ==
    /\ Folding(c)
    /\ ~wild[vk] /\ c.ftype \in {"MAX", "MIN"}
    /\ agg' = [agg EXCEPT ![vk] = IF c.ftype = "MAX" THEN DoubleMax(c, @, tuple[c.key])
                                  ELSE DoubleMin(c, @, tuple[c.key])]
    /\ UNCHANGED aggCount

----------------------------------------------------------------------------
\* aggregation1: one GROUP BY key, two hash tables.

group == tuple[query.keys[1]]

\* Mutant of Assign: the values of the key are replaced.
AssignAgain(table, g, values) ==
    [h \in DOMAIN table \cup {g} |-> IF h # g THEN table[h] ELSE values]

\* assign: insert does not replace what the key already has.
Assign(table, g, values) ==
    [h \in DOMAIN table \cup {g} |-> IF h \in DOMAIN table THEN table[h] ELSE values]

AssignValues(table, g) == Assign(table, g, [j \in DOMAIN aggContexts |-> InitialValue(aggContexts[j])])
AssignCounts(table, g) == Assign(table, g, [j \in DOMAIN aggContexts |-> 0])

\* sumInt, sumDouble, maxInt, maxDouble, minInt, minDouble.
Updated(c, a, t) == CASE c.ftype \in {"SUM", "AVG"} -> a + t
                      [] c.ftype = "MAX"            -> IF t > a THEN t ELSE a
                      [] c.ftype = "MIN"            -> IF t < a THEN t ELSE a

UpdateValue(c) == aggMap' = [AssignValues(aggMap, group) EXCEPT
                                ![group][vk] = Updated(c, @, tuple[c.key])]

Grouping(c) == /\ pc = "group"
               /\ c = aggContexts[vk]
               /\ UNCHANGED <<loopVars, agg, aggCount, out, printed>>

GroupCount(c) ==
    /\ Grouping(c)
    /\ c.ftype = "COUNT"
    /\ aggCountMap' = [AssignCounts(aggCountMap, group) EXCEPT ![group][vk] = @ + 1]
    /\ NextContext
    /\ UNCHANGED aggMap

GroupDistinct(c) ==
    /\ Grouping(c)
    /\ c.ftype = "DISTINCT"
    /\ aggCountMap' = AssignCounts(aggCountMap, group)
    /\ NextContext
    /\ UNCHANGED aggMap

GroupValue(c) ==
    /\ Grouping(c)
    /\ c.ftype \in {"SUM", "MAX", "MIN"}
    /\ UpdateValue(c)
    /\ NextContext
    /\ UNCHANGED aggCountMap

\* AVG needs both tables and assigns both when the value table lacks the
\* group; count throws out_of_range when the count table lacks it then.
GroupAvg(c) ==
    /\ Grouping(c)
    /\ c.ftype = "AVG"
    /\ UpdateValue(c)
    /\ LET counts == IF group \in DOMAIN aggMap THEN aggCountMap
                     ELSE AssignCounts(aggCountMap, group)
       IN  IF group \in DOMAIN counts
           THEN /\ aggCountMap' = [counts EXCEPT ![group][vk] = @ + 1]
                /\ NextContext
           ELSE /\ pc' = "fault"
                /\ UNCHANGED <<aggCountMap, vk>>

----------------------------------------------------------------------------
\* queryEndExec.

EndOfData == /\ pc = "row"
             /\ pc' = "print"
             /\ UNCHANGED <<loopVars, vk, agg, aggCount, aggMap, aggCountMap, out, printed>>

\* The value of an aggregate from its sum and count (evalOp, evalFunc1Op).
\* A quotient by 0 is NaN, which is INT64_MIN as an integer.
Value(s, value, n) ==
    CASE s.ftype = "COUNT" -> n
      [] s.ftype = "AVG"   -> IF n = 0 /\ TypeOf(s) = "INT" THEN Lowest ELSE Quotient(s, value, n)
      [] OTHER             -> value

\* What is printed for a TEXT.
NoText == ""

\* printAggregation0: a wildcard prints count, a column what tuple still
\* holds; a TEXT prints nothing.
TotalLine ==
    [i \in DOMAIN query.stmts |->
        LET s == query.stmts[i]
            j == AggId(query.stmts, i)
        IN  IF IsWildCard(s) THEN count
            ELSE IF TypeOf(s) = "TEXT" THEN NoText
            ELSE IF IsAggregate(s) THEN Value(s, agg[j], aggCount[j])
            ELSE IF rows = <<>> THEN Unset ELSE tuple[s.key]]

PrintAggregation0 ==
    /\ pc = "print"
    /\ httype # {} /\ query.keys = <<>> /\ printed = {}
    /\ out' = Append(out, TotalLine)
    /\ printed' = {Star}
    /\ UNCHANGED <<loopVars, vk, agg, aggCount, aggMap, aggCountMap, pc>>

\* printAggregation1 goes through the count table when no function needs the
\* value table, and through the value table otherwise, in the table's order.
\* The limit 0 is no limit.
iterated == IF httype = {"count"} THEN DOMAIN aggCountMap ELSE DOMAIN aggMap
\* Mutant: LIMIT decides alone, however many groups there are.
groupsToPrintLimit == IF query.limit # 0 THEN query.limit ELSE Cardinality(iterated)

groupsToPrint == IF query.limit # 0 /\ query.limit <= Cardinality(iterated)
                 THEN query.limit ELSE Cardinality(iterated)

\* at() throws when the group is in one table only; the expression of
\* COUNT(*) is NULL.
Printable(g) == \A i \in DOMAIN query.stmts :
    LET s == query.stmts[i]
    IN  /\ ~IsWildCard(s)
        /\ "count" \in HTType(s) => g \in DOMAIN aggCountMap
        /\ "value" \in HTType(s) => g \in DOMAIN aggMap

GroupLine(g) ==
    [i \in DOMAIN query.stmts |->
        LET s == query.stmts[i]
            j == AggId(query.stmts, i)
        IN  IF ~IsAggregate(s) THEN g
            ELSE IF TypeOf(s) = "TEXT" THEN NoText
            ELSE IF HTType(s) = {"count"} THEN aggCountMap[g][j]
            ELSE IF HTType(s) = {"value"} THEN aggMap[g][j]
            ELSE Value(s, aggMap[g][j], aggCountMap[g][j])]

PrintAggregation1(g) ==
    /\ pc = "print"
    /\ httype # {} /\ Len(query.keys) = 1
    /\ Cardinality(printed) < groupsToPrint
    /\ g \notin printed
    /\ printed' = printed \cup {g}
    /\ IF Printable(g) THEN out' = Append(out, GroupLine(g)) /\ UNCHANGED pc
       ELSE pc' = "fault" /\ UNCHANGED out
    /\ UNCHANGED <<loopVars, vk, agg, aggCount, aggMap, aggCountMap>>

EndQuery ==
    /\ pc = "print"
    /\ httype # {} => CASE query.keys = <<>>    -> printed # {}
                        [] Len(query.keys) = 1  -> Cardinality(printed) = groupsToPrint
                        [] OTHER                -> TRUE
    /\ pc' = "done"
    /\ UNCHANGED <<loopVars, vk, agg, aggCount, aggMap, aggCountMap, out, printed>>

Aggregate1(c) == \/ FoldSkip(c) \/ FoldCount(c) \/ FoldSum(c) \/ FoldExtreme(c)
                 \/ GroupCount(c) \/ GroupDistinct(c) \/ GroupValue(c) \/ GroupAvg(c)

Next == \/ \E r \in Rows : QueryExec(r)
        \/ \E j \in DOMAIN aggContexts : Aggregate1(aggContexts[j])
        \/ EndOfData
        \/ PrintAggregation0
        \/ \E g \in iterated : PrintAggregation1(g)
        \/ EndQuery

Spec == Init /\ [][Next]_vars /\ WF_vars(Next)

----------------------------------------------------------------------------
\* Properties.

TypeOK ==
    /\ query \in Queries
    /\ wild \in [Cells -> BOOLEAN]
    /\ rows \in Seq(Rows) /\ Len(rows) <= MaxRows
    /\ count \in 0..Len(rows)
    /\ vk \in 0..Len(aggContexts) + 1
    /\ pc \in {"fold", "group"} => rows # <<>> /\ vk \in DOMAIN aggContexts
    /\ DOMAIN agg = Cells /\ DOMAIN aggCount = Cells
    /\ query.keys # <<>> => /\ DOMAIN aggMap \subseteq GroupKeys(query, rows)
                            /\ DOMAIN aggCountMap \subseteq GroupKeys(query, rows)
    /\ \A g \in DOMAIN aggMap : DOMAIN aggMap[g] = DOMAIN aggContexts
    /\ \A g \in DOMAIN aggCountMap : DOMAIN aggCountMap[g] = DOMAIN aggContexts
    /\ pc \in {"row", "fold", "group", "print", "done", "fault"}

\* The selected rows that context j has aggregated: while a loop runs, the
\* contexts from vk on lack the last row.
Done(j) == Selected(query, IF pc \in {"fold", "group"} /\ j >= vk THEN Front(rows) ELSE rows)

Needs(table) == {j \in DOMAIN aggContexts : table \in
    (IF aggContexts[j].ftype = "DISTINCT" THEN {"count"} ELSE HTType(aggContexts[j]))}

\* What the tables hold for a context when its rows are rs.
ValueOf(c, rs) == IF c.ftype \notin ValueFunctions \/ rs = <<>> THEN InitialValue(c)
                  ELSE IF c.ftype \in {"SUM", "AVG"} THEN Total(c.key, rs)
                  ELSE Aggregate(c, rs)

CountOf(c, rs) == IF c.ftype \in {"COUNT", "AVG"} THEN Len(rs) ELSE 0

\* GROUP BY: at any moment, in the middle of a row too, a group is in a table
\* iff a function that fills that table has seen a row of it, and its values
\* and counts are those of the group's selected rows, function by function.
GroupsExact ==
    Len(query.keys) = 1 /\ pc # "fault" =>
        /\ DOMAIN aggMap = UNION {GroupKeys(query, Done(j)) : j \in Needs("value")}
        /\ DOMAIN aggCountMap = UNION {GroupKeys(query, Done(j)) : j \in Needs("count")}
        /\ \A j \in DOMAIN aggContexts :
             /\ \A g \in DOMAIN aggMap :
                  aggMap[g][j] = ValueOf(aggContexts[j], GroupOf(query, Done(j), g))
             /\ \A g \in DOMAIN aggCountMap :
                  aggCountMap[g][j] = CountOf(aggContexts[j], GroupOf(query, Done(j), g))

\* An INT that aggregation0 adds and compares as a double keeps its value if
\* it is not negative.
NonNegative(c, rs) == c.ftype \in ValueFunctions /\ TypeOf(c) = "INT" =>
                        \A i \in DOMAIN rs : rs[i][c.key] >= 0

\* No GROUP BY: the cells whose isWildCard was not read as true are those of
\* the selected rows, negative INTs excepted.
CellsExact ==
    query.keys = <<>> => \A j \in Cells :
        ~wild[j] /\ NonNegative(aggContexts[j], Done(j)) =>
            /\ agg[j] = ValueOf(aggContexts[j], Done(j))
            /\ aggCount[j] = CountOf(aggContexts[j], Done(j))

\* A loop runs only for a row that is selected, the one with cells without
\* GROUP BY and the one with tables for one key.
LoopInv ==
    /\ pc = "fold" => query.keys = <<>>
    /\ pc = "group" => Len(query.keys) = 1
    /\ pc \in {"fold", "group"} => tuple \in query.where

\* A projection prints each selected row up to the limit; an aggregation
\* prints nothing but its groups, and them at the end.
OutInv ==
    /\ out \in Seq(Range(out))
    /\ count = Len(Selected(query, rows))
    /\ IF httype = {}
       THEN /\ printed = {}
            /\ query.stmts # <<WildCard>> =>
                 Len(out) = IF count <= query.limit THEN count ELSE query.limit
       ELSE /\ IsFiniteSet(printed)
            /\ pc # "fault" => Len(out) = Cardinality(printed)
            /\ printed # {} => pc \in {"print", "done", "fault"}
            /\ query.keys = <<>> => printed \subseteq {Star}
            /\ Len(query.keys) = 1 => printed \subseteq iterated

\* The inductive invariant.
IInv == TypeOK /\ LoopInv /\ GroupsExact /\ CellsExact /\ OutInv

\* The queries the executor answers. Those without a table: no wildcard, no
\* GROUP BY. Without GROUP BY: only aggregates, a row where one needs one, no
\* negative INT and no unwritten isWildCard. With GROUP BY: one TEXT key, no
\* other column, no COUNT(*), and no AVG whose group other functions may have
\* put into the value table alone. DISTINCT is never answered, and a limit of
\* 0 is one only for a projection.
AvgFirst(cs) == \A j \in DOMAIN cs : cs[j].ftype = "AVG" =>
    \/ \E i \in 1..j-1 : cs[i].ftype = "COUNT"
    \/ \A i \in 1..j-1 : cs[i].ftype = "AVG"

Answered ==
    LET sel == Selected(query, rows)
        stmts == query.stmts
    IN  IF httype = {} THEN query.keys = <<>> /\ stmts # <<WildCard>>
        ELSE /\ query.limit > 0
             /\ \A i \in DOMAIN stmts : stmts[i].ftype # "DISTINCT"
             /\ IF query.keys = <<>>
                THEN /\ \A i \in DOMAIN stmts : IsAggregate(stmts[i])
                     /\ \A i \in DOMAIN stmts : stmts[i].ftype \in {"MAX", "MIN", "AVG"} => sel # <<>>
                     /\ \A j \in Cells : /\ wild[j] => IsWildCard(aggContexts[j])
                                         /\ NonNegative(aggContexts[j], sel)
                ELSE /\ Len(query.keys) = 1 /\ KeyType[query.keys[1]] = "TEXT"
                     /\ \A i \in DOMAIN stmts : IsAggregate(stmts[i]) \/ stmts[i].key = query.keys[1]
                     /\ stmts # <<CountWildCard>>
                     /\ AvgFirst(aggContexts)

Sql == INSTANCE SqlQuery WITH
    phase <- CASE pc \in {"row", "fold", "group"} -> "reading"
               [] pc = "print"                    -> "answering"
               [] OTHER                           -> pc,
    answered <- printed

\* For these queries the executor implements SqlQuery: it shows what the
\* query asks for, each group once, and does not fault.
Implements == Sql!Init /\ [][Answered => Sql!Next]_(Sql!vars)

\* The file and then the answer come to an end, or the program does: no LIMIT
\* keeps the loop over the groups waiting for one that is not there.
QueryEnds == <>(pc \in {"done", "fault"})
=============================================================================
