------------------------------ MODULE SqlQuery ------------------------------
(***************************************************************************)
(* What a query promises, without hash tables, contexts and loops: rows    *)
(* are read one by one; a projection shows the selected rows as they come, *)
(* up to the limit; an aggregation shows, when the file is at its end, one *)
(* row for every group, in any order, up to the limit.                     *)
(***************************************************************************)
EXTENDS Query

VARIABLES query,     \* the query that is answered
          rows,      \* the rows read so far
          out,       \* the rows shown so far
          answered,  \* the groups whose row has been shown
          phase      \* reading, answering or done

vars == <<query, rows, out, answered, phase>>

IsProjection == IntersectionHTType(query.stmts) = {}

\* Without GROUP BY all selected rows are the one group Star.
Groups == LET sel == Selected(query, rows)
          IN  IF IsProjection THEN {}
              ELSE IF query.keys = <<>> THEN {Star}
              ELSE GroupKeys(query, sel)

RowsOf(g) == LET sel == Selected(query, rows)
             IN  IF query.keys = <<>> THEN sel ELSE GroupOf(query, sel, g)

\* One row of the answer for the rows rs of a group.
AnswerRow(rs) ==
    [i \in DOMAIN query.stmts |->
        LET s == query.stmts[i]
        IN  IF IsAggregate(s) THEN Aggregate(s, rs) ELSE rs[1][s.key]]

Init == /\ query \in Queries
        /\ rows = <<>>
        /\ out = <<>>
        /\ answered = {}
        /\ phase = "reading"

Read(r) ==
    /\ phase = "reading"
    /\ Len(rows) < MaxRows
    /\ rows' = Append(rows, r)
    /\ out' = IF IsProjection /\ r \in query.where /\ Len(out) < query.limit
              THEN Append(out, [i \in DOMAIN query.stmts |-> r[query.stmts[i].key]])
              ELSE out
    /\ UNCHANGED <<query, answered, phase>>

EndOfFile == /\ phase = "reading"
             /\ phase' = "answering"
             /\ UNCHANGED <<query, rows, out, answered>>

Answer(g) == /\ phase = "answering"
             /\ g \in Groups \ answered
             /\ Len(out) < query.limit
             /\ out' = Append(out, AnswerRow(RowsOf(g)))
             /\ answered' = answered \cup {g}
             /\ UNCHANGED <<query, rows, phase>>

Finish == /\ phase = "answering"
          /\ answered = Groups \/ Len(out) >= query.limit
          /\ phase' = "done"
          /\ UNCHANGED <<query, rows, out, answered>>

Next == \/ \E r \in Rows : Read(r)
        \/ EndOfFile
        \/ \E g \in Groups : Answer(g)
        \/ Finish

Spec == Init /\ [][Next]_vars

=============================================================================
