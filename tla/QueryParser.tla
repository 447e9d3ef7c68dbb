---------------------------- MODULE QueryParser ----------------------------
(***************************************************************************)
(* The WHERE clause of query.ypp: one action for each group of rules, on   *)
(* the parser's value stack. Every clause of at most MaxTokens operands    *)
(* and operators is a behaviour.                                           *)
(*                                                                         *)
(* Beside its tree each item carries what SQL takes it for: an expression  *)
(* the value for each row (meaning), a condition the list of the           *)
(* conditions it is made of, each with the rows that satisfy it, and of    *)
(* the ANDs and ORs between them (terms, links).                           *)
(***************************************************************************)
EXTENDS QueryTree, FiniteSets

CONSTANT Fragments  \* parts of the language: name -> what its clauses are made of

VARIABLES fragment,  \* the fragment the clause belongs to
          stack,     \* the value stack
          tokens,    \* tokens used
          ptree      \* assignPredTree's tree once the clause is reduced

vars == <<fragment, stack, tokens, ptree>>

Named       == Fragments[fragment].keys         \* the keys it names
Rows        == Fragments[fragment].rows         \* the rows it is evaluated on
Numbers     == Fragments[fragment].numbers      \* unsigned INT tokens
Doubles     == Fragments[fragment].doubles      \* unsigned DOUBLE tokens
Signs       == Fragments[fragment].signs        \* whether a number may have a '-'
Strings     == Fragments[fragment].strings      \* STRING tokens
Operators   == Fragments[fragment].operators    \* the arithmetic operators in use
Comparisons == Fragments[fragment].comparisons  \* the comparisons in use
MaxTokens   == Fragments[fragment].maxTokens    \* bound: operands, operators, parentheses

NoTree == [evalType |-> "NONE"]

----------------------------------------------------------------------------
\* Meanings.

Everywhere(v) == [r \in Rows |-> v]
TextOf(row, k) == SubSeq(row.data, row.text[k].start + 1, row.text[k].end)

\* The rows a list of conditions selects: those that satisfy all conditions
\* between two ORs.
SqlRows(terms, links) ==
    {r \in Rows : \E a \in DOMAIN terms : \E b \in a..Len(terms) :
        /\ a > 1 => links[a - 1] = "OR"
        /\ b < Len(terms) => links[b] = "OR"
        /\ \A i \in a..b : r \in terms[i]
        /\ \A i \in a..b-1 : links[i] = "AND"}

MeaningOf(c) == SqlRows(c.terms, c.links)

\* level: what the item is made by, for the precedences; mixed: an AND and an
\* OR stood beside each other without parentheses.
Expr(cat, level, tree, meaning) ==
    [cat |-> cat, level |-> level, tree |-> tree, meaning |-> meaning]
Condition(cat, level, tree, terms, links, mixed) ==
    [cat |-> cat, level |-> level, tree |-> tree, terms |-> terms, links |-> links, mixed |-> mixed]

IsExpr(e)  == e.cat \in {"expression", "cexpression"}
IsCond(c)  == c.cat \in {"cond", "ccond"}
IsNumber(e) == TypeOf(e.tree) \in {"INT", "DOUBLE"}

Init == fragment \in DOMAIN Fragments /\ stack = <<>> /\ tokens = 0 /\ ptree = NoTree

\* Replaces the n topmost items by item, at the price of cost tokens.
Reduce(n, item, cost) ==
    /\ ptree = NoTree
    /\ tokens + cost <= MaxTokens
    /\ tokens' = tokens + cost
    /\ stack' = Append(SubSeq(stack, 1, Len(stack) - n), item)
    /\ UNCHANGED <<fragment, ptree>>

Top(n) == stack[Len(stack) - n]

----------------------------------------------------------------------------
\* Operands.

ReduceIdentifier(k) ==
    Reduce(0, Expr("expression", "atom", Var(k),
                   [r \in Rows |-> IF KeyType[k] = "TEXT" THEN TextOf(r, k) ELSE r.num[k]]), 1)

ReduceNumber(t, v, isNeg) ==
    Reduce(0, Expr("cexpression", "atom", SignedNumber(Const(t, v), isNeg),
                   Everywhere(IF isNeg THEN -v ELSE v)), 1)

\* The executor never reads the characters of a constant: its value is 0.
ReduceString(s) == Reduce(0, Expr("cexpression", "atom", Const("TEXT", 0), Everywhere(s)), 1)

\* Arithmetic: * binds tighter than + and -, all to the left.
Tight(op) == op = "MUL"
MayStandLeft(e, op)  == Tight(op) => e.level # "sum"
MayStandRight(e, op) == e.level # "sum" /\ (Tight(op) => e.level = "atom")

Arith(op, l, r) ==
    IF l.cat = "cexpression" /\ r.cat = "cexpression"
    THEN EvalConstExpr(op, l.tree, r.tree) ELSE Op(op, l.tree, r.tree)

ReduceArithmetic(op) ==
    /\ Len(stack) >= 2
    /\ LET l == Top(1)
           r == Top(0)
       IN  /\ IsExpr(l) /\ IsExpr(r) /\ IsNumber(l) /\ IsNumber(r)
           /\ MayStandLeft(l, op) /\ MayStandRight(r, op)
           /\ Reduce(2, Expr(IF {l.cat, r.cat} = {"cexpression"} THEN "cexpression" ELSE "expression",
                             IF Tight(op) THEN "product" ELSE "sum",
                             Arith(op, l, r),
                             [w \in Rows |-> Arithmetic(op, l.meaning[w], r.meaning[w])]), 1)

\* '(' ')' around an expression or a condition.
ReduceParentheses ==
    /\ Len(stack) >= 1
    /\ LET e == Top(0)
       IN  /\ e.level # "atom"
           /\ Reduce(1, IF IsExpr(e) THEN [e EXCEPT !.level = "atom"]
                        ELSE Condition(e.cat, "atom", e.tree, <<MeaningOf(e)>>, <<>>, e.mixed), 1)

----------------------------------------------------------------------------
\* Predicates.

Comparable(l, r) == Join(TypeOf(l.tree), TypeOf(r.tree)) # "INVALID"

\* A comparison of a number and a text is INVALID and selects nothing. A text
\* has an order in SQL but not here; a constant text stands on the right.
ReducePred(op) ==
    /\ Len(stack) >= 2
    /\ LET l == Top(1)
           r == Top(0)
           isConst == {l.cat, r.cat} = {"cexpression"}
           rows == IF Comparable(l, r) THEN {w \in Rows : Compare(op, l.meaning[w], r.meaning[w])} ELSE {}
       IN  /\ IsExpr(l) /\ IsExpr(r)
           /\ ~IsNumber(l) => l.tree.evalType = "VAR" /\ op \in {"EQUAL", "NEQUAL"}
           /\ Reduce(2, Condition(IF isConst THEN "ccond" ELSE "cond", "atom",
                                  IF isConst THEN EvalConstPred(op, l.tree, r.tree) ELSE Pred(op, l.tree, r.tree),
                                  <<rows>>, <<>>, FALSE), 1)

\* Both bounds belong to the range; the comparisons stand the other way round.
BetweenTree(e, low, high) == Cond("AND", Pred("LESSEQ", low, e), Pred("GREATEQ", high, e))

ReduceBetween ==
    /\ Len(stack) >= 3
    /\ LET e == Top(2)
           low == Top(1)
           high == Top(0)
       IN  /\ e.cat = "expression" /\ low.cat = "cexpression" /\ high.cat = "cexpression"
           /\ IsNumber(e) /\ IsNumber(low) /\ IsNumber(high)
           /\ Reduce(3, Condition("cond", "atom", BetweenTree(e.tree, low.tree, high.tree),
                                  <<{w \in Rows : e.meaning[w] \in low.meaning[w]..high.meaning[w]}>>,
                                  <<>>, FALSE), 1)

----------------------------------------------------------------------------
\* AND, OR: %left AND_TK stands above %left OR_TK, so that OR binds tighter.

MayStandBeside(l, c, r) ==
    IF c = "AND" THEN r.level # "and"
    ELSE l.level # "and" /\ r.level = "atom"

\* Mutant of LinkedTree: two constants are not folded.
LinkedTreeBuilt(c, l, r) == Cond(c, l.tree, r.tree)

LinkedTree(c, l, r) ==
    CASE l.cat = "cond" /\ r.cat = "cond"   -> Cond(c, l.tree, r.tree)
      [] l.cat = "cond" /\ r.cat = "ccond"  -> CCond(c, l.tree, r.tree)
      [] l.cat = "ccond" /\ r.cat = "cond"  -> CCond(c, r.tree, l.tree)
      [] l.cat = "ccond" /\ r.cat = "ccond" -> EvalConstCond(c, l.tree, r.tree)

ReduceLink(c) ==
    /\ Len(stack) >= 2
    /\ LET l == Top(1)
           r == Top(0)
           links == l.links \o <<c>> \o r.links
       IN  /\ IsCond(l) /\ IsCond(r)
           /\ MayStandBeside(l, c, r)
           /\ Reduce(2, Condition(IF {l.cat, r.cat} = {"ccond"} THEN "ccond" ELSE "cond",
                                  IF c = "AND" THEN "and" ELSE "or",
                                  LinkedTree(c, l, r), l.terms \o r.terms, links,
                                  l.mixed \/ r.mixed \/ {links[i] : i \in DOMAIN links} = {"AND", "OR"}), 1)

\* conds, and assignPredTree.
ReduceWhere ==
    /\ ptree = NoTree
    /\ Len(stack) = 1 /\ IsCond(stack[1])
    /\ ptree' = IF stack[1].cat = "cond" THEN stack[1].tree ELSE ConstPred(stack[1].tree.value # 0)
    /\ UNCHANGED <<fragment, stack, tokens>>

Next == \/ \E k \in Named : ReduceIdentifier(k)
        \/ \E v \in Numbers, isNeg \in Signs : ReduceNumber("INT", v, isNeg)
        \/ \E v \in Doubles, isNeg \in Signs : ReduceNumber("DOUBLE", v, isNeg)
        \/ \E s \in Strings : ReduceString(s)
        \/ \E op \in Operators : ReduceArithmetic(op)
        \/ ReduceParentheses
        \/ \E op \in Comparisons : ReducePred(op)
        \/ ReduceBetween
        \/ \E c \in {"AND", "OR"} : ReduceLink(c)
        \/ ReduceWhere

Spec == Init /\ [][Next]_vars

----------------------------------------------------------------------------
\* Properties.

Items == {stack[i] : i \in DOMAIN stack}

TypeOK ==
    /\ fragment \in DOMAIN Fragments
    /\ tokens \in 0..MaxTokens
    /\ \A e \in Items : IF IsExpr(e) THEN (e.cat = "cexpression") = (e.tree.evalType = "CONST")
                        ELSE /\ e.cat = "cond" => e.tree.evalType \in {"PRED", "COND", "CPRED"}
                             /\ e.cat = "ccond" => e.tree.evalType = "CONST" /\ e.tree.value \in {0, 1}
                             /\ Len(e.links) = Len(e.terms) - 1

\* A number's tree, folded or not, has the value of the expression on every
\* row, and a folded condition its truth.
ValuesExact ==
    \A e \in Items : \A r \in Rows :
        /\ IsExpr(e) /\ IsNumber(e) => EvalOp(e.tree, r) = e.meaning[r]
        /\ e.cat = "ccond" /\ ~e.mixed => (e.tree.value # 0) = (r \in MeaningOf(e))

Reduced == ptree # NoTree

\* selection() accepts a row exactly when SQL selects it, unless an AND and an
\* OR stand side by side (OR binds tighter here), a constant condition has
\* decided a part of the clause, or texts are compared otherwise than by == with
\* a text of the same length, which is shorter than the bytes that are loaded.
Accepts(r) == EvalCond(ptree, r) <=> r \in MeaningOf(stack[1])
WhereExact ==
    Reduced /\ ~stack[1].mixed /\ (\A leaf \in Leaves(ptree) : IsExactLeaf(leaf)) =>
        \A r \in Rows : SizesAgree(r) /\ TextsFit(r) => Accepts(r)

\* == is "both for numerics and text" (query.hpp:9): a text and a constant are
\* compared, too.
TextExact ==
    Reduced /\ (\A leaf \in Leaves(ptree) : leaf.evalType = "PRED" /\ leaf.pred.opType = "EQUAL") =>
        \A r \in Rows : SizesAgree(r) => Accepts(r)

=============================================================================
