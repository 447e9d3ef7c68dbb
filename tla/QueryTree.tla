----------------------------- MODULE QueryTree -----------------------------
(***************************************************************************)
(* The trees of a WHERE clause: the builders of query-node.cpp, the types  *)
(* that QueryContext adds, and their evaluation on a row by the executor.  *)
(*                                                                         *)
(* A DOUBLE is a whole number. A row has a number for every INT or DOUBLE  *)
(* key and, for every TEXT key, the place of its text in the data: the     *)
(* executor compares the data that the pointers point to.                  *)
(***************************************************************************)
EXTENDS Integers, Sequences

CONSTANTS KeyType,  \* the type of each key
          Window    \* bytes a text comparison loads (64)

\* buildVar, buildConstInt, buildConstDouble, buildConstString, buildOp.
Var(k)         == [evalType |-> "VAR", key |-> k]
Const(t, v)    == [evalType |-> "CONST", type |-> t, value |-> v]
Op(op, l, r)   == [evalType |-> "OP", opType |-> op, left |-> l, right |-> r]
SignedNumber(c, isNeg) == Const(c.type, IF isNeg THEN -c.value ELSE c.value)

Arithmetic(op, a, b) == CASE op = "ADD" -> a + b
                          [] op = "SUB" -> a - b
                          [] op = "MUL" -> a * b

Compare(op, a, b) == CASE op = "EQUAL"   -> a = b
                       [] op = "NEQUAL"  -> a # b
                       [] op = "LESS"    -> a < b
                       [] op = "LESSEQ"  -> a <= b
                       [] op = "GREATER" -> a > b
                       [] op = "GREATEQ" -> a >= b

\* Constants are folded by the parser; a truth value is an INT constant.
Truth(b) == Const("INT", IF b THEN 1 ELSE 0)

EvalConstExpr(op, l, r) ==
    Const(IF l.type = "INT" /\ r.type = "INT" THEN "INT" ELSE "DOUBLE",
          Arithmetic(op, l.value, r.value))
EvalConstPred(op, l, r) == Truth(Compare(op, l.value, r.value))

\* Mutant of EvalConstCond: AND and OR are the same.
EvalConstCondAnd(c, l, r) == Truth(l.value # 0 /\ r.value # 0)

EvalConstCond(c, l, r) ==
    Truth(IF c = "AND" THEN l.value # 0 /\ r.value # 0 ELSE l.value # 0 \/ r.value # 0)

Pred(op, l, r)     == [evalType |-> "PRED", pred |-> Op(op, l, r)]
Cond(c, l, r)      == [evalType |-> "COND", ctype |-> c, left |-> l, right |-> r]
ConstPred(b)       == [evalType |-> "CPRED", cvalue |-> b]

\* Mutant of CCond: the neutral and the deciding constant are confused.
CCondSwapped(c, cond, ccond) ==
    IF (c = "OR") = (ccond.value # 0) THEN cond ELSE ConstPred(c = "OR")

\* A constant beside AND or OR decides the condition or leaves it alone.
CCond(c, cond, ccond) ==
    IF (c = "AND") = (ccond.value # 0) THEN cond ELSE ConstPred(c = "OR")

----------------------------------------------------------------------------
\* addTypeOp.

Join(lt, rt) == CASE lt = "INT" /\ rt = "INT"                          -> "INT"
                  [] lt = "TEXT" /\ rt = "TEXT"                        -> "TEXT"
                  [] {lt, rt} \in {{"INT", "DOUBLE"}, {"DOUBLE"}}      -> "DOUBLE"
                  [] OTHER                                             -> "INVALID"

RECURSIVE TypeOf(_)
TypeOf(tree) == CASE tree.evalType = "VAR"   -> KeyType[tree.key]
                  [] tree.evalType = "CONST" -> tree.type
                  [] tree.evalType = "OP"    -> Join(TypeOf(tree.left), TypeOf(tree.right))

----------------------------------------------------------------------------
\* evalOp, evalPred, evalCond.

RECURSIVE EvalOp(_, _)
EvalOp(tree, row) ==
    CASE tree.evalType = "VAR"   -> row.num[tree.key]
      [] tree.evalType = "CONST" -> tree.value
      [] tree.evalType = "OP"    -> Arithmetic(tree.opType, EvalOp(tree.left, row), EvalOp(tree.right, row))

\* The byte n behind the start of a text; behind the data there are zeros.
ByteAt(row, k, n) == LET p == row.text[k].start + n
                     IN  IF p < Len(row.data) THEN row.data[p + 1] ELSE 0

SizeOf(row, k) == row.text[k].end - row.text[k].start

\* The index of the first bit of a mask of Window bits, the last of which is
\* set, is compared with the size of the left text: that many bytes must be
\* equal, or none of them (EQUAL, NEQUAL).
EvalTextPred(op, l, r, row) ==
    LET n == SizeOf(row, l)
        same == {i \in 0..n-1 : ByteAt(row, l, i) = ByteAt(row, r, i)}
    IN  /\ n < Window
        /\ CASE op = "EQUAL"  -> same = 0..n-1
             [] op = "NEQUAL" -> same = {}
             [] OTHER         -> FALSE

\* A TEXT against a constant, by ==, LIKE or REGEXP, is not looked at.
EvalPred(p, row) ==
    CASE TypeOf(p) \in {"INT", "DOUBLE"} ->
            Compare(p.opType, EvalOp(p.left, row), EvalOp(p.right, row))
      [] TypeOf(p) = "TEXT" /\ p.right.evalType = "VAR" ->
            EvalTextPred(p.opType, p.left.key, p.right.key, row)
      [] OTHER -> TypeOf(p) = "TEXT"

RECURSIVE EvalCond(_, _)
EvalCond(tree, row) ==
    CASE tree.evalType = "COND" ->
            IF tree.ctype = "AND" THEN EvalCond(tree.left, row) /\ EvalCond(tree.right, row)
            ELSE EvalCond(tree.left, row) \/ EvalCond(tree.right, row)
      [] tree.evalType = "PRED" -> EvalPred(tree.pred, row)
      [] OTHER                  -> FALSE

RECURSIVE Leaves(_)
Leaves(tree) == IF tree.evalType = "COND" THEN Leaves(tree.left) \cup Leaves(tree.right) ELSE {tree}

\* A number is compared, or two texts by ==.
IsExactLeaf(leaf) ==
    /\ leaf.evalType = "PRED"
    /\ TypeOf(leaf.pred) = "TEXT" => leaf.pred.right.evalType = "VAR" /\ leaf.pred.opType = "EQUAL"

SizesAgree(row) == \A k, l \in DOMAIN row.text : SizeOf(row, k) = SizeOf(row, l)

\* The last bit of the mask is always set: it stands for no byte.
TextsFit(row) == \A k \in DOMAIN row.text : SizeOf(row, k) < Window

=============================================================================
