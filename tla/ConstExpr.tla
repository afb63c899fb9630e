----------------------------- MODULE ConstExpr -----------------------------
(***************************************************************************)
(* The expressions of declarations, and the arithmetic of the language on  *)
(* them.  A name is any value: the source has identifiers there, the tree  *)
(* that ASTBuilder makes has variables.                                    *)
(*                                                                         *)
(* Numbers are counted in halves, so that ints and floats differ and what  *)
(* a conversion drops can be seen: an int is even.  Floats are added,      *)
(* subtracted and compared; multiplied and divided are only ints.          *)
(***************************************************************************)
EXTENDS Integers, Sequences

One == 2

Truth(p) == IF p THEN One ELSE 0

Abs(v) == IF v < 0 THEN -v ELSE v

\* Towards zero.
Quotient(v, w) ==
    IF (v < 0) = (w < 0) THEN Abs(v) \div Abs(w) ELSE -(Abs(v) \div Abs(w))

Cast(type, v) == IF type = "int" THEN One * Quotient(v, One) ELSE v

Num(type, v)     == [kind |-> "num", type |-> type, v |-> v]
VarRef(x)        == [kind |-> "var", var |-> x]
IndexedRef(x, i) == [kind |-> "elem", var |-> x, indexes |-> i]
Unary(op, e)     == [kind |-> "unary", op |-> op, operand |-> e]
Binary(op, l, r) == [kind |-> "binary", op |-> op, left |-> l, right |-> r]
Nested(es)       == [kind |-> "list", elements |-> es]

\* Operators that give an int whatever the operands are.
Logicals == {"LT", "GT", "LE", "GE", "EQ", "NE", "AND", "OR"}

Holds(op, v, w) ==
    CASE op = "LT"  -> v < w
      [] op = "GT"  -> v > w
      [] op = "LE"  -> v <= w
      [] op = "GE"  -> v >= w
      [] op = "EQ"  -> v = w
      [] op = "NE"  -> v # w
      [] op = "AND" -> v # 0 /\ w # 0
      [] op = "OR"  -> v # 0 \/ w # 0

Arith(op, v, w) ==
    CASE op = "PLUS"  -> v + w
      [] op = "MINUS" -> v - w
      [] op = "MUL"   -> (v * w) \div One
      [] op = "DIV"   -> One * Quotient(v, w)
      [] op = "MOD"   -> v - w * Quotient(v, w)
=============================================================================
