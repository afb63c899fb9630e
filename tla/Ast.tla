-------------------------------- MODULE Ast --------------------------------
(***************************************************************************)
(* The abstract syntax of a function body, as ASTBuilder makes it.  Each   *)
(* constructor is what the builder does at a node of the parse tree: it    *)
(* marks the operands and conditions that are wanted as jumps and not as   *)
(* values (_forValue), and keeps what isConst and the constant evaluator   *)
(* answer for the node, so that no definition here is recursive.           *)
(***************************************************************************)
EXTENDS Integers, Sequences

Truth(p) == IF p THEN 1 ELSE 0

Relations == {"LT", "GT", "LE", "GE", "EQ", "NE"}

\* What an operator of the language yields on two integers.
Apply(op, x, y) ==
    CASE op = "ADD" -> x + y
      [] op = "MUL" -> x * y
      [] op = "LT"  -> Truth(x < y)
      [] op = "GT"  -> Truth(x > y)
      [] op = "LE"  -> Truth(x <= y)
      [] op = "GE"  -> Truth(x >= y)
      [] op = "EQ"  -> Truth(x = y)
      [] op = "NE"  -> Truth(x # y)
      [] op = "AND" -> Truth(x # 0 /\ y # 0)
      [] op = "OR"  -> Truth(x # 0 \/ y # 0)

-----------------------------------------------------------------------------
(* Expressions: kind, is it a constant, and which *)

Num(n)  == [kind |-> "num", const |-> TRUE, n |-> n]
Var(x)  == [kind |-> "var", const |-> FALSE, n |-> 0, name |-> x]
\* A call of a function that returns the next input; i tells calls apart.
Read(i) == [kind |-> "read", const |-> FALSE, n |-> i]
Elem(index) == [kind |-> "elem", const |-> FALSE, n |-> 0, index |-> index]

Not(e) == [kind |-> "not", const |-> e.const, n |-> Truth(e.n = 0), operand |-> e]

Binary(op, l, r) ==
    [kind |-> "binary", op |-> op, left |-> l, right |-> r, forValue |-> TRUE,
     const |-> l.const /\ r.const,
     n |-> IF l.const /\ r.const THEN Apply(op, l.n, r.n) ELSE 0]

NotForValue(e) ==
    IF e.kind = "binary" THEN [e EXCEPT !.forValue = FALSE] ELSE e

And(l, r) == Binary("AND", NotForValue(l), NotForValue(r))

Or(l, r) == Binary("OR", NotForValue(l), NotForValue(r))

-----------------------------------------------------------------------------
(* Statements *)

Block(ss)     == [kind |-> "block", elements |-> ss]
Declare(x, e) == [kind |-> "declare", name |-> x, init |-> e]
DeclareArray  == [kind |-> "array"]
Assign(l, e)  == [kind |-> "assign", lval |-> l, rval |-> e]
Use(e)        == [kind |-> "use", param |-> e]
Break         == [kind |-> "break"]
Continue      == [kind |-> "continue"]
Return(e)     == [kind |-> "return", expr |-> e]

If(c, s) == [kind |-> "if", cond |-> NotForValue(c), stmt |-> s, else |-> <<>>]

IfElse(c, s, t) == [If(c, s) EXCEPT !.else = <<t>>]

While(c, s) == [kind |-> "while", cond |-> NotForValue(c), stmt |-> s]
=============================================================================
