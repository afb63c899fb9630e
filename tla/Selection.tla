----------------------------- MODULE Selection -----------------------------
(***************************************************************************)
(* Instruction selection of CodeGenerator for expressions: which           *)
(* instructions an operator becomes, where a constant is folded into an    *)
(* immediate, and what happens when it does not fit.                       *)
(*                                                                         *)
(* An emission e is the code so far, the number of registers used so far   *)
(* (every instruction takes a new one), and at, the register the method    *)
(* returns.  An operand is a constant or a register.                       *)
(***************************************************************************)
EXTENDS RiscV

Const(n) == [const |-> TRUE, n |-> n]
Reg(k)   == [const |-> FALSE, n |-> k]

Operands == [const : BOOLEAN, n : Int]

Relations   == {"LT", "LE", "GT", "GE"}
Equalities  == {"EQ", "NE"}
Arithmetics == {"ADD", "SUB", "MUL", "DIV", "MOD"}
IntOps      == Relations \union Equalities \union Arithmetics

NoCode(used) == [code |-> <<>>, used |-> used, at |-> 0]

\* Add an instruction that writes a register of its own.
Emit(e, op, a, b, imm) ==
    [code |-> Append(e.code, Inst(op, e.used + 1, a, b, imm)),
     used |-> e.used + 1, at |-> e.used + 1]

LoadConstInt(e, c) == Emit(e, "li", 0, 0, c)

LoadConstFloat(e, c) ==
    LET e1 == Emit(e, "la", 0, 0, c) IN Emit(e1, "flw", e1.at, 0, 0)

\* The register of an operand: a constant is loaded.
GetReg(e, o) == IF o.const THEN LoadConstInt(e, o.n) ELSE [e EXCEPT !.at = o.n]

GetFloatReg(e, o) == IF o.const THEN LoadConstFloat(e, o.n) ELSE [e EXCEPT !.at = o.n]

-----------------------------------------------------------------------------
(* Immediates *)

Lo12(n) == IF n % Page < ImmHalf THEN n % Page ELSE (n % Page) - Page

Hi20(n) ==
    LET hi == (n % (2 * IntHalf)) \div Page
    IN IF n % Page < ImmHalf THEN hi ELSE hi + 1

\* Mutant: the first immediate that is too large is let through.
InRangeClosed(n) == n >= -ImmHalf /\ n <= ImmHalf

\* Neither offset < -2048 nor offset > 2047.
InRange(n) == n >= -ImmHalf /\ n <= ImmHalf - 1

\* What is left for the instruction itself after ProcessImm.
ImmLeft(n) == IF InRange(n) THEN n ELSE Lo12(n)

\* Add the upper part of n to src if n does not fit an immediate.
ProcessImm(e, src, n) ==
    IF InRange(n) THEN [e EXCEPT !.at = src]
    ELSE LET e1 == Emit(e, "lui", 0, 0, Hi20(n)) IN Emit(e1, "add", src, e1.at, 0)

-----------------------------------------------------------------------------
(* Operators on integers.  A plan says which operand goes where: two       *)
(* registers, or one and an immediate.                                     *)

Two(a, b)   == [src1 |-> a, src2 |-> <<b>>, imm |-> 0, revert |-> FALSE]
One(a, n)   == [src1 |-> a, src2 |-> <<>>, imm |-> n, revert |-> FALSE]
Reverted(p) == [p EXCEPT !.revert = TRUE]

PlanConstLeft(op, c, r) ==
    CASE op \in {"SUB", "MUL", "DIV", "MOD", "LT"} -> Two(Const(c), r)
      [] op = "LE" -> Two(Const(ToInt(c - 1)), r)
      [] op = "GE" -> One(r, ToInt(c + 1))
      [] op \in Equalities -> One(r, ToInt(-c))
      [] op \in {"ADD", "GT"} -> One(r, c)

PlanConstRight(op, l, c) ==
    CASE op \in {"SUB", "EQ", "NE"} -> One(l, ToInt(-c))
      [] op \in {"MUL", "DIV", "MOD"} -> Two(l, Const(c))
      [] op = "LE" -> One(l, ToInt(c + 1))
      [] op = "GT" -> Two(Const(c), l)
      [] op = "GE" -> Two(Const(ToInt(c - 1)), l)
      [] op \in {"ADD", "LT"} -> One(l, c)

PlanRegs(op, l, r) ==
    CASE op = "LE" -> Reverted(Two(r, l))
      [] op = "GT" -> Two(r, l)
      [] op = "GE" -> Reverted(Two(l, r))
      [] op \notin {"LE", "GT", "GE"} -> Two(l, r)

\* Mutant: the sign of a subtracted constant is kept.
PlanUnnegated(op, l, r) ==
    IF l.const THEN PlanConstLeft(op, l.n, r)
    ELSE IF ~r.const THEN PlanRegs(op, l, r)
    ELSE IF op = "SUB" THEN One(l, r.n) ELSE PlanConstRight(op, l, r.n)

Plan(op, l, r) ==
    IF l.const THEN PlanConstLeft(op, l.n, r)
    ELSE IF r.const THEN PlanConstRight(op, l, r.n)
    ELSE PlanRegs(op, l, r)

OnRegs == [ADD |-> "addw", SUB |-> "subw", MUL |-> "mulw", DIV |-> "divw", MOD |-> "remw",
           LT |-> "slt", LE |-> "slt", GT |-> "slt", GE |-> "slt", EQ |-> "xor", NE |-> "xor"]

OnImm == [ADD |-> "addiw", SUB |-> "addiw", EQ |-> "addi", NE |-> "addi"]

EmitPlan(e, op, p) ==
    LET e1 == GetReg(e, p.src1) IN
    IF p.src2 # <<>>
    THEN LET e2 == GetReg(e1, p.src2[1]) IN Emit(e2, OnRegs[op], e1.at, e2.at, 0)
    ELSE IF op \in Relations
    THEN IF InRange(p.imm) THEN Emit(e1, "slti", e1.at, 0, p.imm)
         ELSE LET e2 == LoadConstInt(e1, p.imm) IN Emit(e2, "slt", e1.at, e2.at, 0)
    ELSE LET e2 == ProcessImm(e1, e1.at, p.imm) IN Emit(e2, OnImm[op], e2.at, 0, ImmLeft(p.imm))

EmitIntBinary(e, op, l, r) ==
    LET p  == Plan(op, l, r)
        e1 == EmitPlan(e, op, p)
    IN IF p.revert THEN Emit(e1, "xori", e1.at, 0, 1)
       ELSE IF op = "EQ" THEN Emit(e1, "seqz", e1.at, 0, 0)
       ELSE IF op = "NE" THEN Emit(e1, "snez", e1.at, 0, 0)
       ELSE e1

-----------------------------------------------------------------------------
(* Operators on floats, without division, and conditions on them *)

FloatOp == [ADD |-> "fadd.s", SUB |-> "fsub.s", MUL |-> "fmul.s",
            LT |-> "flt.s", LE |-> "fle.s", GT |-> "flt.s", GE |-> "fle.s",
            EQ |-> "feq.s", NE |-> "feq.s"]

\* Compare or calculate; > and >= change the places of the operands.
EmitFloatOp(e, op, l, r) ==
    IF op \in {"GT", "GE"} THEN Emit(e, FloatOp[op], r, l, 0)
                           ELSE Emit(e, FloatOp[op], l, r, 0)

\* The negation of != goes into the register of the comparison itself.
EmitFloatBinary(e, op, l, r) ==
    LET e1 == GetFloatReg(e, l)
        e2 == GetFloatReg(e1, r)
        e3 == EmitFloatOp(e2, op, e1.at, e2.at)
    IN IF op # "NE" THEN e3
       ELSE [e3 EXCEPT !.code = Append(@, Inst("seqz", e3.at, e3.at, 0, 0))]

\* Mutant: an order is negated by comparing the other way round.
EmitFloatCondFlipped(e, op, l, r) ==
    LET e1 == GetFloatReg(e, l)
        e2 == GetFloatReg(e1, r)
        e3 == IF op = "GE" THEN Emit(e2, "flt.s", e1.at, e2.at, 0)
              ELSE EmitFloatOp(e2, op, e1.at, e2.at)
        e4 == LoadConstInt(e3, 0)
    IN Emit(e4, IF op \in {"NE", "GE"} THEN "beq" ELSE "bne", e3.at, e4.at, 0)

\* A conditional jump on floats branches on the comparison, != on its absence.
EmitFloatCond(e, op, l, r) ==
    LET e1 == GetFloatReg(e, l)
        e2 == GetFloatReg(e1, r)
        e3 == EmitFloatOp(e2, op, e1.at, e2.at)
        e4 == LoadConstInt(e3, 0)
    IN Emit(e4, IF op = "NE" THEN "beq" ELSE "bne", e3.at, e4.at, 0)
=============================================================================
