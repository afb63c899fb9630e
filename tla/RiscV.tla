------------------------------- MODULE RiscV -------------------------------
(***************************************************************************)
(* The machine the code generator writes for, as far as the instructions   *)
(* it selects for expressions and addresses need it.  The widths are       *)
(* parameters: on a real machine ImmHalf is 2^11 and HiHalf 2^19, so that  *)
(* an addi holds 12 bits, a lui 20 and an int the 32 of both together.     *)
(* A register holds an integer; that none leaves 64 bits is an invariant   *)
(* of the specifications that use this module.                             *)
(***************************************************************************)
EXTENDS Integers, Sequences

CONSTANTS
  ImmHalf,   \* an immediate is at least -ImmHalf and less than ImmHalf
  HiHalf     \* the immediate of lui is less than twice HiHalf

ASSUME Widths == ImmHalf \in Nat \ {0, 1} /\ HiHalf \in Nat \ {0, 1}

Page    == 2 * ImmHalf
IntHalf == HiHalf * Page
IntMin  == -IntHalf
IntMax  == IntHalf - 1
Ints    == IntMin .. IntMax
RegHalf == IntHalf * (2 * IntHalf)

Truth(p) == IF p THEN 1 ELSE 0

\* The low word of v, sign-extended: what an instruction on words leaves.
ToInt(v) == ((v + IntHalf) % (2 * IntHalf)) - IntHalf

Abs(x) == IF x < 0 THEN -x ELSE x

\* Division of C and of the machine: towards zero.
Quotient(x, y) ==
    IF (x < 0) = (y < 0) THEN Abs(x) \div Abs(y) ELSE -(Abs(x) \div Abs(y))

Remainder(x, y) == x - y * Quotient(x, y)

-----------------------------------------------------------------------------
(* Floats: the order of the whole numbers, and one that is not in it *)

NaN == RegHalf

FloatLess(x, y)  == x # NaN /\ y # NaN /\ x < y
FloatEqual(x, y) == x # NaN /\ x = y

\* Exact on the small whole numbers that stand for floats here.
FloatArith(op, x, y) ==
    IF x = NaN \/ y = NaN THEN NaN
    ELSE IF op = "ADD" THEN x + y
    ELSE IF op = "SUB" THEN x - y
    ELSE x * y

-----------------------------------------------------------------------------
(* Instructions: d is written, a and b are read *)

Inst(op, d, a, b, imm) == [op |-> op, d |-> d, a |-> a, b |-> b, imm |-> imm]

\* What the memory holds at an address: something else at each.
Mem(addr) == 3 * addr + 1

\* What an instruction leaves in its register, given those it reads.  A
\* branch leaves whether it is taken.
Effect(inst, x, y) ==
    LET n == inst.imm IN
    CASE inst.op = "li"    -> n
      [] inst.op = "lui"   -> ToInt(n * Page)
      [] inst.op = "add"   -> x + y
      [] inst.op = "addi"  -> x + n
      [] inst.op = "addw"  -> ToInt(x + y)
      [] inst.op = "addiw" -> ToInt(x + n)
      [] inst.op = "subw"  -> ToInt(x - y)
      [] inst.op = "mul"   -> x * y
      [] inst.op = "mulw"  -> ToInt(x * y)
      [] inst.op = "divw"  -> ToInt(Quotient(x, y))
      [] inst.op = "remw"  -> ToInt(Remainder(x, y))
      [] inst.op = "slli"  -> x * 2 ^ n
      [] inst.op = "slt"   -> Truth(x < y)
      [] inst.op = "slti"  -> Truth(x < n)
      \* Nothing but whether the result is zero is ever looked at.
      [] inst.op = "xor"   -> Truth(x # y)
      [] inst.op = "xori"  -> IF x % 2 = 0 THEN x + n ELSE x - n
      [] inst.op = "seqz"  -> Truth(x = 0)
      [] inst.op = "snez"  -> Truth(x # 0)
      \* The label of a constant stands for the constant.
      [] inst.op = "la"    -> n
      [] inst.op = "flw"   -> x
      [] inst.op = "load"  -> Mem(x + n)
      [] inst.op = "fadd.s" -> FloatArith("ADD", x, y)
      [] inst.op = "fsub.s" -> FloatArith("SUB", x, y)
      [] inst.op = "fmul.s" -> FloatArith("MUL", x, y)
      \* A store leaves the address it writes to.
      [] inst.op = "store" -> x + n
      [] inst.op = "flt.s" -> Truth(FloatLess(x, y))
      [] inst.op = "fle.s" -> Truth(FloatLess(x, y) \/ FloatEqual(x, y))
      [] inst.op = "feq.s" -> Truth(FloatEqual(x, y))
      [] inst.op = "bne"   -> Truth(x # y)
      [] inst.op = "beq"   -> Truth(x = y)

FitsImm(n) == -ImmHalf <= n /\ n < ImmHalf

\* Is there such an instruction?
Assembles(inst) ==
    /\ inst.op \in {"addi", "addiw", "slti", "xori", "load", "store"} => FitsImm(inst.imm)
    /\ inst.op = "lui" => inst.imm \in 0 .. 2 * HiHalf - 1
    /\ inst.op = "li" => inst.imm \in Ints
=============================================================================
