------------------------------ MODULE Lowering ------------------------------
(***************************************************************************)
(* One expression at a time is lowered to instructions, which are then run *)
(* from every value of the registers the job names:                        *)
(*                                                                         *)
(*   int      an operator on ints             emitIntBinaryInst            *)
(*   float    an operator on floats           emitFloatBinaryInst          *)
(*   cond     a conditional jump on floats    emitCondJumpInst             *)
(*   element  the address of an element       getIndexedRefAddress         *)
(*   load, store, cast   of a local variable  emitUnaryInst, emitStoreInst,*)
(*                                            emitBitCastInst              *)
(*                                                                         *)
(* A job also says what the registers hold when its code starts.           *)
(***************************************************************************)
EXTENDS Addressing

CONSTANTS
  Inputs, Consts,         \* ints, in registers and as constants
  FloatJobs, MemoryJobs,  \* the other jobs
  MaxReg     \* bound on the registers one expression takes

\* The longest code of an operator on ints takes two registers and four more.
ASSUME Room == MaxReg \in Nat /\ MaxReg >= 6

ASSUME IntOperands == Inputs \subseteq Ints /\ Consts \subseteq Ints

ValueIn(j, o) == IF o.const THEN o.n ELSE j.given[o.n]

\* A register that a job gives, or a constant.
IsOperand(j, o) == o \in Operands /\ (~o.const => o.n \in 1 .. Len(j.given))

\* Numbers whose products are none that stands for something else.
Floats == {n \in Int : Abs(n) <= IntHalf} \union {NaN}

FloatJob(j) ==
    /\ j \in [kind : {"float", "cond"}, op : DOMAIN FloatOp,
              l : Operands, r : Operands, given : Seq(Floats)]
    /\ j.kind = "cond" => j.op \in Relations \union Equalities
    /\ \A o \in {j.l, j.r} : IsOperand(j, o) /\ ValueIn(j, o) \in Floats
    /\ Len(j.given) + 7 <= MaxReg

\* Far enough from the ends of the registers to add ints and multiply by three.
Addresses == {a \in Int : 16 * Abs(a) <= RegHalf}

\* An offset from s0 that does not come near the end of the ints.
IsOffset(n) == n \in Ints /\ n < IntHalf - ImmHalf

\* The indexes lead to an element of the array, or to an array in it, and
\* the offset of its last element is an int.
InArray(j, dims, indexes) ==
    /\ dims \in Seq(Nat \ {0}) /\ Len(indexes) <= Len(dims)
    /\ \A k \in 1 .. Len(indexes) : ValueIn(j, indexes[k]) \in 0 .. dims[k] - 1
    /\ 4 * (TotalSize(dims) - 1) <= IntMax

\* The step of a pointer, in bytes, is an int.
IsStep(size, n) == {4 * size, n, 4 * size * n} \subseteq Ints

ElementJob(j) ==
    /\ j.indexes \in Seq(Operands) /\ j.indexes # <<>>
    /\ \A k \in 1 .. Len(j.indexes) :
          IsOperand(j, j.indexes[k]) /\ ValueIn(j, j.indexes[k]) \in Ints
    /\ Len(j.given) + 3 * Len(j.indexes) + 5 <= MaxReg
    /\ \/ j.var.where = "global" /\ j.var.home \in Addresses /\ InArray(j, j.var.dims, j.indexes)
       \/ j.var.where = "local" /\ IsOffset(j.var.home) /\ InArray(j, j.var.dims, j.indexes)
       \/ /\ j.var.where = "param" /\ IsOffset(j.var.home)
          /\ IsStep(TotalSize(j.var.dims), ValueIn(j, j.indexes[1]))
          /\ InArray(j, j.var.dims, Tail(j.indexes))

MemoryJob(j) ==
    /\ j.kind \in {"element", "load", "store", "cast"}
    /\ j.given \in Seq(Addresses) /\ Len(j.given) >= S0
    /\ j.kind = "element" => ElementJob(j)
    /\ j.kind # "element" => IsOffset(j.var.home) /\ Len(j.given) + 4 <= MaxReg

ASSUME OtherJobs == (\A j \in FloatJobs : FloatJob(j)) /\ (\A j \in MemoryJobs : MemoryJob(j))

VARIABLES job, phase, code, result, pc, regs

vars == <<job, phase, code, result, pc, regs>>

\* Two constants are never left: IRBuilder evaluates the operator itself.
IntJobs(left, right, values) ==
    [kind : {"int"}, op : IntOps, l : left, r : right, given : values]

Constants == {Const(c) : c \in Consts}

IsIntJob(j) ==
    \/ j \in IntJobs(Constants, {Reg(1)}, Inputs \X {0})
    \/ j \in IntJobs({Reg(1)}, Constants, Inputs \X {0})
    \/ j \in IntJobs({Reg(1)}, {Reg(2)}, Inputs \X Inputs)

\* Nothing is said of a division by zero.
Defined(j) == j.op \in {"DIV", "MOD"} => ValueIn(j, j.r) # 0

EmitJob(j) ==
    LET e == NoCode(Len(j.given)) IN
    CASE j.kind = "int"     -> EmitIntBinary(e, j.op, j.l, j.r)
      [] j.kind = "float"   -> EmitFloatBinary(e, j.op, j.l, j.r)
      [] j.kind = "cond"    -> EmitFloatCond(e, j.op, j.l, j.r)
      [] j.kind = "element" -> EmitAddress(e, j.var, j.indexes)
      [] j.kind = "load"    -> EmitLoad(e, j.var.home)
      [] j.kind = "store"   -> EmitStore(e, Const(0), j.var.home)
      [] j.kind = "cast"    -> AtOffset(e, j.var.home)

Init ==
    /\ \/ IsIntJob(job) /\ Defined(job)
       \/ job \in FloatJobs
       \/ job \in MemoryJobs
    /\ phase = "select"
    /\ code = <<>> /\ result = 0 /\ pc = 1
    /\ regs = [k \in 1 .. MaxReg |-> IF k <= Len(job.given) THEN job.given[k] ELSE 0]

Select ==
    /\ phase = "select"
    /\ code' = EmitJob(job).code
    /\ result' = EmitJob(job).at
    /\ phase' = "run"
    /\ UNCHANGED <<job, pc, regs>>

\* Register 0 stands for an operand that is not there.
Value(k) == IF k = 0 THEN 0 ELSE regs[k]

Step ==
    /\ phase = "run" /\ pc <= Len(code)
    /\ regs' = [regs EXCEPT ![code[pc].d] = Effect(code[pc], Value(code[pc].a), Value(code[pc].b))]
    /\ pc' = pc + 1
    /\ phase' = IF pc = Len(code) THEN "done" ELSE "run"
    /\ UNCHANGED <<job, code, result>>

Next == Select \/ Step

Spec == Init /\ [][Next]_vars

-----------------------------------------------------------------------------
(* What the source asks for *)

ValueOf(o) == ValueIn(job, o)

Compare(op, x, y) ==
    CASE op = "LT" -> x < y
      [] op = "LE" -> x <= y
      [] op = "GT" -> x > y
      [] op = "GE" -> x >= y
      [] op = "EQ" -> x = y
      [] op = "NE" -> x # y

\* On ints.  Overflow wraps, as it does in the build; division is by
\* something.
IntValue(op, x, y) ==
    CASE op = "ADD" -> ToInt(x + y)
      [] op = "SUB" -> ToInt(x - y)
      [] op = "MUL" -> ToInt(x * y)
      [] op = "DIV" -> ToInt(Quotient(x, y))
      [] op = "MOD" -> Remainder(x, y)
      [] op \in Relations \union Equalities -> Truth(Compare(op, x, y))

\* With a NaN nothing holds but !=.
FloatHolds(op, x, y) ==
    IF x = NaN \/ y = NaN THEN op = "NE" ELSE Compare(op, x, y)

FloatValue(op, x, y) ==
    IF op \in {"ADD", "SUB", "MUL"} THEN FloatArith(op, x, y)
    ELSE Truth(FloatHolds(op, x, y))

\* The place of an element among all, by rows.
Place(j, dims, indexes) ==
    LET upto[k \in 0 .. Len(dims)] ==
            IF k = 0 THEN 0
            ELSE upto[k - 1] * dims[k] + (IF k <= Len(indexes) THEN ValueIn(j, indexes[k]) ELSE 0)
    IN upto[Len(dims)]

\* The address of an element: of the array itself, or of the array that
\* starts where the pointer steps to.
AddressOf(j) ==
    LET dims == j.var.dims
        home == j.var.home
    IN CASE j.var.where = "global" -> home + 4 * Place(j, dims, j.indexes)
         [] j.var.where = "local"  -> j.given[S0] + home + 4 * Place(j, dims, j.indexes)
         [] j.var.where = "param"  ->
               Mem(j.given[S0] + home)
                 + 4 * (ValueIn(j, j.indexes[1]) * TotalSize(dims) + Place(j, dims, Tail(j.indexes)))

\* Constants whose neighbour, or whose negation, is no int, or is one that
\* lui and addi do not reach.
PastTheEnd(op, l, r) ==
    \/ l.const /\ <<op, l.n>> \in {<<"LE", IntMin>>, <<"GE", IntMax>>}
    \/ r.const /\ <<op, r.n>> \in {<<"LE", IntMax>>, <<"GE", IntMin>>}
    \/ /\ op \in Equalities /\ (l.const \/ r.const)
       /\ ValueOf(l) = ValueOf(r) /\ ValueOf(l) <= IntMin + ImmHalf

-----------------------------------------------------------------------------
(* Properties *)

\* No register of the machine overflows, no expression needs more than
\* MaxReg of them.
TypeOK ==
    /\ phase \in {"select", "run", "done"}
    /\ result \in 0 .. MaxReg /\ pc \in 1 .. MaxReg + 1
    /\ \A k \in DOMAIN code : code[k].d \in 1 .. MaxReg
    /\ regs \in [1 .. MaxReg -> -RegHalf .. RegHalf]

\* Whatever constant is folded into an instruction, there is such an
\* instruction (processIfImmOutOfRange and the tests before addi and slti).
AllAssemble == \A k \in DOMAIN code : Assembles(code[k])

\* Integer operators: folding a constant into the neighbouring relation,
\* into a subtraction or into an addition gives what the operator gives,
\* except at the ends of the int range, and there it never does.
IntsRight ==
    (phase = "done" /\ job.kind = "int") =>
        (regs[result] = IntValue(job.op, ValueOf(job.l), ValueOf(job.r))
            <=> ~PastTheEnd(job.op, job.l, job.r))

\* Float operators, division excepted, and conditions, also when an operand is
\* not a number: no relation may be turned into the negation of another.
FloatsRight ==
    (phase = "done" /\ job.kind \in {"float", "cond"}) =>
        regs[result] = FloatValue(job.op, ValueOf(job.l), ValueOf(job.r))

\* The address built from constant and variable indexes, through a pointer
\* or not, at a small or a large offset, is that of the element.
AddressesRight ==
    phase = "done" =>
        CASE job.kind = "element" -> regs[result] = AddressOf(job)
          [] job.kind = "load"    -> regs[result] = Mem(job.given[S0] + job.var.home)
          [] job.kind \in {"store", "cast"} -> regs[result] = job.given[S0] + job.var.home
          [] OTHER -> TRUE
=============================================================================
