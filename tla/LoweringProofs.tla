--------------------------- MODULE LoweringProofs ----------------------------
(***************************************************************************)
(* The instructions selected for operators on ints and floats, the         *)
(* addresses of array elements, and the run of the code of every job: for  *)
(* any widths of the immediates, any constants and any arrays.             *)
(*                                                                         *)
(* An int is split for lui and addi into n = Page * q + r with 0 <= r <    *)
(* Page; r goes into the addi when it fits and else is carried, so the two *)
(* cases of the split are the two halves of a page.                        *)
(*                                                                         *)
(* The code of a job is linear: instruction i writes the i-th register     *)
(* after those given and reads earlier ones, so a register that an         *)
(* instruction has written keeps the effect of that instruction on         *)
(* registers that no longer change.  At the end the registers satisfy one  *)
(* equation per instruction, and these are solved along the structure of   *)
(* the emission.  The code exists and computes the operator, except        *)
(* PastTheEnd, and there it never does.                                    *)
(*                                                                         *)
(* The indexes of an element are summed with weights, the number of        *)
(* elements one step of each passes over; by rows, that is the place of    *)
(* the element. The sum of the constant indexes and that of the others are *)
(* kept apart until the end of the flattening, and neither leaves the ints *)
(* since both are at most the place of an element.  Of every emission it   *)
(* is then Known what the register holds that the code goes on from.       *)
(*                                                                         *)
(* In a run, the registers written so far hold what one solution R of the  *)
(* equations of the code says, those not written 0.                        *)
(***************************************************************************)
EXTENDS Lowering, TLAPS, SeqFacts

\* Instructions with an immediate that has a range.
ImmOps == {"li", "lui", "addi", "addiw", "slti", "xori", "load", "store"}

\* Instructions without, or with one that the assembler takes apart.
PlainOps == {"add", "addw", "subw", "mul", "mulw", "divw", "remw", "slli", "slt", "xor",
             "seqz", "snez", "la", "flw", "fadd.s", "fsub.s", "fmul.s", "flt.s", "fle.s",
             "feq.s", "bne", "beq"}

\* Instructions that exist.
Instructions ==
    {i \in [op : ImmOps \union PlainOps, d : Int, a : Int, b : Int, imm : Int] : Assembles(i)}

\* Emissions of which every instruction exists.
Emissions == [code : Seq(Instructions), used : Int, at : Int]

\* Operands that are registers, or constants that are ints.
Loadable == {o \in Operands : o.const => o.n \in Ints}

-----------------------------------------------------------------------------
(* Arithmetic *)

\* Division with remainder.
LEMMA DivMod ==
  ASSUME NEW a \in Int, NEW p \in Nat, p > 0
  PROVE  a = p * (a \div p) + (a % p) /\ a % p \in 0 .. p - 1 /\ a \div p \in Int
<1> QED
  OBVIOUS

\* A multiple of p other than 0 is as far from it as p.
LEMMA Multiples ==
  ASSUME NEW p \in Nat, NEW q \in Int
  PROVE  (q > 0 => p * q >= p) /\ (q < 0 => p * q <= -p) /\ p * q \in Int
<1> QED
  OBVIOUS

\* Quotient and remainder are determined by their sum.
LEMMA DivModUnique ==
  ASSUME NEW p \in Nat, p > 0, NEW q \in Int, NEW r \in 0 .. p - 1
  PROVE  (p * q + r) \div p = q /\ (p * q + r) % p = r
<1>1. p * q + r \in Int
  OBVIOUS
<1> PICK a \in Int : a = p * q + r
  BY <1>1
<1>2. a = p * (a \div p) + (a % p) /\ a % p \in 0 .. p - 1 /\ a \div p \in Int
  BY DivMod
<1> PICK Q \in Int : Q = a \div p
  BY <1>2
<1> PICK R \in 0 .. p - 1 : R = a % p
  BY <1>2
<1>3. p * q + r = p * Q + R
  BY <1>2
<1>4. q = Q
  <2>1. q - Q \in Int
    OBVIOUS
  <2> PICK d \in Int : d = q - Q
    BY <2>1
  <2>2. p * d = R - r
    BY <1>3
  <2>3. ~(d > 0) /\ ~(d < 0)
    BY <2>2, Multiples
  <2> QED
    BY <2>3
<1>5. r = R
  BY <1>3, <1>4
<1> QED
  BY <1>4, <1>5

\* The numbers the widths of the immediates stand for.
LEMMA Widths2 ==
  /\ Page \in Nat /\ Page = 2 * ImmHalf /\ ImmHalf \in Nat /\ ImmHalf > 1
  /\ HiHalf \in Nat /\ HiHalf > 1 /\ IntHalf \in Nat /\ IntHalf = Page * HiHalf
  /\ IntHalf > Page /\ Page > 0 /\ 2 * IntHalf = Page * (2 * HiHalf)
<1>1. /\ Page \in Nat /\ Page = 2 * ImmHalf /\ ImmHalf \in Nat /\ ImmHalf > 1
      /\ HiHalf \in Nat /\ HiHalf > 1 /\ Page > 0
  BY Widths DEF Page
<1>2. \A p, h \in Nat : p > 0 /\ h > 1 => h * p \in Nat /\ (h - 1) * p > 0
  OBVIOUS
<1>3. \A p, h \in Nat : h > 1 => h * p = p + (h - 1) * p
  OBVIOUS
<1>4. \A p, h \in Nat : p > 0 /\ h > 1 => h * p > p
  BY <1>2, <1>3
<1>5. \A p, h \in Nat : h * p = p * h /\ 2 * (h * p) = p * (2 * h)
  OBVIOUS
<1> QED
  BY <1>1, <1>2, <1>4, <1>5 DEF IntHalf

-----------------------------------------------------------------------------
(* Splitting an int that fits no immediate *)

\* q, r and m: the page of n, its place there, and n as an unsigned int.
LEMMA Pages ==
  ASSUME NEW n \in Ints
  PROVE  \E q \in Int, r \in 0 .. Page - 1 :
            /\ n = Page * q + r /\ n % Page = r
            /\ -HiHalf <= q /\ q < HiHalf
            /\ (n % (2 * IntHalf)) \div Page = IF n < 0 THEN q + 2 * HiHalf ELSE q
<1> USE Widths2
<1>1. n \in Int /\ -IntHalf <= n /\ n < IntHalf
  BY DEF Ints, IntMin, IntMax
<1> PICK q \in Int : q = n \div Page
  BY <1>1, DivMod
<1> PICK r \in 0 .. Page - 1 : r = n % Page
  BY <1>1, DivMod
<1>2. n = Page * q + r
  BY <1>1, DivMod
<1>3. Page * (q + HiHalf) = n + IntHalf - r /\ Page * (q - HiHalf) = n - IntHalf - r
  BY <1>1, <1>2
<1>4. ~(q + HiHalf < 0)
  <2>1. q + HiHalf \in Int
    OBVIOUS
  <2> QED
    BY <2>1, <1>1, <1>3, Multiples
<1>5. ~(q - HiHalf > 0) /\ q # HiHalf
  <2>1. q - HiHalf \in Int
    OBVIOUS
  <2>2. ~(q - HiHalf > 0)
    BY <2>1, <1>1, <1>3, Multiples
  <2>3. q # HiHalf
    BY <1>1, <1>2
  <2> QED
    BY <2>2, <2>3
<1>6. n % (2 * IntHalf) = IF n < 0 THEN n + 2 * IntHalf ELSE n
  <2>1. \A h \in Nat, k \in Int : h > 0 /\ -h <= k /\ k < h =>
           k % (2 * h) = IF k < 0 THEN k + 2 * h ELSE k
    OBVIOUS
  <2>2. IntHalf \in Nat /\ IntHalf > 0
    OBVIOUS
  <2> HIDE Widths2
  <2> QED
    BY <2>1, <2>2, <1>1
<1>7. CASE n < 0
  <2>1. n % (2 * IntHalf) = Page * (q + 2 * HiHalf) + r
    BY <1>1, <1>2, <1>6, <1>7
  <2>2. q + 2 * HiHalf \in Int
    OBVIOUS
  <2>3. (n % (2 * IntHalf)) \div Page = q + 2 * HiHalf
    BY <2>1, <2>2, DivModUnique
  <2> QED
    BY <1>2, <1>4, <1>5, <1>7, <2>3
<1>8. CASE ~(n < 0)
  <2>1. (n % (2 * IntHalf)) \div Page = q
    BY <1>2, <1>6, <1>8, DivModUnique
  <2> QED
    BY <1>2, <1>4, <1>5, <1>8, <2>1
<1> QED
  BY <1>7, <1>8

\* The two parts are immediates of addi and of lui, for any widths.  The
\* carry never leaves the 20 bits: the ints for which it would are small.
LEMMA SplitFits ==
  ASSUME NEW n \in Ints, ~InRange(n)
  PROVE  /\ Lo12(n) \in Int /\ FitsImm(Lo12(n))
         /\ Hi20(n) \in 0 .. 2 * HiHalf - 1
<1> USE Widths2
<1>1. n \in Int
  BY DEF Ints, IntMin, IntMax
<1>2. PICK q \in Int, r \in 0 .. Page - 1 :
            /\ n = Page * q + r /\ n % Page = r
            /\ -HiHalf <= q /\ q < HiHalf
            /\ (n % (2 * IntHalf)) \div Page = IF n < 0 THEN q + 2 * HiHalf ELSE q
  BY Pages
<1>3. Lo12(n) \in Int /\ FitsImm(Lo12(n))
  BY <1>2 DEF Lo12, FitsImm
<1>4. n < -ImmHalf \/ n > ImmHalf - 1
  BY <1>1 DEF InRange
<1>5. Hi20(n) = (IF n < 0 THEN q + 2 * HiHalf ELSE q) + (IF r < ImmHalf THEN 0 ELSE 1)
  BY <1>2 DEF Hi20
<1>6. n < 0 => q < 0
  BY <1>1, <1>2, Multiples
<1>7. ~(n < 0) => q >= 0
  BY <1>1, <1>2, Multiples
<1>8. n < 0 /\ q = -1 => r < ImmHalf
  BY <1>1, <1>2, <1>4
<1> QED
  BY <1>2, <1>3, <1>5, <1>6, <1>7, <1>8

-----------------------------------------------------------------------------
(* Every instruction exists *)

\* The ints of the program are numbers, and wrapping gives one of them.
LEMMA IntsAreInt == Ints \subseteq Int /\ 0 \in Ints /\ \A n \in Int : ToInt(n) \in Ints
<1>1. IntHalf \in Nat /\ IntHalf > 0
  BY Widths2
<1>2. \A n \in Int, h \in Nat : h > 0 =>
        ((n + h) % (2 * h)) - h \in -h .. h - 1
  OBVIOUS
<1> QED
  BY <1>1, <1>2 DEF ToInt, Ints, IntMin, IntMax

\* An instruction that exists is appended.
LEMMA EmitAssembles ==
  ASSUME NEW e \in Emissions, NEW op \in ImmOps \union PlainOps, NEW a \in Int, NEW b \in Int,
         NEW imm \in Int, Assembles(Inst(op, 0, a, b, imm))
  PROVE  Emit(e, op, a, b, imm) \in Emissions
<1> DEFINE i == Inst(op, e.used + 1, a, b, imm)
<1>1. e.code \in Seq(Instructions) /\ e.used \in Int
  BY DEF Emissions
<1>2. i \in Instructions
  BY <1>1 DEF Instructions, Inst, Assembles
<1>3. Append(e.code, i) \in Seq(Instructions)
  BY <1>1, <1>2
<1> QED
  BY <1>1, <1>3 DEF Emit, Emissions

\* An instruction without an immediate always exists.
LEMMA EmitPlain ==
  ASSUME NEW e \in Emissions, NEW a \in Int, NEW b \in Int, NEW imm \in Int,
         NEW op \in PlainOps
  PROVE  Emit(e, op, a, b, imm) \in Emissions
<1>1. Assembles(Inst(op, 0, a, b, imm))
  BY DEF Assembles, Inst, PlainOps
<1> QED
  BY <1>1, EmitAssembles

\* loadConstInt appends instructions that exist, for any int.
LEMMA LoadAssembles ==
  ASSUME NEW e \in Emissions
  PROVE  /\ \A c \in Ints : LoadConstInt(e, c) \in Emissions
         /\ \A c \in Int : LoadConstFloat(e, c) \in Emissions
<1>1. ASSUME NEW c \in Ints PROVE LoadConstInt(e, c) \in Emissions
  <2>1. c \in Int /\ Assembles(Inst("li", 0, 0, 0, c))
    BY IntsAreInt DEF Assembles, Inst
  <2> QED
    BY <2>1, EmitAssembles DEF LoadConstInt, ImmOps
<1>2. ASSUME NEW c \in Int PROVE LoadConstFloat(e, c) \in Emissions
  <2>1. Emit(e, "la", 0, 0, c) \in Emissions
    BY EmitPlain DEF PlainOps
  <2>2. Emit(e, "la", 0, 0, c).at \in Int
    BY <2>1 DEF Emissions
  <2> QED
    BY <2>1, <2>2, EmitPlain DEF LoadConstFloat, PlainOps
<1> QED
  BY <1>1, <1>2

\* So does getting a register for an operand.
LEMMA GetRegAssembles ==
  ASSUME NEW e \in Emissions, NEW o \in Operands
  PROVE  /\ o \in Loadable => GetReg(e, o) \in Emissions
         /\ GetFloatReg(e, o) \in Emissions
<1>1. o.n \in Int /\ o.const \in BOOLEAN
  BY DEF Operands
<1>2. [e EXCEPT !.at = o.n] \in Emissions
  BY <1>1 DEF Emissions
<1> QED
  BY <1>1, <1>2, LoadAssembles DEF GetReg, GetFloatReg, Loadable

\* What is left of an offset for the immediate fits there.
LEMMA ImmLeftFits ==
  ASSUME NEW n \in Ints
  PROVE  ImmLeft(n) \in Int /\ FitsImm(ImmLeft(n))
<1>1. CASE InRange(n)
  BY <1>1, IntsAreInt, Widths2 DEF InRange, ImmLeft, FitsImm
<1>2. CASE ~InRange(n)
  BY <1>2, SplitFits DEF ImmLeft
<1> QED
  BY <1>1, <1>2

\* processIfImmOutOfRange appends instructions that exist.
LEMMA ProcessImmAssembles ==
  ASSUME NEW e \in Emissions, NEW src \in Int, NEW n \in Ints
  PROVE  ProcessImm(e, src, n) \in Emissions
<1>1. CASE InRange(n)
  BY <1>1 DEF ProcessImm, Emissions
<1>2. CASE ~InRange(n)
  <2> DEFINE e1 == Emit(e, "lui", 0, 0, Hi20(n))
  <2>1. Hi20(n) \in Int /\ Assembles(Inst("lui", 0, 0, 0, Hi20(n)))
    BY <1>2, SplitFits, Widths2 DEF Assembles, Inst
  <2>2. e1 \in Emissions
    BY <2>1, EmitAssembles DEF ImmOps
  <2>3. e1.at \in Int
    BY <2>2 DEF Emissions
  <2>4. Emit(e1, "add", src, e1.at, 0) \in Emissions
    BY <2>2, <2>3, EmitPlain DEF PlainOps
  <2> QED
    BY <1>2, <2>4 DEF ProcessImm
<1> QED
  BY <1>1, <1>2

\* A plan has only operands and immediates that are ints, and needs an
\* instruction with an immediate only where there is one, on a register.
Plans(op) ==
    {p \in [src1 : Loadable, src2 : {<<>>} \union {<<o>> : o \in Loadable}, imm : Ints,
            revert : BOOLEAN] :
        p.src2 = <<>> => /\ op \in Relations \union Equalities \union {"ADD", "SUB"}
                         /\ ~p.src1.const}

\* The plans of emitIntBinaryInst are made by three operators.
LEMMA PlanMakers ==
  ASSUME NEW op \in IntOps, NEW a \in Loadable
  PROVE  /\ \A b \in Loadable : Two(a, b) \in Plans(op) /\ Reverted(Two(a, b)) \in Plans(op)
         /\ op \in Relations \union Equalities \union {"ADD", "SUB"} /\ ~a.const =>
              \A n \in Ints : One(a, n) \in Plans(op)
<1>1. ASSUME NEW b \in Loadable
      PROVE  Two(a, b) \in Plans(op) /\ Reverted(Two(a, b)) \in Plans(op)
  <2>1. <<b>> # <<>>
    OBVIOUS
  <2> QED
    BY <2>1, IntsAreInt DEF Two, Reverted, Plans
<1>2. ASSUME op \in Relations \union Equalities \union {"ADD", "SUB"}, ~a.const, NEW n \in Ints
      PROVE  One(a, n) \in Plans(op)
  BY <1>2 DEF One, Plans
<1> QED
  BY <1>1, <1>2

\* A constant that a plan folds into an immediate fits there.
LEMMA PlanAssembles ==
  ASSUME NEW op \in IntOps, NEW l \in Loadable, NEW r \in Loadable, ~(l.const /\ r.const)
  PROVE  Plan(op, l, r) \in Plans(op)
<1> USE DEF IntOps, Relations, Equalities, Arithmetics
<1>1. /\ l.const \in BOOLEAN /\ l.n \in Int /\ (l.const => l.n \in Ints)
      /\ r.const \in BOOLEAN /\ r.n \in Int /\ (r.const => r.n \in Ints)
  BY DEF Loadable, Operands
<1>2. /\ \A c \in Ints : Const(c) \in Loadable
      /\ \A c \in Int : ToInt(c) \in Ints
      /\ \A c \in Ints : c \in Int /\ c - 1 \in Int /\ c + 1 \in Int /\ -c \in Int
  BY IntsAreInt DEF Const, Loadable, Operands
<1>3. CASE l.const
  <2>1. PlanConstLeft(op, l.n, r) \in Plans(op)
    BY <1>1, <1>2, <1>3, PlanMakers DEF PlanConstLeft
  <2> QED
    BY <1>3, <2>1 DEF Plan
<1>4. CASE ~l.const /\ r.const
  <2>1. PlanConstRight(op, l, r.n) \in Plans(op)
    BY <1>1, <1>2, <1>4, PlanMakers DEF PlanConstRight
  <2> QED
    BY <1>4, <2>1 DEF Plan
<1>5. CASE ~l.const /\ ~r.const
  <2>1. PlanRegs(op, l, r) \in Plans(op)
    BY PlanMakers DEF PlanRegs
  <2> QED
    BY <1>5, <2>1 DEF Plan
<1> QED
  BY <1>1, <1>3, <1>4, <1>5

\* The code of a plan consists of instructions that exist.
LEMMA EmitPlanAssembles ==
  ASSUME NEW op \in IntOps, NEW e \in Emissions, NEW p \in Plans(op)
  PROVE  EmitPlan(e, op, p) \in Emissions
<1> DEFINE e1 == GetReg(e, p.src1)
<1>1. /\ p.src1 \in Loadable /\ p.imm \in Ints /\ p.imm \in Int
      /\ p.src2 # <<>> => \E o \in Loadable : p.src2 = <<o>>
      /\ p.src2 = <<>> => op \in Relations \union Equalities \union {"ADD", "SUB"}
  BY IntsAreInt DEF Plans
<1>2. e1 \in Emissions /\ e1.at \in Int
  <2>1. e1 \in Emissions
    BY <1>1, GetRegAssembles DEF Loadable
  <2> QED
    BY <2>1 DEF Emissions
<1>3. CASE p.src2 # <<>>
  <2> PICK o \in Loadable : p.src2 = <<o>>
    BY <1>1, <1>3
  <2> DEFINE e2 == GetReg(e1, o)
  <2>1. e2 \in Emissions
    BY <1>2, GetRegAssembles DEF Loadable
  <2>2. e2.at \in Int
    BY <2>1 DEF Emissions
  <2>3. OnRegs[op] \in PlainOps
    BY DEF IntOps, Relations, Equalities, Arithmetics, OnRegs, PlainOps
  <2>4. Emit(e2, OnRegs[op], e1.at, e2.at, 0) \in Emissions
    <3> HIDE DEF e1, e2
    <3>1. e2 \in Emissions /\ e1.at \in Int /\ e2.at \in Int /\ 0 \in Int
      BY <1>2, <2>1, <2>2
    <3> QED
      BY <3>1, <2>3, EmitPlain
  <2>5. p.src2[1] = o
    OBVIOUS
  <2> HIDE DEF e1, e2
  <2>6. EmitPlan(e, op, p) = Emit(e2, OnRegs[op], e1.at, e2.at, 0)
    BY <1>3, <2>5 DEF EmitPlan, e1, e2
  <2> QED
    BY <2>4, <2>6
<1>4. CASE p.src2 = <<>> /\ op \in Relations
  <2>1. CASE InRange(p.imm)
    <3>1. FitsImm(p.imm)
      BY <1>1, <2>1, Widths2 DEF FitsImm, InRange
    <3> HIDE DEF e1
    <3>3. Assembles(Inst("slti", 0, e1.at, 0, p.imm))
      BY <3>1 DEF Assembles, Inst
    <3>2. Emit(e1, "slti", e1.at, 0, p.imm) \in Emissions
      <4>1. e1 \in Emissions /\ e1.at \in Int /\ p.imm \in Int
        BY <1>1, <1>2
      <4>2. "slti" \in ImmOps \union PlainOps /\ 0 \in Int
        BY DEF ImmOps
      <4> QED
        BY <4>1, <4>2, <3>3, EmitAssembles
    <3> QED
      BY <1>4, <2>1, <3>2 DEF EmitPlan, e1
  <2>2. CASE ~InRange(p.imm)
    <3> DEFINE e2 == LoadConstInt(e1, p.imm)
    <3>1. e2 \in Emissions
      BY <1>1, <1>2, LoadAssembles
    <3>2. e2.at \in Int
      BY <3>1 DEF Emissions
    <3>3. Emit(e2, "slt", e1.at, e2.at, 0) \in Emissions
      BY <1>2, <3>1, <3>2, EmitPlain DEF PlainOps
    <3> QED
      BY <1>4, <2>2, <3>3 DEF EmitPlan
  <2> QED
    BY <2>1, <2>2
<1>5. CASE p.src2 = <<>> /\ op \notin Relations
  <2> DEFINE e2 == ProcessImm(e1, e1.at, p.imm)
  <2>1. e2 \in Emissions
    BY <1>1, <1>2, ProcessImmAssembles
  <2>2. e2.at \in Int
    BY <2>1 DEF Emissions
  <2>3. OnImm[op] \in {"addi", "addiw"}
    BY <1>1, <1>5 DEF Equalities, OnImm
  <2>4. ImmLeft(p.imm) \in Int /\ Assembles(Inst(OnImm[op], 0, e2.at, 0, ImmLeft(p.imm)))
    BY <1>1, <2>3, ImmLeftFits DEF Assembles, Inst
  <2>5. Emit(e2, OnImm[op], e2.at, 0, ImmLeft(p.imm)) \in Emissions
    BY <2>1, <2>2, <2>3, <2>4, EmitAssembles DEF ImmOps
  <2> QED
    BY <1>5, <2>5 DEF EmitPlan
<1> QED
  BY <1>3, <1>4, <1>5

\* So does that of an operator on ints.
LEMMA IntBinaryAssembles ==
  ASSUME NEW op \in IntOps, NEW e \in Emissions,
         NEW l \in Loadable, NEW r \in Loadable, ~(l.const /\ r.const)
  PROVE  EmitIntBinary(e, op, l, r) \in Emissions
<1> DEFINE e1 == EmitPlan(e, op, Plan(op, l, r))
<1>1. e1 \in Emissions
  BY PlanAssembles, EmitPlanAssembles
<1>2. e1.at \in Int
  BY <1>1 DEF Emissions
<1>3. Assembles(Inst("xori", 0, e1.at, 0, 1))
  BY Widths2 DEF Assembles, Inst, FitsImm
<1>4. Emit(e1, "xori", e1.at, 0, 1) \in Emissions
  BY <1>1, <1>2, <1>3, EmitAssembles DEF ImmOps
<1>5. Emit(e1, "seqz", e1.at, 0, 0) \in Emissions /\ Emit(e1, "snez", e1.at, 0, 0) \in Emissions
  BY <1>1, <1>2, EmitPlain DEF PlainOps
<1> QED
  BY <1>1, <1>4, <1>5 DEF EmitIntBinary

\* So does that of an operator on floats and of a conditional jump.
LEMMA FloatAssembles ==
  ASSUME NEW op \in DOMAIN FloatOp, NEW e \in Emissions, NEW l \in Operands, NEW r \in Operands
  PROVE  EmitFloatBinary(e, op, l, r) \in Emissions /\ EmitFloatCond(e, op, l, r) \in Emissions
<1> DEFINE e1 == GetFloatReg(e, l)
           e2 == GetFloatReg(e1, r)
           e3 == EmitFloatOp(e2, op, e1.at, e2.at)
           e4 == LoadConstInt(e3, 0)
<1>1. e1 \in Emissions
  BY GetRegAssembles
<1>2. e2 \in Emissions
  BY <1>1, GetRegAssembles
<1>3. e1.at \in Int /\ e2.at \in Int /\ 0 \in Int
  BY <1>1, <1>2 DEF Emissions
<1>4. FloatOp[op] \in PlainOps
  BY DEF FloatOp, PlainOps
<1>5. e3 \in Emissions
  <2> HIDE DEF e1, e2
  <2>1. /\ Emit(e2, FloatOp[op], e1.at, e2.at, 0) \in Emissions
        /\ Emit(e2, FloatOp[op], e2.at, e1.at, 0) \in Emissions
    BY <1>2, <1>3, <1>4, EmitPlain
  <2> QED
    BY <2>1 DEF EmitFloatOp
<1>6. e3.code \in Seq(Instructions) /\ e3.at \in Int
  BY <1>5 DEF Emissions
<1>7. e4 \in Emissions
  <2> HIDE DEF e3
  <2> QED
    BY <1>5, IntsAreInt, LoadAssembles
<1>8. EmitFloatCond(e, op, l, r) \in Emissions
  <2>1. e4.at \in Int
    BY <1>7 DEF Emissions
  <2> HIDE DEF e3, e4
  <2>2. Emit(e4, "beq", e3.at, e4.at, 0) \in Emissions /\ Emit(e4, "bne", e3.at, e4.at, 0) \in Emissions
    BY <1>3, <1>6, <1>7, <2>1, EmitPlain DEF PlainOps
  <2> QED
    BY <2>2 DEF EmitFloatCond, e3, e4
<1>9. EmitFloatBinary(e, op, l, r) \in Emissions
  <2> DEFINE i == Inst("seqz", e3.at, e3.at, 0, 0)
             e5 == [e3 EXCEPT !.code = Append(@, i)]
  <2>1. i \in Instructions
    <3> HIDE DEF e3
    <3> QED
      BY <1>6 DEF Instructions, Inst, Assembles, PlainOps
  <2>2. e5 \in Emissions
    <3> HIDE DEF e3, i
    <3>1. Append(e3.code, i) \in Seq(Instructions)
      BY <1>6, <2>1
    <3> QED
      BY <1>5, <3>1 DEF Emissions
  <2>3. EmitFloatBinary(e, op, l, r) = IF op # "NE" THEN e3 ELSE e5
    BY DEF EmitFloatBinary
  <2> HIDE DEF e3, e5
  <2> QED
    BY <1>5, <2>2, <2>3
<1> QED
  BY <1>8, <1>9

\* What register k holds; register 0 stands for an operand that is not there.
Content(R, k) == IF k = 0 THEN 0 ELSE R[k]

\* What instruction i leaves in its register.
EffectIn(R, i) == Effect(i, Content(R, i.a), Content(R, i.b))

\* Every instruction of c has left its effect.
Holds(R, c) == \A k \in 1 .. Len(c) : R[c[k].d] = EffectIn(R, c[k])

\* The code of e starts after register g.
Linear(e, g) ==
    /\ e \in Emissions
    /\ e.used = g + Len(e.code)
    /\ e.at \in 0 .. e.used
    /\ \A k \in 1 .. Len(e.code) :
          e.code[k].d = g + k /\ e.code[k].a \in 0 .. g + k - 1 /\ e.code[k].b \in 0 .. g + k - 1

\* What a register of the machine holds.
RegRange == -RegHalf .. RegHalf

\* No register that c writes overflows.
Small(R, c) == \A k \in 1 .. Len(c) : R[c[k].d] \in RegRange

\* What can be added to an int, and to another, and is still in a register.
Moderate == -(IntHalf * IntHalf) .. IntHalf * IntHalf

\* What an operand holds.
Held(R, o) == IF o.const THEN o.n ELSE R[o.n]

-----------------------------------------------------------------------------
(* Words *)

\* The range of ints and that of registers.
LEMMA Sizes ==
  /\ IntHalf \in Nat /\ IntHalf >= 8 /\ RegHalf \in Nat /\ IntHalf * IntHalf \in Nat
  /\ RegHalf = IntHalf * IntHalf + IntHalf * IntHalf
  /\ IntHalf * IntHalf >= 8 * IntHalf
  /\ Ints = -IntHalf .. IntHalf - 1
<1>1. /\ Page \in Nat /\ HiHalf \in Nat /\ ImmHalf \in Nat /\ IntHalf \in Nat
      /\ Page = 2 * ImmHalf /\ ImmHalf >= 2 /\ HiHalf >= 2 /\ IntHalf = HiHalf * Page
  BY Widths2
<1>2. \A h, p \in Nat : h >= 2 /\ p >= 4 => h * p >= 8
  <2>1. ASSUME NEW h \in Nat, NEW p \in Nat, h >= 2, p >= 4 PROVE h * p >= 8
    <3>1. (h - 2) * p >= 0 /\ h * p = (h - 2) * p + 2 * p
      BY <2>1
    <3> QED
      BY <2>1, <3>1
  <2> QED
    BY <2>1
<1>3. IntHalf >= 8
  BY <1>1, <1>2
<1>4. \A h \in Nat : h >= 8 => h * h >= 8 * h /\ h * h \in Nat /\ h * (2 * h) = h * h + h * h
  <2>1. ASSUME NEW h \in Nat, h >= 8 PROVE h * h >= 8 * h
    <3>1. (h - 8) * h >= 0 /\ h * h = (h - 8) * h + 8 * h
      BY <2>1
    <3> QED
      BY <3>1
  <2> QED
    BY <2>1
<1> QED
  BY <1>1, <1>3, <1>4 DEF RegHalf, Ints, IntMin, IntMax

\* Ints, and sums and products of two, are in registers.
LEMMA Ranges ==
  /\ Ints \subseteq Moderate /\ Moderate \subseteq RegRange /\ Ints \subseteq RegRange
  /\ \A p : Truth(p) \in Ints
  /\ \A n \in Int : -(8 * IntHalf) <= n /\ n <= 8 * IntHalf => n \in RegRange
  /\ \A v \in Moderate : v \in Int /\ \A n \in Int :
        -(8 * IntHalf) <= n /\ n <= 8 * IntHalf => v + n \in RegRange
<1> PICK h \in Nat : h = IntHalf
  BY Sizes
<1> PICK s \in Nat : s = IntHalf * IntHalf
  BY Sizes
<1>1. /\ h >= 8 /\ s >= 8 * h /\ RegHalf = s + s
      /\ Ints = -h .. h - 1 /\ Moderate = -s .. s /\ RegRange = -(s + s) .. s + s
  BY Sizes DEF Moderate, RegRange
<1>2. \A p : Truth(p) \in -h .. h - 1
  BY <1>1 DEF Truth
<1> QED
  BY <1>1, <1>2

\* Wrapping leaves ints alone and forgets multiples of the range.
LEMMA ToIntFacts ==
  /\ \A n \in Ints : ToInt(n) = n
  /\ \A v \in Int : ToInt(v + 2 * IntHalf) = ToInt(v)
  /\ ToInt(IntMax + 1) = IntMin /\ ToInt(IntMin - 1) = IntMax
<1>1. IntHalf \in Nat /\ IntHalf > 0
  BY Widths2
<1> PICK h \in Nat : h = IntHalf /\ h > 0
  BY <1>1
<1>2. \A v \in Int : ToInt(v) = ((v + h) % (2 * h)) - h
  BY DEF ToInt
<1>3. ASSUME NEW n \in Ints PROVE ToInt(n) = n
  <2>1. n \in Int /\ -h <= n /\ n < h
    BY DEF Ints, IntMin, IntMax
  <2>2. (n + h) % (2 * h) = n + h
    BY <2>1
  <2> QED
    BY <1>2, <2>1, <2>2
<1>4. ASSUME NEW v \in Int PROVE ToInt(v + 2 * h) = ToInt(v)
  <2> DEFINE q == (v + h) \div (2 * h)
             r == (v + h) % (2 * h)
  <2>1. v + h = (2 * h) * q + r /\ r \in 0 .. 2 * h - 1 /\ q \in Int
    <3>1. 2 * h \in Nat /\ 2 * h > 0 /\ v + h \in Int
      OBVIOUS
    <3> QED
      BY <3>1, DivMod
  <2> HIDE DEF q, r
  <2>2. (v + 2 * h) + h = (2 * h) * (q + 1) + r
    BY <2>1
  <2>3. ((2 * h) * (q + 1) + r) % (2 * h) = r
    <3>1. 2 * h \in Nat /\ 2 * h > 0 /\ q + 1 \in Int
      BY <2>1
    <3> QED
      BY <2>1, <3>1, DivModUnique
  <2>4. v + 2 * h \in Int
    OBVIOUS
  <2> QED
    BY <1>2, <2>2, <2>3, <2>4 DEF r
<1>5. IntMax + 1 = h /\ IntMin = -h /\ IntMin - 1 = -h - 1 /\ IntMax = h - 1
  BY DEF IntMax, IntMin
<1>6. (h + h) % (2 * h) = 0 /\ ((-h - 1) + h) % (2 * h) = 2 * h - 1
  OBVIOUS
<1> QED
  BY <1>2, <1>3, <1>4, <1>5, <1>6

\* What a register has gained from n after ProcessImm and the immediate left.
Reached(n) == IF n >= IntHalf - ImmHalf THEN n - 2 * IntHalf ELSE n

\* lui sign-extends: the two parts of an int are the int, except that the
\* carry of the last ones passes the end.
LEMMA SplitReaches ==
  ASSUME NEW n \in Ints, ~InRange(n)
  PROVE  ToInt(Hi20(n) * Page) + Lo12(n) = Reached(n)
<1> USE Widths2
<1>1. n \in Int /\ -IntHalf <= n /\ n < IntHalf
  BY DEF Ints, IntMin, IntMax
<1>2. PICK q \in Int, r \in 0 .. Page - 1 :
            /\ n = Page * q + r /\ n % Page = r
            /\ -HiHalf <= q /\ q < HiHalf
            /\ (n % (2 * IntHalf)) \div Page = IF n < 0 THEN q + 2 * HiHalf ELSE q
  BY Pages
<1> PICK carry \in {0, 1} : carry = IF r < ImmHalf THEN 0 ELSE 1
  OBVIOUS
<1> PICK up \in Int : up = Page * (q + carry)
  OBVIOUS
<1>3. Lo12(n) = r - Page * carry /\ Lo12(n) \in Int
  BY <1>2 DEF Lo12
<1>4. up + Lo12(n) = n
  BY <1>2, <1>3
<1>5. Hi20(n) * Page = IF n < 0 THEN up + 2 * IntHalf ELSE up
  <2>1. Hi20(n) = (IF n < 0 THEN q + 2 * HiHalf ELSE q) + carry
    BY <1>2 DEF Hi20
  <2>2. (2 * HiHalf) * Page = 2 * IntHalf
    OBVIOUS
  <2>3. \A k, p, w \in Int : (k + w) * p = p * k + w * p
    OBVIOUS
  <2>4. CASE n < 0
    <3>1. Hi20(n) = (q + carry) + 2 * HiHalf
      BY <2>1, <2>4
    <3> QED
      BY <2>2, <2>3, <2>4, <3>1
  <2>5. CASE ~(n < 0)
    <3>1. Hi20(n) = q + carry
      BY <2>1, <2>5
    <3>2. \A k, p \in Int : k * p = p * k
      OBVIOUS
    <3> QED
      BY <2>5, <3>1, <3>2
  <2> QED
    BY <2>4, <2>5
<1>6. ToInt(Hi20(n) * Page) = ToInt(up)
  <2>1. ToInt(up + 2 * IntHalf) = ToInt(up)
    BY ToIntFacts, Zenon
  <2> QED
    BY <1>5, <2>1
<1>7. CASE n >= IntHalf - ImmHalf
  <2>1. q = HiHalf - 1
    <3>1. Page * (q + 1 - HiHalf) = n - r + Page - IntHalf
      BY <1>2
    <3>2. Page * (q + 1 - HiHalf) > -Page
      BY <1>1, <1>7, <3>1
    <3>3. q + 1 - HiHalf \in Int
      OBVIOUS
    <3>4. ~(q + 1 - HiHalf < 0)
      BY <3>2, <3>3, Multiples
    <3> QED
      BY <1>2, <3>4
  <2>2. up = IntHalf
    <3>1. carry = 1
      <4>1. Page * q = IntHalf - Page
        BY <2>1
      <4> QED
        BY <1>1, <1>2, <1>7, <4>1
    <3>2. q + carry = HiHalf
      BY <2>1, <3>1
    <3> QED
      BY <3>2
  <2>3. ToInt(up) = up - 2 * IntHalf
    BY <2>2, ToIntFacts DEF IntMax, IntMin
  <2>4. ToInt(Hi20(n) * Page) + Lo12(n) = (up - 2 * IntHalf) + Lo12(n)
    BY <1>6, <2>3
  <2>6. (up - 2 * IntHalf) + Lo12(n) = n - 2 * IntHalf
    BY <1>1, <1>3, <1>4
  <2> QED
    BY <1>7, <2>4, <2>6 DEF Reached
<1>8. CASE ~(n >= IntHalf - ImmHalf)
  <2>1. up < IntHalf
    BY <1>1, <1>2, <1>3, <1>4, <1>8
  <2>2. up >= -IntHalf
    <3>1. up = Page * (q + carry + HiHalf) - IntHalf
      OBVIOUS
    <3>2. q + carry + HiHalf >= 0 /\ q + carry + HiHalf \in Int
      BY <1>2
    <3>3. Page * (q + carry + HiHalf) >= 0
      BY <3>2, Multiples
    <3> QED
      BY <3>1, <3>3
  <2>3. up \in Ints
    BY <1>4, <2>1, <2>2 DEF Ints, IntMin, IntMax
  <2> QED
    BY <1>1, <1>4, <1>6, <1>8, <2>3, ToIntFacts DEF Reached
<1> QED
  BY <1>7, <1>8

-----------------------------------------------------------------------------
(* One instruction *)

\* Linear code stays linear when an instruction reads registers it has.
LEMMA EmitLinear ==
  ASSUME NEW g \in Nat, NEW e, Linear(e, g), NEW op \in ImmOps \union PlainOps,
         NEW a \in 0 .. e.used, NEW b \in 0 .. e.used, NEW imm \in Int,
         Assembles(Inst(op, 0, a, b, imm))
  PROVE  /\ Linear(Emit(e, op, a, b, imm), g)
         /\ Emit(e, op, a, b, imm).used = e.used + 1
         /\ Emit(e, op, a, b, imm).at = e.used + 1
         /\ \A R : Holds(R, Emit(e, op, a, b, imm).code) =>
              /\ Holds(R, e.code)
              /\ R[e.used + 1] = Effect(Inst(op, e.used + 1, a, b, imm), Content(R, a), Content(R, b))
              /\ Small(R, e.code) /\ R[e.used + 1] \in RegRange => Small(R, Emit(e, op, a, b, imm).code)
<1> DEFINE i == Inst(op, e.used + 1, a, b, imm)
           e1 == Emit(e, op, a, b, imm)
           n == Len(e.code)
<1>1. /\ e \in Emissions /\ e.code \in Seq(Instructions) /\ n \in Nat
      /\ e.used = g + n /\ a \in Int /\ b \in Int
  BY DEF Linear, Emissions
<1>2. e1 \in Emissions
  BY <1>1, EmitAssembles
<1>3. e1.code = Append(e.code, i) /\ e1.used = e.used + 1 /\ e1.at = e.used + 1
  BY DEF Emit
<1>4. /\ Len(e1.code) = n + 1
      /\ \A k \in 1 .. n : e1.code[k] = e.code[k]
      /\ e1.code[n + 1] = i
  BY <1>1, <1>3
<1>5. i.d = e.used + 1 /\ i.a = a /\ i.b = b
  BY DEF Inst
<1> HIDE DEF i, e1, n
<1>6. Linear(e1, g)
  <2>1. ASSUME NEW k \in 1 .. n + 1
        PROVE  /\ e1.code[k].d = g + k
               /\ e1.code[k].a \in 0 .. g + k - 1 /\ e1.code[k].b \in 0 .. g + k - 1
    <3>1. CASE k = n + 1
      <4>1. e1.code[k] = i
        BY <1>4, <3>1
      <4>2. g + k = e.used + 1 /\ g + k - 1 = e.used
        BY <1>1, <3>1
      <4> QED
        BY <1>5, <4>1, <4>2
    <3>2. CASE k \in 1 .. n
      BY <1>4, <3>2 DEF Linear, n
    <3> QED
      BY <1>1, <3>1, <3>2
  <2>2. e1.used = g + Len(e1.code) /\ e1.at \in 0 .. e1.used
    BY <1>1, <1>3, <1>4
  <2> QED
    BY <1>2, <1>4, <2>1, <2>2 DEF Linear
<1>7. ASSUME NEW R, Holds(R, e1.code)
      PROVE  /\ Holds(R, e.code) /\ R[e.used + 1] = Effect(i, Content(R, a), Content(R, b))
             /\ Small(R, e.code) /\ R[e.used + 1] \in RegRange => Small(R, e1.code)
  <2>1. \A k \in 1 .. n + 1 : R[e1.code[k].d] = EffectIn(R, e1.code[k])
    BY <1>4, <1>7 DEF Holds
  <2>2. Holds(R, e.code)
    <3>1. ASSUME NEW k \in 1 .. n PROVE R[e.code[k].d] = EffectIn(R, e.code[k])
      <4>1. k \in 1 .. n + 1 /\ e1.code[k] = e.code[k]
        BY <1>1, <1>4
      <4> QED
        BY <2>1, <4>1
    <3> QED
      BY <3>1 DEF Holds, n
  <2>3. R[i.d] = EffectIn(R, i)
    BY <1>1, <1>4, <2>1
  <2>4. ASSUME Small(R, e.code), R[e.used + 1] \in RegRange PROVE Small(R, e1.code)
    <3>1. ASSUME NEW k \in 1 .. n + 1 PROVE R[e1.code[k].d] \in RegRange
      <4>1. k \in 1 .. n \/ k = n + 1
        BY <1>1
      <4> QED
        BY <1>4, <1>5, <2>4, <4>1 DEF Small, n
    <3> QED
      BY <1>4, <3>1 DEF Small
  <2> QED
    BY <1>5, <2>2, <2>3, <2>4 DEF EffectIn
<1> QED
  BY <1>3, <1>6, <1>7 DEF e1, i

\* What a register holds.
LEMMA ContentAt ==
  ASSUME NEW R, NEW k \in Nat, k > 0
  PROVE  Content(R, k) = R[k]
<1> QED
  BY DEF Content

\* The effects of the instructions of int code.
LEMMA Effects ==
  ASSUME NEW d, NEW a, NEW b, NEW n, NEW x, NEW y
  PROVE  /\ Effect(Inst("li", d, a, b, n), x, y) = n
         /\ Effect(Inst("lui", d, a, b, n), x, y) = ToInt(n * Page)
         /\ Effect(Inst("add", d, a, b, n), x, y) = x + y
         /\ Effect(Inst("addi", d, a, b, n), x, y) = x + n
         /\ Effect(Inst("addw", d, a, b, n), x, y) = ToInt(x + y)
         /\ Effect(Inst("addiw", d, a, b, n), x, y) = ToInt(x + n)
         /\ Effect(Inst("subw", d, a, b, n), x, y) = ToInt(x - y)
         /\ Effect(Inst("mulw", d, a, b, n), x, y) = ToInt(x * y)
         /\ Effect(Inst("divw", d, a, b, n), x, y) = ToInt(Quotient(x, y))
         /\ Effect(Inst("remw", d, a, b, n), x, y) = ToInt(Remainder(x, y))
         /\ Effect(Inst("slt", d, a, b, n), x, y) = Truth(x < y)
         /\ Effect(Inst("slti", d, a, b, n), x, y) = Truth(x < n)
         /\ Effect(Inst("xor", d, a, b, n), x, y) = Truth(x # y)
         /\ Effect(Inst("xori", d, a, b, n), x, y) = (IF x % 2 = 0 THEN x + n ELSE x - n)
         /\ Effect(Inst("seqz", d, a, b, n), x, y) = Truth(x = 0)
         /\ Effect(Inst("snez", d, a, b, n), x, y) = Truth(x # 0)
<1> QED
  BY DEF Effect, Inst

\* The register of an operand holds the operand.
LEMMA GetRegValue ==
  ASSUME NEW g \in Nat, NEW e, Linear(e, g), NEW o \in Loadable, o.const \/ o.n \in 1 .. e.used
  PROVE  /\ Linear(GetReg(e, o), g)
         /\ GetReg(e, o).used \in e.used .. e.used + 1
         /\ ~o.const => GetReg(e, o).used = e.used
         /\ \A R : Holds(R, GetReg(e, o).code) =>
              /\ Holds(R, e.code) /\ Content(R, GetReg(e, o).at) = Held(R, o)
              /\ Small(R, e.code) => Small(R, GetReg(e, o).code)
<1>1. /\ o.const \in BOOLEAN /\ o.n \in Int /\ (o.const => o.n \in Ints)
      /\ e.used \in Nat /\ e.used >= g
  BY DEF Linear, Emissions, Loadable, Operands
<1>2. CASE o.const
  <2>1. GetReg(e, o) = Emit(e, "li", 0, 0, o.n)
    BY <1>2 DEF GetReg, LoadConstInt
  <2>2. /\ Assembles(Inst("li", 0, 0, 0, o.n)) /\ "li" \in ImmOps \union PlainOps
        /\ 0 \in 0 .. e.used /\ o.n \in Int
    BY <1>1, <1>2 DEF Assembles, Inst, ImmOps
  <2> DEFINE e1 == Emit(e, "li", 0, 0, o.n)
  <2>3. /\ Linear(e1, g) /\ e1.used = e.used + 1 /\ e1.at = e.used + 1
        /\ \A R : Holds(R, e1.code) =>
              /\ Holds(R, e.code)
              /\ R[e.used + 1] = Effect(Inst("li", e.used + 1, 0, 0, o.n), Content(R, 0), Content(R, 0))
              /\ Small(R, e.code) /\ R[e.used + 1] \in RegRange => Small(R, e1.code)
    BY <2>2, EmitLinear
  <2> HIDE DEF e1
  <2>4. ASSUME NEW R, Holds(R, e1.code)
        PROVE  /\ Holds(R, e.code) /\ Content(R, e1.at) = Held(R, o)
               /\ Small(R, e.code) => Small(R, e1.code)
    <3>1. R[e.used + 1] = o.n
      BY <2>3, <2>4, Effects
    <3> QED
      BY <1>1, <1>2, <2>3, <2>4, <3>1, Ranges, ContentAt DEF Held
  <2> QED
    BY <1>1, <1>2, <2>1, <2>3, <2>4 DEF e1
<1>3. CASE ~o.const
  <2> DEFINE e1 == [e EXCEPT !.at = o.n]
  <2>1. GetReg(e, o) = e1
    BY <1>3 DEF GetReg
  <2>2. e1.code = e.code /\ e1.used = e.used /\ e1.at = o.n /\ e1 \in Emissions
    BY <1>1 DEF Linear, Emissions
  <2>3. Linear(e1, g)
    <3> HIDE DEF e1
    <3> QED
      BY <1>1, <1>3, <2>2 DEF Linear
  <2> HIDE DEF e1
  <2>4. ASSUME NEW R, Holds(R, e1.code)
        PROVE  /\ Holds(R, e.code) /\ Content(R, e1.at) = Held(R, o)
               /\ Small(R, e.code) => Small(R, e1.code)
    BY <1>1, <1>3, <2>2, <2>4, ContentAt DEF Held
  <2> QED
    BY <1>1, <1>3, <2>1, <2>2, <2>3, <2>4
<1> QED
  BY <1>1, <1>2, <1>3

\* processIfImmOutOfRange leaves the part of the offset that is not in the immediate.
LEMMA ProcessImmValue ==
  ASSUME NEW g \in Nat, NEW e, Linear(e, g), NEW src \in 0 .. e.used, NEW n \in Ints
  PROVE  /\ Linear(ProcessImm(e, src, n), g)
         /\ ProcessImm(e, src, n).used \in e.used .. e.used + 2
         /\ \A R : Holds(R, ProcessImm(e, src, n).code) =>
              /\ Holds(R, e.code)
              /\ Content(R, src) \in Int =>
                   Content(R, ProcessImm(e, src, n).at) + ImmLeft(n) = Content(R, src) + Reached(n)
              /\ Content(R, src) \in Moderate /\ Small(R, e.code) => Small(R, ProcessImm(e, src, n).code)
<1>1. e.used \in Nat /\ e.used >= g /\ n \in Int /\ e \in Emissions
  BY IntsAreInt DEF Linear, Emissions
<1>2. CASE InRange(n)
  <2> DEFINE e1 == [e EXCEPT !.at = src]
  <2>1. ProcessImm(e, src, n) = e1
    BY <1>2 DEF ProcessImm
  <2>2. e1.code = e.code /\ e1.used = e.used /\ e1.at = src /\ e1 \in Emissions
    BY <1>1 DEF Emissions
  <2> HIDE DEF e1
  <2>3. Linear(e1, g)
    BY <2>2 DEF Linear
  <2>4. ImmLeft(n) = n /\ Reached(n) = n
    BY <1>1, <1>2, Widths2 DEF ImmLeft, Reached, InRange
  <2> QED
    BY <1>1, <2>1, <2>2, <2>3, <2>4
<1>3. CASE ~InRange(n)
  <2> DEFINE e1 == Emit(e, "lui", 0, 0, Hi20(n))
             e2 == Emit(e1, "add", src, e1.at, 0)
  <2>1. ProcessImm(e, src, n) = e2
    BY <1>3 DEF ProcessImm
  <2>2. /\ Assembles(Inst("lui", 0, 0, 0, Hi20(n))) /\ "lui" \in ImmOps \union PlainOps
        /\ 0 \in 0 .. e.used /\ Hi20(n) \in Int
    BY <1>1, <1>3, SplitFits, Widths2 DEF Assembles, Inst, ImmOps
  <2>3. /\ Linear(e1, g) /\ e1.used = e.used + 1 /\ e1.at = e.used + 1
        /\ \A R : Holds(R, e1.code) =>
              /\ Holds(R, e.code)
              /\ R[e.used + 1] = Effect(Inst("lui", e.used + 1, 0, 0, Hi20(n)), Content(R, 0), Content(R, 0))
              /\ Small(R, e.code) /\ R[e.used + 1] \in RegRange => Small(R, e1.code)
    BY <2>2, EmitLinear
  <2> HIDE DEF e1
  <2>4. /\ Assembles(Inst("add", 0, src, e1.at, 0)) /\ "add" \in ImmOps \union PlainOps
        /\ src \in 0 .. e1.used /\ e1.at \in 0 .. e1.used /\ 0 \in Int
    BY <1>1, <2>3 DEF Assembles, Inst, PlainOps
  <2>5. /\ Linear(e2, g) /\ e2.used = e1.used + 1 /\ e2.at = e1.used + 1
        /\ \A R : Holds(R, e2.code) =>
              /\ Holds(R, e1.code)
              /\ R[e1.used + 1] = Effect(Inst("add", e1.used + 1, src, e1.at, 0), Content(R, src), Content(R, e1.at))
              /\ Small(R, e1.code) /\ R[e1.used + 1] \in RegRange => Small(R, e2.code)
    BY <2>3, <2>4, EmitLinear
  <2> HIDE DEF e2
  <2>6. ASSUME NEW R, Holds(R, e2.code)
        PROVE  /\ Holds(R, e.code)
               /\ Content(R, src) \in Int =>
                    Content(R, e2.at) + ImmLeft(n) = Content(R, src) + Reached(n)
               /\ Content(R, src) \in Moderate /\ Small(R, e.code) => Small(R, e2.code)
    <3>1. Holds(R, e.code) /\ R[e.used + 1] = ToInt(Hi20(n) * Page)
      BY <2>3, <2>5, <2>6, Effects
    <3>2. Content(R, e1.at) = ToInt(Hi20(n) * Page)
      BY <1>1, <2>3, <3>1, ContentAt
    <3>3. R[e1.used + 1] = Content(R, src) + ToInt(Hi20(n) * Page)
      BY <2>5, <2>6, <3>2, Effects
    <3>4. Content(R, e2.at) = Content(R, src) + ToInt(Hi20(n) * Page)
      BY <1>1, <2>3, <2>5, <3>3, ContentAt
    <3>5. PICK hi \in Ints : hi = ToInt(Hi20(n) * Page)
      <4>1. Hi20(n) * Page \in Int
        BY <1>3, SplitFits, Widths2
      <4> QED
        BY <4>1, IntsAreInt
    <3>6. ImmLeft(n) = Lo12(n) /\ Lo12(n) \in Int
      BY <1>3, SplitFits DEF ImmLeft
    <3>7. hi + Lo12(n) = Reached(n)
      BY <1>3, <3>5, SplitReaches
    <3>8. ASSUME Content(R, src) \in Moderate, Small(R, e.code) PROVE Small(R, e2.code)
      <4>1. hi \in RegRange /\ hi \in Int /\ -(8 * IntHalf) <= hi /\ hi <= 8 * IntHalf
        BY Sizes, Ranges
      <4>2. Small(R, e1.code)
        BY <2>3, <2>5, <2>6, <3>1, <3>5, <3>8, <4>1
      <4>3. R[e1.used + 1] \in RegRange
        BY <3>3, <3>5, <3>8, <4>1, Ranges
      <4> QED
        BY <2>5, <2>6, <4>2, <4>3
    <3>9. hi \in Int
      BY IntsAreInt
    <3> QED
      BY <2>6, <3>1, <3>4, <3>5, <3>6, <3>7, <3>8, <3>9
  <2> QED
    BY <1>1, <2>1, <2>3, <2>5, <2>6
<1> QED
  BY <1>2, <1>3

-----------------------------------------------------------------------------
(* What a plan computes *)

\* What an instruction on two registers leaves, before it is negated.
OnRegsValue(op, x, y) ==
    IF op \in Relations THEN Truth(x < y)
    ELSE IF op \in Equalities THEN Truth(x # y)
    ELSE IF op = "ADD" THEN ToInt(x + y)
    ELSE IF op = "SUB" THEN ToInt(x - y)
    ELSE IF op = "MUL" THEN ToInt(x * y)
    ELSE IF op = "DIV" THEN ToInt(Quotient(x, y))
    ELSE ToInt(Remainder(x, y))

\* What an instruction with a constant leaves.
OnImmValue(op, x, n) ==
    IF op \in Relations THEN Truth(x < n)
    ELSE IF op \in Equalities THEN x + Reached(n)
    ELSE ToInt(x + Reached(n))

\* What the instruction of a plan leaves.
PlanValue(R, op, p) ==
    IF p.src2 # <<>> THEN OnRegsValue(op, Held(R, p.src1), Held(R, p.src2[1]))
                     ELSE OnImmValue(op, Held(R, p.src1), p.imm)

\* The operands of p are constants or registers that are given.
Given(p, g) ==
    /\ p.src1.const \/ p.src1.n \in 1 .. g
    /\ p.src2 # <<>> => p.src2[1].const \/ p.src2[1].n \in 1 .. g

\* The code of a plan leaves the value of the plan.
LEMMA EmitPlanValue ==
  ASSUME NEW g \in Nat, NEW e, Linear(e, g), NEW op \in IntOps, NEW p \in Plans(op), Given(p, g)
  PROVE  /\ Linear(EmitPlan(e, op, p), g)
         /\ EmitPlan(e, op, p).used \in e.used + 1 .. e.used + 3
         /\ EmitPlan(e, op, p).at = EmitPlan(e, op, p).used
         /\ \A R : Holds(R, EmitPlan(e, op, p).code) /\ Held(R, p.src1) \in Int =>
              /\ Holds(R, e.code) /\ R[EmitPlan(e, op, p).at] = PlanValue(R, op, p)
              /\ (Small(R, e.code) /\ Held(R, p.src1) \in Ints /\ PlanValue(R, op, p) \in RegRange)
                   => Small(R, EmitPlan(e, op, p).code)
<1>1. e.used \in Nat /\ e.used >= g
  BY DEF Linear, Emissions
<1>2. /\ p.src1 \in Loadable /\ p.imm \in Ints /\ p.imm \in Int
      /\ p.src2 # <<>> => \E o \in Loadable : p.src2 = <<o>>
      /\ p.src2 = <<>> => op \in Relations \union Equalities \union {"ADD", "SUB"} /\ ~p.src1.const
  BY IntsAreInt DEF Plans
<1> DEFINE e1 == GetReg(e, p.src1)
<1>3. /\ Linear(e1, g) /\ e1.used \in e.used .. e.used + 1 /\ (~p.src1.const => e1.used = e.used)
      /\ \A R : Holds(R, e1.code) => /\ Holds(R, e.code) /\ Content(R, e1.at) = Held(R, p.src1)
                                     /\ Small(R, e.code) => Small(R, e1.code)
  <2>1. p.src1.const \/ p.src1.n \in 1 .. e.used
    BY <1>1 DEF Given
  <2> QED
    BY <1>2, <2>1, GetRegValue
<1>4. e1.at \in 0 .. e1.used /\ e1.used \in Nat
  BY <1>1, <1>3 DEF Linear
<1> HIDE DEF e1
<1>5. CASE p.src2 # <<>>
  <2> PICK o \in Loadable : p.src2 = <<o>>
    BY <1>2, <1>5
  <2>1. p.src2[1] = o
    OBVIOUS
  <2> DEFINE e2 == GetReg(e1, o)
  <2>2. /\ Linear(e2, g) /\ e2.used \in e1.used .. e1.used + 1
        /\ \A R : Holds(R, e2.code) => /\ Holds(R, e1.code) /\ Content(R, e2.at) = Held(R, o)
                                       /\ Small(R, e1.code) => Small(R, e2.code)
    <3>1. o.const \/ o.n \in 1 .. e1.used
      BY <1>1, <1>3, <1>5, <2>1 DEF Given
    <3> QED
      BY <1>3, <3>1, GetRegValue
  <2>3. e2.at \in 0 .. e2.used /\ e2.used \in Nat
    BY <1>4, <2>2 DEF Linear
  <2> HIDE DEF e2
  <2> DEFINE e3 == Emit(e2, OnRegs[op], e1.at, e2.at, 0)
  <2>4. EmitPlan(e, op, p) = e3
    BY <1>5, <2>1 DEF EmitPlan, e1, e2
  <2>5. OnRegs[op] \in PlainOps
    BY DEF IntOps, Relations, Equalities, Arithmetics, OnRegs, PlainOps
  <2>6. /\ Assembles(Inst(OnRegs[op], 0, e1.at, e2.at, 0)) /\ OnRegs[op] \in ImmOps \union PlainOps
        /\ e1.at \in 0 .. e2.used /\ e2.at \in 0 .. e2.used /\ 0 \in Int
    BY <1>4, <2>2, <2>3, <2>5 DEF Assembles, Inst, PlainOps
  <2>7. /\ Linear(e3, g) /\ e3.used = e2.used + 1 /\ e3.at = e2.used + 1
        /\ \A R : Holds(R, e3.code) =>
              /\ Holds(R, e2.code)
              /\ R[e2.used + 1] = Effect(Inst(OnRegs[op], e2.used + 1, e1.at, e2.at, 0),
                                         Content(R, e1.at), Content(R, e2.at))
              /\ Small(R, e2.code) /\ R[e2.used + 1] \in RegRange => Small(R, e3.code)
    BY <2>2, <2>6, EmitLinear
  <2> HIDE DEF e3
  <2>8. ASSUME NEW R, Holds(R, e3.code)
        PROVE  /\ Holds(R, e.code) /\ R[e3.at] = PlanValue(R, op, p)
               /\ Small(R, e.code) /\ PlanValue(R, op, p) \in RegRange => Small(R, e3.code)
    <3>1. Content(R, e1.at) = Held(R, p.src1) /\ Content(R, e2.at) = Held(R, o)
      BY <1>3, <2>2, <2>7, <2>8
    <3>2. R[e3.at] = Effect(Inst(OnRegs[op], e2.used + 1, e1.at, e2.at, 0), Held(R, p.src1), Held(R, o))
      BY <2>7, <2>8, <3>1
    <3>3. ASSUME NEW d, NEW a, NEW b, NEW x, NEW y
          PROVE  Effect(Inst(OnRegs[op], d, a, b, 0), x, y) = OnRegsValue(op, x, y)
      BY Effects DEF OnRegs, OnRegsValue, IntOps, Relations, Equalities, Arithmetics
    <3>4. R[e3.at] = PlanValue(R, op, p)
      BY <1>5, <2>1, <3>2, <3>3 DEF PlanValue
    <3>5. Holds(R, e.code) /\ (Small(R, e.code) => Small(R, e2.code))
      BY <1>3, <2>2, <2>7, <2>8
    <3> QED
      BY <2>7, <2>8, <3>4, <3>5
  <2> QED
    BY <1>1, <1>3, <1>4, <2>2, <2>3, <2>4, <2>7, <2>8
<1>6. CASE p.src2 = <<>> /\ op \in Relations /\ InRange(p.imm)
  <2> DEFINE e2 == Emit(e1, "slti", e1.at, 0, p.imm)
  <2>1. EmitPlan(e, op, p) = e2
    BY <1>6 DEF EmitPlan, e1
  <2>2. /\ Assembles(Inst("slti", 0, e1.at, 0, p.imm)) /\ "slti" \in ImmOps \union PlainOps
        /\ 0 \in 0 .. e1.used
    <3>1. FitsImm(p.imm)
      BY <1>2, <1>6, Widths2 DEF FitsImm, InRange
    <3> QED
      BY <1>4, <3>1 DEF Assembles, Inst, ImmOps
  <2>3. /\ Linear(e2, g) /\ e2.used = e1.used + 1 /\ e2.at = e1.used + 1
        /\ \A R : Holds(R, e2.code) =>
              /\ Holds(R, e1.code)
              /\ R[e1.used + 1] = Effect(Inst("slti", e1.used + 1, e1.at, 0, p.imm),
                                         Content(R, e1.at), Content(R, 0))
              /\ Small(R, e1.code) /\ R[e1.used + 1] \in RegRange => Small(R, e2.code)
    <3>1. Linear(e1, g) /\ e1.at \in 0 .. e1.used /\ p.imm \in Int
      BY <1>2, <1>3, <1>4
    <3> QED
      BY <2>2, <3>1, EmitLinear
  <2> HIDE DEF e2
  <2>4. ASSUME NEW R, Holds(R, e2.code)
        PROVE  /\ Holds(R, e.code) /\ R[e2.at] = PlanValue(R, op, p)
               /\ Small(R, e.code) => Small(R, e2.code)
    <3>1. R[e2.at] = Effect(Inst("slti", e1.used + 1, e1.at, 0, p.imm), Content(R, e1.at), Content(R, 0))
      BY <2>3, <2>4
    <3>2. R[e2.at] = Truth(Content(R, e1.at) < p.imm)
      BY <3>1, Effects
    <3>3. Content(R, e1.at) = Held(R, p.src1)
      BY <1>3, <2>3, <2>4
    <3>4. PlanValue(R, op, p) = Truth(Held(R, p.src1) < p.imm)
      BY <1>6 DEF PlanValue, OnImmValue
    <3>5. R[e2.at] \in RegRange
      BY <3>2, Ranges
    <3> QED
      BY <1>3, <2>3, <2>4, <3>2, <3>3, <3>4, <3>5
  <2> QED
    BY <1>1, <1>2, <1>3, <1>4, <1>6, <2>1, <2>3, <2>4
<1>7. CASE p.src2 = <<>> /\ op \in Relations /\ ~InRange(p.imm)
  <2> DEFINE e2 == Emit(e1, "li", 0, 0, p.imm)
             e3 == Emit(e2, "slt", e1.at, e2.at, 0)
  <2>1. EmitPlan(e, op, p) = e3
    BY <1>7 DEF EmitPlan, LoadConstInt, e1
  <2>2. /\ Assembles(Inst("li", 0, 0, 0, p.imm)) /\ "li" \in ImmOps \union PlainOps
        /\ 0 \in 0 .. e1.used
    BY <1>2, <1>4 DEF Assembles, Inst, ImmOps
  <2>3. /\ Linear(e2, g) /\ e2.used = e1.used + 1 /\ e2.at = e1.used + 1
        /\ \A R : Holds(R, e2.code) =>
              /\ Holds(R, e1.code)
              /\ R[e1.used + 1] = Effect(Inst("li", e1.used + 1, 0, 0, p.imm), Content(R, 0), Content(R, 0))
              /\ Small(R, e1.code) /\ R[e1.used + 1] \in RegRange => Small(R, e2.code)
    <3>1. Linear(e1, g) /\ p.imm \in Int
      BY <1>2, <1>3
    <3> QED
      BY <2>2, <3>1, EmitLinear
  <2> HIDE DEF e2
  <2>4. /\ Assembles(Inst("slt", 0, e1.at, e2.at, 0)) /\ "slt" \in ImmOps \union PlainOps
        /\ e1.at \in 0 .. e2.used /\ e2.at \in 0 .. e2.used /\ 0 \in Int
    BY <1>4, <2>3 DEF Assembles, Inst, PlainOps
  <2>5. /\ Linear(e3, g) /\ e3.used = e2.used + 1 /\ e3.at = e2.used + 1
        /\ \A R : Holds(R, e3.code) =>
              /\ Holds(R, e2.code)
              /\ R[e2.used + 1] = Effect(Inst("slt", e2.used + 1, e1.at, e2.at, 0),
                                         Content(R, e1.at), Content(R, e2.at))
              /\ Small(R, e2.code) /\ R[e2.used + 1] \in RegRange => Small(R, e3.code)
    <3>1. Linear(e2, g)
      BY <2>3
    <3> QED
      BY <2>4, <3>1, EmitLinear
  <2> HIDE DEF e3
  <2>6. ASSUME NEW R, Holds(R, e3.code)
        PROVE  /\ Holds(R, e.code) /\ R[e3.at] = PlanValue(R, op, p)
               /\ Small(R, e.code) => Small(R, e3.code)
    <3>1. Content(R, e2.at) = p.imm /\ R[e1.used + 1] = p.imm
      BY <1>4, <2>3, <2>5, <2>6, Effects, ContentAt
    <3> QED
      <4>1. R[e3.at] = Effect(Inst("slt", e2.used + 1, e1.at, e2.at, 0), Content(R, e1.at), Content(R, e2.at))
        BY <2>5, <2>6
      <4>2. R[e3.at] = Truth(Content(R, e1.at) < p.imm)
        BY <3>1, <4>1, Effects
      <4>3. Content(R, e1.at) = Held(R, p.src1)
        BY <1>3, <2>3, <2>5, <2>6
      <4>4. PlanValue(R, op, p) = Truth(Held(R, p.src1) < p.imm)
        BY <1>7 DEF PlanValue, OnImmValue
      <4>5. R[e3.at] \in RegRange /\ R[e1.used + 1] \in RegRange
        BY <1>2, <3>1, <4>2, Ranges
      <4> QED
        BY <1>3, <2>3, <2>5, <2>6, <4>2, <4>3, <4>4, <4>5
  <2> QED
    BY <1>1, <1>2, <1>3, <1>4, <1>7, <2>1, <2>3, <2>5, <2>6
<1>8. CASE p.src2 = <<>> /\ op \notin Relations
  <2> DEFINE e2 == ProcessImm(e1, e1.at, p.imm)
             e3 == Emit(e2, OnImm[op], e2.at, 0, ImmLeft(p.imm))
  <2>1. EmitPlan(e, op, p) = e3
    BY <1>8 DEF EmitPlan, e1
  <2>2. /\ Linear(e2, g) /\ e2.used \in e1.used .. e1.used + 2
        /\ \A R : Holds(R, e2.code) =>
              /\ Holds(R, e1.code)
              /\ Content(R, e1.at) \in Int =>
                   Content(R, e2.at) + ImmLeft(p.imm) = Content(R, e1.at) + Reached(p.imm)
              /\ Content(R, e1.at) \in Moderate /\ Small(R, e1.code) => Small(R, e2.code)
    <3>1. p.imm \in Ints /\ e1.at \in 0 .. e1.used /\ Linear(e1, g)
      BY <1>2, <1>3, <1>4
    <3> QED
      BY <3>1, ProcessImmValue
  <2>3. e2.at \in 0 .. e2.used /\ e2.used \in Nat
    BY <1>4, <2>2 DEF Linear
  <2> HIDE DEF e2
  <2>4. OnImm[op] = IF op \in Equalities THEN "addi" ELSE "addiw"
    BY <1>2, <1>8 DEF Equalities, OnImm
  <2>5. /\ Assembles(Inst(OnImm[op], 0, e2.at, 0, ImmLeft(p.imm)))
        /\ OnImm[op] \in ImmOps \union PlainOps
        /\ 0 \in 0 .. e2.used /\ ImmLeft(p.imm) \in Int
    BY <1>2, <2>3, <2>4, ImmLeftFits DEF Assembles, Inst, ImmOps
  <2>6. /\ Linear(e3, g) /\ e3.used = e2.used + 1 /\ e3.at = e2.used + 1
        /\ \A R : Holds(R, e3.code) =>
              /\ Holds(R, e2.code)
              /\ R[e2.used + 1] = Effect(Inst(OnImm[op], e2.used + 1, e2.at, 0, ImmLeft(p.imm)),
                                         Content(R, e2.at), Content(R, 0))
              /\ Small(R, e2.code) /\ R[e2.used + 1] \in RegRange => Small(R, e3.code)
    <3>1. Linear(e2, g) /\ e2.at \in 0 .. e2.used
      BY <2>2, <2>3
    <3> QED
      BY <2>5, <3>1, EmitLinear
  <2> HIDE DEF e3
  <2>7. ASSUME NEW R, Holds(R, e3.code), Held(R, p.src1) \in Int
        PROVE  /\ Holds(R, e.code) /\ R[e3.at] = PlanValue(R, op, p)
               /\ (Small(R, e.code) /\ Held(R, p.src1) \in Ints /\ PlanValue(R, op, p) \in RegRange)
                    => Small(R, e3.code)
    <3> DEFINE x == Content(R, e2.at)
    <3>1. R[e3.at] = IF op \in Equalities THEN x + ImmLeft(p.imm) ELSE ToInt(x + ImmLeft(p.imm))
      BY <2>4, <2>6, <2>7, Effects
    <3>2. x + ImmLeft(p.imm) = Held(R, p.src1) + Reached(p.imm)
      <4>1. Holds(R, e2.code)
        BY <2>6, <2>7
      <4>2. Content(R, e1.at) = Held(R, p.src1)
        BY <1>3, <2>2, <4>1
      <4> QED
        BY <2>2, <2>7, <4>1, <4>2
    <3>3. R[e3.at] = PlanValue(R, op, p)
      BY <1>8, <3>1, <3>2 DEF PlanValue, OnImmValue
    <3>4. /\ Holds(R, e.code) /\ Holds(R, e1.code) /\ Content(R, e1.at) = Held(R, p.src1)
          /\ Small(R, e.code) => Small(R, e1.code)
      BY <1>3, <2>2, <2>6, <2>7
    <3>5. Held(R, p.src1) \in Ints => Held(R, p.src1) \in Moderate
      BY Ranges
    <3> QED
      BY <2>2, <2>6, <2>7, <3>3, <3>4, <3>5
  <2> QED
    BY <1>1, <1>2, <1>3, <1>4, <1>8, <2>1, <2>2, <2>3, <2>6, <2>7
<1> QED
  BY <1>5, <1>6, <1>7, <1>8

-----------------------------------------------------------------------------
(* What an operator computes *)

\* The value of a plan with its end, seqz, snez or xori.
Finished(op, p, v) ==
    IF p.revert THEN (IF v % 2 = 0 THEN v + 1 ELSE v - 1)
    ELSE IF op = "EQ" THEN Truth(v = 0)
    ELSE IF op = "NE" THEN Truth(v # 0)
    ELSE v

\* The operands of a plan are those of the operator, in some order.
LEMMA PlanOperands ==
  ASSUME NEW op \in IntOps, NEW l \in Loadable, NEW r \in Loadable, ~(l.const /\ r.const)
  PROVE  /\ Plan(op, l, r).src1 \in {l, r} \/ Plan(op, l, r).src1.const
         /\ Plan(op, l, r).src2 # <<>> =>
              Plan(op, l, r).src2[1] \in {l, r} \/ Plan(op, l, r).src2[1].const
<1> USE DEF IntOps, Relations, Equalities, Arithmetics
<1>1. l.const \in BOOLEAN /\ r.const \in BOOLEAN
  BY DEF Loadable, Operands
<1>2. \A a, b : /\ Two(a, b).src1 = a /\ Two(a, b).src2 = <<b>> /\ Two(a, b).src2[1] = b
                /\ Reverted(Two(a, b)).src1 = a /\ Reverted(Two(a, b)).src2[1] = b
                /\ One(a, b).src1 = a /\ One(a, b).src2 = <<>>
  BY DEF Two, One, Reverted
<1>3. \A c : Const(c).const
  BY DEF Const
<1>4. CASE l.const
  BY <1>2, <1>3, <1>4 DEF Plan, PlanConstLeft
<1>5. CASE ~l.const /\ r.const
  BY <1>2, <1>3, <1>5 DEF Plan, PlanConstRight
<1>6. CASE ~l.const /\ ~r.const
  BY <1>2, <1>6 DEF Plan, PlanRegs
<1> QED
  BY <1>1, <1>4, <1>5, <1>6

\* The constants that plans are made with.
LEMMA Neighbours ==
  ASSUME NEW c \in Ints
  PROVE  /\ ToInt(-c) = (IF c = IntMin THEN IntMin ELSE -c)
         /\ ToInt(c + 1) = (IF c = IntMax THEN IntMin ELSE c + 1)
         /\ ToInt(c - 1) = (IF c = IntMin THEN IntMax ELSE c - 1)
<1>1. /\ c \in Int /\ IntMin <= c /\ c <= IntMax
      /\ IntMin = -IntHalf /\ IntMax = IntHalf - 1 /\ IntHalf \in Nat /\ IntHalf > 0
  BY Widths2 DEF Ints, IntMin, IntMax
<1>2. c # IntMin => -c \in Ints /\ c - 1 \in Ints
  BY <1>1 DEF Ints
<1>3. c # IntMax => c + 1 \in Ints
  BY <1>1 DEF Ints
<1>4. c = IntMin => -c = IntMax + 1
  BY <1>1
<1>5. CASE c = IntMin
  BY <1>3, <1>4, <1>5, ToIntFacts
<1>6. CASE c # IntMin
  BY <1>2, <1>3, <1>6, ToIntFacts
<1> QED
  BY <1>5, <1>6

\* A constant that lui and addi do not reach comes out wrapped.
LEMMA ReachedWraps ==
  ASSUME NEW x \in Int, NEW n \in Ints
  PROVE  ToInt(x + Reached(n)) = ToInt(x + n)
<1>1. n \in Int /\ IntHalf \in Int
  BY IntsAreInt, Widths2
<1>2. CASE n >= IntHalf - ImmHalf
  <2>1. PICK v \in Int : v = x + (n - 2 * IntHalf)
    BY <1>1
  <2>2. ToInt(v + 2 * IntHalf) = ToInt(v)
    BY ToIntFacts, Zenon
  <2>3. v + 2 * IntHalf = x + n
    BY <1>1, <2>1
  <2> QED
    BY <1>2, <2>1, <2>2, <2>3 DEF Reached
<1>3. CASE ~(n >= IntHalf - ImmHalf)
  BY <1>3 DEF Reached
<1> QED
  BY <1>2, <1>3

\* Adding the negated constant is subtracting the constant.
LEMMA AddNegated ==
  ASSUME NEW x \in Int, NEW c \in Ints
  PROVE  ToInt(x + Reached(ToInt(-c))) = ToInt(x - c)
<1>1. /\ c \in Int /\ ToInt(-c) \in Ints
      /\ IntMin = -IntHalf /\ IntHalf \in Nat
  BY IntsAreInt, Widths2 DEF IntMin
<1>2. ToInt(x + Reached(ToInt(-c))) = ToInt(x + ToInt(-c))
  BY <1>1, ReachedWraps
<1>3. CASE c = IntMin
  <2>1. PICK v \in Int : v = x + IntMin
    BY <1>1
  <2>2. ToInt(v + 2 * IntHalf) = ToInt(v)
    BY ToIntFacts, Zenon
  <2>3. v + 2 * IntHalf = x - c
    BY <1>1, <1>3, <2>1
  <2> QED
    BY <1>2, <1>3, <2>1, <2>2, <2>3, Neighbours
<1>4. CASE c # IntMin
  <2>1. x + (-c) = x - c
    BY <1>1
  <2> QED
    BY <1>2, <1>4, <2>1, Neighbours
<1> QED
  BY <1>3, <1>4

\* Adding the negation of c gives 0 for c alone, unless lui and addi cannot
\* make that negation.
LEMMA EqualByAdding ==
  ASSUME NEW x \in Ints, NEW c \in Ints
  PROVE  x + Reached(ToInt(-c)) = 0 <=> x = c /\ c > IntMin + ImmHalf
<1>1. /\ c \in Int /\ IntMin <= c /\ c <= IntMax /\ x \in Int /\ IntMin <= x /\ x <= IntMax
      /\ IntMin = -IntHalf /\ IntMax = IntHalf - 1 /\ IntHalf \in Nat
      /\ ImmHalf \in Nat /\ ImmHalf > 0 /\ IntHalf > ImmHalf
  BY Widths2 DEF Ints, IntMin, IntMax
<1>2. ToInt(-c) = IF c = IntMin THEN IntMin ELSE -c
  BY Neighbours
<1> QED
  BY <1>1, <1>2 DEF Reached

\* A remainder is an int.
LEMMA RemainderIsInt ==
  ASSUME NEW x \in Ints, NEW y \in Ints, y # 0
  PROVE  Remainder(x, y) \in Ints /\ Quotient(x, y) \in Int
<1>1. /\ x \in Int /\ y \in Int /\ IntMin = -IntHalf /\ IntMax = IntHalf - 1 /\ IntHalf \in Nat
      /\ IntMin <= x /\ x <= IntMax /\ IntMin <= y /\ y <= IntMax
  BY Widths2 DEF Ints, IntMin, IntMax
<1> PICK a \in Nat, b \in Nat : a = Abs(x) /\ b = Abs(y) /\ b > 0 /\ b <= IntHalf
  BY <1>1 DEF Abs
<1> PICK q \in Int : q = a \div b
  BY DivMod
<1> PICK m \in 0 .. b - 1 : m = a % b
  BY DivMod
<1>2. a = b * q + m
  <2>1. a \in Int /\ b \in Nat /\ b > 0
    OBVIOUS
  <2>2. a = b * (a \div b) + (a % b)
    BY <2>1, DivMod
  <2> QED
    BY <2>2
<1>3. Remainder(x, y) = IF x < 0 THEN -m ELSE m
  <2>1. Quotient(x, y) = IF (x < 0) = (y < 0) THEN q ELSE -q
    BY DEF Quotient
  <2>2. PICK t \in Int : t = b * q
    OBVIOUS
  <2>3. \A u, v \in Int : (-u) * v = -(u * v) /\ u * (-v) = -(u * v) /\ (-u) * (-v) = u * v
    OBVIOUS
  <2>4. y = (IF y < 0 THEN -b ELSE b) /\ x = (IF x < 0 THEN -a ELSE a)
    BY <1>1 DEF Abs
  <2>5. y * q = (IF y < 0 THEN -t ELSE t) /\ y * (-q) = (IF y < 0 THEN t ELSE -t)
    <3>1. CASE y < 0
      <4>1. y * q = -(b * q) /\ y * (-q) = b * q
        BY <2>3, <2>4, <3>1
      <4> QED
        BY <2>2, <3>1, <4>1
    <3>2. CASE ~(y < 0)
      <4>1. y * q = b * q /\ y * (-q) = -(b * q)
        BY <2>3, <2>4, <3>2
      <4> QED
        BY <2>2, <3>2, <4>1
    <3> QED
      BY <3>1, <3>2
  <2>6. y * Quotient(x, y) = IF x < 0 THEN -t ELSE t
    BY <1>1, <2>1, <2>5
  <2>7. a = t + m
    BY <1>2, <2>2
  <2> QED
    BY <1>1, <2>4, <2>6, <2>7 DEF Remainder
<1>4. Quotient(x, y) \in Int
  BY DEF Quotient
<1> QED
  BY <1>1, <1>3, <1>4 DEF Ints

\* What a plan of ints computes is not much larger than an int.
LEMMA PlanSmall ==
  ASSUME NEW R, NEW op \in IntOps, NEW l \in Loadable, NEW r \in Loadable, ~(l.const /\ r.const),
         Held(R, l) \in Ints, Held(R, r) \in Ints, op \in {"DIV", "MOD"} => Held(R, r) # 0
  PROVE  /\ Held(R, Plan(op, l, r).src1) \in Ints
         /\ PlanValue(R, op, Plan(op, l, r)) \in -(4 * IntHalf) .. 4 * IntHalf
<1> DEFINE p == Plan(op, l, r)
<1>1. /\ p \in Plans(op)
      /\ p.src1 \in {l, r} \/ p.src1.const
      /\ p.src2 # <<>> => p.src2[1] \in {l, r} \/ p.src2[1].const
  BY PlanAssembles, PlanOperands
<1>2. op \in {"DIV", "MOD"} => p.src2 # <<>> /\ Held(R, p.src2[1]) = Held(R, r)
  <2>1. /\ \A a, b : Two(a, b).src2 = <<b>> /\ Two(a, b).src2[1] = b
        /\ \A c : Held(R, Const(c)) = c
    BY DEF Two, Held, Const
  <2>2. l.const \in BOOLEAN /\ r.const \in BOOLEAN
    BY DEF Loadable, Operands
  <2>3. <<r>> # <<>> /\ <<Const(r.n)>> # <<>>
    OBVIOUS
  <2>4. op \in {"DIV", "MOD"} =>
          p = IF l.const THEN Two(Const(l.n), r) ELSE IF r.const THEN Two(l, Const(r.n)) ELSE Two(l, r)
    <3>1. op = "DIV" => /\ PlanConstLeft(op, l.n, r) = Two(Const(l.n), r)
                        /\ PlanConstRight(op, l, r.n) = Two(l, Const(r.n))
                        /\ PlanRegs(op, l, r) = Two(l, r)
      BY DEF PlanConstLeft, PlanConstRight, PlanRegs, Equalities
    <3>2. op = "MOD" => /\ PlanConstLeft(op, l.n, r) = Two(Const(l.n), r)
                        /\ PlanConstRight(op, l, r.n) = Two(l, Const(r.n))
                        /\ PlanRegs(op, l, r) = Two(l, r)
      BY DEF PlanConstLeft, PlanConstRight, PlanRegs, Equalities
    <3> QED
      BY <3>1, <3>2 DEF Plan
  <2>5. r.const => Held(R, r) = r.n
    BY DEF Held
  <2> HIDE DEF p
  <2> QED
    BY <2>1, <2>2, <2>3, <2>4, <2>5
<1> HIDE DEF p
<1>3. /\ p.src1 \in Loadable /\ p.imm \in Ints
      /\ p.src2 # <<>> => p.src2[1] \in Loadable
  <2>1. p.src2 # <<>> => \E o \in Loadable : p.src2 = <<o>>
    BY <1>1 DEF Plans
  <2>2. \A o \in Loadable : <<o>>[1] = o
    OBVIOUS
  <2> QED
    BY <1>1, <2>1, <2>2 DEF Plans
<1>4. \A o \in Loadable : o.const => Held(R, o) \in Ints
  BY DEF Held, Loadable
<1>5. /\ Held(R, p.src1) \in Ints
      /\ p.src2 # <<>> => Held(R, p.src2[1]) \in Ints
  BY <1>1, <1>3, <1>4
<1>6. ASSUME NEW x \in Ints, NEW y \in Ints, op \in {"DIV", "MOD"} => y # 0
      PROVE  OnRegsValue(op, x, y) \in Ints
  <2>1. x \in Int /\ y \in Int
    BY IntsAreInt
  <2>2. x + y \in Int /\ x - y \in Int /\ x * y \in Int
    BY <2>1
  <2>3. op \in {"DIV", "MOD"} => Quotient(x, y) \in Int /\ Remainder(x, y) \in Int
    BY <1>6, RemainderIsInt, IntsAreInt
  <2>4. op \in Relations \union Equalities => OnRegsValue(op, x, y) \in Ints
    BY Ranges DEF OnRegsValue
  <2>5. op \in {"ADD", "SUB", "MUL", "DIV", "MOD"} => OnRegsValue(op, x, y) \in Ints
    BY <2>2, <2>3, IntsAreInt DEF OnRegsValue, Relations, Equalities
  <2> QED
    BY <2>4, <2>5 DEF IntOps, Arithmetics
<1>7. ASSUME NEW x \in Ints, NEW n \in Ints
      PROVE  /\ op \in Relations => OnImmValue(op, x, n) \in Ints
             /\ OnImmValue(op, x, n) \in Ints \/ OnImmValue(op, x, n) = x + Reached(n)
  <2>1. x \in Int /\ Reached(n) \in Int
    BY IntsAreInt, Sizes DEF Reached
  <2> QED
    BY <2>1, Ranges, IntsAreInt DEF OnImmValue
<1>8. \A x \in Ints, n \in Ints : x + Reached(n) \in -(4 * IntHalf) .. 4 * IntHalf
  BY Sizes, Widths2 DEF Reached
<1>9. Ints \subseteq -(4 * IntHalf) .. 4 * IntHalf
  BY Sizes
<1>10. CASE p.src2 # <<>>
  <2>1. PlanValue(R, op, p) = OnRegsValue(op, Held(R, p.src1), Held(R, p.src2[1]))
    BY <1>10 DEF PlanValue
  <2> QED
    BY <1>2, <1>5, <1>6, <1>9, <1>10, <2>1 DEF p
<1>11. CASE p.src2 = <<>>
  <2>1. PlanValue(R, op, p) = OnImmValue(op, Held(R, p.src1), p.imm)
    BY <1>11 DEF PlanValue
  <2> QED
    BY <1>3, <1>5, <1>7, <1>8, <1>9, <2>1 DEF p
<1> QED
  BY <1>10, <1>11

\* The code of an operator on ints leaves the value of its plan.
LEMMA IntBinaryValue ==
  ASSUME NEW g \in Nat, NEW e, Linear(e, g), NEW op \in IntOps,
         NEW l \in Loadable, NEW r \in Loadable, ~(l.const /\ r.const),
         l.const \/ l.n \in 1 .. g, r.const \/ r.n \in 1 .. g
  PROVE  /\ Linear(EmitIntBinary(e, op, l, r), g)
         /\ EmitIntBinary(e, op, l, r).used \in e.used + 1 .. e.used + 4
         /\ EmitIntBinary(e, op, l, r).at = EmitIntBinary(e, op, l, r).used
         /\ \A R : /\ Holds(R, EmitIntBinary(e, op, l, r).code)
                   /\ Held(R, l) \in Ints /\ Held(R, r) \in Ints
                   /\ op \in {"DIV", "MOD"} => Held(R, r) # 0
              => /\ R[EmitIntBinary(e, op, l, r).at]
                      = Finished(op, Plan(op, l, r), PlanValue(R, op, Plan(op, l, r)))
                 /\ Holds(R, e.code)
                 /\ Small(R, e.code) => Small(R, EmitIntBinary(e, op, l, r).code)
<1> DEFINE p == Plan(op, l, r)
           e1 == EmitPlan(e, op, p)
<1>1. /\ p \in Plans(op) /\ Given(p, g) /\ p.revert \in BOOLEAN
      /\ \A R : /\ Held(R, l) \in Ints /\ Held(R, r) \in Ints
                /\ op \in {"DIV", "MOD"} => Held(R, r) # 0
           => /\ Held(R, p.src1) \in Ints /\ Held(R, p.src1) \in Int
              /\ PlanValue(R, op, p) \in -(4 * IntHalf) .. 4 * IntHalf
  <2>1. p \in Plans(op)
    BY PlanAssembles
  <2>2. /\ p.src1 \in {l, r} \/ p.src1.const
        /\ p.src2 # <<>> => p.src2[1] \in {l, r} \/ p.src2[1].const
    BY PlanOperands
  <2>5. ASSUME NEW R, Held(R, l) \in Ints, Held(R, r) \in Ints, op \in {"DIV", "MOD"} => Held(R, r) # 0
        PROVE  /\ Held(R, p.src1) \in Ints /\ Held(R, p.src1) \in Int
               /\ PlanValue(R, op, p) \in -(4 * IntHalf) .. 4 * IntHalf
    BY <2>5, PlanSmall, IntsAreInt
  <2> HIDE DEF p
  <2>3. p.src1 \in Loadable /\ p.revert \in BOOLEAN
    BY <2>1 DEF Plans
  <2>4. p.src1.const => p.src1.n \in Int
    BY <2>3 DEF Loadable, Operands
  <2> QED
    BY <2>1, <2>2, <2>3, <2>4, <2>5 DEF Given
<1> HIDE DEF p
<1>2. /\ Linear(e1, g) /\ e1.used \in e.used + 1 .. e.used + 3 /\ e1.at = e1.used
      /\ \A R : Holds(R, e1.code) /\ Held(R, p.src1) \in Int =>
              /\ Holds(R, e.code) /\ R[e1.at] = PlanValue(R, op, p)
              /\ (Small(R, e.code) /\ Held(R, p.src1) \in Ints /\ PlanValue(R, op, p) \in RegRange)
                   => Small(R, e1.code)
  BY <1>1, EmitPlanValue
<1>3. e.used \in Nat /\ e1.at \in 0 .. e1.used /\ e1.at > 0 /\ e1.used \in Nat
  BY <1>2 DEF Linear, Emissions
<1> HIDE DEF e1
<1> DEFINE fin == IF p.revert THEN "xori" ELSE IF op = "EQ" THEN "seqz" ELSE "snez"
           n   == IF p.revert THEN 1 ELSE 0
           e2  == Emit(e1, fin, e1.at, 0, n)
<1>4. EmitIntBinary(e, op, l, r) = IF p.revert \/ op \in {"EQ", "NE"} THEN e2 ELSE e1
  BY DEF EmitIntBinary, p, e1
<1>5. /\ Assembles(Inst(fin, 0, e1.at, 0, n)) /\ fin \in ImmOps \union PlainOps
      /\ 0 \in 0 .. e1.used /\ n \in Int
  BY <1>3, Widths2 DEF Assembles, Inst, FitsImm, ImmOps, PlainOps
<1> HIDE DEF fin, n
<1>6. /\ Linear(e2, g) /\ e2.used = e1.used + 1 /\ e2.at = e1.used + 1
      /\ \A R : Holds(R, e2.code) =>
            /\ Holds(R, e1.code)
            /\ R[e1.used + 1] = Effect(Inst(fin, e1.used + 1, e1.at, 0, n), Content(R, e1.at), Content(R, 0))
            /\ Small(R, e1.code) /\ R[e1.used + 1] \in RegRange => Small(R, e2.code)
  <2>1. Linear(e1, g) /\ e1.at \in 0 .. e1.used
    BY <1>2, <1>3
  <2> QED
    BY <1>5, <2>1, EmitLinear
<1> HIDE DEF e2
<1> DEFINE Fit(R) == /\ Held(R, l) \in Ints /\ Held(R, r) \in Ints
                     /\ op \in {"DIV", "MOD"} => Held(R, r) # 0
<1>7. ASSUME NEW R, Holds(R, e1.code), Fit(R)
      PROVE  /\ R[e1.at] = PlanValue(R, op, p) /\ Holds(R, e.code)
             /\ Small(R, e.code) => Small(R, e1.code)
             /\ PlanValue(R, op, p) \in Int
             /\ Finished(op, p, PlanValue(R, op, p)) \in RegRange
  <2>1. /\ Held(R, p.src1) \in Ints /\ Held(R, p.src1) \in Int
        /\ PlanValue(R, op, p) \in -(4 * IntHalf) .. 4 * IntHalf
    BY <1>1, <1>7
  <2> PICK v \in -(4 * IntHalf) .. 4 * IntHalf : v = PlanValue(R, op, p)
    BY <2>1
  <2>2. /\ v \in Int /\ v + 1 \in Int /\ v - 1 \in Int
        /\ \A w \in {v, v + 1, v - 1} : -(8 * IntHalf) <= w /\ w <= 8 * IntHalf
    BY Sizes
  <2>3. v \in RegRange /\ v + 1 \in RegRange /\ v - 1 \in RegRange
    BY <2>2, Ranges
  <2>4. Finished(op, p, v) \in RegRange
    BY <2>3, Ranges DEF Finished
  <2> QED
    BY <1>2, <1>7, <2>1, <2>2, <2>3, <2>4
<1>8. ASSUME NEW R, Holds(R, e2.code), Fit(R), p.revert \/ op \in {"EQ", "NE"}
      PROVE  /\ R[e2.at] = Finished(op, p, PlanValue(R, op, p)) /\ Holds(R, e.code)
             /\ Small(R, e.code) => Small(R, e2.code)
  <2>1. Holds(R, e1.code)
    BY <1>6, <1>8
  <2>2. /\ R[e1.at] = PlanValue(R, op, p) /\ Holds(R, e.code)
        /\ Small(R, e.code) => Small(R, e1.code)
        /\ Finished(op, p, PlanValue(R, op, p)) \in RegRange
    BY <1>7, <1>8, <2>1
  <2>3. Content(R, e1.at) = PlanValue(R, op, p)
    BY <1>3, <2>2, ContentAt
  <2>4. R[e2.at] = Effect(Inst(fin, e1.used + 1, e1.at, 0, n), PlanValue(R, op, p), Content(R, 0))
    BY <1>6, <1>8, <2>3
  <2>5. R[e2.at] = Finished(op, p, PlanValue(R, op, p))
    BY <1>8, <2>4, Effects DEF Finished, fin, n
  <2> QED
    BY <1>6, <1>8, <2>2, <2>5
<1>9. CASE p.revert \/ op \in {"EQ", "NE"}
  <2>1. EmitIntBinary(e, op, l, r) = e2
    BY <1>4, <1>9
  <2>2. Linear(e2, g) /\ e2.used \in e.used + 1 .. e.used + 4 /\ e2.at = e2.used
    BY <1>2, <1>3, <1>6
  <2> QED
    BY <1>8, <1>9, <2>1, <2>2 DEF p
<1>10. CASE ~(p.revert \/ op \in {"EQ", "NE"})
  <2>1. EmitIntBinary(e, op, l, r) = e1
    BY <1>4, <1>10
  <2>2. \A v : Finished(op, p, v) = v
    BY <1>10 DEF Finished
  <2>3. Linear(e1, g) /\ e1.used \in e.used + 1 .. e.used + 4 /\ e1.at = e1.used
    BY <1>2, <1>3
  <2> QED
    BY <1>7, <2>1, <2>2, <2>3 DEF p
<1> QED
  BY <1>9, <1>10

\* The three kinds of plans, finished.
LEMMA PlansFinished ==
  ASSUME NEW R, NEW op \in IntOps, NEW a, NEW b, NEW n
  PROVE  /\ Finished(op, Two(a, b), PlanValue(R, op, Two(a, b)))
              = (IF op = "EQ" THEN Truth(Held(R, a) = Held(R, b))
                 ELSE IF op = "NE" THEN Truth(Held(R, a) # Held(R, b))
                 ELSE OnRegsValue(op, Held(R, a), Held(R, b)))
         /\ op \in Relations => Finished(op, Reverted(Two(a, b)), PlanValue(R, op, Reverted(Two(a, b))))
                                  = Truth(~(Held(R, a) < Held(R, b)))
         /\ Finished(op, One(a, n), PlanValue(R, op, One(a, n)))
              = (IF op = "EQ" THEN Truth(Held(R, a) + Reached(n) = 0)
                 ELSE IF op = "NE" THEN Truth(Held(R, a) + Reached(n) # 0)
                 ELSE OnImmValue(op, Held(R, a), n))
<1> USE DEF Equalities, Relations
<1>1. /\ Two(a, b).src1 = a /\ Two(a, b).src2 # <<>> /\ Two(a, b).src2[1] = b
      /\ Two(a, b).revert = FALSE
      /\ Reverted(Two(a, b)).src1 = a /\ Reverted(Two(a, b)).src2 # <<>>
      /\ Reverted(Two(a, b)).src2[1] = b /\ Reverted(Two(a, b)).revert = TRUE
      /\ One(a, n).src1 = a /\ One(a, n).src2 = <<>> /\ One(a, n).imm = n /\ One(a, n).revert = FALSE
  BY DEF Two, One, Reverted
<1>2. /\ PlanValue(R, op, Two(a, b)) = OnRegsValue(op, Held(R, a), Held(R, b))
      /\ PlanValue(R, op, Reverted(Two(a, b))) = OnRegsValue(op, Held(R, a), Held(R, b))
      /\ PlanValue(R, op, One(a, n)) = OnImmValue(op, Held(R, a), n)
  BY <1>1 DEF PlanValue
<1>3. op \in Relations => Finished(op, Reverted(Two(a, b)), OnRegsValue(op, Held(R, a), Held(R, b)))
                            = Truth(~(Held(R, a) < Held(R, b)))
  BY <1>1 DEF Finished, OnRegsValue, Truth
<1>4. Finished(op, Two(a, b), OnRegsValue(op, Held(R, a), Held(R, b)))
        = (IF op = "EQ" THEN Truth(Held(R, a) = Held(R, b))
           ELSE IF op = "NE" THEN Truth(Held(R, a) # Held(R, b))
           ELSE OnRegsValue(op, Held(R, a), Held(R, b)))
  BY <1>1 DEF Finished, OnRegsValue, Truth
<1>5. Finished(op, One(a, n), OnImmValue(op, Held(R, a), n))
        = (IF op = "EQ" THEN Truth(Held(R, a) + Reached(n) = 0)
           ELSE IF op = "NE" THEN Truth(Held(R, a) + Reached(n) # 0)
           ELSE OnImmValue(op, Held(R, a), n))
  BY <1>1 DEF Finished, OnImmValue
<1> QED
  BY <1>2, <1>3, <1>4, <1>5

\* The operators on ints give ints.
LEMMA IntValues ==
  ASSUME NEW op \in IntOps, NEW x \in Int, NEW y \in Int
  PROVE  /\ op = "LT" => IntValue(op, x, y) = Truth(x < y)
         /\ op = "LE" => IntValue(op, x, y) = Truth(x <= y)
         /\ op = "GT" => IntValue(op, x, y) = Truth(y < x)
         /\ op = "GE" => IntValue(op, x, y) = Truth(y <= x)
         /\ op = "EQ" => IntValue(op, x, y) = Truth(x = y)
         /\ op = "NE" => IntValue(op, x, y) = Truth(x # y)
         /\ op = "ADD" => IntValue(op, x, y) = ToInt(x + y)
         /\ op = "SUB" => IntValue(op, x, y) = ToInt(x - y)
         /\ op = "MUL" => IntValue(op, x, y) = ToInt(x * y)
         /\ op = "DIV" => IntValue(op, x, y) = ToInt(Quotient(x, y))
         /\ op = "MOD" => IntValue(op, x, y) = Remainder(x, y)
<1> QED
  BY DEF IntValue, Compare, IntOps, Relations, Equalities, Arithmetics, Truth

\* Arithmetic instructions on two registers give what the operator gives.
LEMMA ArithmeticOnRegs ==
  ASSUME NEW op \in {"ADD", "SUB", "MUL", "DIV", "MOD"}, NEW x \in Ints, NEW y \in Ints,
         op = "MOD" => y # 0
  PROVE  OnRegsValue(op, x, y) = IntValue(op, x, y)
<1>1. x \in Int /\ y \in Int /\ op \in IntOps /\ op \notin Relations /\ op \notin Equalities
  BY IntsAreInt DEF IntOps, Relations, Equalities, Arithmetics
<1>2. CASE op = "MOD"
  <2>1. ToInt(Remainder(x, y)) = Remainder(x, y)
    BY <1>2, RemainderIsInt, ToIntFacts
  <2>2. IntValue(op, x, y) = Remainder(x, y)
    BY <1>1, <1>2, IntValues
  <2> QED
    BY <1>1, <1>2, <2>1, <2>2 DEF OnRegsValue
<1>3. CASE op = "DIV"
  BY <1>1, <1>3, IntValues DEF OnRegsValue
<1>4. CASE op = "MUL"
  BY <1>1, <1>4, IntValues DEF OnRegsValue
<1>5. CASE op = "SUB"
  BY <1>1, <1>5, IntValues DEF OnRegsValue
<1>6. CASE op = "ADD"
  BY <1>1, <1>6, IntValues DEF OnRegsValue
<1> QED
  BY <1>2, <1>3, <1>4, <1>5, <1>6

\* With a constant on the left, the plan gives what the operator gives, but past the end.
LEMMA ConstLeftRight ==
  ASSUME NEW op \in IntOps, NEW c \in Ints, NEW r \in Loadable, ~r.const, NEW R,
         NEW y \in Ints, y = Held(R, r), op \in {"DIV", "MOD"} => y # 0
  PROVE  Finished(op, PlanConstLeft(op, c, r), PlanValue(R, op, PlanConstLeft(op, c, r)))
           = IntValue(op, c, y)
         <=> ~(\/ op = "LE" /\ c = IntMin
               \/ op = "GE" /\ c = IntMax
               \/ op \in Equalities /\ c = y /\ c <= IntMin + ImmHalf)
<1> USE DEF IntOps, Relations, Equalities, Arithmetics
<1> DEFINE v == Finished(op, PlanConstLeft(op, c, r), PlanValue(R, op, PlanConstLeft(op, c, r)))
<1>1. /\ c \in Int /\ IntMin <= c /\ c <= IntMax /\ y \in Int /\ IntMin <= y /\ y <= IntMax
      /\ IntMin = -IntHalf /\ IntMax = IntHalf - 1 /\ IntHalf \in Nat /\ IntHalf > 0
      /\ ImmHalf \in Nat
  BY Widths2 DEF Ints, IntMin, IntMax
<1>2. \A k : Held(R, Const(k)) = k
  BY DEF Held, Const
<1>3. CASE op = "LT"
  <2>1. v = Truth(c < y)
    BY <1>2, <1>3, PlansFinished DEF PlanConstLeft, OnRegsValue
  <2>2. IntValue(op, c, y) = Truth(c < y)
    BY <1>1, <1>3, IntValues
  <2> QED
    BY <1>3, <2>1, <2>2
<1>4. CASE op = "LE"
  <2>1. v = Truth(ToInt(c - 1) < y)
    BY <1>2, <1>4, PlansFinished DEF PlanConstLeft, OnRegsValue
  <2>2. IntValue(op, c, y) = Truth(c <= y)
    BY <1>1, <1>4, IntValues
  <2>3. (ToInt(c - 1) < y <=> c <= y) <=> c # IntMin
    BY <1>1, Neighbours
  <2> QED
    BY <1>1, <1>4, <2>1, <2>2, <2>3 DEF Truth
<1>5. CASE op = "GT"
  <2>1. v = Truth(y < c)
    BY <1>2, <1>5, PlansFinished DEF PlanConstLeft, OnImmValue
  <2>2. IntValue(op, c, y) = Truth(y < c)
    BY <1>1, <1>5, IntValues
  <2> QED
    BY <1>5, <2>1, <2>2
<1>6. CASE op = "GE"
  <2>1. v = Truth(y < ToInt(c + 1))
    BY <1>2, <1>6, PlansFinished DEF PlanConstLeft, OnImmValue
  <2>2. IntValue(op, c, y) = Truth(y <= c)
    BY <1>1, <1>6, IntValues
  <2>3. (y < ToInt(c + 1) <=> y <= c) <=> c # IntMax
    BY <1>1, Neighbours
  <2> QED
    BY <1>1, <1>6, <2>1, <2>2, <2>3 DEF Truth
<1>7. CASE op \in Equalities
  <2>1. v = IF op = "EQ" THEN Truth(y + Reached(ToInt(-c)) = 0)
                         ELSE Truth(y + Reached(ToInt(-c)) # 0)
    BY <1>2, <1>7, PlansFinished DEF PlanConstLeft
  <2>2. IntValue(op, c, y) = (IF op = "EQ" THEN Truth(c = y) ELSE Truth(c # y))
    <3>1. CASE op = "EQ"
      BY <1>1, <3>1, IntValues
    <3>2. CASE op = "NE"
      BY <1>1, <3>2, IntValues
    <3> QED
      BY <1>7, <3>1, <3>2
  <2>3. y + Reached(ToInt(-c)) = 0 <=> y = c /\ c > IntMin + ImmHalf
    BY EqualByAdding
  <2> QED
    BY <1>1, <1>7, <2>1, <2>2, <2>3 DEF Truth
<1>8. CASE op = "ADD"
  <2>1. v = ToInt(y + Reached(c))
    BY <1>2, <1>8, PlansFinished DEF PlanConstLeft, OnImmValue
  <2>2. v = ToInt(y + c)
    BY <1>1, <2>1, ReachedWraps
  <2>3. y + c = c + y
    BY <1>1
  <2> QED
    BY <1>1, <1>8, <2>2, <2>3, IntValues
<1>9. CASE op \in {"SUB", "MUL", "DIV", "MOD"}
  <2>1. v = OnRegsValue(op, c, y)
    BY <1>2, <1>9, PlansFinished DEF PlanConstLeft
  <2>2. v = IntValue(op, c, y)
    BY <1>9, <2>1, ArithmeticOnRegs
  <2> QED
    BY <1>9, <2>2
<1> QED
  BY <1>3, <1>4, <1>5, <1>6, <1>7, <1>8, <1>9

\* With a constant on the right, the plan gives what the operator gives, but past the end.
LEMMA ConstRightRight ==
  ASSUME NEW op \in IntOps, NEW l \in Loadable, NEW c \in Ints, NEW R,
         NEW x \in Ints, x = Held(R, l), op \in {"DIV", "MOD"} => c # 0
  PROVE  Finished(op, PlanConstRight(op, l, c), PlanValue(R, op, PlanConstRight(op, l, c)))
           = IntValue(op, x, c)
         <=> ~(\/ op = "LE" /\ c = IntMax
               \/ op = "GE" /\ c = IntMin
               \/ op \in Equalities /\ x = c /\ x <= IntMin + ImmHalf)
<1> USE DEF IntOps, Relations, Equalities, Arithmetics
<1> DEFINE v == Finished(op, PlanConstRight(op, l, c), PlanValue(R, op, PlanConstRight(op, l, c)))
<1>1. /\ c \in Int /\ IntMin <= c /\ c <= IntMax /\ x \in Int /\ IntMin <= x /\ x <= IntMax
      /\ IntMin = -IntHalf /\ IntMax = IntHalf - 1 /\ IntHalf \in Nat /\ IntHalf > 0
      /\ ImmHalf \in Nat
  BY Widths2 DEF Ints, IntMin, IntMax
<1>2. \A k : Held(R, Const(k)) = k
  BY DEF Held, Const
<1>3. CASE op = "LT"
  <2>1. v = Truth(x < c)
    BY <1>2, <1>3, PlansFinished DEF PlanConstRight, OnImmValue
  <2>2. IntValue(op, x, c) = Truth(x < c)
    BY <1>1, <1>3, IntValues
  <2> QED
    BY <1>3, <2>1, <2>2
<1>4. CASE op = "LE"
  <2>1. v = Truth(x < ToInt(c + 1))
    BY <1>2, <1>4, PlansFinished DEF PlanConstRight, OnImmValue
  <2>2. IntValue(op, x, c) = Truth(x <= c)
    BY <1>1, <1>4, IntValues
  <2>3. (x < ToInt(c + 1) <=> x <= c) <=> c # IntMax
    BY <1>1, Neighbours
  <2> QED
    BY <1>1, <1>4, <2>1, <2>2, <2>3 DEF Truth
<1>5. CASE op = "GT"
  <2>1. v = Truth(c < x)
    <3>1. PlanConstRight(op, l, c) = Two(Const(c), l)
      BY <1>5 DEF PlanConstRight
    <3> QED
      BY <1>2, <1>5, <3>1, PlansFinished DEF OnRegsValue
  <2>2. IntValue(op, x, c) = Truth(c < x)
    BY <1>1, <1>5, IntValues
  <2> QED
    BY <1>5, <2>1, <2>2
<1>6. CASE op = "GE"
  <2>1. v = Truth(ToInt(c - 1) < x)
    BY <1>2, <1>6, PlansFinished DEF PlanConstRight, OnRegsValue
  <2>2. IntValue(op, x, c) = Truth(c <= x)
    BY <1>1, <1>6, IntValues
  <2>3. (ToInt(c - 1) < x <=> c <= x) <=> c # IntMin
    BY <1>1, Neighbours
  <2> QED
    BY <1>1, <1>6, <2>1, <2>2, <2>3 DEF Truth
<1>7. CASE op \in Equalities
  <2>1. v = IF op = "EQ" THEN Truth(x + Reached(ToInt(-c)) = 0)
                         ELSE Truth(x + Reached(ToInt(-c)) # 0)
    BY <1>2, <1>7, PlansFinished DEF PlanConstRight
  <2>2. IntValue(op, x, c) = (IF op = "EQ" THEN Truth(x = c) ELSE Truth(x # c))
    <3>1. CASE op = "EQ"
      BY <1>1, <3>1, IntValues
    <3>2. CASE op = "NE"
      BY <1>1, <3>2, IntValues
    <3> QED
      BY <1>7, <3>1, <3>2
  <2>3. x + Reached(ToInt(-c)) = 0 <=> x = c /\ c > IntMin + ImmHalf
    BY EqualByAdding
  <2> QED
    BY <1>1, <1>7, <2>1, <2>2, <2>3 DEF Truth
<1>8. CASE op = "ADD"
  <2>1. v = ToInt(x + Reached(c))
    BY <1>2, <1>8, PlansFinished DEF PlanConstRight, OnImmValue
  <2>2. v = ToInt(x + c)
    BY <1>1, <2>1, ReachedWraps
  <2>3. IntValue(op, x, c) = ToInt(x + c)
    BY <1>1, <1>8, IntValues
  <2> QED
    BY <1>8, <2>2, <2>3
<1>9. CASE op = "SUB"
  <2>1. v = ToInt(x + Reached(ToInt(-c)))
    BY <1>2, <1>9, PlansFinished DEF PlanConstRight, OnImmValue
  <2>2. v = ToInt(x - c)
    BY <1>1, <2>1, AddNegated
  <2>3. IntValue(op, x, c) = ToInt(x - c)
    BY <1>1, <1>9, IntValues
  <2> QED
    BY <1>9, <2>2, <2>3
<1>10. CASE op \in {"MUL", "DIV", "MOD"}
  <2>1. v = OnRegsValue(op, x, c)
    BY <1>2, <1>10, PlansFinished DEF PlanConstRight
  <2>2. v = IntValue(op, x, c)
    BY <1>10, <2>1, ArithmeticOnRegs
  <2> QED
    BY <1>10, <2>2
<1> QED
  BY <1>3, <1>4, <1>5, <1>6, <1>7, <1>8, <1>9, <1>10

\* With two registers, the plan gives what the operator gives.
LEMMA RegsRight ==
  ASSUME NEW op \in IntOps, NEW l \in Loadable, NEW r \in Loadable, NEW R,
         NEW x \in Ints, x = Held(R, l), NEW y \in Ints, y = Held(R, r),
         op \in {"DIV", "MOD"} => y # 0
  PROVE  Finished(op, PlanRegs(op, l, r), PlanValue(R, op, PlanRegs(op, l, r))) = IntValue(op, x, y)
<1> USE DEF IntOps, Relations, Equalities, Arithmetics
<1> DEFINE v == Finished(op, PlanRegs(op, l, r), PlanValue(R, op, PlanRegs(op, l, r)))
<1>1. x \in Int /\ y \in Int
  BY IntsAreInt
<1>2. CASE op = "LT"
  <2>1. v = Truth(x < y)
    BY <1>2, PlansFinished DEF PlanRegs, OnRegsValue
  <2> QED
    BY <1>1, <1>2, <2>1, IntValues
<1>3. CASE op = "LE"
  <2>1. v = Truth(~(y < x))
    BY <1>3, PlansFinished DEF PlanRegs
  <2>2. IntValue(op, x, y) = Truth(x <= y)
    BY <1>1, <1>3, IntValues
  <2> QED
    BY <1>1, <2>1, <2>2 DEF Truth
<1>4. CASE op = "GT"
  <2>1. v = Truth(y < x)
    BY <1>4, PlansFinished DEF PlanRegs, OnRegsValue
  <2>2. IntValue(op, x, y) = Truth(y < x)
    BY <1>1, <1>4, IntValues
  <2> QED
    BY <2>1, <2>2
<1>5. CASE op = "GE"
  <2>1. v = Truth(~(x < y))
    BY <1>5, PlansFinished DEF PlanRegs
  <2>2. IntValue(op, x, y) = Truth(y <= x)
    BY <1>1, <1>5, IntValues
  <2> QED
    BY <1>1, <2>1, <2>2 DEF Truth
<1>6. CASE op = "EQ"
  <2>1. v = Truth(x = y)
    BY <1>6, PlansFinished DEF PlanRegs
  <2>2. IntValue(op, x, y) = Truth(x = y)
    BY <1>1, <1>6, IntValues
  <2> QED
    BY <2>1, <2>2
<1>7. CASE op = "NE"
  <2>1. v = Truth(x # y)
    <3>1. PlanRegs(op, l, r) = Two(l, r)
      BY <1>7 DEF PlanRegs
    <3> QED
      BY <1>7, <3>1, PlansFinished
  <2>2. IntValue(op, x, y) = Truth(x # y)
    BY <1>1, <1>7, IntValues
  <2> QED
    BY <2>1, <2>2
<1>8. CASE op \in Arithmetics
  <2>1. v = OnRegsValue(op, x, y)
    BY <1>8, PlansFinished DEF PlanRegs
  <2> QED
    BY <1>8, <2>1, ArithmeticOnRegs
<1> QED
  BY <1>2, <1>3, <1>4, <1>5, <1>6, <1>7, <1>8

-----------------------------------------------------------------------------
(* Floats *)

\* The effects of the other instructions.
LEMMA OtherEffects ==
  ASSUME NEW d, NEW a, NEW b, NEW n, NEW x, NEW y
  PROVE  /\ Effect(Inst("la", d, a, b, n), x, y) = n
         /\ Effect(Inst("flw", d, a, b, n), x, y) = x
         /\ Effect(Inst("fadd.s", d, a, b, n), x, y) = FloatArith("ADD", x, y)
         /\ Effect(Inst("fsub.s", d, a, b, n), x, y) = FloatArith("SUB", x, y)
         /\ Effect(Inst("fmul.s", d, a, b, n), x, y) = FloatArith("MUL", x, y)
         /\ Effect(Inst("flt.s", d, a, b, n), x, y) = Truth(FloatLess(x, y))
         /\ Effect(Inst("fle.s", d, a, b, n), x, y) = Truth(FloatLess(x, y) \/ FloatEqual(x, y))
         /\ Effect(Inst("feq.s", d, a, b, n), x, y) = Truth(FloatEqual(x, y))
         /\ Effect(Inst("bne", d, a, b, n), x, y) = Truth(x # y)
         /\ Effect(Inst("beq", d, a, b, n), x, y) = Truth(x = y)
         /\ Effect(Inst("mul", d, a, b, n), x, y) = x * y
         /\ Effect(Inst("slli", d, a, b, n), x, y) = x * 2 ^ n
         /\ Effect(Inst("load", d, a, b, n), x, y) = Mem(x + n)
         /\ Effect(Inst("store", d, a, b, n), x, y) = x + n
<1> QED
  BY DEF Effect, Inst

\* EmitLinear for instructions that have no immediate.
LEMMA EmitPlainLinear ==
  ASSUME NEW g \in Nat, NEW e, Linear(e, g), NEW op \in PlainOps,
         NEW a \in 0 .. e.used, NEW b \in 0 .. e.used, NEW imm \in Int
  PROVE  /\ Linear(Emit(e, op, a, b, imm), g)
         /\ Emit(e, op, a, b, imm).used = e.used + 1
         /\ Emit(e, op, a, b, imm).at = e.used + 1
         /\ \A R : Holds(R, Emit(e, op, a, b, imm).code) =>
              /\ Holds(R, e.code)
              /\ R[e.used + 1] = Effect(Inst(op, e.used + 1, a, b, imm), Content(R, a), Content(R, b))
              /\ Small(R, e.code) /\ R[e.used + 1] \in RegRange => Small(R, Emit(e, op, a, b, imm).code)
<1>1. Assembles(Inst(op, 0, a, b, imm)) /\ op \in ImmOps \union PlainOps
  BY DEF Assembles, Inst, PlainOps
<1> QED
  BY <1>1, EmitLinear

\* The register of a float operand holds the operand.
LEMMA GetFloatRegValue ==
  ASSUME NEW g \in Nat, NEW e, Linear(e, g), NEW o \in Operands, o.const \/ o.n \in 1 .. e.used
  PROVE  /\ Linear(GetFloatReg(e, o), g)
         /\ GetFloatReg(e, o).used \in e.used .. e.used + 2
         /\ GetFloatReg(e, o).at \in 1 .. GetFloatReg(e, o).used
         /\ \A R : Holds(R, GetFloatReg(e, o).code) =>
              /\ Holds(R, e.code) /\ R[GetFloatReg(e, o).at] = Held(R, o)
              /\ Small(R, e.code) /\ Held(R, o) \in RegRange => Small(R, GetFloatReg(e, o).code)
<1>1. o.const \in BOOLEAN /\ o.n \in Int /\ e.used \in Nat
  BY DEF Linear, Emissions, Operands
<1>2. CASE o.const
  <2> DEFINE e1 == Emit(e, "la", 0, 0, o.n)
             e2 == Emit(e1, "flw", e1.at, 0, 0)
  <2>1. GetFloatReg(e, o) = e2
    BY <1>2 DEF GetFloatReg, LoadConstFloat
  <2>2. /\ Linear(e1, g) /\ e1.used = e.used + 1 /\ e1.at = e.used + 1
        /\ \A R : Holds(R, e1.code) =>
              /\ Holds(R, e.code)
              /\ R[e.used + 1] = Effect(Inst("la", e.used + 1, 0, 0, o.n), Content(R, 0), Content(R, 0))
              /\ Small(R, e.code) /\ R[e.used + 1] \in RegRange => Small(R, e1.code)
    <3>1. 0 \in 0 .. e.used /\ "la" \in PlainOps
      BY <1>1 DEF PlainOps
    <3> QED
      BY <1>1, <3>1, EmitPlainLinear
  <2> HIDE DEF e1
  <2>3. /\ Linear(e2, g) /\ e2.used = e1.used + 1 /\ e2.at = e1.used + 1
        /\ \A R : Holds(R, e2.code) =>
              /\ Holds(R, e1.code)
              /\ R[e1.used + 1] = Effect(Inst("flw", e1.used + 1, e1.at, 0, 0), Content(R, e1.at), Content(R, 0))
              /\ Small(R, e1.code) /\ R[e1.used + 1] \in RegRange => Small(R, e2.code)
    <3>1. e1.at \in 0 .. e1.used /\ 0 \in 0 .. e1.used /\ "flw" \in PlainOps /\ 0 \in Int
      BY <1>1, <2>2 DEF PlainOps
    <3> QED
      BY <2>2, <3>1, EmitPlainLinear
  <2> HIDE DEF e2
  <2>4. ASSUME NEW R, Holds(R, e2.code)
        PROVE  /\ Holds(R, e.code) /\ R[e2.at] = Held(R, o)
               /\ Small(R, e.code) /\ Held(R, o) \in RegRange => Small(R, e2.code)
    <3>1. R[e.used + 1] = o.n
      BY <2>2, <2>3, <2>4, OtherEffects
    <3>2. Content(R, e1.at) = o.n
      BY <1>1, <2>2, <3>1, ContentAt
    <3>3. R[e1.used + 1] = o.n
      BY <2>3, <2>4, <3>2, OtherEffects
    <3> QED
      BY <1>2, <2>2, <2>3, <2>4, <3>1, <3>3 DEF Held
  <2> QED
    BY <1>1, <2>1, <2>2, <2>3, <2>4
<1>3. CASE ~o.const
  <2> DEFINE e1 == [e EXCEPT !.at = o.n]
  <2>1. GetFloatReg(e, o) = e1
    BY <1>3 DEF GetFloatReg
  <2>2. e1.code = e.code /\ e1.used = e.used /\ e1.at = o.n /\ e1 \in Emissions
    BY <1>1 DEF Linear, Emissions
  <2> HIDE DEF e1
  <2>3. Linear(e1, g)
    BY <1>1, <1>3, <2>2 DEF Linear
  <2> QED
    BY <1>1, <1>3, <2>1, <2>2, <2>3 DEF Held
<1> QED
  BY <1>1, <1>2, <1>3

\* What a comparison or calculation leaves; that of != is that of ==.
Compared(op, x, y) ==
    IF op \in {"ADD", "SUB", "MUL"} THEN FloatArith(op, x, y)
    ELSE Truth(FloatHolds(IF op = "NE" THEN "EQ" ELSE op, x, y))

\* The instructions of a float operator give what the operator gives, also on a NaN.
LEMMA FloatOpValue ==
  ASSUME NEW g \in Nat, NEW e, Linear(e, g), NEW op \in DOMAIN FloatOp,
         NEW a \in 1 .. e.used, NEW b \in 1 .. e.used
  PROVE  /\ Linear(EmitFloatOp(e, op, a, b), g)
         /\ EmitFloatOp(e, op, a, b).used = e.used + 1 /\ EmitFloatOp(e, op, a, b).at = e.used + 1
         /\ \A R : Holds(R, EmitFloatOp(e, op, a, b).code) =>
              /\ Holds(R, e.code)
              /\ R[a] \in Int /\ R[b] \in Int => R[e.used + 1] = Compared(op, R[a], R[b])
              /\ Small(R, e.code) /\ R[e.used + 1] \in RegRange => Small(R, EmitFloatOp(e, op, a, b).code)
<1>1. e.used \in Nat /\ a \in Nat /\ b \in Nat /\ a > 0 /\ b > 0
  BY DEF Linear, Emissions
<1>2. op \in {"ADD", "SUB", "MUL", "LT", "LE", "GT", "GE", "EQ", "NE"} /\ FloatOp[op] \in PlainOps
  BY DEF FloatOp, PlainOps
<1> PICK x \in 1 .. e.used, y \in 1 .. e.used :
       IF op \in {"GT", "GE"} THEN x = b /\ y = a ELSE x = a /\ y = b
  OBVIOUS
<1> DEFINE e1 == Emit(e, FloatOp[op], x, y, 0)
<1>3. EmitFloatOp(e, op, a, b) = e1
  BY DEF EmitFloatOp
<1>4. /\ Linear(e1, g) /\ e1.used = e.used + 1 /\ e1.at = e.used + 1
      /\ \A R : Holds(R, e1.code) =>
            /\ Holds(R, e.code)
            /\ R[e.used + 1] = Effect(Inst(FloatOp[op], e.used + 1, x, y, 0), Content(R, x), Content(R, y))
            /\ Small(R, e.code) /\ R[e.used + 1] \in RegRange => Small(R, e1.code)
  BY <1>1, <1>2, EmitPlainLinear
<1> HIDE DEF e1
<1>5. ASSUME NEW R, Holds(R, e1.code), R[a] \in Int, R[b] \in Int
      PROVE  R[e.used + 1] = Compared(op, R[a], R[b])
  <2>1. R[e.used + 1] = Effect(Inst(FloatOp[op], e.used + 1, x, y, 0), R[x], R[y])
    BY <1>1, <1>4, <1>5, ContentAt
  <2>2. NaN \in Int
    BY Sizes DEF NaN
  <2> DEFINE v == R[e.used + 1]
  <2>3. CASE op \in {"ADD", "SUB", "MUL"}
    <3>1. x = a /\ y = b
      BY <2>3
    <3>2. v = FloatArith(op, R[a], R[b])
      BY <2>1, <2>3, <3>1, OtherEffects DEF FloatOp
    <3> QED
      BY <2>3, <3>2 DEF Compared
  <2>4. CASE op \in {"LT", "GT"}
    <3>1. v = Truth(FloatLess(R[x], R[y]))
      BY <2>1, <2>4, OtherEffects DEF FloatOp
    <3>2. Compared(op, R[a], R[b]) = Truth(FloatHolds(op, R[a], R[b]))
      BY <2>4 DEF Compared
    <3>3. FloatHolds(op, R[a], R[b]) <=> FloatLess(R[x], R[y])
      BY <1>5, <2>2, <2>4 DEF FloatHolds, FloatLess, Compare
    <3> QED
      BY <3>1, <3>2, <3>3 DEF Truth
  <2>5. CASE op \in {"LE", "GE"}
    <3>1. v = Truth(FloatLess(R[x], R[y]) \/ FloatEqual(R[x], R[y]))
      BY <2>1, <2>5, OtherEffects DEF FloatOp
    <3>2. Compared(op, R[a], R[b]) = Truth(FloatHolds(op, R[a], R[b]))
      BY <2>5 DEF Compared
    <3>3. FloatHolds(op, R[a], R[b]) <=> FloatLess(R[x], R[y]) \/ FloatEqual(R[x], R[y])
      <4>1. \A n, m \in Int : /\ FloatHolds("LE", n, m) <=> FloatLess(n, m) \/ FloatEqual(n, m)
                              /\ FloatHolds("GE", n, m) <=> FloatLess(m, n) \/ FloatEqual(m, n)
        BY <2>2 DEF FloatHolds, FloatLess, FloatEqual, Compare
      <4>2. CASE op = "LE"
        BY <1>5, <4>1, <4>2
      <4>3. CASE op = "GE"
        BY <1>5, <4>1, <4>3
      <4> QED
        BY <2>5, <4>2, <4>3
    <3> QED
      BY <3>1, <3>2, <3>3 DEF Truth
  <2>6. CASE op \in {"EQ", "NE"}
    <3>1. v = Truth(FloatEqual(R[x], R[y]))
      BY <2>1, <2>6, OtherEffects DEF FloatOp
    <3>2. Compared(op, R[a], R[b]) = Truth(FloatHolds("EQ", R[a], R[b]))
      BY <2>6 DEF Compared
    <3>3. FloatHolds("EQ", R[a], R[b]) <=> FloatEqual(R[x], R[y])
      BY <1>5, <2>2, <2>6 DEF FloatHolds, FloatEqual, Compare
    <3> QED
      BY <3>1, <3>2, <3>3 DEF Truth
  <2> QED
    BY <1>2, <2>3, <2>4, <2>5, <2>6
<1> QED
  BY <1>3, <1>4, <1>5

\* No result of floats is too large for a register.
LEMMA FloatSmall ==
  ASSUME NEW op \in DOMAIN FloatOp, NEW x \in Floats, NEW y \in Floats
  PROVE  /\ x \in Int /\ x \in RegRange /\ y \in Int /\ y \in RegRange
         /\ Compared(op, x, y) \in RegRange
<1> PICK h \in Nat : h = IntHalf
  BY Sizes
<1> PICK s \in Nat : s = h * h
  OBVIOUS
<1>1. /\ h >= 8 /\ RegRange = -(s + s) .. s + s /\ NaN = s + s /\ s >= 8 * h
  BY Sizes DEF RegRange, NaN
<1>2. \A z \in Floats : z = NaN \/ (z \in Int /\ -h <= z /\ z <= h)
  BY DEF Floats, Abs
<1>3. ASSUME NEW u \in -h .. h, NEW v \in -h .. h PROVE u * v \in -s .. s
  <2>1. (h - u) * (h + v) >= 0 /\ (h + u) * (h - v) >= 0
    <3>1. h - u >= 0 /\ h + v >= 0 /\ h + u >= 0 /\ h - v >= 0
          /\ h - u \in Int /\ h + v \in Int /\ h + u \in Int /\ h - v \in Int
      OBVIOUS
    <3>2. \A p, q \in Int : p >= 0 /\ q >= 0 => p * q >= 0
      OBVIOUS
    <3> QED
      BY <3>1, <3>2
  <2>2. (h - u) * (h - v) >= 0 /\ (h + u) * (h + v) >= 0
    <3>1. h - u >= 0 /\ h + v >= 0 /\ h + u >= 0 /\ h - v >= 0
          /\ h - u \in Int /\ h + v \in Int /\ h + u \in Int /\ h - v \in Int
      OBVIOUS
    <3>2. \A p, q \in Int : p >= 0 /\ q >= 0 => p * q >= 0
      OBVIOUS
    <3> QED
      BY <3>1, <3>2
  <2>3. /\ (h - u) * (h + v) = s + h * v - u * h - u * v
        /\ (h + u) * (h - v) = s - h * v + u * h - u * v
        /\ (h - u) * (h - v) = s - h * v - u * h + u * v
        /\ (h + u) * (h + v) = s + h * v + u * h + u * v
    OBVIOUS
  <2>4. \A a, b, m \in Int : /\ s + a - b - m >= 0 /\ s - a + b - m >= 0
                             /\ s - a - b + m >= 0 /\ s + a + b + m >= 0
                             => -s <= m /\ m <= s
    OBVIOUS
  <2>5. h * v \in Int /\ u * h \in Int /\ u * v \in Int
    OBVIOUS
  <2>6. -s <= u * v /\ u * v <= s
    BY <2>1, <2>2, <2>3, <2>4, <2>5
  <2> QED
    BY <2>5, <2>6
<1>4. ASSUME NEW u \in -h .. h, NEW v \in -h .. h
      PROVE  u + v \in RegRange /\ u - v \in RegRange /\ u * v \in RegRange
  <2>1. u * v \in -s .. s
    BY <1>3
  <2> QED
    BY <1>1, <2>1
<1>5. FloatArith(op, x, y) \in RegRange
  <2>1. CASE x = NaN \/ y = NaN
    BY <1>1, <2>1 DEF FloatArith
  <2>2. CASE x # NaN /\ y # NaN
    <3>1. x \in -h .. h /\ y \in -h .. h
      BY <1>2, <2>2
    <3> QED
      BY <1>4, <2>2, <3>1 DEF FloatArith
  <2> QED
    BY <2>1, <2>2
<1>6. /\ x \in Int /\ x \in RegRange /\ y \in Int /\ y \in RegRange
  BY <1>1, <1>2
<1> QED
  BY <1>5, <1>6, Ranges DEF Compared

-----------------------------------------------------------------------------
(* Jobs *)

\* R holds what the job gives.
Agrees(R, j) == \A k \in 1 .. Len(j.given) : R[k] = j.given[k]

\* The negation of != is the only instruction that writes a register again.
Turned(j) == j.kind = "float" /\ j.op = "NE"

\* What the job computes in registers.
FloatOperation(j) ==
    LET e1 == GetFloatReg(NoCode(Len(j.given)), j.l)
        e2 == GetFloatReg(e1, j.r)
    IN EmitFloatOp(e2, j.op, e1.at, e2.at)

\* The code of a job but for that negation.
Straight(j) == IF j.kind = "float" THEN FloatOperation(j) ELSE EmitJob(j)

\* The instruction that negates !=, which is the only one that reads what it writes.
Negation(k) == Inst("seqz", k, k, 0, 0)

\* What the job leaves when the code before the negation has run.
Result(R, j) == IF Turned(j) THEN Truth(R[EmitJob(j).at] = 0) ELSE R[EmitJob(j).at]

\* The code of a job is linear but for the negation, and no register overflows.
WellCoded(j) ==
    /\ Len(j.given) \in Nat /\ Linear(Straight(j), Len(j.given))
    /\ Straight(j).used <= MaxReg /\ Len(EmitJob(j).code) <= MaxReg
    /\ Straight(j).at \in 1 .. Straight(j).used /\ EmitJob(j).at = Straight(j).at
    /\ EmitJob(j).code = IF Turned(j) THEN Append(Straight(j).code, Negation(Straight(j).at))
                                      ELSE Straight(j).code
    /\ \A R : Agrees(R, j) /\ Holds(R, Straight(j).code) => Small(R, Straight(j).code)
    /\ \A k \in 1 .. Len(j.given) : j.given[k] \in RegRange

\* No code is linear.
LEMMA NothingCoded ==
  ASSUME NEW g \in Nat
  PROVE  /\ Linear(NoCode(g), g) /\ NoCode(g).used = g
         /\ \A R : Small(R, NoCode(g).code)
<1>1. /\ NoCode(g).code = <<>> /\ NoCode(g).used = g /\ NoCode(g).at = 0
      /\ NoCode(g) \in Emissions
  BY DEF NoCode, Emissions
<1> QED
  BY <1>1 DEF Linear, Small

\* An operand holds what the job says.
LEMMA HeldIsValue ==
  ASSUME NEW R, NEW j, Agrees(R, j), NEW o, IsOperand(j, o)
  PROVE  Held(R, o) = ValueIn(j, o)
<1> QED
  BY DEF Held, ValueIn, Agrees, IsOperand

\* The code of a job on floats is well coded and leaves what the operator gives.
LEMMA FloatCode ==
  ASSUME NEW j, FloatJob(j)
  PROVE  /\ WellCoded(j)
         /\ \A R : Agrees(R, j) /\ Holds(R, Straight(j).code) =>
              Result(R, j) = FloatValue(j.op, ValueIn(j, j.l), ValueIn(j, j.r))
<1> PICK g : g = Len(j.given)
  OBVIOUS
<1> PICK op : op = j.op
  OBVIOUS
<1>1. /\ j.kind \in {"float", "cond"} /\ op \in DOMAIN FloatOp
      /\ j.l \in Operands /\ j.r \in Operands /\ j.given \in Seq(Floats)
      /\ j.kind = "cond" => op \in Relations \union Equalities
      /\ IsOperand(j, j.l) /\ IsOperand(j, j.r)
      /\ ValueIn(j, j.l) \in Floats /\ ValueIn(j, j.r) \in Floats
      /\ g \in Nat /\ g + 7 <= MaxReg
      /\ \A k \in 1 .. g : j.given[k] \in Floats
  BY DEF FloatJob
<1> PICK x \in Floats : x = ValueIn(j, j.l)
  BY <1>1
<1> PICK y \in Floats : y = ValueIn(j, j.r)
  BY <1>1
<1> PICK branch \in PlainOps : branch = IF op = "NE" THEN "beq" ELSE "bne"
  BY DEF PlainOps
<1> DEFINE e0 == NoCode(g)
           e1 == GetFloatReg(e0, j.l)
           e2 == GetFloatReg(e1, j.r)
           e3 == EmitFloatOp(e2, op, e1.at, e2.at)
           e4 == Emit(e3, "li", 0, 0, 0)
           e5 == Emit(e4, branch, e3.at, e4.at, 0)
<1>2. /\ FloatOperation(j) = e3
      /\ EmitFloatCond(e0, op, j.l, j.r) = e5
      /\ EmitFloatBinary(e0, op, j.l, j.r)
           = IF op # "NE" THEN e3 ELSE [e3 EXCEPT !.code = Append(@, Negation(e3.at))]
  BY DEF FloatOperation, EmitFloatCond, EmitFloatBinary, LoadConstInt, Negation
<1>3. EmitJob(j) = IF j.kind = "float" THEN EmitFloatBinary(e0, op, j.l, j.r)
                                       ELSE EmitFloatCond(e0, op, j.l, j.r)
  BY <1>1 DEF EmitJob
<1>4. Linear(e0, g) /\ e0.used = g /\ \A R : Small(R, e0.code)
  BY <1>1, NothingCoded
<1> HIDE DEF e0
<1>5. /\ Linear(e1, g) /\ e1.used \in g .. g + 2 /\ e1.at \in 1 .. e1.used
      /\ \A R : Holds(R, e1.code) =>
           /\ R[e1.at] = Held(R, j.l)
           /\ Held(R, j.l) \in RegRange => Small(R, e1.code)
  <2>1. j.l.const \/ j.l.n \in 1 .. e0.used
    BY <1>1, <1>4 DEF IsOperand, Operands
  <2> QED
    BY <1>1, <1>4, <2>1, GetFloatRegValue
<1> HIDE DEF e1
<1>6. /\ Linear(e2, g) /\ e2.used \in g .. g + 4 /\ e2.at \in 1 .. e2.used /\ e1.at \in 1 .. e2.used
      /\ \A R : Holds(R, e2.code) =>
           /\ Holds(R, e1.code) /\ R[e2.at] = Held(R, j.r)
           /\ Small(R, e1.code) /\ Held(R, j.r) \in RegRange => Small(R, e2.code)
  <2>1. j.r.const \/ j.r.n \in 1 .. e1.used
    BY <1>1, <1>5 DEF IsOperand, Operands
  <2>2. /\ Linear(e2, g) /\ e2.used \in e1.used .. e1.used + 2 /\ e2.at \in 1 .. e2.used
        /\ \A R : Holds(R, e2.code) =>
             /\ Holds(R, e1.code) /\ R[e2.at] = Held(R, j.r)
             /\ Small(R, e1.code) /\ Held(R, j.r) \in RegRange => Small(R, e2.code)
    BY <1>1, <1>5, <2>1, GetFloatRegValue
  <2> HIDE DEF e2
  <2> QED
    BY <1>1, <1>5, <2>2
<1> HIDE DEF e2
<1>7. /\ Linear(e3, g) /\ e3.used = e2.used + 1 /\ e3.at = e2.used + 1
      /\ \A R : Holds(R, e3.code) =>
           /\ Holds(R, e2.code)
           /\ R[e1.at] \in Int /\ R[e2.at] \in Int => R[e2.used + 1] = Compared(op, R[e1.at], R[e2.at])
           /\ Small(R, e2.code) /\ R[e2.used + 1] \in RegRange => Small(R, e3.code)
  <2>1. Linear(e2, g) /\ e1.at \in 1 .. e2.used /\ e2.at \in 1 .. e2.used
    BY <1>6
  <2>2. g \in Nat /\ op \in DOMAIN FloatOp
    BY <1>1
  <2> QED
    BY <2>1, <2>2, FloatOpValue
<1> PICK u : u = e2.used
  OBVIOUS
<1> HIDE DEF e3
<1> USE Room
<1>18. /\ u \in g .. g + 4 /\ e3.used = u + 1 /\ e3.at = u + 1
       /\ e1.at \in 1 .. u /\ e2.at \in 1 .. u
  BY <1>6, <1>7
<1>8. ASSUME NEW R, Agrees(R, j), Holds(R, e3.code)
      PROVE  R[e3.at] = Compared(op, x, y) /\ Small(R, e3.code)
  <2>1. Held(R, j.l) = x /\ Held(R, j.r) = y
    BY <1>1, <1>8, HeldIsValue
  <2>2. x \in Int /\ x \in RegRange /\ y \in Int /\ y \in RegRange /\ Compared(op, x, y) \in RegRange
    BY <1>1, FloatSmall
  <2>3. Holds(R, e2.code) /\ Holds(R, e1.code)
    BY <1>6, <1>7, <1>8
  <2>4. R[e1.at] = x /\ R[e2.at] = y /\ Small(R, e2.code)
    BY <1>5, <1>6, <2>1, <2>2, <2>3
  <2> QED
    BY <1>7, <1>8, <2>2, <2>4
<1>9. /\ Linear(e4, g) /\ e4.used = e3.used + 1 /\ e4.at = e3.used + 1
      /\ \A R : Holds(R, e4.code) =>
           /\ Holds(R, e3.code)
           /\ R[e3.used + 1] = Effect(Inst("li", e3.used + 1, 0, 0, 0), Content(R, 0), Content(R, 0))
           /\ Small(R, e3.code) /\ R[e3.used + 1] \in RegRange => Small(R, e4.code)
  <2>1. /\ Assembles(Inst("li", 0, 0, 0, 0)) /\ "li" \in ImmOps \union PlainOps
        /\ 0 \in 0 .. e3.used /\ 0 \in Int
    BY <1>6, <1>7, IntsAreInt DEF Assembles, Inst, ImmOps
  <2>2. Linear(e3, g)
    BY <1>7
  <2> QED
    BY <1>1, <2>1, <2>2, EmitLinear
<1> HIDE DEF e4
<1>10. /\ Linear(e5, g) /\ e5.used = e4.used + 1 /\ e5.at = e4.used + 1
       /\ \A R : Holds(R, e5.code) =>
            /\ Holds(R, e4.code)
            /\ R[e4.used + 1] = Effect(Inst(branch, e4.used + 1, e3.at, e4.at, 0),
                                       Content(R, e3.at), Content(R, e4.at))
            /\ Small(R, e4.code) /\ R[e4.used + 1] \in RegRange => Small(R, e5.code)
  <2>1. 0 \in Int
    OBVIOUS
  <2>3. e3.at \in 0 .. e4.used /\ e4.at \in 0 .. e4.used
    BY <1>1, <1>18, <1>9
  <2>2. Linear(e4, g) /\ g \in Nat
    BY <1>1, <1>9
  <2> QED
    BY <2>1, <2>2, <2>3, EmitPlainLinear
<1> HIDE DEF e5
<1>11. ASSUME NEW R, Agrees(R, j), Holds(R, e5.code), op \in Relations \union Equalities
       PROVE  R[e5.at] = FloatValue(op, x, y) /\ Small(R, e5.code)
  <2>1. R[e3.at] = Compared(op, x, y) /\ Small(R, e3.code)
    BY <1>8, <1>9, <1>10, <1>11
  <2>2. R[e4.at] = 0 /\ Small(R, e4.code)
    BY <1>9, <1>10, <1>11, <2>1, Effects, Ranges, IntsAreInt
  <2>3. Content(R, e3.at) = Compared(op, x, y) /\ Content(R, e4.at) = 0
    BY <1>6, <1>7, <1>9, <2>1, <2>2, ContentAt
  <2>4. R[e5.at] = IF op = "NE" THEN Truth(Compared(op, x, y) = 0) ELSE Truth(Compared(op, x, y) # 0)
    BY <1>10, <1>11, <2>3, OtherEffects
  <2>5. op \notin {"ADD", "SUB", "MUL"}
    BY <1>11 DEF Relations, Equalities
  <2>6. Compared(op, x, y) = Truth(FloatHolds(IF op = "NE" THEN "EQ" ELSE op, x, y))
    BY <2>5 DEF Compared
  <2>7. FloatHolds("NE", x, y) <=> ~FloatHolds("EQ", x, y)
    BY DEF FloatHolds, Compare
  <2>8. FloatValue(op, x, y) = Truth(FloatHolds(op, x, y))
    BY <2>5 DEF FloatValue
  <2>9. R[e5.at] = FloatValue(op, x, y)
    BY <2>4, <2>6, <2>7, <2>8 DEF Truth
  <2>10. R[e5.at] \in RegRange
    BY <2>8, <2>9, Ranges
  <2> QED
    BY <1>10, <1>11, <2>2, <2>9, <2>10
<1>12. \A k \in 1 .. Len(j.given) : j.given[k] \in RegRange
  BY <1>1, FloatSmall
<1>13. CASE j.kind = "float"
  <2>1. Straight(j) = e3
    BY <1>2, <1>13 DEF Straight
  <2>2. /\ EmitJob(j).at = e3.at
        /\ EmitJob(j).code = IF Turned(j) THEN Append(e3.code, Negation(e3.at)) ELSE e3.code
    <3>1. e3 = [code |-> e3.code, used |-> e3.used, at |-> e3.at]
      BY <1>7 DEF Linear, Emissions
    <3>2. [e3 EXCEPT !.code = Append(@, Negation(e3.at))].at = e3.at
      BY <3>1
    <3>3. [e3 EXCEPT !.code = Append(@, Negation(e3.at))].code = Append(e3.code, Negation(e3.at))
      BY <3>1
    <3>4. EmitJob(j) = IF op # "NE" THEN e3 ELSE [e3 EXCEPT !.code = Append(@, Negation(e3.at))]
      BY <1>2, <1>3, <1>13
    <3> QED
      BY <1>13, <3>2, <3>3, <3>4 DEF Turned
  <2>3. Len(EmitJob(j).code) <= MaxReg /\ e3.used <= MaxReg
    <3>1. e3.used = g + Len(e3.code) /\ e3.code \in Seq(Instructions) /\ e3.used <= g + 5
      BY <1>1, <1>6, <1>7 DEF Linear, Emissions
    <3>2. Len(Append(e3.code, Negation(e3.at))) = Len(e3.code) + 1 /\ Len(e3.code) \in Nat
      BY <3>1
    <3>3. Len(EmitJob(j).code) \in {Len(e3.code), Len(e3.code) + 1}
      BY <2>2, <3>2
    <3> PICK n \in Nat : n = Len(e3.code)
      BY <3>2
    <3>4. e3.used = g + n /\ e3.used <= g + 5
      BY <3>1
    <3>5. Len(EmitJob(j).code) <= n + 1
      BY <3>3
    <3> PICK m : m = Len(EmitJob(j).code)
      OBVIOUS
    <3>6. m \in Nat /\ m <= n + 1
      BY <3>3, <3>5
    <3>7. g \in Nat /\ g + 7 <= MaxReg /\ MaxReg \in Nat
      BY <1>1
    <3>8. m <= MaxReg /\ g + n <= MaxReg
      <4>1. \A a, b, c, top \in Nat : a + b <= a + 5 /\ c <= b + 1 /\ a + 7 <= top => c <= top /\ a + b <= top
        OBVIOUS
      <4>2. g + n <= g + 5
        BY <3>4
      <4> QED
        BY <4>1, <4>2, <3>6, <3>7
    <3> QED
      BY <3>4, <3>8
  <2>4. e3.at \in 1 .. e3.used
    BY <1>1, <1>6, <1>7
  <2>5. WellCoded(j)
    BY <1>1, <1>7, <1>8, <1>12, <2>1, <2>2, <2>3, <2>4 DEF WellCoded
  <2>6. ASSUME NEW R, Agrees(R, j), Holds(R, e3.code) PROVE Result(R, j) = FloatValue(op, x, y)
    <3>1. R[e3.at] = Compared(op, x, y)
      BY <1>8, <2>6
    <3>2. CASE op = "NE"
      <4>1. Result(R, j) = Truth(Compared(op, x, y) = 0)
        BY <1>13, <2>2, <3>1, <3>2 DEF Result, Turned
      <4>2. Compared(op, x, y) = Truth(FloatHolds("EQ", x, y))
        BY <3>2 DEF Compared
      <4>3. FloatHolds("NE", x, y) <=> ~FloatHolds("EQ", x, y)
        BY DEF FloatHolds, Compare
      <4>4. FloatValue(op, x, y) = Truth(FloatHolds("NE", x, y))
        BY <3>2 DEF FloatValue
      <4> QED
        BY <4>1, <4>2, <4>3, <4>4 DEF Truth
    <3>3. CASE op # "NE"
      BY <2>2, <3>1, <3>3 DEF Result, Turned, Compared, FloatValue
    <3> QED
      BY <3>2, <3>3
  <2> QED
    BY <2>1, <2>5, <2>6
<1>14. CASE j.kind = "cond"
  <2>1. Straight(j) = e5 /\ EmitJob(j) = e5 /\ ~Turned(j) /\ op \in Relations \union Equalities
    BY <1>1, <1>2, <1>3, <1>14 DEF Straight, Turned
  <2>2. Len(e5.code) <= MaxReg /\ e5.used <= MaxReg
    <3>1. e5.used = g + Len(e5.code) /\ e5.code \in Seq(Instructions)
      BY <1>10 DEF Linear, Emissions
    <3>2. Len(e5.code) \in Nat
      BY <3>1
    <3> PICK n \in Nat : n = Len(e5.code)
      BY <3>2
    <3>3. e5.used = u + 3
      BY <1>1, <1>9, <1>10, <1>18
    <3>4. g \in Nat /\ g + 7 <= MaxReg /\ MaxReg \in Nat /\ u \in g .. g + 4
      BY <1>1, <1>18
    <3>5. g + n = u + 3
      BY <3>1, <3>3
    <3>6. n <= MaxReg /\ u + 3 <= MaxReg
      <4>1. \A a, b, c, top \in Nat :
               b \in a .. a + 4 /\ a + c = b + 3 /\ a + 7 <= top => c <= top /\ b + 3 <= top
        OBVIOUS
      <4>2. u \in Nat
        BY <3>4
      <4> QED
        BY <4>1, <4>2, <3>4, <3>5
    <3> QED
      BY <3>3, <3>6
  <2>3. e5.at \in 1 .. e5.used
    BY <1>1, <1>6, <1>7, <1>9, <1>10
  <2>4. WellCoded(j)
    BY <1>1, <1>10, <1>11, <1>12, <2>1, <2>2, <2>3 DEF WellCoded
  <2> QED
    BY <1>11, <2>1, <2>4 DEF Result
<1> QED
  BY <1>1, <1>13, <1>14

-----------------------------------------------------------------------------
(* Jobs on ints *)

\* What is known of a job on ints.
LEMMA IntJobFacts ==
  ASSUME NEW j, IsIntJob(j)
  PROVE  /\ j.kind = "int" /\ j.op \in IntOps /\ j.l \in Loadable /\ j.r \in Loadable
         /\ ~(j.l.const /\ j.r.const)
         /\ j.l.const \/ j.l.n \in 1 .. 2
         /\ j.r.const \/ j.r.n \in 1 .. 2
         /\ Len(j.given) = 2 /\ j.given[1] \in Ints /\ j.given[2] \in Ints
<1>1. ASSUME NEW c \in Consts PROVE Const(c) \in Loadable /\ Const(c).const
  BY IntOperands, IntsAreInt DEF Const, Loadable, Operands
<1>2. ASSUME NEW k \in {1, 2} PROVE Reg(k) \in Loadable /\ ~Reg(k).const /\ Reg(k).n \in 1 .. 2
  BY DEF Reg, Loadable, Operands
<1>3. PICK left, right, values :
          /\ j \in IntJobs(left, right, values)
          /\ left \union right \subseteq Constants \union {Reg(1), Reg(2)}
          /\ left \subseteq {Reg(1), Reg(2)} \/ right \subseteq {Reg(1), Reg(2)}
          /\ values \in {Inputs \X {0}, Inputs \X Inputs}
  BY DEF IsIntJob
<1>4. \A c \in Constants : c \in Loadable /\ c.const
  BY <1>1 DEF Constants
<1>5. /\ j.kind = "int" /\ j.op \in IntOps /\ j.l \in left /\ j.r \in right /\ j.given \in values
  BY <1>3 DEF IntJobs
<1>6. j.given \in Ints \X Ints
  <2>1. Inputs \subseteq Ints /\ 0 \in Ints
    BY IntOperands, IntsAreInt
  <2>2. values \subseteq Ints \X Ints
    <3>1. CASE values = Inputs \X {0}
      BY <2>1, <3>1
    <3>2. CASE values = Inputs \X Inputs
      BY <2>1, <3>2
    <3> QED
      BY <1>3, <3>1, <3>2
  <2> QED
    BY <1>5, <2>2
<1>7. Len(j.given) = 2 /\ j.given[1] \in Ints /\ j.given[2] \in Ints
  BY <1>6
<1> QED
  BY <1>2, <1>3, <1>4, <1>5, <1>7

\* The code of an int job is linear, and short.
LEMMA IntCode ==
  ASSUME NEW j, IsIntJob(j), Defined(j)
  PROVE  /\ WellCoded(j) /\ ~Turned(j)
         /\ \A R : Agrees(R, j) /\ Holds(R, Straight(j).code) =>
              /\ Held(R, j.l) = ValueIn(j, j.l) /\ Held(R, j.r) = ValueIn(j, j.r)
              /\ R[EmitJob(j).at] = Finished(j.op, Plan(j.op, j.l, j.r), PlanValue(R, j.op, Plan(j.op, j.l, j.r)))
<1>1. /\ j.kind = "int" /\ Len(j.given) = 2
      /\ EmitJob(j) = EmitIntBinary(NoCode(2), j.op, j.l, j.r)
      /\ Straight(j) = EmitJob(j) /\ ~Turned(j)
  BY IntJobFacts DEF EmitJob, Straight, Turned
<1>2. /\ j.op \in IntOps /\ j.l \in Loadable /\ j.r \in Loadable
      /\ ~(j.l.const /\ j.r.const)
      /\ j.l.const \/ j.l.n \in 1 .. 2
      /\ j.r.const \/ j.r.n \in 1 .. 2
      /\ \A k \in 1 .. 2 : j.given[k] \in Ints
  BY IntJobFacts
<1> PICK op \in IntOps : op = j.op
  BY <1>2
<1> PICK l \in Loadable : l = j.l
  BY <1>2
<1> PICK r \in Loadable : r = j.r
  BY <1>2
<1> DEFINE e == NoCode(2)
           e1 == EmitIntBinary(e, op, l, r)
<1>3. Linear(e, 2) /\ e.used = 2 /\ \A R : Small(R, e.code)
  BY NothingCoded
<1> HIDE DEF e
<1>15. PICK g \in Nat : g = 2
  OBVIOUS
<1>16. Linear(e, g) /\ (l.const \/ l.n \in 1 .. g) /\ (r.const \/ r.n \in 1 .. g) /\ ~(l.const /\ r.const)
  BY <1>2, <1>3, <1>15
<1>4. Linear(e1, 2)
  BY <1>15, <1>16, IntBinaryValue
<1>5. e1.used \in e.used + 1 .. e.used + 4 /\ e1.at = e1.used
  BY <1>16, IntBinaryValue
<1>6. \A R : /\ Holds(R, e1.code)
             /\ Held(R, l) \in Ints /\ Held(R, r) \in Ints
             /\ op \in {"DIV", "MOD"} => Held(R, r) # 0
        => /\ R[e1.at] = Finished(op, Plan(op, l, r), PlanValue(R, op, Plan(op, l, r)))
           /\ Small(R, e.code) => Small(R, e1.code)
  BY <1>16, IntBinaryValue
<1>7. EmitJob(j) = e1
  BY <1>1 DEF e
<1> HIDE DEF e1
<1>8. ASSUME NEW R, Agrees(R, j), Holds(R, e1.code)
      PROVE  /\ Held(R, l) = ValueIn(j, l) /\ Held(R, r) = ValueIn(j, r)
             /\ R[e1.at] = Finished(op, Plan(op, l, r), PlanValue(R, op, Plan(op, l, r)))
             /\ Small(R, e1.code)
  <2>1. \A k \in 1 .. 2 : R[k] = j.given[k]
    BY <1>1, <1>8 DEF Agrees
  <2>2. \A o \in {l, r} : o.const \in BOOLEAN /\ (o.const => o.n \in Ints) /\ (o.const \/ o.n \in 1 .. 2)
    BY <1>2 DEF Loadable, Operands
  <2>3. \A o \in {l, r} : Held(R, o) = ValueIn(j, o) /\ Held(R, o) \in Ints
    BY <1>2, <2>1, <2>2 DEF Held, ValueIn
  <2>4. op \in {"DIV", "MOD"} => Held(R, r) # 0
    BY <2>3 DEF Defined
  <2> QED
    BY <1>3, <1>6, <1>8, <2>3, <2>4
<1>9. e1.used \in 3 .. 6 /\ e1.used = 2 + Len(e1.code) /\ e1.code \in Seq(Instructions)
  BY <1>3, <1>4, <1>5 DEF Linear, Emissions
<1>10. Len(e1.code) <= MaxReg /\ e1.used <= MaxReg
  BY <1>9, Room
<1>11. e1.at \in 1 .. e1.used
  BY <1>5, <1>9
<1>12. \A k \in 1 .. Len(j.given) : j.given[k] \in RegRange
  BY <1>1, <1>2, Ranges
<1>13. \A R : Agrees(R, j) /\ Holds(R, e1.code) => Small(R, e1.code)
  BY <1>8
<1>14. WellCoded(j)
  BY <1>1, <1>4, <1>7, <1>10, <1>11, <1>12, <1>13 DEF WellCoded
<1> QED
  BY <1>1, <1>7, <1>8, <1>14

\* The code of a job on ints leaves what the operator gives, but past the end.
LEMMA IntJobRight ==
  ASSUME NEW R, IsIntJob(job), Defined(job), Agrees(R, job), Holds(R, Straight(job).code)
  PROVE  Result(R, job) = IntValue(job.op, ValueOf(job.l), ValueOf(job.r))
           <=> ~PastTheEnd(job.op, job.l, job.r)
<1> PICK op \in IntOps : op = job.op
  BY IntJobFacts
<1> PICK l \in Loadable : l = job.l
  BY IntJobFacts
<1> PICK r \in Loadable : r = job.r
  BY IntJobFacts
<1>1. /\ ~(l.const /\ r.const)
      /\ l.const \/ l.n \in 1 .. 2
      /\ r.const \/ r.n \in 1 .. 2
      /\ job.given[1] \in Ints /\ job.given[2] \in Ints
      /\ l.const \in BOOLEAN /\ (l.const => l.n \in Ints)
      /\ r.const \in BOOLEAN /\ (r.const => r.n \in Ints)
  BY IntJobFacts DEF Loadable, Operands
<1>2. /\ Held(R, l) = ValueOf(l) /\ Held(R, l) \in Ints
      /\ Held(R, r) = ValueOf(r) /\ Held(R, r) \in Ints
  <2>1. Held(R, l) = ValueOf(l) /\ Held(R, r) = ValueOf(r)
    BY IntCode DEF ValueOf
  <2>2. \A o \in {l, r} : ValueOf(o) \in Ints
    BY <1>1 DEF ValueOf, ValueIn
  <2> QED
    BY <2>1, <2>2
<1>3. Result(R, job) = Finished(op, Plan(op, l, r), PlanValue(R, op, Plan(op, l, r)))
  BY IntCode DEF Result
<1> PICK x \in Ints : x = Held(R, l)
  BY <1>2
<1> PICK y \in Ints : y = Held(R, r)
  BY <1>2
<1>4. op \in {"DIV", "MOD"} => y # 0
  BY <1>2 DEF Defined, ValueOf
<1> DEFINE v == Finished(op, Plan(op, l, r), PlanValue(R, op, Plan(op, l, r)))
<1>5. CASE l.const
  <2>1. l.n = x /\ l.n \in Ints /\ ~r.const
    BY <1>1, <1>5 DEF Held
  <2>2. v = IntValue(op, x, y)
         <=> ~(\/ op = "LE" /\ x = IntMin
               \/ op = "GE" /\ x = IntMax
               \/ op \in Equalities /\ x = y /\ x <= IntMin + ImmHalf)
    BY <1>4, <1>5, <2>1, ConstLeftRight DEF Plan
  <2>3. PastTheEnd(op, l, r)
         <=> (\/ op = "LE" /\ x = IntMin
              \/ op = "GE" /\ x = IntMax
              \/ op \in Equalities /\ x = y /\ x <= IntMin + ImmHalf)
    BY <1>2, <1>5, <2>1 DEF PastTheEnd
  <2> QED
    BY <1>2, <1>3, <2>2, <2>3
<1>6. CASE ~l.const /\ r.const
  <2>1. r.n = y /\ r.n \in Ints
    BY <1>1, <1>6 DEF Held
  <2>2. v = IntValue(op, x, y)
         <=> ~(\/ op = "LE" /\ y = IntMax
               \/ op = "GE" /\ y = IntMin
               \/ op \in Equalities /\ x = y /\ x <= IntMin + ImmHalf)
    BY <1>4, <1>6, <2>1, ConstRightRight DEF Plan
  <2>3. PastTheEnd(op, l, r)
         <=> (\/ op = "LE" /\ y = IntMax
              \/ op = "GE" /\ y = IntMin
              \/ op \in Equalities /\ x = y /\ x <= IntMin + ImmHalf)
    BY <1>2, <1>6, <2>1 DEF PastTheEnd
  <2> QED
    BY <1>2, <1>3, <2>2, <2>3
<1>7. CASE ~l.const /\ ~r.const
  <2>1. v = IntValue(op, x, y)
    BY <1>4, <1>7, RegsRight DEF Plan
  <2>2. ~PastTheEnd(op, l, r)
    BY <1>7 DEF PastTheEnd
  <2> QED
    BY <1>2, <1>3, <2>1, <2>2
<1> QED
  BY <1>1, <1>5, <1>6, <1>7

-----------------------------------------------------------------------------
(* Arrays *)

\* What elementSize holds: one step of an index passes over all elements
\* that the later indexes tell apart.
LEMMA ElementSizes ==
  ASSUME NEW dims \in Seq(Nat \ {0}), dims # <<>>
  PROVE  /\ ElementSize(dims) \in [1 .. Len(dims) -> Nat \ {0}]
         /\ ElementSize(dims)[Len(dims)] = 1
         /\ \A i \in 1 .. Len(dims) - 1 : ElementSize(dims)[i] = dims[i + 1] * ElementSize(dims)[i + 1]
<1>m. PICK m : m \in Nat /\ m >= 1 /\ m = Len(dims)
  OBVIOUS
<1>d. \A i \in 1 .. m : dims[i] \in Nat \ {0}
  BY <1>m
<1>p. \A x, y \in Nat \ {0} : x * y \in Nat \ {0}
  OBVIOUS
<1>D. PICK D : D = Nat \ {0}
  OBVIOUS
<1>1. PICK F : F = [z \in (1 .. m - 1) \X D |-> dims[m - z[1] + 1] * z[2]]
  OBVIOUS
<1>2. F \in [(1 .. m - 1) \X D -> D] /\ 1 \in D /\ m - 1 \in Nat
  <2>1. ASSUME NEW z \in (1 .. m - 1) \X D PROVE dims[m - z[1] + 1] * z[2] \in D
    <3>1. z[1] \in 1 .. m - 1 /\ z[2] \in Nat \ {0}
      BY <1>D
    <3>2. m - z[1] + 1 \in 1 .. m
      BY <1>m, <3>1
    <3> QED
      BY <1>d, <1>p, <1>D, <3>1, <3>2
  <2> QED
    BY <1>1, <1>D, <1>m, <2>1
<1>3. PICK h \in [0 .. m - 1 -> D] : h[0] = 1 /\ \A k \in 1 .. m - 1 : h[k] = F[<<k, h[k - 1]>>]
  <2>1. PICK q : q \in Nat /\ q = m - 1
    BY <1>2
  <2>2. F \in [(1 .. q) \X D -> D] /\ 1 \in D
    BY <1>2, <2>1
  <2>3. \E h : IsRecursion(h, q, D, 1, F)
    BY <2>1, <2>2, RecursionUpTo
  <2> QED
    BY <2>1, <2>3 DEF IsRecursion
<1>4. ASSUME NEW k \in 1 .. m - 1 PROVE h[k] = dims[m - k + 1] * h[k - 1]
  <2>1. k - 1 \in 0 .. m - 1
    BY <1>m
  <2>2. <<k, h[k - 1]>> \in (1 .. m - 1) \X D
    BY <1>3, <2>1
  <2> QED
    BY <1>1, <1>3, <2>2
<1>5. PICK f : f = [i \in 1 .. m |-> h[m - i]]
  OBVIOUS
<1>6. f \in [1 .. m -> D] /\ f[m] = 1
  <2>1. \A i \in 1 .. m : m - i \in 0 .. m - 1
    BY <1>m
  <2>2. m \in 1 .. m /\ m - m = 0
    BY <1>m
  <2> QED
    BY <1>3, <1>5, <2>1, <2>2
<1>7. ASSUME NEW i \in 1 .. m - 1 PROVE f[i] = dims[i + 1] * f[i + 1]
  <2>1. m - i \in 1 .. m - 1 /\ m - (m - i) + 1 = i + 1 /\ (m - i) - 1 = m - (i + 1)
        /\ i \in 1 .. m /\ i + 1 \in 1 .. m
    BY <1>m
  <2>2. h[m - i] = dims[i + 1] * h[m - (i + 1)]
    BY <1>4, <2>1
  <2> QED
    BY <1>5, <2>1, <2>2
<1>8. f = [i \in 1 .. m |-> IF i = m THEN 1 ELSE dims[i + 1] * f[i + 1]]
  <2>1. ASSUME NEW i \in 1 .. m PROVE f[i] = IF i = m THEN 1 ELSE dims[i + 1] * f[i + 1]
    <3>1. i = m \/ i \in 1 .. m - 1
      BY <1>m
    <3> QED
      BY <1>6, <1>7, <3>1
  <2> QED
    BY <1>6, <2>1
<1>9. PICK s : /\ s = ElementSize(dims)
              /\ s = [i \in 1 .. m |-> IF i = m THEN 1 ELSE dims[i + 1] * s[i + 1]]
  <2>1. \E z : z = [i \in 1 .. Len(dims) |-> IF i = Len(dims) THEN 1 ELSE dims[i + 1] * z[i + 1]]
    BY <1>8, <1>m
  <2>2. ElementSize(dims)
          = CHOOSE z : z = [i \in 1 .. Len(dims) |-> IF i = Len(dims) THEN 1 ELSE dims[i + 1] * z[i + 1]]
    BY DEF ElementSize
  <2>3. ElementSize(dims)
          = [i \in 1 .. Len(dims) |-> IF i = Len(dims) THEN 1 ELSE dims[i + 1] * ElementSize(dims)[i + 1]]
    BY <2>1, <2>2, Zenon
  <2> QED
    BY <2>3, <1>m
<1>10. \A k \in 0 .. m - 1 : s[m - k] = f[m - k]
  <2>1. PICK T : T = {k \in 0 .. m - 1 : s[m - k] = f[m - k]}
    OBVIOUS
  <2>2. 0 \in T
    <3>1. m - 0 = m /\ m \in 1 .. m /\ 0 \in 0 .. m - 1
      BY <1>m
    <3> QED
      BY <1>6, <1>9, <2>1, <3>1
  <2>3. ASSUME NEW k \in 1 .. m - 1, k - 1 \in T PROVE k \in T
    <3>1. m - k \in 1 .. m - 1 /\ m - k \in 1 .. m /\ m - k # m /\ (m - k) + 1 = m - (k - 1) /\ k \in 0 .. m - 1
      BY <1>m
    <3>2. s[m - k] = dims[(m - k) + 1] * s[(m - k) + 1]
      BY <1>9, <3>1
    <3>3. f[m - k] = dims[(m - k) + 1] * f[(m - k) + 1]
      BY <1>7, <3>1
    <3> QED
      BY <2>1, <2>3, <3>1, <3>2, <3>3
  <2>4. \A k \in 1 .. m - 1 : k - 1 \in T => k \in T
    BY <2>3
  <2>5. \A k \in 0 .. m - 1 : k \in T
    BY <1>2, <2>2, <2>4, UpTo
  <2> QED
    BY <2>1, <2>5
<1>11. s = f
  <2>1. ASSUME NEW i \in 1 .. m PROVE s[i] = f[i]
    <3>1. m - i \in 0 .. m - 1 /\ m - (m - i) = i
      BY <1>m
    <3> QED
      BY <1>10, <3>1
  <2> QED
    BY <1>6, <1>9, <2>1
<1> QED
  BY <1>6, <1>7, <1>9, <1>11, <1>m, <1>D

\* All elements, and how many one step of index k passes over.
Weight(dims, k) == IF k = 0 THEN TotalSize(dims) ELSE ElementSize(dims)[k]

\* The number of elements behind one step of each index is a product of dimensions.
LEMMA Weights ==
  ASSUME NEW dims \in Seq(Nat \ {0})
  PROVE  /\ \A k \in 0 .. Len(dims) : Weight(dims, k) \in Nat \ {0}
         /\ Weight(dims, Len(dims)) = 1
         /\ \A k \in 1 .. Len(dims) : Weight(dims, k - 1) = dims[k] * Weight(dims, k)
<1>m. PICK m : m \in Nat /\ m = Len(dims)
  OBVIOUS
<1>p. \A x, y \in Nat \ {0} : x * y \in Nat \ {0}
  OBVIOUS
<1>1. CASE dims = <<>>
  <2>1. Len(dims) = 0 /\ TotalSize(dims) = 1
    BY <1>1 DEF TotalSize
  <2>2. Weight(dims, 0) = 1
    BY <2>1 DEF Weight
  <2> QED
    BY <2>1, <2>2
<1>2. CASE dims # <<>>
  <2>w. PICK w : w = ElementSize(dims)
    OBVIOUS
  <2>1. m >= 1 /\ \A k \in 1 .. m : dims[k] \in Nat \ {0}
    BY <1>2, <1>m
  <2>2. /\ w \in [1 .. m -> Nat \ {0}] /\ w[m] = 1
        /\ \A k \in 1 .. m - 1 : w[k] = dims[k + 1] * w[k + 1]
    BY <1>2, <1>m, <2>w, ElementSizes
  <2>3. TotalSize(dims) = dims[1] * w[1]
    BY <1>2, <2>w DEF TotalSize
  <2>4. \A k \in 1 .. m : Weight(dims, k) = w[k]
    BY <2>w DEF Weight
  <2>5. Weight(dims, 0) = dims[1] * w[1]
    BY <2>3 DEF Weight
  <2>6. ASSUME NEW k \in 0 .. m PROVE Weight(dims, k) \in Nat \ {0}
    <3>1. CASE k = 0
      <4>1. dims[1] \in Nat \ {0} /\ w[1] \in Nat \ {0}
        BY <1>m, <2>1, <2>2
      <4> QED
        BY <1>p, <2>5, <3>1, <4>1
    <3>2. CASE k # 0
      <4>1. k \in 1 .. m
        BY <3>2
      <4> QED
        BY <2>2, <2>4, <4>1
    <3> QED
      BY <3>1, <3>2
  <2>7. ASSUME NEW k \in 1 .. m PROVE Weight(dims, k - 1) = dims[k] * Weight(dims, k)
    <3>1. CASE k = 1
      BY <2>4, <2>5, <3>1
    <3>2. CASE k # 1
      <4>1. k - 1 \in 1 .. m - 1 /\ k - 1 \in 1 .. m /\ (k - 1) + 1 = k
        BY <1>m, <3>2
      <4> QED
        BY <2>2, <2>4, <4>1
    <3> QED
      BY <3>1, <3>2
  <2>8. Weight(dims, m) = 1
    <3>1. m \in 1 .. m
      BY <1>m, <2>1
    <3> QED
      BY <2>2, <2>4, <3>1
  <2> QED
    BY <1>m, <2>6, <2>7, <2>8
<1> QED
  BY <1>1, <1>2

\* The value of index k; there may be fewer of them than dimensions.
IndexAt(j, indexes, k) == IF k <= Len(indexes) THEN ValueIn(j, indexes[k]) ELSE 0

\* Place is computed by Horner's scheme.
LEMMA PlaceExists ==
  ASSUME NEW j, NEW dims, NEW indexes, InArray(j, dims, indexes), indexes \in Seq(Operands)
  PROVE  \E h \in [0 .. Len(dims) -> Int] :
            /\ h[0] = 0 /\ Place(j, dims, indexes) = h[Len(dims)]
            /\ \A k \in 1 .. Len(dims) : h[k] = h[k - 1] * dims[k] + IndexAt(j, indexes, k)
<1>m. PICK m : m \in Nat /\ m = Len(dims)
  BY DEF InArray
<1>1. \A k \in 1 .. m : dims[k] \in Int /\ IndexAt(j, indexes, k) \in Int
  <2>1. ASSUME NEW k \in 1 .. m PROVE dims[k] \in Int
    BY <1>m DEF InArray
  <2>2. ASSUME NEW k \in 1 .. m, k <= Len(indexes) PROVE ValueIn(j, indexes[k]) \in Int
    <3>1. k \in 1 .. Len(indexes)
      BY <2>2
    <3>2. ValueIn(j, indexes[k]) \in 0 .. dims[k] - 1
      BY <3>1 DEF InArray
    <3> QED
      BY <2>1, <3>2
  <2> QED
    BY <2>1, <2>2 DEF IndexAt
<1>2. PICK F : F = [z \in (1 .. m) \X Int |-> z[2] * dims[z[1]] + IndexAt(j, indexes, z[1])]
  OBVIOUS
<1>3. F \in [(1 .. m) \X Int -> Int]
  BY <1>1, <1>2
<1>4. PICK h : IsRecursion(h, m, Int, 0, F)
  <2>1. m \in Nat /\ 0 \in Int
    BY <1>m
  <2> QED
    BY <1>3, <2>1, RecursionUpTo
<1>5. h \in [0 .. m -> Int] /\ h[0] = 0
  BY <1>4 DEF IsRecursion
<1>6. ASSUME NEW k \in 1 .. m PROVE h[k] = h[k - 1] * dims[k] + IndexAt(j, indexes, k)
  <2>1. k - 1 \in 0 .. m
    BY <1>m
  <2>2. <<k, h[k - 1]>> \in (1 .. m) \X Int
    BY <1>5, <2>1
  <2>3. h[k] = F[<<k, h[k - 1]>>]
    BY <1>4 DEF IsRecursion
  <2> QED
    BY <1>2, <2>2, <2>3
<1> DEFINE Is(z) == z = [k \in 0 .. Len(dims) |->
                           IF k = 0 THEN 0
                           ELSE z[k - 1] * dims[k] + (IF k <= Len(indexes) THEN ValueIn(j, indexes[k]) ELSE 0)]
<1>7. Is(h)
  <2>1. ASSUME NEW k \in 0 .. m
        PROVE  h[k] = IF k = 0 THEN 0 ELSE h[k - 1] * dims[k] + IndexAt(j, indexes, k)
    <3>1. k = 0 \/ k \in 1 .. m
      BY <1>m
    <3> QED
      BY <1>5, <1>6, <3>1
  <2>2. h = [k \in 0 .. m |-> IF k = 0 THEN 0 ELSE h[k - 1] * dims[k] + IndexAt(j, indexes, k)]
    BY <1>5, <2>1
  <2> QED
    BY <1>m, <2>2 DEF IndexAt
<1>8. Place(j, dims, indexes) = (CHOOSE z : Is(z))[Len(dims)]
  BY DEF Place
<1> HIDE DEF Is
<1>9. PICK z : Is(z) /\ Place(j, dims, indexes) = z[Len(dims)]
  BY <1>7, <1>8, Zenon
<1>10. z = h
  <2>1. z = [k \in 0 .. m |-> IF k = 0 THEN 0 ELSE z[k - 1] * dims[k] + IndexAt(j, indexes, k)]
    BY <1>9, <1>m DEF Is, IndexAt
  <2>t. PICK T : T = {k \in 0 .. m : z[k] = h[k]}
    OBVIOUS
  <2>2. 0 \in T
    BY <1>5, <1>m, <2>1, <2>t
  <2>3. ASSUME NEW k \in 1 .. m, k - 1 \in T PROVE k \in T
    <3>1. k \in 0 .. m /\ k # 0 /\ z[k - 1] = h[k - 1]
      BY <1>m, <2>3, <2>t
    <3>2. z[k] = z[k - 1] * dims[k] + IndexAt(j, indexes, k)
      BY <2>1, <3>1
    <3> QED
      BY <1>6, <2>t, <3>1, <3>2
  <2>4. \A k \in 1 .. m : k - 1 \in T => k \in T
    BY <2>3
  <2>5. \A k \in 0 .. m : k \in T
    BY <1>m, <2>2, <2>4, UpTo
  <2>6. \A k \in 0 .. m : z[k] = h[k]
    BY <2>t, <2>5
  <2> QED
    BY <1>5, <2>1, <2>6
<1> QED
  BY <1>5, <1>6, <1>9, <1>10, <1>m

\* The place of an element among all, index by index: each adds what its
\* steps pass over, and never goes beyond the array it is in.
LEMMA RowMajor ==
  ASSUME NEW j, NEW dims, NEW indexes, InArray(j, dims, indexes), indexes \in Seq(Operands)
  PROVE  \E S \in [0 .. Len(indexes) -> Nat] :
            /\ S[0] = 0 /\ S[Len(indexes)] = Place(j, dims, indexes)
            /\ \A k \in 1 .. Len(indexes) :
                  /\ ValueIn(j, indexes[k]) \in Nat
                  /\ S[k] = S[k - 1] + ValueIn(j, indexes[k]) * Weight(dims, k)
            /\ \A k \in 0 .. Len(indexes) : S[k] + Weight(dims, k) <= TotalSize(dims)
<1>m. PICK m : m \in Nat /\ m = Len(dims)
  BY DEF InArray
<1>n. PICK n : n \in Nat /\ n = Len(indexes) /\ n <= m
  <2>1. Len(indexes) \in Nat
    OBVIOUS
  <2> QED
    BY <1>m, <2>1 DEF InArray
<1>w. PICK w : w = [k \in 0 .. m |-> Weight(dims, k)]
  OBVIOUS
<1>1. /\ w \in [0 .. m -> Nat \ {0}] /\ w[m] = 1 /\ w[0] = TotalSize(dims)
      /\ \A k \in 1 .. m : w[k - 1] = dims[k] * w[k] /\ dims[k] \in Nat \ {0}
  <2>1. /\ \A k \in 0 .. m : Weight(dims, k) \in Nat \ {0}
        /\ Weight(dims, m) = 1
        /\ \A k \in 1 .. m : Weight(dims, k - 1) = dims[k] * Weight(dims, k)
    BY <1>m, Weights DEF InArray
  <2>2. \A k \in 1 .. m : dims[k] \in Nat \ {0}
    BY <1>m DEF InArray
  <2>3. m \in 0 .. m /\ 0 \in 0 .. m /\ \A k \in 1 .. m : k \in 0 .. m /\ k - 1 \in 0 .. m
    BY <1>m
  <2>4. Weight(dims, 0) = TotalSize(dims)
    BY DEF Weight
  <2> QED
    BY <1>w, <2>1, <2>2, <2>3, <2>4
<1>2. PICK h \in [0 .. m -> Int] :
            /\ h[0] = 0 /\ Place(j, dims, indexes) = h[m]
            /\ \A k \in 1 .. m : h[k] = h[k - 1] * dims[k] + IndexAt(j, indexes, k)
  BY <1>m, PlaceExists
<1>3. ASSUME NEW k \in 1 .. m PROVE IndexAt(j, indexes, k) \in 0 .. dims[k] - 1
  <2>1. CASE k <= n
    <3>1. k \in 1 .. Len(indexes)
      BY <1>n, <2>1
    <3>2. ValueIn(j, indexes[k]) \in 0 .. dims[k] - 1
      BY <3>1 DEF InArray
    <3> QED
      BY <1>n, <2>1, <3>2 DEF IndexAt
  <2>2. CASE ~(k <= n)
    <3>1. IndexAt(j, indexes, k) = 0
      BY <1>n, <2>2 DEF IndexAt
    <3>2. dims[k] \in Nat \ {0}
      BY <1>1
    <3> QED
      BY <3>1, <3>2
  <2> QED
    BY <2>1, <2>2
<1>4. \A k \in 0 .. m : h[k] \in Nat /\ h[k] * w[k] \in Nat /\ h[k] * w[k] + w[k] <= w[0]
  <2>t. PICK T : T = {k \in 0 .. m : h[k] \in Nat /\ h[k] * w[k] \in Nat /\ h[k] * w[k] + w[k] <= w[0]}
    OBVIOUS
  <2>1. 0 \in T
    <3>1. 0 \in 0 .. m /\ w[0] \in Nat
      BY <1>m, <1>1
    <3> QED
      BY <1>2, <2>t, <3>1
  <2>2. ASSUME NEW k \in 1 .. m, k - 1 \in T PROVE k \in T
    <3>1. PICK a : a \in Nat /\ a = h[k - 1] /\ a * w[k - 1] + w[k - 1] <= w[0]
      BY <2>2, <2>t
    <3>2. PICK d : d \in Nat /\ d = dims[k]
      BY <1>1
    <3>3. PICK v : v \in 0 .. d - 1 /\ v = IndexAt(j, indexes, k)
      BY <1>3, <3>2
    <3>4. PICK x : x \in Nat /\ x = w[k] /\ w[k - 1] = d * x
      BY <1>1, <3>2
    <3>5. h[k] = a * d + v
      BY <1>2, <3>1, <3>2, <3>3
    <3>6. PICK top : top \in Nat /\ top = w[0]
      <4>1. 0 \in 0 .. m
        BY <1>m
      <4>2. w[0] \in Nat
        BY <1>1, <4>1
      <4> QED
        BY <4>2
    <3>7. a * (d * x) + d * x <= top
      BY <3>1, <3>4, <3>6
    <3>8. /\ a * d + v \in Nat /\ (a * d + v) * x \in Nat
          /\ (a * d + v) * x + x <= a * (d * x) + d * x
      <4>1. a * d \in Nat /\ v \in Nat /\ d - 1 - v \in Nat
        BY <3>1, <3>2, <3>3
      <4>2. PICK b : b \in Nat /\ b = a * d
        BY <4>1
      <4>3. PICK c : c \in Nat /\ c = d - 1 - v
        BY <4>1
      <4>4. \A r, s \in Nat : r * s \in Nat
        OBVIOUS
      <4>5. (b + v) * x + x + c * x = b * x + d * x
        <5>1. d = c + 1 + v
          BY <3>2, <3>3, <4>3
        <5>2. b * x \in Nat /\ v * x \in Nat /\ c * x \in Nat
          BY <3>4, <4>1, <4>2, <4>3, <4>4
        <5>3. (c + 1 + v) * x = c * x + x + v * x /\ (b + v) * x = b * x + v * x
          BY <3>4, <4>1, <4>2, <4>3
        <5> QED
          BY <5>1, <5>2, <5>3, <3>4
      <4>6. b * x = a * (d * x)
        BY <3>1, <3>2, <3>4, <4>2
      <4>7. (b + v) * x \in Nat /\ c * x \in Nat /\ b * x \in Nat /\ d * x \in Nat
        <5>1. b + v \in Nat
          BY <4>1, <4>2
        <5> QED
          BY <3>2, <3>4, <4>2, <4>3, <4>4, <5>1
      <4>8. (b + v) * x + x <= b * x + d * x
        BY <3>4, <4>5, <4>7
      <4> QED
        BY <4>1, <4>2, <4>6, <4>7, <4>8
    <3>9. a * d + v \in Nat /\ (a * d + v) * x \in Nat /\ (a * d + v) * x + x <= top
      <4>1. \A p, q, r, s \in Nat : p + q <= r /\ r <= s => p + q <= s
        OBVIOUS
      <4>2. a * (d * x) + d * x \in Nat
        <5>1. \A p, q, r \in Nat : p * (q * r) + q * r \in Nat
          OBVIOUS
        <5> QED
          BY <3>1, <3>2, <3>4, <5>1
      <4> QED
        BY <3>4, <3>6, <3>7, <3>8, <4>1, <4>2
    <3> QED
      BY <2>t, <3>4, <3>5, <3>6, <3>9
  <2>3. \A k \in 1 .. m : k - 1 \in T => k \in T
    BY <2>2
  <2>4. \A k \in 0 .. m : k \in T
    BY <1>m, <2>1, <2>3, UpTo
  <2> QED
    BY <2>t, <2>4
<1>5. ASSUME NEW k \in 1 .. m PROVE h[k] * w[k] = h[k - 1] * w[k - 1] + IndexAt(j, indexes, k) * w[k]
  <2>1. PICK a : a \in Int /\ a = h[k - 1]
    BY <1>2, <1>m
  <2>2. PICK d : d \in Nat /\ d = dims[k]
    BY <1>1
  <2>3. PICK v : v \in 0 .. d - 1 /\ v = IndexAt(j, indexes, k)
    BY <1>3, <2>2
  <2>4. PICK x : x \in Nat /\ x = w[k] /\ w[k - 1] = d * x
    BY <1>1, <2>2
  <2>5. h[k] = a * d + v
    BY <1>2, <2>1, <2>2, <2>3
  <2>6. \A p, q, r, s \in Int : (p * q + r) * s = p * (q * s) + r * s
    OBVIOUS
  <2>7. (a * d + v) * x = a * (d * x) + v * x
    <3>1. v \in Int /\ d \in Int /\ x \in Int
      BY <2>2, <2>3, <2>4
    <3> QED
      BY <2>1, <2>6, <3>1
  <2>8. h[k] * w[k] = (a * d + v) * x
    BY <2>4, <2>5
  <2>9. a * (d * x) = h[k - 1] * w[k - 1]
    BY <2>1, <2>4
  <2>10. v * x = IndexAt(j, indexes, k) * w[k]
    BY <2>3, <2>4
  <2> QED
    BY <2>7, <2>8, <2>9, <2>10
<1>6. ASSUME NEW k \in 0 .. m, k >= n PROVE h[k] * w[k] = h[n] * w[n]
  <2>t. PICK T : T = {i \in 0 .. m : i >= n => h[i] * w[i] = h[n] * w[n]}
    OBVIOUS
  <2>1. 0 \in T
    BY <1>m, <1>n, <2>t
  <2>2. ASSUME NEW i \in 1 .. m, i - 1 \in T PROVE i \in T
    <3>1. CASE i <= n
      BY <1>n, <2>t, <3>1
    <3>2. CASE ~(i <= n)
      <4>1. i - 1 >= n
        BY <1>n, <3>2
      <4>2. h[i - 1] * w[i - 1] = h[n] * w[n]
        BY <2>2, <2>t, <4>1
      <4>3. IndexAt(j, indexes, i) = 0
        BY <1>n, <3>2 DEF IndexAt
      <4>4. w[i] \in Int /\ h[i - 1] * w[i - 1] \in Int
        <5>1. i \in 0 .. m /\ i - 1 \in 0 .. m
          BY <1>m
        <5> QED
          BY <1>1, <1>4, <5>1
      <4>5. h[i] * w[i] = h[i - 1] * w[i - 1]
        BY <1>5, <4>3, <4>4
      <4> QED
        BY <2>t, <4>2, <4>5, <1>m
    <3> QED
      BY <3>1, <3>2
  <2>3. \A i \in 1 .. m : i - 1 \in T => i \in T
    BY <2>2
  <2>4. \A i \in 0 .. m : i \in T
    BY <1>m, <2>1, <2>3, UpTo
  <2> QED
    BY <1>6, <2>t, <2>4
<1>7. PICK S : S = [k \in 0 .. n |-> h[k] * w[k]]
  OBVIOUS
<1>8. \A k \in 0 .. n : k \in 0 .. m
  BY <1>n, <1>m
<1>9. S \in [0 .. n -> Nat] /\ \A k \in 0 .. n : S[k] = h[k] * w[k]
  BY <1>4, <1>7, <1>8
<1>10. S[0] = 0
  <2>1. 0 \in 0 .. n /\ w[0] \in Int
    BY <1>n, <1>m, <1>1
  <2> QED
    BY <1>2, <1>9, <2>1
<1>11. S[n] = Place(j, dims, indexes)
  <2>1. n \in 0 .. n /\ m \in 0 .. m /\ m >= n
    BY <1>n, <1>m
  <2>2. h[m] * w[m] = h[n] * w[n]
    BY <1>6, <2>1
  <2>3. h[m] \in Int
    BY <1>2, <2>1
  <2> QED
    BY <1>1, <1>2, <1>9, <2>1, <2>2, <2>3
<1>12. ASSUME NEW k \in 1 .. n
       PROVE  /\ ValueIn(j, indexes[k]) \in Nat
              /\ S[k] = S[k - 1] + ValueIn(j, indexes[k]) * Weight(dims, k)
  <2>1. k \in 1 .. m /\ k \in 0 .. n /\ k - 1 \in 0 .. n /\ k <= Len(indexes) /\ k \in 0 .. m
    BY <1>n, <1>m
  <2>2. IndexAt(j, indexes, k) = ValueIn(j, indexes[k])
    BY <2>1 DEF IndexAt
  <2>3. IndexAt(j, indexes, k) \in Nat
    <3>1. dims[k] \in Nat
      BY <1>1, <2>1
    <3> QED
      BY <1>3, <2>1, <3>1
  <2> QED
    BY <1>5, <1>9, <1>w, <2>1, <2>2, <2>3
<1>13. \A k \in 0 .. n : S[k] + Weight(dims, k) <= TotalSize(dims)
  BY <1>1, <1>4, <1>8, <1>9, <1>w
<1> QED
  BY <1>9, <1>10, <1>11, <1>12, <1>13, <1>n

-----------------------------------------------------------------------------
(* Addresses *)

\* What is near an address, or near what memory holds there, is in a register.
LEMMA AddressRanges ==
  ASSUME NEW a \in Addresses
  PROVE  /\ a \in Int /\ a \in Moderate /\ a \in RegRange
         /\ \A n \in Ints : /\ n \in Int /\ a + n \in Int /\ Mem(a + n) \in Int
                            /\ \A u \in -(2 * IntHalf) .. 2 * IntHalf :
                                  a + n + u \in RegRange /\ Mem(a + n) + u \in RegRange
         /\ \A u \in -(2 * IntHalf) .. 2 * IntHalf : a + u \in RegRange
<1>h. PICK h : h \in Nat /\ h = IntHalf
  BY Sizes
<1>s. PICK s : s \in Nat /\ s = IntHalf * IntHalf
  BY Sizes
<1>1. /\ h >= 8 /\ s >= 8 * h /\ RegHalf = s + s
      /\ Ints = -h .. h - 1 /\ Moderate = -s .. s /\ RegRange = -(s + s) .. s + s
  BY <1>h, <1>s, Sizes DEF Moderate, RegRange
<1>2. a \in Int /\ -(s + s) <= 16 * a /\ 16 * a <= s + s
  BY <1>1, <1>s DEF Addresses, Abs
<1>3. ASSUME NEW n \in -h .. h - 1, NEW u \in -(2 * h) .. 2 * h
      PROVE  /\ a + n + u \in -(s + s) .. s + s
             /\ 3 * (a + n) + 1 + u \in -(s + s) .. s + s
  BY <1>1, <1>2, <1>h, <1>s
<1>4. \A n \in Ints : Mem(a + n) = 3 * (a + n) + 1
  BY DEF Mem
<1>5. \A u \in -(2 * h) .. 2 * h : a + u \in -(s + s) .. s + s
  BY <1>1, <1>2, <1>h, <1>s
<1>6. a \in -s .. s /\ a \in -(s + s) .. s + s
  BY <1>1, <1>2, <1>h, <1>s
<1>7. \A n \in Ints : n \in Int /\ a + n \in Int /\ 3 * (a + n) + 1 \in Int
  BY <1>1, <1>2, <1>h
<1> QED
  BY <1>1, <1>2, <1>3, <1>4, <1>5, <1>6, <1>7, <1>h

\* An access at an offset from s0, or the address itself.
LEMMA OffsetValue ==
  ASSUME NEW g \in Nat, g >= 1, NEW e, Linear(e, g), NEW n, IsOffset(n),
         NEW op \in {"addi", "load", "store"}, NEW b \in 0 .. e.used
  PROVE  LET e1 == ProcessImm(e, S0, n)
             e2 == Emit(e1, op, e1.at, b, ImmLeft(n))
         IN /\ Linear(e2, g) /\ e2.used \in e.used + 1 .. e.used + 3 /\ e2.at = e2.used
            /\ \A R : Holds(R, e2.code) /\ R[S0] \in Addresses =>
                 /\ Holds(R, e.code)
                 /\ R[e2.at] = (IF op = "load" THEN Mem(R[S0] + n) ELSE R[S0] + n)
                 /\ Small(R, e.code) => Small(R, e2.code)
<1>u. PICK u : u \in Nat /\ u = e.used /\ u >= g
  BY DEF Linear, Emissions
<1>n. n \in Ints /\ n \in Int /\ Reached(n) = n
  BY IntsAreInt, Widths2 DEF IsOffset, Reached
<1>1. S0 = 1 /\ S0 \in 0 .. e.used
  BY <1>u DEF S0
<1>i. PICK m : m \in Int /\ m = ImmLeft(n) /\ FitsImm(m)
  BY <1>n, ImmLeftFits
<1>p. PICK e1 : e1 = ProcessImm(e, S0, n)
  OBVIOUS
<1>q. PICK e2 : e2 = Emit(e1, op, e1.at, b, m)
  OBVIOUS
<1>2. /\ Linear(e1, g) /\ e1.used \in e.used .. e.used + 2
      /\ \A R : Holds(R, e1.code) =>
              /\ Holds(R, e.code)
              /\ Content(R, S0) \in Int => Content(R, e1.at) + m = Content(R, S0) + Reached(n)
              /\ Content(R, S0) \in Moderate /\ Small(R, e.code) => Small(R, e1.code)
  BY <1>1, <1>n, <1>i, <1>p, ProcessImmValue
<1>3. e1.at \in 0 .. e1.used /\ b \in 0 .. e1.used /\ e1.used \in Nat
  BY <1>2, <1>u DEF Linear
<1>4. op \in ImmOps \union PlainOps /\ Assembles(Inst(op, 0, e1.at, b, m))
  BY <1>i DEF ImmOps, Assembles, Inst
<1>5. /\ Linear(e2, g) /\ e2.used = e1.used + 1 /\ e2.at = e1.used + 1
      /\ \A R : Holds(R, e2.code) =>
              /\ Holds(R, e1.code)
              /\ R[e1.used + 1] = Effect(Inst(op, e1.used + 1, e1.at, b, m), Content(R, e1.at), Content(R, b))
              /\ Small(R, e1.code) /\ R[e1.used + 1] \in RegRange => Small(R, e2.code)
  <2>1. Linear(e1, g) /\ m \in Int /\ op \in ImmOps \union PlainOps
    BY <1>2, <1>4, <1>i
  <2>2. e1.at \in 0 .. e1.used /\ b \in 0 .. e1.used /\ Assembles(Inst(op, 0, e1.at, b, m))
    BY <1>3, <1>4
  <2> QED
    BY <2>1, <2>2, <1>q, EmitLinear
<1>6. e2.used \in e.used + 1 .. e.used + 3 /\ e2.at = e2.used
  BY <1>2, <1>3, <1>5, <1>u
<1>7. ASSUME NEW R, Holds(R, e2.code), R[S0] \in Addresses
      PROVE  /\ Holds(R, e.code)
             /\ R[e2.at] = (IF op = "load" THEN Mem(R[S0] + n) ELSE R[S0] + n)
             /\ Small(R, e.code) => Small(R, e2.code)
  <2>1. Content(R, S0) = R[S0] /\ R[S0] \in Int /\ R[S0] \in Moderate
    BY <1>1, <1>7, AddressRanges DEF Content
  <2>x. PICK x : x = Content(R, e1.at)
    OBVIOUS
  <2>2. x + m = R[S0] + n
    BY <1>2, <1>5, <1>7, <1>n, <2>1, <2>x
  <2>3. R[e1.used + 1] = IF op = "load" THEN Mem(x + m) ELSE x + m
    BY <1>5, <1>7, <2>x, Effects, OtherEffects
  <2>4. R[e1.used + 1] = IF op = "load" THEN Mem(R[S0] + n) ELSE R[S0] + n
    BY <2>2, <2>3
  <2>5. R[e1.used + 1] \in RegRange
    <3>1. 0 \in -(2 * IntHalf) .. 2 * IntHalf
      BY Sizes
    <3>2. R[S0] + n + 0 \in RegRange /\ Mem(R[S0] + n) + 0 \in RegRange /\ Mem(R[S0] + n) \in Int /\ R[S0] + n \in Int
      BY <1>7, <1>n, <3>1, AddressRanges
    <3> QED
      BY <2>4, <3>2
  <2> QED
    BY <1>2, <1>5, <1>7, <2>1, <2>4, <2>5
<1> QED
  BY <1>5, <1>6, <1>7, <1>i, <1>p, <1>q

-----------------------------------------------------------------------------
(* The instructions of an address *)

\* The same code, with another register to go on from.
LEMMA AtLinear ==
  ASSUME NEW g \in Nat, NEW e, Linear(e, g), NEW k \in 0 .. e.used
  PROVE  /\ Linear([e EXCEPT !.at = k], g)
         /\ [e EXCEPT !.at = k].code = e.code
         /\ [e EXCEPT !.at = k].used = e.used
         /\ [e EXCEPT !.at = k].at = k
<1>1. e \in Emissions /\ e.used \in Int
  BY DEF Linear, Emissions
<1>2. [e EXCEPT !.at = k] \in Emissions
  BY <1>1 DEF Emissions
<1>3. /\ [e EXCEPT !.at = k].code = e.code
      /\ [e EXCEPT !.at = k].used = e.used
      /\ [e EXCEPT !.at = k].at = k
  BY <1>1 DEF Emissions
<1> QED
  BY <1>2, <1>3 DEF Linear

\* A pointer and its step.
LEMMA StepGEPValue ==
  ASSUME NEW g \in Nat, NEW e, Linear(e, g), e.at \in 1 .. e.used,
         NEW size \in Ints, NEW index \in Operands,
         index.const => size * index.n \in Ints,
         index.const \/ index.n \in 1 .. e.used
  PROVE  LET e2 == EmitStepGEP(e, size, index)
         IN /\ Linear(e2, g) /\ e2.used \in e.used + 2 .. e.used + 3 /\ e2.at = e2.used
            /\ size = 4 => e2.used = e.used + 2
            /\ \A R : Holds(R, e2.code) =>
                 /\ Holds(R, e.code)
                 /\ (R[e.at] \in Int /\ Held(R, index) \in Int /\ size * Held(R, index) \in Ints)
                      => /\ R[e2.at] = R[e.at] + size * Held(R, index)
                         /\ Small(R, e.code) /\ R[e.at] + size * Held(R, index) \in RegRange
                              => Small(R, e2.code)
<1>u. PICK u : u \in Nat /\ u = e.used
  BY DEF Linear, Emissions
<1>p. PICK p : p \in 1 .. u /\ p = e.at
  BY <1>u
<1>s. size \in Int
  BY IntsAreInt
<1>4. PICK e1 : e1 = IF index.const THEN LoadConstInt(e, size * index.n)
                     ELSE IF size = 4 THEN Emit(e, "slli", index.n, 0, 2)
                     ELSE LET li == LoadConstInt(e, size) IN Emit(li, "mul", index.n, li.at, 0)
  OBVIOUS
<1>5. EmitStepGEP(e, size, index) = Emit(e1, "add", p, e1.at, 0)
  BY <1>4, <1>p DEF EmitStepGEP
<1>6. /\ Linear(e1, g) /\ e1.used \in u + 1 .. u + 2 /\ e1.at = e1.used
      /\ size = 4 => e1.used = u + 1
      /\ \A R : Holds(R, e1.code) =>
           /\ Holds(R, e.code)
           /\ Held(R, index) \in Int /\ size * Held(R, index) \in Ints
                => /\ R[e1.at] = size * Held(R, index)
                   /\ Small(R, e.code) => Small(R, e1.code)
  <2>1. CASE index.const
    <3>1. e1 = Emit(e, "li", 0, 0, size * index.n) /\ size * index.n \in Int
      BY <1>4, <2>1, IntsAreInt DEF LoadConstInt
    <3>2. 0 \in 0 .. e.used /\ "li" \in ImmOps \union PlainOps /\ Assembles(Inst("li", 0, 0, 0, size * index.n))
      BY <1>u, <2>1 DEF Assembles, Inst, ImmOps
    <3>3. /\ Linear(e1, g) /\ e1.used = u + 1 /\ e1.at = u + 1
          /\ \A R : Holds(R, e1.code) =>
               /\ Holds(R, e.code)
               /\ R[u + 1] = Effect(Inst("li", u + 1, 0, 0, size * index.n), Content(R, 0), Content(R, 0))
               /\ Small(R, e.code) /\ R[u + 1] \in RegRange => Small(R, e1.code)
      BY <1>u, <3>1, <3>2, EmitLinear
    <3>4. \A R : Held(R, index) = index.n
      BY <2>1 DEF Held
    <3>5. u + 1 \in u + 1 .. u + 2
      BY <1>u
    <3>6. \A R : Holds(R, e1.code) => R[u + 1] = size * index.n /\ R[u + 1] \in RegRange
      BY <2>1, <3>3, Effects, Ranges
    <3> QED
      BY <3>3, <3>4, <3>5, <3>6
  <2>2. CASE ~index.const /\ size = 4
    <3>i. index.n \in 1 .. u /\ index.n \in 0 .. e.used /\ 0 \in 0 .. e.used /\ index.n \in Nat /\ index.n > 0
      BY <1>u, <2>2
    <3>1. e1 = Emit(e, "slli", index.n, 0, 2) /\ "slli" \in PlainOps /\ 2 \in Int
      BY <1>4, <2>2 DEF PlainOps
    <3>3. /\ Linear(e1, g) /\ e1.used = u + 1 /\ e1.at = u + 1
          /\ \A R : Holds(R, e1.code) =>
               /\ Holds(R, e.code)
               /\ R[u + 1] = Effect(Inst("slli", u + 1, index.n, 0, 2), Content(R, index.n), Content(R, 0))
               /\ Small(R, e.code) /\ R[u + 1] \in RegRange => Small(R, e1.code)
      <4>1. "slli" \in PlainOps /\ index.n \in 0 .. e.used /\ 0 \in 0 .. e.used /\ 2 \in Int
        BY <3>1, <3>i
      <4> QED
        BY <1>u, <3>1, <4>1, EmitPlainLinear
    <3>4. \A R : Held(R, index) = R[index.n] /\ Content(R, index.n) = R[index.n]
      BY <2>2, <3>i, ContentAt DEF Held
    <3>5. u + 1 \in u + 1 .. u + 2
      BY <1>u
    <3>6. \A R : Holds(R, e1.code) => R[u + 1] = R[index.n] * 2 ^ 2
      <4>1. \A x, y : Effect(Inst("slli", u + 1, index.n, 0, 2), x, y) = x * 2 ^ 2
        <5>1. \A n : \A x, y : Effect(Inst("slli", u + 1, index.n, 0, n), x, y) = x * 2 ^ n
          BY OtherEffects
        <5> QED
          BY <5>1, Zenon
      <4> QED
        BY <3>3, <3>4, <4>1
    <3>7. \A x \in Int : x * 2 ^ 2 = 4 * x
      OBVIOUS
    <3> QED
      BY <2>2, <3>3, <3>4, <3>5, <3>6, <3>7, Ranges
  <2>3. CASE ~index.const /\ size # 4
    <3>l. PICK li : li = LoadConstInt(e, size)
      OBVIOUS
    <3>i. index.n \in 1 .. u /\ 0 \in 0 .. e.used /\ index.n \in Nat /\ index.n > 0
      BY <1>u, <2>3
    <3>1. li = Emit(e, "li", 0, 0, size) /\ e1 = Emit(li, "mul", index.n, li.at, 0)
      BY <1>4, <2>3, <3>l DEF LoadConstInt
    <3>2. "li" \in ImmOps \union PlainOps /\ Assembles(Inst("li", 0, 0, 0, size))
      BY DEF Assembles, Inst, ImmOps
    <3>3. /\ Linear(li, g) /\ li.used = u + 1 /\ li.at = u + 1
          /\ \A R : Holds(R, li.code) =>
               /\ Holds(R, e.code)
               /\ R[u + 1] = Effect(Inst("li", u + 1, 0, 0, size), Content(R, 0), Content(R, 0))
               /\ Small(R, e.code) /\ R[u + 1] \in RegRange => Small(R, li.code)
      BY <1>s, <1>u, <3>1, <3>2, <3>i, EmitLinear
    <3>4. index.n \in 0 .. li.used /\ li.at \in 0 .. li.used /\ "mul" \in PlainOps /\ 0 \in Int
      BY <1>u, <3>3, <3>i DEF PlainOps
    <3>5. /\ Linear(e1, g) /\ e1.used = li.used + 1 /\ e1.at = li.used + 1
          /\ \A R : Holds(R, e1.code) =>
               /\ Holds(R, li.code)
               /\ R[li.used + 1] = Effect(Inst("mul", li.used + 1, index.n, li.at, 0), Content(R, index.n), Content(R, li.at))
               /\ Small(R, li.code) /\ R[li.used + 1] \in RegRange => Small(R, e1.code)
      <4>1. Linear(li, g) /\ index.n \in 0 .. li.used /\ li.at \in 0 .. li.used /\ "mul" \in PlainOps /\ 0 \in Int
        BY <3>3, <3>4
      <4>a. PICK a : a = li.at
        OBVIOUS
      <4>i. PICK i : i = index.n
        OBVIOUS
      <4>2. e1 = Emit(li, "mul", i, a, 0)
        BY <3>1, <4>a, <4>i
      <4>3. i \in 0 .. li.used /\ a \in 0 .. li.used
        BY <4>1, <4>a, <4>i
      <4>4. /\ Linear(e1, g) /\ e1.used = li.used + 1 /\ e1.at = li.used + 1
            /\ \A R : Holds(R, e1.code) =>
               /\ Holds(R, li.code)
               /\ R[li.used + 1] = Effect(Inst("mul", li.used + 1, i, a, 0), Content(R, i), Content(R, a))
               /\ Small(R, li.code) /\ R[li.used + 1] \in RegRange => Small(R, e1.code)
        <5>1. Linear(li, g) /\ "mul" \in PlainOps /\ 0 \in Int
          BY <4>1
        <5>2. i \in 0 .. li.used /\ a \in 0 .. li.used
          BY <4>3
        <5> QED
          BY <4>2, <5>1, <5>2, EmitPlainLinear, SMTT(60)
      <4> QED
        BY <4>4, <4>a, <4>i
    <3>6. \A R : Held(R, index) = R[index.n] /\ Content(R, index.n) = R[index.n] /\ Content(R, li.at) = R[u + 1]
      BY <1>u, <2>3, <3>3, <3>i, ContentAt DEF Held
    <3>7. e1.used \in u + 1 .. u + 2 /\ e1.at = e1.used
      BY <1>u, <3>3, <3>5
    <3>8. \A R : Holds(R, e1.code) => R[u + 1] = size /\ R[e1.at] = R[index.n] * size
      BY <3>3, <3>5, <3>6, Effects, OtherEffects
    <3>9. \A x \in Int : x * size = size * x
      BY <1>s
    <3> QED
      BY <2>3, <3>3, <3>5, <3>6, <3>7, <3>8, <3>9, Ranges
  <2> QED
    BY <2>1, <2>2, <2>3
<1>7. PICK e2 : e2 = Emit(e1, "add", p, e1.at, 0)
  OBVIOUS
<1>8. p \in 0 .. e1.used /\ e1.at \in 0 .. e1.used /\ "add" \in PlainOps /\ 0 \in Int /\ e1.used \in Nat
  BY <1>u, <1>p, <1>6 DEF PlainOps
<1>9. /\ Linear(e2, g) /\ e2.used = e1.used + 1 /\ e2.at = e1.used + 1
      /\ \A R : Holds(R, e2.code) =>
           /\ Holds(R, e1.code)
           /\ R[e1.used + 1] = Effect(Inst("add", e1.used + 1, p, e1.at, 0), Content(R, p), Content(R, e1.at))
           /\ Small(R, e1.code) /\ R[e1.used + 1] \in RegRange => Small(R, e2.code)
  BY <1>6, <1>7, <1>8, EmitPlainLinear
<1>10. \A R : Content(R, p) = R[p] /\ Content(R, e1.at) = R[e1.at]
  BY <1>u, <1>p, <1>6, ContentAt
<1>11. \A R : Holds(R, e2.code) => R[e2.at] = R[p] + R[e1.at]
  BY <1>9, <1>10, Effects
<1>12. e2.used \in u + 2 .. u + 3 /\ e2.at = e2.used /\ (size = 4 => e2.used = u + 2)
  BY <1>u, <1>6, <1>9
<1>13. ASSUME NEW R, Holds(R, e2.code), R[e.at] \in Int, Held(R, index) \in Int, size * Held(R, index) \in Ints
       PROVE  /\ Holds(R, e.code)
              /\ R[e2.at] = R[e.at] + size * Held(R, index)
              /\ Small(R, e.code) /\ R[e.at] + size * Held(R, index) \in RegRange => Small(R, e2.code)
  <2>1. Holds(R, e1.code)
    BY <1>9, <1>13
  <2>2. Holds(R, e.code) /\ R[e1.at] = size * Held(R, index) /\ (Small(R, e.code) => Small(R, e1.code))
    BY <1>6, <1>13, <2>1
  <2>3. R[e2.at] = R[e.at] + size * Held(R, index)
    BY <1>11, <1>13, <1>p, <2>2
  <2> QED
    BY <1>9, <1>13, <2>2, <2>3
<1>14. \A R : Holds(R, e2.code) => Holds(R, e.code)
  BY <1>6, <1>9
<1> QED
  BY <1>5, <1>7, <1>9, <1>12, <1>13, <1>14, <1>u

-----------------------------------------------------------------------------
(* The operators that flatten the indexes *)

\* A register times a constant.
LEMMA MulConstValue ==
  ASSUME NEW g \in Nat, NEW e, Linear(e, g), NEW l \in Operands, ~l.const, l.n \in 1 .. e.used,
         NEW c \in Ints
  PROVE  LET e2 == EmitIntBinary(e, "MUL", l, Const(c))
         IN /\ Linear(e2, g) /\ e2.used = e.used + 2 /\ e2.at = e2.used
            /\ \A R : Holds(R, e2.code) =>
                 /\ Holds(R, e.code)
                 /\ R[l.n] \in Int =>
                      /\ R[e2.at] = ToInt(R[l.n] * c)
                      /\ Small(R, e.code) => Small(R, e2.code)
<1>u. PICK u : u \in Nat /\ u = e.used
  BY DEF Linear, Emissions
<1>a. PICK a : a \in 1 .. u /\ a = l.n
  BY <1>u
<1>e. PICK e0 : e0 = [e EXCEPT !.at = a]
  OBVIOUS
<1>l. PICK li : li = Emit(e0, "li", 0, 0, c)
  OBVIOUS
<1>m. PICK e2 : e2 = Emit(li, "mulw", a, li.at, 0)
  OBVIOUS
<1>1. EmitIntBinary(e, "MUL", l, Const(c)) = e2
  <2>1. Plan("MUL", l, Const(c)) = Two(l, Const(c))
    BY DEF Plan, Const, PlanConstRight
  <2>2. GetReg(e, l) = e0 /\ e0.at = a
    <3>1. e \in Emissions
      BY DEF Linear
    <3> QED
      BY <1>a, <1>e, <3>1 DEF GetReg, Emissions
  <2>3. GetReg(e0, Const(c)) = li
    BY <1>l DEF GetReg, Const, LoadConstInt
  <2>4. EmitPlan(e, "MUL", Two(l, Const(c))) = e2
    BY <1>m, <2>2, <2>3 DEF EmitPlan, Two, OnRegs
  <2>5. Two(l, Const(c)).revert = FALSE
    BY DEF Two
  <2> QED
    BY <2>1, <2>4, <2>5 DEF EmitIntBinary
<1>2. Linear(e0, g) /\ e0.code = e.code /\ e0.used = u
  <2>1. a \in 0 .. e.used
    BY <1>u, <1>a
  <2> QED
    BY <1>u, <1>e, <2>1, AtLinear
<1>3. /\ Linear(li, g) /\ li.used = u + 1 /\ li.at = u + 1
      /\ \A R : Holds(R, li.code) =>
           /\ Holds(R, e.code)
           /\ R[u + 1] = Effect(Inst("li", u + 1, 0, 0, c), Content(R, 0), Content(R, 0))
           /\ Small(R, e.code) /\ R[u + 1] \in RegRange => Small(R, li.code)
  <2>1. 0 \in 0 .. e0.used /\ c \in Int /\ "li" \in ImmOps \union PlainOps
    BY <1>2, <1>u, IntsAreInt DEF ImmOps
  <2>2. Assembles(Inst("li", 0, 0, 0, c))
    BY DEF Assembles, Inst
  <2> QED
    BY <1>2, <1>l, <2>1, <2>2, EmitLinear
<1>4. /\ Linear(e2, g) /\ e2.used = li.used + 1 /\ e2.at = li.used + 1
      /\ \A R : Holds(R, e2.code) =>
           /\ Holds(R, li.code)
           /\ R[li.used + 1] = Effect(Inst("mulw", li.used + 1, a, li.at, 0), Content(R, a), Content(R, li.at))
           /\ Small(R, li.code) /\ R[li.used + 1] \in RegRange => Small(R, e2.code)
  <2>1. Linear(li, g) /\ "mulw" \in PlainOps /\ 0 \in Int
    BY <1>3 DEF PlainOps
  <2>2. a \in 0 .. li.used /\ li.at \in 0 .. li.used
    BY <1>3, <1>u, <1>a
  <2>b. PICK b : b = li.at
    OBVIOUS
  <2>3. e2 = Emit(li, "mulw", a, b, 0)
    BY <1>m, <2>b
  <2>5. a \in 0 .. li.used /\ b \in 0 .. li.used
    BY <2>2, <2>b
  <2>4. /\ Linear(e2, g) /\ e2.used = li.used + 1 /\ e2.at = li.used + 1
        /\ \A R : Holds(R, e2.code) =>
             /\ Holds(R, li.code)
             /\ R[li.used + 1] = Effect(Inst("mulw", li.used + 1, a, b, 0), Content(R, a), Content(R, b))
             /\ Small(R, li.code) /\ R[li.used + 1] \in RegRange => Small(R, e2.code)
    BY <2>1, <2>3, <2>5, EmitPlainLinear, SMTT(60)
  <2> QED
    BY <2>4, <2>b
<1>5. \A R : Content(R, a) = R[a] /\ Content(R, li.at) = R[u + 1]
  BY <1>u, <1>a, <1>3, ContentAt
<1>6. e2.used = u + 2 /\ e2.at = e2.used
  BY <1>u, <1>3, <1>4
<1>7. \A R : Holds(R, li.code) => R[u + 1] = c
  BY <1>3, Effects
<1>8. \A R : Holds(R, e2.code) => R[e2.at] = ToInt(R[a] * R[u + 1])
  <2>1. \A d, b, x, y : Effect(Inst("mulw", d, a, b, 0), x, y) = ToInt(x * y)
    BY Effects
  <2> QED
    BY <1>4, <1>5, <2>1
<1>9. ASSUME NEW R, Holds(R, e2.code), R[a] \in Int
      PROVE  /\ Holds(R, e.code)
             /\ R[e2.at] = ToInt(R[a] * c)
             /\ Small(R, e.code) => Small(R, e2.code)
  <2>1. Holds(R, li.code) /\ R[u + 1] = c
    BY <1>4, <1>7, <1>9
  <2>2. R[e2.at] = ToInt(R[a] * c)
    BY <1>8, <1>9, <2>1
  <2>3. R[a] * c \in Int
    <3>1. c \in Int
      BY IntsAreInt
    <3> QED
      BY <1>9, <3>1
  <2>4. R[e2.at] \in RegRange /\ R[u + 1] \in RegRange
    BY <2>1, <2>2, <2>3, IntsAreInt, Ranges
  <2> QED
    BY <1>3, <1>4, <1>9, <2>1, <2>2, <2>4
<1>10. \A R : Holds(R, e2.code) => Holds(R, e.code)
  BY <1>3, <1>4
<1> QED
  BY <1>1, <1>4, <1>6, <1>9, <1>10, <1>u, <1>a

\* The sum of two registers.
LEMMA AddRegsValue ==
  ASSUME NEW g \in Nat, NEW e, Linear(e, g), NEW a \in 1 .. e.used, NEW b \in 1 .. e.used
  PROVE  LET e2 == EmitIntBinary(e, "ADD", Reg(a), Reg(b))
         IN /\ Linear(e2, g) /\ e2.used = e.used + 1 /\ e2.at = e2.used
            /\ \A R : Holds(R, e2.code) =>
                 /\ Holds(R, e.code)
                 /\ R[a] \in Int /\ R[b] \in Int =>
                      /\ R[e2.at] = ToInt(R[a] + R[b])
                      /\ Small(R, e.code) => Small(R, e2.code)
<1>u. PICK u : u \in Nat /\ u = e.used
  BY DEF Linear, Emissions
<1>e. PICK e0 : e0 = [e EXCEPT !.at = a]
  OBVIOUS
<1>f. PICK e1 : e1 = [e0 EXCEPT !.at = b]
  OBVIOUS
<1>m. PICK e2 : e2 = Emit(e1, "addw", a, b, 0)
  OBVIOUS
<1>2. a \in 0 .. e.used /\ b \in 0 .. e.used
  BY <1>u
<1>3. Linear(e0, g) /\ e0.code = e.code /\ e0.used = e.used /\ e0.at = a
  BY <1>e, <1>2, AtLinear
<1>4. Linear(e1, g) /\ e1.code = e.code /\ e1.used = e.used /\ e1.at = b
  <2>1. b \in 0 .. e0.used
    BY <1>2, <1>3
  <2> QED
    BY <1>f, <1>3, <2>1, AtLinear
<1>1. EmitIntBinary(e, "ADD", Reg(a), Reg(b)) = e2
  <2>1. Plan("ADD", Reg(a), Reg(b)) = Two(Reg(a), Reg(b))
    BY DEF Plan, Reg, PlanRegs
  <2>2. GetReg(e, Reg(a)) = e0 /\ GetReg(e0, Reg(b)) = e1
    BY <1>e, <1>f DEF GetReg, Reg
  <2>4. EmitPlan(e, "ADD", Two(Reg(a), Reg(b))) = e2
    BY <1>m, <1>3, <1>4, <2>2 DEF EmitPlan, Two, OnRegs
  <2>5. Two(Reg(a), Reg(b)).revert = FALSE
    BY DEF Two
  <2> QED
    BY <2>1, <2>4, <2>5 DEF EmitIntBinary
<1>5. /\ Linear(e2, g) /\ e2.used = u + 1 /\ e2.at = u + 1
      /\ \A R : Holds(R, e2.code) =>
           /\ Holds(R, e.code)
           /\ R[u + 1] = Effect(Inst("addw", u + 1, a, b, 0), Content(R, a), Content(R, b))
           /\ Small(R, e.code) /\ R[u + 1] \in RegRange => Small(R, e2.code)
  <2>1. "addw" \in PlainOps /\ 0 \in Int
    BY DEF PlainOps
  <2>2. a \in 0 .. e1.used /\ b \in 0 .. e1.used
    BY <1>2, <1>4
  <2>3. Linear(e1, g)
    BY <1>4
  <2>4. /\ Linear(e2, g) /\ e2.used = e1.used + 1 /\ e2.at = e1.used + 1
        /\ \A R : Holds(R, e2.code) =>
             /\ Holds(R, e1.code)
             /\ R[e1.used + 1] = Effect(Inst("addw", e1.used + 1, a, b, 0), Content(R, a), Content(R, b))
             /\ Small(R, e1.code) /\ R[e1.used + 1] \in RegRange => Small(R, e2.code)
    BY <1>m, <2>1, <2>2, <2>3, EmitPlainLinear
  <2> QED
    BY <1>u, <1>4, <2>4
<1>6. \A R : Content(R, a) = R[a] /\ Content(R, b) = R[b]
  BY <1>u, ContentAt
<1>8. \A R : Holds(R, e2.code) => R[u + 1] = ToInt(R[a] + R[b])
  <2>1. \A d, x, y : Effect(Inst("addw", d, a, b, 0), x, y) = ToInt(x + y)
    BY Effects
  <2> QED
    BY <1>5, <1>6, <2>1
<1>9. ASSUME NEW R, Holds(R, e2.code), R[a] \in Int, R[b] \in Int
      PROVE  R[u + 1] \in RegRange
  <2>1. R[a] + R[b] \in Int
    BY <1>9
  <2> QED
    BY <1>8, <1>9, <2>1, IntsAreInt, Ranges
<1> QED
  BY <1>1, <1>5, <1>8, <1>9, <1>u

\* A constant and a register.
LEMMA AddConstValue ==
  ASSUME NEW g \in Nat, NEW e, Linear(e, g), NEW b \in 1 .. e.used, NEW c \in Ints
  PROVE  LET e2 == EmitIntBinary(e, "ADD", Const(c), Reg(b))
         IN /\ Linear(e2, g) /\ e2.used \in e.used + 1 .. e.used + 3 /\ e2.at = e2.used
            /\ \A R : Holds(R, e2.code) =>
                 /\ Holds(R, e.code)
                 /\ R[b] \in Ints =>
                      /\ R[e2.at] = ToInt(R[b] + c)
                      /\ Small(R, e.code) => Small(R, e2.code)
<1>u. PICK u : u \in Nat /\ u = e.used
  BY DEF Linear, Emissions
<1>e. PICK e0 : e0 = [e EXCEPT !.at = b]
  OBVIOUS
<1>i. PICK m : m \in Int /\ m = ImmLeft(c) /\ FitsImm(m)
  BY ImmLeftFits
<1>p. PICK e1 : e1 = ProcessImm(e0, b, c)
  OBVIOUS
<1>m. PICK e2 : e2 = Emit(e1, "addiw", e1.at, 0, m)
  OBVIOUS
<1>2. b \in 0 .. e.used
  BY <1>u
<1>3. Linear(e0, g) /\ e0.code = e.code /\ e0.used = e.used /\ e0.at = b
  BY <1>e, <1>2, AtLinear
<1>1. EmitIntBinary(e, "ADD", Const(c), Reg(b)) = e2
  <2>1. Plan("ADD", Const(c), Reg(b)) = One(Reg(b), c)
    BY DEF Plan, Const, PlanConstLeft, Equalities
  <2>2. GetReg(e, Reg(b)) = e0
    BY <1>e DEF GetReg, Reg
  <2>3. One(Reg(b), c).src1 = Reg(b) /\ One(Reg(b), c).src2 = <<>> /\ One(Reg(b), c).imm = c
        /\ One(Reg(b), c).revert = FALSE
    BY DEF One
  <2>5. "ADD" \notin Relations /\ OnImm["ADD"] = "addiw"
    BY DEF Relations, OnImm
  <2>4. EmitPlan(e, "ADD", One(Reg(b), c)) = e2
    BY <1>m, <1>p, <1>i, <1>3, <2>2, <2>3, <2>5 DEF EmitPlan
  <2> QED
    BY <2>1, <2>3, <2>4 DEF EmitIntBinary
<1>4. /\ Linear(e1, g) /\ e1.used \in u .. u + 2
      /\ \A R : Holds(R, e1.code) =>
              /\ Holds(R, e.code)
              /\ Content(R, b) \in Int => Content(R, e1.at) + m = Content(R, b) + Reached(c)
              /\ Content(R, b) \in Moderate /\ Small(R, e.code) => Small(R, e1.code)
  <2>1. b \in 0 .. e0.used
    BY <1>2, <1>3
  <2>2. Linear(e0, g)
    BY <1>3
  <2>3. /\ Linear(e1, g) /\ e1.used \in e0.used .. e0.used + 2
        /\ \A R : Holds(R, e1.code) =>
             /\ Holds(R, e0.code)
             /\ Content(R, b) \in Int => Content(R, e1.at) + ImmLeft(c) = Content(R, b) + Reached(c)
             /\ Content(R, b) \in Moderate /\ Small(R, e0.code) => Small(R, e1.code)
    BY <1>p, <2>1, <2>2, ProcessImmValue
  <2> QED
    BY <1>u, <1>i, <1>3, <2>3
<1>5. /\ Linear(e2, g) /\ e2.used = e1.used + 1 /\ e2.at = e1.used + 1
      /\ \A R : Holds(R, e2.code) =>
              /\ Holds(R, e1.code)
              /\ R[e1.used + 1] = Effect(Inst("addiw", e1.used + 1, e1.at, 0, m), Content(R, e1.at), Content(R, 0))
              /\ Small(R, e1.code) /\ R[e1.used + 1] \in RegRange => Small(R, e2.code)
  <2>1. Linear(e1, g) /\ m \in Int
    BY <1>4, <1>i
  <2>4. "addiw" \in ImmOps \union PlainOps
    BY DEF ImmOps
  <2>2. e1.at \in 0 .. e1.used /\ 0 \in 0 .. e1.used
    BY <1>4, <1>u DEF Linear
  <2>3. Assembles(Inst("addiw", 0, e1.at, 0, m))
    BY <1>i DEF Assembles, Inst
  <2> QED
    BY <1>m, <2>1, <2>2, <2>3, <2>4, EmitLinear, SMTT(60)
<1>6. e2.used \in u + 1 .. u + 3 /\ e2.at = e2.used
  BY <1>u, <1>4, <1>5
<1>7. \A R : Content(R, b) = R[b]
  BY <1>u, ContentAt
<1>8. \A R : Holds(R, e2.code) => R[e2.at] = ToInt(Content(R, e1.at) + m)
  <2>1. \A d, x, y : Effect(Inst("addiw", d, e1.at, 0, m), x, y) = ToInt(x + m)
    BY Effects
  <2> QED
    BY <1>5, <2>1
<1>9. ASSUME NEW R, Holds(R, e2.code), R[b] \in Ints
      PROVE  /\ Holds(R, e.code)
             /\ R[e2.at] = ToInt(R[b] + c)
             /\ Small(R, e.code) => Small(R, e2.code)
  <2>1. R[b] \in Int /\ R[b] \in Moderate /\ c \in Int
    BY <1>9, IntsAreInt, Ranges
  <2>2. Holds(R, e1.code)
    BY <1>5, <1>9
  <2>3. Content(R, e1.at) + m = R[b] + Reached(c)
    BY <1>4, <1>7, <2>1, <2>2
  <2>4. R[e2.at] = ToInt(R[b] + c)
    BY <1>8, <1>9, <2>1, <2>3, ReachedWraps
  <2>5. R[e2.at] \in RegRange
    <3>1. R[b] + c \in Int
      BY <2>1
    <3> QED
      BY <2>4, <3>1, IntsAreInt, Ranges
  <2> QED
    BY <1>4, <1>5, <1>7, <1>9, <2>1, <2>2, <2>4, <2>5
<1>10. \A R : Holds(R, e2.code) => Holds(R, e.code)
  BY <1>4, <1>5
<1> QED
  BY <1>1, <1>5, <1>6, <1>9, <1>10, <1>u

-----------------------------------------------------------------------------
(* Flattening the indexes *)

\* What flattening produces.
Flattenings == [e : Emissions, constPart : Int, tmp : Loadable]

\* One more index gives such a record.
LEMMA AddIndexTyped ==
  ASSUME NEW f \in Flattenings, NEW index \in Loadable, NEW size \in Ints
  PROVE  AddIndex(f, index, size) \in Flattenings
<1>1. index.n \in Int /\ size \in Int /\ index \in Operands /\ (index.const => index.n \in Ints)
  BY IntsAreInt DEF Loadable, Operands
<1>2. f.e \in Emissions /\ f.constPart \in Int /\ f.tmp \in Loadable
  BY DEF Flattenings
<1>3. CASE index.const
  <2>1. f.constPart + index.n * size \in Int
    BY <1>1, <1>2
  <2>2. AddIndex(f, index, size) = [f EXCEPT !.constPart = f.constPart + index.n * size]
    BY <1>3 DEF AddIndex
  <2> QED
    BY <2>1, <2>2 DEF Flattenings
<1>4. CASE ~index.const
  <2>m. PICK m : m = EmitIntBinary(f.e, "MUL", index, Const(size))
    OBVIOUS
  <2>1. Const(size) \in Loadable /\ "MUL" \in IntOps
    BY <1>1 DEF Const, Loadable, Operands, IntOps, Arithmetics
  <2>2. m \in Emissions
    BY <1>2, <1>4, <2>1, <2>m, IntBinaryAssembles
  <2>a. PICK a : a = AddTmp(m, f.tmp)
    OBVIOUS
  <2>3. a \in Emissions
    <3>1. CASE f.tmp.const
      BY <2>2, <2>a, <3>1 DEF AddTmp
    <3>2. CASE ~f.tmp.const
      <4>1. m.at \in Int
        BY <2>2 DEF Emissions
      <4>2. Reg(m.at) \in Loadable /\ "ADD" \in IntOps /\ ~Reg(m.at).const
        BY <4>1 DEF Reg, Loadable, Operands, IntOps, Arithmetics
      <4>3. EmitIntBinary(m, "ADD", Reg(m.at), f.tmp) \in Emissions
        BY <1>2, <2>2, <4>2, IntBinaryAssembles
      <4> QED
        BY <2>a, <3>2, <4>3 DEF AddTmp
    <3> QED
      BY <3>1, <3>2
  <2>4. a.at \in Int
    BY <2>3 DEF Emissions
  <2>5. Reg(a.at) \in Loadable
    BY <2>4 DEF Reg, Loadable, Operands
  <2>6. AddIndex(f, index, size) = [f EXCEPT !.e = a, !.tmp = Reg(a.at)]
    BY <1>4, <2>m, <2>a DEF AddIndex, WithTmp
  <2> QED
    BY <2>3, <2>5, <2>6 DEF Flattenings
<1> QED
  BY <1>3, <1>4

\* The recursion of AddIndexes, as a function.
LEMMA AddIndexesExists ==
  ASSUME NEW e \in Emissions, NEW dims, NEW indexes \in Seq(Loadable),
         \A k \in 1 .. Len(indexes) : ElementSize(dims)[k] \in Ints
  PROVE  \E u : /\ u[0] = NoIndex(e)
                /\ \A k \in 1 .. Len(indexes) :
                      u[k] = AddIndex(u[k - 1], indexes[k], ElementSize(dims)[k])
                /\ AddIndexes(e, dims, indexes) = u[Len(indexes)]
<1>n. PICK n : n \in Nat /\ n = Len(indexes)
  OBVIOUS
<1>w. PICK w : w = ElementSize(dims)
  OBVIOUS
<1>D. PICK D : D = Flattenings
  OBVIOUS
<1>1. PICK F : F = [z \in (1 .. n) \X D |-> AddIndex(z[2], indexes[z[1]], w[z[1]])]
  OBVIOUS
<1>2. F \in [(1 .. n) \X D -> D]
  <2>1. ASSUME NEW z \in (1 .. n) \X D PROVE AddIndex(z[2], indexes[z[1]], w[z[1]]) \in D
    <3>1. z[1] \in 1 .. n /\ z[2] \in Flattenings
      BY <1>D
    <3>2. indexes[z[1]] \in Loadable /\ w[z[1]] \in Ints
      BY <1>n, <1>w, <3>1
    <3> QED
      BY <1>D, <3>1, <3>2, AddIndexTyped
  <2> QED
    BY <1>1, <2>1
<1>3. NoIndex(e) \in D
  <2>1. Const(0) \in Loadable
    BY IntsAreInt DEF Const, Loadable, Operands
  <2> QED
    BY <1>D, <2>1 DEF NoIndex, Flattenings
<1>4. PICK h : IsRecursion(h, n, D, NoIndex(e), F)
  <2>1. \E h : IsRecursion(h, n, D, NoIndex(e), F)
    BY <1>n, <1>2, <1>3, RecursionUpTo
  <2> QED
    BY <2>1
<1>5. h \in [0 .. n -> D] /\ h[0] = NoIndex(e) /\ \A k \in 1 .. n : h[k] = F[<<k, h[k - 1]>>]
  BY <1>4 DEF IsRecursion
<1>6. ASSUME NEW k \in 1 .. n PROVE h[k] = AddIndex(h[k - 1], indexes[k], w[k])
  <2>1. k - 1 \in 0 .. n
    BY <1>n
  <2>2. <<k, h[k - 1]>> \in (1 .. n) \X D
    BY <1>5, <2>1
  <2> QED
    BY <1>1, <1>5, <2>2
<1>7. h = [k \in 0 .. n |-> IF k = 0 THEN NoIndex(e) ELSE AddIndex(h[k - 1], indexes[k], w[k])]
  <2>1. ASSUME NEW k \in 0 .. n
        PROVE  h[k] = IF k = 0 THEN NoIndex(e) ELSE AddIndex(h[k - 1], indexes[k], w[k])
    <3>1. k = 0 \/ k \in 1 .. n
      BY <1>n
    <3> QED
      BY <1>5, <1>6, <3>1
  <2> QED
    BY <1>5, <2>1
<1>8. \E z : z = [k \in 0 .. Len(indexes) |->
                    IF k = 0 THEN NoIndex(e) ELSE AddIndex(z[k - 1], indexes[k], ElementSize(dims)[k])]
  BY <1>7, <1>n, <1>w
<1>9. PICK u : u = CHOOSE z : z = [k \in 0 .. Len(indexes) |->
                    IF k = 0 THEN NoIndex(e) ELSE AddIndex(z[k - 1], indexes[k], ElementSize(dims)[k])]
  OBVIOUS
<1>10. u = [k \in 0 .. Len(indexes) |->
                    IF k = 0 THEN NoIndex(e) ELSE AddIndex(u[k - 1], indexes[k], ElementSize(dims)[k])]
  BY <1>8, <1>9, Zenon
<1>11. AddIndexes(e, dims, indexes) = u[Len(indexes)]
  BY <1>9 DEF AddIndexes
<1>12. u[0] = NoIndex(e) /\ \A k \in 1 .. n : u[k] = AddIndex(u[k - 1], indexes[k], w[k])
  <2>1. u = [k \in 0 .. n |-> IF k = 0 THEN NoIndex(e) ELSE AddIndex(u[k - 1], indexes[k], w[k])]
    BY <1>10, <1>n, <1>w
  <2>2. 0 \in 0 .. n /\ \A k \in 1 .. n : k \in 0 .. n /\ k # 0
    BY <1>n
  <2> QED
    BY <2>1, <2>2
<1> QED
  BY <1>11, <1>12, <1>n, <1>w

\* The k first indexes are flattened: those that are not constant are summed
\* up in the last register, the others in constPart; s is the sum of all.
Summed(j, g, e, f, k, s) ==
    /\ f \in Flattenings
    /\ f.constPart \in 0 .. s /\ (k = 0 => f.constPart = 0)
    /\ f.tmp.const => f = [e |-> e, constPart |-> s, tmp |-> Const(0)]
    /\ ~f.tmp.const =>
         /\ Linear(f.e, g) /\ f.tmp = Reg(f.e.used) /\ f.e.at = f.e.used
         /\ f.e.used \in e.used + 1 .. e.used + 3 * k
         /\ f.constPart # 0 => f.e.used <= e.used + 3 * k - 3
         /\ \A R : Agrees(R, j) /\ Holds(R, f.e.code) =>
              /\ Holds(R, e.code)
              /\ R[f.e.used] = s - f.constPart
              /\ Small(R, e.code) => Small(R, f.e.code)

\* The sum is an int with one index more, too.
IndexFits(j, g, index, size, s) ==
    /\ g = Len(j.given) /\ IsOperand(j, index) /\ ValueIn(j, index) \in Nat
    /\ size \in Ints /\ s + ValueIn(j, index) * size \in Ints

\* One index more.
LEMMA AddIndexSums ==
  ASSUME NEW j, NEW g \in Nat, NEW e, Linear(e, g), NEW f, NEW k \in Nat \ {0},
         NEW s \in Nat, Summed(j, g, e, f, k - 1, s),
         NEW index \in Loadable, NEW size \in Nat, IndexFits(j, g, index, size, s)
  PROVE  Summed(j, g, e, AddIndex(f, index, size), k, s + ValueIn(j, index) * size)
<1>u. PICK u : u \in Nat /\ u = e.used /\ u >= g
  BY DEF Linear, Emissions
<1>v. PICK v : v \in Nat /\ v = ValueIn(j, index)
  BY DEF IndexFits
<1>q. PICK q : q \in Nat /\ q = v * size
  <2>1. \A x, y \in Nat : x * y \in Nat
    OBVIOUS
  <2> QED
    BY <1>v, <2>1
<1>t. PICK t : t \in Nat /\ t = s + q /\ t \in Ints
  BY <1>q, <1>v DEF IndexFits
<1>s. size \in Ints
  BY DEF IndexFits
<1>c. PICK c : c \in 0 .. s /\ c = f.constPart
  BY DEF Summed
<1>h. PICK h : h = AddIndex(f, index, size)
  OBVIOUS
<1>k. k \in Nat /\ k >= 1 /\ 3 * (k - 1) = 3 * k - 3
  OBVIOUS
<1>f. f \in Flattenings /\ h \in Flattenings
  <2>1. f \in Flattenings
    BY DEF Summed
  <2> QED
    BY <1>h, <1>s, <2>1, AddIndexTyped
<1>1. CASE index.const
  <2>1. index.n = v
    BY <1>1, <1>v DEF ValueIn
  <2>2. h = [f EXCEPT !.constPart = c + q]
    BY <1>1, <1>c, <1>h, <1>q, <2>1 DEF AddIndex
  <2>3. CASE f.tmp.const
    <3>1. f = [e |-> e, constPart |-> s, tmp |-> Const(0)]
      BY <2>3 DEF Summed
    <3>2. h = [e |-> e, constPart |-> t, tmp |-> Const(0)]
      BY <1>c, <1>t, <2>2, <3>1
    <3>3. h.constPart \in 0 .. t /\ h.tmp.const
      BY <1>t, <3>2 DEF Const
    <3> QED
      BY <1>f, <1>h, <1>t, <1>q, <1>v, <3>2, <3>3 DEF Summed
  <2>4. CASE ~f.tmp.const
    <3>1. h.e = f.e /\ h.tmp = f.tmp /\ h.constPart = c + q
      BY <1>f, <2>2 DEF Flattenings
    <3>2. /\ Linear(f.e, g) /\ f.tmp = Reg(f.e.used) /\ f.e.at = f.e.used
          /\ f.e.used \in e.used + 1 .. e.used + 3 * (k - 1)
          /\ \A R : Agrees(R, j) /\ Holds(R, f.e.code) =>
              /\ Holds(R, e.code)
              /\ R[f.e.used] = s - c
              /\ Small(R, e.code) => Small(R, f.e.code)
      BY <1>c, <2>4 DEF Summed
    <3>3. PICK z : z = f.e.used
      OBVIOUS
    <3>4. z \in u + 1 .. u + (3 * k - 3)
      BY <1>u, <1>k, <3>2, <3>3
    <3>5. z \in u + 1 .. u + 3 * k /\ z <= u + 3 * k - 3
      BY <1>u, <1>k, <3>4
    <3>6. c + q \in 0 .. t /\ s - c = t - (c + q)
      BY <1>c, <1>q, <1>t
    <3>7. h.constPart \in 0 .. t
      BY <3>1, <3>6
    <3>8. h.e.used \in e.used + 1 .. e.used + 3 * k /\ h.e.used <= e.used + 3 * k - 3
      BY <1>u, <3>1, <3>3, <3>5
    <3>9. \A R : Agrees(R, j) /\ Holds(R, h.e.code) =>
              /\ Holds(R, e.code)
              /\ R[h.e.used] = t - h.constPart
              /\ Small(R, e.code) => Small(R, h.e.code)
      BY <3>1, <3>2, <3>6
    <3>10. Linear(h.e, g) /\ h.tmp = Reg(h.e.used) /\ h.e.at = h.e.used /\ ~h.tmp.const
      BY <2>4, <3>1, <3>2
    <3>11. Summed(j, g, e, h, k, t)
      BY <1>f, <3>7, <3>8, <3>9, <3>10 DEF Summed
    <3> QED
      BY <1>h, <1>t, <1>q, <1>v, <3>11
  <2> QED
    BY <2>3, <2>4
<1>2. CASE ~index.const
  <2>i. PICK i : i \in 1 .. g /\ i = index.n
    BY <1>2 DEF IsOperand, IndexFits
  <2>j. \A R : Agrees(R, j) => R[i] = v
    <3>1. g = Len(j.given)
      BY DEF IndexFits
    <3> QED
      BY <1>2, <1>v, <2>i, <3>1 DEF Agrees, ValueIn
  <2>e. PICK e0 : e0 = f.e
    OBVIOUS
  <2>z. PICK z : z \in Nat /\ z = e0.used /\ z >= u /\ Linear(e0, g)
    <3>1. CASE f.tmp.const
      <4>1. e0 = e
        BY <2>e, <3>1 DEF Summed
      <4> QED
        BY <1>u, <4>1
    <3>2. CASE ~f.tmp.const
      <4>1. Linear(e0, g) /\ e0.used \in e.used + 1 .. e.used + 3 * (k - 1)
        BY <2>e, <3>2 DEF Summed
      <4> QED
        BY <1>u, <1>k, <4>1
    <3> QED
      BY <3>1, <3>2
  <2>m. PICK m : m = EmitIntBinary(e0, "MUL", index, Const(size))
    OBVIOUS
  <2>1. /\ Linear(m, g) /\ m.used = z + 2 /\ m.at = m.used
        /\ \A R : Holds(R, m.code) =>
             /\ Holds(R, e0.code)
             /\ R[i] \in Int =>
                  /\ R[m.at] = ToInt(R[i] * size)
                  /\ Small(R, e0.code) => Small(R, m.code)
    <3>1. index \in Operands
      BY DEF Loadable
    <3>2. index.n \in 1 .. e0.used
      BY <1>u, <2>i, <2>z
    <3>3. Linear(e0, g)
      BY <2>z
    <3>4. /\ Linear(m, g) /\ m.used = e0.used + 2 /\ m.at = m.used
          /\ \A R : Holds(R, m.code) =>
             /\ Holds(R, e0.code)
             /\ R[index.n] \in Int =>
                  /\ R[m.at] = ToInt(R[index.n] * size)
                  /\ Small(R, e0.code) => Small(R, m.code)
      BY <1>2, <1>s, <2>m, <3>1, <3>2, <3>3, MulConstValue
    <3> QED
      BY <2>i, <2>z, <3>4
  <2>2. q \in Ints /\ ToInt(q) = q
    <3>1. q \in Ints
      BY <1>q, <1>t, Sizes
    <3> QED
      BY <3>1, ToIntFacts
  <2>3. \A R : Agrees(R, j) /\ Holds(R, m.code) =>
             /\ Holds(R, e0.code)
             /\ R[z + 2] = q
             /\ Small(R, e0.code) => Small(R, m.code)
    <3>1. ASSUME NEW R, Agrees(R, j), Holds(R, m.code)
          PROVE  /\ Holds(R, e0.code)
                 /\ R[z + 2] = q
                 /\ Small(R, e0.code) => Small(R, m.code)
      <4>1. R[i] = v /\ R[i] \in Int
        BY <1>v, <2>j, <3>1
      <4>2. R[m.at] = ToInt(R[i] * size) /\ m.at = z + 2
        BY <2>1, <3>1, <4>1
      <4>3. R[m.at] = q
        BY <1>q, <2>2, <4>1, <4>2
      <4> QED
        BY <2>1, <3>1, <4>1, <4>2, <4>3
    <3> QED
      BY <3>1
  <2>a. PICK a : a = AddTmp(m, f.tmp)
    OBVIOUS
  <2>h. h.e = a /\ h.tmp = Reg(a.at) /\ h.constPart = c /\ ~h.tmp.const
    <3>1. h = [f EXCEPT !.e = a, !.tmp = Reg(a.at)]
      BY <1>2, <1>h, <2>m, <2>a, <2>e DEF AddIndex, WithTmp
    <3> QED
      BY <1>c, <1>f, <3>1 DEF Flattenings, Reg
  <2>4. CASE f.tmp.const
    <3>1. e0 = e /\ c = s
      BY <1>c, <2>e, <2>4 DEF Summed
    <3>2. a = m
      BY <2>a, <2>4 DEF AddTmp
    <3>3. h.e.used = z + 2 /\ z = u /\ h.e.at = h.e.used /\ Linear(h.e, g) /\ h.tmp = Reg(h.e.used)
      BY <1>u, <2>1, <2>h, <2>z, <3>1, <3>2
    <3>4. /\ z + 2 \in u + 1 .. u + 3 * k
          /\ k > 1 => z + 2 <= u + 3 * k - 3
          /\ k = 1 \/ k > 1
      <4>1. \A a0, b \in Nat : b >= 1 => /\ a0 + 2 \in a0 + 1 .. a0 + 3 * b
                                       /\ (b > 1 => a0 + 2 <= a0 + 3 * b - 3)
                                       /\ (b = 1 \/ b > 1)
        OBVIOUS
      <4>2. z = u
        BY <3>3
      <4> QED
        BY <1>u, <1>k, <4>1, <4>2
    <3>x. c # 0 => k > 1
      <4>1. k - 1 = 0 => c = 0
        BY <1>c DEF Summed
      <4> QED
        BY <1>k, <4>1
    <3>5. q = t - c /\ c \in 0 .. t
      BY <1>q, <1>t, <3>1
    <3>6. \A R : Agrees(R, j) /\ Holds(R, h.e.code) =>
              /\ Holds(R, e.code)
              /\ R[h.e.used] = t - h.constPart
              /\ Small(R, e.code) => Small(R, h.e.code)
      BY <2>3, <2>h, <3>1, <3>2, <3>3, <3>5
    <3>7. Summed(j, g, e, h, k, t)
      BY <1>f, <1>u, <2>h, <3>3, <3>4, <3>5, <3>6, <3>x DEF Summed
    <3> QED
      BY <1>h, <1>t, <1>q, <1>v, <3>7
  <2>5. CASE ~f.tmp.const
    <3>1. /\ f.tmp = Reg(z) /\ z \in u + 1 .. u + 3 * (k - 1)
          /\ c # 0 => z <= u + 3 * (k - 1) - 3
          /\ \A R : Agrees(R, j) /\ Holds(R, e0.code) =>
              /\ Holds(R, e.code)
              /\ R[z] = s - c
              /\ Small(R, e.code) => Small(R, e0.code)
      BY <1>u, <1>c, <2>e, <2>z, <2>5 DEF Summed
    <3>2. a = EmitIntBinary(m, "ADD", Reg(z + 2), Reg(z))
      BY <2>1, <2>a, <2>5, <3>1 DEF AddTmp
    <3>3. /\ Linear(a, g) /\ a.used = m.used + 1 /\ a.at = a.used
          /\ \A R : Holds(R, a.code) =>
              /\ Holds(R, m.code)
              /\ R[z + 2] \in Int /\ R[z] \in Int =>
                   /\ R[a.at] = ToInt(R[z + 2] + R[z])
                   /\ Small(R, m.code) => Small(R, a.code)
      <4>1. Linear(m, g)
        BY <2>1
      <4>2. z + 2 \in 1 .. m.used /\ z \in 1 .. m.used
        <5>1. m.used = z + 2 /\ z \in Nat
          BY <2>1, <2>z
        <5>2. z >= 1
          BY <1>u, <1>k, <3>1
        <5> QED
          BY <5>1, <5>2
      <4>x. PICK x : x = z + 2
        OBVIOUS
      <4>3. a = EmitIntBinary(m, "ADD", Reg(x), Reg(z))
        BY <3>2, <4>x
      <4>4. x \in 1 .. m.used
        BY <4>2, <4>x
      <4>5. z \in 1 .. m.used
        BY <4>2
      <4>6. /\ Linear(a, g) /\ a.used = m.used + 1 /\ a.at = a.used
            /\ \A R : Holds(R, a.code) =>
                /\ Holds(R, m.code)
                /\ R[x] \in Int /\ R[z] \in Int =>
                     /\ R[a.at] = ToInt(R[x] + R[z])
                     /\ Small(R, m.code) => Small(R, a.code)
        <5>y. PICK y : y = EmitIntBinary(m, "ADD", Reg(x), Reg(z))
          OBVIOUS
        <5>1. /\ Linear(y, g) /\ y.used = m.used + 1 /\ y.at = y.used
              /\ \A R : Holds(R, y.code) =>
                  /\ Holds(R, m.code)
                  /\ R[x] \in Int /\ R[z] \in Int =>
                       /\ R[y.at] = ToInt(R[x] + R[z])
                       /\ Small(R, m.code) => Small(R, y.code)
          BY <4>1, <4>4, <4>5, <5>y, AddRegsValue
        <5> QED
          BY <4>3, <5>y, <5>1
      <4> QED
        BY <4>6, <4>x
    <3>4. Linear(h.e, g) /\ h.e.used = z + 3 /\ h.e.at = h.e.used /\ h.tmp = Reg(h.e.used)
      BY <2>1, <2>h, <2>z, <3>3
    <3>5. /\ z + 3 \in u + 1 .. u + 3 * k
          /\ c # 0 => z + 3 <= u + 3 * k - 3
      BY <1>u, <1>k, <3>1
    <3>6. q + (s - c) = t - c /\ c \in 0 .. t /\ t - c \in Ints /\ ToInt(t - c) = t - c
      <4>1. q + (s - c) = t - c /\ c \in 0 .. t /\ t - c \in 0 .. t
        BY <1>c, <1>q, <1>t
      <4>2. t - c \in Ints
        BY <1>t, <4>1, Sizes
      <4> QED
        BY <4>1, <4>2, ToIntFacts
    <3>7. ASSUME NEW R, Agrees(R, j), Holds(R, a.code)
          PROVE  /\ Holds(R, e.code)
                 /\ R[a.at] = t - c
                 /\ Small(R, e.code) => Small(R, a.code)
      <4>1. Holds(R, m.code)
        BY <3>3, <3>7
      <4>2. Holds(R, e0.code) /\ R[z + 2] = q /\ (Small(R, e0.code) => Small(R, m.code))
        BY <2>3, <3>7, <4>1
      <4>3. Holds(R, e.code) /\ R[z] = s - c /\ (Small(R, e.code) => Small(R, e0.code))
        BY <3>1, <3>7, <4>2
      <4>4. R[z + 2] \in Int /\ R[z] \in Int
        BY <1>q, <1>c, <4>2, <4>3
      <4>5. R[a.at] = ToInt(R[z + 2] + R[z]) /\ (Small(R, m.code) => Small(R, a.code))
        BY <3>3, <3>7, <4>4
      <4>6. R[a.at] = t - c
        BY <3>6, <4>2, <4>3, <4>5
      <4> QED
        BY <4>2, <4>3, <4>5, <4>6
    <3>8. \A R : Agrees(R, j) /\ Holds(R, h.e.code) =>
              /\ Holds(R, e.code)
              /\ R[h.e.used] = t - h.constPart
              /\ Small(R, e.code) => Small(R, h.e.code)
      BY <2>h, <3>4, <3>7
    <3>9. Summed(j, g, e, h, k, t)
      BY <1>f, <1>k, <1>u, <2>h, <3>4, <3>5, <3>6, <3>8 DEF Summed
    <3> QED
      BY <1>h, <1>t, <1>q, <1>v, <3>9
  <2> QED
    BY <2>4, <2>5
<1> QED
  BY <1>1, <1>2

\* The offset of an element is an int, in bytes too.
LEMMA OffsetsAreInts ==
  ASSUME NEW j, NEW dims, NEW indexes, InArray(j, dims, indexes), NEW n \in Nat, n < TotalSize(dims)
  PROVE  n \in Ints /\ 4 * n \in Ints /\ TotalSize(dims) \in Ints
<1>t. PICK t : t = TotalSize(dims)
  OBVIOUS
<1>1. t \in Nat \ {0} /\ 4 * (t - 1) <= IntMax
  <2>1. Weight(dims, 0) \in Nat \ {0}
    BY Weights DEF InArray
  <2> QED
    BY <1>t, <2>1 DEF InArray, Weight
<1>h. PICK h : h \in Nat /\ h >= 8 /\ h = IntHalf /\ Ints = -h .. h - 1 /\ IntMax = h - 1
  BY Sizes DEF IntMax
<1> QED
  BY <1>t, <1>1, <1>h

\* All indexes together.
LEMMA AddIndexesSums ==
  ASSUME NEW j, NEW g \in Nat, g = Len(j.given), NEW e, Linear(e, g),
         NEW dims, NEW indexes \in Seq(Loadable), InArray(j, dims, indexes),
         \A k \in 1 .. Len(indexes) : IsOperand(j, indexes[k])
  PROVE  Summed(j, g, e, AddIndexes(e, dims, indexes), Len(indexes), Place(j, dims, indexes))
<1>n. PICK n : n \in Nat /\ n = Len(indexes)
  OBVIOUS
<1>w. PICK w : w = ElementSize(dims)
  OBVIOUS
<1>1. /\ \A k \in 1 .. n : indexes[k] \in Loadable /\ indexes \in Seq(Operands)
      /\ e \in Emissions
  <2>1. Loadable \subseteq Operands
    BY DEF Loadable
  <2> QED
    BY <1>n, <2>1 DEF Linear
<1>2. indexes \in Seq(Operands)
  <2>1. Loadable \subseteq Operands
    BY DEF Loadable
  <2> QED
    BY <2>1
<1>3. PICK S \in [0 .. n -> Nat] :
            /\ S[0] = 0 /\ S[n] = Place(j, dims, indexes)
            /\ \A k \in 1 .. n :
                  /\ ValueIn(j, indexes[k]) \in Nat
                  /\ S[k] = S[k - 1] + ValueIn(j, indexes[k]) * Weight(dims, k)
            /\ \A k \in 0 .. n : S[k] + Weight(dims, k) <= TotalSize(dims)
  <2>1. \E S \in [0 .. Len(indexes) -> Nat] :
            /\ S[0] = 0 /\ S[Len(indexes)] = Place(j, dims, indexes)
            /\ \A k \in 1 .. Len(indexes) :
                  /\ ValueIn(j, indexes[k]) \in Nat
                  /\ S[k] = S[k - 1] + ValueIn(j, indexes[k]) * Weight(dims, k)
            /\ \A k \in 0 .. Len(indexes) : S[k] + Weight(dims, k) <= TotalSize(dims)
    BY <1>2, RowMajor
  <2> QED
    BY <1>n, <2>1
<1>4. /\ n <= Len(dims) /\ Len(dims) \in Nat
      /\ \A k \in 0 .. n : Weight(dims, k) \in Nat \ {0}
  <2>1. n <= Len(dims) /\ Len(dims) \in Nat /\ dims \in Seq(Nat \ {0})
    BY <1>n DEF InArray
  <2>2. \A k \in 0 .. Len(dims) : Weight(dims, k) \in Nat \ {0}
    BY <2>1, Weights
  <2>3. \A k \in 0 .. n : k \in 0 .. Len(dims)
    BY <1>n, <2>1
  <2> QED
    BY <2>1, <2>2, <2>3
<1>t. PICK t : t \in Nat \ {0} /\ t = TotalSize(dims)
  <2>1. 0 \in 0 .. n
    BY <1>n
  <2> QED
    BY <1>4, <2>1 DEF Weight
<1>5. \A k \in 0 .. n : S[k] \in Nat /\ S[k] \in Ints
  <2>1. ASSUME NEW k \in 0 .. n PROVE S[k] \in Nat /\ S[k] < TotalSize(dims)
    <3>1. S[k] \in Nat /\ Weight(dims, k) \in Nat \ {0} /\ S[k] + Weight(dims, k) <= t
      BY <1>3, <1>4, <1>t
    <3> QED
      BY <1>t, <3>1
  <2> QED
    BY <2>1, OffsetsAreInts
<1>6. \A k \in 1 .. n : w[k] = Weight(dims, k) /\ w[k] \in Nat /\ w[k] \in Ints
  <2>1. ASSUME NEW k \in 1 .. n PROVE w[k] = Weight(dims, k) /\ w[k] \in Nat /\ w[k] \in Ints
    <3>1. w[k] = Weight(dims, k) /\ k \in 0 .. n
      BY <1>n, <1>w DEF Weight
    <3>2. w[k] \in Nat \ {0} /\ S[k] \in Nat /\ S[k] + w[k] <= t
      BY <1>3, <1>4, <1>t, <3>1
    <3>3. t \in Ints
      <4>1. 0 < TotalSize(dims)
        BY <1>t
      <4> QED
        BY <1>t, <4>1, OffsetsAreInts
    <3>4. w[k] \in Ints
      BY <1>t, <3>2, <3>3, Sizes
    <3> QED
      BY <3>1, <3>2, <3>4
  <2> QED
    BY <2>1
<1>7. PICK a : /\ a[0] = NoIndex(e)
               /\ \A k \in 1 .. n : a[k] = AddIndex(a[k - 1], indexes[k], w[k])
               /\ AddIndexes(e, dims, indexes) = a[n]
  <2>1. \A k \in 1 .. Len(indexes) : ElementSize(dims)[k] \in Ints
    BY <1>6, <1>n, <1>w
  <2> QED
    <3>1. e \in Emissions
      BY <1>1
    <3>2. \E a : /\ a[0] = NoIndex(e)
                 /\ \A k \in 1 .. Len(indexes) :
                       a[k] = AddIndex(a[k - 1], indexes[k], ElementSize(dims)[k])
                 /\ AddIndexes(e, dims, indexes) = a[Len(indexes)]
      BY <2>1, <3>1, AddIndexesExists
    <3> QED
      BY <1>n, <1>w, <3>2
<1>T. PICK T : T = {k \in 0 .. n : Summed(j, g, e, a[k], k, S[k])}
  OBVIOUS
<1>8. 0 \in T
  <2>1. Const(0) \in Loadable /\ Const(0).const
    BY IntsAreInt DEF Const, Loadable, Operands
  <2>2. NoIndex(e) = [e |-> e, constPart |-> 0, tmp |-> Const(0)]
    BY DEF NoIndex
  <2>3. NoIndex(e) \in Flattenings
    BY <1>1, <2>1, <2>2 DEF Flattenings
  <2>4. Summed(j, g, e, NoIndex(e), 0, 0)
    BY <2>1, <2>2, <2>3 DEF Summed
  <2>5. 0 \in 0 .. n
    BY <1>n
  <2> QED
    BY <1>3, <1>7, <1>T, <2>4, <2>5
<1>9. ASSUME NEW k \in 1 .. n, k - 1 \in T PROVE k \in T
  <2>1. k - 1 \in 0 .. n /\ k \in 0 .. n /\ k \in Nat \ {0}
    BY <1>n
  <2>2. Summed(j, g, e, a[k - 1], k - 1, S[k - 1]) /\ S[k - 1] \in Nat
    BY <1>9, <1>T, <1>5, <2>1
  <2>3. S[k] = S[k - 1] + ValueIn(j, indexes[k]) * w[k] /\ S[k] \in Ints
    BY <1>3, <1>5, <1>6, <2>1
  <2>4. indexes[k] \in Loadable /\ w[k] \in Nat
    BY <1>1, <1>6
  <2>5. IndexFits(j, g, indexes[k], w[k], S[k - 1])
    BY <1>3, <1>6, <1>n, <2>3 DEF IndexFits
  <2>6. Summed(j, g, e, AddIndex(a[k - 1], indexes[k], w[k]), k, S[k - 1] + ValueIn(j, indexes[k]) * w[k])
    BY <2>1, <2>2, <2>4, <2>5, AddIndexSums
  <2>7. Summed(j, g, e, a[k], k, S[k])
    BY <1>7, <2>3, <2>6
  <2> QED
    BY <1>T, <2>1, <2>7
<1>10. \A k \in 0 .. n : k \in T
  BY <1>n, <1>8, <1>9, UpTo
<1>11. Summed(j, g, e, a[n], n, S[n])
  <2>1. n \in 0 .. n
    BY <1>n
  <2> QED
    BY <1>10, <1>T, <2>1
<1> QED
  BY <1>3, <1>7, <1>11, <1>n

\* The place of an element is below the number of elements.
LEMMA PlaceBelow ==
  ASSUME NEW j, NEW dims, NEW indexes \in Seq(Loadable), InArray(j, dims, indexes)
  PROVE  Place(j, dims, indexes) \in Nat /\ Place(j, dims, indexes) < TotalSize(dims)
<1>1. indexes \in Seq(Operands) /\ Len(indexes) \in Nat
  <2>1. Loadable \subseteq Operands
    BY DEF Loadable
  <2> QED
    BY <2>1
<1>2. PICK S \in [0 .. Len(indexes) -> Nat] :
          /\ S[Len(indexes)] = Place(j, dims, indexes)
          /\ \A k \in 0 .. Len(indexes) : S[k] + Weight(dims, k) <= TotalSize(dims)
  BY <1>1, RowMajor
<1>3. dims \in Seq(Nat \ {0}) /\ Len(indexes) \in 0 .. Len(dims) /\ 0 \in 0 .. Len(dims)
  BY <1>1 DEF InArray
<1>4. Weight(dims, Len(indexes)) \in Nat \ {0} /\ TotalSize(dims) \in Nat
  BY <1>3, Weights DEF Weight
<1>5. S[Len(indexes)] + Weight(dims, Len(indexes)) <= TotalSize(dims) /\ S[Len(indexes)] \in Nat
  BY <1>1, <1>2
<1> QED
  BY <1>2, <1>4, <1>5

\* f.tmp holds the place p of n indexes.
Flattened(j, g, e, f, n, p) ==
    /\ Linear(f.e, g) /\ f.e.used \in e.used .. e.used + 3 * n
    /\ f.tmp \in Operands
    /\ f.tmp.const => f.tmp.n = p
    /\ f.tmp.const \/ f.tmp.n \in 1 .. f.e.used
    /\ \A R : Agrees(R, j) /\ Holds(R, f.e.code) =>
         /\ Holds(R, e.code)
         /\ Held(R, f.tmp) = p
         /\ Small(R, e.code) => Small(R, f.e.code)

\* What Flatten leaves is the place of the element.
LEMMA FlattenValue ==
  ASSUME NEW j, NEW g \in Nat, g = Len(j.given), NEW e, Linear(e, g),
         NEW dims, NEW indexes \in Seq(Loadable), InArray(j, dims, indexes),
         \A k \in 1 .. Len(indexes) : IsOperand(j, indexes[k])
  PROVE  Flattened(j, g, e, Flatten(e, dims, indexes), Len(indexes), Place(j, dims, indexes))
<1>1. Summed(j, g, e, AddIndexes(e, dims, indexes), Len(indexes), Place(j, dims, indexes))
  BY AddIndexesSums
<1>2. Place(j, dims, indexes) \in Nat /\ Place(j, dims, indexes) < TotalSize(dims)
  BY PlaceBelow
<1>p. PICK p : p \in Nat /\ p = Place(j, dims, indexes) /\ p \in Ints /\ 4 * p \in Ints
  BY <1>2, OffsetsAreInts
<1>n. PICK n : n \in Nat /\ n = Len(indexes)
  OBVIOUS
<1>u. PICK u : u \in Nat /\ u = e.used
  BY DEF Linear, Emissions
<1>s. PICK s : s = AddIndexes(e, dims, indexes)
  OBVIOUS
<1>f. PICK f : f = Flatten(e, dims, indexes) /\ f = AddConstPart(s)
  BY <1>s DEF Flatten
<1>3. Summed(j, g, e, s, n, p) /\ s \in Flattenings
  BY <1>1, <1>n, <1>p, <1>s DEF Summed
<1>4. CASE s.tmp.const
  <2>1. s = [e |-> e, constPart |-> p, tmp |-> Const(0)]
    BY <1>3, <1>4 DEF Summed
  <2>2. f.e = e /\ f.tmp = Const(p)
    BY <1>4, <1>f, <2>1 DEF AddConstPart
  <2>3. f.tmp \in Operands /\ f.tmp.const /\ f.tmp.n = p
    BY <1>p, <2>2 DEF Const, Operands
  <2>4. \A R : Held(R, f.tmp) = p
    BY <2>3 DEF Held
  <2>5. f.e.used \in e.used .. e.used + 3 * n
    BY <1>n, <1>u, <2>2
  <2> QED
    BY <1>f, <1>p, <1>n, <2>2, <2>3, <2>4, <2>5 DEF Flattened
<1>5. CASE ~s.tmp.const
  <2>c. PICK c : c \in 0 .. p /\ c = s.constPart
    BY <1>3 DEF Summed
  <2>e. PICK e1 : e1 = s.e
    OBVIOUS
  <2>1. /\ Linear(e1, g) /\ s.tmp = Reg(e1.used) /\ e1.at = e1.used
        /\ e1.used \in e.used + 1 .. e.used + 3 * n
        /\ c # 0 => e1.used <= e.used + 3 * n - 3
        /\ \A R : Agrees(R, j) /\ Holds(R, e1.code) =>
              /\ Holds(R, e.code)
              /\ R[e1.used] = p - c
              /\ Small(R, e.code) => Small(R, e1.code)
    BY <1>3, <1>5, <2>c, <2>e DEF Summed
  <2>z. PICK z : z = e1.used /\ z \in u + 1 .. u + 3 * n /\ (c # 0 => z <= u + 3 * n - 3)
    BY <1>u, <2>1
  <2>2. CASE c = 0
    <3>1. f = s
      BY <1>5, <1>f, <2>c, <2>2 DEF AddConstPart
    <3>2. f.e = e1 /\ f.tmp = Reg(z)
      BY <2>e, <2>1, <2>z, <3>1
    <3>3. f.tmp \in Operands /\ ~f.tmp.const /\ f.tmp.n = z /\ z \in 1 .. z /\ z \in u .. u + 3 * n
      BY <1>u, <1>n, <2>z, <3>2 DEF Reg, Operands
    <3>4. \A R : Agrees(R, j) /\ Holds(R, e1.code) => Held(R, f.tmp) = p
      BY <1>p, <2>1, <2>2, <2>z, <3>3 DEF Held
    <3> QED
      BY <1>f, <1>p, <1>n, <1>u, <2>1, <2>z, <3>2, <3>3, <3>4 DEF Flattened
  <2>3. CASE c # 0
    <3>x. PICK x : x = EmitIntBinary(e1, "ADD", Const(c), Reg(z))
      OBVIOUS
    <3>1. c \in Ints /\ z \in 1 .. e1.used
      <4>1. c \in Ints
        BY <1>p, <2>c, Sizes
      <4> QED
        BY <1>u, <2>z, <4>1
    <3>2. /\ Linear(x, g) /\ x.used \in e1.used + 1 .. e1.used + 3 /\ x.at = x.used
          /\ \A R : Holds(R, x.code) =>
               /\ Holds(R, e1.code)
               /\ R[z] \in Ints =>
                    /\ R[x.at] = ToInt(R[z] + c)
                    /\ Small(R, e1.code) => Small(R, x.code)
      <4>1. Linear(e1, g)
        BY <2>1
      <4> QED
        BY <3>x, <3>1, <4>1, AddConstValue
    <3>3. f.e = x /\ f.tmp = Reg(x.at)
      <4>1. f = [s EXCEPT !.e = x, !.tmp = Reg(x.at)]
        BY <1>5, <1>f, <2>c, <2>e, <2>1, <2>z, <2>3, <3>x DEF AddConstPart, WithTmp
      <4> QED
        BY <1>3, <4>1 DEF Flattenings
    <3>4. x.used \in u .. u + 3 * n /\ x.at = x.used /\ x.at \in 1 .. x.used
      <4>1. \A a, b \in Nat : \A y \in a + 1 .. a + 3 * b : y <= a + 3 * b - 3 =>
               \A m \in y + 1 .. y + 3 : m \in a .. a + 3 * b /\ m \in 1 .. m
        OBVIOUS
      <4>2. x.used \in z + 1 .. z + 3 /\ x.at = x.used
        BY <2>z, <3>2
      <4>3. z \in u + 1 .. u + 3 * n /\ z <= u + 3 * n - 3
        BY <2>z, <2>3
      <4> QED
        BY <1>u, <1>n, <4>1, <4>2, <4>3
    <3>5. f.tmp \in Operands /\ ~f.tmp.const /\ f.tmp.n = x.at
      BY <3>3, <3>4, <1>u DEF Reg, Operands
    <3>6. ASSUME NEW R, Agrees(R, j), Holds(R, x.code)
          PROVE  /\ Holds(R, e.code)
                 /\ Held(R, f.tmp) = p
                 /\ Small(R, e.code) => Small(R, x.code)
      <4>1. Holds(R, e1.code)
        BY <3>2, <3>6
      <4>2. Holds(R, e.code) /\ R[z] = p - c /\ (Small(R, e.code) => Small(R, e1.code))
        BY <2>1, <2>z, <3>6, <4>1
      <4>3. R[z] \in Ints /\ R[z] + c = p
        BY <1>p, <2>c, <4>2, Sizes
      <4>4. R[x.at] = ToInt(p) /\ (Small(R, e1.code) => Small(R, x.code))
        BY <3>2, <3>6, <4>3
      <4>5. R[x.at] = p
        BY <1>p, <4>4, ToIntFacts
      <4> QED
        BY <3>5, <4>2, <4>4, <4>5 DEF Held
    <3> QED
      BY <1>f, <1>p, <1>n, <1>u, <3>2, <3>3, <3>4, <3>5, <3>6 DEF Flattened
  <2> QED
    BY <2>2, <2>3
<1> QED
  BY <1>4, <1>5

-----------------------------------------------------------------------------
(* Jobs on memory *)

\* The element at place p from a pointer.
LEMMA ElementValue ==
  ASSUME NEW g \in Nat, NEW e, Linear(e, g), e.at \in 1 .. e.used,
         NEW index \in Operands, NEW p \in Nat, 4 * p \in Ints,
         index.const => index.n = p, index.const \/ index.n \in 1 .. e.used
  PROVE  LET x == EmitElementGEP(e, index)
         IN /\ Linear(x, g) /\ x.used = e.used + 2 /\ x.at = x.used
            /\ \A R : Holds(R, x.code) =>
                 /\ Holds(R, e.code)
                 /\ R[e.at] \in Int /\ Held(R, index) = p =>
                      /\ R[x.at] = R[e.at] + 4 * p
                      /\ Small(R, e.code) /\ R[e.at] + 4 * p \in RegRange => Small(R, x.code)
<1>1. 4 \in Ints
  BY Sizes
<1>x. PICK x : x = EmitElementGEP(e, index) /\ x = EmitStepGEP(e, 4, index)
  BY DEF EmitElementGEP, EmitStepGEP
<1>2. index.const => 4 * index.n \in Ints
  OBVIOUS
<1>3. /\ Linear(x, g) /\ x.used = e.used + 2 /\ x.at = x.used
      /\ \A R : Holds(R, x.code) =>
           /\ Holds(R, e.code)
           /\ (R[e.at] \in Int /\ Held(R, index) \in Int /\ 4 * Held(R, index) \in Ints)
                => /\ R[x.at] = R[e.at] + 4 * Held(R, index)
                   /\ Small(R, e.code) /\ R[e.at] + 4 * Held(R, index) \in RegRange
                        => Small(R, x.code)
  BY <1>1, <1>2, <1>x, StepGEPValue
<1> QED
  BY <1>3, <1>x

\* What is left to show of a job on memory.
LEMMA MemoryWellCoded ==
  ASSUME NEW j, MemoryJob(j), NEW e, e = EmitJob(j), Linear(e, Len(j.given)),
         e.used <= MaxReg, e.at \in 1 .. e.used,
         \A R : Agrees(R, j) /\ Holds(R, e.code) => Small(R, e.code)
  PROVE  WellCoded(j) /\ \A R : Result(R, j) = R[e.at]
<1>1. j.kind \notin {"float"} /\ Straight(j) = e /\ ~Turned(j)
  BY DEF MemoryJob, Straight, Turned
<1>2. \A k \in 1 .. Len(j.given) : j.given[k] \in RegRange
  <2>1. \A k \in 1 .. Len(j.given) : j.given[k] \in Addresses
    BY DEF MemoryJob
  <2> QED
    BY <2>1, AddressRanges
<1>g. PICK g : g \in Nat /\ g = Len(j.given) /\ g >= 1
  BY DEF MemoryJob, S0
<1>n. PICK n : n \in Nat /\ n = Len(e.code) /\ e.used = g + n
  <2>1. e.code \in Seq(Instructions) /\ e.used = Len(j.given) + Len(e.code)
    BY DEF Linear, Emissions
  <2>2. Len(e.code) \in Nat
    BY <2>1
  <2> QED
    BY <1>g, <2>1, <2>2
<1>3. n <= MaxReg
  <2>1. \A a, b \in Nat : b <= a + b /\ a + b \in Nat
    OBVIOUS
  <2>2. g + n <= MaxReg
    BY <1>n
  <2>3. n <= g + n /\ g + n \in Nat
    BY <1>g, <1>n, <2>1
  <2>4. \A a, b, c \in Nat : a <= b /\ b <= c => a <= c
    OBVIOUS
  <2> QED
    BY <1>n, <2>2, <2>3, <2>4, Room
<1> QED
  BY <1>1, <1>2, <1>3, <1>g, <1>n DEF WellCoded, Result

\* Loads, stores and casts of a local variable.
LEMMA LocalCode ==
  ASSUME NEW j, MemoryJob(j), j.kind \in {"load", "store", "cast"}
  PROVE  /\ WellCoded(j)
         /\ \A R : Agrees(R, j) /\ Holds(R, Straight(j).code) =>
              Result(R, j) = IF j.kind = "load" THEN Mem(j.given[S0] + j.var.home)
                             ELSE j.given[S0] + j.var.home
<1>g. PICK g : g \in Nat /\ g = Len(j.given) /\ g >= 1 /\ g + 4 <= MaxReg
  BY DEF MemoryJob, S0
<1>n. PICK n : n = j.var.home /\ IsOffset(n)
  BY DEF MemoryJob
<1>o. PICK op : op \in {"load", "store", "addi"}
                /\ op = IF j.kind = "cast" THEN "addi" ELSE j.kind
  OBVIOUS
<1>e. PICK e : e = IF j.kind = "store" THEN GetReg(NoCode(g), Const(0)) ELSE NoCode(g)
  OBVIOUS
<1>b. PICK b : b = IF j.kind = "store" THEN e.at ELSE 0
  OBVIOUS
<1>x. PICK x : x = LET e1 == ProcessImm(e, S0, n) IN Emit(e1, op, e1.at, b, ImmLeft(n))
  OBVIOUS
<1>1. EmitJob(j) = x
  BY <1>g, <1>n, <1>o, <1>e, <1>b, <1>x DEF EmitJob, EmitLoad, EmitStore, AtOffset
<1>2. Linear(e, g) /\ e.used \in g .. g + 1 /\ \A R : Holds(R, e.code) => Small(R, e.code)
  <2>1. Linear(NoCode(g), g) /\ NoCode(g).used = g /\ \A R : Small(R, NoCode(g).code)
    BY <1>g, NothingCoded
  <2>2. Const(0) \in Loadable /\ Const(0).const
    BY IntsAreInt DEF Const, Loadable, Operands
  <2>3. CASE j.kind = "store"
    <3>1. /\ Linear(e, g) /\ e.used \in NoCode(g).used .. NoCode(g).used + 1
          /\ \A R : Holds(R, e.code) => (Small(R, NoCode(g).code) => Small(R, e.code))
      BY <1>g, <1>e, <2>1, <2>2, <2>3, GetRegValue
    <3> QED
      BY <2>1, <3>1
  <2>4. CASE j.kind # "store"
    BY <1>g, <1>e, <2>1, <2>4
  <2> QED
    BY <2>3, <2>4
<1>3. b \in 0 .. e.used
  <2>1. e.at \in 0 .. e.used /\ e.used \in Nat
    <3>1. e.at \in 0 .. e.used
      BY <1>2 DEF Linear
    <3>2. e.used \in g .. g + 1
      BY <1>2
    <3> QED
      BY <1>g, <3>1, <3>2
  <2> QED
    BY <1>b, <2>1
<1>4. /\ Linear(x, g) /\ x.used \in e.used + 1 .. e.used + 3 /\ x.at = x.used
      /\ \A R : Holds(R, x.code) /\ R[S0] \in Addresses =>
           /\ Holds(R, e.code)
           /\ R[x.at] = (IF op = "load" THEN Mem(R[S0] + n) ELSE R[S0] + n)
           /\ Small(R, e.code) => Small(R, x.code)
  <2>1. g \in Nat /\ g >= 1
    BY <1>g
  <2>2. IsOffset(n) /\ op \in {"addi", "load", "store"}
    BY <1>n, <1>o
  <2>3. Linear(e, g)
    BY <1>2
  <2> QED
    BY <1>3, <1>x, <2>1, <2>2, <2>3, OffsetValue
<1>5. \A R : Agrees(R, j) => R[S0] = j.given[S0] /\ R[S0] \in Addresses
  <2>1. j.given \in Seq(Addresses) /\ S0 \in 1 .. Len(j.given)
    BY <1>g DEF MemoryJob, S0
  <2> QED
    BY <2>1 DEF Agrees
<1>6. x.used <= MaxReg
  <2>1. \A a, m \in Nat : a + 4 <= m => \A b1 \in a .. a + 1 : \A c \in b1 + 1 .. b1 + 3 : c <= m
    OBVIOUS
  <2>2. e.used \in g .. g + 1 /\ x.used \in e.used + 1 .. e.used + 3
    BY <1>2, <1>4
  <2> QED
    BY <1>g, <2>1, <2>2, Room
<1>7. WellCoded(j) /\ \A R : Result(R, j) = R[x.at]
  <2>1. \A R : Agrees(R, j) /\ Holds(R, x.code) => Small(R, x.code)
    BY <1>2, <1>4, <1>5
  <2>2. Linear(x, Len(j.given))
    BY <1>4, <1>g
  <2>3. x.at \in 1 .. x.used
    <3>1. \A a \in Nat : \A b1 \in a .. a + 1 : \A c \in b1 + 1 .. b1 + 3 : c \in 1 .. c
      OBVIOUS
    <3>2. x.at = x.used /\ e.used \in g .. g + 1 /\ x.used \in e.used + 1 .. e.used + 3
      BY <1>2, <1>4
    <3> QED
      BY <1>g, <3>1, <3>2
  <2> QED
    BY <1>1, <1>6, <2>1, <2>2, <2>3, MemoryWellCoded
<1>8. Straight(j) = x /\ (op = "load" <=> j.kind = "load")
  BY <1>1, <1>o DEF Straight
<1> QED
  BY <1>4, <1>5, <1>7, <1>8, <1>n

\* What is known of the indexes.
LEMMA ElementFacts ==
  ASSUME NEW j, MemoryJob(j), j.kind = "element"
  PROVE  /\ j.indexes \in Seq(Loadable)
         /\ Len(j.given) \in Nat /\ Len(j.given) >= 1 /\ Len(j.indexes) \in Nat /\ Len(j.indexes) >= 1
         /\ Len(j.given) + 3 * Len(j.indexes) + 5 <= MaxReg
         /\ \A k \in 1 .. Len(j.indexes) :
               IsOperand(j, j.indexes[k]) /\ ValueIn(j, j.indexes[k]) \in Ints
         /\ \A R : Agrees(R, j) => R[S0] = j.given[S0] /\ R[S0] \in Addresses
<1>1. /\ j.indexes \in Seq(Operands) /\ j.indexes # <<>>
      /\ Len(j.given) + 3 * Len(j.indexes) + 5 <= MaxReg
      /\ \A k \in 1 .. Len(j.indexes) :
               IsOperand(j, j.indexes[k]) /\ ValueIn(j, j.indexes[k]) \in Ints
  BY DEF MemoryJob, ElementJob
<1>2. j.given \in Seq(Addresses) /\ Len(j.given) >= 1
  BY DEF MemoryJob, S0
<1>3. \A k \in 1 .. Len(j.indexes) : j.indexes[k] \in Loadable
  BY <1>1 DEF Loadable, ValueIn
<1>4. j.indexes \in Seq(Loadable)
  BY <1>1, <1>3
<1>5. Len(j.given) \in Nat /\ Len(j.indexes) \in Nat /\ Len(j.indexes) >= 1
  BY <1>1, <1>2
<1>6. S0 \in 1 .. Len(j.given) /\ j.given[S0] \in Addresses
  BY <1>2, <1>5 DEF S0
<1> QED
  BY <1>1, <1>2, <1>4, <1>5, <1>6 DEF Agrees

\* The registers the code of e writes hold what a register can.
Coded(j, g, e) == Linear(e, g) /\ \A R : Agrees(R, j) /\ Holds(R, e.code) => Small(R, e.code)

\* The register that e goes on from holds v.
Known(j, g, e, v) ==
    /\ Coded(j, g, e) /\ e.at \in 1 .. e.used
    /\ \A R : Agrees(R, j) /\ Holds(R, e.code) => R[e.at] = v

\* After the code of e, index holds p.
IndexKnown(j, e, index, p) ==
    /\ index \in Operands
    /\ index.const => index.n = p
    /\ index.const \/ index.n \in 1 .. e.used
    /\ \A R : Agrees(R, j) /\ Holds(R, e.code) => Held(R, index) = p

\* The code of e is a part of that of b.
Continues(j, e, b) ==
    /\ b.used \in Nat /\ b.used >= e.used
    /\ \A R : Agrees(R, j) /\ Holds(R, b.code) => Holds(R, e.code)

\* Linear code takes a number of registers.
LEMMA UsedIsNat ==
  ASSUME NEW g \in Nat, NEW e, Linear(e, g)
  PROVE  e.used \in Nat
<1>1. e.code \in Seq(Instructions) /\ e.used = g + Len(e.code)
  BY DEF Linear, Emissions
<1> QED
  BY <1>1

\* What is known of an index remains so when the code goes on.
LEMMA StillKnown ==
  ASSUME NEW j, NEW g \in Nat, NEW e, Linear(e, g), NEW b, Continues(j, e, b),
         NEW index, NEW p, IndexKnown(j, e, index, p)
  PROVE  IndexKnown(j, b, index, p)
<1>1. e.used \in Nat
  BY UsedIsNat
<1>2. 1 .. e.used \subseteq 1 .. b.used
  BY <1>1 DEF Continues
<1> QED
  BY <1>2 DEF IndexKnown, Continues

\* A job is done when its code ends with the value asked for.
LEMMA JobKnown ==
  ASSUME NEW j, MemoryJob(j), NEW e, e = EmitJob(j), NEW v, Known(j, Len(j.given), e, v), e.used <= MaxReg
  PROVE  /\ WellCoded(j)
         /\ \A R : Agrees(R, j) /\ Holds(R, Straight(j).code) => Result(R, j) = v
<1>1. WellCoded(j) /\ \A R : Result(R, j) = R[e.at]
  BY MemoryWellCoded DEF Known, Coded
<1>2. Straight(j) = e
  BY DEF MemoryJob, Straight
<1> QED
  BY <1>1, <1>2 DEF Known

\* A label.
LEMMA LabelKnown ==
  ASSUME NEW j, NEW g \in Nat, NEW e, Coded(j, g, e), NEW a \in Addresses
  PROVE  LET b == Emit(e, "la", 0, 0, a)
         IN Known(j, g, b, a) /\ Continues(j, e, b) /\ b.used = e.used + 1
<1>b. PICK b : b = Emit(e, "la", 0, 0, a)
  OBVIOUS
<1>u. PICK u : u \in Nat /\ u = e.used
  BY DEF Coded, Linear, Emissions
<1>1. a \in Int /\ "la" \in PlainOps
  BY DEF Addresses, PlainOps
<1>2. 0 \in 0 .. e.used
  BY <1>u
<1>3. Linear(e, g)
  BY DEF Coded
<1>4. /\ Linear(b, g) /\ b.used = e.used + 1 /\ b.at = e.used + 1
      /\ \A R : Holds(R, b.code) =>
           /\ Holds(R, e.code)
           /\ R[e.used + 1] = Effect(Inst("la", e.used + 1, 0, 0, a), Content(R, 0), Content(R, 0))
           /\ Small(R, e.code) /\ R[e.used + 1] \in RegRange => Small(R, b.code)
  BY <1>b, <1>1, <1>2, <1>3, EmitPlainLinear
<1>5. \A R : Holds(R, b.code) => R[e.used + 1] = a
  BY <1>4, OtherEffects
<1>6. a \in RegRange
  BY AddressRanges
<1>7. b.used \in Nat /\ b.at \in 1 .. b.used /\ b.used >= e.used
  BY <1>u, <1>4
<1>8. \A R : Agrees(R, j) /\ Holds(R, b.code) => Small(R, b.code)
  BY <1>4, <1>5, <1>6 DEF Coded
<1> QED
  BY <1>b, <1>4, <1>5, <1>7, <1>8 DEF Known, Coded, Continues

\* The address of a local variable, or what is there.
LEMMA OffsetKnown ==
  ASSUME NEW j, NEW g \in Nat, g >= 1, NEW e, Coded(j, g, e), NEW n, IsOffset(n),
         NEW op \in {"addi", "load"},
         \A R : Agrees(R, j) => R[S0] = j.given[S0] /\ R[S0] \in Addresses
  PROVE  LET e1 == ProcessImm(e, S0, n)
             b  == Emit(e1, op, e1.at, 0, ImmLeft(n))
         IN /\ Known(j, g, b, IF op = "load" THEN Mem(j.given[S0] + n) ELSE j.given[S0] + n)
            /\ Continues(j, e, b) /\ b.used \in e.used + 1 .. e.used + 3
<1>b. PICK b : b = LET e1 == ProcessImm(e, S0, n) IN Emit(e1, op, e1.at, 0, ImmLeft(n))
  OBVIOUS
<1>u. PICK u : u \in Nat /\ u = e.used
  BY DEF Coded, Linear, Emissions
<1>1. 0 \in 0 .. e.used /\ Linear(e, g) /\ op \in {"addi", "load", "store"}
  BY <1>u DEF Coded
<1>2. /\ Linear(b, g) /\ b.used \in e.used + 1 .. e.used + 3 /\ b.at = b.used
      /\ \A R : Holds(R, b.code) /\ R[S0] \in Addresses =>
           /\ Holds(R, e.code)
           /\ R[b.at] = (IF op = "load" THEN Mem(R[S0] + n) ELSE R[S0] + n)
           /\ Small(R, e.code) => Small(R, b.code)
  BY <1>1, <1>b, OffsetValue
<1>3. b.used \in Nat /\ b.at \in 1 .. b.used /\ b.used >= e.used
  BY <1>u, <1>2
<1>4. ASSUME NEW R, Agrees(R, j), Holds(R, b.code)
      PROVE  /\ Holds(R, e.code) /\ Small(R, b.code)
             /\ R[b.at] = (IF op = "load" THEN Mem(j.given[S0] + n) ELSE j.given[S0] + n)
  BY <1>2, <1>4 DEF Coded
<1> QED
  BY <1>b, <1>2, <1>3, <1>4 DEF Known, Coded, Continues

\* p elements further on.
Further(v, p, w) == v \in Int /\ p \in Nat /\ 4 * p \in Ints /\ w \in RegRange /\ w = v + 4 * p

\* An element, from a pointer to the first.
LEMMA ElementKnown ==
  ASSUME NEW j, NEW g \in Nat, NEW e, NEW v, Known(j, g, e, v), NEW index, NEW p, IndexKnown(j, e, index, p),
         NEW w, Further(v, p, w), NEW x, x = EmitElementGEP(e, index)
  PROVE  Known(j, g, x, w) /\ x.used = e.used + 2
<1>f. v \in Int /\ p \in Nat /\ 4 * p \in Ints /\ w \in RegRange /\ w = v + 4 * p
  BY DEF Further
<1>1. Linear(e, g) /\ e.at \in 1 .. e.used /\ index \in Operands
  BY DEF Known, Coded, IndexKnown
<1>2. (index.const => index.n = p) /\ (index.const \/ index.n \in 1 .. e.used)
  BY DEF IndexKnown
<1>3. /\ Linear(x, g) /\ x.used = e.used + 2 /\ x.at = x.used
      /\ \A R : Holds(R, x.code) =>
           /\ Holds(R, e.code)
           /\ R[e.at] \in Int /\ Held(R, index) = p =>
                /\ R[x.at] = R[e.at] + 4 * p
                /\ Small(R, e.code) /\ R[e.at] + 4 * p \in RegRange => Small(R, x.code)
  BY <1>1, <1>2, <1>f, ElementValue
<1>4. ASSUME NEW R, Agrees(R, j), Holds(R, x.code)
      PROVE  R[x.at] = w /\ Small(R, x.code)
  <2>1. Holds(R, e.code)
    BY <1>3, <1>4
  <2>2. R[e.at] = v /\ Held(R, index) = p /\ Small(R, e.code)
    BY <1>4, <2>1 DEF Known, Coded, IndexKnown
  <2> QED
    BY <1>3, <1>4, <1>f, <2>2
<1>5. x.at \in 1 .. x.used
  <2>1. e.used \in Nat
    BY <1>1, UsedIsNat
  <2> QED
    BY <1>3, <2>1
<1> QED
  BY <1>3, <1>4, <1>5 DEF Known, Coded

\* The flattened indexes of a job.
LEMMA FlattenKnown ==
  ASSUME NEW j, NEW g \in Nat, g = Len(j.given), NEW e, Coded(j, g, e),
         NEW dims, NEW indexes \in Seq(Loadable), InArray(j, dims, indexes),
         \A k \in 1 .. Len(indexes) : IsOperand(j, indexes[k])
  PROVE  LET f == Flatten(e, dims, indexes)
             p == Place(j, dims, indexes)
         IN /\ Coded(j, g, f.e) /\ Continues(j, e, f.e) /\ f.e.used \in e.used .. e.used + 3 * Len(indexes)
            /\ IndexKnown(j, f.e, f.tmp, p)
            /\ p \in Nat /\ 4 * p \in Ints
<1>f. PICK f : f = Flatten(e, dims, indexes)
  OBVIOUS
<1>p. PICK p : p = Place(j, dims, indexes)
  OBVIOUS
<1>n. PICK n : n \in Nat /\ n = Len(indexes)
  OBVIOUS
<1>1. Linear(e, g)
  BY DEF Coded
<1>2. Flattened(j, g, e, f, n, p)
  BY <1>1, <1>f, <1>p, <1>n, FlattenValue
<1>3. p \in Nat /\ 4 * p \in Ints
  <2>1. p \in Nat /\ p < TotalSize(dims)
    BY <1>p, PlaceBelow
  <2> QED
    BY <2>1, OffsetsAreInts
<1>u. PICK u : u \in Nat /\ u = e.used
  BY <1>1, UsedIsNat
<1>4. f.e.used \in Nat /\ f.e.used >= e.used
  <2>1. f.e.used \in u .. u + 3 * n
    BY <1>2, <1>u DEF Flattened
  <2> QED
    BY <1>n, <1>u, <2>1
<1>5. Coded(j, g, f.e) /\ Continues(j, e, f.e) /\ IndexKnown(j, f.e, f.tmp, p)
  BY <1>2, <1>4 DEF Flattened, Coded, Continues, IndexKnown
<1>6. f.e.used \in e.used .. e.used + 3 * n
  BY <1>2 DEF Flattened
<1> QED
  BY <1>3, <1>5, <1>6, <1>f, <1>p, <1>n

\* The code of an element, where a pointer to the first is the last register.
LEMMA ElementAfter ==
  ASSUME NEW j, NEW g \in Nat, NEW e, Linear(e, g), NEW b, Continues(j, e, b), NEW v, Known(j, g, b, v),
         NEW index, NEW p, IndexKnown(j, e, index, p),
         NEW w, Further(v, p, w), NEW x, x = EmitElementGEP(b, index)
  PROVE  Known(j, g, x, w) /\ x.used = b.used + 2
<1>1. IndexKnown(j, b, index, p)
  BY StillKnown
<1>2. Known(j, g, x, w) /\ x.used = b.used + 2
  BY <1>1, ElementKnown
<1> QED
  BY <1>2

\* An element of a global or local array.
LEMMA ArrayCode ==
  ASSUME NEW j, MemoryJob(j), j.kind = "element", j.var.where \in {"global", "local"}
  PROVE  /\ WellCoded(j)
         /\ \A R : Agrees(R, j) /\ Holds(R, Straight(j).code) => Result(R, j) = AddressOf(j)
<1>g. PICK g : g \in Nat /\ g = Len(j.given) /\ g >= 1
  BY ElementFacts
<1>n. PICK n : n \in Nat /\ n = Len(j.indexes) /\ g + 3 * n + 5 <= MaxReg
  BY <1>g, ElementFacts
<1>d. PICK d : d = j.var.dims
  OBVIOUS
<1>p. PICK p : p = Place(j, d, j.indexes)
  OBVIOUS
<1>h. PICK h : h = j.var.home
  OBVIOUS
<1>e. PICK e : e = NoCode(g)
  OBVIOUS
<1>f. PICK f : f = Flatten(e, d, j.indexes)
  OBVIOUS
<1>b. PICK b : b = EmitBase(f.e, j.var)
  OBVIOUS
<1>v. PICK v : v = IF j.var.where = "global" THEN h ELSE j.given[S0] + h
  OBVIOUS
<1>x. PICK x : x = EmitElementGEP(b, f.tmp)
  OBVIOUS
<1>1. EmitJob(j) = x
  BY <1>g, <1>d, <1>e, <1>f, <1>b, <1>x DEF EmitJob, EmitAddress, ElementAt
<1>2. AddressOf(j) = v + 4 * p
  BY <1>d, <1>h, <1>p, <1>v DEF AddressOf
<1>3. Coded(j, g, e) /\ e.used = g
  BY <1>g, <1>e, NothingCoded DEF Coded
<1>4. /\ Coded(j, g, f.e) /\ f.e.used \in e.used .. e.used + 3 * n
      /\ IndexKnown(j, f.e, f.tmp, p)
      /\ p \in Nat /\ 4 * p \in Ints
  <2>1. InArray(j, d, j.indexes)
    BY <1>d DEF MemoryJob, ElementJob
  <2>2. j.indexes \in Seq(Loadable) /\ \A k \in 1 .. Len(j.indexes) : IsOperand(j, j.indexes[k])
    BY ElementFacts
  <2>3. g \in Nat /\ g = Len(j.given)
    BY <1>g
  <2> QED
    BY <1>3, <1>f, <1>p, <1>n, <2>1, <2>2, <2>3, FlattenKnown
<1>5. /\ Known(j, g, b, v) /\ Continues(j, f.e, b) /\ b.used \in f.e.used + 1 .. f.e.used + 3
      /\ v \in Int /\ v + 4 * p \in RegRange
  <2>u. PICK u : u \in Nat /\ u = f.e.used
    BY <1>g, <1>4, UsedIsNat DEF Coded
  <2>1. 4 * p \in -(2 * IntHalf) .. 2 * IntHalf
    BY <1>4, Sizes
  <2>2. CASE j.var.where = "global"
    <3>1. h \in Addresses /\ v = h
      BY <1>h, <1>v, <2>2 DEF MemoryJob, ElementJob
    <3>2. b = Emit(f.e, "la", 0, 0, h)
      BY <1>b, <1>h, <2>2 DEF EmitBase
    <3>3. Known(j, g, b, v) /\ Continues(j, f.e, b) /\ b.used = f.e.used + 1
      <4>1. g \in Nat /\ Coded(j, g, f.e)
        BY <1>g, <1>4
      <4> QED
        BY <3>1, <3>2, <4>1, LabelKnown
    <3>4. b.used \in f.e.used + 1 .. f.e.used + 3
      BY <2>u, <3>3
    <3>5. v \in Int /\ v + 4 * p \in RegRange
      BY <2>1, <3>1, AddressRanges
    <3> QED
      BY <3>3, <3>4, <3>5
  <2>3. CASE j.var.where = "local"
    <3>1. IsOffset(h) /\ v = j.given[S0] + h
      BY <1>h, <1>v, <2>3 DEF MemoryJob, ElementJob
    <3>2. b = LET e1 == ProcessImm(f.e, S0, h) IN Emit(e1, "addi", e1.at, 0, ImmLeft(h))
      BY <1>b, <1>h, <2>3 DEF EmitBase, AtOffset
    <3>3. Known(j, g, b, v) /\ Continues(j, f.e, b) /\ b.used \in f.e.used + 1 .. f.e.used + 3
      <4>1. g \in Nat /\ g >= 1
        BY <1>g
      <4>2. Coded(j, g, f.e)
        BY <1>4
      <4>3. \A R : Agrees(R, j) => R[S0] = j.given[S0] /\ R[S0] \in Addresses
        BY ElementFacts
      <4> QED
        BY <3>1, <3>2, <4>1, <4>2, <4>3, OffsetKnown
    <3>4. j.given[S0] \in Addresses /\ h \in Ints
      <4>1. S0 \in 1 .. Len(j.given)
        BY <1>g DEF S0
      <4>2. j.given \in Seq(Addresses)
        BY DEF MemoryJob
      <4> QED
        BY <3>1, <4>1, <4>2 DEF IsOffset
    <3>5. v \in Int /\ v + 4 * p \in RegRange
      BY <2>1, <3>1, <3>4, AddressRanges
    <3> QED
      BY <3>3, <3>5
  <2> QED
    BY <2>2, <2>3
<1>w. PICK w : w = v + 4 * p
  OBVIOUS
<1>6. Known(j, g, x, w) /\ x.used = b.used + 2
  <2>1. g \in Nat /\ Linear(f.e, g)
    BY <1>g, <1>4 DEF Coded
  <2>2. IndexKnown(j, f.e, f.tmp, p) /\ Further(v, p, w)
    BY <1>4, <1>5, <1>w DEF Further
  <2> QED
    BY <1>5, <1>x, <2>1, <2>2, ElementAfter
<1>7. x.used <= MaxReg
  <2>1. \A a, m, k \in Nat : a + 3 * k + 5 <= m =>
           \A c1 \in a .. a + 3 * k : \A c2 \in c1 + 1 .. c1 + 3 : c2 + 2 <= m
    OBVIOUS
  <2>2. f.e.used \in g .. g + 3 * n /\ b.used \in f.e.used + 1 .. f.e.used + 3
    BY <1>3, <1>4, <1>5
  <2> QED
    BY <1>g, <1>n, <1>6, <2>1, <2>2, Room
<1> QED
  BY <1>1, <1>2, <1>6, <1>7, <1>g, <1>w, JobKnown

\* A step of a pointer.
LEMMA StepKnown ==
  ASSUME NEW j, NEW g \in Nat, NEW e, NEW v \in Int, Known(j, g, e, v),
         NEW index, NEW i \in Int, IndexKnown(j, e, index, i),
         NEW size \in Ints, NEW d \in Ints, d = size * i,
         NEW w \in RegRange, w = v + d, NEW x, x = EmitStepGEP(e, size, index)
  PROVE  Known(j, g, x, w) /\ x.used \in e.used + 2 .. e.used + 3
<1>1. Linear(e, g) /\ e.at \in 1 .. e.used /\ index \in Operands
  BY DEF Known, Coded, IndexKnown
<1>2. (index.const => index.n = i) /\ (index.const \/ index.n \in 1 .. e.used)
  BY DEF IndexKnown
<1>3. index.const => size * index.n \in Ints
  BY <1>2
<1>4. /\ Linear(x, g) /\ x.used \in e.used + 2 .. e.used + 3 /\ x.at = x.used
      /\ \A R : Holds(R, x.code) =>
           /\ Holds(R, e.code)
           /\ (R[e.at] \in Int /\ Held(R, index) \in Int /\ size * Held(R, index) \in Ints)
                => /\ R[x.at] = R[e.at] + size * Held(R, index)
                   /\ Small(R, e.code) /\ R[e.at] + size * Held(R, index) \in RegRange
                        => Small(R, x.code)
  BY <1>1, <1>2, <1>3, StepGEPValue
<1>5. ASSUME NEW R, Agrees(R, j), Holds(R, x.code)
      PROVE  R[x.at] = w /\ Small(R, x.code)
  <2>1. Holds(R, e.code)
    BY <1>4, <1>5
  <2>2. R[e.at] = v /\ Held(R, index) = i /\ Small(R, e.code)
    BY <1>5, <2>1 DEF Known, Coded, IndexKnown
  <2>3. size * Held(R, index) = d
    BY <2>2
  <2> QED
    BY <1>4, <1>5, <2>2, <2>3
<1>6. x.at \in 1 .. x.used
  <2>1. e.used \in Nat
    BY <1>1, UsedIsNat
  <2> QED
    BY <1>4, <2>1
<1> QED
  BY <1>4, <1>5, <1>6 DEF Known, Coded

\* An index of a job is known as long as its code runs.
LEMMA GivenKnown ==
  ASSUME NEW j, NEW g \in Nat, g = Len(j.given), NEW e, Linear(e, g), e.used >= g,
         NEW index \in Operands, IsOperand(j, index)
  PROVE  IndexKnown(j, e, index, ValueIn(j, index))
<1>1. e.used \in Nat
  BY UsedIsNat
<1>2. \A R : Agrees(R, j) => Held(R, index) = ValueIn(j, index)
  BY HeldIsValue
<1>3. index.const => index.n = ValueIn(j, index)
  BY DEF ValueIn
<1>4. index.const \/ index.n \in 1 .. e.used
  <2>1. index.const \/ index.n \in 1 .. g
    BY DEF IsOperand
  <2>2. 1 .. g \subseteq 1 .. e.used
    <3>1. \A a, b \in Nat : b >= a => 1 .. a \subseteq 1 .. b
      OBVIOUS
    <3> QED
      BY <1>1, <3>1
  <2> QED
    BY <2>1, <2>2
<1> QED
  BY <1>2, <1>3, <1>4 DEF IndexKnown

\* The same code goes on from a register that it wrote before.
LEMMA BackTo ==
  ASSUME NEW j, NEW g \in Nat, NEW s, NEW v, Known(j, g, s, v), NEW e, Coded(j, g, e), Continues(j, s, e)
  PROVE  Known(j, g, [e EXCEPT !.at = s.at], v)
<1>y. PICK y : y = [e EXCEPT !.at = s.at]
  OBVIOUS
<1>1. s.at \in 1 .. s.used /\ Linear(e, g) /\ Linear(s, g)
  BY DEF Known, Coded
<1>2. s.used \in Nat /\ e.used \in Nat /\ e.used >= s.used
  BY <1>1, UsedIsNat DEF Continues
<1>3. s.at \in 1 .. e.used /\ s.at \in 0 .. e.used
  BY <1>1, <1>2
<1>4. Linear(y, g) /\ y.code = e.code /\ y.used = e.used /\ y.at = s.at
  BY <1>1, <1>3, <1>y, AtLinear
<1> QED
  BY <1>y, <1>3, <1>4 DEF Known, Coded, Continues

\* The same code, and what is known after it.
LEMMA SameKnown ==
  ASSUME NEW j, NEW e, NEW y, y.code = e.code, y.used = e.used, NEW index, NEW p, IndexKnown(j, e, index, p)
  PROVE  IndexKnown(j, y, index, p)
<1> QED
  BY DEF IndexKnown

\* An element behind a parameter.
LEMMA ParamCode ==
  ASSUME NEW j, MemoryJob(j), j.kind = "element", j.var.where = "param"
  PROVE  /\ WellCoded(j)
         /\ \A R : Agrees(R, j) /\ Holds(R, Straight(j).code) => Result(R, j) = AddressOf(j)
<1>g. PICK g : g \in Nat /\ g = Len(j.given) /\ g >= 1
  BY ElementFacts
<1>n. PICK n : n \in Nat /\ n = Len(j.indexes) /\ n >= 1 /\ g + 3 * n + 5 <= MaxReg
  BY <1>g, ElementFacts
<1>d. PICK d : d = j.var.dims
  OBVIOUS
<1>i. PICK i : i = j.indexes[1]
  OBVIOUS
<1>t. PICK t : t = Tail(j.indexes)
  OBVIOUS
<1>h. PICK h : h = j.var.home
  OBVIOUS
<1>z. PICK z : z = TotalSize(d)
  OBVIOUS
<1>c. PICK c : c = ValueIn(j, i)
  OBVIOUS
<1>p. PICK p : p = Place(j, d, t)
  OBVIOUS
<1>m. PICK m : m = Mem(j.given[S0] + h)
  OBVIOUS
<1>1. j.indexes \in Seq(Loadable) /\ \A k \in 1 .. n : IsOperand(j, j.indexes[k])
  BY <1>n, ElementFacts
<1>2. /\ i \in Loadable /\ i \in Operands /\ IsOperand(j, i)
      /\ t \in Seq(Loadable) /\ Len(t) = n - 1
      /\ \A k \in 1 .. Len(t) : IsOperand(j, t[k])
  <2>1. 1 \in 1 .. n /\ j.indexes # <<>>
    BY <1>n
  <2>2. i \in Loadable /\ IsOperand(j, i)
    BY <1>1, <1>i, <1>n, <2>1
  <2>3. i \in Operands
    BY <2>2 DEF Loadable
  <2>4. t \in Seq(Loadable) /\ Len(t) = n - 1 /\ \A k \in 1 .. n - 1 : t[k] = j.indexes[k + 1]
    BY <1>1, <1>t, <1>n, <2>1
  <2>5. \A k \in 1 .. n - 1 : k + 1 \in 1 .. n
    BY <1>n
  <2> QED
    BY <1>1, <2>2, <2>3, <2>4, <2>5
<1>3. IsOffset(h) /\ IsStep(z, c) /\ InArray(j, d, t)
  BY <1>h, <1>z, <1>c, <1>d, <1>i, <1>t DEF MemoryJob, ElementJob
<1>4. 4 * z \in Ints /\ c \in Ints /\ 4 * z * c \in Ints
  BY <1>3 DEF IsStep
<1>5. p \in Nat /\ p < z /\ 4 * p \in Ints
  BY <1>2, <1>3, <1>p, <1>z, PlaceBelow, OffsetsAreInts
<1>s. PICK s : s = 4 * z
  OBVIOUS
<1>q. PICK q : q = s * c
  OBVIOUS
<1>6. s \in Ints /\ q \in Ints /\ c \in Int
  BY <1>4, <1>s, <1>q, IntsAreInt
<1>w. PICK w : w = m + q
  OBVIOUS
<1>x. PICK x : x = 4 * p
  OBVIOUS
<1>7. /\ m \in Int /\ w \in Int /\ w \in RegRange /\ x \in Ints /\ x \in Int
      /\ w + x \in RegRange
  <2>1. j.given[S0] \in Addresses
    <3>1. S0 \in 1 .. Len(j.given)
      BY <1>g DEF S0
    <3>2. j.given \in Seq(Addresses)
      BY DEF MemoryJob
    <3> QED
      BY <3>1, <3>2
  <2>2. h \in Ints
    BY <1>3 DEF IsOffset
  <2>3. m \in Int /\ \A u \in -(2 * IntHalf) .. 2 * IntHalf : m + u \in RegRange
    BY <1>m, <2>1, <2>2, AddressRanges
  <2>4. q \in -IntHalf .. IntHalf - 1 /\ x \in -IntHalf .. IntHalf - 1
    BY <1>5, <1>6, <1>x, Sizes
  <2>5. q \in -(2 * IntHalf) .. 2 * IntHalf /\ q + x \in -(2 * IntHalf) .. 2 * IntHalf
    BY <2>4, Sizes
  <2>6. m + q \in RegRange /\ m + (q + x) \in RegRange
    BY <2>3, <2>5
  <2>7. q \in Int /\ x \in Int
    BY <2>4, Sizes
  <2>8. m + (q + x) = w + x /\ w \in Int
    BY <1>w, <2>3, <2>7
  <2> QED
    BY <1>w, <1>5, <1>x, <2>3, <2>6, <2>7, <2>8
<1>8. AddressOf(j) = w + x
  <2>1. AddressOf(j) = m + 4 * (c * z + p)
    BY <1>c, <1>d, <1>h, <1>i, <1>m, <1>p, <1>t, <1>z DEF AddressOf
  <2>2. z \in Int
    <3>1. Weight(d, 0) \in Nat \ {0}
      BY <1>3, Weights DEF InArray
    <3> QED
      BY <1>z, <3>1 DEF Weight
  <2>3. \A k, a, b, y \in Int : k + 4 * (a * b + y) = (k + (4 * b) * a) + 4 * y
    OBVIOUS
  <2>4. m + 4 * (c * z + p) = (m + (4 * z) * c) + 4 * p
    BY <1>5, <1>6, <1>7, <2>2, <2>3
  <2> QED
    BY <1>s, <1>q, <1>w, <1>x, <2>1, <2>4
<1>a. PICK e0 : e0 = NoCode(g)
  OBVIOUS
<1>b. PICK e1 : e1 = EmitLoad(e0, h)
  OBVIOUS
<1>e. PICK s1 : s1 = EmitStepGEP(e1, s, i)
  OBVIOUS
<1>9. Known(j, g, e1, m) /\ e1.used \in g + 1 .. g + 3
  <2>1. Coded(j, g, e0) /\ e0.used = g
    BY <1>g, <1>a, NothingCoded DEF Coded
  <2>2. e1 = LET k == ProcessImm(e0, S0, h) IN Emit(k, "load", k.at, 0, ImmLeft(h))
    BY <1>b DEF EmitLoad
  <2>3. \A R : Agrees(R, j) => R[S0] = j.given[S0] /\ R[S0] \in Addresses
    BY ElementFacts
  <2>4. g \in Nat /\ g >= 1 /\ IsOffset(h)
    BY <1>g, <1>3
  <2> QED
    BY <1>m, <2>1, <2>2, <2>3, <2>4, OffsetKnown
<1>10. IndexKnown(j, e1, i, c)
  <2>1. g \in Nat /\ g = Len(j.given) /\ e1.used >= g
    BY <1>g, <1>9
  <2>2. Linear(e1, g)
    BY <1>9 DEF Known, Coded
  <2> QED
    BY <1>2, <1>c, <2>1, <2>2, GivenKnown
<1>11. Known(j, g, s1, w) /\ s1.used \in e1.used + 2 .. e1.used + 3
  <2>1. g \in Nat /\ m \in Int /\ c \in Int /\ s \in Ints /\ q \in Ints /\ w \in RegRange
    BY <1>g, <1>6, <1>7
  <2> QED
    BY <1>9, <1>10, <1>q, <1>w, <1>e, <2>1, StepKnown
<1>12. EmitJob(j) = EmitThrough(s1, d, t)
  BY <1>a, <1>b, <1>d, <1>e, <1>g, <1>h, <1>i, <1>s, <1>t, <1>z DEF EmitJob, EmitAddress
<1>13. CASE d = <<>>
  <2>1. EmitJob(j) = s1
    BY <1>12, <1>13 DEF EmitThrough
  <2>2. p = 0 /\ x = 0 /\ AddressOf(j) = w
    <3>1. z = 1
      BY <1>z, <1>13 DEF TotalSize
    <3> QED
      BY <1>5, <1>7, <1>8, <1>x, <3>1
  <2>3. s1.used <= MaxReg
    <3>1. \A a, b, k \in Nat : k >= 1 /\ a + 3 * k + 5 <= b =>
             \A c1 \in a + 1 .. a + 3 : \A c2 \in c1 + 2 .. c1 + 3 : c2 <= b
      OBVIOUS
    <3> QED
      BY <1>g, <1>n, <1>9, <1>11, <3>1, Room
  <2>4. Known(j, Len(j.given), s1, w) /\ s1 = EmitJob(j)
    BY <1>11, <1>g, <2>1
  <2> QED
    BY <2>2, <2>3, <2>4, JobKnown
<1>14. CASE d # <<>>
  <2>f. PICK f : f = Flatten(s1, d, t)
    OBVIOUS
  <2>y. PICK y : y = [f.e EXCEPT !.at = s1.at]
    OBVIOUS
  <2>v. PICK v : v = EmitElementGEP(y, f.tmp)
    OBVIOUS
  <2>1. EmitJob(j) = v
    BY <1>12, <1>14, <2>f, <2>y, <2>v DEF EmitThrough, ElementBehind
  <2>2. g \in Nat /\ g = Len(j.given)
    BY <1>g
  <2>3. /\ Coded(j, g, f.e) /\ Continues(j, s1, f.e) /\ f.e.used \in s1.used .. s1.used + 3 * (n - 1)
        /\ IndexKnown(j, f.e, f.tmp, p)
    <3>1. Coded(j, g, s1)
      BY <1>11 DEF Known
    <3>2. InArray(j, d, t) /\ t \in Seq(Loadable) /\ Len(t) = n - 1 /\ \A k \in 1 .. Len(t) : IsOperand(j, t[k])
      BY <1>2, <1>3
    <3> QED
      BY <2>2, <3>1, <3>2, <2>f, <1>p, FlattenKnown
  <2>4. Known(j, g, y, w)
    BY <1>11, <2>2, <2>3, <2>y, BackTo
  <2>5. y.code = f.e.code /\ y.used = f.e.used
    <3>1. f.e \in Emissions
      BY <2>3 DEF Coded, Linear
    <3> QED
      BY <2>y, <3>1 DEF Emissions
  <2>6. IndexKnown(j, y, f.tmp, p)
    BY <2>3, <2>5, SameKnown
  <2>7. PICK r : r = w + x
    OBVIOUS
  <2>o. PICK o : o = f.tmp
    OBVIOUS
  <2>8. Known(j, g, v, r) /\ v.used = y.used + 2
    <3>1. g \in Nat /\ Further(w, p, r)
      BY <1>g, <1>5, <1>7, <1>x, <2>7 DEF Further
    <3>2. IndexKnown(j, y, o, p) /\ v = EmitElementGEP(y, o)
      BY <2>6, <2>v, <2>o
    <3> QED
      BY <2>4, <3>1, <3>2, ElementKnown
  <2>9. v.used <= MaxReg
    <3>1. \A a, b, k \in Nat : k >= 1 /\ a + 3 * k + 5 <= b =>
             \A c1 \in a + 1 .. a + 3 : \A c2 \in c1 + 2 .. c1 + 3 :
               \A c3 \in c2 .. c2 + 3 * (k - 1) : c3 + 2 <= b
      OBVIOUS
    <3> QED
      BY <1>g, <1>n, <1>9, <1>11, <2>3, <2>5, <2>8, <3>1, Room
  <2>10. Known(j, Len(j.given), v, AddressOf(j)) /\ v = EmitJob(j)
    BY <1>8, <2>1, <2>2, <2>7, <2>8
  <2> QED
    BY <2>9, <2>10, JobKnown
<1> QED
  BY <1>13, <1>14

\* A job on memory leaves the address asked for, or what is there.
LEMMA MemoryCode ==
  ASSUME NEW j, MemoryJob(j)
  PROVE  WellCoded(j)
<1>1. j.kind = "element" => j.var.where \in {"global", "local", "param"}
  BY DEF MemoryJob, ElementJob
<1>2. j.kind \in {"element", "load", "store", "cast"}
  BY DEF MemoryJob
<1> QED
  BY <1>1, <1>2, LocalCode, ArrayCode, ParamCode

-----------------------------------------------------------------------------
(* The run *)

\* The jobs of Init.
IsJob(j) == (IsIntJob(j) /\ Defined(j)) \/ j \in FloatJobs \/ j \in MemoryJobs

\* The kinds of jobs.
LEMMA Kinds ==
  ASSUME NEW j, IsJob(j)
  PROVE  \/ j.kind = "int" /\ IsIntJob(j) /\ Defined(j)
         \/ j.kind \in {"float", "cond"} /\ FloatJob(j)
         \/ j.kind \in {"element", "load", "store", "cast"} /\ MemoryJob(j)
<1>1. CASE IsIntJob(j) /\ Defined(j)
  BY <1>1, IntJobFacts
<1>2. CASE j \in FloatJobs
  <2>1. FloatJob(j)
    BY <1>2, OtherJobs
  <2> QED
    BY <2>1 DEF FloatJob
<1>3. CASE j \in MemoryJobs
  <2>1. MemoryJob(j)
    BY <1>3, OtherJobs
  <2> QED
    BY <2>1 DEF MemoryJob
<1> QED
  BY <1>1, <1>2, <1>3 DEF IsJob

\* The code of every job writes each register once, from earlier ones, and
\* none of them overflows.
LEMMA JobCoded ==
  ASSUME NEW j, IsJob(j)
  PROVE  WellCoded(j)
<1>1. CASE j.kind = "int" /\ IsIntJob(j) /\ Defined(j)
  BY <1>1, IntCode
<1>2. CASE j.kind \in {"float", "cond"} /\ FloatJob(j)
  BY <1>2, FloatCode
<1>3. CASE MemoryJob(j)
  BY <1>3, MemoryCode
<1> QED
  BY <1>1, <1>2, <1>3, Kinds

\* Whatever the registers given hold, the others can hold what linear code
\* leaves in them.
LEMMA Completion ==
  ASSUME NEW g \in Nat, NEW e, Linear(e, g), NEW G
  PROVE  \E R : (\A k \in 1 .. g : R[k] = G[k]) /\ Holds(R, e.code)
<1> PICK n : n = Len(e.code)
  OBVIOUS
<1> DEFINE Upto(R, k) == /\ \A m \in 1 .. g : R[m] = G[m]
                         /\ \A m \in 1 .. k : R[e.code[m].d] = EffectIn(R, e.code[m])
<1> PICK T : T = {k \in 0 .. n : \E R : Upto(R, k)}
  OBVIOUS
<1>1. /\ n \in Nat
      /\ \A k \in 1 .. n :
            e.code[k].d = g + k /\ e.code[k].a \in 0 .. g + k - 1 /\ e.code[k].b \in 0 .. g + k - 1
  BY DEF Linear, Emissions
<1> HIDE DEF Upto
<1>2. 0 \in T
  <2>1. Upto(G, 0)
    BY DEF Upto
  <2>2. 0 \in 0 .. n
    BY <1>1
  <2> QED
    BY <2>1, <2>2
<1>3. ASSUME NEW k \in 1 .. n, k - 1 \in T PROVE k \in T
  <2>1. PICK R : Upto(R, k - 1)
    BY <1>3
  <2> USE DEF Upto
  <2> PICK v : v = EffectIn(R, e.code[k])
    OBVIOUS
  <2> PICK Q : Q = [m \in 0 .. g + k |-> IF m = g + k THEN v ELSE R[m]]
    OBVIOUS
  <2>2. /\ Q[g + k] = v /\ \A m \in 0 .. g + k - 1 : Q[m] = R[m]
    BY <1>1
  <2>3. \A m \in 0 .. g + k - 1 : Content(Q, m) = Content(R, m)
    BY <2>2 DEF Content
  <2>4. ASSUME NEW m \in 1 .. k PROVE Q[e.code[m].d] = EffectIn(Q, e.code[m])
    <3>1. /\ e.code[m].d = g + m /\ e.code[m].a \in 0 .. g + m - 1 /\ e.code[m].b \in 0 .. g + m - 1
          /\ 0 .. g + m - 1 \subseteq 0 .. g + k - 1
      BY <1>1
    <3>2. EffectIn(Q, e.code[m]) = EffectIn(R, e.code[m])
      BY <2>3, <3>1 DEF EffectIn
    <3>3. CASE m = k
      BY <2>2, <3>1, <3>2, <3>3
    <3>4. CASE m # k
      <4>1. m \in 1 .. k - 1 /\ g + m \in 0 .. g + k - 1
        BY <1>1, <3>4
      <4>2. R[e.code[m].d] = EffectIn(R, e.code[m])
        BY <2>1, <4>1
      <4> QED
        BY <2>2, <3>1, <3>2, <4>1, <4>2
    <3> QED
      BY <3>3, <3>4
  <2>5. \A m \in 1 .. g : Q[m] = G[m]
    <3>1. \A m \in 1 .. g : m \in 0 .. g + k - 1
      BY <1>1
    <3> QED
      BY <2>1, <2>2, <3>1
  <2>6. Upto(Q, k)
    BY <2>4, <2>5
  <2> HIDE DEF Upto
  <2>7. k \in 0 .. n
    BY <1>1
  <2> QED
    BY <2>6, <2>7
<1>4. \A k \in 0 .. n : k \in T
  BY <1>1, <1>2, <1>3, UpTo
<1>5. n \in 0 .. n
  BY <1>1
<1>6. \E R : Upto(R, n)
  BY <1>4, <1>5
<1> QED
  BY <1>6 DEF Holds, Upto
\* The registers while the code runs, if R satisfies all its equations.
During(R, j, ph, p, S) ==
    \A k \in 1 .. MaxReg :
        S[k] = IF Turned(j) /\ ph = "done" /\ k = Straight(j).at THEN Truth(R[k] = 0)
               ELSE IF k < Len(j.given) + p /\ k <= Straight(j).used THEN R[k]
               ELSE 0

\* The registers written so far hold what the code leaves in them, the others nothing.
Running(j, ph, c, res, p, S) ==
    /\ IsJob(j)
    /\ ph \in {"select", "run", "done"} /\ p \in 1 .. Len(EmitJob(j).code) + 1
    /\ S = [k \in 1 .. MaxReg |-> S[k]]
    /\ ph = "select" => p = 1 /\ c = <<>> /\ res = 0
    /\ ph # "select" => c = EmitJob(j).code /\ res = EmitJob(j).at
    /\ ph = "done" => p = Len(c) + 1
    /\ \E R : Agrees(R, j) /\ Holds(R, Straight(j).code) /\ During(R, j, ph, p, S)

\* The code of a job is run from its registers, and what has been run holds.
RunInv == Running(job, phase, code, result, pc, regs)

\* WellCoded, in numbers.
LEMMA CodeSizes ==
  ASSUME NEW j, IsJob(j)
  PROVE  /\ Len(j.given) \in Nat /\ Len(Straight(j).code) \in Nat /\ Len(EmitJob(j).code) \in Nat
         /\ Straight(j).used = Len(j.given) + Len(Straight(j).code)
         /\ Straight(j).used <= MaxReg /\ Len(EmitJob(j).code) <= MaxReg
         /\ Straight(j).at \in 1 .. Straight(j).used /\ EmitJob(j).at = Straight(j).at
         /\ Turned(j) => /\ Len(EmitJob(j).code) = Len(Straight(j).code) + 1
                         /\ EmitJob(j).code[Len(Straight(j).code) + 1] = Negation(Straight(j).at)
         /\ ~Turned(j) => Len(EmitJob(j).code) = Len(Straight(j).code)
         /\ \A k \in 1 .. Len(Straight(j).code) :
               /\ EmitJob(j).code[k] = Straight(j).code[k]
               /\ Straight(j).code[k].d = Len(j.given) + k
               /\ Straight(j).code[k].a \in 0 .. Len(j.given) + k - 1
               /\ Straight(j).code[k].b \in 0 .. Len(j.given) + k - 1
         /\ EmitJob(j).code \in Seq(Instructions)
<1>1. WellCoded(j)
  BY JobCoded
<1> PICK g \in Nat : g = Len(j.given)
  BY <1>1 DEF WellCoded
<1> PICK s : s = Straight(j)
  OBVIOUS
<1> PICK e : e = EmitJob(j)
  OBVIOUS
<1>2. /\ Linear(s, g) /\ s.used <= MaxReg /\ Len(e.code) <= MaxReg
      /\ s.at \in 1 .. s.used /\ e.at = s.at
      /\ e.code = IF Turned(j) THEN Append(s.code, Negation(s.at)) ELSE s.code
  BY <1>1 DEF WellCoded
<1>3. /\ s.code \in Seq(Instructions) /\ s.used = g + Len(s.code) /\ s.at \in Int
      /\ \A k \in 1 .. Len(s.code) :
            s.code[k].d = g + k /\ s.code[k].a \in 0 .. g + k - 1 /\ s.code[k].b \in 0 .. g + k - 1
  BY <1>2 DEF Linear, Emissions
<1>4. Len(s.code) \in Nat
  BY <1>3
<1>5. ASSUME Turned(j)
      PROVE  /\ Len(e.code) \in Nat /\ Len(e.code) = Len(s.code) + 1
             /\ e.code[Len(s.code) + 1] = Negation(s.at)
             /\ \A k \in 1 .. Len(s.code) : e.code[k] = s.code[k]
             /\ e.code \in Seq(Instructions)
  <2>1. Negation(s.at) \in Instructions
    BY <1>3 DEF Negation, Inst, Instructions, Assembles, PlainOps
  <2>2. e.code = Append(s.code, Negation(s.at))
    BY <1>2, <1>5
  <2>3. /\ e.code \in Seq(Instructions) /\ Len(e.code) = Len(s.code) + 1
        /\ \A k \in 1 .. Len(s.code) : e.code[k] = s.code[k]
        /\ e.code[Len(s.code) + 1] = Negation(s.at)
    BY <1>3, <2>1, <2>2, AppendFact
  <2>4. Len(e.code) \in Nat
    BY <2>3
  <2> QED
    BY <1>3, <1>5, <2>3, <2>4
<1>6. ASSUME ~Turned(j)
      PROVE  /\ Len(e.code) \in Nat /\ Len(e.code) = Len(s.code)
             /\ \A k \in 1 .. Len(s.code) : e.code[k] = s.code[k]
             /\ e.code \in Seq(Instructions)
  BY <1>2, <1>3, <1>4, <1>6
<1>7. /\ g \in Nat /\ Len(s.code) \in Nat /\ s.used = g + Len(s.code)
      /\ s.used <= MaxReg /\ Len(e.code) <= MaxReg
      /\ s.at \in 1 .. s.used /\ e.at = s.at
  BY <1>2, <1>3, <1>4
<1> QED
  BY <1>3, <1>5, <1>6, <1>7

\* A job starts with nothing written.
LEMMA StartsRunning ==
  ASSUME NEW j, IsJob(j), NEW S,
         S = [k \in 1 .. MaxReg |-> IF k <= Len(j.given) THEN j.given[k] ELSE 0]
  PROVE  Running(j, "select", <<>>, 0, 1, S)
<1>g. PICK g : g \in Nat /\ g = Len(j.given)
  BY CodeSizes
<1>s. PICK s : s = Straight(j)
  OBVIOUS
<1>1. Linear(s, g)
  BY <1>g, <1>s, JobCoded DEF WellCoded
<1>2. s.used = g + Len(s.code) /\ Len(s.code) \in Nat /\ Len(EmitJob(j).code) \in Nat /\ s.used <= MaxReg
  BY <1>g, <1>s, CodeSizes
<1>3. PICK R : (\A k \in 1 .. g : R[k] = j.given[k]) /\ Holds(R, s.code)
  BY <1>g, <1>1, Completion
<1>4. During(R, j, "select", 1, S)
  <2>1. ASSUME NEW k \in 1 .. MaxReg
        PROVE  S[k] = IF k < g + 1 /\ k <= s.used THEN R[k] ELSE 0
    <3>1. k < g + 1 /\ k <= s.used <=> k <= g
      <4>1. \A a, b, m \in Nat : m < a + 1 /\ m <= a + b <=> m <= a
        OBVIOUS
      <4>2. k \in Nat /\ g \in Nat
        BY <1>g
      <4> QED
        BY <1>2, <4>1, <4>2
    <3>2. S[k] = IF k <= g THEN j.given[k] ELSE 0
      BY <1>g
    <3> QED
      BY <1>3, <3>1, <3>2
  <2> QED
    BY <1>g, <1>s, <2>1 DEF During
<1>5. Agrees(R, j)
  BY <1>g, <1>3 DEF Agrees
<1>6. S = [k \in 1 .. MaxReg |-> S[k]]
  OBVIOUS
<1>7. 1 \in 1 .. Len(EmitJob(j).code) + 1
  BY <1>2
<1> QED
  BY <1>s, <1>3, <1>4, <1>5, <1>6, <1>7 DEF Running

\* Selecting writes no register.
LEMMA SelectKeepsRunning ==
  ASSUME NEW j, NEW c, NEW res, NEW p, NEW S, Running(j, "select", c, res, p, S)
  PROVE  Running(j, "run", EmitJob(j).code, EmitJob(j).at, p, S)
<1>1. PICK R : Agrees(R, j) /\ Holds(R, Straight(j).code) /\ During(R, j, "select", p, S)
  BY DEF Running
<1>2. During(R, j, "run", p, S)
  BY <1>1 DEF During
<1> QED
  BY <1>1, <1>2 DEF Running

\* An instruction changes none of the registers that earlier ones wrote or
\* read, but for the negation of !=, which is the last.
LEMMA StepKeepsRunning ==
  ASSUME NEW j, NEW c, NEW res, NEW p, NEW S, NEW x, NEW y,
         Running(j, "run", c, res, p, S), p <= Len(c),
         x = Content(S, c[p].a), y = Content(S, c[p].b)
  PROVE  Running(j, IF p = Len(c) THEN "done" ELSE "run", c, res, p + 1,
                 [S EXCEPT ![c[p].d] = Effect(c[p], x, y)])
<1>g. PICK g : g \in Nat /\ g = Len(j.given)
  BY CodeSizes DEF Running
<1>s. PICK s : s = Straight(j)
  OBVIOUS
<1>n. PICK n : n \in Nat /\ n = Len(s.code)
  BY <1>s, CodeSizes DEF Running
<1>i. PICK i : i = c[p]
  OBVIOUS
<1>v. PICK v : v = Effect(i, x, y)
  OBVIOUS
<1>h. PICK ph : ph = IF p = Len(c) THEN "done" ELSE "run"
  OBVIOUS
<1>1. /\ IsJob(j) /\ c = EmitJob(j).code /\ res = EmitJob(j).at
      /\ S = [k \in 1 .. MaxReg |-> S[k]]
      /\ p \in 1 .. Len(c) + 1
  BY DEF Running
<1>2. PICK R : Agrees(R, j) /\ Holds(R, s.code) /\ During(R, j, "run", p, S)
  BY <1>s DEF Running
<1>3. \A k \in 1 .. MaxReg : S[k] = IF k < g + p /\ k <= s.used THEN R[k] ELSE 0
  BY <1>g, <1>s, <1>2 DEF During
<1>4. /\ s.used = g + n /\ s.used <= MaxReg /\ s.at \in 1 .. s.used /\ res = s.at
      /\ Len(c) \in Nat
      /\ Turned(j) => Len(c) = n + 1 /\ c[n + 1] = Negation(s.at)
      /\ ~Turned(j) => Len(c) = n
      /\ \A k \in 1 .. n :
            /\ c[k] = s.code[k] /\ s.code[k].d = g + k
            /\ s.code[k].a \in 0 .. g + k - 1 /\ s.code[k].b \in 0 .. g + k - 1
  BY <1>g, <1>s, <1>n, <1>1, CodeSizes
<1>5. p \in 1 .. Len(c) /\ p \in Nat /\ MaxReg \in Nat /\ g \in Nat /\ n \in Nat /\ s.used \in Nat
  <2>1. p \in 1 .. Len(c) /\ p \in Nat
    BY <1>1, <1>4
  <2>3. s.used = g + n
    BY <1>4
  <2>2. g \in Nat /\ n \in Nat
    BY <1>g, <1>n
  <2>4. s.used \in Nat
    BY <2>2, <2>3
  <2> QED
    BY <2>1, <2>2, <2>4, Room
<1>6. \A k \in 0 .. g + p - 1 : k <= s.used => Content(S, k) = Content(R, k)
  <2>1. \A k \in 1 .. g + p - 1 : k <= s.used => S[k] = R[k]
    <3>1. \A k \in 1 .. g + p - 1 : k <= s.used => k \in 1 .. MaxReg /\ k < g + p
      BY <1>4, <1>5
    <3> QED
      BY <1>3, <3>1
  <2> QED
    BY <2>1 DEF Content
<1>q. PICK Q : Q = [S EXCEPT ![i.d] = v]
  OBVIOUS
<1>7. Q = [k \in 1 .. MaxReg |-> Q[k]] /\ (i.d \in 1 .. MaxReg => Q[i.d] = v)
      /\ \A k \in 1 .. MaxReg : k # i.d => Q[k] = S[k]
  <2>1. DOMAIN S = 1 .. MaxReg
    BY <1>1
  <2>2. Q = [k \in 1 .. MaxReg |-> IF k = i.d THEN v ELSE S[k]]
    BY <1>q, <2>1
  <2> QED
    BY <2>2
<1>8. During(R, j, ph, p + 1, Q)
  <2>1. CASE p <= n
    <3>1. p \in 1 .. n /\ i = s.code[p] /\ i.d = g + p /\ i.a \in 0 .. g + p - 1 /\ i.b \in 0 .. g + p - 1
      BY <1>4, <1>5, <1>i, <2>1
    <3>8. 0 .. g + p - 1 \subseteq 0 .. s.used
      BY <1>4, <1>5, <2>1
    <3>2. v = R[i.d]
      <4>1. g + p - 1 <= s.used
        BY <1>4, <1>5, <2>1
      <4>2. x = Content(R, i.a) /\ y = Content(R, i.b)
        BY <1>5, <1>6, <1>i, <3>1, <3>8, <4>1
      <4>3. R[i.d] = EffectIn(R, i)
        BY <1>2, <1>n, <3>1 DEF Holds
      <4> QED
        BY <1>v, <4>2, <4>3 DEF EffectIn
    <3>3. ~(Turned(j) /\ ph = "done")
      BY <1>4, <1>5, <1>h, <2>1
    <3>4. ASSUME NEW k \in 1 .. MaxReg
          PROVE  Q[k] = IF k < g + (p + 1) /\ k <= s.used THEN R[k] ELSE 0
      <4>1. CASE k = g + p
        <5>1. k < g + (p + 1) /\ k <= s.used
          BY <1>4, <1>5, <2>1, <4>1
        <5> QED
          BY <1>7, <3>1, <3>2, <4>1, <5>1
      <4>2. CASE k # g + p
        <5>1. k < g + (p + 1) <=> k < g + p
          BY <1>5, <4>2
        <5> QED
          BY <1>3, <1>7, <3>1, <4>2, <5>1
      <4> QED
        BY <4>1, <4>2
    <3> QED
      BY <1>g, <1>s, <3>3, <3>4 DEF During
  <2>2. CASE ~(p <= n)
    <3>1. Turned(j) /\ p = n + 1 /\ p = Len(c) /\ i = Negation(s.at) /\ ph = "done"
      BY <1>4, <1>5, <1>i, <1>h, <2>2
    <3>2. i.d = s.at /\ i.a = s.at /\ s.at \in 1 .. MaxReg
      BY <1>4, <1>5, <3>1 DEF Negation, Inst
    <3>3. s.at \in 0 .. g + p - 1 /\ s.at <= s.used
      BY <1>4, <1>5, <3>1
    <3>4. x = R[s.at]
      <4>1. x = Content(R, s.at)
        BY <1>6, <1>i, <3>2, <3>3
      <4> QED
        BY <1>4, <4>1 DEF Content
    <3>5. v = Truth(R[s.at] = 0)
      BY <1>v, <3>1, <3>4, Effects DEF Negation
    <3>6. ASSUME NEW k \in 1 .. MaxReg, k # s.at
          PROVE  Q[k] = IF k < g + (p + 1) /\ k <= s.used THEN R[k] ELSE 0
      <4>1. k < g + (p + 1) /\ k <= s.used <=> k < g + p /\ k <= s.used
        BY <1>4, <1>5, <3>1
      <4> QED
        BY <1>3, <1>7, <3>2, <3>6, <4>1
    <3>7. Q[s.at] = Truth(R[s.at] = 0)
      BY <1>7, <3>2, <3>5
    <3> QED
      BY <1>g, <1>s, <3>1, <3>6, <3>7 DEF During
  <2> QED
    BY <1>5, <2>1, <2>2
<1>9. p + 1 \in 1 .. Len(c) + 1 /\ (ph = "done" => p + 1 = Len(c) + 1) /\ ph \in {"select", "run", "done"} /\ ph # "select"
  BY <1>4, <1>5, <1>h
<1>10. Running(j, ph, c, res, p + 1, Q)
  BY <1>1, <1>2, <1>s, <1>7, <1>8, <1>9 DEF Running
<1> QED
  BY <1>10, <1>i, <1>v, <1>h, <1>q

\* What is known of the registers when the code has run.
LEMMA DoneRight ==
  ASSUME NEW j, NEW c, NEW res, NEW p, NEW S, Running(j, "done", c, res, p, S)
  PROVE  \E R : Agrees(R, j) /\ Holds(R, Straight(j).code) /\ S[res] = Result(R, j)
<1>s. PICK s : s = Straight(j)
  OBVIOUS
<1>1. PICK R : Agrees(R, j) /\ Holds(R, s.code) /\ During(R, j, "done", p, S)
  BY <1>s DEF Running
<1>2. /\ IsJob(j) /\ c = EmitJob(j).code /\ res = EmitJob(j).at /\ p = Len(c) + 1
  BY DEF Running
<1>g. PICK g : g = Len(j.given)
  OBVIOUS
<1>n. PICK n : n = Len(s.code)
  OBVIOUS
<1>m. PICK m : m = Len(c)
  OBVIOUS
<1>3. /\ g \in Nat /\ n \in Nat /\ m \in Nat /\ (m = n + 1 \/ m = n) /\ p = m + 1
      /\ s.used = g + n /\ s.used <= MaxReg /\ s.at \in 1 .. s.used /\ res = s.at
  BY <1>2, <1>s, <1>g, <1>n, <1>m, CodeSizes
<1>4. res \in 1 .. MaxReg /\ res < g + p /\ res <= s.used
  <2>1. res \in 1 .. g + n /\ g + n <= MaxReg /\ MaxReg \in Nat
    BY <1>3, Room
  <2> QED
    BY <1>3, <2>1
<1>5. S[res] = IF Turned(j) THEN Truth(R[res] = 0) ELSE R[res]
  BY <1>1, <1>3, <1>4, <1>s, <1>g DEF During
<1> QED
  BY <1>1, <1>2, <1>s, <1>5 DEF Result

\* Nothing that is written overflows.
LEMMA RunningTyped ==
  ASSUME NEW j, NEW ph, NEW c, NEW res, NEW p, NEW S, Running(j, ph, c, res, p, S)
  PROVE  /\ ph \in {"select", "run", "done"}
         /\ res \in 0 .. MaxReg /\ p \in 1 .. MaxReg + 1
         /\ c \in Seq(Instructions)
         /\ \A k \in DOMAIN c : c[k].d \in 1 .. MaxReg
         /\ S \in [1 .. MaxReg -> RegRange]
<1>g. PICK g : g \in Nat /\ g = Len(j.given)
  BY CodeSizes DEF Running
<1>s. PICK s : s = Straight(j)
  OBVIOUS
<1>n. PICK n : n \in Nat /\ n = Len(s.code)
  BY <1>s, CodeSizes DEF Running
<1>c. PICK d : d = EmitJob(j).code
  OBVIOUS
<1>1. /\ IsJob(j) /\ ph \in {"select", "run", "done"} /\ p \in 1 .. Len(d) + 1
      /\ S = [k \in 1 .. MaxReg |-> S[k]]
      /\ (c = <<>> /\ res = 0) \/ (c = d /\ res = EmitJob(j).at)
  BY <1>c DEF Running
<1>2. /\ s.used = g + n /\ s.used <= MaxReg /\ Len(d) <= MaxReg /\ Len(d) \in Nat
      /\ s.at \in 1 .. s.used /\ EmitJob(j).at = s.at
      /\ Turned(j) => Len(d) = n + 1 /\ d[n + 1] = Negation(s.at)
      /\ ~Turned(j) => Len(d) = n
      /\ \A k \in 1 .. n : d[k] = s.code[k] /\ s.code[k].d = g + k
      /\ d \in Seq(Instructions)
  BY <1>1, <1>g, <1>s, <1>n, <1>c, CodeSizes
<1>3. /\ Agrees(S, j) \/ TRUE
      /\ \A R : Agrees(R, j) /\ Holds(R, s.code) => Small(R, s.code)
      /\ \A k \in 1 .. g : j.given[k] \in RegRange
  BY <1>1, <1>g, <1>s, JobCoded DEF WellCoded
<1>4. PICK R : Agrees(R, j) /\ Holds(R, s.code) /\ During(R, j, ph, p, S)
  BY <1>s DEF Running
<1>5. g \in Nat /\ n \in Nat /\ MaxReg \in Nat /\ g + n <= MaxReg /\ s.at \in 1 .. g + n
  BY <1>g, <1>n, <1>2, Room
<1>6. ASSUME NEW k \in 1 .. g + n PROVE R[k] \in RegRange
  <2>1. CASE k <= g
    <3>1. k \in 1 .. g
      BY <1>5, <2>1
    <3>2. R[k] = j.given[k]
      BY <1>4, <1>g, <3>1 DEF Agrees
    <3> QED
      BY <1>3, <3>1, <3>2
  <2>2. CASE ~(k <= g)
    <3>1. k - g \in 1 .. n /\ g + (k - g) = k
      BY <1>5, <2>2
    <3>2. s.code[k - g].d = k
      BY <1>2, <3>1
    <3>3. Small(R, s.code)
      BY <1>3, <1>4
    <3> QED
      BY <1>n, <3>1, <3>2, <3>3 DEF Small
  <2> QED
    BY <2>1, <2>2
<1>7. 0 \in RegRange /\ \A q : Truth(q) \in RegRange
  BY Ranges, IntsAreInt
<1>8. ASSUME NEW k \in 1 .. MaxReg PROVE S[k] \in RegRange
  <2>1. k <= s.used => k \in 1 .. g + n
    BY <1>2, <1>5
  <2>2. k <= s.used => R[k] \in RegRange
    BY <1>6, <2>1
  <2> QED
    BY <1>4, <1>7, <1>s, <2>2 DEF During
<1>9. ASSUME NEW k \in 1 .. Len(d) PROVE d[k].d \in 1 .. MaxReg
  <2>1. CASE k <= n
    <3>1. k \in 1 .. n /\ g + k \in 1 .. MaxReg
      BY <1>5, <2>1
    <3> QED
      BY <1>2, <3>1
  <2>2. CASE ~(k <= n)
    <3>1. Turned(j) /\ k = n + 1
      BY <1>2, <1>5, <2>2
    <3>2. d[k].d = s.at
      BY <1>2, <3>1 DEF Negation, Inst
    <3> QED
      BY <1>5, <3>2
  <2> QED
    BY <2>1, <2>2
<1>10. res \in 0 .. MaxReg /\ p \in 1 .. MaxReg + 1
  <2>1. res = 0 \/ res = s.at
    BY <1>1, <1>2
  <2>m. PICK m : m = Len(d)
    OBVIOUS
  <2>2. p \in 1 .. m + 1 /\ m \in Nat /\ m <= MaxReg
    BY <1>1, <1>2, <2>m
  <2>3. p \in 1 .. MaxReg + 1
    BY <1>5, <2>2
  <2> QED
    BY <1>5, <2>1, <2>3
<1>11. c \in Seq(Instructions) /\ \A k \in DOMAIN c : c[k].d \in 1 .. MaxReg
  <2>1. CASE c = <<>>
    BY <2>1
  <2>2. CASE c = d
    <3>1. d \in Seq(Instructions) /\ DOMAIN d = 1 .. Len(d)
      BY <1>2
    <3> QED
      BY <1>9, <2>2, <3>1
  <2> QED
    BY <1>1, <2>1, <2>2
<1> QED
  BY <1>1, <1>8, <1>10, <1>11

\* A job starts with nothing written.
LEMMA RunInvInit == Init => RunInv
<1> SUFFICES ASSUME Init PROVE RunInv
  OBVIOUS
<1>1. IsJob(job)
  BY DEF Init, IsJob
<1> QED
  BY <1>1, StartsRunning DEF Init, RunInv

\* Both actions keep what the registers hold.
LEMMA RunInvNext == RunInv /\ [Next]_vars => RunInv'
<1> SUFFICES ASSUME RunInv, [Next]_vars PROVE RunInv'
  OBVIOUS
<1>1. CASE Select
  BY <1>1, SelectKeepsRunning DEF Select, RunInv
<1>2. CASE Step
  <2> PICK j : j = job
    OBVIOUS
  <2> PICK c : c = code
    OBVIOUS
  <2> PICK p : p = pc
    OBVIOUS
  <2> PICK S : S = regs
    OBVIOUS
  <2> DEFINE x == Content(S, c[p].a)
             y == Content(S, c[p].b)
  <2>1. /\ phase = "run" /\ p <= Len(c) /\ pc' = p + 1 /\ job' = j /\ code' = c /\ result' = result
        /\ phase' = IF p = Len(c) THEN "done" ELSE "run"
        /\ regs' = [S EXCEPT ![c[p].d] = Effect(c[p], x, y)]
    BY <1>2 DEF Step, Value, Content
  <2>2. Running(j, "run", c, result, p, S)
    BY <2>1 DEF RunInv
  <2>3. Running(j, IF p = Len(c) THEN "done" ELSE "run", c, result, p + 1,
                [S EXCEPT ![c[p].d] = Effect(c[p], x, y)])
    BY <2>1, <2>2, StepKeepsRunning
  <2> QED
    BY <2>1, <2>3 DEF RunInv
<1>3. CASE UNCHANGED vars
  BY <1>3 DEF vars, RunInv
<1> QED
  BY <1>1, <1>2, <1>3 DEF Next


\* The registers always hold what the code leaves in them.
LEMMA Invariant == Spec => []RunInv
<1> QED
  BY RunInvInit, RunInvNext, PTL DEF Spec

\* For any widths of the immediates and any jobs: no register of the machine
\* overflows, and no expression takes more of them than there are.
THEOREM TypeCorrect == Spec => []TypeOK
<1>1. RunInv => TypeOK
  BY RunningTyped DEF RunInv, TypeOK, RegRange
<1> QED
  BY <1>1, Invariant, PTL

\* Every constant and every offset, folded into an instruction, has one
\* that holds it (processIfImmOutOfRange).
THEOREM CodeAssembles == Spec => []AllAssemble
<1>1. RunInv => AllAssemble
  <2> SUFFICES ASSUME RunInv, NEW k \in DOMAIN code PROVE Assembles(code[k])
    BY DEF AllAssemble
  <2>1. code \in Seq(Instructions)
    BY RunningTyped DEF RunInv
  <2>2. code[k] \in Instructions
    BY <2>1
  <2> QED
    BY <2>2 DEF Instructions
<1> QED
  BY <1>1, Invariant, PTL

\* For any widths of the immediates and any constants: the code selected for
\* an operator on ints leaves what the operator gives, unless a constant is
\* PastTheEnd, and then it never does (emitIntBinaryInst).
THEOREM IntOperatorsRight == Spec => []IntsRight
<1>1. RunInv => IntsRight
  <2> SUFFICES ASSUME RunInv, phase = "done", job.kind = "int"
               PROVE  regs[result] = IntValue(job.op, ValueOf(job.l), ValueOf(job.r))
                        <=> ~PastTheEnd(job.op, job.l, job.r)
    BY DEF IntsRight
  <2>1. PICK R : Agrees(R, job) /\ Holds(R, Straight(job).code) /\ regs[result] = Result(R, job)
    BY DoneRight DEF RunInv
  <2>2. IsIntJob(job) /\ Defined(job)
    BY Kinds DEF RunInv, Running
  <2> QED
    BY <2>1, <2>2, IntJobRight
<1> QED
  BY <1>1, Invariant, PTL

\* For any operands that are exact: the code selected for an operator on
\* floats, division excepted, leaves what the operator gives, and a conditional
\* jump is taken when the condition holds, also when an operand is not a number.
THEOREM FloatOperatorsRight == Spec => []FloatsRight
<1>1. RunInv => FloatsRight
  <2> SUFFICES ASSUME RunInv, phase = "done", job.kind \in {"float", "cond"}
               PROVE  regs[result] = FloatValue(job.op, ValueOf(job.l), ValueOf(job.r))
    BY DEF FloatsRight
  <2>1. PICK R : Agrees(R, job) /\ Holds(R, Straight(job).code) /\ regs[result] = Result(R, job)
    BY DoneRight DEF RunInv
  <2>2. FloatJob(job)
    BY Kinds DEF RunInv, Running
  <2> QED
    BY <2>1, <2>2, FloatCode DEF ValueOf
<1> QED
  BY <1>1, Invariant, PTL

\* For any array and any indexes into it, constant or not, at any offset from
\* s0: the code leaves the address of the element, that of the variable, or
\* what is there (getIndexedRefAddress and emitGEPInst).
THEOREM AddressesReached == Spec => []AddressesRight
<1>1. RunInv => AddressesRight
  <2> SUFFICES ASSUME RunInv, phase = "done"
               PROVE  /\ job.kind = "element" => regs[result] = AddressOf(job)
                      /\ job.kind = "load" => regs[result] = Mem(job.given[S0] + job.var.home)
                      /\ job.kind \in {"store", "cast"} => regs[result] = job.given[S0] + job.var.home
    BY DEF AddressesRight
  <2>1. PICK R : Agrees(R, job) /\ Holds(R, Straight(job).code) /\ regs[result] = Result(R, job)
    BY DoneRight DEF RunInv
  <2>2. job.kind \in {"element", "load", "store", "cast"} => MemoryJob(job)
    BY Kinds DEF RunInv, Running
  <2>3. CASE job.kind = "element"
    <3>1. job.var.where \in {"global", "local", "param"}
      BY <2>2, <2>3 DEF MemoryJob, ElementJob
    <3> QED
      BY <2>1, <2>2, <2>3, <3>1, ArrayCode, ParamCode
  <2>4. CASE job.kind \in {"load", "store", "cast"}
    BY <2>1, <2>2, <2>4, LocalCode
  <2> QED
    BY <2>3, <2>4
<1> QED
  BY <1>1, Invariant, PTL
==============================================================================
