----------------------------- MODULE Addressing -----------------------------
(***************************************************************************)
(* The address of an array element: getIndexedRefAddress of IRBuilder,     *)
(* which flattens the indexes, and the selection of its instructions by    *)
(* CodeGenerator.  Instructions are selected one at a time in the order    *)
(* they are built, so the two are one operator here.                       *)
(*                                                                         *)
(* An array is global, local (its home is an offset from s0) or a          *)
(* parameter (the pointer is at home); dims are the dimensions of the      *)
(* array, or of what the parameter points to.                              *)
(***************************************************************************)
EXTENDS Selection, ArrayType

S0 == 1   \* the register that holds the frame pointer

\* The address of a local variable (the first lines of emitGEPInst).
AtOffset(e, offset) ==
    LET e1 == ProcessImm(e, S0, offset) IN Emit(e1, "addi", e1.at, 0, ImmLeft(offset))

\* emitUnaryInst on a load from a local variable.
EmitLoad(e, offset) ==
    LET e1 == ProcessImm(e, S0, offset) IN Emit(e1, "load", e1.at, 0, ImmLeft(offset))

\* emitStoreInst on a local variable.
EmitStore(e, value, offset) ==
    LET e1 == GetReg(e, value)
        e2 == ProcessImm(e1, S0, offset)
    IN Emit(e2, "store", e2.at, e1.at, ImmLeft(offset))

\* emitGEPInst with one index, on a pointer to what is byteLen long.
EmitStepGEP(e, byteLen, index) ==
    LET ptr == e.at
        e1 == IF index.const THEN LoadConstInt(e, byteLen * index.n)
              ELSE IF byteLen = 4 THEN Emit(e, "slli", index.n, 0, 2)
              ELSE LET li == LoadConstInt(e, byteLen) IN Emit(li, "mul", index.n, li.at, 0)
    IN Emit(e1, "add", ptr, e1.at, 0)

\* emitGEPInst with two, of which the first is 0: an element of the array.
EmitElementGEP(e, index) ==
    LET ptr == e.at
        e1 == IF index.const THEN LoadConstInt(e, 4 * index.n)
              ELSE Emit(e, "slli", index.n, 0, 2)
    IN Emit(e1, "add", ptr, e1.at, 0)

-----------------------------------------------------------------------------
(* Flattening the indexes.  f.e is the emission, f.constPart the sum of    *)
(* the constant ones, f.tmp the register of the sum of the others or a     *)
(* constant while there are none.                                          *)

NoIndex(e) == [e |-> e, constPart |-> 0, tmp |-> Const(0)]

\* The result of e is one more summand.
AddTmp(e, tmp) == IF tmp.const THEN e ELSE EmitIntBinary(e, "ADD", Reg(e.at), tmp)

WithTmp(f, e) == [f EXCEPT !.e = e, !.tmp = Reg(e.at)]

\* Mutant: a constant index is multiplied and added as any other.
AddIndexUnfolded(f, index, size) ==
    LET e0 == GetReg(f.e, index)
    IN WithTmp(f, AddTmp(EmitIntBinary(e0, "MUL", Reg(e0.at), Const(size)), f.tmp))

AddIndex(f, index, size) ==
    IF index.const THEN [f EXCEPT !.constPart = @ + index.n * size]
    ELSE WithTmp(f, AddTmp(EmitIntBinary(f.e, "MUL", index, Const(size)), f.tmp))

AddIndexes(e, dims, indexes) ==
    LET upto[k \in 0 .. Len(indexes)] ==
            IF k = 0 THEN NoIndex(e)
            ELSE AddIndex(upto[k - 1], indexes[k], ElementSize(dims)[k])
    IN upto[Len(indexes)]

\* Mutant: constant indexes before a variable one are forgotten.
AddConstPartDropped(f) ==
    IF f.tmp.const THEN [f EXCEPT !.tmp = Const(f.constPart)] ELSE f

\* The sum of all is in tmp.
AddConstPart(f) ==
    IF f.tmp.const THEN [f EXCEPT !.tmp = Const(f.constPart)]
    ELSE IF f.constPart = 0 THEN f
    ELSE WithTmp(f, EmitIntBinary(f.e, "ADD", Const(f.constPart), f.tmp))

Flatten(e, dims, indexes) == AddConstPart(AddIndexes(e, dims, indexes))

EmitBase(e, var) ==
    IF var.where = "global" THEN Emit(e, "la", 0, 0, var.home) ELSE AtOffset(e, var.home)

ElementAt(f, var) == EmitElementGEP(EmitBase(f.e, var), f.tmp)

ElementBehind(f, ptr) == EmitElementGEP([f.e EXCEPT !.at = ptr], f.tmp)

\* Through a parameter: the pointer is loaded and stepped by the first
\* index, the others, if what it points to has dimensions, are those of an
\* array.
EmitThrough(e, dims, indexes) ==
    IF dims = <<>> THEN e ELSE ElementBehind(Flatten(e, dims, indexes), e.at)

EmitAddress(e, var, indexes) ==
    IF var.where = "param"
    THEN EmitThrough(EmitStepGEP(EmitLoad(e, var.home), 4 * TotalSize(var.dims), indexes[1]),
                     var.dims, Tail(indexes))
    ELSE ElementAt(Flatten(e, var.dims, indexes), var)
=============================================================================
