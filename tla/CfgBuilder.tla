----------------------------- MODULE CfgBuilder -----------------------------
(***************************************************************************)
(* IRBuilder: the visitor that turns the syntax tree of a function body    *)
(* into basic blocks.  The visitor is sequential; each visit maps the      *)
(* builder b to what it is when the method returns.  The record b holds    *)
(* the members of IRBuilder that outlive a visit:                          *)
(*                                                                         *)
(*   bbs      the blocks of _currentFunction, in the order of creation     *)
(*   cur      _currentBasicBlock                                           *)
(*   value    _value, what the last expression left behind                 *)
(*   trueBB, falseBB   where the condition being visited jumps             *)
(*   condBB, afterBB   the targets of continue and break                   *)
(*   addr     _var2addr                                                    *)
(*   results, allocs   how many results and allocations there are          *)
(*                                                                         *)
(* Blocks are numbered from 1; 0 is nullptr.                               *)
(***************************************************************************)
EXTENDS Ast, IR, SequencesExt

NoBB == 0

NewBBs(b, k) == [b EXCEPT !.bbs = @ \o [i \in 1..k |-> EmptyBB]]

At(b, bb) == [b EXCEPT !.cur = bb]

Add(b, inst) == [b EXCEPT !.bbs[b.cur].code = Append(@, inst)]

\* Add an instruction with a result; Newest is the result.
AddResult(b, op, tag, args) ==
    [Add(b, Inst(op, tag, Result(b.results + 1, op), args, <<>>))
        EXCEPT !.results = @ + 1]

Newest(b) ==
    LET code == b.bbs[b.cur].code IN code[Len(code)].dst

Leave(b, v) == [b EXCEPT !.value = v]

CreateUnary(b, addr) == AddResult(b, "load", "", <<addr>>)

CreateBinary(b, op, l, r) == AddResult(b, "binary", op, <<l, r>>)

CreateGEP(b, ptr, index) == AddResult(b, "gep", "", <<ptr, index>>)

CreateStore(b, v, addr) == Add(b, Store(v, addr))

\* Allocations stand at the head of the first block, in the order they
\* were made.
CreateAlloc(b) ==
    LET alloc == Inst("alloc", "", Result(b.results + 1, "alloc"), <<>>, <<>>)
        code  == InsertAt(b.bbs[1].code, b.allocs + 1, alloc)
    IN [b EXCEPT !.bbs[1].code = code, !.results = b.results + 1, !.allocs = b.allocs + 1]

NewestAlloc(b) == b.bbs[1].code[b.allocs].dst

AddPredecessor(b, to, from) == [b EXCEPT !.bbs[to].pred = Append(@, from)]

\* Close the current block, unless it is closed.
Terminate(b, inst) ==
    IF b.bbs[b.cur].hasBr THEN b
    ELSE FoldLeft(LAMBDA r, to : AddPredecessor(r, to, b.cur),
                  [Add(b, inst) EXCEPT !.bbs[b.cur].succ = inst.to, !.bbs[b.cur].hasBr = TRUE],
                  inst.to)

CreateJump(b, bb) == Terminate(b, Inst("jump", "", None, <<>>, <<bb>>))

CreateCondJump(b, type, l, r) ==
    Terminate(b, Inst("cond", type, None, <<l, r>>, <<b.trueBB, b.falseBB>>))

CreateRet(b, v) == Terminate(b, Inst("ret", "", None, <<v>>, <<>>))

\* The jump after a condition, on what it left in _value: none if the
\* condition has jumped itself, an unconditional one on a constant.
CreateCondJumpForValue(b) ==
    IF b.value.kind = "const"
    THEN CreateJump(b, IF b.value.n # 0 THEN b.trueBB ELSE b.falseBB)
    ELSE CreateCondJump(b, "NE", b.value, Const(0))

-----------------------------------------------------------------------------
(* Expressions *)

RECURSIVE Visit(_, _)

VisitVarRef(b, e) ==
    LET b1 == CreateUnary(b, b.addr[e.name]) IN Leave(b1, Newest(b1))

\* Mutant: an index counts both cells of an array for one element.
IndexedRefAddressByArray(b, index) ==
    LET b1 == Visit(b, index)
        b2 == IF b1.value.kind = "const" THEN b1
              ELSE LET m == CreateBinary(b1, "MUL", b1.value, Const(2)) IN Leave(m, Newest(m))
    IN CreateGEP(b2, b.addr["array"], b2.value)

\* The address of an element of a one-dimensional array, as Newest.
IndexedRefAddress(b, index) ==
    LET b1 == Visit(b, index)
        b2 == IF b1.value.kind = "const" THEN b1
              ELSE LET m == CreateBinary(b1, "MUL", b1.value, Const(1)) IN Leave(m, Newest(m))
    IN CreateGEP(b2, b.addr["array"], b2.value)

VisitIndexedRef(b, e) ==
    LET b1 == IndexedRefAddress(b, e.index)
        b2 == CreateUnary(b1, Newest(b1))
    IN Leave(b2, Newest(b2))

VisitUnary(b, e) ==
    LET b1 == Visit(b, e.operand)
        b2 == CreateBinary(b1, "EQ", Const(0), b1.value)
    IN Leave(b2, Newest(b2))

\* Both operands of && or ||: the left one jumps to the right one or past it.
VisitBothConds(b, e) ==
    LET rhsCondBB == Len(b.bbs) + 1
        b1 == NewBBs(b, 1)
        b2 == IF e.op = "AND" THEN [b1 EXCEPT !.trueBB = rhsCondBB]
                              ELSE [b1 EXCEPT !.falseBB = rhsCondBB]
        b3 == CreateCondJumpForValue(Visit(b2, e.left))
        b4 == IF e.op = "AND" THEN [b3 EXCEPT !.trueBB = b.trueBB]
                              ELSE [b3 EXCEPT !.falseBB = b.falseBB]
    IN Visit(At(b4, rhsCondBB), e.right)

\* Mutant: the false branch does not store its 0.
VisitShortCircuitOneOnly(b, e) ==
    LET oneBB  == Len(b.bbs) + 1
        zeroBB == oneBB + 1
        b1 == CreateAlloc([NewBBs(b, 2) EXCEPT !.trueBB = oneBB, !.falseBB = zeroBB])
        slot == NewestAlloc(b1)
        b2 == NewBBs(CreateCondJumpForValue(VisitBothConds(b1, e)), 1)
        afterBB == Len(b2.bbs)
        b3 == CreateJump(CreateStore(At(b2, oneBB), Const(1), slot), afterBB)
        b4 == CreateJump(At(b3, zeroBB), afterBB)
        b5 == CreateUnary(At(b4, afterBB), slot)
    IN [Leave(b5, Newest(b5)) EXCEPT !.trueBB = b.trueBB, !.falseBB = b.falseBB]

\* Mutant: the value is read where it is 1, before the branches meet.
VisitShortCircuitReadEarly(b, e) ==
    LET oneBB  == Len(b.bbs) + 1
        zeroBB == oneBB + 1
        b1 == CreateAlloc([NewBBs(b, 2) EXCEPT !.trueBB = oneBB, !.falseBB = zeroBB])
        slot == NewestAlloc(b1)
        b2 == NewBBs(CreateCondJumpForValue(VisitBothConds(b1, e)), 1)
        afterBB == Len(b2.bbs)
        b3 == CreateUnary(CreateStore(At(b2, oneBB), Const(1), slot), slot)
        b4 == CreateJump(b3, afterBB)
        b5 == CreateJump(CreateStore(At(b4, zeroBB), Const(0), slot), afterBB)
    IN [Leave(At(b5, afterBB), Newest(b3)) EXCEPT !.trueBB = b.trueBB, !.falseBB = b.falseBB]

\* && or || whose value is wanted: 1 or 0 goes through a variable.
VisitShortCircuitValue(b, e) ==
    LET oneBB  == Len(b.bbs) + 1
        zeroBB == oneBB + 1
        b1 == CreateAlloc([NewBBs(b, 2) EXCEPT !.trueBB = oneBB, !.falseBB = zeroBB])
        slot == NewestAlloc(b1)
        b2 == NewBBs(CreateCondJumpForValue(VisitBothConds(b1, e)), 1)
        afterBB == Len(b2.bbs)
        b3 == CreateJump(CreateStore(At(b2, oneBB), Const(1), slot), afterBB)
        b4 == CreateJump(CreateStore(At(b3, zeroBB), Const(0), slot), afterBB)
        b5 == CreateUnary(At(b4, afterBB), slot)
    IN [Leave(b5, Newest(b5)) EXCEPT !.trueBB = b.trueBB, !.falseBB = b.falseBB]

\* The right operand goes first unless the left is a binary expression or
\* a call.
RightFirst(e) == e.left.kind \notin {"binary", "read"}

VisitOperands(b, e) ==
    LET first  == Visit(b, IF RightFirst(e) THEN e.right ELSE e.left)
        second == Visit(first, IF RightFirst(e) THEN e.left ELSE e.right)
    IN [b |-> second,
        left  |-> IF RightFirst(e) THEN second.value ELSE first.value,
        right |-> IF RightFirst(e) THEN first.value ELSE second.value]

VisitBinary(b, e) ==
    IF e.op \in {"AND", "OR"}
    THEN IF e.forValue THEN VisitShortCircuitValue(b, e) ELSE VisitBothConds(b, e)
    ELSE LET ops == VisitOperands(b, e)
         IN IF e.op \in Relations /\ ~e.forValue
            THEN CreateCondJump(ops.b, e.op, ops.left, ops.right)
            ELSE LET b1 == CreateBinary(ops.b, e.op, ops.left, ops.right)
                 IN Leave(b1, Newest(b1))

VisitCall(b, e) ==
    LET b1 == AddResult(b, "call", e.n, <<>>) IN Leave(b1, Newest(b1))

-----------------------------------------------------------------------------
(* Statements *)

VisitDeclare(b, t) ==
    LET b1 == CreateAlloc(b)
        slot == NewestAlloc(b1)
        b2 == Visit([b1 EXCEPT !.addr[t.name] = slot], t.init)
    IN CreateStore(b2, b2.value, slot)

VisitDeclareArray(b) ==
    LET b1 == CreateAlloc(b) IN [b1 EXCEPT !.addr["array"] = NewestAlloc(b1)]

\* Mutant: statements after a jump are visited too.
VisitBlockToTheEnd(b, t) == FoldLeft(Visit, b, t.elements)

VisitBlock(b, t) ==
    FoldLeft(LAMBDA r, u : IF r.skip THEN r
                           ELSE LET b1 == Visit(r.b, u)
                                IN [b |-> b1, skip |-> b1.bbs[b1.cur].hasBr],
             [b |-> b, skip |-> FALSE], t.elements).b

VisitAssign(b, t) ==
    LET b1 == Visit(b, t.rval)
        b2 == IF t.lval.kind = "var" THEN b1 ELSE IndexedRefAddress(b1, t.lval.index)
        addr == IF t.lval.kind = "var" THEN b.addr[t.lval.name] ELSE Newest(b2)
    IN CreateStore(b2, b1.value, addr)

VisitUse(b, t) ==
    LET b1 == Visit(b, t.param) IN Add(b1, Inst("call", 0, None, <<b1.value>>, <<>>))

\* The condition, with the blocks it is to jump to.
VisitCond(b, cond, trueBB, falseBB) ==
    CreateCondJumpForValue(Visit([b EXCEPT !.trueBB = trueBB, !.falseBB = falseBB], cond))

VisitIf(b, t) ==
    LET ifBB      == Len(b.bbs) + 1
        afterIfBB == ifBB + 1
        elseBB    == ifBB + 2
        b1 == IF t.else = <<>>
              THEN VisitCond(NewBBs(b, 2), t.cond, ifBB, afterIfBB)
              ELSE CreateJump(
                       Visit(At(VisitCond(NewBBs(b, 3), t.cond, ifBB, elseBB), elseBB),
                             t.else[1]),
                       afterIfBB)
        b2 == CreateJump(Visit(At(b1, ifBB), t.stmt), afterIfBB)
    IN [At(b2, afterIfBB) EXCEPT !.trueBB = NoBB, !.falseBB = NoBB]

VisitWhile(b, t) ==
    LET condBB       == Len(b.bbs) + 1
        whileBB      == condBB + 1
        afterWhileBB == condBB + 2
        b1 == VisitCond(At(CreateJump(NewBBs(b, 3), condBB), condBB),
                        t.cond, whileBB, afterWhileBB)
        b2 == [b1 EXCEPT !.condBB = condBB, !.afterBB = afterWhileBB]
        b3 == CreateJump(Visit(At(b2, whileBB), t.stmt), condBB)
    IN [At(b3, afterWhileBB) EXCEPT
            !.condBB = b.condBB, !.afterBB = b.afterBB, !.trueBB = NoBB, !.falseBB = NoBB]

VisitReturn(b, t) ==
    LET b1 == Visit(b, t.expr) IN CreateRet(b1, b1.value)

Visit(b, t) ==
    CASE t.kind = "num"      -> Leave(b, Const(t.n))
      [] t.kind = "var"      -> VisitVarRef(b, t)
      [] t.kind = "read"     -> VisitCall(b, t)
      [] t.kind = "elem"     -> VisitIndexedRef(b, t)
      [] t.kind \in {"not", "binary"} /\ t.const -> Leave(b, Const(t.n))
      [] t.kind = "not" /\ ~t.const      -> VisitUnary(b, t)
      [] t.kind = "binary" /\ ~t.const   -> VisitBinary(b, t)
      [] t.kind = "block"    -> VisitBlock(b, t)
      [] t.kind = "declare"  -> VisitDeclare(b, t)
      [] t.kind = "array"    -> VisitDeclareArray(b)
      [] t.kind = "assign"   -> VisitAssign(b, t)
      [] t.kind = "use"      -> VisitUse(b, t)
      [] t.kind = "if"       -> VisitIf(b, t)
      [] t.kind = "while"    -> VisitWhile(b, t)
      [] t.kind = "break"    -> CreateJump(b, b.afterBB)
      [] t.kind = "continue" -> CreateJump(b, b.condBB)
      [] t.kind = "return"   -> VisitReturn(b, t)

-----------------------------------------------------------------------------
\* visit(FunctionDef) for an int function without parameters, up to the
\* call of maskDeadInst.
BuildFunction(body) ==
    LET begin == CreateJump([bbs |-> <<EmptyBB, EmptyBB>>, cur |-> 1, value |-> None,
                             trueBB |-> NoBB, falseBB |-> NoBB,
                             condBB |-> NoBB, afterBB |-> NoBB,
                             addr |-> [x \in {"g", "x", "y", "array"} |->
                                          IF x = "g" THEN GlobalAddr ELSE None],
                             results |-> 0, allocs |-> 0], 2)
    IN CreateRet(Visit(At(begin, 2), body), Const(0))
=============================================================================
