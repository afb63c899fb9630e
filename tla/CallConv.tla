------------------------------ MODULE CallConv ------------------------------
(***************************************************************************)
(* How a call hands its arguments over: the caller's side is the loop of   *)
(* CodeGenerator::emitFunctionCallInst, the callee's side the counters of  *)
(* AllocInst with emitAllocInst and the parameter loop of emitFunction.    *)
(*                                                                         *)
(* A behaviour compiles one statement, a call whose arguments may be       *)
(* calls, and then runs the code.  Phases:                                 *)
(*                                                                         *)
(*   eval -> pass -> eval -> ... -> pass -> run                            *)
(*                                                                         *)
(* eval is IRBuilder::visit of a FunctionCall visiting the arguments, pass *)
(* the loop over the parameters of the innermost call whose arguments are  *)
(* all there.  A value stands for its virtual register and for what the    *)
(* register holds.                                                         *)
(***************************************************************************)
EXTENDS Integers, Sequences, FiniteSets

CONSTANTS
  ArgRegs,     \* argument registers of each kind, 8 in the code
  Signatures,  \* parameter lists, sequences of "int" (or pointer) and "float"
  MaxDepth,    \* bound on the nesting of calls
  MaxValues,   \* bound on the values of the statement
  Junk         \* what nobody may rely on

ASSUME ArgRegsOK == ArgRegs \in Nat \ {0}
ASSUME SignaturesOK == Signatures \subseteq Seq({"int", "float"})
ASSUME BoundsOK == MaxDepth \in Nat /\ MaxValues \in Nat

VARIABLES
  phase,
  open,         \* the calls being built, innermost last: [sig, args]
  code,         \* the instructions emitted, all blocks one after the other
  start,        \* where the instructions of _currentBasicBlock begin in code
  values,       \* how many values there are
  intOrder, floatOrder, stackOffset,  \* the locals of emitFunctionCallInst
  sent,         \* where its loop has put each parameter so far
  maxPass,      \* _maxPassParamsStackOffset
  pc, regs, out \* the run: virtual registers and a0.., the bytes above sp

vars == <<phase, open, code, start, values, intOrder, floatOrder, stackOffset,
          sent, maxPass, pc, regs, out>>

locals == <<intOrder, floatOrder, stackOffset, sent>>
machine == <<pc, regs, out>>

-----------------------------------------------------------------------------
CountUpTo(sig, kind, i) == Cardinality({j \in 1 .. i : sig[j] = kind})
OverUpTo(sig, kind, i) ==
  LET n == CountUpTo(sig, kind, i) IN IF n > ArgRegs THEN n - ArgRegs ELSE 0

Slot(off) == [in |-> "stack", kind |-> "any", at |-> off]
ArgReg(kind, k) == [in |-> "reg", kind |-> kind, at |-> k]
Value(n) == [in |-> "virtual", kind |-> "any", at |-> n]

HomeOfOneKind(sig, i) ==
  IF CountUpTo(sig, sig[i], i) <= ArgRegs
  THEN ArgReg(sig[i], CountUpTo(sig, sig[i], i) - 1)
  ELSE Slot((OverUpTo(sig, sig[i], i) - 1) * 8)

\* Where the callee looks for parameter i: the first ArgRegs of a kind in the
\* argument registers, the others where emitAllocInst takes them to be.
Home(sig, i) ==
  IF CountUpTo(sig, sig[i], i) <= ArgRegs
  THEN ArgReg(sig[i], CountUpTo(sig, sig[i], i) - 1)
  ELSE Slot(((OverUpTo(sig, "int", i) + OverUpTo(sig, "float", i)) - 1) * 8)

OnStack(sig) == {i \in DOMAIN sig : Home(sig, i).in = "stack"}

-----------------------------------------------------------------------------
Ins(op, dest, src) == [op |-> op, dest |-> dest, src |-> src, sig |-> << >>, args |-> << >>]
Def(v) == Ins("def", v, v)

\* x != y on floats is feq r; seqz r, r: feq leaves x == y, and Def follows.
Equal(v) == [v EXCEPT !.in = "equal"]
Feq(v) == Ins("def", v, Equal(v))

Move(home, v) == Ins("move", home, v)
Save(off, v) == Ins("save", Slot(off), v)

Init ==
  /\ phase = "eval"
  /\ \E s \in Signatures : open = <<[sig |-> s, args |-> << >>]>>
  /\ code = << >> /\ start = 1 /\ values = 0
  /\ intOrder = 0 /\ floatOrder = 0 /\ stackOffset = 0 /\ sent = << >>
  /\ maxPass = 0
  /\ pc = 1 /\ regs = << >> /\ out = << >>

Depth == Len(open)
Call == open[Depth]
NewValue == Value(values + 1)

\* An argument: its value, what the first definition of its register leaves,
\* whether getRegFromValue loads it (a constant), and the history of `settled':
\* nothing emitted since leaves the block or passes arguments on the stack.
Arg(v, literal, settled) ==
  [v |-> v, first |-> v, literal |-> literal, settled |-> settled]
NotEqual(v) == [Arg(v, FALSE, TRUE) EXCEPT !.first = Equal(v)]

Unsettled(calls) ==
  [d \in DOMAIN calls |->
     [calls[d] EXCEPT !.args = [i \in DOMAIN @ |-> [@[i] EXCEPT !.settled = FALSE]]]]

\* calls with one more argument for the innermost one.
WithArg(calls, arg) == [calls EXCEPT ![Len(calls)].args = Append(@, arg)]

Operand ==
  /\ phase = "eval" /\ Len(Call.args) < Len(Call.sig) /\ values < MaxValues
  /\ values' = values + 1
  /\ \/ \* an expression in one basic block, its register defined once
        /\ code' = Append(code, Def(NewValue))
        /\ open' = WithArg(open, Arg(NewValue, FALSE, TRUE))
        /\ UNCHANGED start
     \/ \* a float x != y as an int
        /\ Call.sig[Len(Call.args) + 1] = "int"
        /\ code' = code \o <<Feq(NewValue), Def(NewValue)>>
        /\ open' = WithArg(open, NotEqual(NewValue))
        /\ UNCHANGED start
     \/ \* a constant
        /\ open' = WithArg(open, Arg(NewValue, TRUE, TRUE))
        /\ UNCHANGED <<code, start>>
     \/ \* && or || : its value is loaded in afterCalcShortCircuitBB
        /\ code' = Append(code, Def(NewValue))
        /\ open' = WithArg(Unsettled(open), Arg(NewValue, FALSE, TRUE))
        /\ start' = Len(code')
     \/ \* a float comparison as a float: defined in oneBB and zeroBB
        /\ Call.sig[Len(Call.args) + 1] = "float"
        /\ code' = Append(code, Def(NewValue))
        /\ open' = Unsettled(WithArg(open, Arg(NewValue, FALSE, FALSE)))
        /\ start' = Len(code') + 1
  /\ UNCHANGED <<phase, locals, maxPass, machine>>

Nested ==
  /\ phase = "eval" /\ Len(Call.args) < Len(Call.sig) /\ Depth < MaxDepth
  /\ \E s \in Signatures : open' = Append(open, [sig |-> s, args |-> << >>])
  /\ UNCHANGED <<phase, code, start, values, locals, maxPass, machine>>

\* Entry of emitFunctionCallInst.
BeginPass ==
  /\ phase = "eval" /\ Len(Call.args) = Len(Call.sig) /\ values < MaxValues
  /\ phase' = "pass"
  /\ intOrder' = 0 /\ floatOrder' = 0 /\ stackOffset' = 0 /\ sent' = << >>
  /\ UNCHANGED <<open, code, start, values, maxPass, machine>>

\* The definition the loop over mutableInstList stops at.
FirstDef(c, v, k) ==
  c[k].dest = v /\ \A j \in start .. k - 1 : c[j].dest # v

SaveBeforeDef(c, v, off) ==
  IF \E k \in start .. Len(c) : FirstDef(c, v, k)
  THEN LET k == CHOOSE k \in start .. Len(c) : FirstDef(c, v, k)
       IN SubSeq(c, 1, k - 1) \o <<Save(off, v)>> \o SubSeq(c, k, Len(c))
  ELSE c

\* The store goes right after the definition, or nowhere.
SaveAfterDef(c, v, off) ==
  IF \E k \in start .. Len(c) : FirstDef(c, v, k)
  THEN LET k == CHOOSE k \in start .. Len(c) : FirstDef(c, v, k)
       IN SubSeq(c, 1, k) \o <<Save(off, v)>> \o SubSeq(c, k + 1, Len(c))
  ELSE c

InRegisterPastEnd(order) == order <= ArgRegs
InRegister(order) == order < ArgRegs

\* One iteration of the loop over the parameters.
PassParam ==
  /\ phase = "pass" /\ Len(sent) < Len(Call.sig)
  /\ LET i == Len(sent) + 1
         kind == Call.sig[i]
         v == Call.args[i].v
         loaded == IF Call.args[i].literal THEN Append(code, Def(v)) ELSE code
         order == IF kind = "int" THEN intOrder ELSE floatOrder
     IN \/ /\ InRegister(order)
           /\ code' = Append(loaded, Move(ArgReg(kind, order), v))
           /\ sent' = Append(sent, ArgReg(kind, order))
           /\ intOrder' = IF kind = "int" THEN intOrder + 1 ELSE intOrder
           /\ floatOrder' = IF kind = "float" THEN floatOrder + 1 ELSE floatOrder
           /\ UNCHANGED stackOffset
        \/ /\ ~InRegister(order)
           /\ code' = SaveAfterDef(loaded, v, stackOffset)
           /\ sent' = Append(sent, Slot(stackOffset))
           /\ stackOffset' = stackOffset + 8
           /\ UNCHANGED <<intOrder, floatOrder>>
  /\ UNCHANGED <<phase, open, start, values, maxPass, machine>>

LatestRoom(room, used) == used
LargerRoom(room, used) == IF used > room THEN used ELSE room

\* The call, the move of its result out of a0, and the return to the visitor
\* of the enclosing call, of which the result is an argument.
EndPass ==
  /\ phase = "pass" /\ Len(sent) = Len(Call.sig)
  /\ maxPass' = LargerRoom(maxPass, stackOffset)
  /\ code' = code \o <<[Ins("call", Junk, Junk) EXCEPT !.sig = Call.sig, !.args = Call.args],
                       Def(NewValue)>>
  /\ values' = values + 1
  /\ \/ /\ Depth = 1
        /\ phase' = "run" /\ open' = << >>
     \/ /\ Depth > 1
        /\ phase' = "eval"
        /\ LET outer == SubSeq(open, 1, Depth - 1)
               rest == IF stackOffset > 0 THEN Unsettled(outer) ELSE outer
           IN open' = WithArg(rest, Arg(NewValue, FALSE, TRUE))
  /\ UNCHANGED <<start, locals, machine>>

-----------------------------------------------------------------------------
Put(f, x, y) == [z \in DOMAIN f \union {x} |-> IF z = x THEN y ELSE f[z]]
Get(f, x) == IF x \in DOMAIN f THEN f[x] ELSE Junk

\* What is where the callee looks for a parameter.
Received(home) == IF home.in = "stack" THEN Get(out, home) ELSE Get(regs, home)

\* The callee may use every register a caller must save, and it may assign to
\* its parameters where they are.
AfterCall(sig) ==
  /\ regs' = [r \in {x \in DOMAIN regs : x.in = "virtual"} |-> regs[r]]
  /\ out' = [o \in DOMAIN out |->
               IF \E i \in OnStack(sig) : o = Home(sig, i) THEN Junk ELSE out[o]]

Run ==
  /\ phase = "run" /\ pc <= Len(code)
  /\ LET ins == code[pc] IN
     \/ ins.op = "def" /\ regs' = Put(regs, ins.dest, ins.src) /\ UNCHANGED out
     \/ ins.op = "move" /\ regs' = Put(regs, ins.dest, Get(regs, ins.src)) /\ UNCHANGED out
     \/ ins.op = "save" /\ out' = Put(out, ins.dest, Get(regs, ins.src)) /\ UNCHANGED regs
     \/ ins.op = "call" /\ AfterCall(ins.sig)
  /\ pc' = pc + 1
  /\ UNCHANGED <<phase, open, code, start, values, locals, maxPass>>

Next == Operand \/ Nested \/ BeginPass \/ PassParam \/ EndPass \/ Run

Spec == Init /\ [][Next]_vars

-----------------------------------------------------------------------------
Places ==
  [in : {"stack", "reg", "virtual", "equal"}, kind : {"any", "int", "float"}, at : Nat]
Args == {arg \in [v : Places, first : Places, literal : BOOLEAN, settled : BOOLEAN] :
           arg.first \in {arg.v, Equal(arg.v)} /\ (arg.literal => arg.first = arg.v)}

\* The register a call clobbers is none of the places of a value.
ASSUME JunkOK == Junk \notin Places
Instrs == [op : {"def", "move", "save", "call"}, dest : Places \union {Junk},
           src : Places \union {Junk}, sig : Signatures \union {<< >>}, args : Seq(Args)]

\* Every variable ranges over what the code's declarations allow.
TypeOK ==
  /\ phase \in {"eval", "pass", "run"}
  /\ open \in Seq([sig : Signatures, args : Seq(Args)])
  /\ open = << >> <=> phase = "run"
  /\ code \in Seq(Instrs) /\ start \in 1 .. Len(code) + 1
  /\ values \in Nat
  /\ intOrder \in 0 .. ArgRegs /\ floatOrder \in 0 .. ArgRegs /\ stackOffset \in Nat
  /\ sent \in Seq(Places) /\ maxPass \in Nat
  /\ phase = "pass" => Len(sent) <= Len(Call.sig) /\ Len(Call.args) = Len(Call.sig)
  /\ pc \in Nat \ {0}
  /\ regs \in [DOMAIN regs -> Places \union {Junk}]
  /\ out \in [DOMAIN out -> Places \union {Junk}]

\* The caller's loop and the callee's counters put every parameter in the same
\* place: emitFunctionCallInst numbers registers and stack slots as it goes,
\* AllocInst counts all the parameters of a kind and emitAllocInst subtracts.
HomesAgree == phase = "pass" => \A i \in DOMAIN sent : sent[i] = Home(Call.sig, i)

\* The frame makes room for all that is stored above sp: a store emitted for a
\* call lies below _maxPassParamsStackOffset once the call is emitted.
OutgoingFits ==
  phase # "pass" => \A k \in DOMAIN code :
                      code[k].op = "save" => code[k].dest.at + 8 <= maxPass

\* An argument is where the callee looks for it when the call is reached,
\* however calls nest, if it travels in a register, is a constant, or is defined
\* once and nothing after that left the block or passed arguments on the stack.
SettledDelivered ==
  phase = "run" /\ pc <= Len(code) /\ code[pc].op = "call" =>
    LET sig == code[pc].sig  args == code[pc].args IN
    \A i \in DOMAIN sig :
      \/ i \notin OnStack(sig) \/ args[i].literal
      \/ args[i].settled /\ args[i].first = args[i].v
        => Received(Home(sig, i)) = args[i].v

\* The store of a stack argument goes between feq and seqz: of a float x != y
\* the callee gets the opposite, x == y, even when nothing else disturbs it.
NotEqualReversed ==
  phase = "run" /\ pc <= Len(code) /\ code[pc].op = "call" =>
    LET sig == code[pc].sig  args == code[pc].args IN
    \A i \in OnStack(sig) :
      args[i].settled /\ args[i].first # args[i].v
        => Received(Home(sig, i)) = Equal(args[i].v)

\* README.md gives FuncRParams: Expr (',' Expr)*, so an argument may be any
\* expression, a call among them: every argument reaches the callee.
ArgsDelivered ==
  phase = "run" /\ pc <= Len(code) /\ code[pc].op = "call" =>
    \A i \in DOMAIN code[pc].sig :
      Received(Home(code[pc].sig, i)) = code[pc].args[i].v
=============================================================================
