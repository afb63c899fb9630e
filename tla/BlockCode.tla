------------------------------ MODULE BlockCode ------------------------------
(***************************************************************************)
(* The basic blocks of a function on their way through the code generator, *)
(* and then run: dead instructions are masked, assembly is emitted and     *)
(* cleaned up and executed on a sequence of inputs.  Each value has a      *)
(* register of its own, as before register allocation.  Where the blocks   *)
(* come from is not the subject here.                                      *)
(***************************************************************************)
EXTENDS Ast, Emission, DeadMask

CONSTANT Inputs       \* the sequences of inputs

ASSUME InputsOK == \A s \in Inputs : s \in Seq(Int)

VARIABLES phase,      \* "build" before there are blocks, "mask", "run", "returned" or "done"
          asm,        \* the printed blocks
          inputs,     \* what the function will read
          pc,         \* block and index of the next instruction
          regs,       \* the register of each result; 0 is a0
          mem,        \* memory: cells 0 and 1 for each address, 0 is the global
          next,       \* the number of inputs read
          out         \* the calls made, and the value returned

machine == <<inputs, pc, regs, mem, next, out>>

codeVars == <<maskVars, phase, asm, machine>>

Undefined == -1

\* The number of results of a function: every one has a register.
ResultsOf(g) ==
    Cardinality(UNION {{i \in DOMAIN g[b].code : g[b].code[i].dst # None} \X {b} : b \in DOMAIN g})

NumResults == ResultsOf(bbs)

NothingRun ==
    /\ asm = <<>>
    /\ inputs = <<>> /\ pc = <<1, 1>> /\ regs = <<>> /\ mem = <<>> /\ next = 0 /\ out = <<>>

CodeInit(g) == MaskInit(g) /\ phase = "mask" /\ NothingRun

Mask ==
    /\ phase = "mask"
    /\ MaskNext
    /\ UNCHANGED <<phase, asm, machine>>

\* Emission, and the choice of the inputs the function will be run on.
Emit ==
    /\ phase = "mask" /\ stage = "masked"
    /\ phase' = "run"
    /\ asm' = Cleanup(EmitFunction(bbs, dead))
    /\ inputs' \in Inputs
    /\ regs' = [r \in 0..NumResults |-> Undefined]
    /\ mem' = [c \in 0..(2 * NumResults + 1) |-> IF c \in {0, 1} THEN 0 ELSE Undefined]
    /\ UNCHANGED <<maskVars, pc, next, out>>

-----------------------------------------------------------------------------
(* The machine *)

Code == asm[pc[1]].code

Current == Code[pc[2]]

AtInst(op) == phase = "run" /\ pc[2] \in DOMAIN Code /\ Current.op = op

ValueOf(v) ==
    CASE v.kind = "const"  -> v.n
      [] v.kind = "global" -> 0
      [] OTHER -> regs[v.n]

Arg(i) == ValueOf(Current.args[i])

Advance == pc' = <<pc[1], pc[2] + 1>>

SetResult(x) == regs' = [regs EXCEPT ![Current.dst.n] = x]

Compiled == <<maskVars, asm, inputs>>

FallThrough ==
    /\ phase = "run"
    /\ pc[2] \notin DOMAIN Code
    /\ pc[1] < Len(asm)
    /\ pc' = <<pc[1] + 1, 1>>
    /\ UNCHANGED <<Compiled, phase, regs, mem, next, out>>

\* The prologue, an operation, a load or an address: only registers change.
Compute ==
    /\ \/ AtInst("prologue") /\ UNCHANGED regs
       \/ AtInst("alloc")    /\ SetResult(2 * Current.dst.n)
       \/ AtInst("gep")      /\ SetResult(Arg(1) + Arg(2))
       \/ AtInst("load")     /\ SetResult(mem[Arg(1)])
       \/ AtInst("binary")   /\ SetResult(Apply(Current.tag, Arg(1), Arg(2)))
       \/ AtInst("mv_a0")    /\ regs' = [regs EXCEPT ![0] = Arg(1)]
    /\ Advance
    /\ UNCHANGED <<Compiled, phase, mem, next, out>>

StoreWord ==
    /\ AtInst("store")
    /\ mem' = [mem EXCEPT ![Arg(2)] = Arg(1)]
    /\ Advance
    /\ UNCHANGED <<Compiled, phase, regs, next, out>>

JumpTo ==
    /\ AtInst("j")
    /\ pc' = <<Current.to[1], 1>>
    /\ UNCHANGED <<Compiled, phase, regs, mem, next, out>>

Taken ==
    CASE Current.tag = "BEQ" -> Arg(1) = Arg(2)
      [] Current.tag = "BNE" -> Arg(1) # Arg(2)
      [] Current.tag = "BLT" -> Arg(1) < Arg(2)
      [] Current.tag = "BGE" -> Arg(1) >= Arg(2)

BranchTo ==
    /\ AtInst("branch")
    /\ IF Taken THEN pc' = <<Current.to[1], 1>> ELSE Advance
    /\ UNCHANGED <<Compiled, phase, regs, mem, next, out>>

Call ==
    /\ AtInst("call")
    /\ IF Current.dst = None
       THEN /\ out' = Append(out, <<"use", Arg(1)>>)
            /\ UNCHANGED <<regs, next>>
       ELSE /\ next < Len(inputs)
            /\ next' = next + 1
            /\ SetResult(inputs[next + 1])
            /\ out' = Append(out, <<"read", Current.tag>>)
    /\ Advance
    /\ UNCHANGED <<Compiled, phase, mem>>

\* The run ends when the inputs are used up.
Starve ==
    /\ AtInst("call") /\ Current.dst # None /\ next = Len(inputs)
    /\ phase' = "done"
    /\ UNCHANGED <<Compiled, pc, regs, mem, next, out>>

Ret ==
    /\ AtInst("ret")
    /\ phase' = "returned"
    /\ out' = Append(out, <<"return", regs[0]>>)
    /\ UNCHANGED <<Compiled, pc, regs, mem, next>>

\* The caller has the value.
Exit ==
    /\ phase = "returned"
    /\ phase' = "done"
    /\ UNCHANGED <<Compiled, machine>>

Run ==
    FallThrough \/ Compute \/ StoreWord \/ JumpTo \/ BranchTo \/ Call \/ Starve \/ Ret \/ Exit

CodeNext == Mask \/ Emit \/ Run

CodeSpec(g) == CodeInit(g) /\ [][CodeNext]_codeVars

-----------------------------------------------------------------------------
(* Graphs that IRBuilder makes *)

IsTerminator(inst) == inst.op \in {"jump", "cond", "ret"}

\* How many targets an instruction has.
NumTargets(inst) == IF inst.op = "jump" THEN 1 ELSE IF inst.op = "cond" THEN 2 ELSE 0

\* A value is named by the instruction that defines it; a store goes to a
\* global, to an allocation or to an element.
InstOK(inst) ==
    /\ inst.op \in {"alloc", "load", "store", "gep", "binary", "call", "jump", "cond", "ret"}
    /\ inst.dst = None \/ (inst.dst.kind = "result" /\ inst.dst.by = inst.op)
    /\ Len(inst.to) = NumTargets(inst) /\ DOMAIN inst.to = 1..Len(inst.to)
    /\ inst.op \in {"store", "jump", "cond", "ret"} => inst.dst = None
    /\ inst.op = "cond" => inst.tag \in Relations
    /\ inst.op = "alloc" => inst.args = <<>>
    /\ inst.op = "store" =>
          /\ DOMAIN inst.args = {1, 2}
          /\ inst.args[2].kind = "global" \/ inst.args[2].by \in {"alloc", "gep"}

\* Each block ends in a jump, and no block goes on after one; its successors
\* are the targets.  Every value has one definition, and allocations stand
\* in the first block.
Closed(g) ==
    /\ GraphOK(g) /\ Len(g) > 0
    /\ \A b \in DOMAIN g :
          LET code == g[b].code
          IN /\ Len(code) > 0
             /\ \A i \in DOMAIN code :
                   /\ InstOK(code[i])
                   /\ IsTerminator(code[i]) <=> i = Len(code)
                   /\ code[i].op = "alloc" => b = 1
                   /\ \A c \in DOMAIN g : \A k \in DOMAIN g[c].code :
                         g[c].code[k].dst = code[i].dst => code[i].dst = None \/ <<c, k>> = <<b, i>>
             /\ g[b].succ = code[Len(code)].to

\* How many operands an instruction has.
NumOperands(inst) ==
    CASE inst.op \in {"gep", "binary", "store", "cond"} -> 2
      [] inst.op \in {"load", "ret"} \/ (inst.op = "call" /\ inst.dst = None) -> 1
      [] OTHER -> 0

\* An operand is a constant, the global or a result; an address is the global,
\* an allocation or an element, and what is indexed is not also a variable that
\* is stored to.
InstRuns(g, inst) ==
    /\ DOMAIN inst.args = 1..NumOperands(inst)
    /\ \A v \in Elems(inst.args) :
          \/ v.kind \in {"const", "global"} /\ v.by = ""
          \/ v # None /\ \E c \in DOMAIN g : \E k \in DOMAIN g[c].code : g[c].code[k].dst = v
    /\ inst.op \in {"alloc", "load", "gep", "binary"} => inst.dst # None
    /\ inst.op = "load" => inst.args[1].kind = "global" \/ inst.args[1].by \in {"alloc", "gep"}
    /\ inst.op = "gep" =>
          /\ inst.args[1].kind = "global" \/ inst.args[1].by = "alloc"
          /\ \A c \in DOMAIN g : \A k \in DOMAIN g[c].code :
                IsLocalStore(g[c].code[k]) => g[c].code[k].args[2] # inst.args[1]

\* The result of instruction i of block b has a number that no other has.
NumberedApart(g, b, i) ==
    g[b].code[i].dst # None =>
        /\ g[b].code[i].dst.n \in 1..ResultsOf(g)
        /\ \A c \in DOMAIN g : \A k \in DOMAIN g[c].code :
              g[c].code[k].dst # None /\ g[c].code[k].dst.n = g[b].code[i].dst.n => <<c, k>> = <<b, i>>

Runnable(g) ==
    \A b \in DOMAIN g : \A i \in DOMAIN g[b].code :
        InstRuns(g, g[b].code[i]) /\ NumberedApart(g, b, i)

\* The values that the first n instructions of block b define.
ResultsUpTo(g, b, n) == {g[b].code[i].dst : i \in 1..n} \ {None}

OfResult(values) == {v \in values : v.kind = "result"}

\* Where block b starts, the values D[b] have been defined, whatever path led
\* there; and an instruction uses only values that have been defined.
DefinedFirst(g, D) ==
    /\ D[1] = {}
    /\ \A b \in DOMAIN g :
          /\ \A s \in Elems(g[b].succ) :
                D[s] \subseteq D[b] \cup ResultsUpTo(g, b, Len(g[b].code))
          /\ \A i \in DOMAIN g[b].code :
                OfResult(Elems(g[b].code[i].args)) \subseteq D[b] \cup ResultsUpTo(g, b, i - 1)

-----------------------------------------------------------------------------
(* Properties *)

\* The types, and how far a function has come.
TypeOK ==
    /\ phase \in {"build", "mask", "run", "returned", "done"}
    /\ stage \in {"block", "inst", "masked"}
    /\ DOMAIN alives = Blocks /\ DOMAIN dead = Blocks
    /\ \A b \in Blocks : dead[b] \subseteq DOMAIN bbs[b].code
    /\ phase \notin {"build", "mask"} => pc[1] \in DOMAIN asm /\ pc[2] \in 1..(Len(Code) + 1)
    /\ next \in 0..Len(inputs)

\* The blocks a run can come to without leaving one of those in avoided.
ReachedAvoiding(avoided) ==
    LET steps[k \in 0..Len(bbs)] ==
            IF k = 0 THEN {1}
            ELSE LET before == steps[k - 1]
                 IN before \cup UNION {Elems(bbs[b].succ) : b \in before \ avoided}
    IN steps[Len(bbs)]

Reachable == ReachedAvoiding({})

\* In the blocks of S, no instruction that stays uses a result of one that goes.
OperandsStay(S) ==
    LET gone == (UNION {{bbs[b].code[i].dst : i \in dead[b]} : b \in Blocks}) \ {None}
    IN \A b \in S : \A i \in DOMAIN bbs[b].code \ dead[b] :
          Elems(bbs[b].code[i].args) \cap gone = {}

\* When maskDeadInst has returned, an instruction that stays and that can be
\* executed uses no result of one that goes: each of its operands has a register
\* or an address when CodeGenerator passes over what is dead (line 311).
NothingNeededIsDead ==
    phase = "mask" /\ stage = "masked" => OperandsStay(Reachable)

\* The same of every block, whether or not a run can come to it: code is
\* emitted for each, and emitUnaryInst looks up the register of every operand.
OperandsHaveRegisters ==
    phase = "mask" /\ stage = "masked" => OperandsStay(Blocks)

\* A label that the clean-up of emitFunction (279-298) drops is the target of
\* no jump or branch that is left.
LabelsKept ==
    phase = "run" /\ pc = <<1, 1>> =>
    \A b \in DOMAIN asm : \A i \in DOMAIN asm[b].code :
        asm[b].code[i].op \in {"j", "branch"} => asm[asm[b].code[i].to[1]].label

\* The run never uses a register or a variable that was not written: what
\* defines a value is executed before it is used, on every path.
OperandsDefined ==
    phase = "run" /\ pc[2] \in DOMAIN Code =>
        /\ \A i \in DOMAIN Current.args : Arg(i) # Undefined
        /\ Current.op = "load" => mem[Arg(1)] # Undefined
=============================================================================
