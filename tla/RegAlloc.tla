------------------------------ MODULE RegAlloc ------------------------------
(***************************************************************************)
(* The graph-colouring register allocator of the RISC-V back end           *)
(* (src/backend/riscv/RegAllocator.cpp), inside the do-while loop of       *)
(* CodeGenerator::emitFunction that emits a function again until the set   *)
(* of callee-saved registers it has to push is the set it made room for.   *)
(*                                                                         *)
(* One behaviour compiles one function.  The phases follow the calls:      *)
(*                                                                         *)
(*   emit  ->  scan  ->  color  ->  done                                   *)
(*    ^         ^          |  |                                            *)
(*    |         +- spill <-+  |     run(): reset(); spill(); again         *)
(*    +-----------------------+     emitFunction: needPushRegs changed     *)
(*                                                                         *)
(* scan is buildInterference(), one instruction a step, last to first.     *)
(* Each Register object of the program text is one element of Temps; each  *)
(* round of emission creates new objects, <<temp, round>>.  A physical     *)
(* register is named by itself, whatever the number of objects the         *)
(* program keeps for it: colours and conflicts compare names.              *)
(***************************************************************************)
EXTENDS Integers, Sequences, FiniteSets

CONSTANTS
  Temps,        \* virtual registers instruction selection creates
  FloatTemps,   \* those created with Register(false)
  IntPhy,       \* sequence of the integer colours, in first-fit order
  FloatPhy,     \* sequence of the float colours, in first-fit order
  Special,      \* ra, s0, sp, zero: fixed and never a colour
  S0,           \* s0, the frame pointer, among them
  CallerSaved,  \* Function::CallerSavedRegs
  CalleeSaved,  \* Function::CalleeSavedRegs
  NoReg,        \* nullptr for _dest, _src1, _src2, _needSpill
  Uncolored,    \* any name of the form virtual_regN
  Programs,     \* the functions compiled: [code, hasCall, locals, result]
  Layouts,      \* address orders the heap may give the Register objects
  MaxRound,     \* bound on the emission rounds after the first
  MaxSpills     \* bound on the calls of spill()

IntNames == {IntPhy[i] : i \in DOMAIN IntPhy}
FloatNames == {FloatPhy[i] : i \in DOMAIN FloatPhy}
Fixed == IntNames \union FloatNames \union Special
Rounds == 0 .. MaxRound
Vregs == Temps \X Rounds
Regs == Vregs \union Fixed

Kinds == {"op", "call", "branch", "jump", "store", "reload"}

\* An instruction over a set R of registers.  target is the block a branch or
\* jump goes to, off the frame offset of a spill's store or reload.
Instr(R) == [kind : Kinds, dest : R \union {NoReg}, src1 : R \union {NoReg},
             src2 : R \union {NoReg}, used : SUBSET Fixed, target : Nat, off : Int]

ASSUME Names == /\ IntPhy \in Seq(IntNames) /\ FloatPhy \in Seq(FloatNames)
                /\ CallerSaved \subseteq Fixed /\ CalleeSaved \subseteq Fixed
                /\ IsFiniteSet(CalleeSaved)
                /\ FloatTemps \subseteq Temps
ASSUME Apart == /\ S0 \in Special
                /\ NoReg \notin Temps \union Regs /\ Uncolored \notin Fixed
                /\ (Temps \union Vregs) \intersect Fixed = {}
                /\ IntNames \intersect FloatNames = {}
                /\ Special \intersect (IntNames \union FloatNames \union CallerSaved) = {}
                /\ CallerSaved \intersect CalleeSaved = {}
ASSUME Bounds == MaxRound \in Nat /\ MaxSpills \in Nat
ASSUME ProgramsOK ==
  \A p \in Programs : /\ p.code \in Seq(Seq(Instr(Temps \union Fixed)))
                      /\ p.code # << >>
                      /\ p.hasCall \in BOOLEAN
                      /\ p.locals \in Nat
ASSUME LayoutsOK == \A l \in Layouts : l \in [Vregs -> Nat]

VARIABLES
  prog,     \* the function being compiled
  layout,   \* the address of every Register object, which orders std::set
  phase,
  round,    \* iterations of emitFunction's do-while
  code,     \* the instruction list of every basic block
  alives,   \* BasicBlock::_alives
  alive,    \* the local `alives' of buildInterference
  blk, pos, \* the block and the instruction buildInterference is at
  update,   \* its flag
  intf,     \* Register::_interferences, as pairs <<register, interference>>
  name,     \* Register::_name of the virtual registers
  need,     \* Function::_needAllocRegs
  todo,     \* the part of it that coloring() has still to visit
  failed,   \* RegAllocator::_needSpill
  needPush, \* Function::_needPushRegs
  pushed,   \* tmpNeedPushRegs, which the frame makes room for
  offset,   \* CodeGenerator::_offset, the allocator's _currentOffset
  spilled   \* history: the registers spill() was called for

vars == <<prog, layout, phase, round, code, alives, alive, blk, pos, update,
          intf, name, need, todo, failed, needPush, pushed, offset, spilled>>

-----------------------------------------------------------------------------
IsFloat(r) == r \in FloatNames \/ r \in FloatTemps \X Rounds

NameOf(r) == IF r \in Vregs THEN name[r] ELSE r

\* BasicBlock::addInstruction makes the target of every jump a successor.
Successors(c, b) == {c[b][i].target : i \in DOMAIN c[b]} \intersect DOMAIN c

LiveOutOfNone(c, b, al) == {}
LiveOut(c, b, al) == UNION {al[s] : s \in Successors(c, b)}

MeetOneWay(r, S) ==
  {e \in {r} \X S :
     e[1] # e[2] /\ e[1] \in Vregs /\ e[2] \in Regs /\ (IsFloat(e[1]) <=> IsFloat(e[2]))}

\* addInterference on both sides, where the side is not fixed.
Meet(r, S) ==
  {e \in ({r} \X S) \union (S \X {r}) :
     e[1] # e[2] /\ e[1] \in Vregs /\ e[2] \in Regs /\ (IsFloat(e[1]) <=> IsFloat(e[2]))}

\* The frame before spilling: ra and s0, or s0, then the pushed registers,
\* then the locals (emitAllocInst).
FrameBase(p, saved) ==
  -((IF p.hasCall THEN 16 ELSE 8) + 8 * Cardinality(saved) + p.locals)

\* The Register object that round g of emission makes for a template's
\* register; a fixed register is one object throughout.
Object(r, g) == IF r \in Temps THEN <<r, g>> ELSE r

Fresh(ins, g) == [ins EXCEPT !.dest = Object(ins.dest, g), !.src1 = Object(ins.src1, g),
                             !.src2 = Object(ins.src2, g)]

FreshCode(p, g) ==
  [b \in DOMAIN p.code |-> [i \in DOMAIN p.code[b] |-> Fresh(p.code[b][i], g)]]

StartBlockPastEnd(b, c, al) ==
  blk' = b /\ pos' = Len(c[b]) + 1 /\ alive' = LiveOut(c, b, al)

\* Entry of buildInterference's for loop over the blocks.
StartBlock(b, c, al) ==
  /\ blk' = b
  /\ pos' = Len(c[b])
  /\ alive' = LiveOut(c, b, al)

StartBuild(c) ==
  LET al == [b \in DOMAIN c |-> {}] IN
  /\ phase' = "scan"
  /\ alives' = al
  /\ update' = FALSE
  /\ StartBlock(1, c, al)

-----------------------------------------------------------------------------
Init ==
  /\ prog \in Programs
  /\ layout \in Layouts
  /\ phase = "emit"
  /\ round = 0
  /\ code = [b \in DOMAIN prog.code |-> << >>]
  /\ alives = [b \in DOMAIN prog.code |-> {}]
  /\ alive = {} /\ blk = 1 /\ pos = 0 /\ update = FALSE
  /\ intf = {} /\ name = [r \in Vregs |-> Uncolored]
  /\ need = {} /\ todo = {} /\ failed = NoReg
  /\ needPush = {} /\ pushed = {} /\ offset = 0 /\ spilled = << >>

\* The body of emitFunction's do-while up to regAllocator.run().  The set
\* _needAllocRegs of the function is not cleared: objects of the previous
\* round stay in it.
EmitRound ==
  /\ phase = "emit"
  /\ code' = FreshCode(prog, round)
  /\ pushed' = needPush
  /\ offset' = FrameBase(prog, needPush)
  /\ StartBuild(code')
  /\ UNCHANGED <<prog, layout, round, intf, name, need, todo, failed,
                 needPush, spilled>>

\* One iteration of buildInterference's loop over the instructions.
ScanInst ==
  /\ phase = "scan" /\ pos > 0
  /\ LET ins == code[blk][pos]
         live0 == alive \ {ins.dest}
         live1 == live0 \union ({ins.src1} \ {NoReg})
         live2 == live1 \union ({ins.src2} \ {NoReg})
         call == ins.kind = "call"
     IN /\ intf' = intf \union Meet(ins.src1, live0) \union Meet(ins.src2, live1)
                     \union (IF call THEN UNION {Meet(s, live2) : s \in CallerSaved}
                                     ELSE {})
        /\ need' = need \union ({ins.dest, ins.src1, ins.src2} \intersect Vregs)
        /\ alive' = live2 \union (IF call THEN ins.used ELSE {})
  /\ pos' = pos - 1
  /\ UNCHANGED <<prog, layout, phase, round, code, alives, blk, update, name,
                 todo, failed, needPush, pushed, offset, spilled>>

\* The end of a block's iteration: record its live-in set, and go on with the
\* next block, with another pass, or with coloring().
EndBlock ==
  /\ phase = "scan" /\ pos = 0
  /\ LET changed == update \/ alives[blk] # alive
         al == [alives EXCEPT ![blk] = alive]
     IN /\ alives' = al
        /\ \/ /\ blk < Len(code)
              /\ StartBlock(blk + 1, code, al)
              /\ update' = changed
              /\ UNCHANGED <<phase, todo>>
           \/ /\ blk = Len(code) /\ changed
              /\ StartBlock(1, code, al)
              /\ update' = FALSE
              /\ UNCHANGED <<phase, todo>>
           \/ /\ blk = Len(code) /\ ~changed
              /\ phase' = "color" /\ todo' = need
              /\ UNCHANGED <<blk, pos, alive, update>>
  /\ UNCHANGED <<prog, layout, round, code, intf, name, need, failed, needPush,
                 pushed, offset, spilled>>

-----------------------------------------------------------------------------
Colors(r) == IF IsFloat(r) THEN FloatPhy ELSE IntPhy

\* Indices of the colours that no interference of r bears as its name.
Free(r) == {k \in DOMAIN Colors(r) :
              \A x \in Regs : <<r, x>> \in intf => NameOf(x) # Colors(r)[k]}

NextTodo(r) == r \in todo /\ \A q \in todo : layout[r] <= layout[q]

\* colorOneReg with success.
ColorReg(r) ==
  /\ phase = "color" /\ NextTodo(r)
  /\ \E k \in Free(r) :
       /\ \A j \in Free(r) : k <= j
       /\ name' = [name EXCEPT ![r] = Colors(r)[k]]
       /\ needPush' = needPush \union ({Colors(r)[k]} \intersect CalleeSaved)
  /\ todo' = todo \ {r}
  /\ UNCHANGED <<prog, layout, phase, round, code, alives, alive, blk, pos,
                 update, intf, need, failed, pushed, offset, spilled>>

\* coloring() returns false.
FailReg(r) ==
  /\ phase = "color" /\ NextTodo(r)
  /\ Free(r) = {}
  /\ failed' = r
  /\ phase' = "spill"
  /\ UNCHANGED <<prog, layout, round, code, alives, alive, blk, pos, update,
                 intf, name, need, todo, needPush, pushed, offset, spilled>>

ColoredAtOnce ==
  /\ phase = "color" /\ todo = {}
  /\ phase' = "done"
  /\ UNCHANGED <<prog, layout, round, code, alives, alive, blk, pos, update, intf,
                 name, need, todo, failed, needPush, pushed, offset, spilled>>

\* coloring() returns true and run() ends: emitFunction tests whether the
\* push set is still the one it laid the frame out for.
Colored ==
  /\ phase = "color" /\ todo = {}
  /\ \/ /\ needPush # pushed /\ round < MaxRound
        /\ phase' = "emit" /\ round' = round + 1
     \/ /\ needPush = pushed
        /\ phase' = "done" /\ UNCHANGED round
  /\ UNCHANGED <<prog, layout, code, alives, alive, blk, pos, update, intf,
                 name, need, todo, failed, needPush, pushed, offset, spilled>>

-----------------------------------------------------------------------------
Defs(b) == {i \in DOMAIN code[b] : code[b][i].dest = failed}
UsesAsSrc2(b) == {i \in DOMAIN code[b] : failed = code[b][i].src2}
Uses(b) == {i \in DOMAIN code[b] : failed \in {code[b][i].src1, code[b][i].src2}}

DefsUpTo(b) == UNION {{b1} \X Defs(b1) : b1 \in 1 .. b}

\* _currentOffset when spill() inserts into block b: each definition of the
\* register, in this block and the ones before, has taken 8 bytes.
SpillOffset(b) == offset - 8 * Cardinality(DefsUpTo(b))

Blank == [kind |-> "op", dest |-> NoReg, src1 |-> NoReg, src2 |-> NoReg,
          used |-> {}, target |-> 0, off |-> 0]

SpillStore(b) == [Blank EXCEPT !.kind = "store", !.src1 = failed,
                               !.src2 = S0, !.off = SpillOffset(b)]
SpillReload(b) == [Blank EXCEPT !.kind = "reload", !.dest = failed,
                                !.src1 = S0, !.off = SpillOffset(b)]

\* spill() for one block: a reload before every use, a store after the last
\* definition only.  At(i) is the new position of instruction i.
SpillBlock(b) ==
  LET last == {i \in Defs(b) : \A j \in Defs(b) : j <= i}
      At(i) == i + Cardinality({k \in Uses(b) : k <= i})
                 + Cardinality({k \in last : k < i})
      len == Len(code[b]) + Cardinality(Uses(b)) + Cardinality(last)
  IN [j \in 1 .. len |->
        IF \E i \in DOMAIN code[b] : At(i) = j
        THEN code[b][CHOOSE i \in DOMAIN code[b] : At(i) = j]
        ELSE IF \E i \in last : At(i) + 1 = j THEN SpillStore(b)
        ELSE SpillReload(b)]

\* run() after a failed coloring: reset(), spill(), and around the loop.
Spill ==
  /\ phase = "spill" /\ Len(spilled) < MaxSpills
  /\ name' = [r \in Vregs |-> IF r \in need THEN Uncolored ELSE name[r]]
  /\ intf' = {e \in intf : e[1] \notin need}
  /\ need' = {}
  /\ todo' = {}
  /\ code' = [b \in DOMAIN code |-> SpillBlock(b)]
  /\ offset' = SpillOffset(Len(code))
  /\ spilled' = Append(spilled, failed)
  /\ failed' = NoReg
  /\ StartBuild(code')
  /\ UNCHANGED <<prog, layout, round, needPush, pushed>>

AllocNext ==
  \/ EmitRound
  \/ ScanInst
  \/ EndBlock
  \/ \E r \in todo : ColorReg(r) \/ FailReg(r)
  \/ Colored
  \/ Spill

Spec == Init /\ [][AllocNext]_vars

-----------------------------------------------------------------------------
\* Every variable ranges over what the code's declarations allow, and the
\* instruction lists stay sequences of well-formed instructions.
TypeOK ==
  /\ prog \in Programs /\ layout \in Layouts
  /\ phase \in {"emit", "scan", "color", "spill", "done"}
  /\ round \in Rounds
  /\ code \in [DOMAIN prog.code -> Seq(Instr(Regs))]
  /\ alives \in [DOMAIN prog.code -> SUBSET Regs] /\ alive \subseteq Regs
  /\ blk \in DOMAIN code /\ pos \in 0 .. Len(code[blk])
  /\ update \in BOOLEAN
  /\ intf \subseteq Vregs \X Regs
  /\ name \in [Vregs -> Fixed \union {Uncolored}]
  /\ need \subseteq Vregs /\ todo \subseteq need
  /\ failed \in IF phase = "spill" THEN Vregs ELSE {NoReg}
  /\ needPush \subseteq CalleeSaved /\ pushed \subseteq CalleeSaved
  /\ offset \in Int /\ spilled \in Seq(Vregs)

\* The registers that coloring() has given a colour in its current call.
Painted == IF phase \in {"color", "done", "emit"} THEN need \ todo ELSE {}

\* coloring() in RegAllocator.cpp: whatever the order std::set visits the
\* registers in, a coloured register never bears the name of a register it
\* interferes with, coloured or fixed.
NoClash ==
  \A r \in Painted : \A x \in Regs :
    <<r, x>> \in intf /\ x \in Painted \union Fixed => name[r] # NameOf(x)

\* The virtual registers of instruction i of block b.
VregsAt(b, i) == {code[b][i].dest, code[b][i].src1, code[b][i].src2} \intersect Vregs

\* The do-while of emitFunction: in the final code every callee-saved register
\* that some instruction names is in the set the frame makes room for, also
\* when registers left over from an earlier round are coloured again.
CalleeSavedPushed ==
  phase = "done" =>
    \A b \in DOMAIN code : \A i \in DOMAIN code[b] :
      \A r \in VregsAt(b, i) : name[r] \in CalleeSaved => name[r] \in pushed

\* run() in RegAllocator.cpp: spilling a register makes it colourable, so no
\* register is spilled a second time.  (After the first it lives only from a
\* definition to the store and from a reload to the use: a second spill changes
\* no interference, so the same colouring fails again, for ever.)
NoRespill ==
  \A i, j \in DOMAIN spilled : i # j => spilled[i] # spilled[j]

-----------------------------------------------------------------------------
(***************************************************************************)
(* The strengthening that makes the two invariants inductive (proved in    *)
(* RegAllocProofs).                                                        *)
(***************************************************************************)
\* What is live has been entered in _needAllocRegs.
LiveNeeded == /\ alive \intersect Vregs \subseteq need
              /\ \A b \in DOMAIN alives : alives[b] \intersect Vregs \subseteq need

\* The interference graph has no loop, is symmetric where both ends are
\* virtual, and reset() leaves none of it behind.
GraphOK ==
  \A e \in intf : /\ e[1] # e[2] /\ e[1] \in need
                  /\ e[2] \in Vregs => <<e[2], e[1]>> \in intf

\* Every instruction that buildInterference has passed is accounted for.
Scanned ==
  /\ phase = "scan" =>
       \A b \in DOMAIN code : \A i \in DOMAIN code[b] :
         b < blk \/ (b = blk /\ i > pos) => VregsAt(b, i) \subseteq need
  /\ phase \in {"color", "done"} =>
       \A b \in DOMAIN code : \A i \in DOMAIN code[b] : VregsAt(b, i) \subseteq need

\* A callee-saved colour is in the push set as soon as it is used.
PaintedPushed == \A r \in Painted : name[r] \in CalleeSaved => name[r] \in needPush

AllPainted == phase = "done" => todo = {} /\ needPush = pushed

AllocInv == /\ TypeOK /\ LiveNeeded /\ GraphOK /\ Scanned
            /\ NoClash /\ PaintedPushed /\ AllPainted
=============================================================================
