------------------------------- MODULE Frame -------------------------------
(***************************************************************************)
(* The stack frame of a compiled function: how emitFunction lays it out    *)
(* while it emits the body, the prologue and epilogue it adds at the end,  *)
(* and a call of the function that runs them.                              *)
(*                                                                         *)
(*   lay --> enter --> body --> leave --> returned                         *)
(*                                                                         *)
(* lay is the do-while loop, one action per kind of request for memory:    *)
(* emitAllocInst, a call's outgoing parameters, a spill, and another round *)
(* of emission with more registers to push.  Addresses are relative to the *)
(* stack pointer at entry, which is what s0 holds in the body.             *)
(***************************************************************************)
EXTENDS Integers, Sequences, FiniteSets

CONSTANTS
  Savable,     \* the callee-saved registers coloring may use, s1.. and fs0..
  Ra, S0,      \* the return address and the frame pointer
  Junk,        \* what nobody may rely on
  Sizes,       \* byte lengths of local variables
  Passed,      \* bytes of parameters on the stack a call may need
  MaxAreas     \* bound on the locals and spill slots of a function

ASSUME Registers == /\ IsFiniteSet(Savable) /\ Cardinality(Savable) <= 23
                    /\ Ra \notin Savable /\ S0 \notin Savable /\ Ra # S0
                    /\ Junk \notin Savable \union {Ra, S0} \union Int
                    /\ (Savable \union {Ra, S0}) \intersect Int = {}
ASSUME Lengths == /\ Sizes \subseteq Nat \ {0}
                  /\ Passed \subseteq Nat
                  /\ MaxAreas \in Nat

VARIABLES
  phase,
  hasCall,  \* Function::hasFunctionCall
  order,    \* tmpNeedPushRegs, in the order std::set lists them
  offset,   \* CodeGenerator::_offset
  areas,    \* the locals and spill slots: [lo, size]
  maxPass,  \* _maxPassParamsStackOffset
  entry,    \* what is added to _entryBB
  ret,      \* what _retBB holds
  pc, sp, s0,  \* the run: the instruction, the two pointers,
  regs, mem    \* the other registers that must survive, and the saved bytes

vars == <<phase, hasCall, order, offset, areas, maxPass, entry, ret, pc, sp, s0, regs, mem>>

layout == <<hasCall, order, offset, areas, maxPass>>
text == <<entry, ret>>
machine == <<pc, sp, s0, regs, mem>>

-----------------------------------------------------------------------------
ImmMin == -2048
ImmMax == 2047
Hop == 2032   \* the first step of sp in a frame too large for one addi

Enumerations(S) == {q \in [1 .. Cardinality(S) -> S] : \A r \in S : \E k \in DOMAIN q : q[k] = r}

\* What the frame keeps at its top, the k-th 8 k bytes below the entry sp.
Kept(call, push) == (IF call THEN <<Ra, S0>> ELSE <<S0>>) \o push

KeptBytes(call, push) == 8 * ((IF call THEN 2 ELSE 1) + Len(push))

ToZero(x) == -(((-x) \div 16) * 16)
RoundedUp(x) == IF x % 16 # 0 THEN ToZero(x) ELSE x
Unrounded(x) == x

\* C++ divides towards zero: (_offset - 15) / 16 * 16 of a negative offset.
Aligned(x) == IF x % 16 # 0 THEN ToZero(x - 15) ELSE x

FitsOneAddiFar(x) == x >= 2 * ImmMin
FitsOneAddi(x) == x >= ImmMin

Addi(rd, imm) == [op |-> "addi", reg |-> rd, imm |-> imm]
AddLoaded(imm) == [op |-> "add", reg |-> Junk, imm |-> imm]
Sd(r, imm) == [op |-> "sd", reg |-> r, imm |-> imm]
Ld(r, imm) == [op |-> "ld", reg |-> r, imm |-> imm]

SavedFromTop(k, base) == base - 8 * (k - 1)
SavedAt(k, base) == base - 8 * k

Saves(kept, base) == [k \in DOMAIN kept |-> Sd(kept[k], SavedAt(k, base))]
Loads(kept, base) == [k \in DOMAIN kept |-> Ld(kept[k], SavedAt(k, base))]

Prologue(kept, off) ==
  IF FitsOneAddi(off)
  THEN <<Addi("sp", off)>> \o Saves(kept, -off) \o <<Addi("s0", -off)>>
  ELSE <<Addi("sp", -Hop)>> \o Saves(kept, Hop) \o <<Addi("s0", Hop), AddLoaded(off + Hop)>>

EpilogueSameTop(kept, off) ==
  IF FitsOneAddi(off)
  THEN Loads(kept, -off) \o <<Addi("sp", -off)>>
  ELSE <<AddLoaded(-off - Hop)>> \o Loads(kept, -off) \o <<Addi("sp", Hop)>>

Epilogue(kept, off) ==
  IF FitsOneAddi(off)
  THEN Loads(kept, -off) \o <<Addi("sp", -off)>>
  ELSE <<AddLoaded(-off - Hop)>> \o Loads(kept, Hop) \o <<Addi("sp", Hop)>>

-----------------------------------------------------------------------------
StartRound(push) ==
  /\ order' = push
  /\ offset' = -KeptBytes(hasCall, push)
  /\ areas' = {}
  /\ maxPass' = 0

Init ==
  /\ phase = "lay"
  /\ hasCall \in BOOLEAN
  /\ order = << >> /\ offset = -KeptBytes(hasCall, order)
  /\ areas = {} /\ maxPass = 0
  /\ entry = << >> /\ ret = << >>
  /\ pc = 1 /\ sp = 0 /\ s0 = S0 /\ regs = [r \in Savable \union {Ra} |-> r] /\ mem = << >>

NewArea(size) ==
  /\ phase = "lay" /\ Cardinality(areas) < MaxAreas
  /\ offset' = offset - size
  /\ areas' = areas \union {[lo |-> offset - size, size |-> size]}
  /\ UNCHANGED <<phase, hasCall, order, maxPass, text, machine>>

\* emitAllocInst, unless the variable is a parameter passed on the stack.
Alloc == \E n \in Sizes : NewArea(n)

SpillNoSlot == NewArea(0)

\* A slot taken by RegAllocator::spill through its reference to _offset.
SpillSlot == NewArea(8)

\* emitFunctionCallInst, in a function that hasFunctionCall.
PassParams ==
  /\ phase = "lay" /\ hasCall
  /\ \E n \in Passed : n > maxPass /\ maxPass' = n
  /\ UNCHANGED <<phase, hasCall, order, offset, areas, text, machine>>

\* Coloring took a callee-saved register that the round made no room for.
NextRound ==
  /\ phase = "lay"
  /\ \E S \in SUBSET Savable :
       /\ {order[k] : k \in DOMAIN order} \subseteq S /\ Len(order) < Cardinality(S)
       /\ \E q \in Enumerations(S) : StartRound(q)
  /\ UNCHANGED <<phase, hasCall, text, machine>>

\* emitFunction after the loop.
Close ==
  /\ phase = "lay"
  /\ offset' = Aligned(offset - maxPass)
  /\ entry' = Prologue(Kept(hasCall, order), offset')
  /\ ret' = Epilogue(Kept(hasCall, order), offset')
  /\ phase' = "enter"
  /\ UNCHANGED <<hasCall, order, areas, maxPass, machine>>

-----------------------------------------------------------------------------
\* One instruction of the prologue or of the epilogue.
Execute(ins) ==
  \/ /\ ins.op = "addi" /\ ins.reg = "sp"
     /\ sp' = sp + ins.imm /\ UNCHANGED <<s0, regs, mem>>
  \/ /\ ins.op = "addi" /\ ins.reg = "s0"
     /\ s0' = sp + ins.imm /\ UNCHANGED <<sp, regs, mem>>
  \/ /\ ins.op = "add"
     /\ sp' = sp + ins.imm /\ UNCHANGED <<s0, regs, mem>>
  \/ /\ ins.op = "sd"
     /\ LET at == sp + ins.imm
            value == IF ins.reg = S0 THEN s0 ELSE regs[ins.reg]
        IN mem' = [x \in DOMAIN mem \union {at} |-> IF x = at THEN value ELSE mem[x]]
     /\ UNCHANGED <<sp, s0, regs>>
  \/ /\ ins.op = "ld"
     /\ LET at == sp + ins.imm
            value == IF at \in DOMAIN mem THEN mem[at] ELSE Junk
        IN IF ins.reg = S0 THEN s0' = value /\ UNCHANGED regs
           ELSE regs' = [regs EXCEPT ![ins.reg] = value] /\ UNCHANGED s0
     /\ UNCHANGED <<sp, mem>>

Step(code, here, there) ==
  /\ phase = here
  /\ IF pc <= Len(code)
     THEN Execute(code[pc]) /\ pc' = pc + 1 /\ UNCHANGED phase
     ELSE phase' = there /\ pc' = 1 /\ UNCHANGED <<sp, s0, regs, mem>>
  /\ UNCHANGED <<layout, text>>

Enter == Step(entry, "enter", "body")
Leave == Step(ret, "leave", "returned")

Bytes(lo, size) == lo .. lo + size - 1

\* The body writes what is its own, uses the registers the prologue saved and
\* calls, which sets ra; s0 and sp it only reads.
Body ==
  /\ phase = "body"
  /\ \E a \in areas \union {[lo |-> sp, size |-> maxPass]} :
       mem' = [x \in DOMAIN mem |->
                 IF Bytes(x, 8) \intersect Bytes(a.lo, a.size) # {} THEN Junk ELSE mem[x]]
  /\ regs' = [r \in DOMAIN regs |->
                IF \/ \E k \in DOMAIN order : order[k] = r
                   \/ r = Ra /\ hasCall
                THEN Junk ELSE regs[r]]
  /\ phase' \in {"body", "leave"}
  /\ UNCHANGED <<layout, text, pc, sp, s0>>

Next == \/ Alloc \/ SpillSlot \/ PassParams \/ NextRound \/ Close
        \/ Enter \/ Body \/ Leave

Spec == Init /\ [][Next]_vars

-----------------------------------------------------------------------------
Instrs == [op : {"addi", "add", "sd", "ld"},
           reg : Savable \union {Ra, S0, Junk, "sp", "s0"}, imm : Int]

\* Every variable ranges over what the code's declarations allow.
TypeOK ==
  /\ phase \in {"lay", "enter", "body", "leave", "returned"}
  /\ hasCall \in BOOLEAN
  /\ order \in Seq(Savable) /\ offset \in Int
  /\ areas \in SUBSET [lo : Int, size : Nat \ {0}] /\ maxPass \in Nat
  /\ entry \in Seq(Instrs) /\ ret \in Seq(Instrs)
  /\ pc \in Nat \ {0} /\ sp \in Int /\ s0 \in Int \union {S0, Junk}
  /\ regs \in [Savable \union {Ra} -> Savable \union {Ra, S0, Junk} \union Int]

\* No two locals or spill slots share a byte, none reaches the saved registers
\* above or the outgoing parameters below, whatever was allocated, spilled or
\* passed before the frame was closed and rounded to 16 bytes.
AreasApart ==
  /\ \A a, b \in areas : a # b => a.lo + a.size <= b.lo \/ b.lo + b.size <= a.lo
  /\ \A a \in areas : a.lo + a.size <= -KeptBytes(hasCall, order)
  /\ phase # "lay" => /\ \A a \in areas : offset + maxPass <= a.lo
                      /\ offset + maxPass <= -KeptBytes(hasCall, order)

\* "The stack is aligned to 16 bytes" (emitFunction): in the body, and so at
\* every call it makes, sp is a multiple of 16 if it was at entry.
StackAligned ==
  /\ phase # "lay" => offset % 16 = 0
  /\ phase = "body" => sp = offset /\ s0 = 0

\* The prologue and the epilogue only touch the frame: never below sp, never
\* the caller's bytes.
SavesInFrame ==
  \A code \in {entry, ret} : \A k \in DOMAIN code :
    code[k].op \in {"sd", "ld"} =>
      code[k].imm >= 0 /\ code[k].imm + 8 <= (IF FitsOneAddi(offset) THEN -offset ELSE Hop)

\* The caller gets sp, s0, ra and every callee-saved register back, whatever
\* the body wrote into the frame and however large the frame is.
Restored ==
  phase = "returned" => sp = 0 /\ s0 = S0 /\ \A r \in DOMAIN regs : regs[r] = r

Immediates == UNION {{code[k].imm : k \in {j \in DOMAIN code : code[j].op # "add"}} :
                     code \in {entry, ret}}

\* Every addi, sd and ld of prologue and epilogue has an immediate the
\* assembler takes, for every frame but one of exactly 2048 bytes.
OthersEncodable == offset # ImmMin => \A i \in Immediates : ImmMin <= i /\ i <= ImmMax

\* emitFunction: "2032 avoid to ues the num 2048".
Encodable == \A i \in Immediates : ImmMin <= i /\ i <= ImmMax
=============================================================================
