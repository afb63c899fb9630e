--------------------------- MODULE RegAllocProofs ---------------------------
(***************************************************************************)
(* Theorems about RegAlloc, for every program, register file and order of  *)
(* the Register objects in memory.                                         *)
(***************************************************************************)
EXTENDS RegAlloc, SeqFacts, FiniteSetTheorems

\* The instruction list of every block of a function.
Blocks(p) == [DOMAIN p.code -> Seq(Instr(Regs))]

LEMMA InRegs == /\ Vregs \subseteq Regs /\ Fixed \subseteq Regs
                /\ \A r \in Temps, g \in Rounds : <<r, g>> \in Regs
  BY DEF Regs, Vregs

\* A function has at least one block, numbered from 1.
LEMMA ProgramShape ==
  ASSUME NEW p \in Programs
  PROVE  /\ Len(p.code) \in Nat \ {0}
         /\ DOMAIN p.code = 1 .. Len(p.code)
         /\ \A b \in DOMAIN p.code : p.code[b] \in Seq(Instr(Temps \union Fixed))
         /\ p.hasCall \in BOOLEAN /\ p.locals \in Nat
<1>1. p.code \in Seq(Seq(Instr(Temps \union Fixed))) /\ p.code # << >>
  BY ProgramsOK
<1>2. Len(p.code) # 0
  BY <1>1, EmptySeq
<1>. QED  BY <1>1, <1>2, ProgramsOK, ElementOfSeq, LenProperties

\* Emission gives every template register an object of the current round.
LEMMA FreshType ==
  ASSUME NEW ins \in Instr(Temps \union Fixed), NEW g \in Rounds
  PROVE  Fresh(ins, g) \in Instr(Regs)
<1>1. \A r \in (Temps \union Fixed) \union {NoReg} : Object(r, g) \in Regs \union {NoReg}
  BY InRegs DEF Object
<1>2. /\ ins.dest \in (Temps \union Fixed) \union {NoReg}
      /\ ins.src1 \in (Temps \union Fixed) \union {NoReg}
      /\ ins.src2 \in (Temps \union Fixed) \union {NoReg}
  BY DEF Instr
<1>3. /\ Object(ins.dest, g) \in Regs \union {NoReg}
      /\ Object(ins.src1, g) \in Regs \union {NoReg}
      /\ Object(ins.src2, g) \in Regs \union {NoReg}
  BY <1>1, <1>2
<1>. QED  BY <1>3 DEF Fresh, Instr

LEMMA FreshCodeType ==
  ASSUME NEW p \in Programs, NEW g \in Rounds
  PROVE  FreshCode(p, g) \in Blocks(p)
<1>1. ASSUME NEW b \in DOMAIN p.code
      PROVE  [i \in DOMAIN p.code[b] |-> Fresh(p.code[b][i], g)] \in Seq(Instr(Regs))
  <2>1. p.code[b] \in Seq(Instr(Temps \union Fixed))
    BY ProgramShape
  <2>2. /\ Len(p.code[b]) \in Nat
        /\ DOMAIN p.code[b] = 1 .. Len(p.code[b])
        /\ \A i \in DOMAIN p.code[b] : p.code[b][i] \in Instr(Temps \union Fixed)
    BY <2>1, LenProperties, ElementOfSeq
  <2>3. \A i \in 1 .. Len(p.code[b]) : Fresh(p.code[b][i], g) \in Instr(Regs)
    BY <2>2, FreshType
  <2>. QED  BY <2>2, <2>3, SeqOfFunction
<1>. QED  BY <1>1 DEF FreshCode, Blocks

\* What the code of any function in Blocks(p) looks like.
LEMMA BlocksShape ==
  ASSUME NEW p \in Programs, NEW c \in Blocks(p)
  PROVE  /\ c \in Seq(Seq(Instr(Regs)))
         /\ DOMAIN c = 1 .. Len(c) /\ Len(c) = Len(p.code) /\ Len(c) \in Nat \ {0}
         /\ \A b \in DOMAIN c : /\ c[b] \in Seq(Instr(Regs))
                                /\ Len(c[b]) \in Nat
                                /\ DOMAIN c[b] = 1 .. Len(c[b])
                                /\ \A i \in DOMAIN c[b] : c[b][i] \in Instr(Regs)
<1>1. /\ DOMAIN c = 1 .. Len(p.code) /\ Len(p.code) \in Nat \ {0}
      /\ \A b \in DOMAIN c : c[b] \in Seq(Instr(Regs))
  BY ProgramShape DEF Blocks
<1>2. c \in Seq(Seq(Instr(Regs)))
  BY <1>1, SeqOfFunction, ProgramShape DEF Blocks
<1>3. Len(c) = Len(p.code)
  BY <1>1, SeqOfFunction, ProgramShape DEF Blocks
<1>. QED  BY <1>1, <1>2, <1>3, LenProperties, ElementOfSeq

-----------------------------------------------------------------------------
(***************************************************************************)
(* spill() keeps the instruction lists well formed.                        *)
(***************************************************************************)
LEMMA DefsFinite ==
  ASSUME TypeOK, NEW b \in DOMAIN code
  PROVE  /\ IsFiniteSet(Defs(b)) /\ IsFiniteSet(Uses(b))
         /\ Defs(b) \subseteq 1 .. Len(code[b]) /\ Uses(b) \subseteq 1 .. Len(code[b])
<1>1. Len(code[b]) \in Nat /\ DOMAIN code[b] = 1 .. Len(code[b])
  BY BlocksShape DEF TypeOK, Blocks
<1>2. IsFiniteSet(1 .. Len(code[b]))
  BY <1>1, FS_Interval
<1>3. Defs(b) \subseteq 1 .. Len(code[b]) /\ Uses(b) \subseteq 1 .. Len(code[b])
  BY <1>1 DEF Defs, Uses
<1>. QED  BY <1>2, <1>3, FS_Subset

\* _currentOffset stays an integer: finitely many definitions are passed.
LEMMA SpillOffsetType ==
  ASSUME TypeOK, NEW b \in DOMAIN code
  PROVE  SpillOffset(b) \in Int
<1>. DEFINE D == [b1 \in 1 .. b |-> {b1} \X Defs(b1)]
            T == {D[b1] : b1 \in 1 .. b}
<1>1. b \in Nat /\ 1 .. b \subseteq DOMAIN code
  BY BlocksShape DEF TypeOK, Blocks
<1>2. IsFiniteSet(1 .. b)
  BY <1>1, FS_Interval
<1>3. D \in Surjection(1 .. b, T)
  BY DEF Surjection
<1>4. IsFiniteSet(T)
  <2>. HIDE DEF D, T
  <2>. QED  BY <1>2, <1>3, FS_Surjection
<1>5. \A b1 \in 1 .. b : IsFiniteSet(D[b1])
  BY <1>1, DefsFinite, FS_Singleton, FS_Product
<1>6. IsFiniteSet(UNION T)
  BY <1>4, <1>5, FS_UNION
<1>7. UNION T = DefsUpTo(b)
  BY DEF DefsUpTo
<1>8. Cardinality(DefsUpTo(b)) \in Nat
  BY <1>6, <1>7, FS_CardinalityType
<1>. QED  BY <1>8 DEF SpillOffset, TypeOK

LEMMA SpillInstType ==
  ASSUME TypeOK, NEW b \in DOMAIN code
  PROVE  SpillStore(b) \in Instr(Regs) /\ SpillReload(b) \in Instr(Regs)
<1>1. SpillOffset(b) \in Int
  BY SpillOffsetType
<1>2. failed \in Regs \union {NoReg} /\ S0 \in Regs
  BY Apart DEF TypeOK, Regs, Fixed
<1>. QED  BY <1>1, <1>2 DEF SpillStore, SpillReload, Blank, Instr, Kinds

LEMMA SpillBlockType ==
  ASSUME TypeOK, NEW b \in DOMAIN code
  PROVE  SpillBlock(b) \in Seq(Instr(Regs))
<1>. DEFINE last == {i \in Defs(b) : \A j \in Defs(b) : j <= i}
            At(i) == i + Cardinality({k \in Uses(b) : k <= i})
                       + Cardinality({k \in last : k < i})
            len == Len(code[b]) + Cardinality(Uses(b)) + Cardinality(last)
            new(j) == IF \E i \in DOMAIN code[b] : At(i) = j
                      THEN code[b][CHOOSE i \in DOMAIN code[b] : At(i) = j]
                      ELSE IF \E i \in last : At(i) + 1 = j THEN SpillStore(b)
                      ELSE SpillReload(b)
            f == [j \in 1 .. len |-> new(j)]
<1>1. SpillBlock(b) = f
  BY DEF SpillBlock
<1>2. IsFiniteSet(last) /\ IsFiniteSet(Uses(b))
  BY DefsFinite, FS_Subset
<1>3. len \in Nat
  BY <1>2, FS_CardinalityType, BlocksShape DEF TypeOK, Blocks
<1>4. ASSUME NEW j \in 1 .. len  PROVE new(j) \in Instr(Regs)
  <2>. HIDE DEF At, last, len
  <2>1. \A i \in DOMAIN code[b] : code[b][i] \in Instr(Regs)
    BY BlocksShape DEF TypeOK, Blocks
  <2>2. CASE \E i \in DOMAIN code[b] : At(i) = j
    BY <2>1, <2>2
  <2>3. CASE ~ \E i \in DOMAIN code[b] : At(i) = j
    BY <2>3, SpillInstType
  <2>. QED  BY <2>2, <2>3
<1>5. f \in [1 .. len -> Instr(Regs)]
  <2>. HIDE DEF new, len
  <2>. QED  BY <1>4
<1>. QED
  <2>. HIDE DEF f, len
  <2>. QED  BY <1>1, <1>3, <1>5, SeqOfFunction

-----------------------------------------------------------------------------
(***************************************************************************)
(* Type correctness.                                                       *)
(***************************************************************************)
LEMMA StartBlockType ==
  ASSUME NEW p \in Programs, NEW c \in Blocks(p), NEW b \in DOMAIN c,
         NEW al \in [DOMAIN p.code -> SUBSET Regs], StartBlock(b, c, al)
  PROVE  /\ blk' \in DOMAIN c /\ pos' \in 0 .. Len(c[blk'])
         /\ alive' \subseteq Regs
         /\ \A r \in alive' : \E s \in DOMAIN c : r \in al[s]
<1>1. DOMAIN c = DOMAIN p.code
  BY DEF Blocks
<1>2. \A r \in LiveOut(c, b, al) : \E s \in DOMAIN c : r \in al[s]
  BY DEF LiveOut, Successors
<1>3. Len(c[b]) \in Nat
  BY BlocksShape
<1>. QED  BY <1>1, <1>2, <1>3 DEF StartBlock

LEMMA StartBuildType ==
  ASSUME NEW p \in Programs, NEW c \in Blocks(p), StartBuild(c)
  PROVE  /\ phase' = "scan" /\ update' \in BOOLEAN
         /\ alives' \in [DOMAIN p.code -> SUBSET Regs]
         /\ \A b \in DOMAIN c : alives'[b] = {}
         /\ blk' = 1 /\ blk' \in DOMAIN c /\ pos' = Len(c[1])
         /\ pos' \in 0 .. Len(c[blk'])
         /\ alive' = {}
<1>. DEFINE al == [b \in DOMAIN c |-> {}]
<1>1. al \in [DOMAIN p.code -> SUBSET Regs]
  BY DEF Blocks
<1>2. 1 \in DOMAIN c
  BY BlocksShape
<1>3. StartBlock(1, c, al)
  BY DEF StartBuild
<1>4. blk' = 1 /\ pos' = Len(c[1])
  BY <1>3 DEF StartBlock
<1>5. /\ blk' \in DOMAIN c /\ pos' \in 0 .. Len(c[blk'])
      /\ \A r \in alive' : \E s \in DOMAIN c : r \in al[s]
  <2>. HIDE DEF al
  <2>. QED  BY <1>1, <1>2, <1>3, StartBlockType
<1>. QED  BY <1>1, <1>4, <1>5 DEF StartBuild

\* The bound variables of the instruction that ScanInst is at.
LEMMA ScannedInstType ==
  ASSUME TypeOK, pos > 0
  PROVE  code[blk][pos] \in Instr(Regs)
BY BlocksShape DEF TypeOK, Blocks

LEMMA MeetType ==
  ASSUME NEW r, NEW S
  PROVE  /\ Meet(r, S) \subseteq Vregs \X Regs
         /\ \A e \in Meet(r, S) : e[1] # e[2] /\ e[1] \in {r} \union S
         /\ \A e \in Meet(r, S) : e[2] \in Vregs => <<e[2], e[1]>> \in Meet(r, S)
<1>1. ASSUME NEW e \in Meet(r, S)
      PROVE  /\ e \in Vregs \X Regs /\ e[1] # e[2]
             /\ e[1] \in {r} \union S
             /\ e[2] \in Vregs => <<e[2], e[1]>> \in Meet(r, S)
  BY InRegs DEF Meet
<1>2. Meet(r, S) \subseteq Vregs \X Regs
  BY <1>1
<1>. QED  BY <1>1, <1>2

LEMMA ColorsType ==
  ASSUME NEW r, NEW k \in DOMAIN Colors(r)
  PROVE  Colors(r)[k] \in Fixed /\ Colors(r)[k] \in IntNames \union FloatNames
BY DEF Colors, IntNames, FloatNames, Fixed

LEMMA FrameBaseType ==
  ASSUME NEW p \in Programs, NEW saved \in SUBSET CalleeSaved
  PROVE  FrameBase(p, saved) \in Int
<1>1. Cardinality(saved) \in Nat
  BY Names, FS_Subset, FS_CardinalityType
<1>. QED  BY <1>1, ProgramShape DEF FrameBase

LEMMA InitType == Init => TypeOK
<1>. SUFFICES ASSUME Init PROVE TypeOK
  OBVIOUS
<1>1. prog \in Programs /\ layout \in Layouts
  BY DEF Init
<1>2. \A b \in DOMAIN prog.code : << >> \in Seq(Instr(Regs))
  BY EmptySeq
<1>3. code \in Blocks(prog)
  BY <1>2 DEF Init, Blocks
<1>4. blk \in DOMAIN code /\ pos \in 0 .. Len(code[blk])
  <2>1. blk \in DOMAIN prog.code /\ DOMAIN code = DOMAIN prog.code
    BY <1>1, ProgramShape DEF Init
  <2>2. Len(code[blk]) = 0 /\ pos = 0
    BY <2>1, EmptySeq DEF Init
  <2>. QED  BY <2>1, <2>2
<1>5. alives \in [DOMAIN prog.code -> SUBSET Regs]
  BY DEF Init
<1>6. round \in Rounds
  BY Bounds DEF Init, Rounds
<1>7. spilled \in Seq(Vregs)
  BY EmptySeq DEF Init
<1>8. /\ alive = {} /\ intf = {} /\ need = {} /\ todo = {}
      /\ needPush = {} /\ pushed = {} /\ failed = NoReg /\ offset = 0
      /\ phase = "emit" /\ update = FALSE /\ name = [r \in Vregs |-> Uncolored]
  BY DEF Init
<1>9. name \in [Vregs -> Fixed \union {Uncolored}]
  BY <1>8
<1>10. /\ alive \subseteq Regs /\ intf \subseteq Vregs \X Regs /\ need \subseteq Vregs
       /\ todo \subseteq need /\ needPush \subseteq CalleeSaved /\ pushed \subseteq CalleeSaved
  BY <1>8
<1>11. phase \in {"emit", "scan", "color", "spill", "done"} /\ offset \in Int
  BY <1>8
<1>12. update \in BOOLEAN
  BY <1>8
<1>13. failed \in IF phase = "spill" THEN Vregs ELSE {NoReg}
  BY <1>8
<1>. QED  BY <1>1, <1>3, <1>4, <1>5, <1>6, <1>7, <1>9, <1>10, <1>11, <1>12, <1>13
         DEF TypeOK, Blocks

LEMMA NextType == TypeOK /\ [AllocNext]_vars => TypeOK'
<1>. SUFFICES ASSUME TypeOK, [AllocNext]_vars PROVE TypeOK'
  OBVIOUS
<1>0. code \in Blocks(prog) /\ prog \in Programs /\ round \in Rounds
  BY DEF TypeOK, Blocks
<1>1. CASE EmitRound
  <2>1. code' \in Blocks(prog) /\ StartBuild(code')
    BY <1>0, <1>1, FreshCodeType DEF EmitRound
  <2>2. offset' \in Int
    BY <1>0, <1>1, FrameBaseType DEF EmitRound, TypeOK
  <2>. QED  BY <1>0, <1>1, <2>1, <2>2, StartBuildType DEF EmitRound, TypeOK, Blocks
<1>2. CASE ScanInst
  <2>1. code[blk][pos] \in Instr(Regs)
    BY <1>2, ScannedInstType DEF ScanInst
  <2>2. intf' \subseteq Vregs \X Regs
    BY <1>2, MeetType DEF ScanInst, TypeOK
  <2>3. alive' \subseteq Regs /\ need' \subseteq Vregs /\ need \subseteq need'
    BY <1>2, <2>1, InRegs DEF ScanInst, TypeOK, Instr
  <2>4. pos' \in 0 .. Len(code[blk])
    BY <1>0, <1>2, BlocksShape DEF ScanInst, TypeOK
  <2>. QED  BY <1>2, <2>2, <2>3, <2>4 DEF ScanInst, TypeOK
<1>3. CASE EndBlock
  <2>. DEFINE al == [alives EXCEPT ![blk] = alive]
  <2>1. al \in [DOMAIN prog.code -> SUBSET Regs] /\ alives' = al
    BY <1>3 DEF EndBlock, TypeOK
  <2>2. Len(code) \in Nat \ {0} /\ DOMAIN code = 1 .. Len(code)
    BY <1>0, BlocksShape
  <2>3. CASE blk < Len(code) /\ StartBlock(blk + 1, code, al) /\ UNCHANGED <<phase, todo>>
    <3>1. blk + 1 \in DOMAIN code
      BY <2>2, <2>3 DEF TypeOK
    <3>. HIDE DEF al
    <3>2. blk' \in DOMAIN code /\ pos' \in 0 .. Len(code[blk']) /\ alive' \subseteq Regs
      BY <1>0, <2>1, <2>3, <3>1, StartBlockType
    <3>. QED  BY <1>3, <2>1, <2>3, <3>2 DEF EndBlock, TypeOK
  <2>4. CASE StartBlock(1, code, al) /\ UNCHANGED <<phase, todo>>
    <3>1. 1 \in DOMAIN code
      BY <2>2
    <3>. HIDE DEF al
    <3>2. blk' \in DOMAIN code /\ pos' \in 0 .. Len(code[blk']) /\ alive' \subseteq Regs
      BY <1>0, <2>1, <2>4, <3>1, StartBlockType
    <3>. QED  BY <1>3, <2>1, <2>4, <3>2 DEF EndBlock, TypeOK
  <2>5. CASE phase' = "color" /\ todo' = need /\ UNCHANGED <<blk, pos, alive, update>>
    BY <1>3, <2>1, <2>5 DEF EndBlock, TypeOK
  <2>. QED  BY <1>3, <2>3, <2>4, <2>5 DEF EndBlock
<1>4. ASSUME NEW r \in todo, ColorReg(r)  PROVE TypeOK'
  <2>1. PICK k \in Free(r) :
          /\ name' = [name EXCEPT ![r] = Colors(r)[k]]
          /\ needPush' = needPush \union ({Colors(r)[k]} \intersect CalleeSaved)
    BY <1>4 DEF ColorReg
  <2>2. Colors(r)[k] \in Fixed
    BY ColorsType DEF Free
  <2>. QED  BY <1>4, <2>1, <2>2 DEF ColorReg, TypeOK
<1>5. ASSUME NEW r \in todo, FailReg(r)  PROVE TypeOK'
  BY <1>5 DEF FailReg, TypeOK
<1>6. CASE Colored
  <2>1. round' \in Rounds
    BY <1>6, Bounds DEF Colored, TypeOK, Rounds
  <2>. QED  BY <1>6, <2>1 DEF Colored, TypeOK
<1>7. CASE Spill
  <2>1. code' \in Blocks(prog) /\ StartBuild(code')
    BY <1>7, SpillBlockType DEF Spill, TypeOK, Blocks
  <2>2. offset' \in Int
    <3>1. Len(code) \in DOMAIN code
      BY <1>0, BlocksShape
    <3>. QED  BY <1>7, <3>1, SpillOffsetType DEF Spill
  <2>3. spilled' \in Seq(Vregs)
    BY <1>7, AppendProperties DEF Spill, TypeOK
  <2>4. name' \in [Vregs -> Fixed \union {Uncolored}] /\ intf' \subseteq Vregs \X Regs
    BY <1>7 DEF Spill, TypeOK
  <2>. QED  BY <1>0, <1>7, <2>1, <2>2, <2>3, <2>4, StartBuildType DEF Spill, TypeOK, Blocks
<1>8. CASE UNCHANGED vars
  BY <1>8 DEF vars, TypeOK
<1>. QED  BY <1>1, <1>2, <1>3, <1>4, <1>5, <1>6, <1>7, <1>8 DEF AllocNext

\* The instruction lists, the interference graph and the register sets are
\* well formed at every step of every compilation.
THEOREM TypeCorrect == Spec => []TypeOK
BY InitType, NextType, PTL DEF Spec

-----------------------------------------------------------------------------
(***************************************************************************)
(* The colouring is proper and the push set complete.                      *)
(*                                                                         *)
(* coloring() compares a register with the present names of its            *)
(* neighbours, so the argument needs the graph to be symmetric; and the    *)
(* graph is symmetric after reset() because only registers in              *)
(* _needAllocRegs ever enter it (LiveNeeded, GraphOK).                     *)
(***************************************************************************)
Strong == LiveNeeded /\ GraphOK /\ Scanned /\ NoClash /\ PaintedPushed /\ AllPainted

LEMMA PaintedOutside ==
  ASSUME phase \notin {"color", "done", "emit"}
  PROVE  NoClash /\ PaintedPushed /\ AllPainted
BY DEF Painted, NoClash, PaintedPushed, AllPainted

LEMMA InitStrong == Init => Strong
<1>. SUFFICES ASSUME Init PROVE Strong
  OBVIOUS
<1>1. LiveNeeded
  BY DEF Init, LiveNeeded
<1>2. GraphOK /\ Painted = {}
  BY DEF Init, GraphOK, Painted
<1>3. Scanned /\ AllPainted
  BY DEF Init, Scanned, AllPainted
<1>. QED  BY <1>1, <1>2, <1>3 DEF Strong, NoClash, PaintedPushed

LEMMA EmitStrong == TypeOK /\ Strong /\ EmitRound => Strong'
<1>. SUFFICES ASSUME TypeOK, Strong, EmitRound PROVE Strong'
  OBVIOUS
<1>1. prog \in Programs /\ code' \in Blocks(prog) /\ StartBuild(code')
  BY FreshCodeType DEF EmitRound, TypeOK
<1>2. /\ phase' = "scan" /\ alive' = {} /\ blk' = 1 /\ pos' = Len(code'[1])
      /\ \A b \in DOMAIN code' : alives'[b] = {}
      /\ DOMAIN alives' = DOMAIN code'
  BY <1>1, StartBuildType DEF Blocks
<1>3. LiveNeeded'
  BY <1>2 DEF LiveNeeded
<1>4. GraphOK'
  BY DEF EmitRound, Strong, GraphOK
<1>5. Scanned'
  BY <1>1, <1>2, BlocksShape DEF Scanned
<1>6. NoClash' /\ PaintedPushed' /\ AllPainted'
  BY <1>2 DEF Painted, NoClash, PaintedPushed, AllPainted
<1>. QED  BY <1>3, <1>4, <1>5, <1>6 DEF Strong

LEMMA ScanStrong == TypeOK /\ Strong /\ ScanInst => Strong'
<1>. SUFFICES ASSUME TypeOK, Strong, ScanInst PROVE Strong'
  OBVIOUS
<1>. DEFINE ins == code[blk][pos]
            live0 == alive \ {ins.dest}
            live1 == live0 \union ({ins.src1} \ {NoReg})
            live2 == live1 \union ({ins.src2} \ {NoReg})
<1>1. ins \in Instr(Regs) /\ ins.used \subseteq Fixed
  BY ScannedInstType DEF ScanInst, Instr
<1>2. /\ need' = need \union ({ins.dest, ins.src1, ins.src2} \intersect Vregs)
      /\ alive' \subseteq live2 \union ins.used
      /\ phase' = "scan" /\ phase = "scan" /\ pos' = pos - 1
      /\ UNCHANGED <<code, alives, blk>>
  BY DEF ScanInst
<1>3. intf' = intf \union Meet(ins.src1, live0) \union Meet(ins.src2, live1)
                \union (IF ins.kind = "call"
                        THEN UNION {Meet(s, live2) : s \in CallerSaved} ELSE {})
  BY DEF ScanInst
<1>4. live2 \intersect Vregs \subseteq need'
  BY <1>2 DEF Strong, LiveNeeded
<1>5. LiveNeeded'
  BY <1>1, <1>2, <1>4, Apart DEF Strong, LiveNeeded
<1>6. ASSUME NEW r, NEW S, {r} \union S \subseteq live2 \union CallerSaved \union {NoReg},
             NEW e \in Meet(r, S)
      PROVE  /\ e[1] # e[2] /\ e[1] \in need'
             /\ e[2] \in Vregs => <<e[2], e[1]>> \in Meet(r, S)
  <2>1. e[1] \in Vregs /\ e[1] \in {r} \union S /\ e[1] # e[2]
    BY <1>6, MeetType
  <2>2. e[1] \notin Fixed /\ e[1] # NoReg
    BY <2>1, Apart, InRegs
  <2>3. e[1] \in live2
    BY <1>6, <2>1, <2>2, Names
  <2>. QED  BY <1>4, <1>6, <2>1, <2>3, MeetType
<1>7. GraphOK'
  <2>. SUFFICES ASSUME NEW e \in intf'
                PROVE  /\ e[1] # e[2] /\ e[1] \in need'
                       /\ e[2] \in Vregs => <<e[2], e[1]>> \in intf'
    BY DEF GraphOK
  <2>. HIDE DEF live0, live1, live2, ins
  <2>1. CASE e \in intf
    BY <1>2, <1>3, <2>1 DEF Strong, GraphOK
  <2>2. CASE e \in Meet(ins.src1, live0)
    <3>1. {ins.src1} \union live0 \subseteq live2 \union CallerSaved \union {NoReg}
      BY DEF live0, live1, live2
    <3>. QED  BY <1>3, <1>6, <2>2, <3>1
  <2>3. CASE e \in Meet(ins.src2, live1)
    <3>1. {ins.src2} \union live1 \subseteq live2 \union CallerSaved \union {NoReg}
      BY DEF live1, live2
    <3>. QED  BY <1>3, <1>6, <2>3, <3>1
  <2>4. ASSUME ins.kind = "call", NEW s \in CallerSaved, e \in Meet(s, live2)
        PROVE  /\ e[1] # e[2] /\ e[1] \in need'
               /\ e[2] \in Vregs => <<e[2], e[1]>> \in intf'
    BY <1>3, <1>6, <2>4
  <2>. QED  BY <1>3, <2>1, <2>2, <2>3, <2>4
<1>8. Scanned'
  <2>1. VregsAt(blk, pos) \subseteq need' /\ need \subseteq need'
    BY <1>2 DEF VregsAt
  <2>2. ASSUME NEW b \in DOMAIN code, NEW i \in DOMAIN code[b],
               b < blk \/ (b = blk /\ i > pos')
        PROVE  VregsAt(b, i) \subseteq need'
    <3>1. i \in Int /\ pos \in Int
      BY BlocksShape DEF TypeOK, Blocks
    <3>2. CASE b < blk \/ (b = blk /\ i > pos)
      BY <1>2, <2>1, <3>2 DEF Strong, Scanned
    <3>3. CASE b = blk /\ i = pos
      BY <2>1, <3>3
    <3>. QED  BY <1>2, <2>2, <3>1, <3>2, <3>3
  <2>3. \A b \in DOMAIN code : \A i \in DOMAIN code[b] : VregsAt(b, i)' = VregsAt(b, i)
    BY <1>2 DEF VregsAt
  <2>. QED  BY <1>2, <2>2, <2>3 DEF Scanned
<1>9. NoClash' /\ PaintedPushed' /\ AllPainted'
  BY <1>2 DEF Painted, NoClash, PaintedPushed, AllPainted
<1>. QED  BY <1>5, <1>7, <1>8, <1>9 DEF Strong

LEMMA EndBlockStrong == TypeOK /\ Strong /\ EndBlock => Strong'
<1>. SUFFICES ASSUME TypeOK, Strong, EndBlock PROVE Strong'
  OBVIOUS
<1>. DEFINE al == [alives EXCEPT ![blk] = alive]
<1>1. /\ prog \in Programs /\ code \in Blocks(prog) /\ DOMAIN alives = DOMAIN code
      /\ alives' = al /\ al \in [DOMAIN prog.code -> SUBSET Regs]
      /\ phase = "scan" /\ pos = 0 /\ UNCHANGED <<code, need, intf>>
  BY DEF EndBlock, TypeOK, Blocks
<1>2. Len(code) \in Nat /\ DOMAIN code = 1 .. Len(code) /\ blk \in 1 .. Len(code)
  BY <1>1, BlocksShape DEF TypeOK
<1>3. \A b \in DOMAIN code : al[b] \intersect Vregs \subseteq need
  BY <1>1 DEF Strong, LiveNeeded, TypeOK
<1>4. \A b \in DOMAIN code : \A i \in DOMAIN code[b] :
        b < blk + 1 => VregsAt(b, i) \subseteq need
  <2>. SUFFICES ASSUME NEW b \in DOMAIN code, NEW i \in DOMAIN code[b], b < blk + 1
                PROVE  VregsAt(b, i) \subseteq need
    OBVIOUS
  <2>1. i > pos
    BY <1>1, BlocksShape
  <2>2. b < blk \/ b = blk
    BY <1>2
  <2>. QED  BY <1>1, <2>1, <2>2 DEF Strong, Scanned
<1>5. \A b \in DOMAIN code : \A i \in DOMAIN code[b] : VregsAt(b, i)' = VregsAt(b, i)
  BY <1>1 DEF VregsAt
<1>6. GraphOK'
  BY <1>1 DEF Strong, GraphOK
<1>7. ASSUME NEW b \in DOMAIN code, StartBlock(b, code, al), phase' = "scan",
             b = 1 \/ b = blk + 1
      PROVE  Strong'
  <2>1. /\ blk' = b /\ pos' = Len(code[b])
        /\ \A r \in alive' : \E s \in DOMAIN code : r \in al[s]
    <3>. HIDE DEF al
    <3>. QED  BY <1>1, <1>7, StartBlockType DEF StartBlock
  <2>2. LiveNeeded'
    BY <1>1, <1>3, <2>1 DEF LiveNeeded
  <2>3. Scanned'
    <3>. SUFFICES ASSUME NEW c \in DOMAIN code, NEW i \in DOMAIN code[c],
                         c < b \/ (c = b /\ i > Len(code[b]))
                  PROVE  VregsAt(c, i) \subseteq need
      BY <1>1, <1>5, <1>7, <2>1 DEF Scanned
    <3>1. ~ (c = b /\ i > Len(code[b]))
      BY <1>1, BlocksShape
    <3>2. c < blk + 1
      BY <1>2, <1>7, <3>1
    <3>. QED  BY <1>4, <3>2
  <2>4. NoClash' /\ PaintedPushed' /\ AllPainted'
    BY <1>7 DEF Painted, NoClash, PaintedPushed, AllPainted
  <2>. QED  BY <1>6, <2>2, <2>3, <2>4 DEF Strong
<1>8. CASE blk < Len(code) /\ StartBlock(blk + 1, code, al) /\ UNCHANGED <<phase, todo>>
  BY <1>1, <1>2, <1>7, <1>8
<1>9. CASE StartBlock(1, code, al) /\ UNCHANGED <<phase, todo>>
  BY <1>1, <1>2, <1>7, <1>9
<1>10. CASE /\ blk = Len(code) /\ phase' = "color" /\ todo' = need
            /\ UNCHANGED <<blk, pos, alive, update>>
  <2>1. LiveNeeded'
    BY <1>1, <1>3, <1>10 DEF Strong, LiveNeeded
  <2>2. Scanned'
    BY <1>1, <1>2, <1>4, <1>5, <1>10 DEF Scanned
  <2>3. Painted' = {} /\ AllPainted'
    BY <1>1, <1>10 DEF Painted, AllPainted
  <2>. QED  BY <1>6, <2>1, <2>2, <2>3 DEF Strong, NoClash, PaintedPushed
<1>. QED  BY <1>8, <1>9, <1>10 DEF EndBlock

LEMMA ColorStrong ==
  ASSUME TypeOK, Strong, NEW r \in todo, ColorReg(r)
  PROVE  Strong'
<1>1. PICK k \in Free(r) :
        /\ name' = [name EXCEPT ![r] = Colors(r)[k]]
        /\ needPush' = needPush \union ({Colors(r)[k]} \intersect CalleeSaved)
  BY DEF ColorReg
<1>. DEFINE p == Colors(r)[k]
<1>2. /\ phase = "color" /\ todo' = todo \ {r}
      /\ UNCHANGED <<phase, code, alives, alive, blk, pos, intf, need, pushed>>
  BY DEF ColorReg
<1>3. r \in Vregs /\ r \in need /\ r \notin Fixed
  BY Apart DEF TypeOK
<1>4. /\ Painted = need \ todo /\ Painted' = Painted \union {r}
      /\ Painted \subseteq Vregs
  BY <1>2, <1>3 DEF Painted, TypeOK
<1>5. \A x \in Regs : <<r, x>> \in intf => NameOf(x) # p
  BY <1>1 DEF Free
<1>6. /\ name'[r] = p
      /\ \A x : x # r => (x \in Vregs => name'[x] = name[x])
  BY <1>1, <1>3 DEF TypeOK
<1>7. NoClash'
  <2>. SUFFICES ASSUME NEW q \in Painted \union {r}, NEW x \in Regs, <<q, x>> \in intf,
                       x \in Painted \union {r} \union Fixed
                PROVE  name'[q] # NameOf(x)'
    BY <1>2, <1>4 DEF NoClash
  <2>1. q # x /\ q \in Vregs /\ (x \in Vregs => <<x, q>> \in intf) /\ q \in Regs
    BY <1>3, <1>4, InRegs DEF Strong, GraphOK
  <2>2. CASE q = r
    BY <1>5, <1>6, <2>1, <2>2 DEF NameOf
  <2>3. CASE q # r /\ x = r
    <3>1. NameOf(q) # p
      BY <1>3, <1>5, <2>1, <2>3
    <3>. QED  BY <1>3, <1>6, <2>1, <2>3, <3>1 DEF NameOf
  <2>4. CASE q # r /\ x # r
    <3>1. name[q] # NameOf(x)
      BY <2>4 DEF Strong, NoClash
    <3>. QED  BY <1>6, <2>1, <2>4, <3>1 DEF NameOf
  <2>. QED  BY <2>2, <2>3, <2>4
<1>8. PaintedPushed'
  BY <1>1, <1>4, <1>6 DEF Strong, PaintedPushed
<1>9. LiveNeeded' /\ GraphOK'
  BY <1>2 DEF Strong, LiveNeeded, GraphOK
<1>10. Scanned' /\ AllPainted'
  BY <1>2 DEF Strong, Scanned, AllPainted, VregsAt
<1>. QED  BY <1>7, <1>8, <1>9, <1>10 DEF Strong

LEMMA FailStrong ==
  ASSUME TypeOK, Strong, NEW r \in todo, FailReg(r)
  PROVE  Strong'
<1>1. phase' = "spill" /\ UNCHANGED <<code, alives, alive, intf, need>>
  BY DEF FailReg
<1>2. LiveNeeded' /\ GraphOK'
  BY <1>1 DEF Strong, LiveNeeded, GraphOK
<1>3. Scanned' /\ NoClash' /\ PaintedPushed' /\ AllPainted'
  BY <1>1 DEF Scanned, Painted, NoClash, PaintedPushed, AllPainted
<1>. QED  BY <1>2, <1>3 DEF Strong

LEMMA ColoredStrong == TypeOK /\ Strong /\ Colored => Strong'
<1>. SUFFICES ASSUME TypeOK, Strong, Colored PROVE Strong'
  OBVIOUS
<1>1. /\ phase = "color" /\ todo = {} /\ phase' \in {"emit", "done"}
      /\ phase' = "done" => needPush = pushed
      /\ UNCHANGED <<code, alives, alive, intf, name, need, todo, needPush, pushed>>
  BY DEF Colored
<1>2. Painted' = Painted
  BY <1>1 DEF Painted
<1>3. LiveNeeded' /\ GraphOK' /\ AllPainted'
  BY <1>1 DEF Strong, LiveNeeded, GraphOK, AllPainted
<1>4. Scanned'
  BY <1>1 DEF Strong, Scanned, VregsAt
<1>5. NoClash' /\ PaintedPushed'
  BY <1>1, <1>2 DEF Strong, NoClash, PaintedPushed, NameOf
<1>. QED  BY <1>3, <1>4, <1>5 DEF Strong

LEMMA SpillStrong == TypeOK /\ Strong /\ Spill => Strong'
<1>. SUFFICES ASSUME TypeOK, Strong, Spill PROVE Strong'
  OBVIOUS
<1>1. prog \in Programs /\ code' \in Blocks(prog) /\ StartBuild(code')
  BY SpillBlockType DEF Spill, TypeOK, Blocks
<1>2. /\ phase' = "scan" /\ alive' = {} /\ blk' = 1 /\ pos' = Len(code'[1])
      /\ \A b \in DOMAIN code' : alives'[b] = {}
      /\ DOMAIN alives' = DOMAIN code'
  BY <1>1, StartBuildType DEF Blocks
<1>3. LiveNeeded'
  BY <1>2 DEF LiveNeeded
<1>4. intf' = {}
  BY DEF Spill, Strong, GraphOK
<1>5. Scanned'
  BY <1>1, <1>2, BlocksShape DEF Scanned
<1>6. NoClash' /\ PaintedPushed' /\ AllPainted'
  BY <1>2 DEF Painted, NoClash, PaintedPushed, AllPainted
<1>. QED  BY <1>3, <1>4, <1>5, <1>6 DEF Strong, GraphOK

\* AllocInv is inductive.
LEMMA NextStrong == TypeOK /\ Strong /\ [AllocNext]_vars => Strong'
<1>. SUFFICES ASSUME TypeOK, Strong, [AllocNext]_vars PROVE Strong'
  OBVIOUS
<1>1. CASE UNCHANGED vars
  BY <1>1 DEF vars, Strong, LiveNeeded, GraphOK, Scanned, VregsAt, NoClash, NameOf,
              PaintedPushed, Painted, AllPainted
<1>. QED  BY <1>1, EmitStrong, ScanStrong, EndBlockStrong, ColorStrong, FailStrong,
             ColoredStrong, SpillStrong DEF AllocNext

THEOREM Inductive == Spec => []AllocInv
<1>1. TypeOK /\ Strong => AllocInv
  BY DEF Strong, AllocInv
<1>. QED  BY <1>1, InitStrong, NextStrong, TypeCorrect, PTL DEF Spec

\* Whatever the function, the register files and the order in which std::set
\* visits the registers, no register is coloured like one it interferes with.
THEOREM ColoringIsProper == Spec => []NoClash
<1>1. AllocInv => NoClash
  BY DEF AllocInv
<1>. QED  BY <1>1, Inductive, PTL

\* emitFunction leaves no callee-saved register that the code names out of
\* the set its prologue saves and its epilogue restores.
THEOREM PushSetIsComplete == Spec => []CalleeSavedPushed
<1>1. AllocInv => CalleeSavedPushed
  BY DEF AllocInv, Scanned, PaintedPushed, AllPainted, Painted, CalleeSavedPushed
<1>. QED  BY <1>1, Inductive, PTL
-----------------------------------------------------------------------------
(* What spill() makes of a block *)

\* Counting the members of a set of places from the left.
LEMMA CountUpTo ==
  ASSUME NEW n \in Nat, NEW S \in SUBSET (1 .. n)
  PROVE  /\ \A i \in 0 .. n : Cardinality({k \in S : k <= i}) \in Nat
         /\ Cardinality({k \in S : k <= 0}) = 0 /\ Cardinality({k \in S : k <= n}) = Cardinality(S)
         /\ \A i \in 1 .. n : Cardinality({k \in S : k <= i})
                                = Cardinality({k \in S : k <= i - 1}) + (IF i \in S THEN 1 ELSE 0)
<1>0. IsFiniteSet(1 .. n)
  BY FS_Interval
<1>a. \A k \in S : k \in Nat /\ k >= 1 /\ k <= n
  OBVIOUS
<1>1. ASSUME NEW i \in 0 .. n PROVE IsFiniteSet({k \in S : k <= i})
  <2>1. {k \in S : k <= i} \subseteq 1 .. n
    OBVIOUS
  <2>. QED  BY <1>0, <2>1, FS_Subset
<1>2. \A i \in 0 .. n : Cardinality({k \in S : k <= i}) \in Nat
  BY <1>1, FS_CardinalityType
<1>3. Cardinality({k \in S : k <= 0}) = 0
  <2>1. {k \in S : k <= 0} = {}
    <3>1. \A k \in S : ~(k <= 0)
      BY <1>a
    <3>. QED  BY <3>1
  <2>. QED  BY <2>1, FS_EmptySet
<1>4. {k \in S : k <= n} = S
  BY <1>a
<1>5. ASSUME NEW i \in 1 .. n
      PROVE  Cardinality({k \in S : k <= i})
               = Cardinality({k \in S : k <= i - 1}) + (IF i \in S THEN 1 ELSE 0)
  <2>. PICK T : T = {k \in S : k <= i - 1}
    OBVIOUS
  <2>1. i - 1 \in 0 .. n /\ i \notin T
    OBVIOUS
  <2>2. IsFiniteSet(T) /\ Cardinality(T) \in Nat
    BY <1>1, <1>2, <2>1
  <2>a. \A k \in S : k <= i <=> k <= i - 1 \/ k = i
    BY <1>a
  <2>3. CASE i \in S
    <3>1. {k \in S : k <= i} = T \union {i}
      BY <2>3, <2>a
    <3>2. Cardinality(T \union {i}) = Cardinality(T) + 1
      BY <2>1, <2>2, FS_AddElement
    <3>. QED  BY <2>3, <3>1, <3>2
  <2>4. CASE i \notin S
    <3>1. {k \in S : k <= i} = T
      BY <2>4, <2>a
    <3>2. Cardinality({k \in S : k <= i}) = Cardinality(T)
      BY <3>1
    <3>. QED  BY <2>2, <2>4, <3>2
  <2>. QED  BY <2>3, <2>4
<1>. QED  BY <1>2, <1>3, <1>4, <1>5

\* n places, with room for one more before those of U, and behind those of L.
Spread(at, n, len, U, L) ==
  /\ at \in [0 .. n -> Nat] /\ at[0] = 0
  /\ \A i \in 1 .. n : at[i] = at[i - 1] + 1 + (IF i \in U THEN 1 ELSE 0) + (IF i - 1 \in L THEN 1 ELSE 0)
  /\ len = at[n] + (IF n \in L THEN 1 ELSE 0)

LEMMA SpreadOrder ==
  ASSUME NEW n \in Nat, NEW at, NEW len, NEW U, NEW L, Spread(at, n, len, U, L)
  PROVE  \A i, j \in 0 .. n : i < j => at[i] < at[j]
<1>. DEFINE T == {j \in 0 .. n : \A i \in 0 .. j - 1 : at[i] < at[j]}
<1>1. 0 \in T
  OBVIOUS
<1>2. ASSUME NEW j \in 1 .. n, j - 1 \in T PROVE j \in T
  <2>1. at[j - 1] \in Nat /\ at[j] \in Nat /\ at[j - 1] < at[j]
    <3>1. j - 1 \in 0 .. n /\ j \in 0 .. n
      OBVIOUS
    <3>2. at[j - 1] \in Nat /\ at[j] \in Nat
      BY <3>1 DEF Spread
    <3>3. at[j] = at[j - 1] + 1 + (IF j \in U THEN 1 ELSE 0) + (IF j - 1 \in L THEN 1 ELSE 0)
      BY DEF Spread
    <3>. QED  BY <3>2, <3>3
  <2>2. ASSUME NEW i \in 0 .. j - 1 PROVE at[i] < at[j]
    <3>1. i \in 0 .. n /\ (i = j - 1 \/ i \in 0 .. (j - 1) - 1)
      OBVIOUS
    <3>2. at[i] \in Nat
      BY <3>1 DEF Spread
    <3>. QED  BY <1>2, <2>1, <3>1, <3>2
  <2>. QED  BY <2>2
<1>3. \A j \in 0 .. n : j \in T
  <2>. HIDE DEF T
  <2>. QED  BY <1>1, <1>2, UpTo
<1>. QED  BY <1>3

\* Each of those places is within len, no two are the same but the ones behind
\* those of L, and there are no others.
Parted(at, n, len, U, L) ==
  /\ len \in Nat
  /\ \A i \in 1 .. n : at[i] \in 1 .. len
  /\ \A i \in U : /\ at[i] - 1 \in 1 .. len
                  /\ \A j \in 1 .. n : at[j] # at[i] - 1
                  /\ \A j \in L : at[j] + 1 # at[i] - 1
  /\ \A i \in L : /\ at[i] + 1 \in 1 .. len
                  /\ \A j \in 1 .. n : at[j] # at[i] + 1
  /\ \A k \in 1 .. len : \/ \E i \in 1 .. n : at[i] = k
                         \/ \E i \in U : at[i] - 1 = k
                         \/ \E i \in L : at[i] + 1 = k

LEMMA SpreadShape ==
  ASSUME NEW n \in Nat, NEW at, NEW len, NEW U \in SUBSET (1 .. n), NEW L \in SUBSET (1 .. n), Spread(at, n, len, U, L)
  PROVE  Parted(at, n, len, U, L)
<1>1. \A i, j \in 0 .. n : i < j => at[i] < at[j]
  BY SpreadOrder
<1>2. /\ \A i \in 0 .. n : at[i] \in Nat
      /\ at[0] = 0
      /\ \A i \in 1 .. n : at[i] = at[i - 1] + 1 + (IF i \in U THEN 1 ELSE 0) + (IF i - 1 \in L THEN 1 ELSE 0)
      /\ len = at[n] + (IF n \in L THEN 1 ELSE 0)
  BY DEF Spread
<1>3. len \in Nat /\ at[n] <= len /\ at[n] \in Nat
  BY <1>2
<1>4. ASSUME NEW i \in 0 .. n, NEW j \in 0 .. n, i <= j PROVE at[i] <= at[j]
  <2>1. i = j \/ i < j
    BY <1>4
  <2>2. at[i] \in Nat /\ at[j] \in Nat
    BY <1>2
  <2>. QED  BY <1>1, <2>1, <2>2
<1>5. ASSUME NEW i \in 1 .. n PROVE at[i] \in 1 .. len
  <2>1. 0 \in 0 .. n /\ i \in 0 .. n /\ n \in 0 .. n /\ 0 < i /\ i <= n
    OBVIOUS
  <2>2. at[0] < at[i] /\ at[i] <= at[n] /\ at[i] \in Nat
    BY <1>1, <1>2, <1>4, <2>1
  <2>. QED  BY <1>2, <1>3, <2>2
\* A place with room before it.
<1>6. ASSUME NEW i \in U
      PROVE  /\ at[i] - 1 \in 1 .. len
             /\ \A j \in 1 .. n : at[j] # at[i] - 1
             /\ \A j \in L : at[j] + 1 # at[i] - 1
  <2>1. i \in 1 .. n /\ i \in 0 .. n /\ i - 1 \in 0 .. n
    OBVIOUS
  <2>2. at[i - 1] \in Nat /\ at[i] = at[i - 1] + 2 + (IF i - 1 \in L THEN 1 ELSE 0) /\ at[i] \in 1 .. len
    BY <1>2, <1>5, <2>1
  <2>3. at[i] - 1 \in 1 .. len
    BY <1>3, <2>2
  <2>4. ASSUME NEW j \in 1 .. n PROVE at[j] # at[i] - 1
    <3>1. CASE j <= i - 1
      <4>1. at[j] <= at[i - 1] /\ at[j] \in Nat
        BY <1>2, <1>4, <2>1, <3>1
      <4>. QED  BY <2>2, <4>1
    <3>2. CASE i <= j
      <4>1. at[i] <= at[j] /\ at[j] \in Nat
        BY <1>2, <1>4, <2>1, <3>2
      <4>. QED  BY <2>2, <4>1
    <3>. QED  BY <2>1, <3>1, <3>2
  <2>5. ASSUME NEW j \in L PROVE at[j] + 1 # at[i] - 1
    <3>0. j \in 1 .. n /\ j \in 0 .. n
      OBVIOUS
    <3>1. CASE j = i - 1
      BY <2>2, <3>1
    <3>2. CASE i <= j
      <4>1. at[i] <= at[j] /\ at[j] \in Nat
        BY <1>2, <1>4, <2>1, <3>0, <3>2
      <4>. QED  BY <2>2, <4>1
    <3>3. CASE j < i - 1
      <4>1. at[j] < at[i - 1] /\ at[j] \in Nat
        BY <1>1, <1>2, <2>1, <3>0, <3>3
      <4>. QED  BY <2>2, <4>1
    <3>. QED  BY <2>1, <3>0, <3>1, <3>2, <3>3
  <2>. QED  BY <2>3, <2>4, <2>5
\* A place with room behind it.
<1>7. ASSUME NEW i \in L
      PROVE  /\ at[i] + 1 \in 1 .. len
             /\ \A j \in 1 .. n : at[j] # at[i] + 1
  <2>1. i \in 1 .. n /\ i \in 0 .. n /\ at[i] \in Nat /\ at[i] \in 1 .. len
    BY <1>2, <1>5
  <2>2. i < n => at[i + 1] \in Nat /\ at[i + 1] >= at[i] + 2 /\ i + 1 \in 0 .. n /\ at[i + 1] <= len
    <3>1. SUFFICES ASSUME i < n PROVE at[i + 1] \in Nat /\ at[i + 1] >= at[i] + 2 /\ i + 1 \in 0 .. n /\ at[i + 1] <= len
      OBVIOUS
    <3>2. i + 1 \in 1 .. n /\ (i + 1) - 1 = i /\ i + 1 \in 0 .. n
      BY <3>1
    <3>3. at[i + 1] = at[i] + 2 + (IF i + 1 \in U THEN 1 ELSE 0)
      BY <1>2, <2>1, <3>2
    <3>. QED  BY <1>5, <2>1, <3>2, <3>3
  <2>3. at[i] + 1 \in 1 .. len
    <3>1. i = n => len = at[i] + 1
      BY <1>2
    <3>2. i = n \/ i < n
      OBVIOUS
    <3>. QED  BY <1>3, <2>1, <2>2, <3>1, <3>2
  <2>4. ASSUME NEW j \in 1 .. n PROVE at[j] # at[i] + 1
    <3>0. j \in 0 .. n /\ at[j] \in Nat
      BY <1>2
    <3>1. CASE j <= i
      <4>1. at[j] <= at[i]
        BY <1>4, <2>1, <3>0, <3>1
      <4>. QED  BY <2>1, <3>0, <4>1
    <3>2. CASE i < j
      <4>1. i < n /\ i + 1 <= j
        BY <3>2
      <4>2. at[i + 1] <= at[j]
        BY <1>4, <2>2, <3>0, <4>1
      <4>. QED  BY <2>1, <2>2, <3>0, <4>1, <4>2
    <3>. QED  BY <2>1, <3>1, <3>2
  <2>. QED  BY <2>3, <2>4
\* Nothing else is there.
<1>8. ASSUME NEW k \in 1 .. len
      PROVE  \/ \E i \in 1 .. n : at[i] = k
             \/ \E i \in U : at[i] - 1 = k
             \/ \E i \in L : at[i] + 1 = k
  <2>. DEFINE T == {i \in 0 .. n : at[i] >= k}
  <2>1. CASE T = {}
    <3>1. n \in 0 .. n /\ ~(at[n] >= k)
      BY <2>1
    <3>2. n \in L /\ at[n] + 1 = k
      BY <1>2, <1>3, <3>1
    <3>. QED  BY <3>2
  <2>2. CASE T # {}
    <3>1. PICK i \in T : \A j \in T : i <= j
      <4>1. T \subseteq Nat
        OBVIOUS
      <4>. HIDE DEF T
      <4>. QED  BY <2>2, <4>1, LeastNat
    <3>2. i \in 0 .. n /\ at[i] >= k /\ at[i] \in Nat /\ i # 0
      BY <1>2
    <3>3. i \in 1 .. n /\ i - 1 \in 0 .. n /\ ~(i <= i - 1)
      BY <3>2
    <3>4. at[i - 1] < k /\ at[i - 1] \in Nat
      <4>1. i - 1 \notin T
        BY <3>1, <3>3
      <4>. QED  BY <1>2, <3>3, <4>1
    <3>5. at[i] = at[i - 1] + 1 + (IF i \in U THEN 1 ELSE 0) + (IF i - 1 \in L THEN 1 ELSE 0)
      BY <1>2, <3>3
    <3>6. at[i] = k \/ (i \in U /\ at[i] - 1 = k) \/ (i - 1 \in L /\ at[i - 1] + 1 = k)
      BY <3>2, <3>4, <3>5
    <3>. QED  BY <3>3, <3>6
  <2>. QED  BY <2>1, <2>2
<1>. QED  BY <1>3, <1>5, <1>6, <1>7, <1>8 DEF Parted

\* The last definition of the register that is spilled.
Lasts(b) == {i \in Defs(b) : \A j \in Defs(b) : j <= i}

\* at places the instructions of block b in what spill() makes of it.
Placed(at, b) ==
  /\ Spread(at, Len(code[b]), Len(SpillBlock(b)), Uses(b), Lasts(b))
  /\ \A i \in 1 .. Len(code[b]) : SpillBlock(b)[at[i]] = code[b][i]
  /\ \A i \in Uses(b) : SpillBlock(b)[at[i] - 1] = SpillReload(b)
  /\ \A i \in Lasts(b) : SpillBlock(b)[at[i] + 1] = SpillStore(b)

LEMMA SpillPlaces ==
  ASSUME TypeOK, NEW b \in DOMAIN code
  PROVE  \E at : Placed(at, b)
<1>. PICK s, n, U, L : s = code[b] /\ n = Len(s) /\ U = Uses(b) /\ L = Lasts(b)
  OBVIOUS
<1>1. /\ n \in Nat /\ DOMAIN s = 1 .. n /\ U \in SUBSET (1 .. n) /\ L \in SUBSET (1 .. n)
  <2>1. n \in Nat /\ DOMAIN s = 1 .. n
    BY BlocksShape DEF TypeOK, Blocks
  <2>. QED  BY <2>1, DefsFinite DEF Lasts
<1>. DEFINE cu(i) == Cardinality({k \in U : k <= i})
            cl(i) == Cardinality({k \in L : k < i})
            At(i) == i + cu(i) + cl(i)
            len == n + Cardinality(U) + Cardinality(L)
            new(j) == IF \E i \in 1 .. n : At(i) = j
                      THEN s[CHOOSE i \in 1 .. n : At(i) = j]
                      ELSE IF \E i \in L : At(i) + 1 = j THEN SpillStore(b)
                      ELSE SpillReload(b)
<1>2. SpillBlock(b) = [j \in 1 .. len |-> new(j)]
  BY <1>1 DEF SpillBlock, Lasts
<1>a. ASSUME NEW S \in SUBSET (1 .. n)
      PROVE  /\ \A i \in 0 .. n : Cardinality({k \in S : k <= i}) \in Nat
             /\ Cardinality({k \in S : k <= 0}) = 0 /\ Cardinality({k \in S : k <= n}) = Cardinality(S)
             /\ \A i \in 1 .. n : Cardinality({k \in S : k <= i})
                                    = Cardinality({k \in S : k <= i - 1}) + (IF i \in S THEN 1 ELSE 0)
  <2>1. n \in Nat
    BY <1>1
  <2>. QED  BY <2>1, CountUpTo
<1>3. /\ \A i \in 0 .. n : cu(i) \in Nat
      /\ cu(0) = 0 /\ cu(n) = Cardinality(U)
      /\ \A i \in 1 .. n : cu(i) = cu(i - 1) + (IF i \in U THEN 1 ELSE 0)
  <2>. HIDE DEF At, len, new, cl
  <2>. QED  BY <1>1, <1>a
<1>4. /\ \A i \in 0 .. n : cl(i) \in Nat
      /\ cl(0) = 0 /\ Cardinality(L) = cl(n) + (IF n \in L THEN 1 ELSE 0)
      /\ \A i \in 1 .. n : cl(i) = cl(i - 1) + (IF i - 1 \in L THEN 1 ELSE 0)
  <2>. DEFINE ce(i) == Cardinality({k \in L : k <= i})
  <2>1. /\ \A i \in 0 .. n : ce(i) \in Nat
        /\ ce(0) = 0 /\ ce(n) = Cardinality(L)
        /\ \A i \in 1 .. n : ce(i) = ce(i - 1) + (IF i \in L THEN 1 ELSE 0)
    <3>. HIDE DEF At, len, new, cl, cu
    <3>. QED  BY <1>1, <1>a
  <2>0. \A k \in L : k \in Nat /\ k >= 1
    BY <1>1
  <2>2. ASSUME NEW i \in 1 .. n PROVE cl(i) = ce(i - 1)
    <3>1. \A k \in L : k < i <=> k <= i - 1
      BY <2>0
    <3>2. {k \in L : k < i} = {k \in L : k <= i - 1}
      BY <3>1
    <3>. QED  BY <3>2
  <2>3. cl(0) = 0
    <3>1. \A k \in L : ~(k < 0)
      BY <2>0
    <3>2. {k \in L : k < 0} = {}
      BY <3>1
    <3>. QED  BY <3>2, FS_EmptySet
  <2>. HIDE DEF ce, cl
  <2>4. ASSUME NEW i \in 1 .. n PROVE cl(i) = cl(i - 1) + (IF i - 1 \in L THEN 1 ELSE 0)
    <3>1. CASE i = 1
      <4>1. 0 \notin L
        BY <2>0
      <4>. QED  BY <2>1, <2>2, <2>3, <3>1, <4>1
    <3>2. CASE i # 1
      <4>1. i - 1 \in 1 .. n
        BY <3>2
      <4>. QED  BY <2>1, <2>2, <4>1
    <3>. QED  BY <3>1, <3>2
  <2>5. Cardinality(L) = cl(n) + (IF n \in L THEN 1 ELSE 0)
    <3>1. CASE n = 0
      <4>1. 0 \notin L
        BY <2>0
      <4>. QED  BY <2>1, <2>3, <3>1, <4>1
    <3>2. CASE n # 0
      <4>1. n \in 1 .. n
        BY <1>1, <3>2
      <4>. QED  BY <2>1, <2>2, <4>1
    <3>. QED  BY <3>1, <3>2
  <2>6. ASSUME NEW i \in 0 .. n PROVE cl(i) \in Nat
    <3>1. i = 0 \/ (i \in 1 .. n /\ i - 1 \in 0 .. n)
      OBVIOUS
    <3>. QED  BY <2>1, <2>2, <2>3, <3>1
  <2>. QED  BY <2>3, <2>4, <2>5, <2>6
<1>. PICK at : at = [i \in 0 .. n |-> At(i)]
  OBVIOUS
<1>5. Spread(at, n, len, U, L)
  <2>. HIDE DEF cu, cl, new
  <2>1. ASSUME NEW i \in 0 .. n PROVE at[i] = i + cu(i) + cl(i) /\ at[i] \in Nat
    <3>1. at[i] = i + cu(i) + cl(i)
      OBVIOUS
    <3>2. i \in Nat /\ cu(i) \in Nat /\ cl(i) \in Nat
      BY <1>3, <1>4
    <3>. QED  BY <3>1, <3>2
  <2>2. at[0] = 0
    BY <1>1, <1>3, <1>4, <2>1
  <2>3. ASSUME NEW i \in 1 .. n
        PROVE  at[i] = at[i - 1] + 1 + (IF i \in U THEN 1 ELSE 0) + (IF i - 1 \in L THEN 1 ELSE 0)
    <3>1. i \in 0 .. n /\ i - 1 \in 0 .. n /\ i \in Int
      OBVIOUS
    <3>2. cu(i) = cu(i - 1) + (IF i \in U THEN 1 ELSE 0) /\ cu(i - 1) \in Nat
      BY <1>3, <3>1
    <3>3. cl(i) = cl(i - 1) + (IF i - 1 \in L THEN 1 ELSE 0) /\ cl(i - 1) \in Nat
      BY <1>4, <3>1
    <3>4. at[i] = i + cu(i) + cl(i) /\ at[i - 1] = (i - 1) + cu(i - 1) + cl(i - 1)
      BY <2>1, <3>1
    <3>5. \A a, c, d, e, f \in Int : a + (c + e) + (d + f) = (a - 1) + c + d + 1 + e + f
      OBVIOUS
    <3>6. (IF i \in U THEN 1 ELSE 0) \in Int /\ (IF i - 1 \in L THEN 1 ELSE 0) \in Int
      OBVIOUS
    <3>. QED  BY <3>1, <3>2, <3>3, <3>4, <3>5, <3>6
  <2>4. len = at[n] + (IF n \in L THEN 1 ELSE 0)
    <3>1. n \in 0 .. n
      BY <1>1
    <3>2. at[n] = n + cu(n) + cl(n) /\ cu(n) = Cardinality(U) /\ cu(n) \in Nat /\ cl(n) \in Nat
      BY <1>3, <1>4, <2>1, <3>1
    <3>3. Cardinality(L) = cl(n) + (IF n \in L THEN 1 ELSE 0)
      BY <1>4
    <3>4. \A a, c, d, e \in Int : a + c + (d + e) = a + c + d + e
      OBVIOUS
    <3>5. (IF n \in L THEN 1 ELSE 0) \in Int /\ len = n + Cardinality(U) + Cardinality(L)
      OBVIOUS
    <3>. QED  BY <1>1, <3>2, <3>3, <3>4, <3>5
  <2>5. at \in [0 .. n -> Nat]
    BY <2>1
  <2>. HIDE DEF len, At
  <2>. QED  BY <2>2, <2>3, <2>4, <2>5 DEF Spread
<1>6. /\ len \in Nat
      /\ \A i \in 1 .. n : at[i] \in 1 .. len
      /\ \A i \in U : /\ at[i] - 1 \in 1 .. len
                      /\ \A j \in 1 .. n : at[j] # at[i] - 1
                      /\ \A j \in L : at[j] + 1 # at[i] - 1
      /\ \A i \in L : /\ at[i] + 1 \in 1 .. len
                      /\ \A j \in 1 .. n : at[j] # at[i] + 1
  <2>. HIDE DEF len, At, new, cu, cl
  <2>1. n \in Nat /\ U \in SUBSET (1 .. n) /\ L \in SUBSET (1 .. n) /\ Spread(at, n, len, U, L)
    BY <1>1, <1>5
  <2>2. Parted(at, n, len, U, L)
    BY <2>1, SpreadShape
  <2>. QED  BY <2>2 DEF Parted
<1>7. \A i, j \in 0 .. n : i < j => at[i] < at[j]
  <2>. HIDE DEF len, At
  <2>. QED  BY <1>1, <1>5, SpreadOrder
<1>8. \A i \in 1 .. n : At(i) = at[i]
  <2>. HIDE DEF At
  <2>. QED  OBVIOUS
<1>. HIDE DEF len, At
<1>9. \A i, j \in 1 .. n : at[i] = at[j] => i = j
  <2>. SUFFICES ASSUME NEW i \in 1 .. n, NEW j \in 1 .. n, at[i] = at[j] PROVE i = j
    OBVIOUS
  <2>1. i < j \/ i = j \/ j < i
    OBVIOUS
  <2>2. i \in 0 .. n /\ j \in 0 .. n /\ at[i] \in Nat /\ at[j] \in Nat
    BY <1>5 DEF Spread
  <2>. QED  BY <1>7, <2>1, <2>2
<1>10. \A j \in 1 .. len : SpillBlock(b)[j] = new(j)
  BY <1>2
<1>11. Len(SpillBlock(b)) = len
  <2>. HIDE DEF new
  <2>. QED  BY <1>2, <1>6
<1>12. ASSUME NEW i \in 1 .. n PROVE new(at[i]) = s[i]
  <2>1. At(i) = at[i]
    BY <1>8
  <2>2. \E k \in 1 .. n : At(k) = at[i]
    BY <2>1
  <2>. PICK j : j = CHOOSE k \in 1 .. n : At(k) = at[i]
    OBVIOUS
  <2>3. j \in 1 .. n /\ At(j) = at[i]
    BY <2>2
  <2>4. j = i
    BY <1>8, <1>9, <2>3
  <2>. QED  BY <2>2, <2>4
<1>13. ASSUME NEW i \in U PROVE new(at[i] - 1) = SpillReload(b)
  <2>1. ~\E k \in 1 .. n : At(k) = at[i] - 1
    BY <1>6, <1>8
  <2>2. ~\E k \in L : At(k) + 1 = at[i] - 1
    BY <1>1, <1>6, <1>8
  <2>. QED  BY <2>1, <2>2
<1>14. ASSUME NEW i \in L PROVE new(at[i] + 1) = SpillStore(b)
  <2>1. ~\E k \in 1 .. n : At(k) = at[i] + 1
    BY <1>6, <1>8
  <2>2. \E k \in L : At(k) + 1 = at[i] + 1
    BY <1>1, <1>8
  <2>. QED  BY <2>1, <2>2
<1>. HIDE DEF new
<1>15. Placed(at, b)
  BY <1>1, <1>5, <1>6, <1>10, <1>11, <1>12, <1>13, <1>14 DEF Placed
<1>. QED  BY <1>15

\* The instructions of a block that spill() inserts into, and those it inserts.
Padded(w, v, at, U, L, before, behind) ==
  /\ Len(w) \in Nat /\ DOMAIN w = 1 .. Len(w)
  /\ Len(v) \in Nat
  /\ \A i \in 1 .. Len(w) : at[i] \in 1 .. Len(v) /\ v[at[i]] = w[i]
  /\ \A i, j \in 1 .. Len(w) : i < j <=> at[i] < at[j]
  /\ \A i \in U : i \in 1 .. Len(w) /\ at[i] - 1 \in 1 .. Len(v) /\ v[at[i] - 1] = before
  /\ \A i \in L : i \in 1 .. Len(w) /\ at[i] + 1 \in 1 .. Len(v) /\ v[at[i] + 1] = behind
  /\ \A k \in 1 .. Len(v) : \/ \E i \in 1 .. Len(w) : at[i] = k
                            \/ \E i \in U : at[i] - 1 = k
                            \/ \E i \in L : at[i] + 1 = k
  /\ \A i \in 1 .. Len(w) : i > 1 /\ i \notin U /\ i - 1 \notin L => at[i] = at[i - 1] + 1

LEMMA SpillBlockShape ==
  ASSUME TypeOK, phase = "spill", NEW b \in DOMAIN code, NEW at, Placed(at, b)
  PROVE  Padded(code[b], SpillBlock(b), at, Uses(b), Lasts(b), SpillReload(b), SpillStore(b))
<1>. PICK n, len, U, L : n = Len(code[b]) /\ len = Len(SpillBlock(b)) /\ U = Uses(b) /\ L = Lasts(b)
  OBVIOUS
<1>1. /\ n \in Nat /\ DOMAIN code[b] = 1 .. n /\ U \in SUBSET (1 .. n) /\ L \in SUBSET (1 .. n)
  <2>1. n \in Nat /\ DOMAIN code[b] = 1 .. n
    BY BlocksShape DEF TypeOK, Blocks
  <2>. QED  BY <2>1, DefsFinite DEF Lasts
<1>2. Spread(at, n, len, U, L)
  BY DEF Placed
<1>3. Parted(at, n, len, U, L)
  BY <1>1, <1>2, SpreadShape
<1>4. \A i, j \in 0 .. n : i < j => at[i] < at[j]
  BY <1>1, <1>2, SpreadOrder
<1>5. \A i \in 1 .. n : at[i] \in 1 .. len
  BY <1>3 DEF Parted
<1>6. ASSUME NEW i \in 1 .. n, NEW j \in 1 .. n PROVE i < j <=> at[i] < at[j]
  <2>1. i \in 0 .. n /\ j \in 0 .. n /\ at[i] \in Int /\ at[j] \in Int
    BY <1>3, <1>5 DEF Parted
  <2>2. i < j \/ i = j \/ j < i
    OBVIOUS
  <2>. QED  BY <1>4, <2>1, <2>2
<1>7. ASSUME NEW i \in 1 .. n, i > 1, i \notin U, i - 1 \notin L PROVE at[i] = at[i - 1] + 1
  <2>1. at[i] = at[i - 1] + 1 + (IF i \in U THEN 1 ELSE 0) + (IF i - 1 \in L THEN 1 ELSE 0)
    BY <1>2 DEF Spread
  <2>2. i - 1 \in 1 .. n
    BY <1>7
  <2>3. at[i - 1] \in Int
    BY <1>3, <1>5, <2>2 DEF Parted
  <2>. QED  BY <1>7, <2>1, <2>3
<1>8. /\ \A i \in 1 .. n : SpillBlock(b)[at[i]] = code[b][i]
      /\ \A i \in U : SpillBlock(b)[at[i] - 1] = SpillReload(b)
      /\ \A i \in L : SpillBlock(b)[at[i] + 1] = SpillStore(b)
  BY DEF Placed
<1>9. /\ \A i \in U : i \in 1 .. n /\ at[i] - 1 \in 1 .. len
      /\ \A i \in L : i \in 1 .. n /\ at[i] + 1 \in 1 .. len
      /\ \A k \in 1 .. len : \/ \E i \in 1 .. n : at[i] = k
                             \/ \E i \in U : at[i] - 1 = k
                             \/ \E i \in L : at[i] + 1 = k
      /\ len \in Nat
  BY <1>1, <1>3 DEF Parted
<1>. QED
  <2>1. /\ \A i \in U : i \in 1 .. n /\ at[i] - 1 \in 1 .. len /\ SpillBlock(b)[at[i] - 1] = SpillReload(b)
        /\ \A i \in L : i \in 1 .. n /\ at[i] + 1 \in 1 .. len /\ SpillBlock(b)[at[i] + 1] = SpillStore(b)
    BY <1>8, <1>9
  <2>2. \A i \in 1 .. n : at[i] \in 1 .. len /\ SpillBlock(b)[at[i]] = code[b][i]
    BY <1>5, <1>8
  <2>3. \A i \in 1 .. n : i > 1 /\ i \notin U /\ i - 1 \notin L => at[i] = at[i - 1] + 1
    BY <1>7
  <2>. QED  BY <1>1, <1>6, <1>9, <2>1, <2>2, <2>3 DEF Padded
=============================================================================
