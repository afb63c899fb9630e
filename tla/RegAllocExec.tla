---------------------------- MODULE RegAllocExec ----------------------------
(***************************************************************************)
(* RegAlloc followed by a run of the code it leaves, on the physical       *)
(* registers and the spill slots of the frame.  The run implements         *)
(* VirtualMachine when every instruction reads the values it would read    *)
(* with a register for every Register object, and the caller gets its      *)
(* callee-saved registers back.  The blocks from addBasicBlock(_entryBB),  *)
(* which is empty while the allocator runs, to _retBB are those of prog;   *)
(* what emitFunction puts into the two afterwards is in Restored.          *)
(***************************************************************************)
EXTENDS RegAlloc

VARIABLES
  pc,     \* <<block, instruction>> in code
  phys,   \* the token each physical register holds
  slots,  \* the token each spill slot of the frame holds
  virt,   \* ghost: the virtual register file
  seen    \* the tokens the last program instruction read

evars == <<vars, pc, phys, slots, virt, seen>>

Template(b, i) == {k \in 1 .. i - 1 : code[b][k].kind \notin {"store", "reload"}}

\* The place in prog.code of the instruction at pc.
Origin == IF pc[1] = 0 THEN pc
          ELSE <<pc[1], IF phase = "done" THEN 1 + Cardinality(Template(pc[1], pc[2]))
                        ELSE 1>>

VM == INSTANCE VirtualMachine WITH at <- Origin

ExecInit ==
  /\ Init
  /\ pc = <<1, 1>>
  /\ phys = [r \in Fixed |-> r]
  /\ slots = << >>
  /\ virt = [r \in Temps \union Fixed |-> IF r \in Fixed THEN r ELSE NoReg]
  /\ seen = << >>

Compile == AllocNext /\ UNCHANGED <<pc, phys, slots, virt, seen>>

Inst == code[pc[1]][pc[2]]

\* sd/fsd and ld/fld that spill() inserted; a slot never written holds junk.
SpillStep ==
  /\ \/ /\ Inst.kind = "store"
        /\ slots' = [o \in DOMAIN slots \union {Inst.off} |->
                       IF o = Inst.off THEN phys[NameOf(Inst.src1)] ELSE slots[o]]
        /\ UNCHANGED phys
     \/ /\ Inst.kind = "reload"
        /\ phys' = [phys EXCEPT ![NameOf(Inst.dest)] =
                      IF Inst.off \in DOMAIN slots THEN slots[Inst.off] ELSE NoReg]
        /\ UNCHANGED slots
  /\ pc' = <<pc[1], pc[2] + 1>>
  /\ UNCHANGED <<virt, seen>>

\* The same instruction on names and on templates.
Named == [Inst EXCEPT !.dest = IF @ = NoReg THEN @ ELSE NameOf(@)]
Source == prog.code[Origin[1]][Origin[2]]

ProgramStep ==
  /\ Inst.kind \notin {"store", "reload"}
  /\ seen' = [t \in VM!Read(Source) |-> phys[NameOf(Object(t, round))]]
  /\ phys' = VM!Written(phys, Named, Origin)
  /\ virt' = VM!Written(virt, Source, Origin)
  /\ pc' \in VM!After(Inst, pc)
  /\ UNCHANGED slots

\* The epilogue in _retBB loads the pushed registers back from the frame.
Restored(r) == IF r \in pushed THEN r ELSE phys[r]

Return ==
  /\ seen' = [r \in prog.result \union CalleeSaved |-> Restored(r)]
  /\ pc' = <<0, 0>>
  /\ UNCHANGED <<phys, slots, virt>>

Execute ==
  /\ phase = "done" /\ pc[1] # 0
  /\ IF pc[1] < Len(code) THEN SpillStep \/ ProgramStep ELSE Return
  /\ UNCHANGED vars

ExecNext == Compile \/ Execute

ExecSpec == ExecInit /\ [][ExecNext]_evars
\* The compiler is a sequential program that runs until the function is done.
FairExecSpec == ExecSpec /\ WF_evars(Compile)

-----------------------------------------------------------------------------
\* The allocated code reads what the code before allocation would have read,
\* at every instruction and on every path, and gives the caller its registers
\* back: the allocator and the frame's push set implement VirtualMachine.
ImplementsVirtual == VM!VSpec

\* The same as a state property of the next instruction, for counterexamples
\* a reader can follow: each virtual register about to be read is in the
\* physical register the allocator chose for it.
ReadsIntended ==
  phase = "done" /\ pc[1] \in 1 .. Len(code) - 1
     /\ Inst.kind \notin {"store", "reload"} =>
    \A t \in VM!Read(Source) :
      phys[NameOf(Object(t, round))] = virt[t]

\* Compilation of a function ends: neither the liveness passes, nor the
\* colour-and-spill loop of run(), nor the emission rounds go on for ever.
Compiles == <>(phase = "done")
=============================================================================
