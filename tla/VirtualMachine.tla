--------------------------- MODULE VirtualMachine ---------------------------
(***************************************************************************)
(* What the register allocator promises: the code instruction selection    *)
(* hands to it (CodeGenerator::emitFunction, before RegAllocator::run) as  *)
(* it would run on a machine with a register for every Register object.    *)
(* Values are tokens: an instruction computes a token of its own, a call   *)
(* leaves junk in the caller-saved registers, and every other register of  *)
(* the machine keeps its value.                                            *)
(***************************************************************************)
EXTENDS Naturals, Sequences

CONSTANTS Temps, Fixed, CallerSaved, CalleeSaved, NoReg

VARIABLES
  prog,   \* the function, as in RegAlloc
  at,     \* <<block, instruction>> to execute next
  virt,   \* the token each register holds
  seen    \* the tokens the last step read, by register: what can be observed

vvars == <<prog, at, virt, seen>>

Template == prog.code[at[1]][at[2]]

VInit ==
  /\ at = <<1, 1>>
  /\ virt = [r \in Temps \union Fixed |-> IF r \in Fixed THEN r ELSE NoReg]
  /\ seen = << >>

Read(ins) == ({ins.src1, ins.src2} \ {NoReg}) \union ins.used

\* The register file after ins: a call clobbers, then the result is written.
Written(file, ins, token) ==
  [r \in DOMAIN file |->
     IF r = ins.dest THEN token
     ELSE IF ins.kind = "call" /\ r \in CallerSaved THEN NoReg
     ELSE file[r]]

\* Where control goes: a taken branch or a jump, or the next instruction.
After(ins, here) ==
  (IF ins.kind = "jump" THEN {} ELSE {<<here[1], here[2] + 1>>})
    \union (IF ins.kind \in {"jump", "branch"} THEN {<<ins.target, 1>>} ELSE {})

VStep ==
  /\ at[1] < Len(prog.code)
  /\ seen' = [r \in Read(Template) |-> virt[r]]
  /\ virt' = Written(virt, Template, at)
  /\ at' \in After(Template, at)
  /\ UNCHANGED prog

\* Arrival in _retBB: the caller sees the result and the callee-saved
\* registers.
VReturn ==
  /\ at = <<Len(prog.code), 1>>
  /\ seen' = [r \in prog.result \union CalleeSaved |-> virt[r]]
  /\ at' = <<0, 0>>
  /\ UNCHANGED <<prog, virt>>

VSpec == VInit /\ [][VStep \/ VReturn]_vvars
=============================================================================
