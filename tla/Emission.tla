------------------------------ MODULE Emission ------------------------------
(***************************************************************************)
(* CodeGenerator's treatment of control flow: the assembly blocks made     *)
(* from the IR blocks, conditional jumps as a branch and a jump, and the   *)
(* removal of jumps to the next block and of labels nobody needs.          *)
(* Instructions that do not jump stay as they are: how one is selected     *)
(* for a machine is not the subject here.                                  *)
(*                                                                         *)
(* Block 1 is the prologue, block b + 1 stands for IR block b, and the     *)
(* last block returns.                                                     *)
(***************************************************************************)
EXTENDS IR, SequencesExt

AsmOf(b) == b + 1

Jump(bb) == Inst("j", "", None, <<>>, <<bb>>)

Branch(type, l, r, bb) == Inst("branch", type, None, <<l, r>>, <<bb>>)

\* Mutant: <= keeps its operands.
EmitCondJumpUnswapped(inst) ==
    LET l == inst.args[1]
        r == inst.args[2]
        t == AsmOf(inst.to[1])
        branch == CASE inst.tag = "EQ" -> Branch("BEQ", l, r, t)
                    [] inst.tag = "NE" -> Branch("BNE", l, r, t)
                    [] inst.tag = "LT" -> Branch("BLT", l, r, t)
                    [] inst.tag \in {"LE", "GE"} -> Branch("BGE", l, r, t)
                    [] inst.tag = "GT" -> Branch("BLT", r, l, t)
    IN <<branch, Jump(AsmOf(inst.to[2]))>>

\* There are only four branches: the others swap their operands.
EmitCondJump(inst) ==
    LET l == inst.args[1]
        r == inst.args[2]
        t == AsmOf(inst.to[1])
        branch == CASE inst.tag = "EQ" -> Branch("BEQ", l, r, t)
                    [] inst.tag = "NE" -> Branch("BNE", l, r, t)
                    [] inst.tag = "LT" -> Branch("BLT", l, r, t)
                    [] inst.tag = "LE" -> Branch("BGE", r, l, t)
                    [] inst.tag = "GT" -> Branch("BLT", r, l, t)
                    [] inst.tag = "GE" -> Branch("BGE", l, r, t)
    IN <<branch, Jump(AsmOf(inst.to[2]))>>

EmitInstruction(inst, retBB) ==
    CASE inst.op = "jump" -> <<Jump(AsmOf(inst.to[1]))>>
      [] inst.op = "cond" -> EmitCondJump(inst)
      [] inst.op = "ret"  -> <<Inst("mv_a0", "", None, inst.args, <<>>), Jump(retBB)>>
      [] OTHER -> <<inst>>

\* The instructions of IR block b: those that are dead are passed over.
EmitBasicBlock(bb, deadOnes, retBB) ==
    FlattenSeq([i \in DOMAIN bb.code |->
        IF i \in deadOnes THEN <<>> ELSE EmitInstruction(bb.code[i], retBB)])

EmitFunction(bbs, dead) ==
    LET retBB == Len(bbs) + 2
    IN <<<<Inst("prologue", "", None, <<>>, <<>>)>>>>
         \o [b \in DOMAIN bbs |-> EmitBasicBlock(bbs[b], dead[b], retBB)]
         \o <<<<Inst("ret", "", None, <<>>, <<>>)>>>>

\* How many entries _predecessors of a block has: one for each jump or
\* branch to it.
Predecessors(codes, bb) ==
    Cardinality({p \in UNION {{b} \X DOMAIN codes[b] : b \in DOMAIN codes} :
                    codes[p[1]][p[2]].to = <<bb>>})

\* Does the block end in a jump to the next one?
FallsThrough(codes, b) ==
    LET code == codes[b] IN code[Len(code)] = Jump(b + 1)

\* Mutant: a label goes with the jump before it, whoever else jumps to it.
CleanupAnyLabel(codes) ==
    [b \in DOMAIN codes |->
        [code  |-> IF FallsThrough(codes, b) THEN Front(codes[b]) ELSE codes[b],
         label |-> ~(b > 1 /\ FallsThrough(codes, b - 1)) /\ Predecessors(codes, b) > 0]]

\* The clean-up at the end of emitFunction: the blocks as they are printed.
Cleanup(codes) ==
    [b \in DOMAIN codes |->
        [code  |-> IF FallsThrough(codes, b) THEN Front(codes[b]) ELSE codes[b],
         label |-> ~ \/ Predecessors(codes, b) = 0
                     \/ /\ b > 1
                        /\ FallsThrough(codes, b - 1)
                        /\ Predecessors(codes, b) = 1]]
=============================================================================
