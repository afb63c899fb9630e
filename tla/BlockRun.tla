------------------------------- MODULE BlockRun -------------------------------
(***************************************************************************)
(* The run of a compiled function seen as a run of its basic blocks: dead  *)
(* instructions are those that the blocks' machine passes over, a variable *)
(* is known as long as maskDeadInst found it to be needed, and a branch    *)
(* and the jump behind it are one conditional jump.                        *)
(***************************************************************************)
EXTENDS BlockCode

\* How many of the first i instructions of block b are not dead.
Kept(b) ==
    LET count[i \in 0..Len(bbs[b].code)] ==
            IF i = 0 THEN 0 ELSE count[i - 1] + (IF i \in dead[b] THEN 0 ELSE 1)
    IN count

\* The first instruction of block b that comes after the k - 1 first that are
\* not dead.
AfterKept(b, k) ==
    LET kept == Kept(b)
    IN CHOOSE i \in DOMAIN bbs[b].code : kept[i - 1] = k - 1 /\ (i = 1 \/ i - 1 \notin dead[b])

\* What is needed after instruction i of block b, by the equations of maskDeadInst.
NeededIn(b) ==
    LET code == bbs[b].code
        V[i \in 0..Len(code)] ==
            IF i = Len(code) THEN NeededAfter(b) ELSE UNION {Before(code[i + 1], after) : after \in {V[i + 1]}}
    IN V

Insts == UNION {{bbs[b].code[i] : i \in DOMAIN bbs[b].code} : b \in Blocks}

\* The results that are computed.
ResultsKept == (UNION {{bbs[b].code[i].dst : i \in DOMAIN bbs[b].code \ dead[b]} : b \in Blocks}) \ {None}

Variables == {inst.dst : inst \in {i \in Insts : i.op = "alloc"}}

Arrays == {inst.args[1] : inst \in {i \in Insts : i.op = "gep" /\ i.args[1].kind # "global"}}

\* The memory that matters after instruction i of block b: the global, the
\* arrays, and the variables that are needed.
CellsAfter(b, i) ==
    {0, 1} \cup {2 * v.n : v \in (NeededIn(b)[i] \cap Variables) \cup Arrays} \cup {2 * v.n + 1 : v \in Arrays}

-----------------------------------------------------------------------------
\* The IR block that the printed block stands for, and its last instruction.
Here == pc[1] - 1

LastInst == bbs[Here].code[Len(bbs[Here].code)]

InBlock == Here \in Blocks

\* Between the two instructions that a conditional jump or a return becomes.
Between == InBlock /\ pc[2] > 1 /\ Code[pc[2] - 1].op \in {"branch", "mv_a0"}

\* The value to return is in a0.
Leaving == Here = Len(bbs) + 1 \/ (Between /\ LastInst.op = "ret")

Status ==
    IF phase \in {"build", "mask"} THEN "idle"
    ELSE IF phase = "run" /\ ~Leaving THEN "running" ELSE "done"

Graph == IF Status = "idle" THEN <<>> ELSE bbs

Place ==
    IF Status # "running" THEN <<>>
    ELSE IF ~InBlock THEN <<1, 1>>
    ELSE IF Between THEN <<LastInst.to[2], 1>>
    ELSE <<Here, AfterKept(Here, pc[2])>>

Values == IF Status # "running" THEN <<>> ELSE [v \in ResultsKept |-> regs[v.n]]

Cells ==
    IF Status # "running" THEN <<>> ELSE [a \in CellsAfter(Place[1], Place[2] - 1) |-> mem[a]]

Out == IF phase = "run" /\ Leaving THEN Append(out, <<"return", regs[0]>>) ELSE out

Machine == INSTANCE BlockMachine WITH
    status <- Status, graph <- Graph, place <- Place, values <- Values, cells <- Cells, out <- Out

-----------------------------------------------------------------------------
(* Properties *)

\* An element is one of its array.
IndicesInBounds == AtInst("gep") => Arg(2) \in {0, 1}

\* What is printed for a function does what its basic blocks say, without the
\* dead instructions, with branches for the conditional jumps and without the
\* jumps to the next block (maskDeadInst, emitCondJumpInst, emitFunction): it
\* makes the same calls in the same order, with the same values, and returns
\* the same value.
RunsTheBlocks == Machine!Spec
=============================================================================
