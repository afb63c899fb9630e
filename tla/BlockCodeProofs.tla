-------------------------- MODULE BlockCodeProofs --------------------------
(***************************************************************************)
(* Theorems about the basic blocks of a function on their way through the  *)
(* code generator, for every graph.                                        *)
(*                                                                         *)
(* maskDeadInst.  What a round computes for a block is a chain: a set of   *)
(* values for every place between two instructions, each obtained from the *)
(* next.  A chain that starts lower stays lower, since Before is monotone. *)
(* So a block that was left with a chain below what its successors need    *)
(* now can only be left with more the next time.  The last round changes   *)
(* nothing, so what each block computed in it from its successors is still *)
(* true of them at the end.                                                *)
(*                                                                         *)
(* What stays never uses what is dead.  A dead value that some reachable   *)
(* block needed would be needed, one instruction back after the other, up  *)
(* to the start of the block and so at the end of the block before, up to  *)
(* the start of the function, where nothing has been defined.              *)
(*                                                                         *)
(* Emission.  A block ends in a jump that is never dead, so that what is   *)
(* emitted for it is not empty and a block that falls through has a jump   *)
(* of its own to the next: a label dropped with it has no other use.       *)
(*                                                                         *)
(* The run.  Where it is in the printed text gives the instruction of the  *)
(* block that comes next, and the dead ones before it (Located): text      *)
(* holds, in order, what each instruction that stays becomes.  No operand  *)
(* is dead, so every one has its register; a cell that matters after an    *)
(* instruction mattered before it, unless the instruction wrote it; and an *)
(* address that has been computed is right (RunInv), so that a load and a  *)
(* store go to the cell they should.  So every step is a step of the       *)
(* machine of the blocks, or one that it does not see.                     *)
(***************************************************************************)
EXTENDS BlockRun, TLAPS, SeqFacts, FiniteSetTheorems

\* The sets W of block b, from the place after instruction lo to the end,
\* need no more than the instructions and the successors of b ask for.
Chain(W, b, lo) ==
    /\ W[Len(bbs[b].code)] \subseteq NeededAfter(b)
    /\ \A i \in (lo + 1)..Len(bbs[b].code) : W[i - 1] \subseteq Before(bbs[b].code[i], W[i])

MaskType ==
    /\ GraphOK(bbs)
    /\ alives = [b \in Blocks |-> alives[b]]
    /\ DOMAIN dead = Blocks
    /\ stage \in {"block", "inst", "masked"}
    /\ at \in Nat \ {0}
    /\ pos \in Nat
    /\ stage = "inst" => at \in Blocks /\ pos <= Len(bbs[at].code)

\* What is kept for a block is justified by a chain.
Supported(b) == \E W : Chain(W, b, 0) /\ alives[b] \subseteq W[0]

\* In a block: what was kept the last time needs no more than this time.
AboveLast == \E W : /\ Chain(W, at, 0)
                    /\ alives[at] \subseteq W[0]
                    /\ W[pos] \subseteq need

\* In a block: need is justified by a chain as far as the round has come.
Justified == \E V : Chain(V, at, pos) /\ V[pos] = need

GrowInv ==
    /\ MaskType
    /\ \A b \in Blocks : Supported(b)
    /\ stage = "inst" => AboveLast /\ Justified

-----------------------------------------------------------------------------
\* The more is needed after an instruction, the more is needed before it.
LEMMA BeforeMonotone ==
    ASSUME NEW inst, NEW small, NEW large, small \subseteq large
    PROVE  Before(inst, small) \subseteq Before(inst, large)
<1>1. ASSUME IsLive(inst, small) PROVE IsLive(inst, large)
  BY <1>1 DEF IsLive
<1>2. CASE IsLive(inst, small)
  <2>1. IsLive(inst, large)
    BY <1>1, <1>2
  <2> QED
    BY <1>2, <2>1 DEF Before
<1>3. CASE ~IsLive(inst, small) /\ ~IsLive(inst, large)
  BY <1>3 DEF Before
<1>4. CASE ~IsLive(inst, small) /\ IsLive(inst, large)
  <2>1. IsLocalStore(inst) => inst.args[2] \notin small
    BY <1>4 DEF IsLive, IsLocalStore
  <2> QED
    BY <1>4, <2>1 DEF Before
<1> QED
  BY <1>2, <1>3, <1>4

\* When what is kept for blocks grows, every chain stays a chain.
LEMMA ChainKept ==
    ASSUME bbs' = bbs, \A s \in Blocks : alives[s] \subseteq alives'[s],
           NEW b \in Blocks, Elems(bbs[b].succ) \subseteq Blocks,
           NEW W, NEW lo, Chain(W, b, lo)
    PROVE  Chain(W, b, lo)'
<1>1. NeededAfter(b) \subseteq NeededAfter(b)'
  BY DEF NeededAfter, Elems
<1> QED
  BY <1>1 DEF Chain

\* A chain stays one when the blocks and what is kept stay.
LEMMA ChainSame ==
    ASSUME bbs' = bbs, alives' = alives, NEW b, NEW W, NEW lo
    PROVE  Chain(W, b, lo)' <=> Chain(W, b, lo)
BY DEF Chain, NeededAfter

\* And so does what a chain justifies.
LEMMA SupportedSame ==
    ASSUME bbs' = bbs, alives' = alives, \A b \in Blocks : Supported(b)
    PROVE  \A b \in Blocks' : Supported(b)'
<1> SUFFICES ASSUME NEW b \in Blocks PROVE Supported(b)'
  BY DEF Blocks
<1>1. PICK W : Chain(W, b, 0) /\ alives[b] \subseteq W[0]
  BY DEF Supported
<1>2. Chain(W, b, 0)'
  BY <1>1, ChainSame
<1> QED
  BY <1>1, <1>2 DEF Supported

\* At first nothing is needed.
LEMMA InitGrow ==
    ASSUME NEW g, GraphOK(g), MaskInit(g)
    PROVE  GrowInv
<1>1. MaskType
  BY DEF MaskInit, MaskType, Blocks
<1>2. ASSUME NEW b \in Blocks PROVE Supported(b)
  <2> DEFINE W == [i \in 0..Len(bbs[b].code) |-> {}]
  <2>1. Len(bbs[b].code) \in Nat /\ alives[b] = {}
    BY DEF MaskInit, GraphOK, Blocks
  <2>2. \A i \in 0..Len(bbs[b].code) : W[i] = {}
    OBVIOUS
  <2>3. 0 \in 0..Len(bbs[b].code) /\ Len(bbs[b].code) \in 0..Len(bbs[b].code)
    BY <2>1
  <2>4. \A i \in (0 + 1)..Len(bbs[b].code) : i - 1 \in 0..Len(bbs[b].code)
    BY <2>1
  <2> HIDE DEF W
  <2>5. Chain(W, b, 0)
    BY <2>2, <2>3, <2>4 DEF Chain
  <2>6. alives[b] \subseteq W[0]
    BY <2>1
  <2> QED
    BY <2>5, <2>6 DEF Supported
<1>3. stage # "inst"
  BY DEF MaskInit
<1> QED
  BY <1>1, <1>2, <1>3 DEF GrowInv

-----------------------------------------------------------------------------
\* Each step keeps the invariant: when a block is begun,
LEMMA EnterBlockGrow ==
    ASSUME GrowInv, EnterBlock
    PROVE  GrowInv'
<1> USE DEF GrowInv
<1>1. at \in Blocks /\ Len(bbs[at].code) \in Nat /\ Elems(bbs[at].succ) \subseteq Blocks
  BY DEF EnterBlock, MaskType, GraphOK, Blocks
<1>2. MaskType'
  BY <1>1 DEF EnterBlock, MaskType, Blocks, GraphOK
<1>3. bbs' = bbs /\ alives' = alives /\ at' = at /\ pos' = Len(bbs[at].code)
         /\ need' = NeededAfter(at)
  BY DEF EnterBlock
<1>4. \A b \in Blocks' : Supported(b)'
  BY <1>3, SupportedSame
<1>5. AboveLast'
  <2>1. PICK W : Chain(W, at, 0) /\ alives[at] \subseteq W[0]
    BY <1>1 DEF Supported
  <2>2. Chain(W, at, 0)' /\ W[pos'] \subseteq need'
    BY <1>3, <2>1 DEF Chain, NeededAfter
  <2> QED
    BY <1>3, <2>1, <2>2 DEF AboveLast
<1>6. Justified'
  <2>1. PICK V : V = [i \in {pos'} |-> need']
    OBVIOUS
  <2>2. V[pos'] = need' /\ V[Len(bbs[at].code)] = need'
    BY <1>3, <2>1
  <2>3. (pos' + 1)..Len(bbs'[at'].code) = {}
    BY <1>1, <1>3
  <2>4. Chain(V, at, pos)'
    BY <1>3, <2>2, <2>3 DEF Chain, NeededAfter
  <2> QED
    BY <2>2, <2>4 DEF Justified
<1> QED
  BY <1>2, <1>4, <1>5, <1>6

\* at an instruction,
LEMMA MaskInstGrow ==
    ASSUME GrowInv, MaskInst
    PROVE  GrowInv'
<1> USE DEF GrowInv
<1>1. /\ at \in Blocks /\ Len(bbs[at].code) \in Nat
      /\ pos \in Nat /\ pos > 0 /\ pos <= Len(bbs[at].code)
  BY DEF MaskInst, MaskType, GraphOK, Blocks
<1>2. /\ bbs' = bbs /\ alives' = alives /\ at' = at /\ stage' = stage /\ stage = "inst"
      /\ pos' = pos - 1 /\ need' = Before(bbs[at].code[pos], need)
      /\ DOMAIN dead' = DOMAIN dead
  BY DEF MaskInst
<1>3. MaskType'
  BY <1>1, <1>2 DEF MaskType, Blocks, GraphOK
<1>4. \A b \in Blocks' : Supported(b)'
  BY <1>2, SupportedSame
<1>5. AboveLast'
  <2>1. PICK W : Chain(W, at, 0) /\ alives[at] \subseteq W[0] /\ W[pos] \subseteq need
    BY <1>2 DEF AboveLast
  <2>2. pos \in (0 + 1)..Len(bbs[at].code)
    BY <1>1
  <2>3. W[pos - 1] \subseteq Before(bbs[at].code[pos], W[pos])
    BY <2>1, <2>2 DEF Chain
  <2>4. W[pos'] \subseteq need'
    BY <1>2, <2>1, <2>3, BeforeMonotone
  <2>5. Chain(W, at, 0)'
    BY <1>2, <2>1 DEF Chain, NeededAfter
  <2> QED
    BY <1>2, <2>1, <2>4, <2>5 DEF AboveLast
<1>6. Justified'
  <2>1. PICK V : Chain(V, at, pos) /\ V[pos] = need
    BY <1>2 DEF Justified
  <2>2. PICK U : U = [i \in 0..Len(bbs[at].code) |-> IF i = pos - 1 THEN need' ELSE V[i]]
    OBVIOUS
  <2>3. U[pos - 1] = need' /\ U[pos] = need
    BY <1>1, <2>1, <2>2
  <2>4. U[Len(bbs[at].code)] = V[Len(bbs[at].code)]
    BY <1>1, <2>2
  <2>5. ASSUME NEW i \in (pos + 1)..Len(bbs[at].code)
        PROVE  U[i] = V[i] /\ U[i - 1] = V[i - 1]
    BY <1>1, <2>2
  <2>6. ASSUME NEW i \in (pos' + 1)..Len(bbs[at].code)
        PROVE  U[i - 1] \subseteq Before(bbs[at].code[i], U[i])
    <3>1. i = pos \/ i \in (pos + 1)..Len(bbs[at].code)
      BY <1>1, <1>2
    <3>2. CASE i = pos
      BY <1>2, <2>3, <3>2
    <3>3. CASE i \in (pos + 1)..Len(bbs[at].code)
      <4>1. V[i - 1] \subseteq Before(bbs[at].code[i], V[i])
        BY <2>1, <3>3 DEF Chain
      <4> QED
        BY <2>5, <3>3, <4>1
    <3> QED
      BY <3>1, <3>2, <3>3
  <2>7. Chain(U, at, pos)'
    <3>1. U[Len(bbs[at].code)] \subseteq NeededAfter(at)
      BY <2>1, <2>4 DEF Chain
    <3> QED
      BY <1>2, <2>6, <3>1 DEF Chain, NeededAfter
  <2> QED
    BY <1>2, <2>3, <2>7 DEF Justified
<1> QED
  BY <1>3, <1>4, <1>5, <1>6

\* Nothing that was needed at the start of the block is dropped.
LEMMA LeaveBlockKeeps ==
    ASSUME GrowInv, LeaveBlock
    PROVE  \A b \in Blocks : alives[b] \subseteq alives'[b]
<1>1. PICK W : alives[at] \subseteq W[0] /\ W[pos] \subseteq need
  BY DEF GrowInv, LeaveBlock, AboveLast
<1>2. alives[at] \subseteq need
  BY <1>1 DEF LeaveBlock
<1>3. DOMAIN alives = Blocks
  BY DEF GrowInv, MaskType
<1> QED
  BY <1>2, <1>3 DEF LeaveBlock

\* when a block is left,
LEMMA LeaveBlockGrow ==
    ASSUME GrowInv, LeaveBlock
    PROVE  GrowInv'
<1>1. /\ at \in Blocks /\ DOMAIN alives = Blocks
      /\ \A b \in Blocks : Elems(bbs[b].succ) \subseteq Blocks
  BY DEF GrowInv, LeaveBlock, MaskType, GraphOK, Blocks
<1>2. /\ bbs' = bbs /\ stage' = "block" /\ pos = 0
      /\ alives' = [alives EXCEPT ![at] = need]
  BY DEF LeaveBlock
<1>3. MaskType'
  BY <1>1, <1>2 DEF GrowInv, LeaveBlock, MaskType, Blocks
<1>4. \A b \in Blocks : alives[b] \subseteq alives'[b]
  BY LeaveBlockKeeps
<1>5. ASSUME NEW b \in Blocks PROVE Supported(b)'
  <2>1. CASE b = at
    <3>1. PICK V : Chain(V, at, 0) /\ V[0] = need
      BY <1>2 DEF GrowInv, LeaveBlock, Justified
    <3>2. Chain(V, b, 0)'
      BY <1>1, <1>2, <1>4, <2>1, <3>1, ChainKept
    <3>3. alives'[b] = V[0]
      BY <1>1, <1>2, <2>1, <3>1
    <3> QED
      BY <3>2, <3>3 DEF Supported
  <2>2. CASE b # at
    <3>1. PICK W : Chain(W, b, 0) /\ alives[b] \subseteq W[0]
      BY DEF GrowInv, Supported
    <3>2. Chain(W, b, 0)'
      BY <1>1, <1>2, <1>4, <3>1, ChainKept
    <3>3. alives'[b] = alives[b]
      BY <1>1, <1>2, <2>2
    <3> QED
      BY <3>1, <3>2, <3>3 DEF Supported
  <2> QED
    BY <2>1, <2>2
<1> QED
  BY <1>2, <1>3, <1>5 DEF GrowInv, Blocks

\* at the end of a round,
LEMMA EndRoundGrow ==
    ASSUME GrowInv, EndRound
    PROVE  GrowInv'
<1>1. /\ bbs' = bbs /\ alives' = alives /\ at' = 1 /\ pos' = pos
      /\ stage' \in {"block", "masked"} /\ DOMAIN dead' = DOMAIN dead
  BY DEF EndRound
<1>2. MaskType'
  BY <1>1 DEF GrowInv, MaskType, Blocks
<1>3. \A b \in Blocks' : Supported(b)'
  BY <1>1, SupportedSame DEF GrowInv
<1> QED
  BY <1>1, <1>2, <1>3 DEF GrowInv

\* and when nothing happens.
LEMMA StutterGrow ==
    ASSUME GrowInv, UNCHANGED maskVars
    PROVE  GrowInv'
<1> USE DEF GrowInv, maskVars
<1>1. MaskType'
  BY DEF MaskType, Blocks
<1>2. \A b \in Blocks' : Supported(b)'
  BY SupportedSame
<1>3. AboveLast => AboveLast'
  BY ChainSame DEF AboveLast
<1>4. Justified => Justified'
  BY ChainSame DEF Justified
<1> QED
  BY <1>1, <1>2, <1>3, <1>4

-----------------------------------------------------------------------------
\* The inductive invariant holds in every round, for every graph.
THEOREM GrowthInvariant ==
    ASSUME NEW g, GraphOK(g)
    PROVE  MaskSpec(g) => []GrowInv
<1>1. MaskInit(g) => GrowInv
  BY InitGrow
<1>2. GrowInv /\ [MaskNext]_maskVars => GrowInv'
  BY EnterBlockGrow, MaskInstGrow, LeaveBlockGrow, EndRoundGrow, StutterGrow DEF MaskNext
<1> QED
  BY <1>1, <1>2, PTL DEF MaskSpec

\* maskDeadInst never takes back that a value is needed at the start of a
\* block, whatever the graph: with finitely many values its loop ends.
THEOREM RoundsOnlyGrow ==
    ASSUME NEW g, GraphOK(g)
    PROVE  MaskSpec(g) => NeedsOnlyGrow
<1>1. GrowInv /\ [MaskNext]_maskVars => [\A b \in Blocks : alives[b] \subseteq alives'[b]]_maskVars
  <2> SUFFICES ASSUME GrowInv, MaskNext
               PROVE  \A b \in Blocks : alives[b] \subseteq alives'[b]
    OBVIOUS
  <2>1. CASE LeaveBlock
    BY <2>1, LeaveBlockKeeps
  <2>2. CASE EnterBlock \/ MaskInst \/ EndRound
    BY <2>2 DEF EnterBlock, MaskInst, EndRound
  <2> QED
    BY <2>1, <2>2 DEF MaskNext
<1>2. MaskSpec(g) => []GrowInv
  BY GrowthInvariant
<1> QED
  BY <1>1, <1>2, PTL DEF MaskSpec, NeedsOnlyGrow

-----------------------------------------------------------------------------
(* The last round leaves a solution of the liveness equations *)

\* V is what is needed at each place of block b from lo to the end.
Exact(V, b, lo) ==
    /\ V[Len(bbs[b].code)] = NeededAfter(b)
    /\ \A i \in (lo + 1)..Len(bbs[b].code) : V[i - 1] = Before(bbs[b].code[i], V[i])

\* The instructions of block b after lo are marked as V asks for.
Marked(V, b, lo) ==
    \A i \in (lo + 1)..Len(bbs[b].code) : i \in dead[b] <=> ~IsLive(bbs[b].code[i], V[i])

Solved(b) == \E V : Exact(V, b, 0) /\ V[0] = alives[b] /\ Marked(V, b, 0)

\* In a block: solved as far as the round has come.
PartlySolved == \E V : Exact(V, at, pos) /\ V[pos] = need /\ Marked(V, at, pos)

\* Solved, but for allocations that are kept although nothing needs them.
SolvedButAllocs(b) ==
    \E V : /\ Exact(V, b, 0)
           /\ V[0] = alives[b]
           /\ \A i \in 1..Len(bbs[b].code) :
                 /\ i \in dead[b] => ~IsLive(bbs[b].code[i], V[i])
                 /\ i \notin dead[b] => \/ IsLive(bbs[b].code[i], V[i])
                                       \/ bbs[b].code[i].op = "alloc"

\* While a round changes nothing, the blocks behind it are solved.
SolveInv ==
    /\ MaskType
    /\ stage # "masked" /\ ~update => \A b \in Blocks : b < at => Solved(b)
    /\ stage = "inst" => PartlySolved
    /\ stage = "masked" => \A b \in Blocks : SolvedButAllocs(b)

\* A solution stays one when the blocks and what is kept stay.
LEMMA ExactSame ==
    ASSUME bbs' = bbs, alives' = alives, NEW b, NEW V, NEW lo
    PROVE  Exact(V, b, lo)' <=> Exact(V, b, lo)
BY DEF Exact, NeededAfter

\* And a solved block stays solved.
LEMMA SolvedSame ==
    ASSUME bbs' = bbs, alives' = alives, NEW b, dead'[b] = dead[b], Solved(b)
    PROVE  Solved(b)'
<1>1. PICK V : Exact(V, b, 0) /\ V[0] = alives[b] /\ Marked(V, b, 0)
  BY DEF Solved
<1>2. Exact(V, b, 0)'
  BY <1>1, ExactSame
<1>3. Marked(V, b, 0)'
  BY <1>1 DEF Marked
<1> QED
  BY <1>1, <1>2, <1>3 DEF Solved

\* At first no block is behind the round.
LEMMA InitSolve ==
    ASSUME NEW g, GraphOK(g), MaskInit(g)
    PROVE  SolveInv
<1>1. MaskType
  BY DEF MaskInit, MaskType, Blocks
<1>2. \A b \in Blocks : ~(b < at)
  BY DEF MaskInit, GraphOK, Blocks
<1> QED
  BY <1>1, <1>2 DEF SolveInv, MaskInit

\* Each step keeps the invariant: when a block is begun,
LEMMA EnterBlockSolve ==
    ASSUME SolveInv, EnterBlock
    PROVE  SolveInv'
<1>1. /\ at \in Blocks /\ Len(bbs[at].code) \in Nat
      /\ MaskType
  BY DEF SolveInv, EnterBlock, MaskType, GraphOK, Blocks
<1>2. /\ bbs' = bbs /\ alives' = alives /\ dead' = dead /\ at' = at /\ update' = update
      /\ pos' = Len(bbs[at].code) /\ need' = NeededAfter(at)
      /\ stage = "block" /\ stage' = "inst"
  BY DEF EnterBlock
<1>3. MaskType'
  BY <1>1, <1>2 DEF MaskType, Blocks, GraphOK
<1>4. ASSUME ~update', NEW b \in Blocks', b < at' PROVE Solved(b)'
  <2>1. Solved(b)
    BY <1>2, <1>4 DEF SolveInv, Blocks
  <2> QED
    BY <1>2, <2>1, SolvedSame
<1>5. PartlySolved'
  <2>1. PICK V : V = [i \in {pos'} |-> need']
    OBVIOUS
  <2>2. V[pos'] = need' /\ V[Len(bbs[at].code)] = NeededAfter(at)
    BY <1>2, <2>1
  <2>3. (pos' + 1)..Len(bbs[at].code) = {}
    BY <1>1, <1>2
  <2>4. Exact(V, at, pos)'
    BY <1>2, <2>2, <2>3 DEF Exact, NeededAfter
  <2>5. Marked(V, at, pos)'
    BY <1>2, <2>3 DEF Marked
  <2> QED
    BY <2>2, <2>4, <2>5 DEF PartlySolved
<1> QED
  BY <1>2, <1>3, <1>4, <1>5 DEF SolveInv

\* at an instruction,
LEMMA MaskInstSolve ==
    ASSUME SolveInv, MaskInst
    PROVE  SolveInv'
<1> DEFINE inst == bbs[at].code[pos]
<1>1. /\ at \in Blocks /\ Len(bbs[at].code) \in Nat
      /\ pos \in Nat /\ pos > 0 /\ pos <= Len(bbs[at].code)
      /\ MaskType /\ DOMAIN dead = Blocks
      /\ \A b \in Blocks : b \in Nat
  BY DEF SolveInv, MaskInst, MaskType, GraphOK, Blocks
<1>2. /\ bbs' = bbs /\ alives' = alives /\ at' = at /\ update' = update
      /\ stage = "inst" /\ stage' = "inst"
      /\ pos' = pos - 1 /\ need' = Before(inst, need)
      /\ dead' = [dead EXCEPT ![at] = IF IsLive(inst, need) THEN @ \ {pos} ELSE @ \cup {pos}]
  BY DEF MaskInst
<1> HIDE DEF inst
<1>3. MaskType'
  BY <1>1, <1>2 DEF MaskType, Blocks, GraphOK
<1>4. ASSUME ~update', NEW b \in Blocks', b < at' PROVE Solved(b)'
  <2>1. Solved(b)
    BY <1>2, <1>4 DEF SolveInv, Blocks
  <2>2. dead'[b] = dead[b]
    BY <1>1, <1>2, <1>4 DEF Blocks
  <2> QED
    BY <1>2, <2>1, <2>2, SolvedSame
<1>5. PartlySolved'
  <2>1. PICK V : Exact(V, at, pos) /\ V[pos] = need /\ Marked(V, at, pos)
    BY <1>2 DEF SolveInv, PartlySolved
  <2>2. PICK U : U = [i \in 0..Len(bbs[at].code) |-> IF i = pos - 1 THEN need' ELSE V[i]]
    OBVIOUS
  <2>3. U[pos - 1] = need' /\ U[pos] = need
    BY <1>1, <2>1, <2>2
  <2>4. U[Len(bbs[at].code)] = V[Len(bbs[at].code)]
    BY <1>1, <2>2
  <2>5. ASSUME NEW i \in (pos + 1)..Len(bbs[at].code)
        PROVE  U[i] = V[i] /\ U[i - 1] = V[i - 1]
    BY <1>1, <2>2
  <2>6. ASSUME NEW i \in (pos' + 1)..Len(bbs[at].code)
        PROVE  i = pos \/ (i # pos /\ i \in (pos + 1)..Len(bbs[at].code))
    BY <1>1, <1>2
  <2>7. ASSUME NEW i \in (pos' + 1)..Len(bbs[at].code)
        PROVE  U[i - 1] = Before(bbs[at].code[i], U[i])
    <3>1. CASE i = pos
      BY <1>2, <2>3, <3>1 DEF inst
    <3>2. CASE i \in (pos + 1)..Len(bbs[at].code)
      BY <2>1, <2>5, <3>2 DEF Exact
    <3> QED
      BY <2>6, <3>1, <3>2
  <2>8. Exact(U, at, pos)'
    <3>1. U[Len(bbs[at].code)] = NeededAfter(at)
      BY <2>1, <2>4 DEF Exact
    <3> QED
      BY <1>2, <2>7, <3>1 DEF Exact, NeededAfter
  <2>9. ASSUME NEW i \in (pos' + 1)..Len(bbs[at].code)
        PROVE  i \in dead'[at] <=> ~IsLive(bbs[at].code[i], U[i])
    <3>1. dead'[at] = IF IsLive(inst, need) THEN dead[at] \ {pos} ELSE dead[at] \cup {pos}
      BY <1>1, <1>2
    <3>2. CASE i = pos
      BY <2>3, <3>1, <3>2 DEF inst
    <3>3. CASE i # pos /\ i \in (pos + 1)..Len(bbs[at].code)
      <4>1. i \in dead[at] <=> ~IsLive(bbs[at].code[i], V[i])
        BY <2>1, <3>3 DEF Marked
      <4>2. i \in dead'[at] <=> i \in dead[at]
        BY <3>1, <3>3
      <4> QED
        BY <2>5, <3>3, <4>1, <4>2
    <3> QED
      BY <2>6, <3>2, <3>3
  <2>10. Marked(U, at, pos)'
    BY <1>2, <2>9 DEF Marked
  <2> QED
    BY <1>2, <2>3, <2>8, <2>10 DEF PartlySolved
<1> QED
  BY <1>2, <1>3, <1>4, <1>5 DEF SolveInv

\* when a block is left,
LEMMA LeaveBlockSolve ==
    ASSUME SolveInv, LeaveBlock
    PROVE  SolveInv'
<1>1. /\ at \in Blocks /\ at \in Nat /\ alives = [b \in Blocks |-> alives[b]] /\ MaskType
      /\ \A b \in Blocks : b \in Nat
  BY DEF SolveInv, LeaveBlock, MaskType, GraphOK, Blocks
<1>2. /\ bbs' = bbs /\ dead' = dead /\ at' = at + 1 /\ pos' = pos /\ pos = 0
      /\ alives' = [alives EXCEPT ![at] = need]
      /\ update' = (update \/ alives[at] # need)
      /\ stage = "inst" /\ stage' = "block"
  BY DEF LeaveBlock
<1>3. MaskType'
  BY <1>1, <1>2 DEF MaskType, Blocks
<1>4. ASSUME ~update', NEW b \in Blocks', b < at' PROVE Solved(b)'
  <2>1. ~update /\ alives[at] = need
    BY <1>2, <1>4
  <2>2. alives' = alives
    BY <1>1, <1>2, <2>1
  <2>3. b \in Blocks /\ (b = at \/ b < at)
    BY <1>1, <1>2, <1>4 DEF Blocks
  <2>4. CASE b = at
    <3>1. PICK V : Exact(V, at, 0) /\ V[0] = need /\ Marked(V, at, 0)
      BY <1>2 DEF SolveInv, PartlySolved
    <3>2. Solved(b)
      BY <2>1, <2>4, <3>1 DEF Solved
    <3> QED
      BY <1>2, <2>2, <3>2, SolvedSame
  <2>5. CASE b < at
    <3>1. Solved(b)
      BY <1>2, <2>1, <2>3, <2>5 DEF SolveInv
    <3> QED
      BY <1>2, <2>2, <3>1, SolvedSame
  <2> QED
    BY <2>3, <2>4, <2>5
<1> QED
  BY <1>2, <1>3, <1>4 DEF SolveInv

\* at the end of a round,
LEMMA EndRoundSolve ==
    ASSUME SolveInv, EndRound
    PROVE  SolveInv'
<1>1. /\ MaskType /\ DOMAIN dead = Blocks /\ at \in Nat /\ at # 0 /\ at \notin Blocks
      /\ Blocks = 1..Len(bbs) /\ Len(bbs) \in Nat
      /\ \A b \in Blocks : Len(bbs[b].code) \in Nat
  BY DEF SolveInv, EndRound, MaskType, GraphOK, Blocks
<1>2. /\ bbs' = bbs /\ alives' = alives /\ at' = 1 /\ pos' = pos
      /\ stage = "block" /\ stage' = (IF update THEN "block" ELSE "masked")
      /\ dead' = [dead EXCEPT ![1] = {i \in @ : ~(/\ bbs[1].code[i].op = "alloc"
                                                  /\ bbs[1].code[i].dst \in allocVar)}]
  BY DEF EndRound
<1>3. MaskType'
  BY <1>1, <1>2 DEF MaskType, Blocks
<1>4. \A b \in Blocks' : ~(b < at')
  BY <1>1, <1>2 DEF Blocks
<1>5. ASSUME ~update, NEW b \in Blocks PROVE SolvedButAllocs(b)'
  <2>1. b < at
    BY <1>1
  <2>2. PICK V : Exact(V, b, 0) /\ V[0] = alives[b] /\ Marked(V, b, 0)
    BY <1>2, <1>5, <2>1 DEF SolveInv, Solved
  <2>3. Exact(V, b, 0)'
    BY <1>2, <2>2, ExactSame
  <2>4. /\ dead'[b] \subseteq dead[b]
        /\ \A i \in dead[b] \ dead'[b] : bbs[b].code[i].op = "alloc"
    BY <1>1, <1>2
  <2>5. ASSUME NEW i \in 1..Len(bbs[b].code)
        PROVE  i \in dead[b] <=> ~IsLive(bbs[b].code[i], V[i])
    <3>1. i \in (0 + 1)..Len(bbs[b].code)
      BY <1>1
    <3> QED
      BY <2>2, <3>1 DEF Marked
  <2>6. ASSUME NEW i \in 1..Len(bbs[b].code)
        PROVE  /\ i \in dead'[b] => ~IsLive(bbs[b].code[i], V[i])
               /\ i \notin dead'[b] => \/ IsLive(bbs[b].code[i], V[i])
                                      \/ bbs[b].code[i].op = "alloc"
    BY <2>4, <2>5
  <2> QED
    BY <1>2, <2>2, <2>3, <2>6 DEF SolvedButAllocs
<1>6. \A b \in Blocks : b \in Blocks'
  BY <1>2 DEF Blocks
<1> QED
  BY <1>2, <1>3, <1>4, <1>5, <1>6 DEF SolveInv, Blocks

\* and when nothing happens.
LEMMA StutterSolve ==
    ASSUME SolveInv, UNCHANGED maskVars
    PROVE  SolveInv'
<1> USE DEF SolveInv, maskVars
<1>1. MaskType' /\ Blocks' = Blocks
  BY DEF MaskType, Blocks
<1>2. \A b \in Blocks : Solved(b) => Solved(b)'
  BY SolvedSame
<1>3. PartlySolved => PartlySolved'
  BY ExactSame DEF PartlySolved, Marked
<1>4. \A b \in Blocks : SolvedButAllocs(b) => SolvedButAllocs(b)'
  BY ExactSame DEF SolvedButAllocs
<1> QED
  BY <1>1, <1>2, <1>3, <1>4

\* When maskDeadInst returns, the sets it has kept solve the liveness
\* equations of the whole graph, not only those of the last block it changed,
\* and no instruction is dead that this solution needs; the only ones kept
\* without need are allocations, for the stores to them.
THEOREM MaskedIsSolution ==
    ASSUME NEW g, GraphOK(g)
    PROVE  MaskSpec(g) => [](stage = "masked" => \A b \in Blocks : SolvedButAllocs(b))
<1>1. MaskInit(g) => SolveInv
  BY InitSolve
<1>2. SolveInv /\ [MaskNext]_maskVars => SolveInv'
  BY EnterBlockSolve, MaskInstSolve, LeaveBlockSolve, EndRoundSolve, StutterSolve DEF MaskNext
<1>3. SolveInv => (stage = "masked" => \A b \in Blocks : SolvedButAllocs(b))
  BY DEF SolveInv
<1> QED
  BY <1>1, <1>2, <1>3, PTL DEF MaskSpec

-----------------------------------------------------------------------------
(* Only values that have been defined are needed *)

\* Whatever is needed at a place has been defined there.
DefInv(g, D) ==
    /\ bbs = g
    /\ stage = "inst" => at \in Blocks /\ pos \in 0..Len(bbs[at].code)
    /\ DOMAIN alives = Blocks
    /\ \A b \in Blocks : OfResult(alives[b]) \subseteq D[b]
    /\ stage = "inst" => OfResult(need) \subseteq D[at] \cup ResultsUpTo(bbs, at, pos)

\* An instruction uses its arguments.
LEMMA UsesArgs ==
    ASSUME NEW inst, InstOK(inst)
    PROVE  Uses(inst) \subseteq Elems(inst.args)
<1>1. CASE inst.op = "store"
  BY <1>1 DEF Uses, InstOK, Elems
<1>2. CASE inst.op # "store"
  BY <1>2 DEF Uses
<1> QED
  BY <1>1, <1>2

\* What is needed before an instruction has been defined before it.
LEMMA BeforeDefined ==
    ASSUME NEW g, NEW D, Closed(g), DefinedFirst(g, D), NEW b \in DOMAIN g,
           NEW i \in DOMAIN g[b].code, NEW after, OfResult(after) \subseteq D[b] \cup ResultsUpTo(g, b, i)
    PROVE  OfResult(Before(g[b].code[i], after)) \subseteq D[b] \cup ResultsUpTo(g, b, i - 1)
<1>. DEFINE inst == g[b].code[i]
<1>1. i \in Nat /\ \A k \in 1..i : k = i \/ k \in 1..(i - 1)
  BY DEF Closed, GraphOK
<1>2. Before(inst, after) \subseteq (after \cup Elems(inst.args)) \ {inst.dst}
  <2>1. Uses(inst) \subseteq Elems(inst.args)
    BY UsesArgs DEF Closed
  <2> QED
    BY <2>1 DEF Before
<1> QED
  BY <1>1, <1>2 DEF DefinedFirst, OfResult, ResultsUpTo

\* What the successors of a block need has been defined at its end.
LEMMA NeededAfterDefined ==
    ASSUME NEW g, NEW D, Closed(g), DefinedFirst(g, D), DefInv(g, D), NEW b \in Blocks
    PROVE  OfResult(NeededAfter(b)) \subseteq D[b] \cup ResultsUpTo(bbs, b, Len(bbs[b].code))
<1>1. bbs = g /\ Elems(g[b].succ) \subseteq Blocks
  BY DEF DefInv, Closed, GraphOK, Blocks
<1>2. \A s \in Elems(g[b].succ) :
         OfResult(alives[s]) \subseteq D[b] \cup ResultsUpTo(g, b, Len(g[b].code))
  BY <1>1 DEF DefInv, DefinedFirst, Blocks
<1> QED
  BY <1>1, <1>2 DEF NeededAfter, OfResult

\* At first nothing is needed.
LEMMA DefInvInit ==
    ASSUME NEW g, NEW D, Closed(g), DefinedFirst(g, D), MaskInit(g)
    PROVE  DefInv(g, D)
BY DEF MaskInit, DefInv, Blocks, OfResult

\* Every step keeps that what is needed has been defined.
LEMMA DefInvNext ==
    ASSUME NEW g, NEW D, Closed(g), DefinedFirst(g, D), DefInv(g, D), [MaskNext]_maskVars
    PROVE  DefInv(g, D)'
<1>1. CASE EnterBlock
  <2>1. at \in Blocks /\ Len(bbs[at].code) \in Nat
    BY <1>1 DEF EnterBlock, DefInv, Closed, GraphOK, Blocks
  <2>2. OfResult(NeededAfter(at)) \subseteq D[at] \cup ResultsUpTo(bbs, at, Len(bbs[at].code))
    BY <2>1, NeededAfterDefined
  <2> QED
    BY <1>1, <2>1, <2>2 DEF EnterBlock, DefInv, Blocks
<1>2. CASE MaskInst
  <2>1. /\ at \in DOMAIN g /\ pos \in 0..Len(g[at].code) /\ pos > 0 /\ bbs = g
        /\ OfResult(need) \subseteq D[at] \cup ResultsUpTo(g, at, pos)
        /\ DOMAIN g[at].code = 1..Len(g[at].code) /\ Len(g[at].code) \in Nat
    BY <1>2 DEF MaskInst, DefInv, Closed, GraphOK, Blocks
  <2>2. pos \in DOMAIN g[at].code /\ pos - 1 \in 0..Len(g[at].code)
    BY <2>1
  <2>3. OfResult(Before(g[at].code[pos], need)) \subseteq D[at] \cup ResultsUpTo(g, at, pos - 1)
    BY <2>1, <2>2, BeforeDefined
  <2>4. /\ bbs' = bbs /\ alives' = alives /\ at' = at /\ stage' = stage /\ pos' = pos - 1
        /\ need' = Before(g[at].code[pos], need)
    BY <1>2, <2>1 DEF MaskInst
  <2> QED
    BY <2>1, <2>2, <2>3, <2>4 DEF DefInv, Blocks
<1>3. CASE LeaveBlock
  <2>1. OfResult(need) \subseteq D[at] \cup ResultsUpTo(bbs, at, 0)
    BY <1>3 DEF LeaveBlock, DefInv
  <2>2. OfResult(need) \subseteq D[at]
    BY <2>1 DEF ResultsUpTo
  <2> QED
    BY <1>3, <2>2 DEF LeaveBlock, DefInv, Blocks
<1>4. CASE EndRound
  BY <1>4 DEF EndRound, DefInv, Blocks
<1>5. CASE UNCHANGED maskVars
  BY <1>5 DEF maskVars, DefInv, Blocks
<1> QED
  BY <1>1, <1>2, <1>3, <1>4, <1>5 DEF MaskNext

-----------------------------------------------------------------------------
(* The allocations that are stored to are kept *)

\* The round has seen the stores of block b after lo.
StoresSeen(b, lo) ==
    \A i \in (lo + 1)..Len(bbs[b].code) :
        IsLocalStore(bbs[b].code[i]) /\ i \notin dead[b] => bbs[b].code[i].args[2] \in allocVar

AllocsKept ==
    \A b \in Blocks : \A i \in 1..Len(bbs[b].code) : \A k \in 1..Len(bbs[1].code) :
        /\ IsLocalStore(bbs[b].code[i]) /\ i \notin dead[b]
        /\ bbs[1].code[k].op = "alloc" /\ bbs[1].code[k].dst = bbs[b].code[i].args[2]
        => k \notin dead[1]

\* Jumps are never dead.
JumpsKept ==
    \A b \in Blocks : dead[b] \subseteq {i \in 1..Len(bbs[b].code) : ~IsTerminator(bbs[b].code[i])}

StoreInv(g) ==
    /\ bbs = g
    /\ stage \in {"block", "inst", "masked"}
    /\ at \in Nat \ {0} /\ DOMAIN dead = Blocks
    /\ stage = "inst" => at \in Blocks /\ pos \in 0..Len(bbs[at].code) /\ StoresSeen(at, pos)
    /\ stage # "masked" => \A b \in Blocks : b < at => StoresSeen(b, 0)
    /\ stage = "masked" => AllocsKept
    /\ JumpsKept

\* At first nothing is dead.
LEMMA StoreInvInit ==
    ASSUME NEW g, Closed(g), MaskInit(g)
    PROVE  StoreInv(g)
<1>1. \A b \in Blocks : ~(b < at)
  BY DEF MaskInit, Closed, GraphOK, Blocks
<1> QED
  BY <1>1 DEF MaskInit, StoreInv, Blocks, JumpsKept

\* Every step keeps that allocations that are stored to stay.
LEMMA StoreInvNext ==
    ASSUME NEW g, Closed(g), StoreInv(g), [MaskNext]_maskVars
    PROVE  StoreInv(g)'
<1>0. /\ bbs = g /\ Blocks = 1..Len(g) /\ Len(g) \in Nat /\ DOMAIN dead = Blocks /\ at \in Nat /\ at # 0
      /\ \A b \in Blocks : Len(bbs[b].code) \in Nat
  BY DEF StoreInv, Closed, GraphOK, Blocks
<1>1. CASE EnterBlock
  <2>1. /\ bbs' = bbs /\ dead' = dead /\ allocVar' = allocVar /\ at' = at
        /\ stage = "block" /\ stage' = "inst" /\ pos' = Len(bbs[at].code) /\ at \in Blocks
    BY <1>1 DEF EnterBlock
  <2>2. StoresSeen(at, pos)'
    BY <1>0, <2>1 DEF StoresSeen
  <2>3. \A b \in Blocks : b < at => StoresSeen(b, 0)'
    BY <2>1 DEF StoresSeen, StoreInv
  <2> QED
    BY <1>0, <2>1, <2>2, <2>3 DEF StoreInv, JumpsKept, Blocks
<1>2. CASE MaskInst
  <2>i. PICK inst : inst = bbs[at].code[pos]
    OBVIOUS
  <2>1. /\ bbs' = bbs /\ at' = at /\ stage = "inst" /\ stage' = "inst" /\ pos' = pos - 1
        /\ at \in Blocks /\ pos \in 0..Len(bbs[at].code) /\ pos > 0
        /\ dead' = [dead EXCEPT ![at] = IF IsLive(inst, need) THEN @ \ {pos} ELSE @ \cup {pos}]
        /\ allocVar' = IF IsLocalStore(inst) /\ IsLive(inst, need)
                       THEN allocVar \cup {inst.args[2]} ELSE allocVar
    BY <1>2, <2>i DEF MaskInst, StoreInv
  <2>2. /\ allocVar \subseteq allocVar'
        /\ \A b \in Blocks : b # at => dead'[b] = dead[b]
        /\ dead'[at] = IF IsLive(inst, need) THEN dead[at] \ {pos} ELSE dead[at] \cup {pos}
    BY <1>0, <2>1
  <2>3. \A b \in Blocks : b < at => StoresSeen(b, 0)'
    BY <1>0, <2>1, <2>2 DEF StoresSeen, StoreInv
  <2>4. StoresSeen(at, pos)'
    <3>1. ASSUME NEW i \in (pos - 1 + 1)..Len(bbs[at].code),
                 IsLocalStore(bbs[at].code[i]), i \notin dead'[at]
          PROVE  bbs[at].code[i].args[2] \in allocVar'
      <4>1. CASE i = pos
        BY <2>1, <2>2, <2>i, <3>1, <4>1
      <4>2. CASE i # pos
        <5>1. i \in (pos + 1)..Len(bbs[at].code) /\ i \notin dead[at]
          BY <1>0, <2>1, <2>2, <3>1, <4>2
        <5> QED
          BY <2>1, <2>2, <3>1, <5>1 DEF StoreInv, StoresSeen
      <4> QED
        BY <4>1, <4>2
    <3> QED
      BY <2>1, <3>1 DEF StoresSeen
  <2>5. JumpsKept'
    <3>1. ~IsLive(inst, need) => ~IsTerminator(inst)
      BY DEF IsLive, IsTerminator
    <3>2. pos \in 1..Len(bbs[at].code)
      BY <1>0, <2>1
    <3>3. ASSUME NEW b \in Blocks
          PROVE  dead'[b] \subseteq {i \in 1..Len(bbs[b].code) : ~IsTerminator(bbs[b].code[i])}
      <4>1. dead[b] \subseteq {i \in 1..Len(bbs[b].code) : ~IsTerminator(bbs[b].code[i])}
        BY DEF StoreInv, JumpsKept
      <4>2. CASE b = at
        BY <2>2, <2>i, <3>1, <3>2, <4>1, <4>2
      <4>3. CASE b # at
        BY <2>2, <4>1, <4>3
      <4> QED
        BY <4>2, <4>3
    <3> QED
      BY <2>1, <3>3 DEF JumpsKept, Blocks
  <2>6. pos - 1 \in 0..Len(bbs[at].code)
    BY <1>0, <2>1
  <2> QED
    BY <1>0, <2>1, <2>3, <2>4, <2>5, <2>6 DEF StoreInv, Blocks
<1>3. CASE LeaveBlock
  <2>1. /\ bbs' = bbs /\ dead' = dead /\ allocVar' = allocVar /\ at' = at + 1
        /\ stage = "inst" /\ stage' = "block" /\ pos = 0
    BY <1>3 DEF LeaveBlock
  <2>2. ASSUME NEW b \in Blocks, b < at + 1 PROVE StoresSeen(b, 0)
    <3>1. b < at \/ b = at
      BY <1>0, <2>2
    <3> QED
      BY <2>1, <3>1 DEF StoreInv
  <2>3. \A b \in Blocks : b < at' => StoresSeen(b, 0)'
    BY <2>1, <2>2 DEF StoresSeen
  <2> QED
    BY <1>0, <2>1, <2>3 DEF StoreInv, JumpsKept, Blocks
<1>4. CASE EndRound
  <2>1. /\ bbs' = bbs /\ at' = 1 /\ stage = "block" /\ stage' \in {"block", "masked"} /\ at \notin Blocks
        /\ dead' = [dead EXCEPT ![1] = {i \in @ : ~(/\ bbs[1].code[i].op = "alloc"
                                                    /\ bbs[1].code[i].dst \in allocVar)}]
    BY <1>4 DEF EndRound
  <2>2. /\ \A b \in Blocks : dead'[b] \subseteq dead[b]
        /\ \A b \in Blocks : \A i \in dead[b] \ dead'[b] : bbs[b].code[i].op = "alloc"
        /\ 1 \in Blocks => dead'[1] = {i \in dead[1] : ~(/\ bbs[1].code[i].op = "alloc"
                                                         /\ bbs[1].code[i].dst \in allocVar)}
    BY <1>0, <2>1
  <2>3. \A b \in Blocks : b < at
    BY <1>0, <2>1
  <2>4. ASSUME NEW b \in Blocks, NEW i \in 1..Len(bbs[b].code), NEW k \in 1..Len(bbs[1].code),
               IsLocalStore(bbs[b].code[i]), i \notin dead'[b],
               bbs[1].code[k].op = "alloc", bbs[1].code[k].dst = bbs[b].code[i].args[2]
        PROVE  k \notin dead'[1]
    <3>1. i \notin dead[b]
      BY <2>2, <2>4 DEF IsLocalStore
    <3>2. i \in (0 + 1)..Len(bbs[b].code)
      BY <1>0
    <3>3. bbs[b].code[i].args[2] \in allocVar
      BY <2>1, <2>3, <2>4, <3>1, <3>2 DEF StoreInv, StoresSeen
    <3>4. 1 \in Blocks
      BY <1>0 
    <3> QED
      BY <2>2, <2>4, <3>3, <3>4
  <2>5. AllocsKept'
    BY <2>1, <2>4 DEF AllocsKept, Blocks
  <2>6. JumpsKept'
    BY <2>1, <2>2 DEF StoreInv, JumpsKept, Blocks
  <2>7. \A b \in Blocks : ~(b < 1)
    BY <1>0
  <2> QED
    BY <1>0, <2>1, <2>5, <2>6, <2>7 DEF StoreInv, Blocks
<1>5. CASE UNCHANGED maskVars
  BY <1>5 DEF maskVars, StoreInv, Blocks, StoresSeen, AllocsKept, JumpsKept
<1> QED
  BY <1>1, <1>2, <1>3, <1>4, <1>5 DEF MaskNext

-----------------------------------------------------------------------------
(* No instruction that a run comes to needs what is dead *)

\* What holds of the graph and of the marks when maskDeadInst has returned.
MaskInv(g, D) == SolveInv /\ DefInv(g, D) /\ StoreInv(g)

\* MaskInv, for a graph in which values are defined before they are used.
Returned(g, D) == Closed(g) /\ DefinedFirst(g, D) /\ MaskInv(g, D) /\ stage = "masked"

\* v is the result of instruction i0 of block b0, which is dead.
DeadResult(v, b0, i0) ==
    /\ b0 \in Blocks /\ i0 \in DOMAIN bbs[b0].code /\ i0 \in dead[b0]
    /\ v = bbs[b0].code[i0].dst /\ v # None

\* V is the solution for block b, and the block is marked as V asks for.
Solution(V, b) ==
    /\ Exact(V, b, 0)
    /\ V[0] = alives[b]
    /\ \A i \in 1..Len(bbs[b].code) :
          /\ i \in dead[b] => ~IsLive(bbs[b].code[i], V[i])
          /\ i \notin dead[b] => \/ IsLive(bbs[b].code[i], V[i])
                                \/ bbs[b].code[i].op = "alloc"

\* What the graph says of one instruction.
LEMMA OneInstruction ==
    ASSUME NEW g, NEW D, Returned(g, D), NEW b \in Blocks, NEW i \in DOMAIN bbs[b].code
    PROVE  /\ InstOK(bbs[b].code[i])
           /\ i \in 1..Len(bbs[b].code) /\ i \in (0 + 1)..Len(bbs[b].code)
           /\ Len(bbs[b].code) \in Nat /\ i \in Nat /\ i - 1 \in 0..Len(bbs[b].code)
<1>1. bbs = g /\ Blocks = DOMAIN g
  BY DEF Returned, MaskInv, StoreInv, Blocks
<1>2. InstOK(bbs[b].code[i]) /\ DOMAIN bbs[b].code = 1..Len(bbs[b].code) /\ Len(bbs[b].code) \in Nat
  BY <1>1 DEF Returned, Closed, GraphOK
<1> QED
  BY <1>2

\* A dead value has the one definition.
LEMMA OneDefinition ==
    ASSUME NEW g, NEW D, Returned(g, D), NEW v, NEW b0, NEW i0, DeadResult(v, b0, i0)
    PROVE  /\ v.kind = "result" /\ v.by = bbs[b0].code[i0].op
           /\ v.by = "alloc" => b0 = 1
           /\ \A b \in Blocks : \A i \in DOMAIN bbs[b].code :
                 bbs[b].code[i].dst = v => b = b0 /\ i = i0
<1>1. bbs = g /\ Blocks = DOMAIN g
  BY DEF Returned, MaskInv, StoreInv, Blocks
<1>2. Closed(g)
  BY DEF Returned
<1>3. b0 \in DOMAIN g /\ i0 \in DOMAIN g[b0].code /\ v = g[b0].code[i0].dst /\ v # None
  BY <1>1 DEF DeadResult
<1>4. InstOK(g[b0].code[i0]) /\ (g[b0].code[i0].op = "alloc" => b0 = 1)
  BY <1>2, <1>3 DEF Closed
<1>5. v.kind = "result" /\ v.by = g[b0].code[i0].op
  BY <1>3, <1>4 DEF InstOK
<1>6. ASSUME NEW b \in DOMAIN g, NEW i \in DOMAIN g[b].code, g[b].code[i].dst = v
      PROVE  b = b0 /\ i = i0
  <2>1. <<b, i>> = <<b0, i0>>
    BY <1>2, <1>3, <1>6 DEF Closed
  <2> QED
    BY <2>1
<1> QED
  BY <1>1, <1>4, <1>5, <1>6

\* Nothing that stays writes to a dead allocation.
LEMMA NoStoreToDead ==
    ASSUME NEW g, NEW D, Returned(g, D), NEW v, NEW b0, NEW i0, DeadResult(v, b0, i0),
           NEW b \in Blocks, NEW i \in DOMAIN bbs[b].code, i \notin dead[b],
           bbs[b].code[i].op = "store"
    PROVE  bbs[b].code[i].args[2] = v => v.by = "gep"
<1> SUFFICES ASSUME bbs[b].code[i].args[2] = v, v.by # "gep" PROVE FALSE
  OBVIOUS
<1>1. v.kind = "result" /\ v.by = bbs[b0].code[i0].op /\ (v.by = "alloc" => b0 = 1)
  BY OneDefinition
<1>2. InstOK(bbs[b].code[i]) /\ i \in 1..Len(bbs[b].code)
  BY OneInstruction
<1>3. v.by = "alloc" /\ IsLocalStore(bbs[b].code[i])
  BY <1>1, <1>2 DEF InstOK, IsLocalStore
<1>4. b0 = 1 /\ bbs[b0].code[i0].op = "alloc" /\ bbs[b0].code[i0].dst = v
      /\ b0 \in Blocks /\ i0 \in DOMAIN bbs[b0].code /\ i0 \in dead[b0]
  BY <1>1, <1>3 DEF DeadResult
<1>5. i0 \in 1..Len(bbs[1].code)
  BY <1>4, OneInstruction
<1>6. AllocsKept
  BY DEF Returned, MaskInv, StoreInv
<1> QED
  BY <1>2, <1>3, <1>4, <1>5, <1>6 DEF AllocsKept

\* Where a dead value would be needed after an instruction, it would be
\* needed before it.
LEMMA NeededOneBack ==
    ASSUME NEW g, NEW D, Returned(g, D), NEW v, NEW b0, NEW i0, DeadResult(v, b0, i0),
           NEW b \in Blocks, NEW V, Solution(V, b), NEW i \in DOMAIN bbs[b].code, v \in V[i]
    PROVE  v \in V[i - 1]
<1>i. PICK inst : inst = bbs[b].code[i]
  OBVIOUS
<1>1. InstOK(inst) /\ i \in 1..Len(bbs[b].code) /\ i \in (0 + 1)..Len(bbs[b].code)
  BY <1>i, OneInstruction
<1>2. V[i - 1] = Before(inst, V[i]) /\ (i \in dead[b] => ~IsLive(inst, V[i]))
  BY <1>1, <1>i DEF Solution, Exact
<1>3. v # inst.dst
  <2>1. SUFFICES ASSUME v = inst.dst PROVE FALSE
    OBVIOUS
  <2>2. i \in dead[b]
    <3>1. bbs[b].code[i].dst = v
      BY <1>i, <2>1
    <3>2. b = b0 /\ i = i0
      BY <3>1, OneDefinition
    <3> QED
      BY <3>2 DEF DeadResult
  <2>3. inst.op # "store"
    BY <1>1, <2>1 DEF InstOK, DeadResult
  <2> QED
    BY <1>2, <2>1, <2>2, <2>3 DEF IsLive
<1>4. CASE ~IsLive(inst, V[i])
  BY <1>2, <1>3, <1>4 DEF Before
<1>5. CASE IsLive(inst, V[i])
  <2>1. i \notin dead[b]
    BY <1>2, <1>5
  <2>2. IsLocalStore(inst) => inst.args[2] # v
    BY <1>i, <2>1, NoStoreToDead DEF IsLocalStore
  <2> QED
    BY <1>2, <1>3, <1>5, <2>2 DEF Before
<1> QED
  BY <1>4, <1>5

\* And so back to the start of the block.
LEMMA NeededAtStart ==
    ASSUME NEW g, NEW D, Returned(g, D), NEW v, NEW b0, NEW i0, DeadResult(v, b0, i0),
           NEW b \in Blocks, NEW V, Solution(V, b), NEW i \in 0..Len(bbs[b].code), v \in V[i]
    PROVE  v \in alives[b]
<1>n. i \in Nat /\ DOMAIN bbs[b].code = 1..Len(bbs[b].code) /\ Len(bbs[b].code) \in Nat
  <2>1. bbs = g
    BY DEF Returned, MaskInv, StoreInv
  <2> QED
    BY <2>1 DEF Returned, Closed, GraphOK, Blocks
<1>t. PICK T : T = {k \in 0..i : v \in V[i - k]}
  OBVIOUS
<1>1. 0 \in T
  <2>1. i - 0 = i /\ 0 \in 0..i
    BY <1>n
  <2> QED
    BY <1>t, <2>1
<1>2. ASSUME NEW k \in 1..i, k - 1 \in T PROVE k \in T
  <2>1. i - (k - 1) \in 1..Len(bbs[b].code) /\ (i - (k - 1)) - 1 = i - k /\ k \in 0..i
    BY <1>n
  <2>2. v \in V[i - (k - 1)]
    BY <1>2, <1>t
  <2>3. v \in V[(i - (k - 1)) - 1]
    BY <1>n, <2>1, <2>2, NeededOneBack
  <2> QED
    BY <1>t, <2>1, <2>3
<1>3. \A k \in 0..i : k \in T
  BY <1>n, <1>1, <1>2, UpTo
<1>4. i \in 0..i /\ i - i = 0
  BY <1>n
<1>5. v \in V[0]
  BY <1>3, <1>4, <1>t
<1> QED
  BY <1>5 DEF Solution

\* There is a solution for every block.
LEMMA SolutionExists ==
    ASSUME NEW g, NEW D, Returned(g, D), NEW b \in Blocks
    PROVE  \E V : Solution(V, b)
<1>1. SolvedButAllocs(b)
  BY DEF Returned, MaskInv, SolveInv
<1> QED
  BY <1>1 DEF SolvedButAllocs, Solution

-----------------------------------------------------------------------------
(* Where a run can come to *)

\* The steps of ReachedAvoiding.
IsSteps(steps, avoided) ==
    /\ steps[0] = {1}
    /\ \A k \in 1..Len(bbs) :
          steps[k] = steps[k - 1] \cup UNION {Elems(bbs[b].succ) : b \in steps[k - 1] \ avoided}

\* ReachedAvoiding is what its steps come to.
LEMMA StepsExist ==
    ASSUME GraphOK(bbs), Len(bbs) > 0, NEW avoided
    PROVE  \E steps : IsSteps(steps, avoided) /\ ReachedAvoiding(avoided) = steps[Len(bbs)]
<1>n. PICK n : n \in Nat /\ n = Len(bbs)
  BY DEF GraphOK
<1> DEFINE Grow(B) == B \cup UNION {Elems(bbs[b].succ) : b \in B \ avoided}
<1>D. PICK D : D = SUBSET Blocks
  OBVIOUS
<1>1. PICK F : F = [z \in (1..n) \X D |-> Grow(z[2])]
  OBVIOUS
<1>2. F \in [(1..n) \X D -> D]
  <2>1. ASSUME NEW z \in (1..n) \X D PROVE Grow(z[2]) \in D
    <3>1. z[2] \subseteq Blocks
      BY <1>D
    <3>2. \A b \in Blocks : Elems(bbs[b].succ) \subseteq Blocks
      BY DEF GraphOK, Blocks
    <3> QED
      BY <1>D, <3>1, <3>2
  <2> HIDE DEF Grow
  <2> QED
    BY <1>1, <2>1
<1>3. {1} \in D
  BY <1>D DEF GraphOK, Blocks
<1>4. PICK h : IsRecursion(h, n, D, {1}, F)
  BY <1>n, <1>2, <1>3, RecursionUpTo
<1>5. h \in [0..n -> D] /\ h[0] = {1}
  BY <1>4 DEF IsRecursion
<1>6. ASSUME NEW k \in 1..n PROVE h[k] = Grow(h[k - 1])
  <2>1. k - 1 \in 0..n
    BY <1>n
  <2>2. <<k, h[k - 1]>> \in (1..n) \X D
    BY <1>5, <2>1
  <2>3. h[k] = F[<<k, h[k - 1]>>]
    BY <1>4 DEF IsRecursion
  <2> HIDE DEF Grow
  <2> QED
    BY <1>1, <2>2, <2>3
<1> DEFINE Is(z) == z = [k \in 0..Len(bbs) |->
                           IF k = 0 THEN {1}
                           ELSE LET before == z[k - 1]
                                IN before \cup UNION {Elems(bbs[b].succ) : b \in before \ avoided}]
<1>7. Is(h)
  <2>1. ASSUME NEW k \in 0..n PROVE h[k] = IF k = 0 THEN {1} ELSE Grow(h[k - 1])
    <3>1. k = 0 \/ k \in 1..n
      BY <1>n
    <3> HIDE DEF Grow
    <3> QED
      BY <1>5, <1>6, <3>1
  <2>2. h = [k \in 0..n |-> IF k = 0 THEN {1} ELSE Grow(h[k - 1])]
    <3> HIDE DEF Grow
    <3> QED
      BY <1>5, <2>1
  <2> QED
    BY <1>n, <2>2
<1>8. ReachedAvoiding(avoided) = (CHOOSE z : Is(z))[Len(bbs)]
  BY DEF ReachedAvoiding
<1> HIDE DEF Is
<1>9. PICK z : Is(z) /\ ReachedAvoiding(avoided) = z[Len(bbs)]
  BY <1>7, <1>8, Zenon
<1>10. IsSteps(z, avoided)
  <2>1. z = [k \in 0..n |-> IF k = 0 THEN {1} ELSE Grow(z[k - 1])]
    BY <1>9, <1>n DEF Is
  <2>2. z[0] = {1}
    BY <1>n, <2>1
  <2>3. ASSUME NEW k \in 1..Len(bbs) PROVE z[k] = Grow(z[k - 1])
    <3>1. k \in 0..n /\ k # 0
      BY <1>n
    <3> HIDE DEF Grow
    <3> QED
      BY <2>1, <3>1
  <2> QED
    BY <2>2, <2>3 DEF IsSteps
<1> QED
  BY <1>9, <1>10

\* A dead value is not needed where a block begins that a run can come to.
LEMMA NotNeededAtStart ==
    ASSUME NEW g, NEW D, Returned(g, D), NEW v, NEW b0, NEW i0, DeadResult(v, b0, i0)
    PROVE  \A b \in Reachable : b \in Blocks /\ v \notin alives[b]
<1>1. bbs = g /\ Closed(g) /\ DefinedFirst(g, D) /\ DefInv(g, D) /\ Blocks = DOMAIN g
  BY DEF Returned, MaskInv, StoreInv, Blocks
<1>2. GraphOK(bbs) /\ Len(bbs) > 0 /\ 1 \in Blocks
  BY <1>1 DEF Closed, GraphOK
<1>3. PICK steps : IsSteps(steps, {}) /\ Reachable = steps[Len(bbs)]
  BY <1>2, StepsExist DEF Reachable
<1>n. PICK n : n \in Nat /\ n = Len(bbs)
  BY <1>2 DEF GraphOK
<1>f. PICK Free : Free = {b \in Blocks : v \notin alives[b]}
  OBVIOUS
<1>t. PICK T : T = {k \in 0..n : steps[k] \subseteq Free}
  OBVIOUS
<1>4. 0 \in T
  <2>1. v.kind = "result"
    BY OneDefinition
  <2>2. OfResult(alives[1]) \subseteq {}
    BY <1>1, <1>2 DEF DefInv, DefinedFirst
  <2>3. v \notin alives[1]
    BY <2>1, <2>2 DEF OfResult
  <2> QED
    BY <1>2, <1>3, <1>n, <1>f, <1>t, <2>3 DEF IsSteps
<1>5. ASSUME NEW b \in Free, NEW s \in Elems(bbs[b].succ) PROVE s \in Free
  <2>1. b \in Blocks /\ v \notin alives[b]
    BY <1>f
  <2>2. s \in Blocks
    BY <1>2, <2>1 DEF GraphOK, Blocks
  <2>3. SUFFICES ASSUME v \in alives[s] PROVE FALSE
    BY <1>f, <2>2
  <2>4. v \in NeededAfter(b)
    BY <2>3 DEF NeededAfter
  <2>5. PICK V : Solution(V, b)
    BY <2>1, SolutionExists
  <2>6. v \in V[Len(bbs[b].code)]
    BY <2>4, <2>5 DEF Solution, Exact
  <2>7. Len(bbs[b].code) \in 0..Len(bbs[b].code)
    BY <1>2, <2>1 DEF GraphOK, Blocks
  <2> QED
    BY <2>1, <2>5, <2>6, <2>7, NeededAtStart
<1>6. ASSUME NEW k \in 1..n, k - 1 \in T PROVE k \in T
  <2>1. steps[k - 1] \subseteq Free
    BY <1>6, <1>t
  <2>2. steps[k] = steps[k - 1] \cup UNION {Elems(bbs[b].succ) : b \in steps[k - 1] \ {}}
    BY <1>3, <1>n DEF IsSteps
  <2>3. steps[k] \subseteq Free
    BY <1>5, <2>1, <2>2
  <2> QED
    BY <1>n, <1>t, <2>3
<1>7. \A k \in 0..n : k \in T
  BY <1>n, <1>4, <1>6, UpTo
<1>8. n \in 0..n
  BY <1>n
<1>9. Reachable \subseteq Free
  BY <1>3, <1>7, <1>8, <1>n, <1>t
<1> QED
  BY <1>f, <1>9

\* What stays in a block that does not need a dead value does not use it.
LEMMA NotUsedIn ==
    ASSUME NEW g, NEW D, Returned(g, D), NEW v, NEW b0, NEW i0, DeadResult(v, b0, i0),
           NEW b \in Blocks, v \notin alives[b], NEW i \in DOMAIN bbs[b].code, i \notin dead[b]
    PROVE  v \notin Elems(bbs[b].code[i].args)
<1> SUFFICES ASSUME v \in Elems(bbs[b].code[i].args) PROVE FALSE
  OBVIOUS
<1>i. PICK inst : inst = bbs[b].code[i]
  OBVIOUS
<1>1. b \in Blocks /\ v \notin alives[b]
  OBVIOUS
<1>2. /\ InstOK(inst) /\ i \in 1..Len(bbs[b].code) /\ i \in (0 + 1)..Len(bbs[b].code)
      /\ i - 1 \in 0..Len(bbs[b].code)
  BY <1>1, <1>i, OneInstruction
<1>3. PICK V : Solution(V, b)
  BY <1>1, SolutionExists
<1>4. inst.op # "alloc"
  BY <1>2, <1>i DEF InstOK, Elems
<1>5. IsLive(inst, V[i])
  BY <1>2, <1>3, <1>4, <1>i DEF Solution
<1>6. v.kind = "result"
  BY OneDefinition
<1>7. inst.op = "store" => (inst.args[2] = v => v.by = "gep")
  BY <1>1, <1>i, NoStoreToDead
<1>8. v \in Uses(inst)
  <2>1. v \in Elems(inst.args)
    BY <1>i
  <2>2. CASE inst.op = "store"
    <3>1. v = inst.args[1] \/ v = inst.args[2]
      BY <1>2, <2>1, <2>2 DEF InstOK, Elems
    <3> QED
      BY <1>7, <2>1, <2>2, <3>1 DEF Uses
  <2>3. CASE inst.op # "store"
    BY <1>6, <2>1, <2>3 DEF Uses
  <2> QED
    BY <2>2, <2>3
<1>9. v # inst.dst
  <2>1. SUFFICES ASSUME v = inst.dst PROVE FALSE
    OBVIOUS
  <2>2. bbs[b].code[i].dst = v
    BY <1>i, <2>1
  <2>3. b = b0 /\ i = i0
    BY <1>1, <2>2, OneDefinition
  <2> QED
    BY <2>3 DEF DeadResult
<1>10. IsLocalStore(inst) => inst.args[2] # v
  BY <1>7 DEF IsLocalStore
<1>11. v \in Before(inst, V[i])
  BY <1>5, <1>8, <1>9, <1>10 DEF Before
<1>12. v \in V[i - 1]
  BY <1>2, <1>3, <1>11, <1>i DEF Solution, Exact
<1> QED
  BY <1>1, <1>2, <1>3, <1>12, NeededAtStart

\* What stays in a reachable block uses no dead value.
LEMMA NotUsed ==
    ASSUME NEW g, NEW D, Returned(g, D), NEW v, NEW b0, NEW i0, DeadResult(v, b0, i0),
           NEW b \in Reachable, NEW i \in DOMAIN bbs[b].code, i \notin dead[b]
    PROVE  v \notin Elems(bbs[b].code[i].args)
<1>1. b \in Blocks /\ v \notin alives[b]
  BY NotNeededAtStart
<1> QED
  BY <1>1, NotUsedIn

\* Compiling and running the code leaves the blocks and the marks alone.
LEMMA MaskOfCode ==
    ASSUME [CodeNext]_codeVars
    PROVE  [MaskNext]_maskVars
<1>1. CASE Mask
  BY <1>1 DEF Mask
<1>2. CASE Emit
  BY <1>2 DEF Emit
<1>3. CASE Run
  BY <1>3 DEF Run, FallThrough, Compute, StoreWord, JumpTo, BranchTo, Call, Starve, Ret, Exit, Compiled
<1>4. CASE UNCHANGED codeVars
  BY <1>4 DEF codeVars
<1> QED
  BY <1>1, <1>2, <1>3, <1>4 DEF CodeNext

\* In every function whose blocks are closed and whose values are defined
\* before they are used, an instruction that stays, and that a run can come
\* to, uses no result of one that maskDeadInst passes over.
THEOREM NothingNeededIsLost ==
    ASSUME NEW g, NEW D, Closed(g), DefinedFirst(g, D)
    PROVE  CodeSpec(g) => []NothingNeededIsDead
<1>1. CodeInit(g) => MaskInv(g, D)
  BY InitSolve, DefInvInit, StoreInvInit DEF CodeInit, MaskInv, Closed
<1>2. MaskInv(g, D) /\ [CodeNext]_codeVars => MaskInv(g, D)'
  <2> SUFFICES ASSUME MaskInv(g, D), [CodeNext]_codeVars PROVE MaskInv(g, D)'
    OBVIOUS
  <2>1. [MaskNext]_maskVars
    BY MaskOfCode
  <2>2. SolveInv'
    BY <2>1, EnterBlockSolve, MaskInstSolve, LeaveBlockSolve, EndRoundSolve, StutterSolve
    DEF MaskNext, MaskInv
  <2>3. DefInv(g, D)'
    BY <2>1, DefInvNext DEF MaskInv
  <2>4. StoreInv(g)'
    BY <2>1, StoreInvNext DEF MaskInv
  <2> QED
    BY <2>2, <2>3, <2>4 DEF MaskInv
<1>3. MaskInv(g, D) => NothingNeededIsDead
  <2> SUFFICES ASSUME MaskInv(g, D), stage = "masked" PROVE OperandsStay(Reachable)
    BY DEF NothingNeededIsDead
  <2>1. Returned(g, D)
    BY DEF Returned
  <2>2. ASSUME NEW b \in Reachable, NEW i \in DOMAIN bbs[b].code \ dead[b],
               NEW b0 \in Blocks, NEW i0 \in dead[b0], bbs[b0].code[i0].dst # None
        PROVE  bbs[b0].code[i0].dst \notin Elems(bbs[b].code[i].args)
    <3>1. DOMAIN bbs[b0].code = 1..Len(bbs[b0].code) /\ i0 \in 1..Len(bbs[b0].code)
      BY <2>1 DEF Returned, MaskInv, StoreInv, JumpsKept, Closed, GraphOK, Blocks
    <3>2. DeadResult(bbs[b0].code[i0].dst, b0, i0)
      BY <2>2, <3>1 DEF DeadResult
    <3> QED
      BY <2>1, <3>2, NotUsed
  <2>g. PICK gone : gone = (UNION {{bbs[c].code[k].dst : k \in dead[c]} : c \in Blocks}) \ {None}
    OBVIOUS
  <2>3. ASSUME NEW b \in Reachable, NEW i \in DOMAIN bbs[b].code \ dead[b],
               NEW v \in Elems(bbs[b].code[i].args), v \in gone
        PROVE  FALSE
    <3>1. PICK b0 \in Blocks : v \in {bbs[b0].code[k].dst : k \in dead[b0]}
      BY <2>3, <2>g
    <3>2. PICK i0 \in dead[b0] : v = bbs[b0].code[i0].dst
      BY <3>1
    <3>3. v # None
      BY <2>3, <2>g
    <3> QED
      BY <2>2, <2>3, <3>2, <3>3
  <2>4. \A b \in Reachable : \A i \in DOMAIN bbs[b].code \ dead[b] :
           Elems(bbs[b].code[i].args) \cap gone = {}
    BY <2>3
  <2> QED
    BY <2>4, <2>g DEF OperandsStay
<1> QED
  BY <1>1, <1>2, <1>3, PTL DEF CodeSpec

-----------------------------------------------------------------------------
(* The emitted blocks *)

\* z[i] is what the first i of n pieces are, put together.
IsFlattening(z, seqs, n, S) ==
    /\ z[1] = seqs[1]
    /\ \A i \in 1..n : i # 1 => z[i] = z[i - 1] \o seqs[i]
    /\ \A i \in 1..n : z[i] \in Seq(S)

\* Pieces are put together one after the other.
LEMMA FlattenSteps ==
    ASSUME NEW S, NEW n \in Nat \ {0}, NEW seqs \in [1..n -> Seq(S)]
    PROVE  \E z : IsFlattening(z, seqs, n, S) /\ FlattenSeq(seqs) = z[n]
<1>m. PICK m : m \in Nat /\ m = n - 1 /\ n = m + 1
  OBVIOUS
<1>1. Len(seqs) = n
  BY SeqOfFunction
<1>D. PICK D : D = Seq(S)
  OBVIOUS
<1>2. PICK F : F = [z \in (1..m) \X D |-> z[2] \o seqs[z[1] + 1]]
  OBVIOUS
<1>3. F \in [(1..m) \X D -> D]
  <2>1. ASSUME NEW z \in (1..m) \X D PROVE z[2] \o seqs[z[1] + 1] \in D
    <3>1. z[1] + 1 \in 1..n /\ z[2] \in Seq(S)
      BY <1>m, <1>D
    <3>2. seqs[z[1] + 1] \in Seq(S)
      BY <3>1
    <3> QED
      BY <1>D, <3>1, <3>2, ConcatFact
  <2> QED
    BY <1>2, <2>1
<1>4. seqs[1] \in D
  BY <1>D
<1>5. PICK h : IsRecursion(h, m, D, seqs[1], F)
  BY <1>m, <1>3, <1>4, RecursionUpTo
<1>6. h \in [0..m -> D] /\ h[0] = seqs[1]
  BY <1>5 DEF IsRecursion
<1>7. ASSUME NEW k \in 1..m PROVE h[k] = h[k - 1] \o seqs[k + 1]
  <2>1. k - 1 \in 0..m
    BY <1>m
  <2>2. <<k, h[k - 1]>> \in (1..m) \X D
    BY <1>6, <2>1
  <2>3. h[k] = F[<<k, h[k - 1]>>]
    BY <1>5 DEF IsRecursion
  <2> QED
    BY <1>2, <2>2, <2>3
<1>8. PICK f : f = [i \in 1..n |-> h[i - 1]]
  OBVIOUS
<1> DEFINE Is(z) == z = [i \in 1..Len(seqs) |-> IF i = 1 THEN seqs[i] ELSE z[i - 1] \o seqs[i]]
<1>9. Is(f)
  <2>1. ASSUME NEW i \in 1..n PROVE f[i] = IF i = 1 THEN seqs[i] ELSE f[i - 1] \o seqs[i]
    <3>1. CASE i = 1
      BY <1>6, <1>8, <3>1
    <3>2. CASE i # 1
      <4>1. i - 1 \in 1..m /\ (i - 1) + 1 = i /\ i - 1 \in 1..n
        BY <1>m, <3>2
      <4>2. h[i - 1] = h[(i - 1) - 1] \o seqs[(i - 1) + 1]
        BY <1>7, <4>1
      <4>3. f[i] = h[i - 1] /\ f[i - 1] = h[(i - 1) - 1]
        BY <1>8, <4>1
      <4> QED
        BY <3>2, <4>1, <4>2, <4>3
    <3> QED
      BY <3>1, <3>2
  <2>2. f = [i \in 1..n |-> IF i = 1 THEN seqs[i] ELSE f[i - 1] \o seqs[i]]
    BY <1>8, <2>1
  <2> QED
    BY <1>1, <2>2
<1>10. FlattenSeq(seqs) = (CHOOSE z : Is(z))[Len(seqs)]
  BY <1>1 DEF FlattenSeq
<1> HIDE DEF Is
<1>11. PICK z : Is(z) /\ FlattenSeq(seqs) = z[Len(seqs)]
  BY <1>9, <1>10, Zenon
<1>12. /\ z[1] = seqs[1]
       /\ \A i \in 1..n : i # 1 => z[i] = z[i - 1] \o seqs[i]
  <2>1. z = [i \in 1..n |-> IF i = 1 THEN seqs[i] ELSE z[i - 1] \o seqs[i]]
    BY <1>1, <1>11 DEF Is
  <2>2. \A i \in 1..n : z[i] = IF i = 1 THEN seqs[i] ELSE z[i - 1] \o seqs[i]
    BY <2>1, Zenon
  <2>3. 1 \in 1..n
    OBVIOUS
  <2> QED
    BY <2>2, <2>3
<1>t. PICK T : T = {k \in 0..m : z[k + 1] \in Seq(S)}
  OBVIOUS
<1>13. 0 \in T
  BY <1>m, <1>t, <1>12
<1>14. ASSUME NEW k \in 1..m, k - 1 \in T PROVE k \in T
  <2>1. k + 1 \in 1..n /\ k + 1 # 1 /\ (k + 1) - 1 = (k - 1) + 1 /\ k \in 0..m
    BY <1>m
  <2>2. z[(k - 1) + 1] \in Seq(S) /\ seqs[k + 1] \in Seq(S)
    BY <1>14, <1>t, <2>1
  <2>3. z[k + 1] = z[(k + 1) - 1] \o seqs[k + 1]
    BY <1>12, <2>1
  <2>4. z[k + 1] \in Seq(S)
    BY <2>1, <2>2, <2>3, ConcatFact
  <2> QED
    BY <1>t, <2>1, <2>4
<1>15. \A k \in 0..m : k \in T
  BY <1>m, <1>13, <1>14, UpTo
<1>16. \A i \in 1..n : z[i] \in Seq(S)
  <2>1. ASSUME NEW i \in 1..n PROVE z[i] \in Seq(S)
    <3>1. i - 1 \in 0..m /\ (i - 1) + 1 = i
      BY <1>m
    <3>2. z[(i - 1) + 1] \in Seq(S)
      BY <1>15, <1>t, <3>1
    <3> QED
      BY <3>1, <3>2
  <2> QED
    BY <2>1
<1>17. IsFlattening(z, seqs, n, S)
  BY <1>12, <1>16 DEF IsFlattening
<1> QED
  BY <1>1, <1>11, <1>17

\* The whole is a sequence, at least as long as the last piece.
LEMMA Flattened ==
    ASSUME NEW S, NEW n \in Nat \ {0}, NEW seqs \in [1..n -> Seq(S)]
    PROVE  FlattenSeq(seqs) \in Seq(S) /\ Len(FlattenSeq(seqs)) >= Len(seqs[n])
<1>1. PICK z : IsFlattening(z, seqs, n, S) /\ FlattenSeq(seqs) = z[n]
  BY FlattenSteps
<1>12. z[1] = seqs[1] /\ \A i \in 1..n : i # 1 => z[i] = z[i - 1] \o seqs[i]
  BY <1>1 DEF IsFlattening
<1>16. \A i \in 1..n : z[i] \in Seq(S)
  BY <1>1 DEF IsFlattening
<1>17. Len(z[n]) >= Len(seqs[n])
  <2>1. CASE n = 1
    <3>1. seqs[1] \in Seq(S) /\ z[n] = seqs[n]
      BY <1>12, <2>1
    <3>2. Len(z[n]) \in Nat
      BY <2>1, <3>1
    <3> QED
      BY <3>1, <3>2
  <2>2. CASE n # 1
    <3>1. n \in 1..n /\ n - 1 \in 1..n
      BY <2>2
    <3>2. z[n - 1] \in Seq(S) /\ seqs[n] \in Seq(S)
      BY <1>16, <3>1
    <3>3. z[n] = z[n - 1] \o seqs[n]
      BY <1>12, <2>2, <3>1
    <3>4. Len(z[n]) = Len(z[n - 1]) + Len(seqs[n]) /\ Len(z[n - 1]) \in Nat /\ Len(seqs[n]) \in Nat
      BY <3>2, <3>3, ConcatFact
    <3>5. \A a, b \in Nat : a + b >= b
      OBVIOUS
    <3> QED
      BY <3>4, <3>5
  <2> QED
    BY <2>1, <2>2
<1> QED
  BY <1>1, <1>16, <1>17

\* A jump or branch of a function of m blocks goes to one of them that is
\* not the prologue.
Jumping(x, m) == x.op \in {"j", "branch"} => \E t \in 2..m : x.to = <<t>>

\* What is emitted for one instruction.
LEMMA EmittedInstruction ==
    ASSUME NEW inst, InstOK(inst), NEW n \in Nat, NEW m, m = n + 2,
           \A k \in DOMAIN inst.to : inst.to[k] \in 1..n
    PROVE  /\ EmitInstruction(inst, m) \in Seq(Elems(EmitInstruction(inst, m)))
           /\ Len(EmitInstruction(inst, m)) >= 1
           /\ \A x \in Elems(EmitInstruction(inst, m)) : Jumping(x, m)
<1> DEFINE e == EmitInstruction(inst, m)
<1>t. \A k \in DOMAIN inst.to : AsmOf(inst.to[k]) \in 2..m
  BY DEF AsmOf
<1>o. /\ \A x : Elems(<<x>>) = {x} /\ Len(<<x>>) = 1 /\ <<x>> \in Seq({x})
      /\ \A x, y : Elems(<<x, y>>) = {x, y} /\ Len(<<x, y>>) = 2 /\ <<x, y>> \in Seq({x, y})
  BY DEF Elems
<1>j. \A t \in 2..m : Jumping(Jump(t), m)
  BY DEF Jumping, Jump, Inst
<1>1. CASE inst.op = "jump"
  <2>1. 1 \in DOMAIN inst.to
    BY <1>1 DEF InstOK, NumTargets
  <2>2. e = <<Jump(AsmOf(inst.to[1]))>> /\ AsmOf(inst.to[1]) \in 2..m
    BY <1>1, <1>t, <2>1 DEF EmitInstruction
  <2> HIDE DEF e
  <2>3. e \in Seq(Elems(e)) /\ Len(e) >= 1 /\ \A x \in Elems(e) : Jumping(x, m)
    BY <1>o, <1>j, <2>2
  <2> QED
    BY <2>3 DEF e
<1>2. CASE inst.op = "cond"
  <2>1. 1 \in DOMAIN inst.to /\ 2 \in DOMAIN inst.to
    BY <1>2 DEF InstOK, NumTargets
  <2>2. AsmOf(inst.to[1]) \in 2..m /\ AsmOf(inst.to[2]) \in 2..m
    BY <1>t, <2>1
  <2>3. \E x : x.to = <<AsmOf(inst.to[1])>> /\ e = <<x, Jump(AsmOf(inst.to[2]))>>
    <3>1. inst.tag \in {"LT", "GT", "LE", "GE", "EQ", "NE"}
      BY <1>2 DEF InstOK, Relations
    <3>2. e = EmitCondJump(inst)
      BY <1>2 DEF EmitInstruction
    <3> QED
      BY <3>1, <3>2 DEF EmitCondJump, Branch, Inst
  <2>4. PICK x : x.to = <<AsmOf(inst.to[1])>> /\ e = <<x, Jump(AsmOf(inst.to[2]))>>
    BY <2>3
  <2>5. Jumping(x, m)
    BY <2>2, <2>4 DEF Jumping
  <2> HIDE DEF e
  <2>6. e \in Seq(Elems(e)) /\ Len(e) >= 1 /\ \A y \in Elems(e) : Jumping(y, m)
    BY <1>o, <1>j, <2>2, <2>4, <2>5
  <2> QED
    BY <2>6 DEF e
<1>3. CASE inst.op = "ret"
  <2>1. PICK x : x = Inst("mv_a0", "", None, inst.args, <<>>)
    OBVIOUS
  <2>2. e = <<x, Jump(m)>>
    BY <1>3, <2>1 DEF EmitInstruction
  <2>3. Jumping(x, m) /\ m \in 2..m
    <3>1. x.op = "mv_a0"
      BY <2>1 DEF Inst
    <3> QED
      BY <3>1 DEF Jumping
  <2> HIDE DEF e
  <2>6. e \in Seq(Elems(e)) /\ Len(e) >= 1 /\ \A y \in Elems(e) : Jumping(y, m)
    BY <1>o, <1>j, <2>2, <2>3
  <2> QED
    BY <2>6 DEF e
<1>4. CASE inst.op \notin {"jump", "cond", "ret"}
  <2>1. e = <<inst>>
    BY <1>4 DEF EmitInstruction
  <2>2. Jumping(inst, m)
    BY DEF InstOK, Jumping
  <2> HIDE DEF e
  <2>3. e \in Seq(Elems(e)) /\ Len(e) >= 1 /\ \A x \in Elems(e) : Jumping(x, m)
    BY <1>o, <2>1, <2>2
  <2> QED
    BY <2>3 DEF e
<1> QED
  BY <1>1, <1>2, <1>3, <1>4

\* A block of at least one instruction, whose jumps stay in the function.
Emitted(code, S, m) ==
    /\ code \in Seq(S) /\ Len(code) >= 1
    /\ \A x \in S : Jumping(x, m)

\* What is emitted for a block.
LEMMA EmittedBlock ==
    ASSUME NEW g, Closed(g), NEW b \in DOMAIN g, NEW gone \in SUBSET DOMAIN g[b].code,
           Len(g[b].code) \notin gone, NEW m, m = Len(g) + 2
    PROVE  \E S : Emitted(EmitBasicBlock(g[b], gone, m), S, m)
<1>n. PICK n : n \in Nat \ {0} /\ n = Len(g[b].code) /\ DOMAIN g[b].code = 1..n
  <2>1. Len(g[b].code) > 0 /\ Len(g[b].code) \in Nat /\ DOMAIN g[b].code = 1..Len(g[b].code)
    BY DEF Closed, GraphOK
  <2> QED
    BY <2>1
<1>e. PICK e : e = [i \in 1..n |-> EmitInstruction(g[b].code[i], m)]
  OBVIOUS
<1>1. ASSUME NEW i \in 1..n
      PROVE  e[i] \in Seq(Elems(e[i])) /\ Len(e[i]) >= 1 /\ \A x \in Elems(e[i]) : Jumping(x, m)
  <2>1. InstOK(g[b].code[i]) /\ Len(g) \in Nat
    BY <1>n DEF Closed, GraphOK
  <2>2. \A k \in DOMAIN g[b].code[i].to : g[b].code[i].to[k] \in 1..Len(g)
    <3>1. CASE i = n
      <4>1. g[b].succ = g[b].code[i].to
        BY <1>n, <3>1 DEF Closed
      <4>2. Elems(g[b].succ) \subseteq 1..Len(g)
        BY DEF Closed, GraphOK
      <4> QED
        BY <4>1, <4>2 DEF Elems
    <3>2. CASE i # n
      <4>1. ~IsTerminator(g[b].code[i])
        BY <1>n, <3>2 DEF Closed
      <4>2. DOMAIN g[b].code[i].to = 1..0
        BY <2>1, <4>1 DEF InstOK, NumTargets, IsTerminator
      <4> QED
        BY <4>2
    <3> QED
      BY <3>1, <3>2
  <2>3. e[i] = EmitInstruction(g[b].code[i], m)
    BY <1>e
  <2> QED
    BY <2>1, <2>2, <2>3, EmittedInstruction
<1>S. PICK S : S = UNION {Elems(e[i]) : i \in 1..n}
  OBVIOUS
<1>2. \A x \in S : Jumping(x, m)
  BY <1>S, <1>1
<1>3. \A i \in 1..n : e[i] \in Seq(S)
  <2>1. ASSUME NEW i \in 1..n PROVE e[i] \in Seq(S)
    <3>1. e[i] \in Seq(Elems(e[i])) /\ Elems(e[i]) \subseteq S
      BY <1>1, <1>S
    <3> QED
      BY <3>1
  <2> QED
    BY <2>1
<1>q. PICK seqs : seqs = [i \in 1..n |-> IF i \in gone THEN <<>> ELSE e[i]]
  OBVIOUS
<1>4. seqs \in [1..n -> Seq(S)] /\ seqs[n] = e[n]
  BY <1>q, <1>3, <1>n
<1>5. EmitBasicBlock(g[b], gone, m) = FlattenSeq(seqs)
  <2>1. seqs = [i \in DOMAIN g[b].code |-> IF i \in gone THEN <<>> ELSE EmitInstruction(g[b].code[i], m)]
    BY <1>q, <1>e, <1>n
  <2> QED
    BY <2>1 DEF EmitBasicBlock
<1>6. FlattenSeq(seqs) \in Seq(S) /\ Len(FlattenSeq(seqs)) >= Len(seqs[n])
  BY <1>n, <1>4, Flattened
<1>7. Len(FlattenSeq(seqs)) >= 1
  <2>1. Len(FlattenSeq(seqs)) \in Nat
    BY <1>6
  <2>2. seqs[n] \in Seq(S) /\ Len(seqs[n]) \in Nat /\ Len(seqs[n]) >= 1
    BY <1>1, <1>3, <1>4, <1>n
  <2>3. \A x, y \in Nat : x >= y /\ y >= 1 => x >= 1
    OBVIOUS
  <2> QED
    BY <1>6, <2>1, <2>2, <2>3
<1>8. Emitted(FlattenSeq(seqs), S, m)
  BY <1>2, <1>6, <1>7 DEF Emitted
<1> QED
  BY <1>5, <1>8

\* The blocks of a function: the prologue, one for each IR block, and the
\* last, which returns.
LEMMA EmittedFunction ==
    ASSUME NEW g, Closed(g), NEW gone, DOMAIN gone = DOMAIN g,
           \A b \in DOMAIN g : gone[b] \subseteq DOMAIN g[b].code /\ Len(g[b].code) \notin gone[b],
           NEW m, m = Len(g) + 2
    PROVE  /\ m \in Nat /\ DOMAIN EmitFunction(g, gone) = 1..m /\ Len(EmitFunction(g, gone)) = m
           /\ \A c \in 1..m : \E S : Emitted(EmitFunction(g, gone)[c], S, m)
           /\ EmitFunction(g, gone)[1] = <<Inst("prologue", "", None, <<>>, <<>>)>>
           /\ EmitFunction(g, gone)[m] = <<Inst("ret", "", None, <<>>, <<>>)>>
           /\ \A b \in DOMAIN g : EmitFunction(g, gone)[b + 1] = EmitBasicBlock(g[b], gone[b], m)
<1>n. PICK n : n \in Nat /\ n = Len(g) /\ DOMAIN g = 1..n /\ m = n + 2
  BY DEF Closed, GraphOK
<1>p. PICK first : first = <<Inst("prologue", "", None, <<>>, <<>>)>>
  OBVIOUS
<1>r. PICK last : last = <<Inst("ret", "", None, <<>>, <<>>)>>
  OBVIOUS
<1>m. PICK mid : mid = [b \in 1..n |-> EmitBasicBlock(g[b], gone[b], m)]
  OBVIOUS
<1>1. EmitFunction(g, gone) = <<first>> \o mid \o <<last>>
  BY <1>n, <1>p, <1>r, <1>m DEF EmitFunction
<1>2. \A x : x.op = "prologue" \/ x.op = "ret" => Emitted(<<x>>, {x}, m)
  BY DEF Emitted, Jumping
<1>3. \E S : Emitted(first, S, m)
  <2>1. PICK x : x = Inst("prologue", "", None, <<>>, <<>>)
    OBVIOUS
  <2>2. x.op = "prologue"
    BY <2>1 DEF Inst
  <2> QED
    BY <1>2, <1>p, <2>1, <2>2
<1>4. \E S : Emitted(last, S, m)
  <2>1. PICK x : x = Inst("ret", "", None, <<>>, <<>>)
    OBVIOUS
  <2>2. x.op = "ret"
    BY <2>1 DEF Inst
  <2> QED
    BY <1>2, <1>r, <2>1, <2>2
<1>5. ASSUME NEW b \in 1..n PROVE \E S : Emitted(mid[b], S, m)
  <2>1. mid[b] = EmitBasicBlock(g[b], gone[b], m)
    BY <1>m
  <2>2. b \in DOMAIN g /\ gone[b] \in SUBSET DOMAIN g[b].code /\ Len(g[b].code) \notin gone[b]
    BY <1>n
  <2> QED
    BY <2>1, <2>2, EmittedBlock
<1>A. PICK A : A = {first, last} \cup {mid[b] : b \in 1..n}
  OBVIOUS
<1>6. mid \in Seq(A) /\ Len(mid) = n
  <2>1. mid \in [1..n -> A]
    BY <1>m, <1>A
  <2> QED
    BY <1>n, <2>1, SeqOfFunction
<1>7. /\ <<first>> \in Seq(A) /\ Len(<<first>>) = 1 /\ <<first>>[1] = first
      /\ <<last>> \in Seq(A) /\ Len(<<last>>) = 1 /\ <<last>>[1] = last
  BY <1>A
<1>u. PICK u : u = <<first>> \o mid
  OBVIOUS
<1>8. /\ u \in Seq(A) /\ Len(u) = 1 + n
      /\ \A i \in 1..1 : u[i] = <<first>>[i]
      /\ \A i \in 1..n : u[1 + i] = mid[i]
  BY <1>u, <1>6, <1>7, ConcatIs
<1>w. PICK w : w = u \o <<last>> /\ w = EmitFunction(g, gone)
  BY <1>1, <1>u
<1>9. /\ w \in Seq(A) /\ Len(w) = (1 + n) + 1
      /\ \A i \in 1..(1 + n) : w[i] = u[i]
      /\ \A i \in 1..1 : w[(1 + n) + i] = <<last>>[i]
  BY <1>w, <1>7, <1>8, ConcatIs
<1>10. DOMAIN w = 1..m /\ Len(w) = m
  BY <1>9, <1>n
<1>11. ASSUME NEW c \in 1..m PROVE \E S : Emitted(w[c], S, m)
  <2>1. CASE c = 1
    <3>1. c \in 1..1 /\ c \in 1..(1 + n)
      BY <1>n, <2>1
    <3> QED
      BY <1>3, <1>7, <1>8, <1>9, <2>1, <3>1
  <2>2. CASE c \in 2..(n + 1)
    <3>1. c - 1 \in 1..n /\ 1 + (c - 1) = c /\ c \in 1..(1 + n)
      BY <1>n, <2>2
    <3>2. w[c] = mid[c - 1]
      BY <1>8, <1>9, <3>1
    <3> QED
      BY <1>5, <3>1, <3>2
  <2>3. CASE c = n + 2
    <3>1. (1 + n) + 1 = c /\ 1 \in 1..1
      BY <1>n, <2>3
    <3>2. w[c] = last
      BY <1>7, <1>9, <3>1
    <3> QED
      BY <1>4, <3>2
  <2>4. c = 1 \/ c \in 2..(n + 1) \/ c = n + 2
    BY <1>n
  <2> QED
    BY <2>1, <2>2, <2>3, <2>4
<1>12. w[1] = first /\ w[m] = last
  <2>1. 1 \in 1..1 /\ 1 \in 1..(1 + n) /\ (1 + n) + 1 = m
    BY <1>n
  <2> QED
    BY <1>7, <1>8, <1>9, <2>1
<1>13. ASSUME NEW b \in 1..n PROVE w[b + 1] = EmitBasicBlock(g[b], gone[b], m)
  <2>1. 1 + b = b + 1 /\ b + 1 \in 1..(1 + n)
    BY <1>n
  <2>2. w[b + 1] = mid[b]
    BY <1>8, <1>9, <2>1
  <2> QED
    BY <1>m, <2>2
<1>14. EmitFunction(g, gone)[1] = <<Inst("prologue", "", None, <<>>, <<>>)>>
  BY <1>w, <1>12, <1>p
<1>15. EmitFunction(g, gone)[m] = <<Inst("ret", "", None, <<>>, <<>>)>>
  BY <1>w, <1>12, <1>r
<1>16. \A b \in DOMAIN g : EmitFunction(g, gone)[b + 1] = EmitBasicBlock(g[b], gone[b], m)
  BY <1>w, <1>13, <1>n
<1>17. /\ m \in Nat /\ DOMAIN EmitFunction(g, gone) = 1..m /\ Len(EmitFunction(g, gone)) = m
       /\ \A c \in 1..m : \E S : Emitted(EmitFunction(g, gone)[c], S, m)
  BY <1>n, <1>w, <1>10, <1>11
<1> QED
  BY <1>14, <1>15, <1>16, <1>17

-----------------------------------------------------------------------------
(* The printed blocks *)

\* The blocks of a function, before the clean-up.
Function(codes, m) ==
    /\ m \in Nat /\ DOMAIN codes = 1..m /\ Len(codes) = m
    /\ \A c \in 1..m : \E S : Emitted(codes[c], S, m)

\* The printed blocks: their jumps stay in the function.
Printed(p, m) ==
    /\ m \in Nat /\ DOMAIN p = 1..m /\ Len(p) = m
    /\ \A c \in 1..m : \E S : p[c].code \in Seq(S) /\ \A x \in S : Jumping(x, m)

\* Every target has its label.
Labelled(p) ==
    \A b \in DOMAIN p : \A i \in DOMAIN p[b].code :
        p[b].code[i].op \in {"j", "branch"} => p[p[b].code[i].to[1]].label

\* Where the jumps and branches to block t are.
JumpsTo(codes, t) ==
    {p \in UNION {{b} \X DOMAIN codes[b] : b \in DOMAIN codes} : codes[p[1]][p[2]].to = <<t>>}

\* A sequence without its last element.
LEMMA FrontFact ==
    ASSUME NEW S, NEW s \in Seq(S), Len(s) >= 1
    PROVE  /\ Front(s) \in Seq(S) /\ DOMAIN Front(s) = 1..(Len(s) - 1)
           /\ \A i \in 1..(Len(s) - 1) : Front(s)[i] = s[i]
<1>1. Len(s) \in Nat /\ \A i \in 1..Len(s) : s[i] \in S
  BY LenProperties, ElementOfSeq
<1>2. \A i \in 1..(Len(s) - 1) : s[i] \in S
  BY <1>1
<1>n. PICK n : n \in Nat /\ n = Len(s) - 1
  BY <1>1
<1>3. /\ SubSeq(s, 1, n) \in Seq(S)
      /\ Len(SubSeq(s, 1, n)) = IF 1 <= n THEN n - 1 + 1 ELSE 0
      /\ \A i \in 1..(n - 1 + 1) : SubSeq(s, 1, n)[i] = s[1 + i - 1]
  BY <1>2, <1>n, SubSeqProperties
<1>4. n - 1 + 1 = n /\ (IF 1 <= n THEN n - 1 + 1 ELSE 0) = n /\ \A i \in 1..n : 1 + i - 1 = i
  BY <1>n
<1>5. /\ Front(s) \in Seq(S) /\ Len(Front(s)) = n
      /\ \A i \in 1..n : Front(s)[i] = s[i]
  BY <1>3, <1>4, <1>n DEF Front
<1> QED
  BY <1>5, <1>n

\* What is left of a block by the clean-up.
LEMMA CleanedBlock ==
    ASSUME NEW codes, NEW m, Function(codes, m), NEW c \in 1..m
    PROVE  /\ \E S : Cleanup(codes)[c].code \in Seq(S) /\ \A x \in S : Jumping(x, m)
           /\ \A i \in DOMAIN Cleanup(codes)[c].code :
                 /\ i \in DOMAIN codes[c] /\ Cleanup(codes)[c].code[i] = codes[c][i]
                 /\ FallsThrough(codes, c) => i # Len(codes[c])
<1>1. PICK S : codes[c] \in Seq(S) /\ Len(codes[c]) >= 1 /\ \A x \in S : Jumping(x, m)
  BY DEF Function, Emitted
<1>2. Len(codes[c]) \in Nat /\ DOMAIN codes[c] = 1..Len(codes[c])
  BY <1>1
<1>k. PICK k : k = Cleanup(codes)[c].code
  OBVIOUS
<1>3. k = IF FallsThrough(codes, c) THEN Front(codes[c]) ELSE codes[c]
  BY <1>k DEF Cleanup, Function
<1>4. CASE FallsThrough(codes, c)
  <2>1. /\ k \in Seq(S) /\ DOMAIN k = 1..(Len(codes[c]) - 1)
        /\ \A i \in 1..(Len(codes[c]) - 1) : k[i] = codes[c][i]
    BY <1>1, <1>3, <1>4, FrontFact
  <2>2. \A i \in 1..(Len(codes[c]) - 1) : i \in DOMAIN codes[c] /\ i # Len(codes[c])
    BY <1>2
  <2> QED
    BY <1>1, <1>k, <2>1, <2>2
<1>5. CASE ~FallsThrough(codes, c)
  BY <1>1, <1>3, <1>5, <1>k
<1> QED
  BY <1>4, <1>5

\* Only finitely many jumps go to a block.
LEMMA JumpsToFinite ==
    ASSUME NEW codes, NEW m, Function(codes, m), NEW t
    PROVE  IsFiniteSet(JumpsTo(codes, t))
<1>1. PICK f : f = [b \in 1..m |-> {b} \X DOMAIN codes[b]]
  OBVIOUS
<1>2. PICK T : T = {{b} \X DOMAIN codes[b] : b \in 1..m}
  OBVIOUS
<1>3. f \in Surjection(1..m, T)
  BY <1>1, <1>2 DEF Surjection
<1>4. m \in Int /\ IsFiniteSet(1..m)
  BY FS_Interval DEF Function
<1>5. IsFiniteSet(T)
  BY <1>3, <1>4, FS_Surjection
<1>6. ASSUME NEW b \in 1..m PROVE IsFiniteSet({b} \X DOMAIN codes[b])
  <2>1. PICK S : codes[b] \in Seq(S)
    BY DEF Function, Emitted
  <2>2. PICK n : n \in Nat /\ DOMAIN codes[b] = 1..n
    BY <2>1
  <2>3. IsFiniteSet(DOMAIN codes[b])
    BY <2>2, FS_Interval
  <2>4. IsFiniteSet({b})
    BY FS_Singleton
  <2> QED
    BY <2>3, <2>4, FS_Product
<1>7. IsFiniteSet(UNION T)
  BY <1>2, <1>5, <1>6, FS_UNION
<1>8. JumpsTo(codes, t) \subseteq UNION T
  BY <1>2 DEF JumpsTo, Function
<1> QED
  BY <1>7, <1>8, FS_Subset

\* A block that more than one place needs keeps its label.
LEMMA LabelStays ==
    ASSUME NEW codes, NEW m, Function(codes, m), NEW c \in 1..m, NEW i \in DOMAIN codes[c],
           NEW t \in 2..m, codes[c][i].to = <<t>>, FallsThrough(codes, c) => i # Len(codes[c])
    PROVE  Cleanup(codes)[t].label
<1>1. IsFiniteSet(JumpsTo(codes, t)) /\ Predecessors(codes, t) = Cardinality(JumpsTo(codes, t))
  BY JumpsToFinite DEF Predecessors, JumpsTo
<1>2. <<c, i>> \in JumpsTo(codes, t)
  BY DEF JumpsTo, Function
<1>3. Predecessors(codes, t) # 0
  BY <1>1, <1>2, FS_EmptySet
<1>4. ASSUME FallsThrough(codes, t - 1) PROVE Predecessors(codes, t) # 1
  <2>1. m \in Nat /\ t - 1 \in 1..m /\ (t - 1) + 1 = t
    BY DEF Function
  <2>2. PICK S : codes[t - 1] \in Seq(S) /\ Len(codes[t - 1]) >= 1
    BY <2>1 DEF Function, Emitted
  <2>3. PICK k : k = Len(codes[t - 1]) /\ k \in DOMAIN codes[t - 1]
    BY <2>2
  <2>4. codes[t - 1][k] = Jump(t)
    <3>1. codes[t - 1][k] = Jump((t - 1) + 1)
      BY <1>4, <2>3 DEF FallsThrough
    <3> QED
      BY <2>1, <3>1
  <2>5. codes[t - 1][k].to = <<t>>
    <3>1. Jump(t).to = <<t>>
      BY DEF Jump, Inst
    <3> QED
      BY <2>4, <3>1
  <2>6. <<t - 1, k>> \in JumpsTo(codes, t)
    BY <2>1, <2>3, <2>5 DEF JumpsTo, Function
  <2>7. <<t - 1, k>> # <<c, i>>
    BY <1>4, <2>3
  <2> QED
    BY <1>1, <1>2, <2>6, <2>7, FS_Singleton
<1>5. Cleanup(codes)[t].label = ~ \/ Predecessors(codes, t) = 0
                                  \/ /\ t > 1
                                     /\ FallsThrough(codes, t - 1)
                                     /\ Predecessors(codes, t) = 1
  BY DEF Cleanup, Function
<1> QED
  BY <1>3, <1>4, <1>5

\* After the clean-up jumps go to blocks of the function that have a label.
LEMMA CleanedFunction ==
    ASSUME NEW codes, NEW m, Function(codes, m)
    PROVE  Printed(Cleanup(codes), m) /\ Labelled(Cleanup(codes))
<1>p. PICK p : p = Cleanup(codes)
  OBVIOUS
<1>1. m \in Nat /\ DOMAIN p = 1..m /\ Len(p) = m
  <2>1. m \in Nat /\ DOMAIN codes = 1..m
    BY DEF Function
  <2>2. p \in [1..m -> {p[c] : c \in 1..m}]
    BY <1>p, <2>1 DEF Cleanup
  <2> QED
    BY <2>1, <2>2, SeqOfFunction
<1>2. \A c \in 1..m : \E S : p[c].code \in Seq(S) /\ \A x \in S : Jumping(x, m)
  BY <1>p, CleanedBlock
<1>3. ASSUME NEW c \in 1..m, NEW i \in DOMAIN p[c].code, p[c].code[i].op \in {"j", "branch"}
      PROVE  p[p[c].code[i].to[1]].label
  <2>1. PICK S : p[c].code \in Seq(S) /\ \A x \in S : Jumping(x, m)
    BY <1>2
  <2>2. p[c].code[i] \in S
    BY <2>1
  <2>3. PICK t \in 2..m : p[c].code[i].to = <<t>>
    BY <1>3, <2>1, <2>2 DEF Jumping
  <2>4. /\ i \in DOMAIN codes[c] /\ p[c].code[i] = codes[c][i]
        /\ FallsThrough(codes, c) => i # Len(codes[c])
    BY <1>p, CleanedBlock
  <2>5. p[t].label
    BY <1>p, <2>3, <2>4, LabelStays
  <2> QED
    BY <2>3, <2>5
<1>4. Printed(p, m) /\ Labelled(p)
  BY <1>1, <1>2, <1>3 DEF Printed, Labelled
<1> QED
  BY <1>p, <1>4

-----------------------------------------------------------------------------
(* The run stays in the printed code *)

CodeInv(g) ==
    /\ SolveInv /\ StoreInv(g)
    /\ phase \in {"mask", "run", "returned", "done"}
    /\ phase = "mask" => pc = <<1, 1>> /\ inputs = <<>> /\ next = 0
    /\ phase # "mask" =>
          /\ Printed(asm, Len(g) + 2) /\ Labelled(asm)
          /\ pc[1] \in DOMAIN asm /\ pc[2] \in 1..(Len(Code) + 1)
    /\ inputs \in Seq(Int) /\ next \in 0..Len(inputs)

\* It holds of a function that has just been built.
LEMMA CodeInvInit ==
    ASSUME NEW g, Closed(g), CodeInit(g)
    PROVE  CodeInv(g)
<1>1. SolveInv /\ StoreInv(g)
  BY InitSolve, StoreInvInit DEF CodeInit, Closed
<1>2. phase = "mask" /\ pc = <<1, 1>> /\ inputs = <<>> /\ next = 0
  BY DEF CodeInit, NothingRun
<1> QED
  BY <1>1, <1>2 DEF CodeInv

\* What emission makes, from blocks that end in a jump that stays.
LEMMA EmitKeeps ==
    ASSUME NEW g, Closed(g), CodeInv(g), Emit
    PROVE  /\ Printed(asm', Len(g) + 2) /\ Labelled(asm')
           /\ pc' = <<1, 1>> /\ 1 \in DOMAIN asm' /\ 1 \in 1..(Len(asm'[1].code) + 1)
           /\ inputs' \in Seq(Int) /\ next' \in 0..Len(inputs')
<1>m. PICK m : m = Len(g) + 2
  OBVIOUS
<1>1. bbs = g /\ DOMAIN dead = DOMAIN g /\ Len(g) \in Nat
  BY DEF CodeInv, StoreInv, Blocks, Closed, GraphOK
<1>2. ASSUME NEW b \in DOMAIN g
      PROVE  dead[b] \subseteq DOMAIN g[b].code /\ Len(g[b].code) \notin dead[b]
  <2>1. dead[b] \subseteq {i \in 1..Len(g[b].code) : ~IsTerminator(g[b].code[i])}
    BY <1>1 DEF CodeInv, StoreInv, JumpsKept, Blocks
  <2>2. DOMAIN g[b].code = 1..Len(g[b].code) /\ Len(g[b].code) \in Nat /\ Len(g[b].code) > 0
    BY DEF Closed, GraphOK
  <2>3. Len(g[b].code) \in DOMAIN g[b].code
    BY <2>2
  <2>4. IsTerminator(g[b].code[Len(g[b].code)])
    BY <2>3 DEF Closed
  <2> QED
    BY <2>1, <2>2, <2>4
<1>3. Function(EmitFunction(g, dead), m)
  BY <1>1, <1>2, <1>m, EmittedFunction DEF Function
<1>4. asm' = Cleanup(EmitFunction(g, dead))
  BY <1>1 DEF Emit
<1>5. Printed(asm', m) /\ Labelled(asm')
  BY <1>3, <1>4, CleanedFunction
<1>6. 1 \in 1..m /\ DOMAIN asm' = 1..m
  BY <1>1, <1>m, <1>5 DEF Printed
<1>7. 1 \in 1..(Len(asm'[1].code) + 1)
  <2>1. PICK S : asm'[1].code \in Seq(S)
    BY <1>5, <1>6 DEF Printed
  <2>2. Len(asm'[1].code) \in Nat
    BY <2>1
  <2> QED
    BY <2>2
<1>8. pc' = <<1, 1>> /\ next' = 0 /\ inputs' \in Inputs
  BY DEF Emit, CodeInv
<1>9. inputs' \in Seq(Int)
  BY <1>8, InputsOK
<1>10. next' \in 0..Len(inputs')
  BY <1>8, <1>9
<1> QED
  BY <1>5, <1>6, <1>7, <1>8, <1>9, <1>10, <1>m

\* Where a step of the machine goes.
LEMMA RunGoes ==
    ASSUME NEW g, CodeInv(g), Run
    PROVE  /\ phase' \in {"run", "returned", "done"}
           /\ pc'[1] \in DOMAIN asm /\ pc'[2] \in 1..(Len(asm[pc'[1]].code) + 1)
           /\ next' \in 0..Len(inputs)
<1>1. /\ phase # "mask" /\ Printed(asm, Len(g) + 2)
      /\ pc[1] \in DOMAIN asm /\ pc[2] \in 1..(Len(Code) + 1)
      /\ inputs \in Seq(Int) /\ next \in 0..Len(inputs)
      /\ phase \in {"run", "returned", "done"}
  <2>1. phase # "mask"
    BY DEF Run, FallThrough, Compute, StoreWord, JumpTo, BranchTo, Call, Starve, Ret, Exit, AtInst
  <2> QED
    BY <2>1 DEF CodeInv
<1>m. PICK m : m \in Nat /\ DOMAIN asm = 1..m /\ Len(asm) = m /\ Printed(asm, m)
  BY <1>1 DEF Printed
<1>c. ASSUME NEW c \in 1..m
      PROVE  /\ Len(asm[c].code) \in Nat /\ DOMAIN asm[c].code = 1..Len(asm[c].code)
             /\ 1 \in 1..(Len(asm[c].code) + 1)
             /\ \A i \in DOMAIN asm[c].code : Jumping(asm[c].code[i], m)
  <2>1. PICK S : asm[c].code \in Seq(S) /\ \A x \in S : Jumping(x, m)
    BY <1>m DEF Printed
  <2>2. Len(asm[c].code) \in Nat /\ DOMAIN asm[c].code = 1..Len(asm[c].code)
    BY <2>1
  <2>3. \A i \in DOMAIN asm[c].code : asm[c].code[i] \in S
    BY <2>1
  <2> QED
    BY <2>1, <2>2, <2>3
<1>2. ASSUME Advance, pc[2] \in DOMAIN Code
      PROVE  pc'[1] \in DOMAIN asm /\ pc'[2] \in 1..(Len(asm[pc'[1]].code) + 1)
  <2>1. pc'[1] = pc[1] /\ pc'[2] = pc[2] + 1
    BY <1>2 DEF Advance
  <2>2. pc[2] \in 1..Len(Code) /\ Len(Code) \in Nat
    BY <1>1, <1>2, <1>m, <1>c DEF Code
  <2> QED
    BY <1>1, <2>1, <2>2 DEF Code
<1>3. ASSUME pc' = <<Current.to[1], 1>>, pc[2] \in DOMAIN Code, Current.op \in {"j", "branch"}
      PROVE  pc'[1] \in DOMAIN asm /\ pc'[2] \in 1..(Len(asm[pc'[1]].code) + 1)
  <2>1. Jumping(Current, m)
    BY <1>1, <1>3, <1>m, <1>c DEF Code, Current
  <2>2. PICK t \in 2..m : Current.to = <<t>>
    BY <1>3, <2>1 DEF Jumping
  <2>3. t \in 1..m /\ pc'[1] = t /\ pc'[2] = 1
    BY <1>3, <2>2
  <2> QED
    BY <1>m, <1>c, <2>3
<1>4. CASE FallThrough
  <2>1. pc[1] + 1 \in 1..m /\ pc' = <<pc[1] + 1, 1>> /\ phase' = phase /\ next' = next
    BY <1>1, <1>m, <1>4 DEF FallThrough
  <2> QED
    BY <1>1, <1>m, <1>c, <2>1
<1>5. CASE Compute \/ StoreWord
  <2>1. Advance /\ pc[2] \in DOMAIN Code /\ phase' = phase /\ next' = next
    BY <1>5 DEF Compute, StoreWord, AtInst
  <2> QED
    BY <1>1, <1>2, <2>1
<1>6. CASE JumpTo
  <2>1. /\ pc' = <<Current.to[1], 1>> /\ pc[2] \in DOMAIN Code /\ Current.op = "j"
        /\ phase' = phase /\ next' = next
    BY <1>6 DEF JumpTo, AtInst
  <2> QED
    BY <1>1, <1>3, <2>1
<1>7. CASE BranchTo
  <2>1. /\ pc' = <<Current.to[1], 1>> \/ Advance
        /\ pc[2] \in DOMAIN Code /\ Current.op = "branch" /\ phase' = phase /\ next' = next
    BY <1>7 DEF BranchTo, AtInst
  <2> QED
    BY <1>1, <1>2, <1>3, <2>1
<1>8. CASE Call
  <2>1. Advance /\ pc[2] \in DOMAIN Code /\ phase' = phase
        /\ (next' = next \/ (next < Len(inputs) /\ next' = next + 1))
    BY <1>8 DEF Call, AtInst
  <2>2. next' \in 0..Len(inputs)
    BY <1>1, <2>1
  <2> QED
    BY <1>1, <1>2, <2>1, <2>2
<1>9. CASE Starve \/ Ret \/ Exit
  BY <1>1, <1>9 DEF Starve, Ret, Exit, machine, Code
<1> QED
  BY <1>4, <1>5, <1>6, <1>7, <1>8, <1>9 DEF Run

\* Every step of the compiler and of the machine keeps it.
LEMMA CodeInvNext ==
    ASSUME NEW g, Closed(g), CodeInv(g), [CodeNext]_codeVars
    PROVE  CodeInv(g)'
<1>1. SolveInv' /\ StoreInv(g)'
  <2>1. [MaskNext]_maskVars
    BY MaskOfCode
  <2>2. SolveInv'
    BY <2>1, EnterBlockSolve, MaskInstSolve, LeaveBlockSolve, EndRoundSolve, StutterSolve
    DEF MaskNext, CodeInv
  <2>3. StoreInv(g)'
    BY <2>1, StoreInvNext DEF CodeInv
  <2> QED
    BY <2>2, <2>3
<1>2. CASE Mask
  BY <1>1, <1>2 DEF Mask, CodeInv, machine
<1>3. CASE Emit
  <2>1. phase' = "run"
    BY <1>3 DEF Emit
  <2> QED
    BY <1>1, <1>3, <2>1, EmitKeeps DEF CodeInv, Code
<1>4. CASE Run
  <2>1. asm' = asm /\ inputs' = inputs
    BY <1>4 DEF Run, FallThrough, Compute, StoreWord, JumpTo, BranchTo, Call, Starve, Ret, Exit,
                Compiled, machine
  <2>2. Printed(asm, Len(g) + 2) /\ Labelled(asm)
    BY <1>4 DEF CodeInv, Run, FallThrough, Compute, StoreWord, JumpTo, BranchTo, Call, Starve, Ret,
                Exit, AtInst
  <2> QED
    BY <1>1, <1>4, <2>1, <2>2, RunGoes DEF CodeInv, Code
<1>5. CASE UNCHANGED codeVars
  BY <1>1, <1>5 DEF codeVars, machine, CodeInv, Code
<1> QED
  BY <1>2, <1>3, <1>4, <1>5 DEF CodeNext

\* The invariant of the compiled function and its run, for every graph.
THEOREM CodeInvariant ==
    ASSUME NEW g, Closed(g)
    PROVE  CodeSpec(g) => []CodeInv(g)
<1>1. CodeInit(g) => CodeInv(g)
  BY CodeInvInit
<1>2. CodeInv(g) /\ [CodeNext]_codeVars => CodeInv(g)'
  BY CodeInvNext
<1> QED
  BY <1>1, <1>2, PTL DEF CodeSpec

\* The types of the compiled function and its run: in particular no jump and
\* no fall into the next block leaves the printed code.
THEOREM CodeTypes ==
    ASSUME NEW g, Closed(g)
    PROVE  CodeSpec(g) => []TypeOK
<1>1. CodeInv(g) => TypeOK
  <2> SUFFICES ASSUME CodeInv(g) PROVE TypeOK
    OBVIOUS
  <2>1. DOMAIN alives = Blocks
    BY DEF CodeInv, SolveInv, MaskType
  <2>2. ASSUME NEW b \in Blocks PROVE dead[b] \subseteq DOMAIN bbs[b].code
    BY DEF CodeInv, StoreInv, JumpsKept, Closed, GraphOK, Blocks
  <2> QED
    BY <2>1, <2>2 DEF CodeInv, StoreInv, TypeOK
<1> QED
  BY <1>1, CodeInvariant, PTL

\* Whatever the graph, every label that a jump or a branch is left for is
\* printed.
THEOREM NoLabelIsLost ==
    ASSUME NEW g, Closed(g)
    PROVE  CodeSpec(g) => []LabelsKept
<1>1. CodeInv(g) => LabelsKept
  BY DEF CodeInv, Labelled, LabelsKept
<1> QED
  BY <1>1, CodeInvariant, PTL

-----------------------------------------------------------------------------
(* Places of a block and of what is printed for it *)

\* count[i] is how many of the first i of n instructions are not gone.
IsCount(count, n, gone) ==
    /\ count[0] = 0
    /\ \A i \in 1..n : count[i] = count[i - 1] + (IF i \in gone THEN 0 ELSE 1)

\* Instruction j stays, and those from p on before it are gone; what comes
\* before p stays.
Stretch(p, j, gone) ==
    /\ p = 1 \/ p - 1 \notin gone
    /\ j \notin gone /\ \A i \in p..(j - 1) : i \in gone

\* A count is a number, and not more than the place.
LEMMA CountType ==
    ASSUME NEW n \in Nat, NEW count, NEW gone, IsCount(count, n, gone)
    PROVE  \A i \in 0..n : count[i] \in Nat
<1>t. PICK T : T = {i \in 0..n : count[i] \in Nat}
  OBVIOUS
<1>1. 0 \in T
  BY <1>t DEF IsCount
<1>2. ASSUME NEW k \in 1..n, k - 1 \in T PROVE k \in T
  <2>1. count[k] = count[k - 1] + (IF k \in gone THEN 0 ELSE 1) /\ count[k - 1] \in Nat /\ k \in 0..n
    BY <1>2, <1>t DEF IsCount
  <2> QED
    BY <1>t, <2>1
<1> QED
  BY <1>1, <1>2, <1>t, UpTo

\* It grows with the place.
LEMMA CountGrows ==
    ASSUME NEW n \in Nat, NEW count, NEW gone, IsCount(count, n, gone), NEW i \in 0..n
    PROVE  \A j \in i..n : count[i] <= count[j]
<1>n. \A k \in 0..n : count[k] \in Nat
  BY CountType
<1>m. PICK m : m \in Nat /\ m = n - i
  OBVIOUS
<1>t. PICK T : T = {k \in 0..m : count[i] <= count[i + k]}
  OBVIOUS
<1>1. 0 \in T
  BY <1>n, <1>m, <1>t
<1>2. ASSUME NEW k \in 1..m, k - 1 \in T PROVE k \in T
  <2>1. i + k \in 1..n /\ (i + k) - 1 = i + (k - 1) /\ i + k \in 0..n /\ i + (k - 1) \in 0..n /\ k \in 0..m
    BY <1>m
  <2>2. count[i + k] = count[i + (k - 1)] + (IF i + k \in gone THEN 0 ELSE 1)
    BY <2>1 DEF IsCount
  <2>3. count[i] <= count[i + (k - 1)] /\ count[i] \in Nat /\ count[i + (k - 1)] \in Nat
    BY <1>2, <1>n, <1>t, <2>1
  <2> QED
    BY <1>t, <2>1, <2>2, <2>3
<1>3. \A k \in 0..m : k \in T
  BY <1>m, <1>1, <1>2, UpTo
<1>4. ASSUME NEW j \in i..n PROVE count[i] <= count[j]
  <2>1. j - i \in 0..m /\ i + (j - i) = j
    BY <1>m
  <2>2. count[i] <= count[i + (j - i)]
    BY <1>3, <1>t, <2>1
  <2> QED
    BY <2>1, <2>2
<1> QED
  BY <1>4

\* Every number up to the whole count is the count of an instruction that stays.
LEMMA CountReached ==
    ASSUME NEW n \in Nat, NEW count, NEW gone, IsCount(count, n, gone), NEW k \in 1..count[n]
    PROVE  \E j \in 1..n : j \notin gone /\ count[j] = k /\ count[j - 1] = k - 1
<1>n. \A i \in 0..n : count[i] \in Nat
  BY CountType
<1>t. PICK T : T = {i \in 0..n : k <= count[i] =>
                       \E j \in 1..n : j \notin gone /\ count[j] = k /\ count[j - 1] = k - 1}
  OBVIOUS
<1>0. n \in 0..n /\ k \in Nat /\ k >= 1
  BY <1>n
<1>1. 0 \in T
  BY <1>t, <1>0 DEF IsCount
<1>2. ASSUME NEW i \in 1..n, i - 1 \in T PROVE i \in T
  <2>1. i \in 0..n /\ i - 1 \in 0..n /\ count[i] \in Nat /\ count[i - 1] \in Nat
    BY <1>n
  <2>2. count[i] = count[i - 1] + (IF i \in gone THEN 0 ELSE 1)
    BY DEF IsCount
  <2>3. CASE k <= count[i - 1]
    BY <1>2, <1>t, <2>1, <2>3
  <2>4. CASE ~(k <= count[i - 1]) /\ k <= count[i]
    <3>1. i \notin gone /\ count[i] = k /\ count[i - 1] = k - 1
      BY <1>0, <2>1, <2>2, <2>4
    <3> QED
      BY <1>t, <2>1, <3>1
  <2>5. CASE ~(k <= count[i])
    BY <1>t, <2>1, <2>5
  <2> QED
    BY <2>3, <2>4, <2>5
<1>3. n \in T
  BY <1>1, <1>2, <1>0, UpTo
<1> QED
  BY <1>3, <1>t, <1>0, <1>n

\* Before an instruction that stays there is a stretch of those that are gone,
\* which do not count.
LEMMA StretchBefore ==
    ASSUME NEW n \in Nat, NEW count, NEW gone, IsCount(count, n, gone), NEW j \in 1..n, j \notin gone
    PROVE  \E p \in 1..j : Stretch(p, j, gone) /\ count[p - 1] = count[j - 1]
<1> DEFINE P(i) == \E p \in 1..i : /\ p = 1 \/ p - 1 \notin gone
                                   /\ \A k \in p..(i - 1) : k \in gone
                                   /\ count[p - 1] = count[i - 1]
<1>n. \A i \in 0..n : count[i] \in Nat
  BY CountType
<1>m. PICK m : m \in Nat /\ m = n - 1
  OBVIOUS
<1>t. PICK T : T = {i \in 0..m : P(i + 1)}
  OBVIOUS
<1>1. 0 \in T
  <2>1. P(1)
    OBVIOUS
  <2> QED
    BY <2>1, <1>m, <1>t
<1>2. ASSUME NEW i \in 1..m, i - 1 \in T PROVE i \in T
  <2>1. i \in 1..n /\ (i + 1) - 1 = i /\ (i - 1) + 1 = i /\ i \in 0..m /\ i - 1 \in 0..n
    BY <1>m
  <2>2. count[i] = count[i - 1] + (IF i \in gone THEN 0 ELSE 1) /\ count[i - 1] \in Nat
    BY <1>n, <2>1 DEF IsCount
  <2>3. CASE i \notin gone
    <3>1. i + 1 \in 1..(i + 1) /\ \A k \in (i + 1)..((i + 1) - 1) : k \in gone
      BY <2>1
    <3>2. P(i + 1)
      BY <2>1, <2>3, <3>1
    <3> QED
      BY <1>t, <2>1, <3>2
  <2>4. CASE i \in gone
    <3>1. P(i)
      BY <1>2, <1>t, <2>1
    <3>2. PICK p \in 1..i : /\ p = 1 \/ p - 1 \notin gone
                            /\ \A k \in p..(i - 1) : k \in gone
                            /\ count[p - 1] = count[i - 1]
      BY <3>1
    <3>3. p \in 1..(i + 1) /\ \A k \in p..((i + 1) - 1) : k \in p..(i - 1) \/ k = i
      BY <2>1
    <3>4. \A k \in p..((i + 1) - 1) : k \in gone
      BY <2>4, <3>2, <3>3
    <3>5. count[p - 1] = count[(i + 1) - 1]
      BY <2>1, <2>2, <2>4, <3>2
    <3>6. P(i + 1)
      BY <3>2, <3>3, <3>4, <3>5
    <3> QED
      BY <1>t, <2>1, <3>6
  <2> QED
    BY <2>3, <2>4
<1>3. \A i \in 0..m : i \in T
  BY <1>m, <1>1, <1>2, UpTo
<1>4. P(j)
  <2>1. j - 1 \in 0..m /\ (j - 1) + 1 = j
    BY <1>m
  <2>2. P((j - 1) + 1)
    BY <1>3, <1>t, <2>1
  <2> QED
    BY <2>1, <2>2
<1> QED
  BY <1>4 DEF Stretch

\* No two places that come after one that stays have the same count before them.
LEMMA CountOnce ==
    ASSUME NEW n \in Nat, NEW count, NEW gone, IsCount(count, n, gone),
           NEW p \in 1..n, NEW q \in 1..n, count[p - 1] = count[q - 1],
           p = 1 \/ p - 1 \notin gone, q = 1 \/ q - 1 \notin gone
    PROVE  p = q
<1>n. \A i \in 0..n : count[i] \in Nat
  BY CountType
<1>1. ASSUME NEW x \in 1..n, NEW y \in 1..n, count[x - 1] = count[y - 1], y - 1 \notin gone, x < y
      PROVE  FALSE
  <2>1. y - 1 \in 1..n /\ (y - 1) - 1 \in 0..n /\ x - 1 \in 0..n /\ (y - 1) - 1 \in (x - 1)..n
    BY <1>1
  <2>2. count[y - 1] = count[(y - 1) - 1] + 1
    BY <1>1, <2>1 DEF IsCount
  <2>3. count[x - 1] <= count[(y - 1) - 1]
    BY <2>1, CountGrows
  <2>4. count[(y - 1) - 1] \in Nat /\ count[x - 1] \in Nat
    BY <1>n, <2>1
  <2> QED
    BY <1>1, <2>2, <2>3, <2>4
<1>2. p < q \/ q < p \/ p = q
  OBVIOUS
<1>3. ~(p < q)
  <2>1. SUFFICES ASSUME p < q PROVE FALSE
    OBVIOUS
  <2>2. q # 1
    BY <2>1
  <2> QED
    BY <1>1, <2>1, <2>2
<1>4. ~(q < p)
  <2>1. SUFFICES ASSUME q < p PROVE FALSE
    OBVIOUS
  <2>2. p # 1
    BY <2>1
  <2> QED
    BY <1>1, <2>1, <2>2
<1> QED
  BY <1>2, <1>3, <1>4

\* Where the pieces end.
IsOffsets(ends, seqs, n) ==
    ends[0] = 0 /\ \A i \in 1..n : ends[i] = ends[i - 1] + Len(seqs[i])

\* Every element of every piece is found after the pieces before it.
IsPieced(whole, ends, seqs, n, S) ==
    /\ whole \in Seq(S) /\ Len(whole) = ends[n]
    /\ \A i \in 1..n : \A k \in 1..Len(seqs[i]) :
          ends[i - 1] + k \in 1..ends[n] /\ whole[ends[i - 1] + k] = seqs[i][k]

LEMMA PiecesAt ==
    ASSUME NEW S, NEW n \in Nat \ {0}, NEW seqs \in [1..n -> Seq(S)],
           NEW ends, IsOffsets(ends, seqs, n)
    PROVE  IsPieced(FlattenSeq(seqs), ends, seqs, n, S)
<1>1. PICK z : IsFlattening(z, seqs, n, S) /\ FlattenSeq(seqs) = z[n]
  BY FlattenSteps
<1>z. /\ z[1] = seqs[1] /\ \A i \in 1..n : i # 1 => z[i] = z[i - 1] \o seqs[i]
      /\ \A i \in 1..n : z[i] \in Seq(S)
  BY <1>1 DEF IsFlattening
<1>s. \A i \in 1..n : seqs[i] \in Seq(S) /\ Len(seqs[i]) \in Nat
  OBVIOUS
<1>e. ends[0] = 0 /\ \A i \in 1..n : ends[i] = ends[i - 1] + Len(seqs[i])
  BY DEF IsOffsets
<1>m. PICK m : m \in Nat /\ m = n - 1 /\ n = m + 1
  OBVIOUS
<1> DEFINE Good(j) == /\ Len(z[j]) = ends[j]
                      /\ \A i \in 1..j : \A k \in 1..Len(seqs[i]) :
                            ends[i - 1] + k \in 1..ends[j] /\ z[j][ends[i - 1] + k] = seqs[i][k]
<1>t. PICK T : T = {j \in 0..m : Good(j + 1)}
  OBVIOUS
<1>2. 0 \in T
  <2>1. 1 \in 1..n /\ 1 - 1 = 0
    OBVIOUS
  <2>2. ends[1] = Len(seqs[1]) /\ ends[1 - 1] = 0 /\ z[1] = seqs[1] /\ Len(seqs[1]) \in Nat
    BY <1>e, <1>z, <1>s, <2>1
  <2>3. ASSUME NEW i \in 1..1, NEW k \in 1..Len(seqs[i])
        PROVE  ends[i - 1] + k \in 1..ends[1] /\ z[1][ends[i - 1] + k] = seqs[i][k]
    <3>1. i = 1 /\ k \in 1..Len(seqs[1]) /\ 0 + k = k
      BY <2>2
    <3> QED
      BY <2>2, <3>1
  <2>4. Good(1)
    BY <2>2, <2>3
  <2> HIDE DEF Good
  <2> QED
    BY <2>4, <1>m, <1>t
<1>3. ASSUME NEW j \in 1..m, j - 1 \in T PROVE j \in T
  <2>1. j \in 1..n /\ j + 1 \in 1..n /\ (j + 1) - 1 = j /\ (j - 1) + 1 = j /\ j + 1 # 1 /\ j \in 0..m
    BY <1>m
  <2>2. Good(j)
    <3> HIDE DEF Good
    <3> QED
      BY <1>3, <1>t, <2>1
  <2>3. z[j + 1] = z[j] \o seqs[j + 1] /\ z[j] \in Seq(S) /\ seqs[j + 1] \in Seq(S)
    BY <1>z, <1>s, <2>1
  <2>x. PICK x : x = z[j] /\ x \in Seq(S)
    BY <2>3
  <2>y. PICK y : y = seqs[j + 1] /\ y \in Seq(S)
    BY <2>3
  <2>u. PICK u : u = z[j + 1] /\ u = x \o y
    BY <2>3, <2>x, <2>y
  <2>4. /\ Len(u) = Len(z[j]) + Len(seqs[j + 1]) /\ Len(z[j]) \in Nat /\ Len(seqs[j + 1]) \in Nat
        /\ \A i \in 1..Len(z[j]) : u[i] = z[j][i]
        /\ \A i \in 1..Len(seqs[j + 1]) : u[Len(z[j]) + i] = seqs[j + 1][i]
    <3>0. x \in Seq(S) /\ y \in Seq(S) /\ u = x \o y
      BY <2>u, <2>x, <2>y
    <3>1. /\ u \in Seq(S) /\ Len(u) = Len(x) + Len(y)
          /\ Len(x) \in Nat /\ Len(y) \in Nat
          /\ \A i \in 1..Len(x) : u[i] = x[i]
          /\ \A i \in 1..Len(y) : u[Len(x) + i] = y[i]
      BY <3>0, ConcatIs
    <3> QED
      BY <3>1, <2>x, <2>y
  <2>a. PICK a : a \in Nat /\ a = Len(z[j]) /\ a = ends[j]
    BY <2>2, <2>4
  <2>b. PICK c : c \in Nat /\ c = Len(seqs[j + 1])
    BY <2>4
  <2>5. ends[j + 1] = a + c /\ Len(u) = a + c
    <3>1. ends[j + 1] = ends[(j + 1) - 1] + Len(seqs[j + 1])
      BY <1>e, <2>1
    <3> QED
      BY <3>1, <2>1, <2>4, <2>a, <2>b
  <2>6. ASSUME NEW i \in 1..(j + 1), NEW k \in 1..Len(seqs[i])
        PROVE  ends[i - 1] + k \in 1..(a + c) /\ u[ends[i - 1] + k] = seqs[i][k]
    <3>1. CASE i \in 1..j
      <4>1. ends[i - 1] + k \in 1..a /\ z[j][ends[i - 1] + k] = seqs[i][k]
        BY <2>2, <2>a, <3>1
      <4>w. PICK w : w = ends[i - 1] + k
        OBVIOUS
      <4>2. w \in 1..(a + c) /\ w \in 1..Len(z[j])
        BY <2>a, <2>b, <4>1, <4>w
      <4>3. u[w] = z[j][w]
        BY <2>4, <4>2
      <4> QED
        BY <4>1, <4>2, <4>3, <4>w
    <3>2. CASE i = j + 1
      <4>1. k \in 1..c /\ ends[i - 1] = a
        BY <2>1, <2>a, <2>b, <3>2
      <4> QED
        BY <2>4, <2>a, <2>b, <3>2, <4>1
    <3> QED
      BY <2>1, <3>1, <3>2
  <2>7. Good(j + 1)
    BY <2>5, <2>6, <2>u
  <2> HIDE DEF Good
  <2> QED
    BY <1>t, <2>1, <2>7
<1>4. \A j \in 0..m : j \in T
  BY <1>m, <1>2, <1>3, UpTo
<1>5. Good(n)
  <2>1. m \in 0..m /\ m + 1 = n
    BY <1>m
  <2> HIDE DEF Good
  <2> QED
    BY <1>4, <1>t, <2>1
<1>6. n \in 1..n
  OBVIOUS
<1> QED
  BY <1>1, <1>5, <1>6, <1>z DEF IsPieced

\* Kept counts the instructions of a block that are not dead.
LEMMA KeptCounts ==
    ASSUME GraphOK(bbs), NEW b \in Blocks
    PROVE  IsCount(Kept(b), Len(bbs[b].code), dead[b])
<1>n. PICK n : n \in Nat /\ n = Len(bbs[b].code)
  BY DEF GraphOK, Blocks
<1>1. PICK F : F = [z \in (1..n) \X Nat |-> z[2] + (IF z[1] \in dead[b] THEN 0 ELSE 1)]
  OBVIOUS
<1>2. F \in [(1..n) \X Nat -> Nat]
  BY <1>1
<1>3. PICK h : IsRecursion(h, n, Nat, 0, F)
  BY <1>n, <1>2, RecursionUpTo
<1>4. /\ h \in [0..n -> Nat] /\ h[0] = 0
      /\ \A k \in 1..n : h[k] = h[k - 1] + (IF k \in dead[b] THEN 0 ELSE 1)
  <2>1. h \in [0..n -> Nat] /\ h[0] = 0 /\ \A k \in 1..n : h[k] = F[<<k, h[k - 1]>>]
    BY <1>3 DEF IsRecursion
  <2>2. ASSUME NEW k \in 1..n PROVE h[k] = h[k - 1] + (IF k \in dead[b] THEN 0 ELSE 1)
    <3>1. k - 1 \in 0..n
      BY <1>n
    <3>2. <<k, h[k - 1]>> \in (1..n) \X Nat
      BY <2>1, <3>1
    <3> QED
      BY <1>1, <2>1, <3>2
  <2> QED
    BY <2>1, <2>2
<1> DEFINE Is(z) == z = [i \in 0..Len(bbs[b].code) |->
                           IF i = 0 THEN 0 ELSE z[i - 1] + (IF i \in dead[b] THEN 0 ELSE 1)]
<1>5. Is(h)
  <2>1. ASSUME NEW i \in 0..n
        PROVE  h[i] = IF i = 0 THEN 0 ELSE h[i - 1] + (IF i \in dead[b] THEN 0 ELSE 1)
    <3>1. i = 0 \/ i \in 1..n
      BY <1>n
    <3> QED
      BY <1>4, <3>1
  <2>2. h = [i \in 0..n |-> IF i = 0 THEN 0 ELSE h[i - 1] + (IF i \in dead[b] THEN 0 ELSE 1)]
    BY <1>4, <2>1
  <2> QED
    BY <1>n, <2>2
<1>6. Kept(b) = CHOOSE z : Is(z)
  BY DEF Kept
<1> HIDE DEF Is
<1>7. PICK z : Is(z) /\ Kept(b) = z
  BY <1>5, <1>6, Zenon
<1>8. z = [i \in 0..n |-> IF i = 0 THEN 0 ELSE z[i - 1] + (IF i \in dead[b] THEN 0 ELSE 1)]
  BY <1>7, <1>n DEF Is
<1>9. z[0] = 0
  BY <1>n, <1>8
<1>10. ASSUME NEW i \in 1..n PROVE z[i] = z[i - 1] + (IF i \in dead[b] THEN 0 ELSE 1)
  <2>1. i \in 0..n /\ i # 0
    BY <1>n
  <2> QED
    BY <1>8, <2>1
<1> QED
  BY <1>7, <1>9, <1>10, <1>n DEF IsCount

\* AfterKept finds the place after so many that stay.
LEMMA AfterKeptIs ==
    ASSUME GraphOK(bbs), NEW b \in Blocks, NEW p \in 1..Len(bbs[b].code),
           p = 1 \/ p - 1 \notin dead[b], NEW k, Kept(b)[p - 1] = k - 1
    PROVE  AfterKept(b, k) = p
<1>n. PICK n : n \in Nat /\ n = Len(bbs[b].code) /\ DOMAIN bbs[b].code = 1..n
  BY DEF GraphOK, Blocks
<1>c. PICK count : count = Kept(b) /\ IsCount(count, n, dead[b])
  BY <1>n, KeptCounts
<1> DEFINE At(i) == count[i - 1] = k - 1 /\ (i = 1 \/ i - 1 \notin dead[b])
<1>1. AfterKept(b, k) = CHOOSE i \in 1..n : At(i)
  BY <1>n, <1>c DEF AfterKept
<1>2. p \in 1..n /\ At(p)
  BY <1>n, <1>c
<1>3. ASSUME NEW q \in 1..n, At(q) PROVE q = p
  BY <1>2, <1>3, <1>c, <1>n, CountOnce
<1> HIDE DEF At
<1> QED
  BY <1>1, <1>2, <1>3

\* NeededIn is the solution for a block.
LEMMA NeededInSolves ==
    ASSUME NEW g, NEW D, Returned(g, D), NEW b \in Blocks
    PROVE  Solution(NeededIn(b), b)
<1>g. bbs = g /\ GraphOK(bbs)
  <2>1. bbs = g
    BY DEF Returned, MaskInv, StoreInv
  <2> QED
    BY <2>1 DEF Returned, Closed
<1>n. PICK n : n \in Nat /\ n = Len(bbs[b].code) /\ DOMAIN bbs[b].code = 1..n
  BY <1>g DEF GraphOK, Blocks
<1>1. PICK V : Solution(V, b)
  BY SolutionExists
<1>v. V[n] = NeededAfter(b) /\ \A i \in 1..n : V[i - 1] = Before(bbs[b].code[i], V[i])
  BY <1>1, <1>n DEF Solution, Exact
<1>c. PICK code : code = bbs[b].code
  OBVIOUS
<1> DEFINE Step(z, i) == IF i = n THEN NeededAfter(b)
                         ELSE UNION {Before(code[i + 1], after) : after \in {z[i + 1]}}
           Is(z) == z = [i \in 0..n |-> Step(z, i)]
<1>h. PICK h : h = [i \in 0..n |-> V[i]]
  OBVIOUS
<1>2. Is(h)
  <2>1. ASSUME NEW i \in 0..n PROVE V[i] = Step(h, i)
    <3>1. CASE i = n
      BY <1>v, <3>1
    <3>2. CASE i # n
      <4>1. i + 1 \in 1..n /\ (i + 1) - 1 = i /\ i + 1 \in 0..n
        BY <1>n, <3>2
      <4>2. V[i] = Before(code[i + 1], V[i + 1])
        BY <1>v, <1>c, <4>1
      <4>3. h[i + 1] = V[i + 1]
        BY <1>h, <4>1
      <4>4. UNION {Before(code[i + 1], after) : after \in {h[i + 1]}} = Before(code[i + 1], h[i + 1])
        OBVIOUS
      <4> QED
        BY <3>2, <4>2, <4>3, <4>4
    <3> QED
      BY <3>1, <3>2
  <2> HIDE DEF Step
  <2> QED
    BY <1>h, <2>1
<1>3. NeededIn(b) = CHOOSE z : Is(z)
  BY <1>n, <1>c DEF NeededIn
<1> HIDE DEF Is
<1>4. PICK z : Is(z) /\ NeededIn(b) = z
  BY <1>2, <1>3, Zenon
<1>5. z = [i \in 0..n |-> Step(z, i)]
  BY <1>4 DEF Is
<1>6. \A i \in 0..n : z[i] = Step(z, i)
  <2> HIDE DEF Step
  <2> QED
    BY <1>5
<1>7. z[n] = NeededAfter(b)
  <2>1. n \in 0..n
    BY <1>n
  <2>2. z[n] = Step(z, n)
    <3> HIDE DEF Step
    <3> QED
      BY <1>6, <2>1
  <2> QED
    BY <2>2
<1>8. ASSUME NEW i \in 1..n PROVE z[i - 1] = Before(code[i], z[i])
  <2>1. i - 1 \in 0..n /\ i - 1 # n /\ (i - 1) + 1 = i
    BY <1>n
  <2>2. z[i - 1] = UNION {Before(code[(i - 1) + 1], after) : after \in {z[(i - 1) + 1]}}
    BY <1>6, <2>1
  <2>3. UNION {Before(code[i], after) : after \in {z[i]}} = Before(code[i], z[i])
    OBVIOUS
  <2> QED
    BY <2>1, <2>2, <2>3
<1>t. PICK T : T = {k \in 0..n : z[n - k] = V[n - k]}
  OBVIOUS
<1>9. 0 \in T
  BY <1>t, <1>v, <1>7, <1>n
<1>10. ASSUME NEW k \in 1..n, k - 1 \in T PROVE k \in T
  <2>1. n - (k - 1) \in 1..n /\ (n - (k - 1)) - 1 = n - k /\ k \in 0..n
    BY <1>n
  <2>2. z[n - (k - 1)] = V[n - (k - 1)]
    BY <1>10, <1>t
  <2>3. z[(n - (k - 1)) - 1] = V[(n - (k - 1)) - 1]
    BY <1>8, <1>v, <1>c, <2>1, <2>2
  <2> QED
    BY <1>t, <2>1, <2>3
<1>11. \A k \in 0..n : k \in T
  BY <1>n, <1>9, <1>10, UpTo
<1>12. ASSUME NEW i \in 0..n PROVE z[i] = V[i]
  <2>1. n - i \in 0..n /\ n - (n - i) = i
    BY <1>n
  <2>2. z[n - (n - i)] = V[n - (n - i)]
    BY <1>11, <1>t, <2>1
  <2> QED
    BY <2>1, <2>2
<1>13. Exact(z, b, 0)
  BY <1>7, <1>8, <1>n, <1>c DEF Exact
<1>14. z[0] = alives[b]
  BY <1>1, <1>12, <1>n DEF Solution
<1>15. \A i \in 1..n : z[i] = V[i]
  BY <1>12, <1>n
<1> QED
  BY <1>1, <1>4, <1>13, <1>14, <1>15, <1>n DEF Solution

-----------------------------------------------------------------------------
(* The values of a graph that can be run *)

\* maskDeadInst has returned, for a graph that can be run.
Ready(g, D) == Returned(g, D) /\ Runnable(g)

\* v is the result of instruction k of block c.
ResultAt(v, c, k) ==
    c \in Blocks /\ k \in DOMAIN bbs[c].code /\ bbs[c].code[k].dst = v /\ v # None

\* No dead value is needed where block b begins.
NoneDeadNeeded(b) == \A v, b0, i0 : DeadResult(v, b0, i0) => v \notin alives[b]

LEMMA ReadyGraph ==
    ASSUME NEW g, NEW D, Ready(g, D)
    PROVE  bbs = g /\ Closed(bbs) /\ GraphOK(bbs) /\ Runnable(bbs) /\ Blocks = 1..Len(bbs) /\ 1 \in Blocks
           /\ Len(bbs) \in Nat
<1>1. bbs = g
  BY DEF Ready, Returned, MaskInv, StoreInv
<1>2. Closed(bbs) /\ Runnable(bbs)
  BY <1>1 DEF Ready, Returned
<1>3. GraphOK(bbs) /\ Len(bbs) > 0
  BY <1>2 DEF Closed
<1> QED
  BY <1>1, <1>2, <1>3 DEF GraphOK, Blocks

\* What the graph says of one instruction.
LEMMA OneInstRuns ==
    ASSUME NEW g, NEW D, Ready(g, D), NEW b \in Blocks, NEW i \in DOMAIN bbs[b].code
    PROVE  /\ InstOK(bbs[b].code[i]) /\ InstRuns(bbs, bbs[b].code[i])
           /\ i \in 1..Len(bbs[b].code) /\ Len(bbs[b].code) \in Nat /\ i \in Nat /\ i - 1 \in 0..Len(bbs[b].code)
           /\ DOMAIN bbs[b].code = 1..Len(bbs[b].code)
           /\ IsTerminator(bbs[b].code[i]) <=> i = Len(bbs[b].code)
<1>1. /\ InstOK(bbs[b].code[i])
      /\ i \in 1..Len(bbs[b].code) /\ Len(bbs[b].code) \in Nat /\ i \in Nat /\ i - 1 \in 0..Len(bbs[b].code)
  BY OneInstruction DEF Ready
<1>2. Runnable(bbs) /\ Closed(bbs) /\ GraphOK(bbs)
  BY ReadyGraph
<1>3. InstRuns(bbs, bbs[b].code[i])
  BY <1>2 DEF Runnable, Blocks
<1> QED
  BY <1>1, <1>2, <1>3 DEF Closed, GraphOK, Blocks

\* There are finitely many results.
LEMMA ResultsFinite ==
    ASSUME NEW g, GraphOK(g)
    PROVE  ResultsOf(g) \in Nat
<1> DEFINE Of(b) == {i \in DOMAIN g[b].code : g[b].code[i].dst # None} \X {b}
<1>n. PICK n : n \in Nat /\ DOMAIN g = 1..n
  BY DEF GraphOK
<1>1. PICK f : f = [b \in 1..n |-> Of(b)]
  OBVIOUS
<1>2. PICK T : T = {Of(b) : b \in 1..n}
  OBVIOUS
<1>3. f \in Surjection(1..n, T)
  <2> HIDE DEF Of
  <2> QED
    BY <1>1, <1>2 DEF Surjection
<1>4. IsFiniteSet(1..n)
  BY <1>n, FS_Interval
<1>5. IsFiniteSet(T)
  BY <1>3, <1>4, FS_Surjection
<1>6. ASSUME NEW b \in 1..n PROVE IsFiniteSet(Of(b))
  <2>1. PICK m : m \in Nat /\ DOMAIN g[b].code = 1..m
    BY <1>n DEF GraphOK
  <2>2. PICK I : I = {i \in DOMAIN g[b].code : g[b].code[i].dst # None}
    OBVIOUS
  <2>3. IsFiniteSet(1..m)
    BY <2>1, FS_Interval
  <2>4. I \subseteq 1..m
    BY <2>1, <2>2
  <2>5. IsFiniteSet(I)
    BY <2>3, <2>4, FS_Subset
  <2>6. IsFiniteSet({b})
    BY FS_Singleton
  <2>7. IsFiniteSet(I \X {b})
    BY <2>5, <2>6, FS_Product
  <2> QED
    BY <2>2, <2>7
<1>7. IsFiniteSet(UNION T)
  <2> HIDE DEF Of
  <2> QED
    BY <1>2, <1>5, <1>6, FS_UNION
<1>8. Cardinality(UNION T) \in Nat
  BY <1>7, FS_CardinalityType
<1>9. UNION T = UNION {{i \in DOMAIN g[b].code : g[b].code[i].dst # None} \X {b} : b \in DOMAIN g}
  BY <1>2, <1>n
<1> QED
  BY <1>8, <1>9 DEF ResultsOf

\* A result has a number of its own, and knows what made it.
LEMMA ResultNumber ==
    ASSUME NEW g, NEW D, Ready(g, D), NEW v, NEW c, NEW k, ResultAt(v, c, k)
    PROVE  /\ v.n \in 1..NumResults /\ v.n \in Nat /\ v.n >= 1 /\ NumResults \in Nat
           /\ v.kind = "result" /\ v.by = bbs[c].code[k].op
           /\ \A w, d, l : ResultAt(w, d, l) /\ w.n = v.n => w = v /\ d = c /\ l = k
<1>1. Runnable(bbs) /\ GraphOK(bbs)
  BY ReadyGraph
<1>2. NumResults \in Nat
  BY <1>1, ResultsFinite DEF NumResults
<1>3. v.n \in 1..NumResults
  <2>1. NumberedApart(bbs, c, k)
    BY <1>1 DEF Runnable, ResultAt, Blocks
  <2> QED
    BY <2>1 DEF NumberedApart, ResultAt, NumResults
<1>4. InstOK(bbs[c].code[k])
  BY OneInstRuns DEF ResultAt
<1>5. v.kind = "result" /\ v.by = bbs[c].code[k].op
  BY <1>4 DEF InstOK, ResultAt
<1>6. ASSUME NEW w, NEW d, NEW l, ResultAt(w, d, l), w.n = v.n PROVE w = v /\ d = c /\ l = k
  <2>0. /\ c \in DOMAIN bbs /\ k \in DOMAIN bbs[c].code /\ bbs[c].code[k].dst = v /\ v # None
        /\ d \in DOMAIN bbs /\ l \in DOMAIN bbs[d].code /\ bbs[d].code[l].dst = w /\ w # None
    BY <1>6 DEF ResultAt, Blocks
  <2>1. <<d, l>> = <<c, k>>
    <3>1. NumberedApart(bbs, c, k)
      BY <1>1, <2>0 DEF Runnable
    <3> QED
      BY <1>6, <2>0, <3>1 DEF NumberedApart
  <2> QED
    BY <1>6, <2>1 DEF ResultAt
<1> QED
  BY <1>2, <1>3, <1>5, <1>6

\* What is computed is the result of an instruction that stays.
LEMMA KeptResult ==
    ASSUME NEW v
    PROVE  v \in ResultsKept <=> \E c, k : ResultAt(v, c, k) /\ k \notin dead[c]
BY DEF ResultsKept, ResultAt

\* The result of a dead instruction is not computed.
LEMMA DeadNotKept ==
    ASSUME NEW g, NEW D, Ready(g, D), NEW b \in Blocks, NEW i \in DOMAIN bbs[b].code, i \in dead[b]
    PROVE  bbs[b].code[i].dst \notin ResultsKept
<1>v. PICK v : v = bbs[b].code[i].dst
  OBVIOUS
<1>1. SUFFICES ASSUME v \in ResultsKept PROVE FALSE
  BY <1>v
<1>2. PICK c, k : ResultAt(v, c, k) /\ k \notin dead[c]
  BY <1>1, KeptResult
<1>3. ResultAt(v, b, i)
  BY <1>2, <1>v DEF ResultAt
<1>4. b = c /\ i = k
  BY <1>2, <1>3, ResultNumber
<1> QED
  BY <1>2, <1>4

\* The operands of an instruction that stays are computed.
LEMMA OperandsKept ==
    ASSUME NEW g, NEW D, Ready(g, D), NEW b \in Blocks, NoneDeadNeeded(b),
           NEW i \in DOMAIN bbs[b].code, i \notin dead[b]
    PROVE  OfResult(Elems(bbs[b].code[i].args)) \subseteq ResultsKept
<1> SUFFICES ASSUME NEW v \in Elems(bbs[b].code[i].args), v.kind = "result" PROVE v \in ResultsKept
  BY DEF OfResult
<1>1. InstRuns(bbs, bbs[b].code[i])
  BY OneInstRuns
<1>2. PICK c, k : ResultAt(v, c, k)
  BY <1>1 DEF InstRuns, ResultAt, Blocks
<1>3. k \notin dead[c]
  <2>1. SUFFICES ASSUME k \in dead[c] PROVE FALSE
    OBVIOUS
  <2>2. DeadResult(v, c, k)
    BY <1>2, <2>1 DEF DeadResult, ResultAt
  <2>3. v \notin alives[b]
    BY <2>2 DEF NoneDeadNeeded
  <2> QED
    BY <2>2, <2>3, NotUsedIn DEF Ready
<1> QED
  BY <1>2, <1>3, KeptResult

\* Where the first block begins, no dead value is needed,
LEMMA NoneDeadFirst ==
    ASSUME NEW g, NEW D, Ready(g, D)
    PROVE  NoneDeadNeeded(1)
<1> SUFFICES ASSUME NEW v, NEW b0, NEW i0, DeadResult(v, b0, i0), v \in alives[1] PROVE FALSE
  BY DEF NoneDeadNeeded
<1>1. v.kind = "result"
  BY OneDefinition DEF Ready
<1>2. OfResult(alives[1]) \subseteq D[1] /\ D[1] = {}
  BY ReadyGraph DEF Ready, Returned, MaskInv, DefInv, DefinedFirst
<1> QED
  BY <1>1, <1>2 DEF OfResult

\* and so in every block a run comes to.
LEMMA NoneDeadNext ==
    ASSUME NEW g, NEW D, Ready(g, D), NEW b \in Blocks, NoneDeadNeeded(b),
           NEW s \in Elems(bbs[b].succ)
    PROVE  s \in Blocks /\ NoneDeadNeeded(s)
<1>1. GraphOK(bbs)
  BY ReadyGraph
<1>n. PICK n : n \in Nat /\ n = Len(bbs[b].code)
  BY <1>1 DEF GraphOK, Blocks
<1>2. s \in Blocks
  BY <1>1 DEF GraphOK, Blocks
<1>3. ASSUME NEW v, NEW b0, NEW i0, DeadResult(v, b0, i0) PROVE v \notin alives[s]
  <2>1. SUFFICES ASSUME v \in alives[s] PROVE FALSE
    OBVIOUS
  <2>2. PICK V : Solution(V, b)
    BY SolutionExists DEF Ready
  <2>3. v \in NeededAfter(b)
    BY <2>1 DEF NeededAfter
  <2>4. v \in V[n] /\ n \in 0..n
    BY <1>n, <2>2, <2>3 DEF Solution, Exact
  <2>5. v \in alives[b]
    BY <1>3, <1>n, <2>2, <2>4, NeededAtStart DEF Ready
  <2> QED
    BY <1>3, <2>5 DEF NoneDeadNeeded
<1> QED
  BY <1>2, <1>3 DEF NoneDeadNeeded

-----------------------------------------------------------------------------
(* The memory that matters *)

LEMMA VariableIs ==
    ASSUME NEW g, NEW D, Ready(g, D), NEW v
    PROVE  v \in Variables <=> v.by = "alloc" /\ \E c, k : ResultAt(v, c, k)
<1>1. ASSUME v \in Variables PROVE v.by = "alloc" /\ \E c, k : ResultAt(v, c, k)
  <2>1. PICK c \in Blocks : \E k \in DOMAIN bbs[c].code :
            bbs[c].code[k].op = "alloc" /\ bbs[c].code[k].dst = v
    BY <1>1 DEF Variables, Insts
  <2>2. PICK k \in DOMAIN bbs[c].code : bbs[c].code[k].op = "alloc" /\ bbs[c].code[k].dst = v
    BY <2>1
  <2>3. v # None
    BY <2>2, OneInstRuns DEF InstRuns
  <2>4. ResultAt(v, c, k)
    BY <2>2, <2>3 DEF ResultAt
  <2> QED
    BY <2>2, <2>4, ResultNumber
<1>2. ASSUME v.by = "alloc", NEW c, NEW k, ResultAt(v, c, k) PROVE v \in Variables
  <2>1. bbs[c].code[k].op = "alloc"
    BY <1>2, ResultNumber
  <2>2. bbs[c].code[k] \in Insts
    BY <1>2 DEF Insts, ResultAt
  <2> QED
    BY <1>2, <2>1, <2>2 DEF Variables, ResultAt
<1> QED
  BY <1>1, <1>2

LEMMA ArrayIs ==
    ASSUME NEW g, NEW D, Ready(g, D), NEW b \in Blocks, NEW i \in DOMAIN bbs[b].code,
           bbs[b].code[i].op = "gep", bbs[b].code[i].args[1].kind # "global"
    PROVE  bbs[b].code[i].args[1] \in Arrays /\ bbs[b].code[i].args[1] \in Variables
<1>i. PICK inst : inst = bbs[b].code[i] /\ inst.op = "gep" /\ inst.args[1].kind # "global"
  OBVIOUS
<1>1. InstRuns(bbs, inst)
  BY <1>i, OneInstRuns
<1>2. inst.args[1] \in Elems(inst.args)
  <2>1. DOMAIN inst.args = 1..2
    BY <1>1, <1>i DEF InstRuns, NumOperands
  <2> QED
    BY <2>1 DEF Elems
<1>3. inst.args[1].by = "alloc"
  BY <1>1, <1>i DEF InstRuns
<1>4. PICK c, k : ResultAt(inst.args[1], c, k)
  BY <1>1, <1>2, <1>3 DEF InstRuns, ResultAt, Blocks
<1>5. inst.args[1] \in Variables
  BY <1>3, <1>4, VariableIs
<1>6. inst \in Insts
  BY <1>i DEF Insts
<1> QED
  BY <1>5, <1>6, <1>i DEF Arrays

LEMMA ArraysAreVariables ==
    ASSUME NEW g, NEW D, Ready(g, D)
    PROVE  Arrays \subseteq Variables
<1> SUFFICES ASSUME NEW v \in Arrays PROVE v \in Variables
  OBVIOUS
<1>1. PICK inst \in Insts : inst.op = "gep" /\ inst.args[1].kind # "global" /\ v = inst.args[1]
  BY DEF Arrays
<1>2. PICK b, i : b \in Blocks /\ i \in DOMAIN bbs[b].code /\ inst = bbs[b].code[i]
  BY DEF Insts
<1> QED
  BY <1>1, <1>2, ArrayIs

\* A dead instruction changes nothing about the variables that are needed.
LEMMA DeadNeedsSame ==
    ASSUME NEW g, NEW D, Ready(g, D), NEW b \in Blocks, NEW i \in DOMAIN bbs[b].code, i \in dead[b]
    PROVE  NeededIn(b)[i - 1] \cap Variables = NeededIn(b)[i] \cap Variables
<1>i. PICK inst : inst = bbs[b].code[i]
  OBVIOUS
<1>v. PICK V : V = NeededIn(b) /\ Solution(V, b)
  BY NeededInSolves DEF Ready
<1>1. /\ InstOK(inst) /\ i \in 1..Len(bbs[b].code) /\ i \in (0 + 1)..Len(bbs[b].code)
  BY <1>i, OneInstRuns
<1>2. ~IsLive(inst, V[i]) /\ V[i - 1] = Before(inst, V[i])
  BY <1>1, <1>i, <1>v DEF Solution, Exact
<1>3. V[i - 1] = V[i] \ {inst.dst}
  BY <1>2 DEF Before
<1>4. ~(inst.dst \in V[i] /\ inst.dst \in Variables)
  <2>1. SUFFICES ASSUME inst.dst \in V[i], inst.dst \in Variables PROVE FALSE
    OBVIOUS
  <2>2. inst.op # "store"
    <3>1. PICK c, k : ResultAt(inst.dst, c, k)
      BY <2>1, VariableIs
    <3>2. inst.dst # None
      BY <3>1 DEF ResultAt
    <3> QED
      BY <1>1, <3>2 DEF InstOK
  <2> QED
    BY <1>2, <2>1, <2>2 DEF IsLive
<1> QED
  BY <1>3, <1>4, <1>v

\* An instruction that stays makes needed what it defines or writes, and
\* nothing else.
LEMMA LiveNeeds ==
    ASSUME NEW g, NEW D, Ready(g, D), NEW b \in Blocks, NEW i \in DOMAIN bbs[b].code, i \notin dead[b],
           NEW v \in NeededIn(b)[i], v \in Variables, v \notin NeededIn(b)[i - 1]
    PROVE  \/ bbs[b].code[i].op = "alloc" /\ bbs[b].code[i].dst = v
           \/ IsLocalStore(bbs[b].code[i]) /\ bbs[b].code[i].args[2] = v
<1>i. PICK inst : inst = bbs[b].code[i]
  OBVIOUS
<1>v. PICK V : V = NeededIn(b) /\ Solution(V, b)
  BY NeededInSolves DEF Ready
<1>1. InstOK(inst) /\ i \in 1..Len(bbs[b].code) /\ i \in (0 + 1)..Len(bbs[b].code)
  BY <1>i, OneInstRuns
<1>2. V[i - 1] = Before(inst, V[i])
  BY <1>1, <1>i, <1>v DEF Solution, Exact
<1>3. v = inst.dst \/ (IsLocalStore(inst) /\ inst.args[2] = v)
  BY <1>2, <1>v DEF Before
<1>4. ASSUME v = inst.dst PROVE inst.op = "alloc"
  <2>1. v.by = "alloc" /\ \E c, k : ResultAt(v, c, k)
    BY VariableIs
  <2>2. v # None
    BY <2>1 DEF ResultAt
  <2> QED
    BY <1>1, <1>4, <2>1, <2>2 DEF InstOK
<1> QED
  BY <1>3, <1>4, <1>i

\* Over a stretch of dead instructions the memory that matters stays the same.
LEMMA CellsOfStretch ==
    ASSUME NEW g, NEW D, Ready(g, D), NEW b \in Blocks, NEW j \in DOMAIN bbs[b].code,
           NEW p \in 1..j, \A i \in p..(j - 1) : i \in dead[b]
    PROVE  \A i \in (p - 1)..(j - 1) :
              /\ NeededIn(b)[i] \cap Variables = NeededIn(b)[p - 1] \cap Variables
              /\ CellsAfter(b, i) = CellsAfter(b, p - 1)
<1>n. j \in Nat /\ DOMAIN bbs[b].code = 1..Len(bbs[b].code) /\ Len(bbs[b].code) \in Nat
  BY OneInstRuns
<1>m. PICK m : m \in Nat /\ m = (j - 1) - (p - 1)
  BY <1>n
<1>v. PICK V : V = NeededIn(b)
  OBVIOUS
<1>t. PICK T : T = {k \in 0..m : V[(p - 1) + k] \cap Variables = V[p - 1] \cap Variables}
  OBVIOUS
<1>1. 0 \in T
  <2>1. (p - 1) + 0 = p - 1 /\ 0 \in 0..m
    BY <1>m
  <2> QED
    BY <1>t, <2>1
<1>2. ASSUME NEW k \in 1..m, k - 1 \in T PROVE k \in T
  <2>1. /\ (p - 1) + k \in p..(j - 1) /\ ((p - 1) + k) - 1 = (p - 1) + (k - 1) /\ k \in 0..m
        /\ (p - 1) + k \in DOMAIN bbs[b].code
    BY <1>m, <1>n
  <2>2. V[((p - 1) + k) - 1] \cap Variables = V[(p - 1) + k] \cap Variables
    BY <2>1, <1>v, DeadNeedsSame
  <2>3. V[(p - 1) + (k - 1)] \cap Variables = V[p - 1] \cap Variables
    BY <1>2, <1>t
  <2> QED
    BY <1>t, <2>1, <2>2, <2>3
<1>3. \A k \in 0..m : k \in T
  BY <1>m, <1>1, <1>2, UpTo
<1>4. ASSUME NEW i \in (p - 1)..(j - 1) PROVE V[i] \cap Variables = V[p - 1] \cap Variables
  <2>1. i - (p - 1) \in 0..m /\ (p - 1) + (i - (p - 1)) = i
    BY <1>m, <1>n
  <2>2. V[(p - 1) + (i - (p - 1))] \cap Variables = V[p - 1] \cap Variables
    BY <1>3, <1>t, <2>1
  <2> QED
    BY <2>1, <2>2
<1>5. ASSUME NEW i \in (p - 1)..(j - 1) PROVE CellsAfter(b, i) = CellsAfter(b, p - 1)
  <2>1. NeededIn(b)[i] \cap Variables = NeededIn(b)[p - 1] \cap Variables
    BY <1>4, <1>v
  <2> QED
    BY <2>1 DEF CellsAfter
<1> QED
  BY <1>4, <1>5, <1>v

\* A variable has a cell that is no other's.
LEMMA CellOfVariable ==
    ASSUME NEW g, NEW D, Ready(g, D), NEW v \in Variables, NEW b \in Blocks, NEW i,
           2 * v.n \in CellsAfter(b, i)
    PROVE  v \in NeededIn(b)[i] \/ v \in Arrays
<1>1. PICK c, k : ResultAt(v, c, k)
  BY VariableIs
<1>2. /\ v.n \in Nat /\ v.n >= 1
      /\ \A w, d, l : ResultAt(w, d, l) /\ w.n = v.n => w = v
  BY <1>1, ResultNumber
<1>3. \A w \in Variables : w.n \in Nat /\ (w.n = v.n => w = v)
  <2>1. ASSUME NEW w \in Variables PROVE w.n \in Nat /\ (w.n = v.n => w = v)
    <3>1. PICK d, l : ResultAt(w, d, l)
      BY VariableIs
    <3> QED
      BY <3>1, <1>2, ResultNumber
  <2> QED
    BY <2>1
<1>4. Arrays \subseteq Variables
  BY ArraysAreVariables
<1>5. CASE \E w \in (NeededIn(b)[i] \cap Variables) \cup Arrays : 2 * v.n = 2 * w.n
  <2>1. PICK w \in (NeededIn(b)[i] \cap Variables) \cup Arrays : 2 * v.n = 2 * w.n
    BY <1>5
  <2>2. w \in Variables /\ w.n \in Nat
    BY <1>3, <1>4
  <2>3. w.n = v.n
    BY <1>2, <2>1, <2>2
  <2> QED
    BY <1>3, <2>1, <2>2, <2>3
<1>6. CASE \E w \in Arrays : 2 * v.n = 2 * w.n + 1
  <2>1. PICK w \in Arrays : 2 * v.n = 2 * w.n + 1
    BY <1>6
  <2>2. w.n \in Nat
    BY <1>3, <1>4
  <2> QED
    BY <1>2, <2>1, <2>2
<1>7. CASE 2 * v.n \in {0, 1}
  BY <1>2, <1>7
<1> QED
  BY <1>5, <1>6, <1>7 DEF CellsAfter

\* What dead instructions write does not matter.
LEMMA DeadWrites ==
    ASSUME NEW g, NEW D, Ready(g, D), NEW b \in Blocks, NEW j \in DOMAIN bbs[b].code,
           NEW p \in 1..j, \A i \in p..(j - 1) : i \in dead[b],
           NEW i \in p..(j - 1), bbs[b].code[i].op = "store", bbs[b].code[i].args[2].by = "alloc"
    PROVE  2 * bbs[b].code[i].args[2].n \notin CellsAfter(b, p - 1)
<1>n. /\ j \in Nat /\ DOMAIN bbs[b].code = 1..Len(bbs[b].code) /\ Len(bbs[b].code) \in Nat
  BY OneInstRuns
<1>1. i \in DOMAIN bbs[b].code /\ i \in (p - 1)..(j - 1) /\ i \in dead[b] /\ i \in 1..Len(bbs[b].code)
  BY <1>n
<1>i. PICK inst : inst = bbs[b].code[i] /\ inst.op = "store" /\ inst.args[2].by = "alloc"
  OBVIOUS
<1>2. InstOK(inst) /\ InstRuns(bbs, inst)
  BY <1>1, <1>i, OneInstRuns
<1>w. PICK v : v = inst.args[2]
  OBVIOUS
<1>3. v \in Elems(inst.args)
  BY <1>2, <1>i, <1>w DEF InstOK, Elems
<1>4. \E c, k : ResultAt(v, c, k)
  BY <1>2, <1>3, <1>i, <1>w DEF InstRuns, ResultAt, Blocks
<1>5. v \in Variables
  BY <1>4, <1>i, <1>w, VariableIs
<1>6. v.kind = "result"
  BY <1>4, ResultNumber
<1>7. IsLocalStore(inst)
  BY <1>6, <1>i, <1>w DEF IsLocalStore
<1>8. Solution(NeededIn(b), b)
  BY NeededInSolves DEF Ready
<1>9. v \notin NeededIn(b)[i]
  BY <1>1, <1>7, <1>8, <1>i, <1>w DEF Solution, IsLive
<1>10. NeededIn(b)[i] \cap Variables = NeededIn(b)[p - 1] \cap Variables
  BY <1>1, CellsOfStretch
<1>11. v \notin NeededIn(b)[p - 1]
  BY <1>5, <1>9, <1>10
<1>12. v \notin Arrays
  <2>1. SUFFICES ASSUME v \in Arrays PROVE FALSE
    OBVIOUS
  <2>2. PICK other \in Insts : other.op = "gep" /\ v = other.args[1]
    BY <2>1 DEF Arrays
  <2>3. PICK c, k : c \in Blocks /\ k \in DOMAIN bbs[c].code /\ other = bbs[c].code[k]
    BY DEF Insts
  <2>4. InstRuns(bbs, other)
    BY <2>3, OneInstRuns
  <2> QED
    BY <1>1, <1>7, <1>i, <1>w, <2>2, <2>4 DEF InstRuns, Blocks
<1> QED
  BY <1>5, <1>11, <1>12, <1>i, <1>w, CellOfVariable

\* The memory that matters after an instruction that stays.
LEMMA CellsOfLive ==
    ASSUME NEW g, NEW D, Ready(g, D), NEW b \in Blocks, NEW i \in DOMAIN bbs[b].code, i \notin dead[b],
           NEW a \in CellsAfter(b, i), a \notin CellsAfter(b, i - 1)
    PROVE  \/ bbs[b].code[i].op = "alloc" /\ a = 2 * bbs[b].code[i].dst.n
           \/ IsLocalStore(bbs[b].code[i]) /\ a = 2 * bbs[b].code[i].args[2].n
<1>1. PICK v \in NeededIn(b)[i] \cap Variables : a = 2 * v.n
  BY DEF CellsAfter
<1>2. v \notin NeededIn(b)[i - 1]
  BY <1>1 DEF CellsAfter
<1> QED
  BY <1>1, <1>2, LiveNeeds

\* What matters where the next block begins matters at the end of this one.
LEMMA CellsOfNext ==
    ASSUME NEW g, NEW D, Ready(g, D), NEW b \in Blocks, NEW s \in Elems(bbs[b].succ)
    PROVE  CellsAfter(s, 0) \subseteq CellsAfter(b, Len(bbs[b].code))
<1>1. s \in Blocks
  BY ReadyGraph DEF GraphOK, Blocks
<1>2. Solution(NeededIn(b), b) /\ Solution(NeededIn(s), s)
  BY <1>1, NeededInSolves DEF Ready
<1>3. NeededIn(s)[0] \subseteq NeededIn(b)[Len(bbs[b].code)]
  BY <1>2 DEF Solution, Exact, NeededAfter
<1> QED
  BY <1>3 DEF CellsAfter

-----------------------------------------------------------------------------
(* What is printed for a block *)

\* text is what is emitted for a block: the instructions that stay, and what
\* its last instruction becomes.
IsText(text, code, gone, count, m) ==
    /\ Len(text) \in Nat /\ DOMAIN text = 1..Len(text)
    /\ Len(text) = count[Len(code) - 1] + Len(EmitInstruction(code[Len(code)], m))
    /\ \A j \in 1..(Len(code) - 1) : j \notin gone => text[count[j]] = code[j]
    /\ \A k \in 1..Len(EmitInstruction(code[Len(code)], m)) :
          text[count[Len(code) - 1] + k] = EmitInstruction(code[Len(code)], m)[k]

LEMMA LastStays ==
    ASSUME NEW g, NEW D, Ready(g, D), NEW b \in Blocks
    PROVE  /\ Len(bbs[b].code) \in DOMAIN bbs[b].code /\ Len(bbs[b].code) \notin dead[b]
           /\ dead[b] \subseteq DOMAIN bbs[b].code
           /\ Len(bbs[b].code) \in Nat \ {0} /\ DOMAIN bbs[b].code = 1..Len(bbs[b].code)
           /\ IsTerminator(bbs[b].code[Len(bbs[b].code)])
<1>1. Closed(bbs)
  BY ReadyGraph
<1>2. /\ Len(bbs[b].code) \in Nat \ {0} /\ DOMAIN bbs[b].code = 1..Len(bbs[b].code)
      /\ Len(bbs[b].code) \in DOMAIN bbs[b].code
  BY <1>1 DEF Closed, GraphOK, Blocks
<1>3. IsTerminator(bbs[b].code[Len(bbs[b].code)])
  BY <1>1, <1>2 DEF Closed, Blocks
<1>4. JumpsKept
  BY DEF Ready, Returned, MaskInv, StoreInv
<1> QED
  BY <1>2, <1>3, <1>4 DEF JumpsKept

\* The targets of the last instruction are blocks.
LEMMA TargetsAreBlocks ==
    ASSUME NEW g, NEW D, Ready(g, D), NEW b \in Blocks, NEW inst, inst = bbs[b].code[Len(bbs[b].code)]
    PROVE  /\ Elems(inst.to) = Elems(bbs[b].succ) /\ DOMAIN inst.to = 1..NumTargets(inst)
           /\ \A k \in DOMAIN inst.to : inst.to[k] \in Blocks /\ inst.to[k] \in Elems(bbs[b].succ)
<1>1. Closed(bbs) /\ GraphOK(bbs)
  BY ReadyGraph
<1>2. inst.to = bbs[b].succ
  BY <1>1 DEF Closed, Blocks
<1>3. InstOK(inst)
  BY LastStays, OneInstRuns
<1>4. DOMAIN inst.to = 1..NumTargets(inst)
  BY <1>3 DEF InstOK
<1> QED
  BY <1>1, <1>2, <1>4 DEF GraphOK, Blocks, Elems

LEMMA EmittedText ==
    ASSUME NEW g, NEW D, Ready(g, D), NEW b \in Blocks, NEW m, m = Len(bbs) + 2
    PROVE  IsText(EmitBasicBlock(bbs[b], dead[b], m), bbs[b].code, dead[b], Kept(b), m)
<1>c. PICK code : code = bbs[b].code
  OBVIOUS
<1>n. PICK n : n \in Nat \ {0} /\ n = Len(code) /\ DOMAIN code = 1..n
  BY <1>c, LastStays
<1>k. PICK count : count = Kept(b) /\ IsCount(count, n, dead[b]) /\ \A i \in 0..n : count[i] \in Nat
  <2>1. IsCount(Kept(b), n, dead[b])
    BY <1>c, <1>n, KeptCounts, ReadyGraph
  <2>2. \A i \in 0..n : Kept(b)[i] \in Nat
    BY <2>1, <1>n, CountType
  <2> QED
    BY <2>1, <2>2
<1>l. PICK last : last = EmitInstruction(code[n], m)
  OBVIOUS
<1>1. last \in Seq(Elems(last)) /\ Len(last) \in Nat
  <2>1. InstOK(code[n])
    BY <1>c, <1>n, OneInstRuns
  <2>2. \A k \in DOMAIN code[n].to : code[n].to[k] \in 1..Len(bbs)
    BY <1>c, <1>n, TargetsAreBlocks, ReadyGraph
  <2>3. Len(bbs) \in Nat
    BY ReadyGraph
  <2>4. last \in Seq(Elems(last))
    BY <1>l, <2>1, <2>2, <2>3, EmittedInstruction
  <2> QED
    BY <2>4
<1>q. PICK seqs : seqs = [i \in 1..n |-> IF i \in dead[b] THEN <<>> ELSE EmitInstruction(code[i], m)]
  OBVIOUS
<1>2. ASSUME NEW i \in 1..n, i # n, i \notin dead[b] PROVE seqs[i] = <<code[i]>>
  <2>1. ~IsTerminator(code[i])
    BY <1>2, <1>c, <1>n, OneInstRuns
  <2>2. EmitInstruction(code[i], m) = <<code[i]>>
    BY <2>1 DEF EmitInstruction, IsTerminator
  <2> QED
    BY <1>2, <1>q, <2>2
<1>3. seqs[n] = last
  BY <1>q, <1>l, <1>c, <1>n, LastStays
<1>S. PICK S : S = {code[i] : i \in 1..n} \cup Elems(last)
  OBVIOUS
<1>4. ASSUME NEW i \in 1..n PROVE seqs[i] \in Seq(S)
  <2>1. CASE i \in dead[b]
    BY <1>q, <2>1
  <2>2. CASE i \notin dead[b] /\ i # n
    <3>1. seqs[i] = <<code[i]>>
      BY <1>2, <2>2
    <3>2. code[i] \in S
      BY <1>S
    <3> QED
      BY <3>1, <3>2
  <2>3. CASE i = n
    <3>1. Elems(last) \subseteq S
      BY <1>S
    <3> QED
      BY <1>1, <1>3, <2>3, <3>1
  <2> QED
    BY <2>1, <2>2, <2>3
<1>5. seqs \in [1..n -> Seq(S)]
  BY <1>4, <1>q
<1>e. PICK ends : ends = [i \in 0..n |-> IF i = n THEN count[n - 1] + Len(last) ELSE count[i]]
  OBVIOUS
<1>6. IsOffsets(ends, seqs, n)
  <2>1. ends[0] = 0
    BY <1>e, <1>n, <1>k DEF IsCount
  <2>2. ASSUME NEW i \in 1..n PROVE ends[i] = ends[i - 1] + Len(seqs[i])
    <3>1. i - 1 \in 0..n /\ i - 1 # n /\ i \in 0..n
      BY <1>n
    <3>2. ends[i - 1] = count[i - 1] /\ count[i - 1] \in Nat
      BY <1>e, <1>k, <3>1
    <3>3. CASE i = n
      <4>1. ends[i] = count[n - 1] + Len(last)
        BY <1>e, <3>1, <3>3
      <4> QED
        BY <1>3, <3>2, <3>3, <4>1
    <3>4. CASE i # n
      <4>1. ends[i] = count[i] /\ count[i] = count[i - 1] + (IF i \in dead[b] THEN 0 ELSE 1)
        BY <1>e, <1>k, <3>1, <3>4 DEF IsCount
      <4>2. CASE i \in dead[b]
        <5>1. seqs[i] = <<>> /\ Len(seqs[i]) = 0
          BY <1>q, <4>2
        <5> QED
          BY <3>2, <4>1, <4>2, <5>1
      <4>3. CASE i \notin dead[b]
        <5>1. seqs[i] = <<code[i]>>
          BY <1>2, <3>4, <4>3
        <5>2. Len(seqs[i]) = 1
          BY <5>1
        <5> QED
          BY <3>2, <4>1, <4>3, <5>2
      <4> QED
        BY <4>2, <4>3
    <3> QED
      BY <3>3, <3>4
  <2> QED
    BY <2>1, <2>2 DEF IsOffsets
<1>w. PICK text : text = FlattenSeq(seqs)
  OBVIOUS
<1>7. /\ text \in Seq(S) /\ Len(text) = ends[n]
      /\ \A i \in 1..n : \A k \in 1..Len(seqs[i]) :
            ends[i - 1] + k \in 1..ends[n] /\ text[ends[i - 1] + k] = seqs[i][k]
  <2>1. IsPieced(FlattenSeq(seqs), ends, seqs, n, S)
    BY <1>n, <1>5, <1>6, PiecesAt
  <2> QED
    BY <2>1, <1>w DEF IsPieced
<1>8. text = EmitBasicBlock(bbs[b], dead[b], m)
  BY <1>w, <1>q, <1>c, <1>n DEF EmitBasicBlock
<1>9. ends[n] = count[n - 1] + Len(last) /\ \A i \in 0..(n - 1) : ends[i] = count[i]
  BY <1>e, <1>n
<1>10. ASSUME NEW j \in 1..(n - 1), j \notin dead[b] PROVE text[count[j]] = code[j]
  <2>1. j \in 1..n /\ j # n /\ j - 1 \in 0..(n - 1) /\ j \in 0..n /\ j - 1 \in 0..n
    BY <1>n
  <2>q. seqs[j] = <<code[j]>>
    BY <1>2, <1>10, <2>1
  <2>2. Len(seqs[j]) = 1 /\ seqs[j][1] = code[j] /\ 1 \in 1..Len(seqs[j])
    BY <2>q
  <2>3. text[ends[j - 1] + 1] = code[j]
    BY <1>7, <2>1, <2>2
  <2>4. count[j] = count[j - 1] + 1
    BY <1>10, <1>k, <2>1 DEF IsCount
  <2> QED
    BY <1>9, <2>1, <2>3, <2>4
<1>11. ASSUME NEW k \in 1..Len(last) PROVE text[count[n - 1] + k] = last[k]
  <2>1. n \in 1..n /\ n - 1 \in 0..(n - 1)
    BY <1>n
  <2> QED
    BY <1>3, <1>7, <1>9, <2>1
<1> QED
  BY <1>7, <1>8, <1>9, <1>10, <1>11, <1>c, <1>n, <1>k, <1>l DEF IsText

\* Place k of what is emitted for a block is the first of what instruction j
\* becomes; the instructions from p on before it are dead.
FirstOf(k, p, j, code, gone, count) ==
    /\ j \in 1..Len(code) /\ p \in 1..j /\ Stretch(p, j, gone)
    /\ count[p - 1] = k - 1 /\ count[j - 1] = k - 1 /\ count[j] = k

\* Every place is the first of an instruction, or the second of the last.
LEMMA PlaceInText ==
    ASSUME NEW g, NEW D, Ready(g, D), NEW b \in Blocks, NEW m, NEW text,
           IsText(text, bbs[b].code, dead[b], Kept(b), m),
           Len(EmitInstruction(bbs[b].code[Len(bbs[b].code)], m)) \in 1..2,
           NEW k \in 1..Len(text)
    PROVE  \/ \E p, j : FirstOf(k, p, j, bbs[b].code, dead[b], Kept(b))
           \/ /\ Len(EmitInstruction(bbs[b].code[Len(bbs[b].code)], m)) = 2
              /\ k = Len(text) /\ k - 1 = Kept(b)[Len(bbs[b].code)]
<1>n. PICK n : n \in Nat \ {0} /\ n = Len(bbs[b].code) /\ n \notin dead[b]
  BY LastStays
<1>k. PICK count : count = Kept(b) /\ IsCount(count, n, dead[b]) /\ \A i \in 0..n : count[i] \in Nat
  <2>1. IsCount(Kept(b), n, dead[b])
    BY <1>n, KeptCounts, ReadyGraph
  <2>2. \A i \in 0..n : Kept(b)[i] \in Nat
    BY <2>1, <1>n, CountType
  <2> QED
    BY <2>1, <2>2
<1>l. PICK l \in 1..2 : l = Len(EmitInstruction(bbs[b].code[n], m))
  BY <1>n
<1>1. Len(text) = count[n - 1] + l /\ Len(text) \in Nat
  BY <1>n, <1>k, <1>l DEF IsText
<1>2. count[n] = count[n - 1] + 1 /\ count[n - 1] \in Nat /\ count[n] \in Nat
  <2>1. n \in 1..n /\ n - 1 \in 0..n /\ n \in 0..n
    BY <1>n
  <2> QED
    BY <1>k, <1>n, <2>1 DEF IsCount
<1>3. CASE k \in 1..count[n]
  <2>1. PICK j \in 1..n : j \notin dead[b] /\ count[j] = k /\ count[j - 1] = k - 1
    <3>1. n \in Nat /\ IsCount(count, n, dead[b]) /\ k \in 1..count[n]
      BY <1>3, <1>k, <1>n
    <3> QED
      BY <3>1, CountReached
  <2>2. PICK p \in 1..j : Stretch(p, j, dead[b]) /\ count[p - 1] = count[j - 1]
    <3>1. n \in Nat /\ IsCount(count, n, dead[b])
      BY <1>k, <1>n
    <3> QED
      BY <2>1, <3>1, StretchBefore
  <2>3. FirstOf(k, p, j, bbs[b].code, dead[b], count)
    BY <1>n, <2>1, <2>2 DEF FirstOf
  <2> QED
    BY <1>k, <2>3
<1>4. CASE k \notin 1..count[n]
  <2>1. k \in Nat /\ k >= 1 /\ k <= count[n - 1] + l
    BY <1>1
  <2>2. \A a, x, y \in Nat : x >= 1 /\ ~(x <= a + 1) /\ y <= 2 /\ x <= a + y
            => x = (a + 1) + 1 /\ y = 2 /\ x = a + y /\ x - 1 = a + 1
    OBVIOUS
  <2>3a. l \in Nat /\ l <= 2
    OBVIOUS
  <2>3b. ~(k <= count[n - 1] + 1)
    <3>1. PICK c : c = count[n] /\ c \in Nat /\ c = count[n - 1] + 1
      BY <1>2
    <3>2. ~(k <= c)
      BY <1>4, <2>1, <3>1
    <3> QED
      BY <3>1, <3>2
  <2>4. ~(k <= count[n - 1] + 1) /\ l \in Nat /\ l <= 2
    BY <2>3a, <2>3b
  <2>3. k = count[n] + 1 /\ l = 2 /\ k = Len(text) /\ k - 1 = count[n]
    BY <1>1, <1>2, <2>1, <2>2, <2>4
  <2> QED
    BY <1>k, <1>l, <1>n, <2>3
<1> QED
  BY <1>3, <1>4

\* An instruction of the blocks is neither of those that a jump becomes.
LEMMA NoBranchYet ==
    ASSUME NEW g, NEW D, Ready(g, D), NEW b \in Blocks, NEW i \in DOMAIN bbs[b].code
    PROVE  bbs[b].code[i].op \notin {"branch", "mv_a0"}
<1>1. InstOK(bbs[b].code[i])
  BY OneInstRuns
<1> QED
  BY <1>1 DEF InstOK

\* What is printed at the first place of an instruction, and before it.
FirstPrinted(b, m, text, k, p, j) ==
    /\ AfterKept(b, k) = p
    /\ k > 1 => text[k - 1].op \notin {"branch", "mv_a0"}
    /\ j # Len(bbs[b].code) =>
          text[k] = bbs[b].code[j] /\ k + 1 \in 1..Len(text) /\ AfterKept(b, k + 1) = j + 1
    /\ j = Len(bbs[b].code) =>
          /\ text[k] = EmitInstruction(bbs[b].code[j], m)[1]
          /\ Len(text) = k - 1 + Len(EmitInstruction(bbs[b].code[j], m))

LEMMA FirstInText ==
    ASSUME NEW g, NEW D, Ready(g, D), NEW b \in Blocks, NEW m, NEW text,
           IsText(text, bbs[b].code, dead[b], Kept(b), m),
           Len(EmitInstruction(bbs[b].code[Len(bbs[b].code)], m)) \in 1..2,
           NEW k \in 1..Len(text), NEW p, NEW j, FirstOf(k, p, j, bbs[b].code, dead[b], Kept(b))
    PROVE  FirstPrinted(b, m, text, k, p, j)
<1>n. PICK n : n \in Nat \ {0} /\ n = Len(bbs[b].code) /\ n \notin dead[b] /\ DOMAIN bbs[b].code = 1..n
  BY LastStays
<1>k. PICK count : count = Kept(b) /\ IsCount(count, n, dead[b]) /\ \A i \in 0..n : count[i] \in Nat
  <2>1. IsCount(Kept(b), n, dead[b])
    BY <1>n, KeptCounts, ReadyGraph
  <2>2. \A i \in 0..n : Kept(b)[i] \in Nat
    BY <2>1, <1>n, CountType
  <2> QED
    BY <2>1, <2>2
<1>g. GraphOK(bbs)
  BY ReadyGraph
<1>c. PICK code : code = bbs[b].code
  OBVIOUS
<1>l. PICK last : last = EmitInstruction(code[n], m) /\ Len(last) \in 1..2
  BY <1>n, <1>c
<1>t. /\ Len(text) = count[n - 1] + Len(last)
      /\ \A i \in 1..(n - 1) : i \notin dead[b] => text[count[i]] = code[i]
      /\ \A i \in 1..Len(last) : text[count[n - 1] + i] = last[i]
  BY <1>c, <1>n, <1>k, <1>l DEF IsText
<1>f. /\ j \in 1..n /\ p \in 1..j /\ j \notin dead[b] /\ (p = 1 \/ p - 1 \notin dead[b])
      /\ count[p - 1] = k - 1 /\ count[j - 1] = k - 1 /\ count[j] = k
  BY <1>n, <1>k DEF FirstOf, Stretch
<1>1. AfterKept(b, k) = p
  <2>1. p \in 1..Len(bbs[b].code) /\ Kept(b)[p - 1] = k - 1
    BY <1>f, <1>n, <1>k
  <2> QED
    BY <1>f, <1>g, <2>1, AfterKeptIs
<1>a. /\ k \in Nat /\ count[n] \in Nat /\ count[n - 1] \in Nat
      /\ count[n] = count[n - 1] + 1 /\ k <= count[n]
  <2>1. n \in 1..n /\ n \in 0..n /\ n - 1 \in 0..n /\ j \in 0..n /\ n \in j..n
    BY <1>n, <1>f
  <2>2. count[j] <= count[n]
    BY <1>k, <1>n, <2>1, CountGrows
  <2>3. count[n] = count[n - 1] + 1
    BY <1>k, <1>n, <2>1 DEF IsCount
  <2> QED
    BY <1>k, <1>f, <2>1, <2>2, <2>3
<1>2. ASSUME k > 1 PROVE text[k - 1].op \notin {"branch", "mv_a0"}
  <2>1. k - 1 \in 1..count[n]
    BY <1>2, <1>a
  <2>2. PICK i \in 1..n : i \notin dead[b] /\ count[i] = k - 1 /\ count[i - 1] = (k - 1) - 1
    <3>1. n \in Nat /\ IsCount(count, n, dead[b])
      BY <1>k, <1>n
    <3>x. PICK x : x = k - 1 /\ x \in 1..count[n]
      BY <2>1
    <3>2. \E i \in 1..n : i \notin dead[b] /\ count[i] = x /\ count[i - 1] = x - 1
      BY <3>1, <3>x, CountReached
    <3> QED
      BY <3>2, <3>x
  <2>3. i # n
    BY <1>a, <2>2
  <2>4. i \in 1..(n - 1)
    BY <1>n, <2>3
  <2>5. text[k - 1] = code[i]
    BY <1>t, <2>2, <2>4
  <2> QED
    BY <1>c, <1>n, <2>5, NoBranchYet
<1>3. ASSUME j # n PROVE text[k] = code[j] /\ k + 1 \in 1..Len(text) /\ AfterKept(b, k + 1) = j + 1
  <2>1. j \in 1..(n - 1) /\ (j + 1) - 1 = j /\ j + 1 \in 1..n
    BY <1>3, <1>f, <1>n
  <2>2. text[k] = code[j]
    BY <1>f, <1>t, <2>1
  <2>3. k <= count[n - 1]
    <3>1. n - 1 \in j..n /\ j \in 0..n
      BY <1>n, <2>1
    <3>2. count[j] <= count[n - 1]
      BY <1>k, <1>n, <3>1, CountGrows
    <3> QED
      BY <1>f, <3>2
  <2>4. k + 1 \in 1..Len(text)
    <3>1. PICK l : l = Len(last) /\ l \in 1..2
      BY <1>l
    <3>2. Len(text) = count[n - 1] + l
      BY <1>t, <3>1
    <3> QED
      BY <1>a, <2>3, <3>1, <3>2
  <2>5. Kept(b)[(j + 1) - 1] = (k + 1) - 1
    BY <1>a, <1>f, <1>k, <2>1
  <2>6. AfterKept(b, k + 1) = j + 1
    <3>1. j + 1 \in 1..Len(bbs[b].code) /\ (j + 1) - 1 \notin dead[b]
      BY <1>f, <1>n, <2>1
    <3> QED
      BY <1>g, <2>5, <3>1, AfterKeptIs
  <2> QED
    BY <2>2, <2>4, <2>6
<1>4. ASSUME j = n PROVE text[k] = last[1] /\ Len(text) = k - 1 + Len(last)
  <2>1. count[n - 1] = k - 1 /\ (k - 1) + 1 = k
    BY <1>a, <1>f, <1>4
  <2>2. 1 \in 1..Len(last)
    <3>1. PICK l : l = Len(last) /\ l \in 1..2
      BY <1>l
    <3> QED
      BY <3>1
  <2>3. text[count[n - 1] + 1] = last[1]
    BY <1>t, <2>2
  <2> QED
    BY <1>t, <2>1, <2>3
<1> QED
  BY <1>1, <1>2, <1>3, <1>4, <1>c, <1>n, <1>l DEF FirstPrinted

\* What is printed at the second place of the last instruction.
SecondPrinted(b, m, text, k) ==
    /\ k > 1 /\ k - 1 \in 1..Len(text)
    /\ text[k] = EmitInstruction(bbs[b].code[Len(bbs[b].code)], m)[2]
    /\ text[k - 1] = EmitInstruction(bbs[b].code[Len(bbs[b].code)], m)[1]

LEMMA SecondInText ==
    ASSUME NEW g, NEW D, Ready(g, D), NEW b \in Blocks, NEW m, NEW text,
           IsText(text, bbs[b].code, dead[b], Kept(b), m),
           Len(EmitInstruction(bbs[b].code[Len(bbs[b].code)], m)) = 2,
           NEW k, k = Len(text)
    PROVE  SecondPrinted(b, m, text, k)
<1>n. PICK n : n \in Nat \ {0} /\ n = Len(bbs[b].code)
  BY LastStays
<1>k. PICK count : count = Kept(b) /\ count[n - 1] \in Nat
  <2>1. IsCount(Kept(b), n, dead[b])
    BY <1>n, KeptCounts, ReadyGraph
  <2>2. n - 1 \in 0..n
    BY <1>n
  <2> QED
    BY <1>n, <2>1, <2>2, CountType
<1>l. PICK last : last = EmitInstruction(bbs[b].code[n], m) /\ Len(last) = 2
  BY <1>n
<1>t. /\ Len(text) = count[n - 1] + 2
      /\ \A i \in 1..2 : text[count[n - 1] + i] = last[i]
  BY <1>n, <1>k, <1>l DEF IsText
<1>1. text[count[n - 1] + 1] = last[1] /\ text[count[n - 1] + 2] = last[2]
  BY <1>t
<1>2. k = count[n - 1] + 2 /\ k - 1 = count[n - 1] + 1 /\ k > 1 /\ k - 1 \in 1..Len(text)
  BY <1>k, <1>t
<1> QED
  BY <1>1, <1>2, <1>l, <1>n DEF SecondPrinted

\* x is the branch that the conditional jump inst becomes.
BranchFor(x, inst) ==
    /\ x.op = "branch" /\ x.to = <<AsmOf(inst.to[1])>>
    /\ \/ inst.tag = "EQ" /\ x.tag = "BEQ" /\ x.args = <<inst.args[1], inst.args[2]>>
       \/ inst.tag = "NE" /\ x.tag = "BNE" /\ x.args = <<inst.args[1], inst.args[2]>>
       \/ inst.tag = "LT" /\ x.tag = "BLT" /\ x.args = <<inst.args[1], inst.args[2]>>
       \/ inst.tag = "LE" /\ x.tag = "BGE" /\ x.args = <<inst.args[2], inst.args[1]>>
       \/ inst.tag = "GT" /\ x.tag = "BLT" /\ x.args = <<inst.args[2], inst.args[1]>>
       \/ inst.tag = "GE" /\ x.tag = "BGE" /\ x.args = <<inst.args[1], inst.args[2]>>

\* A jump to block b of the printed code.
IsJump(x, b) == x = Jump(b) /\ x.op = "j" /\ x.to = <<b>>

\* What the last instruction of a block becomes.
LEMMA LastEmitted ==
    ASSUME NEW inst, InstOK(inst), IsTerminator(inst), NEW m, NEW e, e = EmitInstruction(inst, m)
    PROVE  /\ Len(e) \in 1..2
           /\ inst.op = "jump" => Len(e) = 1 /\ IsJump(e[1], AsmOf(inst.to[1]))
           /\ inst.op = "cond" => Len(e) = 2 /\ BranchFor(e[1], inst) /\ IsJump(e[2], AsmOf(inst.to[2]))
           /\ inst.op = "ret" =>
                 /\ Len(e) = 2 /\ IsJump(e[2], m)
                 /\ e[1].op = "mv_a0" /\ e[1].args = inst.args
<1>j. \A t : IsJump(Jump(t), t)
  BY DEF IsJump, Jump, Inst
<1>1. CASE inst.op = "jump"
  <2>1. e = <<Jump(AsmOf(inst.to[1]))>>
    BY <1>1 DEF EmitInstruction
  <2>2. Len(e) = 1 /\ e[1] = Jump(AsmOf(inst.to[1]))
    BY <2>1
  <2> QED
    BY <1>1, <1>j, <2>2
<1>2. CASE inst.op = "cond"
  <2>1. inst.tag \in {"LT", "GT", "LE", "GE", "EQ", "NE"}
    BY <1>2 DEF InstOK, Relations
  <2>2. e = EmitCondJump(inst)
    BY <1>2 DEF EmitInstruction
  <2>3. \E x : BranchFor(x, inst) /\ e = <<x, Jump(AsmOf(inst.to[2]))>>
    <3>1. CASE inst.tag = "EQ"
      BY <2>2, <3>1 DEF EmitCondJump, Branch, Inst, BranchFor
    <3>2. CASE inst.tag = "NE"
      BY <2>2, <3>2 DEF EmitCondJump, Branch, Inst, BranchFor
    <3>3. CASE inst.tag = "LT"
      BY <2>2, <3>3 DEF EmitCondJump, Branch, Inst, BranchFor
    <3>4. CASE inst.tag = "LE"
      BY <2>2, <3>4 DEF EmitCondJump, Branch, Inst, BranchFor
    <3>5. CASE inst.tag = "GT"
      BY <2>2, <3>5 DEF EmitCondJump, Branch, Inst, BranchFor
    <3>6. CASE inst.tag = "GE"
      BY <2>2, <3>6 DEF EmitCondJump, Branch, Inst, BranchFor
    <3> QED
      BY <2>1, <3>1, <3>2, <3>3, <3>4, <3>5, <3>6
  <2>4. PICK x : BranchFor(x, inst) /\ e = <<x, Jump(AsmOf(inst.to[2]))>>
    BY <2>3
  <2>5. Len(e) = 2 /\ e[1] = x /\ e[2] = Jump(AsmOf(inst.to[2]))
    BY <2>4
  <2> QED
    BY <1>2, <1>j, <2>4, <2>5
<1>3. CASE inst.op = "ret"
  <2>1. PICK x : x = Inst("mv_a0", "", None, inst.args, <<>>)
    OBVIOUS
  <2>2. e = <<x, Jump(m)>>
    BY <1>3, <2>1 DEF EmitInstruction
  <2>3. Len(e) = 2 /\ e[1] = x /\ e[2] = Jump(m)
    BY <2>2
  <2>4. x.op = "mv_a0" /\ x.args = inst.args
    BY <2>1 DEF Inst
  <2> QED
    BY <1>3, <1>j, <2>3, <2>4
<1> QED
  BY <1>1, <1>2, <1>3 DEF IsTerminator

\* The printed code is what emission and the clean-up make of the blocks.
IsPrinted == asm = Cleanup(EmitFunction(bbs, dead))

\* What is printed of block c: everything but a jump to the next block.
IsPrintOf(code, text, c) ==
    /\ \A i \in 1..(Len(text) - 1) : i \in DOMAIN code /\ code[i] = text[i]
    /\ \/ Len(text) \in DOMAIN code /\ code[Len(text)] = text[Len(text)]
       \/ Len(text) \notin DOMAIN code /\ text[Len(text)] = Jump(c + 1)
    /\ \A i \in DOMAIN code : i \in 1..Len(text)

LEMMA CleanedText ==
    ASSUME NEW codes, NEW m, Function(codes, m), NEW c \in 1..m
    PROVE  IsPrintOf(Cleanup(codes)[c].code, codes[c], c)
<1>t. PICK text : text = codes[c]
  OBVIOUS
<1>1. PICK S : text \in Seq(S) /\ Len(text) >= 1
  BY <1>t DEF Function, Emitted
<1>2. Len(text) \in Nat /\ DOMAIN text = 1..Len(text)
  BY <1>1
<1>k. PICK k : k = Cleanup(codes)[c].code
  OBVIOUS
<1>3. k = IF FallsThrough(codes, c) THEN Front(text) ELSE text
  BY <1>k, <1>t DEF Cleanup, Function
<1>4. CASE FallsThrough(codes, c)
  <2>1. /\ DOMAIN k = 1..(Len(text) - 1)
        /\ \A i \in 1..(Len(text) - 1) : k[i] = text[i]
    BY <1>1, <1>3, <1>4, FrontFact
  <2>2. text[Len(text)] = Jump(c + 1)
    BY <1>4, <1>t DEF FallsThrough
  <2>3. Len(text) \notin DOMAIN k /\ \A i \in DOMAIN k : i \in 1..Len(text)
    BY <1>2, <2>1
  <2> QED
    BY <1>k, <1>t, <2>1, <2>2, <2>3 DEF IsPrintOf
<1>5. CASE ~FallsThrough(codes, c)
  <2>1. k = text
    BY <1>3, <1>5
  <2>2. Len(text) \in 1..Len(text) /\ \A i \in 1..(Len(text) - 1) : i \in 1..Len(text)
    BY <1>1, <1>2
  <2>3. IsPrintOf(text, text, c)
    BY <1>2, <2>2 DEF IsPrintOf
  <2> QED
    BY <1>k, <1>t, <2>1, <2>3
<1> QED
  BY <1>4, <1>5

\* The printed blocks: the prologue, the blocks of the function and the last.
LEMMA PrintedBlocks ==
    ASSUME NEW g, NEW D, Ready(g, D), IsPrinted, NEW m, m = Len(bbs) + 2
    PROVE  /\ m \in Nat /\ m >= 3 /\ DOMAIN asm = 1..m /\ Len(asm) = m
           /\ IsPrintOf(asm[1].code, <<Inst("prologue", "", None, <<>>, <<>>)>>, 1)
           /\ IsPrintOf(asm[m].code, <<Inst("ret", "", None, <<>>, <<>>)>>, m)
           /\ \A b \in Blocks :
                 IsPrintOf(asm[b + 1].code, EmitBasicBlock(bbs[b], dead[b], m), b + 1)
<1>c. PICK codes : codes = EmitFunction(bbs, dead)
  OBVIOUS
<1>1. Closed(bbs) /\ Blocks = 1..Len(bbs) /\ Len(bbs) \in Nat /\ 1 \in Blocks
  BY ReadyGraph
<1>2. DOMAIN dead = DOMAIN bbs
  BY DEF Ready, Returned, MaskInv, StoreInv, Blocks
<1>3. \A b \in DOMAIN bbs : dead[b] \subseteq DOMAIN bbs[b].code /\ Len(bbs[b].code) \notin dead[b]
  BY LastStays DEF Blocks
<1>4. /\ m \in Nat /\ DOMAIN codes = 1..m /\ Len(codes) = m
      /\ \A c \in 1..m : \E S : Emitted(codes[c], S, m)
      /\ codes[1] = <<Inst("prologue", "", None, <<>>, <<>>)>>
      /\ codes[m] = <<Inst("ret", "", None, <<>>, <<>>)>>
      /\ \A b \in DOMAIN bbs : codes[b + 1] = EmitBasicBlock(bbs[b], dead[b], m)
  BY <1>c, <1>1, <1>2, <1>3, EmittedFunction
<1>5. Function(codes, m)
  BY <1>4 DEF Function
<1>6. asm = Cleanup(codes)
  BY <1>c DEF IsPrinted
<1>7. \A c \in 1..m : IsPrintOf(asm[c].code, codes[c], c)
  BY <1>5, <1>6, CleanedText
<1>8. DOMAIN asm = 1..m /\ Len(asm) = m
  BY <1>5, <1>6, CleanedFunction DEF Printed
<1>9. m >= 3 /\ 1 \in 1..m /\ m \in 1..m /\ \A b \in Blocks : b + 1 \in 1..m
  BY <1>1
<1>10. \A b \in Blocks : IsPrintOf(asm[b + 1].code, EmitBasicBlock(bbs[b], dead[b], m), b + 1)
  BY <1>4, <1>7, <1>9 DEF Blocks
<1> QED
  BY <1>4, <1>7, <1>8, <1>9, <1>10

-----------------------------------------------------------------------------
(* Where a run is in the printed code *)

Text(b) == EmitBasicBlock(bbs[b], dead[b], Len(bbs) + 2)

LastOf(b) == bbs[b].code[Len(bbs[b].code)]

\* The run has come to the first place of instruction j of block b.
AtFirst(b, p, j) ==
    /\ b \in Blocks /\ pc[1] = b + 1 /\ Here = b /\ InBlock /\ ~Between /\ ~Leaving
    /\ pc[2] \in 1..Len(Text(b)) /\ FirstOf(pc[2], p, j, bbs[b].code, dead[b], Kept(b))
    /\ AfterKept(b, pc[2]) = p

\* The run has come to the jump after a branch, or after the value that is returned.
AtSecond(b) ==
    /\ b \in Blocks /\ pc[1] = b + 1 /\ Here = b /\ InBlock /\ Between /\ LastInst = LastOf(b)
    /\ LastOf(b).op \in {"cond", "ret"} /\ pc[2] = Len(Text(b))

AtPrologue == pc[1] = 1 /\ pc[2] \in 1..2

AtReturn == pc[1] = Len(bbs) + 2 /\ pc[2] = 1

Located ==
    \/ AtPrologue
    \/ \E b \in Blocks : pc[1] = b + 1 /\ pc[2] \in 1..Len(Text(b))
    \/ AtReturn

\* The last instruction of a block and what it becomes.
LEMMA LastIs ==
    ASSUME NEW g, NEW D, Ready(g, D), NEW b \in Blocks, NEW e, e = EmitInstruction(LastOf(b), Len(bbs) + 2)
    PROVE  /\ LastOf(b).op \in {"jump", "cond", "ret"} /\ InstOK(LastOf(b))
           /\ IsText(Text(b), bbs[b].code, dead[b], Kept(b), Len(bbs) + 2)
           /\ Len(Text(b)) \in Nat
           /\ Len(e) \in 1..2
           /\ LastOf(b).op = "jump" => Len(e) = 1 /\ IsJump(e[1], LastOf(b).to[1] + 1)
           /\ LastOf(b).op = "cond" =>
                 Len(e) = 2 /\ BranchFor(e[1], LastOf(b)) /\ IsJump(e[2], LastOf(b).to[2] + 1)
           /\ LastOf(b).op = "ret" =>
                 /\ Len(e) = 2 /\ IsJump(e[2], Len(bbs) + 2)
                 /\ e[1].op = "mv_a0" /\ e[1].args = LastOf(b).args
<1>1. IsTerminator(LastOf(b)) /\ InstOK(LastOf(b))
  BY LastStays, OneInstRuns DEF LastOf
<1>2. IsText(Text(b), bbs[b].code, dead[b], Kept(b), Len(bbs) + 2)
  BY EmittedText DEF Text
<1>3. Len(Text(b)) \in Nat
  BY <1>2 DEF IsText
<1> QED
  BY <1>1, <1>2, <1>3, LastEmitted DEF IsTerminator, AsmOf

\* Where the run is in a block.
LEMMA WhereInBlock ==
    ASSUME NEW g, NEW D, Ready(g, D), IsPrinted, NEW b \in Blocks, pc[1] = b + 1,
           pc[2] \in 1..Len(Text(b))
    PROVE  (\E p, j : AtFirst(b, p, j)) \/ AtSecond(b)
<1>e. PICK e : e = EmitInstruction(LastOf(b), Len(bbs) + 2)
  OBVIOUS
<1>1. /\ LastOf(b).op \in {"jump", "cond", "ret"}
      /\ IsText(Text(b), bbs[b].code, dead[b], Kept(b), Len(bbs) + 2)
      /\ Len(Text(b)) \in Nat
      /\ Len(e) \in 1..2
      /\ LastOf(b).op = "jump" => Len(e) = 1
      /\ LastOf(b).op = "cond" => BranchFor(e[1], LastOf(b))
      /\ LastOf(b).op = "ret" => e[1].op = "mv_a0"
  BY <1>e, LastIs
<1>k. PICK k : k = pc[2] /\ k \in 1..Len(Text(b)) /\ k \in Nat
  BY <1>1
<1>2. Blocks = 1..Len(bbs) /\ Len(bbs) \in Nat
  BY ReadyGraph
<1>3. Here = b /\ InBlock /\ Here # Len(bbs) + 1 /\ LastInst = LastOf(b)
  BY <1>2 DEF Here, InBlock, LastInst, LastOf
<1>4. IsPrintOf(asm[b + 1].code, Text(b), b + 1)
  BY PrintedBlocks DEF Text
<1>5. k > 1 => Code[k - 1] = Text(b)[k - 1]
  <2>1. k > 1 => k - 1 \in 1..(Len(Text(b)) - 1)
    BY <1>k, <1>1
  <2> QED
    BY <1>4, <2>1 DEF IsPrintOf, Code
<1>6. \/ \E p, j : FirstOf(k, p, j, bbs[b].code, dead[b], Kept(b))
      \/ Len(e) = 2 /\ k = Len(Text(b))
  BY <1>1, <1>k, <1>e, PlaceInText DEF LastOf
<1>7. ASSUME NEW p, NEW j, FirstOf(k, p, j, bbs[b].code, dead[b], Kept(b)) PROVE AtFirst(b, p, j)
  <2>1. AfterKept(b, k) = p /\ (k > 1 => Text(b)[k - 1].op \notin {"branch", "mv_a0"})
    <3>m. PICK m : m = Len(bbs) + 2
      OBVIOUS
    <3>t. PICK text : text = Text(b)
      OBVIOUS
    <3>1. IsText(text, bbs[b].code, dead[b], Kept(b), m) /\ k \in 1..Len(text)
      BY <1>1, <1>k, <3>m, <3>t
    <3>2. Len(EmitInstruction(bbs[b].code[Len(bbs[b].code)], m)) \in 1..2
      BY <1>1, <1>e, <3>m DEF LastOf
    <3>3. FirstPrinted(b, m, text, k, p, j)
      BY <1>7, <3>1, <3>2, FirstInText
    <3> QED
      BY <3>3, <3>t DEF FirstPrinted
  <2>2. ~Between
    BY <1>5, <1>k, <2>1 DEF Between
  <2>3. ~Leaving
    BY <1>3, <2>2 DEF Leaving
  <2> QED
    BY <1>3, <1>7, <1>k, <2>1, <2>2, <2>3 DEF AtFirst
<1>8. ASSUME Len(e) = 2, k = Len(Text(b)) PROVE AtSecond(b)
  <2>1. k > 1 /\ Text(b)[k - 1] = e[1]
    <3>m. PICK m : m = Len(bbs) + 2
      OBVIOUS
    <3>t. PICK text : text = Text(b)
      OBVIOUS
    <3>1. IsText(text, bbs[b].code, dead[b], Kept(b), m) /\ k = Len(text)
      BY <1>1, <1>8, <3>m, <3>t
    <3>2. Len(EmitInstruction(bbs[b].code[Len(bbs[b].code)], m)) = 2
      BY <1>8, <1>e, <3>m DEF LastOf
    <3>3. SecondPrinted(b, m, text, k)
      BY <3>1, <3>2, SecondInText
    <3> QED
      BY <3>3, <3>t, <3>m, <1>e DEF LastOf, SecondPrinted
  <2>2. LastOf(b).op \in {"cond", "ret"}
    BY <1>1, <1>8
  <2>3. e[1].op \in {"branch", "mv_a0"}
    BY <1>1, <2>2 DEF BranchFor
  <2>4. Between
    BY <1>3, <1>5, <1>k, <2>1, <2>3 DEF Between
  <2> QED
    BY <1>3, <1>8, <1>k, <2>2, <2>4 DEF AtSecond
<1> QED
  BY <1>6, <1>7, <1>8

\* The jump to block t is printed here, or t comes next.
JumpHere(t) ==
    \/ pc[2] \in DOMAIN Code /\ IsJump(Current, t)
    \/ pc[2] \notin DOMAIN Code /\ pc[1] + 1 = t

\* What is printed at the first place of instruction j of block b.
FirstCode(b, j) ==
    /\ j # Len(bbs[b].code) =>
          /\ pc[2] \in DOMAIN Code /\ Current = bbs[b].code[j]
          /\ pc[2] + 1 \in 1..Len(Text(b)) /\ AfterKept(b, pc[2] + 1) = j + 1
    /\ j = Len(bbs[b].code) /\ LastOf(b).op = "jump" => JumpHere(LastOf(b).to[1] + 1)
    /\ j = Len(bbs[b].code) /\ LastOf(b).op = "cond" =>
          pc[2] \in DOMAIN Code /\ BranchFor(Current, LastOf(b)) /\ pc[2] + 1 = Len(Text(b))
    /\ j = Len(bbs[b].code) /\ LastOf(b).op = "ret" =>
          /\ pc[2] \in DOMAIN Code /\ Current.op = "mv_a0" /\ Current.args = LastOf(b).args
          /\ pc[2] + 1 = Len(Text(b))

\* A jump that is not printed goes to the next block.
LEMMA JumpPrinted ==
    ASSUME NEW text, NEW c, IsPrintOf(Code, text, c), c = pc[1], NEW t, pc[2] = Len(text),
           IsJump(text[Len(text)], t)
    PROVE  JumpHere(t)
<1>1. CASE Len(text) \in DOMAIN Code /\ Code[Len(text)] = text[Len(text)]
  BY <1>1 DEF JumpHere, Current
<1>2. CASE Len(text) \notin DOMAIN Code /\ text[Len(text)] = Jump(c + 1)
  <2>1. Jump(c + 1).to = <<c + 1>> /\ text[Len(text)].to = <<t>>
    BY DEF Jump, Inst, IsJump
  <2>2. t = c + 1
    BY <1>2, <2>1
  <2> QED
    BY <1>2, <2>2 DEF JumpHere
<1> QED
  BY <1>1, <1>2 DEF IsPrintOf

LEMMA CodeAtFirst ==
    ASSUME NEW g, NEW D, Ready(g, D), IsPrinted, NEW b, NEW p, NEW j, AtFirst(b, p, j)
    PROVE  FirstCode(b, j)
<1>m. PICK m : m = Len(bbs) + 2
  OBVIOUS
<1>e. PICK e : e = EmitInstruction(LastOf(b), m)
  OBVIOUS
<1>t. PICK text : text = Text(b)
  OBVIOUS
<1>k. PICK k : k = pc[2] /\ k \in 1..Len(text)
  BY <1>t DEF AtFirst
<1>b. b \in Blocks /\ pc[1] = b + 1 /\ FirstOf(k, p, j, bbs[b].code, dead[b], Kept(b))
  BY <1>k DEF AtFirst
<1>1. /\ LastOf(b).op \in {"jump", "cond", "ret"}
      /\ IsText(text, bbs[b].code, dead[b], Kept(b), m)
      /\ Len(text) \in Nat /\ Len(e) \in 1..2
      /\ LastOf(b).op = "jump" => Len(e) = 1 /\ IsJump(e[1], LastOf(b).to[1] + 1)
      /\ LastOf(b).op = "cond" => Len(e) = 2 /\ BranchFor(e[1], LastOf(b))
      /\ LastOf(b).op = "ret" => Len(e) = 2 /\ e[1].op = "mv_a0" /\ e[1].args = LastOf(b).args
  BY <1>b, <1>e, <1>m, <1>t, LastIs
<1>2. Len(EmitInstruction(bbs[b].code[Len(bbs[b].code)], m)) \in 1..2
  BY <1>1, <1>e DEF LastOf
<1>3. FirstPrinted(b, m, text, k, p, j)
  BY <1>b, <1>k, <1>1, <1>2, FirstInText
<1>4. IsPrintOf(Code, text, pc[1])
  <2>1. IsPrintOf(asm[b + 1].code, Text(b), b + 1)
    BY <1>b, PrintedBlocks DEF Text
  <2> QED
    BY <2>1, <1>b, <1>t DEF Code
<1>5. k < Len(text) => k \in DOMAIN Code /\ Code[k] = text[k]
  <2>1. k < Len(text) => k \in 1..(Len(text) - 1)
    BY <1>k, <1>1
  <2> QED
    BY <1>4, <2>1 DEF IsPrintOf
<1>6. CASE j # Len(bbs[b].code)
  <2>1. text[k] = bbs[b].code[j] /\ k + 1 \in 1..Len(text) /\ AfterKept(b, k + 1) = j + 1
    BY <1>3, <1>6 DEF FirstPrinted
  <2>2. k < Len(text)
    BY <2>1, <1>k, <1>1
  <2> QED
    BY <1>5, <1>6, <1>k, <1>t, <2>1, <2>2 DEF FirstCode, Current
<1>7. CASE j = Len(bbs[b].code)
  <2>1. text[k] = e[1] /\ Len(text) = k - 1 + Len(e)
    BY <1>3, <1>7, <1>e DEF FirstPrinted, LastOf
  <2>l. PICK l \in 1..2 : l = Len(e)
    BY <1>1
  <2>w. PICK w \in Nat : w = Len(text)
    BY <1>1
  <2>a. w = k - 1 + l /\ k \in Nat
    BY <1>k, <2>1, <2>l, <2>w
  <2>c. (l = 1 => k = w) /\ (l = 2 => k + 1 = w /\ k < w)
    BY <2>a
  <2>2. CASE LastOf(b).op = "jump"
    <3>1. k = Len(text) /\ IsJump(text[k], LastOf(b).to[1] + 1)
      BY <1>1, <2>1, <2>2, <2>c, <2>l, <2>w
    <3>2. JumpHere(LastOf(b).to[1] + 1)
      BY <1>4, <1>k, <3>1, JumpPrinted
    <3> QED
      BY <1>7, <2>2, <3>2 DEF FirstCode
  <2>3. CASE LastOf(b).op = "cond"
    <3>1. k + 1 = Len(text) /\ k < Len(text)
      BY <1>1, <2>3, <2>c, <2>l, <2>w
    <3> QED
      BY <1>1, <1>5, <1>7, <1>k, <1>t, <2>1, <2>3, <3>1 DEF FirstCode, Current
  <2>4. CASE LastOf(b).op = "ret"
    <3>1. k + 1 = Len(text) /\ k < Len(text)
      BY <1>1, <2>4, <2>c, <2>l, <2>w
    <3> QED
      BY <1>1, <1>5, <1>7, <1>k, <1>t, <2>1, <2>4, <3>1 DEF FirstCode, Current
  <2> QED
    BY <1>1, <2>2, <2>3, <2>4
<1> QED
  BY <1>6, <1>7

LEMMA CodeAtSecond ==
    ASSUME NEW g, NEW D, Ready(g, D), IsPrinted, NEW b, AtSecond(b)
    PROVE  /\ LastOf(b).op = "cond" => JumpHere(LastOf(b).to[2] + 1)
           /\ LastOf(b).op = "ret" => JumpHere(Len(bbs) + 2)
<1>m. PICK m : m = Len(bbs) + 2
  OBVIOUS
<1>e. PICK e : e = EmitInstruction(LastOf(b), m)
  OBVIOUS
<1>t. PICK text : text = Text(b)
  OBVIOUS
<1>b. b \in Blocks /\ pc[1] = b + 1 /\ pc[2] = Len(text) /\ LastOf(b).op \in {"cond", "ret"}
  BY <1>t DEF AtSecond
<1>1. /\ IsText(text, bbs[b].code, dead[b], Kept(b), m)
      /\ LastOf(b).op = "cond" => Len(e) = 2 /\ IsJump(e[2], LastOf(b).to[2] + 1)
      /\ LastOf(b).op = "ret" => Len(e) = 2 /\ IsJump(e[2], m)
  BY <1>b, <1>e, <1>m, <1>t, LastIs
<1>2. Len(EmitInstruction(bbs[b].code[Len(bbs[b].code)], m)) = 2
  BY <1>1, <1>b, <1>e DEF LastOf
<1>3. SecondPrinted(b, m, text, pc[2])
  BY <1>b, <1>1, <1>2, SecondInText
<1>4. IsPrintOf(Code, text, pc[1])
  <2>1. IsPrintOf(asm[b + 1].code, Text(b), b + 1)
    BY <1>b, PrintedBlocks DEF Text
  <2> QED
    BY <2>1, <1>b, <1>t DEF Code
<1>5. text[Len(text)] = e[2]
  BY <1>3, <1>b, <1>e DEF SecondPrinted, LastOf
<1>6. \A t : IsJump(text[Len(text)], t) => JumpHere(t)
  BY <1>4, <1>b, JumpPrinted
<1> QED
  BY <1>1, <1>5, <1>6, <1>m

LEMMA CodeAtPrologue ==
    ASSUME NEW g, NEW D, Ready(g, D), IsPrinted, AtPrologue
    PROVE  /\ pc[2] = 1 => pc[2] \in DOMAIN Code /\ Current.op = "prologue"
           /\ pc[2] = 2 => pc[2] \notin DOMAIN Code
<1>x. PICK x : x = Inst("prologue", "", None, <<>>, <<>>)
  OBVIOUS
<1>1. x.op = "prologue" /\ Jump(1 + 1).op = "j"
  BY <1>x DEF Inst, Jump
<1>2. IsPrintOf(Code, <<x>>, 1)
  BY <1>x, PrintedBlocks DEF Code, AtPrologue
<1>3. Len(<<x>>) = 1 /\ <<x>>[1] = x
  OBVIOUS
<1>4. 1 \in DOMAIN Code /\ Code[1] = x /\ \A i \in DOMAIN Code : i \in 1..1
  BY <1>1, <1>2, <1>3 DEF IsPrintOf
<1> QED
  BY <1>1, <1>4 DEF Current, AtPrologue

LEMMA CodeAtReturn ==
    ASSUME NEW g, NEW D, Ready(g, D), IsPrinted, AtReturn
    PROVE  pc[2] \in DOMAIN Code /\ Current.op = "ret"
<1>m. PICK m : m = Len(bbs) + 2
  OBVIOUS
<1>x. PICK x : x = Inst("ret", "", None, <<>>, <<>>)
  OBVIOUS
<1>1. x.op = "ret" /\ Jump(m + 1).op = "j"
  BY <1>x DEF Inst, Jump
<1>2. IsPrintOf(Code, <<x>>, m)
  BY <1>m, <1>x, PrintedBlocks DEF Code, AtReturn
<1>3. Len(<<x>>) = 1 /\ <<x>>[1] = x
  OBVIOUS
<1>4. 1 \in DOMAIN Code /\ Code[1] = x
  BY <1>1, <1>2, <1>3 DEF IsPrintOf
<1> QED
  BY <1>1, <1>4 DEF Current, AtReturn

-----------------------------------------------------------------------------
(* What the machine of the blocks knows *)

\* It is about to pass over instructions p to j - 1 of block b, and to execute j.
LEMMA PassesOver ==
    ASSUME NEW g, NEW D, Ready(g, D), phase = "run", NEW b, NEW p, NEW j, AtFirst(b, p, j)
    PROVE  /\ Status = "running" /\ Graph = bbs /\ Place = <<b, p>>
           /\ Machine!Code = bbs[b].code
           /\ j \in Place[2]..Len(Machine!Code)
           /\ Values = [v \in ResultsKept |-> regs[v.n]]
           /\ Cells = [a \in CellsAfter(b, p - 1) |-> mem[a]]
<1>1. Status = "running" /\ Graph = bbs /\ Place = <<b, p>>
  BY DEF AtFirst, Status, Graph, Place
<1>2. Machine!Code = bbs[b].code
  BY <1>1 DEF Machine!Code
<1>3. j \in 1..Len(bbs[b].code) /\ p \in 1..j
  BY DEF AtFirst, FirstOf
<1>4. j \in Place[2]..Len(Machine!Code)
  BY <1>1, <1>2, <1>3
<1>5. Values = [v \in ResultsKept |-> regs[v.n]]
  BY <1>1 DEF Values
<1>6. Cells = [a \in CellsAfter(b, p - 1) |-> mem[a]]
  BY <1>1 DEF Cells
<1> QED
  BY <1>1, <1>2, <1>4, <1>5, <1>6

\* It knows no less after passing over what is dead.
LEMMA PassingKeeps ==
    ASSUME NEW g, NEW D, Ready(g, D), phase = "run", NEW b, NEW p, NEW j, AtFirst(b, p, j)
    PROVE  /\ \A inst \in Machine!Passed(j) : Machine!Skippable(inst)
           /\ Machine!ValuesAt(Machine!Passed(j)) = Values
           /\ Machine!CellsAt(Machine!Passed(j)) = Cells
<1>1. /\ Machine!Code = bbs[b].code /\ Place = <<b, p>>
      /\ Values = [v \in ResultsKept |-> regs[v.n]]
      /\ Cells = [a \in CellsAfter(b, p - 1) |-> mem[a]]
  BY PassesOver
<1>2. /\ b \in Blocks /\ j \in DOMAIN bbs[b].code /\ p \in 1..j /\ \A i \in p..(j - 1) : i \in dead[b]
      /\ DOMAIN bbs[b].code = 1..Len(bbs[b].code) /\ Len(bbs[b].code) \in Nat
  <2>1. /\ b \in Blocks /\ j \in 1..Len(bbs[b].code) /\ p \in 1..j /\ \A i \in p..(j - 1) : i \in dead[b]
    BY DEF AtFirst, FirstOf, Stretch
  <2> QED
    BY <2>1, LastStays
<1>P. PICK P : P = Machine!Passed(j) /\ P = {bbs[b].code[i] : i \in p..(j - 1)}
  BY <1>1 DEF Machine!Passed
<1>3. \A i \in p..(j - 1) : i \in DOMAIN bbs[b].code /\ i \in dead[b]
  BY <1>2
<1>4. ASSUME NEW inst \in P PROVE Machine!Skippable(inst)
  <2>1. PICK i \in p..(j - 1) : inst = bbs[b].code[i]
    BY <1>P
  <2>2. Solution(NeededIn(b), b)
    BY <1>2, NeededInSolves DEF Ready
  <2>3. i \in 1..Len(bbs[b].code) /\ InstOK(inst)
    BY <1>2, <1>3, <2>1, OneInstRuns
  <2>4. ~IsLive(inst, NeededIn(b)[i])
    BY <1>3, <2>1, <2>2, <2>3 DEF Solution
  <2> QED
    BY <2>3, <2>4 DEF IsLive, IsLocalStore, InstOK, Machine!Skippable, Machine!StoresVariable
<1>5. \A inst \in P : inst.dst \notin ResultsKept
  BY <1>P, <1>2, <1>3, DeadNotKept
<1>6. \A inst \in P : Machine!StoresVariable(inst) => Machine!CellOf(inst.args[2]) \notin CellsAfter(b, p - 1)
  BY <1>P, <1>2, <1>3, DeadWrites DEF Machine!StoresVariable, Machine!CellOf
<1>7. Machine!ValuesAt(P) = Values
  <2>1. DOMAIN Values \ {inst.dst : inst \in P} = ResultsKept
    BY <1>1, <1>5
  <2>2. Machine!ValuesAt(P) = [x \in DOMAIN Values \ {inst.dst : inst \in P} |-> Values[x]]
    BY DEF Machine!ValuesAt, Machine!Without
  <2> QED
    BY <1>1, <2>1, <2>2
<1>8. Machine!CellsAt(P) = Cells
  <2>W. PICK W : W = {Machine!CellOf(inst.args[2]) : inst \in {i \in P : Machine!StoresVariable(i)}}
    OBVIOUS
  <2>1. DOMAIN Cells \ W = CellsAfter(b, p - 1)
    BY <1>1, <1>6, <2>W
  <2>2. Machine!CellsAt(P) = [x \in DOMAIN Cells \ W |-> Cells[x]]
    BY <2>W DEF Machine!CellsAt, Machine!Without
  <2> QED
    BY <1>1, <2>1, <2>2
<1> QED
  BY <1>P, <1>4, <1>7, <1>8

\* So it executes instruction j when it does what that instruction does with
\* what it knows.
LEMMA Executes ==
    ASSUME NEW g, NEW D, Ready(g, D), phase = "run", NEW b, NEW p, NEW j, AtFirst(b, p, j),
           Machine!Execute(j, bbs[b].code[j], Values, Cells), Graph' = Graph, inputs' = inputs
    PROVE  Machine!Next
<1>1. /\ Status = "running" /\ Machine!Code = bbs[b].code /\ j \in Place[2]..Len(Machine!Code)
  BY PassesOver
<1>2. /\ \A inst \in Machine!Passed(j) : Machine!Skippable(inst)
      /\ Machine!ValuesAt(Machine!Passed(j)) = Values
      /\ Machine!CellsAt(Machine!Passed(j)) = Cells
  BY PassingKeeps
<1>3. Machine!Execute(j, Machine!Code[j], Machine!ValuesAt(Machine!Passed(j)), Machine!CellsAt(Machine!Passed(j)))
  BY <1>1, <1>2
<1>4. Machine!Step
  BY <1>1, <1>2, <1>3 DEF Machine!Step
<1> QED
  BY <1>4 DEF Machine!Next

-----------------------------------------------------------------------------
(* The invariant of a run *)

\* The cells of the elements that can be indexed.
ElementCells == {0, 1} \cup {2 * v.n : v \in Arrays} \cup {2 * v.n + 1 : v \in Arrays}

\* An address is the cell of its variable, or one of an element.
RightAddress(v) ==
    /\ v.by = "alloc" => regs[v.n] = 2 * v.n
    /\ v.by = "gep" => regs[v.n] \in ElementCells

\* The addresses that have been computed when instruction i of block b is done.
AddressesRight(D, b, i) ==
    \A v \in ResultsKept : v \in D[b] \cup ResultsUpTo(bbs, b, i) => RightAddress(v)

RunInv(g, D) ==
    /\ MaskInv(g, D)
    /\ phase \in {"mask", "run", "returned", "done"}
    /\ phase = "mask" => NothingRun
    /\ phase # "mask" => stage = "masked" /\ IsPrinted
    /\ phase = "run" =>
          /\ Located
          /\ DOMAIN regs = 0..NumResults /\ DOMAIN mem = 0..(2 * NumResults + 1)
          /\ Status = "running" =>
                /\ Place[1] \in Blocks /\ NoneDeadNeeded(Place[1])
                /\ AddressesRight(D, Place[1], Place[2] - 1)

-----------------------------------------------------------------------------
(* A step of the run leaves the blocks and what is dead alone *)

SameBlocks == bbs' = bbs /\ dead' = dead /\ alives' = alives /\ asm' = asm

LEMMA SameKnown ==
    ASSUME SameBlocks
    PROVE  /\ Blocks' = Blocks /\ ResultsKept' = ResultsKept /\ ElementCells' = ElementCells
           /\ NumResults' = NumResults /\ IsPrinted' = IsPrinted
           /\ \A b : NoneDeadNeeded(b)' = NoneDeadNeeded(b)
           /\ \A b : Text(b)' = Text(b)
<1> USE DEF SameBlocks
<1>1. Blocks' = Blocks /\ ResultsKept' = ResultsKept
  BY DEF Blocks, ResultsKept
<1>2. ElementCells' = ElementCells
  BY DEF ElementCells, Arrays, Insts, Blocks
<1>3. NumResults' = NumResults
  BY DEF NumResults
<1>4. IsPrinted' = IsPrinted
  BY DEF IsPrinted
<1>5. \A b : NoneDeadNeeded(b)' = NoneDeadNeeded(b)
  BY DEF NoneDeadNeeded, DeadResult, Blocks
<1>6. \A b : Text(b)' = Text(b)
  BY DEF Text
<1> QED
  BY <1>1, <1>2, <1>3, <1>4, <1>5, <1>6

LEMMA SameNeeded ==
    ASSUME SameBlocks, NEW b, NEW i
    PROVE  NeededIn(b)' = NeededIn(b) /\ CellsAfter(b, i)' = CellsAfter(b, i)
<1>1. NeededIn(b)' = NeededIn(b)
  BY DEF SameBlocks, NeededIn, NeededAfter
<1>2. Variables' = Variables /\ Arrays' = Arrays
  BY DEF SameBlocks, Variables, Arrays, Insts, Blocks
<1> QED
  BY <1>1, <1>2 DEF CellsAfter

LEMMA SameCount ==
    ASSUME SameBlocks, NEW b, NEW k
    PROVE  AfterKept(b, k)' = AfterKept(b, k)
BY DEF SameBlocks, AfterKept, Kept

\* The next place is in block t, after its first i instructions.
GoesTo(t, i) ==
    /\ Status' = "running" /\ Graph' = bbs /\ Place' = <<t, i + 1>> /\ Out' = out'
    /\ Values' = [v \in ResultsKept |-> regs'[v.n]]
    /\ Cells' = [a \in CellsAfter(t, i) |-> mem'[a]]
    /\ Located'

\* The function is left: the value it returns is in a0.
Leaves ==
    /\ Status' = "done" /\ Graph' = bbs /\ Machine!Nowhere'
    /\ Out' = Append(out', <<"return", regs'[0]>>)
    /\ Located'

LEMMA GoesOn ==
    ASSUME SameBlocks, phase' = "run", ~Leaving', NEW t, NEW i \in Nat, Place' = <<t, i + 1>>, Located'
    PROVE  GoesTo(t, i)
<1>1. Status' = "running"
  BY DEF Status
<1>2. Graph' = bbs /\ Out' = out'
  BY <1>1 DEF Graph, SameBlocks, Out
<1>3. Values' = [v \in ResultsKept |-> regs'[v.n]]
  BY <1>1, SameKnown DEF Values
<1>4. Cells' = [a \in CellsAfter(t, i) |-> mem'[a]]
  <2>1. Cells' = [a \in CellsAfter(Place[1], Place[2] - 1)' |-> mem'[a]]
    BY <1>1 DEF Cells
  <2>2. Place'[1] = t /\ Place'[2] - 1 = i
    OBVIOUS
  <2>3. CellsAfter(Place[1], Place[2] - 1)' = CellsAfter(t, i)'
    BY <2>2 DEF CellsAfter
  <2> QED
    BY <2>1, <2>3, SameNeeded
<1> QED
  BY <1>1, <1>2, <1>3, <1>4 DEF GoesTo

LEMMA GoesOut ==
    ASSUME SameBlocks, phase' = "run", Leaving', Located'
    PROVE  Leaves
<1>1. Status' = "done"
  BY DEF Status
<1>2. Graph' = bbs
  BY <1>1 DEF Graph, SameBlocks
<1>3. Place' = <<>> /\ Values' = <<>> /\ Cells' = <<>>
  BY <1>1 DEF Place, Values, Cells
<1>4. Out' = Append(out', <<"return", regs'[0]>>)
  BY DEF Out
<1> QED
  BY <1>1, <1>2, <1>3, <1>4 DEF Leaves, Machine!Nowhere

\* Every block has a first place.
LEMMA FirstPlace ==
    ASSUME NEW g, NEW D, Ready(g, D), NEW b \in Blocks
    PROVE  Len(Text(b)) \in Nat /\ 1 \in 1..Len(Text(b)) /\ AfterKept(b, 1) = 1
<1>1. IsText(Text(b), bbs[b].code, dead[b], Kept(b), Len(bbs) + 2) /\ Len(Text(b)) \in Nat
  BY LastIs
<1>n. PICK n : n \in Nat \ {0} /\ n = Len(bbs[b].code)
  BY LastStays
<1>k. IsCount(Kept(b), n, dead[b])
  BY <1>n, KeptCounts, ReadyGraph
<1>2. Kept(b)[n - 1] \in Nat /\ Kept(b)[0] = 0
  <2>1. n - 1 \in 0..n
    BY <1>n
  <2> QED
    BY <2>1, <1>n, <1>k, CountType DEF IsCount
<1>3. Len(EmitInstruction(LastOf(b), Len(bbs) + 2)) \in 1..2
  BY LastIs
<1>4. Len(Text(b)) = Kept(b)[n - 1] + Len(EmitInstruction(LastOf(b), Len(bbs) + 2))
  BY <1>1, <1>n DEF IsText, LastOf
<1>5. 1 \in 1..Len(Text(b))
  <2>1. PICK l \in 1..2 : l = Len(EmitInstruction(LastOf(b), Len(bbs) + 2))
    BY <1>3
  <2>2. PICK w \in Nat : w = Len(Text(b)) /\ w = Kept(b)[n - 1] + l
    BY <1>1, <1>4, <2>1
  <2>3. 1 \in 1..w
    BY <1>2, <2>2
  <2> QED
    BY <2>2, <2>3
<1>6. AfterKept(b, 1) = 1
  <2>1. 1 \in 1..Len(bbs[b].code) /\ Kept(b)[1 - 1] = 1 - 1
    BY <1>n, <1>2
  <2> QED
    BY <2>1, AfterKeptIs, ReadyGraph
<1> QED
  BY <1>1, <1>5, <1>6

\* The beginning of a block.
LEMMA ToBlock ==
    ASSUME NEW g, NEW D, Ready(g, D), SameBlocks, phase' = "run", NEW t \in Blocks, pc' = <<t + 1, 1>>
    PROVE  GoesTo(t, 0)
<1>1. Blocks = 1..Len(bbs) /\ Len(bbs) \in Nat /\ Blocks' = Blocks /\ bbs' = bbs
  BY ReadyGraph, SameKnown DEF SameBlocks
<1>2. pc'[1] = t + 1 /\ pc'[2] = 1 /\ Here' = t
  BY <1>1 DEF Here
<1>3. InBlock' /\ ~Between'
  BY <1>1, <1>2 DEF InBlock, Between
<1>4. ~Leaving'
  BY <1>1, <1>2, <1>3 DEF Leaving
<1>5. Status' = "running"
  BY <1>4 DEF Status
<1>6. Place' = <<t, AfterKept(t, 1)'>>
  BY <1>2, <1>3, <1>5 DEF Place
<1>7. Place' = <<t, 1>>
  BY <1>6, FirstPlace, SameCount
<1>8. Located'
  BY <1>1, <1>2, FirstPlace, SameKnown DEF Located
<1>9. Place' = <<t, 0 + 1>>
  BY <1>7
<1> QED
  BY <1>4, <1>8, <1>9, GoesOn

\* The next instruction of the block.
LEMMA ToNext ==
    ASSUME NEW g, NEW D, Ready(g, D), IsPrinted, SameBlocks, phase' = "run",
           NEW b, NEW p, NEW j, AtFirst(b, p, j), j # Len(bbs[b].code), pc' = <<pc[1], pc[2] + 1>>
    PROVE  GoesTo(b, j)
<1>1. Blocks = 1..Len(bbs) /\ Len(bbs) \in Nat /\ Blocks' = Blocks /\ bbs' = bbs
  BY ReadyGraph, SameKnown DEF SameBlocks
<1>2. /\ b \in Blocks /\ pc[1] = b + 1 /\ pc[2] \in 1..Len(Text(b)) /\ j \in 1..Len(bbs[b].code)
      /\ Len(Text(b)) \in Nat
  BY FirstPlace DEF AtFirst, FirstOf
<1>3. /\ Current = bbs[b].code[j] /\ pc[2] + 1 \in 1..Len(Text(b)) /\ AfterKept(b, pc[2] + 1) = j + 1
  BY CodeAtFirst DEF FirstCode
<1>k. PICK k \in Nat : k = pc[2] + 1 /\ k > 1 /\ k - 1 = pc[2]
  BY <1>2
<1>4. pc'[1] = b + 1 /\ pc'[2] = k /\ Here' = b
  BY <1>1, <1>2, <1>k DEF Here
<1>5. InBlock'
  BY <1>1, <1>2, <1>4 DEF InBlock
<1>6. Code'[pc'[2] - 1] = Current
  BY <1>k, <1>4 DEF Code, Current, SameBlocks
<1>7. Current.op \notin {"branch", "mv_a0"}
  <2>1. j \in DOMAIN bbs[b].code
    BY <1>2, LastStays
  <2> QED
    BY <1>2, <1>3, <2>1, NoBranchYet
<1>8. ~Between'
  BY <1>6, <1>7 DEF Between
<1>9. ~Leaving'
  BY <1>1, <1>2, <1>4, <1>8 DEF Leaving
<1>10. Status' = "running"
  BY <1>9 DEF Status
<1>11. Place' = <<b, AfterKept(b, k)'>>
  BY <1>4, <1>5, <1>8, <1>10 DEF Place
<1>12. Place' = <<b, j + 1>>
  BY <1>3, <1>k, <1>11, SameCount
<1>13. Located'
  BY <1>1, <1>2, <1>3, <1>4, <1>k, SameKnown DEF Located
<1> QED
  BY <1>2, <1>9, <1>12, <1>13, GoesOn

\* The jump behind a branch, and behind the value that is returned.
LEMMA ToSecond ==
    ASSUME NEW g, NEW D, Ready(g, D), IsPrinted, SameBlocks, phase' = "run",
           NEW b, NEW p, NEW j, AtFirst(b, p, j), j = Len(bbs[b].code),
           LastOf(b).op \in {"cond", "ret"}, pc' = <<pc[1], pc[2] + 1>>
    PROVE  /\ LastOf(b).op = "cond" => GoesTo(LastOf(b).to[2], 0)
           /\ LastOf(b).op = "ret" => Leaves
<1>1. Blocks = 1..Len(bbs) /\ Len(bbs) \in Nat /\ Blocks' = Blocks /\ bbs' = bbs
  BY ReadyGraph, SameKnown DEF SameBlocks
<1>2. b \in Blocks /\ pc[1] = b + 1 /\ pc[2] \in 1..Len(Text(b)) /\ Len(Text(b)) \in Nat
  BY FirstPlace DEF AtFirst
<1>3. Current.op \in {"branch", "mv_a0"} /\ pc[2] + 1 = Len(Text(b))
  BY CodeAtFirst DEF FirstCode, BranchFor
<1>k. PICK k \in Nat : k = pc[2] + 1 /\ k > 1 /\ k - 1 = pc[2]
  BY <1>2
<1>4. pc'[1] = b + 1 /\ pc'[2] = k /\ Here' = b
  BY <1>1, <1>2, <1>k DEF Here
<1>5. InBlock' /\ LastInst' = LastOf(b)
  BY <1>1, <1>2, <1>4 DEF InBlock, LastInst, LastOf
<1>6. Code'[pc'[2] - 1] = Current
  BY <1>k, <1>4 DEF Code, Current, SameBlocks
<1>7. Between'
  BY <1>3, <1>4, <1>5, <1>6, <1>k DEF Between
<1>8. Located'
  BY <1>1, <1>2, <1>3, <1>4, <1>k, SameKnown DEF Located
<1>9. CASE LastOf(b).op = "ret"
  BY <1>5, <1>7, <1>8, <1>9, GoesOut DEF Leaving
<1>10. CASE LastOf(b).op = "cond"
  <2>1. ~Leaving'
    BY <1>1, <1>2, <1>4, <1>5, <1>10 DEF Leaving
  <2>2. Place' = <<LastOf(b).to[2], 0 + 1>>
    BY <1>5, <1>7, <2>1 DEF Place, Status
  <2> QED
    BY <1>8, <1>10, <2>1, <2>2, GoesOn
<1> QED
  BY <1>9, <1>10

\* The block that returns.
LEMMA ToReturn ==
    ASSUME NEW g, NEW D, Ready(g, D), SameBlocks, phase' = "run", pc' = <<Len(bbs) + 2, 1>>
    PROVE  Leaves
<1>1. Len(bbs) \in Nat /\ bbs' = bbs
  BY ReadyGraph DEF SameBlocks
<1>2. Here' = Len(bbs) + 1
  BY <1>1 DEF Here
<1>3. Leaving' /\ Located'
  BY <1>1, <1>2 DEF Leaving, Located, AtReturn
<1> QED
  BY <1>3, GoesOut

-----------------------------------------------------------------------------
(* What is known of the operands of the instruction that is executed *)

Given(g, D) == Closed(g) /\ DefinedFirst(g, D) /\ Runnable(g)

\* A run at the first place of instruction j of block b.
InRun(g, D, b, p, j) == Given(g, D) /\ RunInv(g, D) /\ phase = "run" /\ AtFirst(b, p, j)

LEMMA RunReady ==
    ASSUME NEW g, NEW D, Given(g, D), RunInv(g, D), phase # "mask"
    PROVE  Ready(g, D) /\ IsPrinted
BY DEF Given, RunInv, Ready, Returned

LEMMA InRunKnows ==
    ASSUME NEW g, NEW D, NEW b, NEW p, NEW j, InRun(g, D, b, p, j)
    PROVE  /\ Ready(g, D) /\ IsPrinted /\ b \in Blocks /\ NoneDeadNeeded(b)
           /\ AddressesRight(D, b, p - 1)
           /\ j \in DOMAIN bbs[b].code /\ j \in 1..Len(bbs[b].code) /\ j \notin dead[b]
           /\ p \in 1..j /\ \A i \in p..(j - 1) : i \in dead[b]
           /\ j \in Nat /\ p \in Nat /\ Len(bbs[b].code) \in Nat
           /\ DOMAIN regs = 0..NumResults /\ DOMAIN mem = 0..(2 * NumResults + 1)
           /\ Values = [v \in ResultsKept |-> regs[v.n]]
           /\ Cells = [a \in CellsAfter(b, p - 1) |-> mem[a]]
           /\ Status = "running" /\ Graph = bbs /\ Place = <<b, p>> /\ Out = out
<1>1. Ready(g, D) /\ IsPrinted
  BY RunReady DEF InRun
<1>2. phase = "run" /\ AtFirst(b, p, j) /\ RunInv(g, D)
  BY DEF InRun
<1>3. /\ Status = "running" /\ Graph = bbs /\ Place = <<b, p>>
      /\ Values = [v \in ResultsKept |-> regs[v.n]]
      /\ Cells = [a \in CellsAfter(b, p - 1) |-> mem[a]]
  BY <1>1, <1>2, PassesOver
<1>4. /\ b \in Blocks /\ j \in 1..Len(bbs[b].code) /\ p \in 1..j /\ j \notin dead[b]
      /\ \A i \in p..(j - 1) : i \in dead[b]
  BY <1>2 DEF AtFirst, FirstOf, Stretch
<1>5. j \in DOMAIN bbs[b].code /\ j \in Nat /\ p \in Nat /\ Len(bbs[b].code) \in Nat
  BY <1>1, <1>4, LastStays
<1>6. Place[1] = b /\ Place[2] - 1 = p - 1
  BY <1>3
<1>7. NoneDeadNeeded(b) /\ AddressesRight(D, b, p - 1)
  BY <1>2, <1>3, <1>6 DEF RunInv
<1>8. DOMAIN regs = 0..NumResults /\ DOMAIN mem = 0..(2 * NumResults + 1)
  BY <1>2 DEF RunInv
<1>9. Out = out
  BY <1>2 DEF AtFirst, Out
<1> QED
  BY <1>1, <1>3, <1>4, <1>5, <1>7, <1>8, <1>9

\* Every operand has its value in a register, and no register is another's.
LEMMA OperandValues ==
    ASSUME NEW g, NEW D, NEW b, NEW p, NEW j, InRun(g, D, b, p, j), NEW inst, inst = bbs[b].code[j]
    PROVE  /\ Machine!OperandsKnown(inst, Values)
           /\ \A v \in Elems(inst.args) : Machine!ValueOf(v, Values) = ValueOf(v)
<1>1. /\ Ready(g, D) /\ b \in Blocks /\ NoneDeadNeeded(b) /\ j \in DOMAIN bbs[b].code /\ j \notin dead[b]
      /\ Values = [v \in ResultsKept |-> regs[v.n]]
  BY InRunKnows
<1>2. OfResult(Elems(inst.args)) \subseteq ResultsKept
  BY <1>1, OperandsKept
<1>3. ASSUME NEW v \in Elems(inst.args)
      PROVE  /\ v.kind = "result" => v \in ResultsKept
             /\ v.kind \in {"const", "global"} \/ v.kind = "result"
  <2>1. v.kind = "result" => v \in ResultsKept
    BY <1>2 DEF OfResult
  <2>2. CASE v.kind \in {"const", "global"}
    BY <2>1, <2>2
  <2>3. CASE v.kind \notin {"const", "global"}
    <3>1. InstRuns(bbs, inst)
      BY <1>1, OneInstRuns
    <3>2. PICK c \in DOMAIN bbs : \E k \in DOMAIN bbs[c].code : bbs[c].code[k].dst = v /\ v # None
      BY <2>3, <3>1 DEF InstRuns
    <3>3. PICK k : ResultAt(v, c, k)
      BY <3>2 DEF ResultAt, Blocks
    <3>4. v.kind = "result"
      BY <1>1, <3>3, ResultNumber
    <3> QED
      BY <2>1, <3>4
  <2> QED
    BY <2>2, <2>3
<1>4. Machine!OperandsKnown(inst, Values)
  BY <1>1, <1>3 DEF Machine!OperandsKnown, Elems
<1>5. ASSUME NEW v \in Elems(inst.args) PROVE Machine!ValueOf(v, Values) = ValueOf(v)
  <2>1. CASE v.kind = "const"
    BY <2>1 DEF Machine!ValueOf, ValueOf
  <2>2. CASE v.kind = "global"
    BY <2>2 DEF Machine!ValueOf, ValueOf
  <2>3. CASE v.kind = "result"
    <3>1. Values[v] = regs[v.n]
      BY <1>1, <1>3, <2>3
    <3> QED
      BY <2>3, <3>1 DEF Machine!ValueOf, ValueOf
  <2> QED
    BY <1>3, <2>1, <2>2, <2>3
<1> QED
  BY <1>4, <1>5

\* What has been defined before instruction j, and is kept, was known where
\* the instructions that are passed over begin.
LEMMA DefinedBefore ==
    ASSUME NEW g, NEW D, NEW b, NEW p, NEW j, InRun(g, D, b, p, j),
           NEW v \in ResultsKept, v \in D[b] \cup ResultsUpTo(bbs, b, j - 1)
    PROVE  v \in D[b] \cup ResultsUpTo(bbs, b, p - 1)
<1>1. /\ Ready(g, D) /\ b \in Blocks /\ j \in 1..Len(bbs[b].code) /\ p \in 1..j
      /\ (\A i \in p..(j - 1) : i \in dead[b]) /\ j \in Nat /\ p \in Nat /\ Len(bbs[b].code) \in Nat
  BY InRunKnows
<1>2. CASE v \in D[b]
  BY <1>2
<1>3. CASE v \in ResultsUpTo(bbs, b, j - 1)
  <2>1. PICK i \in 1..(j - 1) : v = bbs[b].code[i].dst /\ v # None
    BY <1>3 DEF ResultsUpTo
  <2>2. i \in DOMAIN bbs[b].code /\ i \in Nat
    BY <1>1, <2>1, LastStays
  <2>3. i \notin p..(j - 1)
    BY <1>1, <2>1, <2>2, DeadNotKept
  <2>4. i \in 1..(p - 1)
    BY <1>1, <2>2, <2>3
  <2> QED
    BY <2>1, <2>4 DEF ResultsUpTo
<1> QED
  BY <1>2, <1>3

\* So every address that is used is right.
LEMMA UsedAddress ==
    ASSUME NEW g, NEW D, NEW b, NEW p, NEW j, InRun(g, D, b, p, j),
           NEW v \in Elems(bbs[b].code[j].args), v.kind = "result"
    PROVE  v \in ResultsKept /\ RightAddress(v)
<1>1. /\ Ready(g, D) /\ b \in Blocks /\ NoneDeadNeeded(b) /\ j \in DOMAIN bbs[b].code /\ j \notin dead[b]
      /\ AddressesRight(D, b, p - 1)
  BY InRunKnows
<1>2. v \in OfResult(Elems(bbs[b].code[j].args))
  BY DEF OfResult
<1>3. v \in ResultsKept
  BY <1>1, <1>2, OperandsKept
<1>4. v \in D[b] \cup ResultsUpTo(bbs, b, j - 1)
  <2>1. DefinedFirst(bbs, D)
    BY <1>1, ReadyGraph DEF Ready, Returned
  <2> QED
    BY <1>1, <1>2, <2>1 DEF DefinedFirst, Blocks
<1>5. v \in D[b] \cup ResultsUpTo(bbs, b, p - 1)
  BY <1>3, <1>4, DefinedBefore
<1> QED
  BY <1>1, <1>3, <1>5 DEF AddressesRight

-----------------------------------------------------------------------------
(* What is known after the instruction *)

\* R is what the registers hold after x is put into the register of v.
ResultWritten(R, v, x) ==
    /\ Machine!PartOf([w \in ResultsKept |-> R[w.n]], Machine!With(Values, v, x))
    /\ DOMAIN R = 0..NumResults /\ R[v.n] = x
    /\ \A w \in ResultsKept : w # v => R[w.n] = regs[w.n]

\* A part agrees with the whole where it is defined.
LEMMA PartIs ==
    ASSUME NEW new, NEW old
    PROVE  Machine!PartOf(new, old) <=>
               DOMAIN new \subseteq DOMAIN old /\ \A x \in DOMAIN new : new[x] = old[x]
BY DEF Machine!PartOf

LEMMA ValuesWithResult ==
    ASSUME NEW g, NEW D, NEW b, NEW p, NEW j, InRun(g, D, b, p, j), NEW v, ResultAt(v, b, j), NEW x,
           NEW R, R = [regs EXCEPT ![v.n] = x]
    PROVE  ResultWritten(R, v, x)
<1>1. /\ Ready(g, D) /\ Values = [w \in ResultsKept |-> regs[w.n]] /\ DOMAIN regs = 0..NumResults
  BY InRunKnows
<1>2. v.n \in 0..NumResults
  BY <1>1, ResultNumber
<1>3. DOMAIN R = 0..NumResults /\ R[v.n] = x
  BY <1>1, <1>2
<1>4. ASSUME NEW w \in ResultsKept, w # v PROVE R[w.n] = regs[w.n]
  <2>1. PICK c, k : ResultAt(w, c, k)
    BY KeptResult
  <2>2. w.n # v.n
    BY <1>1, <1>4, <2>1, ResultNumber
  <2>3. w.n \in 0..NumResults
    BY <1>1, <2>1, ResultNumber
  <2> QED
    BY <1>1, <2>2, <2>3
<1>5. PICK N : N = [w \in ResultsKept |-> R[w.n]]
  OBVIOUS
<1>6. PICK W : W = Machine!With(Values, v, x)
  OBVIOUS
<1>7. DOMAIN W = ResultsKept \cup {v} /\ \A w \in ResultsKept \cup {v} : W[w] = IF w = v THEN x ELSE Values[w]
  BY <1>1, <1>6 DEF Machine!With
<1>8. DOMAIN N \subseteq DOMAIN W /\ \A w \in DOMAIN N : N[w] = W[w]
  BY <1>1, <1>3, <1>4, <1>5, <1>7
<1> QED
  BY <1>3, <1>4, <1>5, <1>6, <1>8, PartIs DEF ResultWritten

\* The values when no register changes.
LEMMA ValuesAsBefore ==
    ASSUME NEW g, NEW D, NEW b, NEW p, NEW j, InRun(g, D, b, p, j)
    PROVE  Machine!PartOf([w \in ResultsKept |-> regs[w.n]], Values)
BY InRunKnows, PartIs

\* The cells that matter after an instruction mattered before it.
LEMMA CellsMattered ==
    ASSUME NEW g, NEW D, NEW b, NEW p, NEW j, InRun(g, D, b, p, j), NEW a \in CellsAfter(b, j)
    PROVE  \/ a \in CellsAfter(b, p - 1)
           \/ bbs[b].code[j].op = "alloc" /\ a = 2 * bbs[b].code[j].dst.n
           \/ IsLocalStore(bbs[b].code[j]) /\ a = 2 * bbs[b].code[j].args[2].n
<1>1. /\ Ready(g, D) /\ b \in Blocks /\ j \in DOMAIN bbs[b].code /\ j \notin dead[b]
      /\ p \in 1..j /\ (\A i \in p..(j - 1) : i \in dead[b]) /\ j \in Nat /\ p \in Nat
  BY InRunKnows
<1>2. j - 1 \in (p - 1)..(j - 1)
  BY <1>1
<1>3. CellsAfter(b, j - 1) = CellsAfter(b, p - 1)
  BY <1>1, <1>2, CellsOfStretch
<1>4. CASE a \in CellsAfter(b, j - 1)
  BY <1>3, <1>4
<1>5. CASE a \notin CellsAfter(b, j - 1)
  BY <1>1, <1>5, CellsOfLive
<1> QED
  BY <1>4, <1>5

\* The cells when memory does not change.
LEMMA CellsAsBefore ==
    ASSUME NEW g, NEW D, NEW b, NEW p, NEW j, InRun(g, D, b, p, j),
           bbs[b].code[j].op # "store"
    PROVE  Machine!PartOf(Machine!Without([a \in CellsAfter(b, j) |-> mem[a]], Machine!Fresh(bbs[b].code[j])),
                          Cells)
<1>1. Cells = [a \in CellsAfter(b, p - 1) |-> mem[a]]
  BY InRunKnows
<1>F. PICK F : F = Machine!Fresh(bbs[b].code[j])
  OBVIOUS
<1>2. CellsAfter(b, j) \ F \subseteq CellsAfter(b, p - 1)
  BY <1>F, CellsMattered DEF Machine!Fresh, Machine!CellOf, IsLocalStore
<1>3. PICK C : C = Machine!Without([a \in CellsAfter(b, j) |-> mem[a]], F)
  OBVIOUS
<1>4. C = [a \in CellsAfter(b, j) \ F |-> mem[a]]
  BY <1>3 DEF Machine!Without
<1>5. Machine!PartOf(C, Cells)
  BY <1>1, <1>2, <1>4, PartIs
<1> QED
  BY <1>3, <1>5, <1>F

\* An element's cell is one of memory, and matters everywhere.
LEMMA ElementInMemory ==
    ASSUME NEW g, NEW D, Ready(g, D), NEW a \in ElementCells
    PROVE  a \in 0..(2 * NumResults + 1) /\ \A b, i : a \in CellsAfter(b, i)
<1>1. \A b, i : a \in CellsAfter(b, i)
  BY DEF ElementCells, CellsAfter
<1>2. NumResults \in Nat
  BY ReadyGraph, ResultsFinite DEF NumResults
<1>3. CASE a \in {0, 1}
  BY <1>1, <1>2, <1>3
<1>4. CASE a \notin {0, 1}
  <2>1. PICK v \in Arrays : a = 2 * v.n \/ a = 2 * v.n + 1
    BY <1>4 DEF ElementCells
  <2>2. PICK c, k : ResultAt(v, c, k)
    BY ArraysAreVariables, VariableIs
  <2>3. v.n \in 1..NumResults
    BY <2>2, ResultNumber
  <2> QED
    BY <1>1, <1>2, <2>1, <2>3
<1> QED
  BY <1>3, <1>4

\* The address of a load or a store: the cell of the global or of a variable,
\* or that of an element.
LEMMA AddressIs ==
    ASSUME NEW g, NEW D, NEW b, NEW p, NEW j, InRun(g, D, b, p, j),
           NEW v \in Elems(bbs[b].code[j].args), v.kind = "global" \/ v.by \in {"alloc", "gep"}
    PROVE  /\ ValueOf(v) \in 0..(2 * NumResults + 1)
           /\ \/ ValueOf(v) \in ElementCells
              \/ v \in Variables /\ ValueOf(v) = 2 * v.n
           /\ v.kind # "global" /\ v.by = "alloc" => ValueOf(v) = 2 * v.n
<1>1. Ready(g, D) /\ b \in Blocks /\ j \in DOMAIN bbs[b].code
  BY InRunKnows
<1>2. CASE v.kind = "global"
  <2>1. ValueOf(v) = 0
    BY <1>2 DEF ValueOf
  <2>2. ValueOf(v) \in ElementCells
    BY <2>1 DEF ElementCells
  <2> QED
    BY <1>1, <1>2, <2>2, ElementInMemory
<1>3. CASE v.kind # "global"
  <2>1. v.by \in {"alloc", "gep"}
    BY <1>3
  <2>2. InstRuns(bbs, bbs[b].code[j])
    BY <1>1, OneInstRuns
  <2>3. PICK c \in DOMAIN bbs : \E k \in DOMAIN bbs[c].code : bbs[c].code[k].dst = v /\ v # None
    BY <2>1, <2>2 DEF InstRuns
  <2>4. PICK k : ResultAt(v, c, k)
    BY <2>3 DEF ResultAt, Blocks
  <2>5. v.kind = "result" /\ v.n \in 1..NumResults /\ v.n \in Nat /\ NumResults \in Nat
    BY <1>1, <2>4, ResultNumber
  <2>6. ValueOf(v) = regs[v.n]
    BY <2>5 DEF ValueOf
  <2>7. RightAddress(v)
    BY <2>5, UsedAddress
  <2>8. CASE v.by = "alloc"
    <3>1. v \in Variables
      BY <1>1, <2>4, <2>8, VariableIs
    <3>2. ValueOf(v) = 2 * v.n
      BY <2>6, <2>7, <2>8 DEF RightAddress
    <3>3. 2 * v.n \in 0..(2 * NumResults + 1)
      BY <2>5
    <3> QED
      BY <3>1, <3>2, <3>3
  <2>9. CASE v.by = "gep"
    BY <1>1, <2>6, <2>7, <2>9, ElementInMemory DEF RightAddress
  <2> QED
    BY <2>1, <2>8, <2>9
<1> QED
  BY <1>2, <1>3

\* A load reads a cell that matters.
LEMMA LoadedCell ==
    ASSUME NEW g, NEW D, NEW b, NEW p, NEW j, InRun(g, D, b, p, j), NEW inst,
           inst = bbs[b].code[j], inst.op = "load"
    PROVE  ValueOf(inst.args[1]) \in DOMAIN Cells /\ Cells[ValueOf(inst.args[1])] = mem[ValueOf(inst.args[1])]
<1>1. /\ Ready(g, D) /\ b \in Blocks /\ j \in DOMAIN bbs[b].code /\ j \notin dead[b] /\ j \in 1..Len(bbs[b].code)
      /\ p \in 1..j /\ (\A i \in p..(j - 1) : i \in dead[b]) /\ j \in Nat /\ p \in Nat
      /\ Cells = [a \in CellsAfter(b, p - 1) |-> mem[a]]
  BY InRunKnows
<1>2. InstRuns(bbs, inst) /\ InstOK(inst)
  BY <1>1, OneInstRuns
<1>3. DOMAIN inst.args = 1..1 /\ (inst.args[1].kind = "global" \/ inst.args[1].by \in {"alloc", "gep"})
  BY <1>2 DEF InstRuns, NumOperands
<1>v. PICK v : v = inst.args[1] /\ v \in Elems(inst.args)
  BY <1>3 DEF Elems
<1>4. ValueOf(v) \in ElementCells \/ (v \in Variables /\ ValueOf(v) = 2 * v.n)
  BY <1>3, <1>v, AddressIs
<1>5. ASSUME v \in Variables, ValueOf(v) = 2 * v.n PROVE ValueOf(v) \in CellsAfter(b, p - 1)
  <2>1. Solution(NeededIn(b), b)
    BY <1>1, NeededInSolves DEF Ready
  <2>2. IsLive(inst, NeededIn(b)[j])
    BY <1>1, <2>1 DEF Solution
  <2>3. v.by = "alloc" /\ v.kind = "result"
    BY <1>1, <1>5, VariableIs, ResultNumber
  <2>4. v \in Uses(inst)
    <3>1. Uses(inst) = {a \in Elems(inst.args) : a.kind # "global"}
      BY DEF Uses
    <3>2. v \in Elems(inst.args) /\ v.kind # "global"
      BY <1>v, <2>3
    <3> QED
      BY <3>1, <3>2
  <2>5. v # inst.dst
    <3>1. None.by = ""
      BY DEF None
    <3>2. inst.dst = None \/ inst.dst.by = "load"
      BY <1>2 DEF InstOK
    <3>3. inst.dst.by # "alloc"
      BY <3>1, <3>2
    <3> QED
      BY <2>3, <3>3
  <2>6. v \in Before(inst, NeededIn(b)[j])
    BY <2>2, <2>4, <2>5 DEF Before, IsLocalStore
  <2>7. v \in NeededIn(b)[j - 1]
    BY <1>1, <2>1, <2>6 DEF Solution, Exact
  <2>8. v \in NeededIn(b)[p - 1]
    <3>1. j - 1 \in (p - 1)..(j - 1)
      BY <1>1
    <3>2. NeededIn(b)[j - 1] \cap Variables = NeededIn(b)[p - 1] \cap Variables
      BY <1>1, <3>1, CellsOfStretch
    <3> QED
      BY <1>5, <2>7, <3>2
  <2> QED
    BY <1>5, <2>8 DEF CellsAfter
<1>6. ValueOf(v) \in CellsAfter(b, p - 1)
  BY <1>1, <1>4, <1>5, ElementInMemory
<1> QED
  BY <1>1, <1>6, <1>v

-----------------------------------------------------------------------------
(* The invariant after a step *)

\* The addresses that have been computed are right after the step.
AddressesNext(D, b, i) ==
    \A w \in ResultsKept : w \in D[b] \cup ResultsUpTo(bbs, b, i) => RightAddress(w)'

Memory == DOMAIN regs = 0..NumResults /\ DOMAIN mem = 0..(2 * NumResults + 1)

LEMMA MaskInvNext ==
    ASSUME NEW g, NEW D, Closed(g), DefinedFirst(g, D), MaskInv(g, D), [MaskNext]_maskVars
    PROVE  MaskInv(g, D)'
<1>1. SolveInv'
  BY EnterBlockSolve, MaskInstSolve, LeaveBlockSolve, EndRoundSolve, StutterSolve
  DEF MaskNext, MaskInv
<1>2. DefInv(g, D)'
  BY DefInvNext DEF MaskInv
<1>3. StoreInv(g)'
  BY StoreInvNext DEF MaskInv
<1> QED
  BY <1>1, <1>2, <1>3 DEF MaskInv

\* A step of a run that changes neither the blocks nor the printed code.
StillRuns == UNCHANGED maskVars /\ asm' = asm /\ phase' = "run"

LEMMA StillSame ==
    ASSUME StillRuns
    PROVE  SameBlocks
BY DEF StillRuns, SameBlocks, maskVars

LEMMA Proceeds ==
    ASSUME NEW g, NEW D, Given(g, D), RunInv(g, D), phase = "run", StillRuns, Memory',
           NEW t \in Blocks, NEW i \in Nat, GoesTo(t, i), NoneDeadNeeded(t), AddressesNext(D, t, i)
    PROVE  RunInv(g, D)'
<1>1. SameBlocks
  BY StillSame
<1>2. MaskInv(g, D)'
  BY MaskInvNext DEF RunInv, Given, StillRuns
<1>3. phase' = "run" /\ stage' = "masked" /\ IsPrinted' /\ Located'
  BY <1>1, SameKnown DEF StillRuns, maskVars, RunInv, GoesTo
<1>4. Place' = <<t, i + 1>> /\ Place'[1] = t /\ Place'[2] - 1 = i
  BY DEF GoesTo
<1>5. Place'[1] \in Blocks' /\ NoneDeadNeeded(Place[1])'
  <2>1. t \in Blocks' /\ NoneDeadNeeded(t)'
    BY <1>1, SameKnown
  <2> QED
    BY <1>4, <2>1 DEF NoneDeadNeeded
<1>6. AddressesRight(D, Place[1], Place[2] - 1)'
  <2>1. AddressesRight(D, t, i)'
    BY <1>1, SameKnown DEF AddressesNext, AddressesRight, SameBlocks, ResultsUpTo
  <2> QED
    BY <1>4, <2>1 DEF AddressesRight, ResultsUpTo
<1> QED
  BY <1>2, <1>3, <1>5, <1>6 DEF RunInv, Memory

LEMMA LeftInv ==
    ASSUME NEW g, NEW D, Given(g, D), RunInv(g, D), phase = "run", StillRuns, Memory', Leaves
    PROVE  RunInv(g, D)'
<1>1. SameBlocks
  BY StillSame
<1>2. MaskInv(g, D)'
  BY MaskInvNext DEF RunInv, Given, StillRuns
<1>3. phase' = "run" /\ stage' = "masked" /\ IsPrinted' /\ Located' /\ Status' = "done"
  BY <1>1, SameKnown DEF StillRuns, maskVars, RunInv, Leaves
<1> QED
  BY <1>2, <1>3 DEF RunInv, Memory

\* After an instruction with a result.
LEMMA AddressesWithResult ==
    ASSUME NEW g, NEW D, NEW b, NEW p, NEW j, InRun(g, D, b, p, j), SameBlocks,
           NEW v, ResultAt(v, b, j), NEW x, regs' = [regs EXCEPT ![v.n] = x],
           v.by = "alloc" => x = 2 * v.n, v.by = "gep" => x \in ElementCells
    PROVE  AddressesNext(D, b, j)
<1>1. Ready(g, D) /\ AddressesRight(D, b, p - 1) /\ j \in Nat
  BY InRunKnows
<1>2. regs'[v.n] = x /\ \A w \in ResultsKept : w # v => regs'[w.n] = regs[w.n]
  <2>R. PICK R : R = regs' /\ R = [regs EXCEPT ![v.n] = x]
    OBVIOUS
  <2>1. InRun(g, D, b, p, j) /\ ResultAt(v, b, j)
    OBVIOUS
  <2>2. R[v.n] = x /\ \A w \in ResultsKept : w # v => R[w.n] = regs[w.n]
    <3>1. ResultWritten(R, v, x)
      BY <2>R, <2>1, ValuesWithResult
    <3> QED
      BY <3>1 DEF ResultWritten
  <2> QED
    BY <2>R, <2>2
<1>3. ElementCells' = ElementCells
  BY SameKnown
<1>4. ASSUME NEW w \in ResultsKept, w \in D[b] \cup ResultsUpTo(bbs, b, j) PROVE RightAddress(w)'
  <2>1. CASE w = v
    BY <1>2, <1>3, <2>1 DEF RightAddress
  <2>2. CASE w # v
    <3>1. w \in D[b] \cup ResultsUpTo(bbs, b, j - 1)
      <4>1. CASE w \in D[b]
        BY <4>1
      <4>2. CASE w \in ResultsUpTo(bbs, b, j)
        <5>1. PICK i \in 1..j : w = bbs[b].code[i].dst /\ w # None
          BY <4>2 DEF ResultsUpTo
        <5>2. i # j
          BY <2>2, <5>1 DEF ResultAt
        <5>3. i \in 1..(j - 1)
          BY <1>1, <5>1, <5>2
        <5> QED
          BY <5>1, <5>3 DEF ResultsUpTo
      <4> QED
        BY <1>4, <4>1, <4>2
    <3>2. RightAddress(w)
      BY <1>1, <1>4, <3>1, DefinedBefore DEF AddressesRight
    <3> QED
      BY <1>2, <1>3, <1>4, <2>2, <3>2 DEF RightAddress
  <2> QED
    BY <2>1, <2>2
<1> QED
  BY <1>4 DEF AddressesNext

\* After an instruction without one.
LEMMA AddressesAsBefore ==
    ASSUME NEW g, NEW D, NEW b, NEW p, NEW j, InRun(g, D, b, p, j), SameBlocks,
           bbs[b].code[j].dst = None, regs' = regs
    PROVE  AddressesNext(D, b, j)
<1>1. Ready(g, D) /\ AddressesRight(D, b, p - 1) /\ j \in Nat
  BY InRunKnows
<1>2. ElementCells' = ElementCells
  BY SameKnown
<1>3. ResultsUpTo(bbs, b, j) \subseteq ResultsUpTo(bbs, b, j - 1)
  <2>1. ASSUME NEW i \in 1..j, bbs[b].code[i].dst # None PROVE i \in 1..(j - 1)
    BY <1>1, <2>1
  <2> QED
    BY <2>1 DEF ResultsUpTo
<1>4. \A w \in ResultsKept : w \in D[b] \cup ResultsUpTo(bbs, b, j) => RightAddress(w)
  BY <1>1, <1>3, DefinedBefore DEF AddressesRight
<1> QED
  BY <1>2, <1>4 DEF AddressesNext, RightAddress

\* After the jump to a successor.
LEMMA AddressesAtJump ==
    ASSUME NEW g, NEW D, NEW b, NEW p, NEW j, InRun(g, D, b, p, j), SameBlocks,
           j = Len(bbs[b].code), regs' = regs, NEW t \in Elems(bbs[b].succ)
    PROVE  AddressesNext(D, t, 0)
<1>1. Ready(g, D) /\ j \in DOMAIN bbs[b].code /\ b \in Blocks
  BY InRunKnows
<1>2. bbs[b].code[j].dst = None
  BY <1>1, OneInstRuns DEF IsTerminator, InstOK
<1>3. AddressesNext(D, b, j)
  BY <1>2, AddressesAsBefore
<1>4. D[t] \subseteq D[b] \cup ResultsUpTo(bbs, b, j)
  <2>1. DefinedFirst(bbs, D)
    BY <1>1, ReadyGraph DEF Ready, Returned
  <2> QED
    BY <1>1, <2>1 DEF DefinedFirst, Blocks
<1>5. ResultsUpTo(bbs, t, 0) = {}
  BY DEF ResultsUpTo
<1> QED
  BY <1>3, <1>4, <1>5 DEF AddressesNext

-----------------------------------------------------------------------------
(* The steps of a run *)

\* The instruction that comes next is the one that is executed.
LEMMA RunAt ==
    ASSUME Run, phase = "run", pc[2] \in DOMAIN Code
    PROVE  /\ Current.op \in {"alloc", "gep", "load", "binary", "prologue", "mv_a0"} => Compute
           /\ Current.op = "store" => StoreWord
           /\ Current.op = "call" => Call \/ Starve
           /\ Current.op = "j" => JumpTo
           /\ Current.op = "branch" => BranchTo
           /\ Current.op = "ret" => Ret
BY DEF Run, FallThrough, Compute, StoreWord, JumpTo, BranchTo, Call, Starve, Ret, Exit, AtInst

LEMMA RunPast ==
    ASSUME Run, phase = "run", pc[2] \notin DOMAIN Code
    PROVE  FallThrough
BY DEF Run, FallThrough, Compute, StoreWord, JumpTo, BranchTo, Call, Starve, Ret, Exit, AtInst

\* A jump that is printed, or is not.
LEMMA JumpGoes ==
    ASSUME Run, phase = "run", NEW t, JumpHere(t)
    PROVE  pc' = <<t, 1>> /\ StillRuns /\ inputs' = inputs /\ UNCHANGED <<regs, mem, next, out>>
<1>1. CASE pc[2] \in DOMAIN Code /\ IsJump(Current, t)
  <2>1. JumpTo /\ Current.to[1] = t
    BY <1>1, RunAt DEF IsJump
  <2> QED
    BY <2>1 DEF JumpTo, Compiled, StillRuns
<1>2. CASE pc[2] \notin DOMAIN Code /\ pc[1] + 1 = t
  BY <1>2, RunPast DEF FallThrough, Compiled, StillRuns
<1> QED
  BY <1>1, <1>2 DEF JumpHere

\* The step does what an instruction of the blocks does, or nothing that they
\* see, and keeps the invariant.
Follows(g, D) == (Machine!Next \/ UNCHANGED Machine!vars) /\ RunInv(g, D)'

\* The run goes on to the next instruction of the block.
Advances == Run /\ StillRuns /\ inputs' = inputs /\ pc' = <<pc[1], pc[2] + 1>>

LEMMA Follow ==
    ASSUME NEW g, NEW D, NEW b, NEW p, NEW j, InRun(g, D, b, p, j), j # Len(bbs[b].code),
           Advances, Memory', AddressesNext(D, b, j),
           NEW inst, inst = bbs[b].code[j],
           GoesTo(b, j) =>
               \/ Machine!Compute(inst, Values, Cells)
               \/ Machine!StoreWord(inst, Values, Cells)
               \/ Machine!Call(inst, Values, Cells)
    PROVE  Follows(g, D)
<1>1. /\ Ready(g, D) /\ IsPrinted /\ b \in Blocks /\ NoneDeadNeeded(b) /\ j \in Nat
      /\ Status = "running" /\ Graph = bbs /\ Place = <<b, p>>
  BY InRunKnows
<1>2. Given(g, D) /\ RunInv(g, D) /\ phase = "run" /\ AtFirst(b, p, j)
  BY DEF InRun
<1>3. SameBlocks /\ phase' = "run"
  BY StillSame DEF Advances, StillRuns
<1>4. GoesTo(b, j)
  BY <1>1, <1>2, <1>3, ToNext DEF Advances
<1>5. Status' = Status /\ Place' = <<Place[1], j + 1>> /\ Graph' = Graph /\ inputs' = inputs
  BY <1>1, <1>4 DEF GoesTo, Advances
<1>6. Machine!OperandsKnown(inst, Values)
  BY OperandValues
<1>7. Machine!Execute(j, inst, Values, Cells)
  BY <1>4, <1>5, <1>6 DEF Machine!Execute
<1>8. Machine!Next
  BY <1>1, <1>2, <1>5, <1>7, Executes
<1>9. RunInv(g, D)'
  BY <1>1, <1>2, <1>4, Proceeds DEF Advances
<1> QED
  BY <1>8, <1>9 DEF Follows

\* The instruction of the blocks is the one that is printed.
LEMMA AtOrdinary ==
    ASSUME NEW g, NEW D, NEW b, NEW p, NEW j, InRun(g, D, b, p, j), j # Len(bbs[b].code),
           NEW inst, inst = bbs[b].code[j]
    PROVE  /\ pc[2] \in DOMAIN Code /\ Current = inst /\ phase = "run"
           /\ inst.op \in {"alloc", "load", "store", "gep", "binary", "call"}
           /\ InstOK(inst) /\ InstRuns(bbs, inst) /\ DOMAIN inst.args = 1..NumOperands(inst)
           /\ \A k \in DOMAIN inst.args : Machine!Arg(inst, k, Values) = Arg(k)
           /\ inst.dst # None => ResultAt(inst.dst, b, j) /\ inst.dst.by = inst.op
<1>1. Ready(g, D) /\ IsPrinted /\ b \in Blocks /\ j \in DOMAIN bbs[b].code
  BY InRunKnows
<1>2. AtFirst(b, p, j) /\ phase = "run"
  BY DEF InRun
<1>3. pc[2] \in DOMAIN Code /\ Current = inst
  BY <1>1, <1>2, CodeAtFirst DEF FirstCode
<1>4. InstOK(inst) /\ InstRuns(bbs, inst) /\ ~IsTerminator(inst)
  BY <1>1, OneInstRuns
<1>5. inst.op \in {"alloc", "load", "store", "gep", "binary", "call"}
  BY <1>4 DEF InstOK, IsTerminator
<1>6. DOMAIN inst.args = 1..NumOperands(inst)
  BY <1>4 DEF InstRuns
<1>7. \A v \in Elems(inst.args) : Machine!ValueOf(v, Values) = ValueOf(v)
  BY OperandValues
<1>8. \A k \in DOMAIN inst.args : Machine!Arg(inst, k, Values) = Arg(k)
  BY <1>3, <1>7 DEF Elems, Machine!Arg, Arg
<1>9. inst.dst # None => ResultAt(inst.dst, b, j) /\ inst.dst.by = inst.op
  BY <1>1, <1>4 DEF ResultAt, InstOK
<1> QED
  BY <1>2, <1>3, <1>4, <1>5, <1>6, <1>8, <1>9

\* An element is in its array.
LEMMA ElementIs ==
    ASSUME NEW g, NEW D, NEW b, NEW p, NEW j, InRun(g, D, b, p, j), j # Len(bbs[b].code),
           IndicesInBounds, NEW inst, inst = bbs[b].code[j], inst.op = "gep"
    PROVE  Arg(1) + Arg(2) \in ElementCells
<1>1. /\ pc[2] \in DOMAIN Code /\ Current = inst /\ phase = "run" /\ InstRuns(bbs, inst)
      /\ DOMAIN inst.args = 1..2
  BY AtOrdinary DEF NumOperands
<1>2. Ready(g, D) /\ b \in Blocks /\ j \in DOMAIN bbs[b].code
  BY InRunKnows
<1>3. Arg(2) \in {0, 1}
  BY <1>1 DEF IndicesInBounds, AtInst
<1>v. PICK v : v = inst.args[1] /\ v \in Elems(inst.args)
  <2>1. 1 \in DOMAIN inst.args
    BY <1>1
  <2> QED
    BY <2>1 DEF Elems
<1>4. Arg(1) = ValueOf(v)
  BY <1>1, <1>v DEF Arg
<1>5. CASE v.kind = "global"
  <2>1. Arg(1) = 0
    BY <1>4, <1>5 DEF ValueOf
  <2>2. Arg(1) + Arg(2) \in {0, 1}
    BY <1>3, <2>1
  <2> QED
    BY <2>2 DEF ElementCells
<1>6. CASE v.kind # "global"
  <2>1. v \in Arrays /\ v \in Variables
    BY <1>2, <1>6, <1>v, ArrayIs
  <2>2. PICK c, k : ResultAt(v, c, k)
    BY <1>2, <2>1, VariableIs
  <2>3. v.by = "alloc" /\ v.kind = "result" /\ v.n \in Nat
    BY <1>2, <2>1, <2>2, VariableIs, ResultNumber
  <2>4. Arg(1) = 2 * v.n
    BY <1>4, <1>v, <2>3, UsedAddress DEF RightAddress, ValueOf
  <2>5. PICK n \in Nat : n = v.n
    BY <2>3
  <2>6. Arg(1) + Arg(2) = 2 * n \/ Arg(1) + Arg(2) = 2 * n + 1
    <3>1. 2 * n + 0 = 2 * n
      OBVIOUS
    <3> QED
      BY <1>3, <2>4, <2>5, <3>1
  <2> QED
    BY <2>1, <2>5, <2>6 DEF ElementCells
<1> QED
  BY <1>5, <1>6

\* An operation, a load or an address.
LEMMA StepCompute ==
    ASSUME NEW g, NEW D, NEW b, NEW p, NEW j, InRun(g, D, b, p, j), j # Len(bbs[b].code),
           Run, IndicesInBounds, NEW inst, inst = bbs[b].code[j],
           inst.op \in {"alloc", "gep", "load", "binary"}
    PROVE  Follows(g, D)
<1>1. /\ pc[2] \in DOMAIN Code /\ Current = inst /\ phase = "run"
      /\ InstOK(inst) /\ InstRuns(bbs, inst) /\ DOMAIN inst.args = 1..NumOperands(inst)
      /\ \A k \in DOMAIN inst.args : Machine!Arg(inst, k, Values) = Arg(k)
      /\ inst.dst # None => ResultAt(inst.dst, b, j) /\ inst.dst.by = inst.op
  BY AtOrdinary
<1>2. Compute
  BY <1>1, RunAt
<1>3. inst.dst # None
  BY <1>1 DEF InstRuns
<1>v. PICK v : v = inst.dst /\ ResultAt(v, b, j) /\ v.by = inst.op
  BY <1>1, <1>3
<1>4. Advances /\ mem' = mem /\ next' = next /\ out' = out
  BY <1>1, <1>2 DEF Compute, Advances, Advance, StillRuns, Compiled
<1>5. \E x : /\ regs' = [regs EXCEPT ![v.n] = x] /\ x = Machine!Computed(inst, Values, Cells)
             /\ inst.op = "alloc" => x = 2 * v.n
             /\ inst.op = "gep" => x \in ElementCells
             /\ inst.op = "load" => Machine!Arg(inst, 1, Values) \in DOMAIN Cells
  <2>1. CASE inst.op = "alloc"
    <3>1. regs' = [regs EXCEPT ![v.n] = 2 * v.n]
      BY <1>1, <1>2, <1>v, <2>1 DEF Compute, AtInst, SetResult
    <3>2. Machine!Computed(inst, Values, Cells) = 2 * v.n
      BY <1>v, <2>1 DEF Machine!Computed, Machine!CellOf
    <3> QED
      BY <2>1, <3>1, <3>2
  <2>2. CASE inst.op = "gep"
    <3>1. regs' = [regs EXCEPT ![v.n] = Arg(1) + Arg(2)]
      BY <1>1, <1>2, <1>v, <2>2 DEF Compute, AtInst, SetResult
    <3>2. 1 \in DOMAIN inst.args /\ 2 \in DOMAIN inst.args
      BY <1>1, <2>2 DEF NumOperands
    <3>3. Machine!Computed(inst, Values, Cells) = Arg(1) + Arg(2)
      BY <1>1, <2>2, <3>2 DEF Machine!Computed
    <3>4. Arg(1) + Arg(2) \in ElementCells
      BY <2>2, ElementIs
    <3> QED
      BY <2>2, <3>1, <3>3, <3>4
  <2>3. CASE inst.op = "load"
    <3>1. regs' = [regs EXCEPT ![v.n] = mem[Arg(1)]]
      BY <1>1, <1>2, <1>v, <2>3 DEF Compute, AtInst, SetResult
    <3>2. 1 \in DOMAIN inst.args
      BY <1>1, <2>3 DEF NumOperands
    <3>3. Arg(1) \in DOMAIN Cells /\ Cells[Arg(1)] = mem[Arg(1)]
      BY <1>1, <2>3, LoadedCell DEF Arg
    <3>4. Machine!Arg(inst, 1, Values) = Arg(1)
      BY <1>1, <3>2
    <3>5. Machine!Computed(inst, Values, Cells) = mem[Arg(1)]
      BY <2>3, <3>3, <3>4 DEF Machine!Computed
    <3> QED
      BY <2>3, <3>1, <3>3, <3>4, <3>5
  <2>4. CASE inst.op = "binary"
    <3>1. regs' = [regs EXCEPT ![v.n] = Apply(inst.tag, Arg(1), Arg(2))]
      BY <1>1, <1>2, <1>v, <2>4 DEF Compute, AtInst, SetResult
    <3>2. 1 \in DOMAIN inst.args /\ 2 \in DOMAIN inst.args
      BY <1>1, <2>4 DEF NumOperands
    <3>3. Machine!Computed(inst, Values, Cells) = Machine!Apply(inst.tag, Arg(1), Arg(2))
      BY <1>1, <2>4, <3>2 DEF Machine!Computed
    <3>4. Machine!Apply(inst.tag, Arg(1), Arg(2)) = Apply(inst.tag, Arg(1), Arg(2))
      BY DEF Machine!Apply, Apply, Machine!Truth, Truth
    <3> QED
      BY <2>4, <3>1, <3>3, <3>4
  <2> QED
    BY <2>1, <2>2, <2>3, <2>4
<1>x. PICK x : /\ regs' = [regs EXCEPT ![v.n] = x] /\ x = Machine!Computed(inst, Values, Cells)
               /\ inst.op = "alloc" => x = 2 * v.n
               /\ inst.op = "gep" => x \in ElementCells
               /\ inst.op = "load" => Machine!Arg(inst, 1, Values) \in DOMAIN Cells
  BY <1>5
<1>6. /\ Machine!PartOf([w \in ResultsKept |-> regs'[w.n]], Machine!With(Values, v, x))
      /\ DOMAIN regs' = 0..NumResults
  <2>R. PICK R : R = regs' /\ R = [regs EXCEPT ![v.n] = x]
    BY <1>x
  <2>1. ResultWritten(R, v, x)
    BY <1>v, <2>R, ValuesWithResult
  <2> QED
    BY <2>1, <2>R DEF ResultWritten
<1>7. SameBlocks /\ NumResults' = NumResults
  BY <1>4, StillSame, SameKnown DEF Advances
<1>8. Memory'
  BY <1>4, <1>6, <1>7, InRunKnows DEF Memory
<1>9. AddressesNext(D, b, j)
  BY <1>7, <1>v, <1>x, AddressesWithResult
<1>10. Machine!PartOf(Machine!Without([a \in CellsAfter(b, j) |-> mem[a]], Machine!Fresh(inst)), Cells)
  BY CellsAsBefore
<1>11. ASSUME GoesTo(b, j) PROVE Machine!Compute(inst, Values, Cells)
  <2>1. Machine!PartOf(Values', Machine!With(Values, inst.dst, Machine!Computed(inst, Values, Cells)))
    BY <1>6, <1>11, <1>v, <1>x DEF GoesTo
  <2>2. Machine!PartOf(Machine!Without(Cells', Machine!Fresh(inst)), Cells)
    BY <1>4, <1>10, <1>11 DEF GoesTo
  <2>3. Out' = Out
    BY <1>4, <1>11, InRunKnows DEF GoesTo
  <2> QED
    BY <1>4, <1>x, <2>1, <2>2, <2>3 DEF Machine!Compute
<1> QED
  BY <1>4, <1>8, <1>9, <1>11, Follow

\* A store.
LEMMA StepStore ==
    ASSUME NEW g, NEW D, NEW b, NEW p, NEW j, InRun(g, D, b, p, j), j # Len(bbs[b].code),
           Run, NEW inst, inst = bbs[b].code[j], inst.op = "store"
    PROVE  Follows(g, D)
<1>1. /\ pc[2] \in DOMAIN Code /\ Current = inst /\ phase = "run"
      /\ InstOK(inst) /\ InstRuns(bbs, inst) /\ DOMAIN inst.args = 1..2
      /\ \A k \in DOMAIN inst.args : Machine!Arg(inst, k, Values) = Arg(k)
  BY AtOrdinary DEF NumOperands
<1>2. StoreWord
  BY <1>1, RunAt
<1>3. Advances /\ regs' = regs /\ next' = next /\ out' = out
  BY <1>1, <1>2 DEF StoreWord, Advances, Advance, StillRuns, Compiled
<1>4. Machine!Arg(inst, 1, Values) = Arg(1) /\ Machine!Arg(inst, 2, Values) = Arg(2)
  <2>1. 1 \in DOMAIN inst.args /\ 2 \in DOMAIN inst.args
    BY <1>1
  <2> QED
    BY <1>1, <2>1
<1>v. PICK v : v = inst.args[2] /\ v \in Elems(inst.args)
  <2>1. 2 \in DOMAIN inst.args
    BY <1>1
  <2> QED
    BY <2>1 DEF Elems
<1>a. PICK a : a = Arg(2) /\ a = ValueOf(v)
  BY <1>1, <1>v DEF Arg
<1>x. PICK x : x = Arg(1)
  OBVIOUS
<1>5. v.kind = "global" \/ v.by \in {"alloc", "gep"}
  BY <1>1, <1>v DEF InstOK
<1>6. a \in 0..(2 * NumResults + 1) /\ (v.kind # "global" /\ v.by = "alloc" => a = 2 * v.n)
  BY <1>5, <1>a, <1>v, AddressIs
<1>7. mem' = [mem EXCEPT ![a] = x] /\ a \in DOMAIN mem
  BY <1>2, <1>6, <1>a, <1>x, InRunKnows DEF StoreWord
<1>8. SameBlocks /\ NumResults' = NumResults
  BY <1>3, StillSame, SameKnown DEF Advances
<1>9. Memory'
  BY <1>3, <1>7, <1>8, InRunKnows DEF Memory
<1>10. inst.dst = None
  BY <1>1 DEF InstOK
<1>11. AddressesNext(D, b, j)
  BY <1>3, <1>8, <1>10, AddressesAsBefore
<1>12. CellsAfter(b, j) \subseteq CellsAfter(b, p - 1) \cup {a}
  BY <1>5, <1>6, <1>v, CellsMattered DEF IsLocalStore
<1>13. ASSUME GoesTo(b, j) PROVE Machine!StoreWord(inst, Values, Cells)
  <2>1. Machine!PartOf(Values', Values)
    BY <1>3, <1>13, ValuesAsBefore DEF GoesTo
  <2>2. Cells' = [c \in CellsAfter(b, j) |-> mem'[c]] /\ Cells = [c \in CellsAfter(b, p - 1) |-> mem[c]]
    BY <1>13, InRunKnows DEF GoesTo
  <2>W. PICK W : W = Machine!With(Cells, a, x)
    OBVIOUS
  <2>3. /\ DOMAIN W = CellsAfter(b, p - 1) \cup {a}
        /\ \A c \in CellsAfter(b, p - 1) \cup {a} : W[c] = IF c = a THEN x ELSE Cells[c]
    BY <2>2, <2>W DEF Machine!With
  <2>4. ASSUME NEW c \in CellsAfter(b, j) PROVE mem'[c] = W[c]
    <3>1. CASE c = a
      BY <1>7, <2>3, <3>1
    <3>2. CASE c # a
      <4>1. c \in CellsAfter(b, p - 1) /\ W[c] = mem[c]
        BY <1>12, <2>2, <2>3, <3>2
      <4> QED
        BY <1>7, <3>2, <4>1
    <3> QED
      BY <3>1, <3>2
  <2>5. Machine!PartOf(Cells', W)
    BY <1>12, <2>2, <2>3, <2>4, PartIs
  <2>6. Out' = Out
    BY <1>3, <1>13, InRunKnows DEF GoesTo
  <2> QED
    BY <1>3, <1>4, <1>a, <1>x, <2>1, <2>5, <2>6, <2>W DEF Machine!StoreWord
<1> QED
  BY <1>3, <1>9, <1>11, <1>13, Follow

\* A call, or the end of the inputs.
LEMMA StepCall ==
    ASSUME NEW g, NEW D, NEW b, NEW p, NEW j, InRun(g, D, b, p, j), j # Len(bbs[b].code),
           Run, NEW inst, inst = bbs[b].code[j], inst.op = "call"
    PROVE  Follows(g, D)
<1>1. /\ pc[2] \in DOMAIN Code /\ Current = inst /\ phase = "run"
      /\ DOMAIN inst.args = 1..NumOperands(inst)
      /\ \A k \in DOMAIN inst.args : Machine!Arg(inst, k, Values) = Arg(k)
      /\ inst.dst # None => ResultAt(inst.dst, b, j) /\ inst.dst.by = inst.op
  BY AtOrdinary
<1>2. Call \/ Starve
  BY <1>1, RunAt
<1>k. /\ Ready(g, D) /\ IsPrinted /\ b \in Blocks /\ Status = "running" /\ Graph = bbs
      /\ Place = <<b, p>> /\ Out = out
  BY InRunKnows
<1>i. Given(g, D) /\ RunInv(g, D) /\ AtFirst(b, p, j)
  BY DEF InRun
<1>c. Machine!PartOf([a \in CellsAfter(b, j) |-> mem[a]], Cells)
  <2>1. Machine!Fresh(inst) = {}
    BY DEF Machine!Fresh
  <2>2. \A f : DOMAIN f \ {} = DOMAIN f
    OBVIOUS
  <2>C. PICK C : C = [a \in CellsAfter(b, j) |-> mem[a]]
    OBVIOUS
  <2>3. Machine!Without(C, {}) = C
    BY <2>C DEF Machine!Without
  <2>4. Machine!PartOf(Machine!Without(C, Machine!Fresh(inst)), Cells)
    BY <2>C, CellsAsBefore
  <2> QED
    BY <2>1, <2>3, <2>4, <2>C
<1>3. CASE Call
  <2>1. Advances /\ mem' = mem
    BY <1>1, <1>3 DEF Call, Advances, Advance, StillRuns, Compiled
  <2>2. SameBlocks /\ NumResults' = NumResults
    BY <2>1, StillSame, SameKnown DEF Advances
  <2>3. CASE inst.dst = None
    <3>1. out' = Append(out, <<"use", Arg(1)>>) /\ regs' = regs /\ next' = next
      BY <1>1, <1>3, <2>3 DEF Call
    <3>2. 1 \in DOMAIN inst.args
      BY <1>1, <2>3 DEF NumOperands
    <3>3. Machine!Arg(inst, 1, Values) = Arg(1)
      BY <1>1, <3>2
    <3>4. Memory'
      BY <2>1, <2>2, <3>1, InRunKnows DEF Memory
    <3>5. AddressesNext(D, b, j)
      BY <2>2, <2>3, <3>1, AddressesAsBefore
    <3>6. ASSUME GoesTo(b, j) PROVE Machine!Call(inst, Values, Cells)
      <4>1. Machine!PartOf(Values', Values)
        BY <3>1, <3>6, ValuesAsBefore DEF GoesTo
      <4>2. Machine!PartOf(Cells', Cells)
        BY <1>c, <2>1, <3>6 DEF GoesTo
      <4>3. Out' = Append(Out, <<"use", Machine!Arg(inst, 1, Values)>>)
        BY <1>k, <3>1, <3>3, <3>6 DEF GoesTo
      <4>4. Machine!None = None
        BY DEF Machine!None, None
      <4> QED
        BY <2>3, <3>1, <4>1, <4>2, <4>3, <4>4 DEF Machine!Call
    <3> QED
      BY <2>1, <3>4, <3>5, <3>6, Follow
  <2>4. CASE inst.dst # None
    <3>v. PICK v : v = inst.dst /\ ResultAt(v, b, j) /\ v.by = "call"
      BY <1>1, <2>4
    <3>x. PICK x : x = inputs[next + 1]
      OBVIOUS
    <3>1. /\ next < Len(inputs) /\ next' = next + 1 /\ regs' = [regs EXCEPT ![v.n] = x]
          /\ out' = Append(out, <<"read", inst.tag>>)
      BY <1>1, <1>3, <2>4, <3>v, <3>x DEF Call, SetResult
    <3>2. /\ Machine!PartOf([w \in ResultsKept |-> regs'[w.n]], Machine!With(Values, v, x))
          /\ DOMAIN regs' = 0..NumResults
      <4>R. PICK R : R = regs' /\ R = [regs EXCEPT ![v.n] = x]
        BY <3>1
      <4>1. ResultWritten(R, v, x)
        BY <3>v, <4>R, ValuesWithResult
      <4> QED
        BY <4>1, <4>R DEF ResultWritten
    <3>3. Memory'
      BY <2>1, <2>2, <3>2, InRunKnows DEF Memory
    <3>4. AddressesNext(D, b, j)
      BY <2>2, <3>1, <3>v, AddressesWithResult
    <3>5. ASSUME GoesTo(b, j) PROVE Machine!Call(inst, Values, Cells)
      <4>1. Machine!PartOf(Values', Machine!With(Values, inst.dst, inputs[next + 1]))
        BY <3>2, <3>5, <3>v, <3>x DEF GoesTo
      <4>2. Machine!PartOf(Cells', Cells)
        BY <1>c, <2>1, <3>5 DEF GoesTo
      <4>3. Out' = Append(Out, <<"read", inst.tag>>)
        BY <1>k, <3>1, <3>5 DEF GoesTo
      <4>4. Machine!None = None
        BY DEF Machine!None, None
      <4> QED
        BY <2>4, <3>1, <4>1, <4>2, <4>3, <4>4 DEF Machine!Call
    <3> QED
      BY <2>1, <3>3, <3>4, <3>5, Follow
  <2> QED
    BY <2>3, <2>4
<1>4. CASE Starve
  <2>1. /\ inst.dst # None /\ next = Len(inputs) /\ phase' = "done"
        /\ UNCHANGED <<maskVars, asm, inputs, pc, regs, mem, next, out>>
    BY <1>1, <1>4 DEF Starve, Compiled
  <2>2. Status' = "done"
    BY <2>1 DEF Status
  <2>3. Graph' = Graph /\ Machine!Nowhere' /\ Out' = Out
    BY <1>k, <2>1, <2>2 DEF Graph, maskVars, Machine!Nowhere, Place, Values, Cells, Out
  <2>4. Machine!None = None
    BY DEF Machine!None, None
  <2>5. Machine!End(inst, Values)
    BY <2>1, <2>3, <2>4 DEF Machine!End
  <2>6. Machine!OperandsKnown(inst, Values)
    BY OperandValues
  <2>7. Machine!Execute(j, inst, Values, Cells)
    BY <2>2, <2>5, <2>6 DEF Machine!Execute
  <2>8. Machine!Next
    BY <1>1, <1>i, <1>k, <2>1, <2>3, <2>7, Executes
  <2>9. RunInv(g, D)'
    <3>1. MaskInv(g, D)'
      BY <1>i, <2>1, MaskInvNext DEF RunInv, Given
    <3>2. SameBlocks
      BY <2>1 DEF SameBlocks, maskVars
    <3>3. stage' = "masked" /\ IsPrinted'
      BY <1>1, <1>i, <2>1, <3>2, SameKnown DEF RunInv, maskVars
    <3> QED
      BY <2>1, <3>1, <3>3 DEF RunInv
  <2> QED
    BY <2>8, <2>9 DEF Follows
<1> QED
  BY <1>2, <1>3, <1>4

\* The jump at the end of a block, to its target.
LEMMA FollowJump ==
    ASSUME NEW g, NEW D, NEW b, NEW p, NEW j, InRun(g, D, b, p, j), j = Len(bbs[b].code),
           NEW inst, inst = bbs[b].code[j], inst.op \in {"jump", "cond"},
           StillRuns, inputs' = inputs, UNCHANGED <<regs, mem, next, out>>,
           NEW t \in Elems(bbs[b].succ), t = Machine!Target(inst, Values), GoesTo(t, 0)
    PROVE  Follows(g, D)
<1>1. /\ Ready(g, D) /\ b \in Blocks /\ NoneDeadNeeded(b) /\ Status = "running" /\ Graph = bbs
      /\ Place = <<b, p>> /\ Out = out
      /\ Values = [v \in ResultsKept |-> regs[v.n]] /\ Cells = [a \in CellsAfter(b, p - 1) |-> mem[a]]
      /\ Memory
  BY InRunKnows DEF Memory
<1>2. Given(g, D) /\ RunInv(g, D) /\ phase = "run" /\ AtFirst(b, p, j)
  BY DEF InRun
<1>3. SameBlocks /\ NumResults' = NumResults
  BY StillSame, SameKnown
<1>4. t \in Blocks /\ NoneDeadNeeded(t)
  BY <1>1, NoneDeadNext
<1>5. AddressesNext(D, t, 0)
  BY <1>3, AddressesAtJump
<1>6. /\ Status' = "running" /\ Graph' = bbs /\ Place' = <<t, 0 + 1>> /\ Out' = out'
      /\ Values' = [v \in ResultsKept |-> regs'[v.n]] /\ Cells' = [a \in CellsAfter(t, 0) |-> mem'[a]]
  BY DEF GoesTo
<1>7. Machine!PartOf(Values', Values)
  BY <1>1, <1>6, PartIs
<1>8. CellsAfter(t, 0) \subseteq CellsAfter(b, p - 1)
  <2>1. CellsAfter(t, 0) \subseteq CellsAfter(b, j)
    BY <1>1, CellsOfNext
  <2>2. CellsAfter(b, j) \subseteq CellsAfter(b, p - 1)
    BY CellsMattered DEF IsLocalStore
  <2> QED
    BY <2>1, <2>2
<1>9. Machine!PartOf(Cells', Cells)
  BY <1>1, <1>6, <1>8, PartIs
<1>10. Machine!Jump(inst, Values, Cells)
  BY <1>1, <1>6, <1>7, <1>9 DEF Machine!Jump
<1>11. Machine!OperandsKnown(inst, Values)
  BY OperandValues
<1>12. Machine!Execute(j, inst, Values, Cells)
  BY <1>1, <1>6, <1>10, <1>11 DEF Machine!Execute
<1>13. Machine!Next
  BY <1>1, <1>2, <1>6, <1>12, Executes
<1>14. Memory'
  BY <1>1, <1>3 DEF Memory
<1>15. RunInv(g, D)'
  BY <1>2, <1>4, <1>5, <1>14, Proceeds
<1> QED
  BY <1>13, <1>15 DEF Follows

LEMMA StepJump ==
    ASSUME NEW g, NEW D, NEW b, NEW p, NEW j, InRun(g, D, b, p, j), j = Len(bbs[b].code),
           Run, LastOf(b).op = "jump"
    PROVE  Follows(g, D)
<1>i. PICK inst : inst = bbs[b].code[j] /\ inst = LastOf(b) /\ inst.op = "jump"
  BY DEF LastOf
<1>1. Ready(g, D) /\ IsPrinted /\ b \in Blocks
  BY InRunKnows
<1>2. phase = "run" /\ AtFirst(b, p, j)
  BY DEF InRun
<1>3. JumpHere(inst.to[1] + 1)
  BY <1>1, <1>2, <1>i, CodeAtFirst DEF FirstCode
<1>4. pc' = <<inst.to[1] + 1, 1>> /\ StillRuns /\ inputs' = inputs /\ UNCHANGED <<regs, mem, next, out>>
  BY <1>2, <1>3, JumpGoes
<1>t. PICK t : t = inst.to[1] /\ t \in Blocks /\ t \in Elems(bbs[b].succ)
  <2>1. DOMAIN inst.to = 1..1 /\ \A k \in DOMAIN inst.to : inst.to[k] \in Blocks /\ inst.to[k] \in Elems(bbs[b].succ)
    BY <1>1, <1>i, TargetsAreBlocks DEF NumTargets, LastOf
  <2>2. 1 \in DOMAIN inst.to
    BY <2>1
  <2> QED
    BY <2>1, <2>2
<1>5. GoesTo(t, 0)
  BY <1>1, <1>4, <1>t, StillSame, ToBlock DEF StillRuns
<1>6. t = Machine!Target(inst, Values)
  BY <1>i, <1>t DEF Machine!Target
<1> QED
  BY <1>4, <1>5, <1>6, <1>i, <1>t, FollowJump

\* The branch is taken when the condition holds.
LEMMA BranchTaken ==
    ASSUME NEW inst, BranchFor(Current, inst)
    PROVE  Taken <=> Machine!Apply(inst.tag, ValueOf(inst.args[1]), ValueOf(inst.args[2])) = 1
<1>x. PICK x, y : x = ValueOf(inst.args[1]) /\ y = ValueOf(inst.args[2])
  OBVIOUS
<1>1. \/ inst.tag = "EQ" /\ (Taken <=> x = y)
      \/ inst.tag = "NE" /\ (Taken <=> x # y)
      \/ inst.tag = "LT" /\ (Taken <=> x < y)
      \/ inst.tag = "LE" /\ (Taken <=> x <= y)
      \/ inst.tag = "GT" /\ (Taken <=> x > y)
      \/ inst.tag = "GE" /\ (Taken <=> x >= y)
  <2>1. CASE inst.tag = "EQ" /\ Current.tag = "BEQ" /\ Current.args = <<inst.args[1], inst.args[2]>>
    BY <1>x, <2>1 DEF Taken, Arg
  <2>2. CASE inst.tag = "NE" /\ Current.tag = "BNE" /\ Current.args = <<inst.args[1], inst.args[2]>>
    BY <1>x, <2>2 DEF Taken, Arg
  <2>3. CASE inst.tag = "LT" /\ Current.tag = "BLT" /\ Current.args = <<inst.args[1], inst.args[2]>>
    BY <1>x, <2>3 DEF Taken, Arg
  <2>4. CASE inst.tag = "LE" /\ Current.tag = "BGE" /\ Current.args = <<inst.args[2], inst.args[1]>>
    BY <1>x, <2>4 DEF Taken, Arg
  <2>5. CASE inst.tag = "GT" /\ Current.tag = "BLT" /\ Current.args = <<inst.args[2], inst.args[1]>>
    BY <1>x, <2>5 DEF Taken, Arg
  <2>6. CASE inst.tag = "GE" /\ Current.tag = "BGE" /\ Current.args = <<inst.args[1], inst.args[2]>>
    BY <1>x, <2>6 DEF Taken, Arg
  <2> QED
    BY <2>1, <2>2, <2>3, <2>4, <2>5, <2>6 DEF BranchFor
<1>2. Taken <=> Machine!Apply(inst.tag, x, y) = 1
  BY <1>1 DEF Machine!Apply, Machine!Truth
<1> QED
  BY <1>2, <1>x

LEMMA StepBranch ==
    ASSUME NEW g, NEW D, NEW b, NEW p, NEW j, InRun(g, D, b, p, j), j = Len(bbs[b].code),
           Run, LastOf(b).op = "cond"
    PROVE  Follows(g, D)
<1>i. PICK inst : inst = bbs[b].code[j] /\ inst = LastOf(b) /\ inst.op = "cond"
  BY DEF LastOf
<1>1. Ready(g, D) /\ IsPrinted /\ b \in Blocks /\ j \in DOMAIN bbs[b].code
  BY InRunKnows
<1>2. phase = "run" /\ AtFirst(b, p, j)
  BY DEF InRun
<1>3. pc[2] \in DOMAIN Code /\ BranchFor(Current, inst)
  BY <1>1, <1>2, <1>i, CodeAtFirst DEF FirstCode
<1>4. BranchTo
  BY <1>2, <1>3, RunAt DEF BranchFor
<1>5. StillRuns /\ inputs' = inputs /\ UNCHANGED <<regs, mem, next, out>>
  BY <1>2, <1>4 DEF BranchTo, StillRuns, Compiled
<1>6. SameBlocks /\ phase' = "run"
  BY <1>5, StillSame DEF StillRuns
<1>7. /\ inst.to[1] \in Blocks /\ inst.to[1] \in Elems(bbs[b].succ)
      /\ inst.to[2] \in Blocks /\ inst.to[2] \in Elems(bbs[b].succ)
  <2>1. DOMAIN inst.to = 1..2 /\ \A k \in DOMAIN inst.to : inst.to[k] \in Blocks /\ inst.to[k] \in Elems(bbs[b].succ)
    BY <1>1, <1>i, TargetsAreBlocks DEF NumTargets, LastOf
  <2>2. 1 \in DOMAIN inst.to /\ 2 \in DOMAIN inst.to
    BY <2>1
  <2> QED
    BY <2>1, <2>2
<1>8. Taken <=> Machine!Apply(inst.tag, Machine!Arg(inst, 1, Values), Machine!Arg(inst, 2, Values)) = 1
  <2>1. DOMAIN inst.args = 1..2
    <3>1. InstRuns(bbs, inst)
      BY <1>1, <1>i, OneInstRuns
    <3>2. NumOperands(inst) = 2
      BY <1>i DEF NumOperands
    <3> QED
      BY <3>1, <3>2 DEF InstRuns
  <2>2. 1 \in DOMAIN inst.args /\ 2 \in DOMAIN inst.args
    BY <2>1
  <2>3. \A v \in Elems(inst.args) : Machine!ValueOf(v, Values) = ValueOf(v)
    BY <1>i, OperandValues
  <2>4. Machine!Arg(inst, 1, Values) = ValueOf(inst.args[1]) /\ Machine!Arg(inst, 2, Values) = ValueOf(inst.args[2])
    BY <2>2, <2>3 DEF Elems, Machine!Arg
  <2> QED
    BY <1>3, <2>4, BranchTaken
<1>9. CASE Taken
  <2>1. pc' = <<inst.to[1] + 1, 1>>
    BY <1>3, <1>4, <1>9 DEF BranchTo, BranchFor, AsmOf
  <2>2. GoesTo(inst.to[1], 0)
    BY <1>1, <1>6, <1>7, <2>1, ToBlock
  <2>3. inst.to[1] = Machine!Target(inst, Values)
    BY <1>8, <1>9 DEF Machine!Target
  <2> QED
    BY <1>5, <1>7, <1>i, <2>2, <2>3, FollowJump
<1>10. CASE ~Taken
  <2>1. pc' = <<pc[1], pc[2] + 1>>
    BY <1>4, <1>10 DEF BranchTo, Advance
  <2>2. GoesTo(inst.to[2], 0)
    BY <1>1, <1>2, <1>6, <1>i, <2>1, ToSecond
  <2>3. inst.to[2] = Machine!Target(inst, Values)
    BY <1>8, <1>10, <1>i DEF Machine!Target
  <2> QED
    BY <1>5, <1>7, <1>i, <2>2, <2>3, FollowJump
<1> QED
  BY <1>9, <1>10

\* The value to return goes to a0.
LEMMA StepReturn ==
    ASSUME NEW g, NEW D, NEW b, NEW p, NEW j, InRun(g, D, b, p, j), j = Len(bbs[b].code),
           Run, LastOf(b).op = "ret"
    PROVE  Follows(g, D)
<1>i. PICK inst : inst = bbs[b].code[j] /\ inst = LastOf(b) /\ inst.op = "ret"
  BY DEF LastOf
<1>1. /\ Ready(g, D) /\ IsPrinted /\ b \in Blocks /\ j \in DOMAIN bbs[b].code /\ Status = "running"
      /\ Graph = bbs /\ Place = <<b, p>> /\ Out = out /\ Memory
  BY InRunKnows DEF Memory
<1>2. phase = "run" /\ AtFirst(b, p, j) /\ Given(g, D) /\ RunInv(g, D)
  BY DEF InRun
<1>3. pc[2] \in DOMAIN Code /\ Current.op = "mv_a0" /\ Current.args = inst.args
  BY <1>1, <1>2, <1>i, CodeAtFirst DEF FirstCode
<1>4. Compute
  BY <1>2, <1>3, RunAt
<1>5. StillRuns /\ inputs' = inputs /\ UNCHANGED <<mem, next, out>> /\ pc' = <<pc[1], pc[2] + 1>>
  BY <1>2, <1>4 DEF Compute, StillRuns, Compiled, Advance
<1>6. regs' = [regs EXCEPT ![0] = Arg(1)]
  BY <1>3, <1>4 DEF Compute, AtInst
<1>7. SameBlocks /\ phase' = "run" /\ NumResults' = NumResults
  BY <1>5, StillSame, SameKnown DEF StillRuns
<1>8. Leaves
  BY <1>1, <1>2, <1>5, <1>7, <1>i, ToSecond
<1>9. NumResults \in Nat
  BY <1>1, ReadyGraph, ResultsFinite DEF NumResults
<1>10. DOMAIN regs' = 0..NumResults /\ regs'[0] = Arg(1)
  BY <1>1, <1>6, <1>9 DEF Memory
<1>11. Arg(1) = Machine!Arg(inst, 1, Values)
  <2>1. DOMAIN inst.args = 1..1
    <3>1. InstRuns(bbs, inst)
      BY <1>1, <1>i, OneInstRuns
    <3>2. NumOperands(inst) = 1
      BY <1>i DEF NumOperands
    <3> QED
      BY <3>1, <3>2 DEF InstRuns
  <2>2. 1 \in DOMAIN inst.args
    BY <2>1
  <2>3. \A v \in Elems(inst.args) : Machine!ValueOf(v, Values) = ValueOf(v)
    BY <1>i, OperandValues
  <2> QED
    BY <1>3, <2>2, <2>3 DEF Elems, Machine!Arg, Arg
<1>12. Machine!End(inst, Values)
  BY <1>1, <1>5, <1>8, <1>10, <1>11, <1>i DEF Machine!End, Leaves
<1>13. Machine!OperandsKnown(inst, Values)
  BY <1>i, OperandValues
<1>14. Machine!Execute(j, inst, Values, Cells)
  BY <1>8, <1>12, <1>13 DEF Machine!Execute, Leaves
<1>15. Graph' = Graph
  BY <1>1, <1>8 DEF Leaves
<1>16. Machine!Next
  BY <1>1, <1>2, <1>5, <1>14, <1>15, <1>i, Executes
<1>17. Memory'
  BY <1>1, <1>5, <1>7, <1>10 DEF Memory
<1>18. RunInv(g, D)'
  BY <1>2, <1>5, <1>8, <1>17, LeftInv
<1> QED
  BY <1>16, <1>18 DEF Follows

\* Behind a branch: the jump, or the fall into the next block, shows nothing new.
LEMMA StepSecond ==
    ASSUME NEW g, NEW D, Given(g, D), RunInv(g, D), phase = "run", Run, NEW b, AtSecond(b)
    PROVE  Follows(g, D)
<1>1. Ready(g, D) /\ IsPrinted
  BY RunReady
<1>2. /\ b \in Blocks /\ pc[1] = b + 1 /\ Here = b /\ InBlock /\ Between /\ LastInst = LastOf(b)
      /\ LastOf(b).op \in {"cond", "ret"}
  BY DEF AtSecond
<1>3. Blocks = 1..Len(bbs) /\ Len(bbs) \in Nat
  BY <1>1, ReadyGraph
<1>4. Memory
  BY DEF RunInv, Memory
<1>5. CASE LastOf(b).op = "cond"
  <2>i. PICK inst : inst = LastOf(b) /\ inst = bbs[b].code[Len(bbs[b].code)] /\ inst.op = "cond"
    BY <1>5 DEF LastOf
  <2>t. PICK t : t = inst.to[2] /\ t \in Blocks
    <3>1. NumTargets(inst) = 2
      BY <2>i DEF NumTargets
    <3>2. DOMAIN inst.to = 1..2 /\ \A k \in DOMAIN inst.to : inst.to[k] \in Blocks
      BY <1>1, <1>2, <2>i, <3>1, TargetsAreBlocks
    <3>3. 2 \in DOMAIN inst.to
      BY <3>2
    <3> QED
      BY <3>2, <3>3
  <2>1. ~Leaving
    BY <1>2, <1>3, <1>5 DEF Leaving
  <2>2. Status = "running"
    BY <2>1 DEF Status
  <2>3. Graph = bbs /\ Out = out /\ Place = <<t, 1>>
    BY <1>2, <2>1, <2>2, <2>i, <2>t DEF Graph, Out, Place
  <2>4. Place[1] = t /\ Place[2] - 1 = 0
    BY <2>3
  <2>5. Values = [v \in ResultsKept |-> regs[v.n]] /\ Cells = [a \in CellsAfter(t, 0) |-> mem[a]]
    BY <2>2, <2>4 DEF Values, Cells
  <2>6. NoneDeadNeeded(t) /\ AddressesRight(D, t, 0)
    BY <2>2, <2>4 DEF RunInv
  <2>7. JumpHere(t + 1)
    BY <1>1, <1>5, <2>i, <2>t, CodeAtSecond
  <2>8. pc' = <<t + 1, 1>> /\ StillRuns /\ inputs' = inputs /\ UNCHANGED <<regs, mem, next, out>>
    BY <2>7, JumpGoes
  <2>9. SameBlocks /\ phase' = "run" /\ ElementCells' = ElementCells /\ NumResults' = NumResults
    BY <2>8, StillSame, SameKnown DEF StillRuns
  <2>10. GoesTo(t, 0)
    BY <1>1, <2>8, <2>9, <2>t, ToBlock
  <2>11. AddressesNext(D, t, 0)
    BY <2>6, <2>8, <2>9 DEF AddressesNext, AddressesRight, RightAddress
  <2>12. Memory'
    BY <1>4, <2>8, <2>9 DEF Memory
  <2>13. RunInv(g, D)'
    BY <2>6, <2>8, <2>10, <2>11, <2>12, <2>t, Proceeds
  <2>14. UNCHANGED Machine!vars
    <3>1. Place' = Place
      BY <2>3, <2>10 DEF GoesTo
    <3> QED
      BY <2>2, <2>3, <2>5, <2>8, <2>10, <3>1 DEF GoesTo, Machine!vars
  <2> QED
    BY <2>13, <2>14 DEF Follows
<1>6. CASE LastOf(b).op = "ret"
  <2>1. Leaving
    BY <1>2, <1>6 DEF Leaving
  <2>2. Status = "done"
    BY <2>1 DEF Status
  <2>3. /\ Graph = bbs /\ Place = <<>> /\ Values = <<>> /\ Cells = <<>>
        /\ Out = Append(out, <<"return", regs[0]>>)
    BY <2>1, <2>2 DEF Graph, Place, Values, Cells, Out
  <2>4. JumpHere(Len(bbs) + 2)
    BY <1>1, <1>6, CodeAtSecond
  <2>5. pc' = <<Len(bbs) + 2, 1>> /\ StillRuns /\ inputs' = inputs /\ UNCHANGED <<regs, mem, next, out>>
    BY <2>4, JumpGoes
  <2>6. SameBlocks /\ phase' = "run" /\ NumResults' = NumResults
    BY <2>5, StillSame, SameKnown DEF StillRuns
  <2>7. Leaves
    BY <1>1, <2>5, <2>6, ToReturn
  <2>8. Memory'
    BY <1>4, <2>5, <2>6 DEF Memory
  <2>9. RunInv(g, D)'
    BY <2>5, <2>7, <2>8, LeftInv
  <2>10. UNCHANGED Machine!vars
    BY <2>2, <2>3, <2>5, <2>7 DEF Leaves, Machine!Nowhere, Machine!vars
  <2> QED
    BY <2>9, <2>10 DEF Follows
<1> QED
  BY <1>2, <1>5, <1>6

\* The prologue, and the way from it into the first block.
LEMMA StepPrologue ==
    ASSUME NEW g, NEW D, Given(g, D), RunInv(g, D), phase = "run", Run, AtPrologue
    PROVE  Follows(g, D)
<1>1. Ready(g, D) /\ IsPrinted
  BY RunReady
<1>2. Blocks = 1..Len(bbs) /\ Len(bbs) \in Nat /\ 1 \in Blocks
  BY <1>1, ReadyGraph
<1>3. Here = 0 /\ ~InBlock /\ ~Between /\ ~Leaving
  <2>1. Here = 0
    BY DEF AtPrologue, Here
  <2> QED
    BY <1>2, <2>1 DEF InBlock, Between, Leaving
<1>4. Status = "running"
  BY <1>3 DEF Status
<1>5. Graph = bbs /\ Out = out /\ Place = <<1, 1>>
  BY <1>3, <1>4 DEF Graph, Out, Place
<1>6. Place[1] = 1 /\ Place[2] - 1 = 0
  BY <1>5
<1>7. Values = [v \in ResultsKept |-> regs[v.n]] /\ Cells = [a \in CellsAfter(1, 0) |-> mem[a]]
  BY <1>4, <1>6 DEF Values, Cells
<1>8. NoneDeadNeeded(1) /\ AddressesRight(D, 1, 0)
  BY <1>4, <1>6 DEF RunInv
<1>9. /\ pc[2] = 1 => pc[2] \in DOMAIN Code /\ Current.op = "prologue"
      /\ pc[2] = 2 => pc[2] \notin DOMAIN Code
  BY <1>1, CodeAtPrologue
<1>10. /\ StillRuns /\ inputs' = inputs /\ UNCHANGED <<regs, mem, next, out>>
       /\ pc' = <<1, 2>> \/ pc' = <<1 + 1, 1>>
  <2>1. CASE pc[2] = 1
    <3>1. Compute
      BY <1>9, <2>1, RunAt
    <3> QED
      BY <1>9, <2>1, <3>1 DEF Compute, AtInst, Advance, StillRuns, Compiled, AtPrologue
  <2>2. CASE pc[2] = 2
    BY <1>9, <2>2, RunPast DEF FallThrough, StillRuns, Compiled, AtPrologue
  <2> QED
    BY <2>1, <2>2 DEF AtPrologue
<1>11. SameBlocks /\ phase' = "run" /\ ElementCells' = ElementCells /\ NumResults' = NumResults
       /\ Blocks' = Blocks /\ bbs' = bbs
  BY <1>10, StillSame, SameKnown DEF StillRuns, SameBlocks
<1>12. GoesTo(1, 0)
  <2>1. CASE pc' = <<1, 2>>
    <3>1. Here' = 0
      BY <2>1 DEF Here
    <3>2. ~InBlock' /\ ~Leaving'
      BY <1>2, <1>11, <3>1 DEF InBlock, Between, Leaving
    <3>3. Place' = <<1, 0 + 1>>
      BY <1>11, <3>2 DEF Place, Status
    <3>4. Located'
      BY <2>1 DEF Located, AtPrologue
    <3> QED
      BY <1>11, <3>2, <3>3, <3>4, GoesOn
  <2>2. CASE pc' = <<1 + 1, 1>>
    BY <1>1, <1>2, <1>11, <2>2, ToBlock
  <2> QED
    BY <1>10, <2>1, <2>2
<1>13. AddressesNext(D, 1, 0)
  BY <1>8, <1>10, <1>11 DEF AddressesNext, AddressesRight, RightAddress
<1>14. Memory'
  BY <1>10, <1>11 DEF RunInv, Memory
<1>15. RunInv(g, D)'
  BY <1>2, <1>8, <1>10, <1>12, <1>13, <1>14, Proceeds
<1>16. UNCHANGED Machine!vars
  <2>1. Place' = Place
    BY <1>5, <1>12 DEF GoesTo
  <2> QED
    BY <1>4, <1>5, <1>7, <1>10, <1>12, <2>1 DEF GoesTo, Machine!vars
<1> QED
  BY <1>15, <1>16 DEF Follows

\* The return, and the caller that takes the value.
LEMMA StepLeave ==
    ASSUME NEW g, NEW D, Given(g, D), RunInv(g, D), Run, (phase = "run" /\ AtReturn) \/ phase = "returned"
    PROVE  Follows(g, D)
<1>1. Ready(g, D) /\ IsPrinted /\ stage = "masked"
  BY RunReady DEF RunInv
<1>2. Status = "done"
  <2>1. CASE phase = "run" /\ AtReturn
    <3>1. Len(bbs) \in Nat
      BY <1>1, ReadyGraph
    <3>2. Here = Len(bbs) + 1
      BY <2>1, <3>1 DEF Here, AtReturn
    <3> QED
      BY <3>2, <2>1 DEF Leaving, Status
  <2>2. CASE phase = "returned"
    BY <2>2 DEF Status
  <2> QED
    BY <2>1, <2>2
<1>3. /\ UNCHANGED <<maskVars, asm, inputs, next>> /\ phase' \in {"returned", "done"} /\ Out' = Out
  <2>1. CASE phase = "run" /\ AtReturn
    <3>1. pc[2] \in DOMAIN Code /\ Current.op = "ret"
      BY <1>1, <2>1, CodeAtReturn
    <3>2. Ret
      BY <2>1, <3>1, RunAt
    <3>3. Leaving
      BY <1>2, <2>1 DEF Status
    <3>4. Out = Append(out, <<"return", regs[0]>>)
      BY <2>1, <3>3 DEF Out
    <3>5. phase' = "returned" /\ out' = Append(out, <<"return", regs[0]>>)
      BY <3>2 DEF Ret
    <3>6. Out' = out'
      BY <3>5 DEF Out
    <3> QED
      BY <3>2, <3>4, <3>5, <3>6 DEF Ret, Compiled
  <2>2. CASE phase = "returned"
    <3>1. Exit
      BY <2>2 DEF Run, FallThrough, Compute, StoreWord, JumpTo, BranchTo, Call, Starve, Ret, AtInst
    <3>2. phase' = "done" /\ UNCHANGED <<Compiled, machine>>
      BY <3>1 DEF Exit
    <3> QED
      BY <2>2, <3>2 DEF Compiled, machine, Out
  <2> QED
    BY <2>1, <2>2
<1>4. Status' = "done"
  BY <1>3 DEF Status
<1>5. Graph' = Graph /\ Place' = Place /\ Values' = Values /\ Cells' = Cells
  BY <1>2, <1>3, <1>4 DEF Graph, Place, Values, Cells, maskVars
<1>6. UNCHANGED Machine!vars
  BY <1>2, <1>3, <1>4, <1>5 DEF Machine!vars
<1>7. MaskInv(g, D)'
  BY <1>3, MaskInvNext DEF RunInv, Given
<1>8. SameBlocks
  BY <1>3 DEF SameBlocks, maskVars
<1>9. stage' = "masked" /\ IsPrinted'
  BY <1>1, <1>3, <1>8, SameKnown DEF maskVars
<1>10. RunInv(g, D)'
  BY <1>3, <1>7, <1>9 DEF RunInv
<1> QED
  BY <1>6, <1>10 DEF Follows

\* Every step of the run is one of these.
LEMMA StepRun ==
    ASSUME NEW g, NEW D, Given(g, D), RunInv(g, D), IndicesInBounds, Run
    PROVE  Follows(g, D)
<1>1. phase \in {"run", "returned"}
  BY DEF Run, FallThrough, Compute, StoreWord, JumpTo, BranchTo, Call, Starve, Ret, Exit, AtInst
<1>2. CASE phase = "returned"
  BY <1>2, StepLeave
<1>3. CASE phase = "run"
  <2>1. Ready(g, D) /\ IsPrinted /\ Located
    BY <1>3, RunReady DEF RunInv
  <2>2. CASE AtPrologue
    BY <1>3, <2>2, StepPrologue
  <2>3. CASE AtReturn
    BY <1>3, <2>3, StepLeave
  <2>4. ASSUME NEW b \in Blocks, pc[1] = b + 1, pc[2] \in 1..Len(Text(b)) PROVE Follows(g, D)
    <3>1. (\E p, j : AtFirst(b, p, j)) \/ AtSecond(b)
      BY <2>1, <2>4, WhereInBlock
    <3>2. CASE AtSecond(b)
      BY <1>3, <3>2, StepSecond
    <3>3. ASSUME NEW p, NEW j, AtFirst(b, p, j) PROVE Follows(g, D)
      <4>1. InRun(g, D, b, p, j)
        BY <1>3, <3>3 DEF InRun
      <4>2. CASE j = Len(bbs[b].code)
        <5>1. LastOf(b).op \in {"jump", "cond", "ret"}
          BY <2>1, <2>4, LastIs
        <5> QED
          BY <4>1, <4>2, <5>1, StepJump, StepBranch, StepReturn
      <4>3. CASE j # Len(bbs[b].code)
        <5>i. PICK inst : inst = bbs[b].code[j]
          OBVIOUS
        <5>1. inst.op \in {"alloc", "load", "store", "gep", "binary", "call"}
          BY <4>1, <4>3, <5>i, AtOrdinary
        <5> QED
          BY <4>1, <4>3, <5>1, <5>i, StepCompute, StepStore, StepCall
      <4> QED
        BY <4>2, <4>3
    <3> QED
      BY <3>1, <3>2, <3>3
  <2> QED
    BY <2>1, <2>2, <2>3, <2>4 DEF Located
<1> QED
  BY <1>1, <1>2, <1>3

\* The function that has just been built.
LEMMA RunInvInit ==
    ASSUME NEW g, NEW D, Given(g, D), CodeInit(g)
    PROVE  RunInv(g, D) /\ Machine!Init
<1>1. MaskInit(g) /\ phase = "mask" /\ NothingRun
  BY DEF CodeInit
<1>2. MaskInv(g, D)
  BY <1>1, InitSolve, DefInvInit, StoreInvInit DEF MaskInv, Given, Closed
<1>3. RunInv(g, D)
  BY <1>1, <1>2 DEF RunInv
<1>4. Status = "idle"
  BY <1>1 DEF Status
<1>5. Machine!Init
  BY <1>1, <1>4 DEF Machine!Init, Machine!Nowhere, NothingRun, Graph, Place, Values, Cells, Out
<1> QED
  BY <1>3, <1>5

LEMMA StepMask ==
    ASSUME NEW g, NEW D, Given(g, D), RunInv(g, D), Mask
    PROVE  Follows(g, D)
<1>1. phase = "mask" /\ MaskNext /\ UNCHANGED <<phase, asm, machine>>
  BY DEF Mask
<1>2. MaskInv(g, D)'
  BY <1>1, MaskInvNext DEF RunInv, Given
<1>3. NothingRun'
  BY <1>1 DEF RunInv, NothingRun, machine
<1>4. RunInv(g, D)'
  BY <1>1, <1>2, <1>3 DEF RunInv
<1>5. Status = "idle" /\ Status' = "idle"
  BY <1>1 DEF Status
<1>6. UNCHANGED Machine!vars
  BY <1>1, <1>5 DEF Machine!vars, Graph, Place, Values, Cells, Out, machine
<1> QED
  BY <1>4, <1>6 DEF Follows

\* The code is printed, and the run begins before the first block.
LEMMA StepEmit ==
    ASSUME NEW g, NEW D, Given(g, D), RunInv(g, D), Emit
    PROVE  Follows(g, D)
<1>1. /\ phase = "mask" /\ stage = "masked" /\ phase' = "run" /\ UNCHANGED <<maskVars, pc, next, out>>
      /\ asm' = Cleanup(EmitFunction(bbs, dead))
      /\ regs' = [r \in 0..NumResults |-> Undefined]
      /\ mem' = [c \in 0..(2 * NumResults + 1) |-> IF c \in {0, 1} THEN 0 ELSE Undefined]
  BY DEF Emit
<1>2. Ready(g, D)
  BY <1>1 DEF RunInv, Given, Ready, Returned
<1>3. Blocks = 1..Len(bbs) /\ Len(bbs) \in Nat /\ bbs' = bbs /\ Blocks' = Blocks
  BY <1>1, <1>2, ReadyGraph DEF maskVars, Blocks
<1>4. pc' = <<1, 1>>
  BY <1>1 DEF RunInv, NothingRun
<1>5. Here' = 0 /\ ~InBlock' /\ ~Leaving'
  <2>1. Here' = 0
    BY <1>4 DEF Here
  <2> QED
    BY <1>3, <2>1 DEF InBlock, Between, Leaving
<1>6. Status = "idle" /\ Status' = "running"
  BY <1>1, <1>5 DEF Status
<1>7. Place' = <<1, 1>> /\ Out' = Out
  BY <1>1, <1>5, <1>6 DEF Place, Out
<1>8. {0, 1} \subseteq DOMAIN Cells' /\ Cells'[0] = 0 /\ Cells'[1] = 0
  <2>1. Cells' = [a \in CellsAfter(Place[1], Place[2] - 1)' |-> mem'[a]]
    BY <1>6 DEF Cells
  <2>2. {0, 1} \subseteq CellsAfter(Place[1], Place[2] - 1)'
    BY DEF CellsAfter
  <2>3. NumResults \in Nat
    BY <1>2, ReadyGraph, ResultsFinite DEF NumResults
  <2>4. mem'[0] = 0 /\ mem'[1] = 0
    BY <1>1, <2>3
  <2> QED
    BY <2>1, <2>2, <2>4
<1>9. Machine!Next
  BY <1>1, <1>6, <1>7, <1>8 DEF Machine!Next, Machine!Start
<1>10. MaskInv(g, D)'
  BY <1>1, MaskInvNext DEF RunInv, Given
<1>11. stage' = "masked" /\ IsPrinted' /\ Located'
  BY <1>1, <1>4 DEF maskVars, IsPrinted, Located, AtPrologue
<1>12. DOMAIN regs' = 0..NumResults' /\ DOMAIN mem' = 0..(2 * NumResults' + 1)
  BY <1>1, <1>3 DEF NumResults
<1>13. Place'[1] = 1 /\ Place'[2] - 1 = 0 /\ 1 \in Blocks'
  BY <1>2, <1>3, <1>7, ReadyGraph
<1>14. NoneDeadNeeded(Place[1])'
  <2>1. NoneDeadNeeded(1)
    BY <1>2, NoneDeadFirst
  <2>2. NoneDeadNeeded(1)'
    BY <1>1, <2>1 DEF NoneDeadNeeded, DeadResult, Blocks, maskVars
  <2> QED
    BY <1>13, <2>2 DEF NoneDeadNeeded
<1>15. AddressesRight(D, Place[1], Place[2] - 1)'
  <2>1. D[1] = {}
    BY DEF Given, DefinedFirst
  <2>2. D[1] \cup ResultsUpTo(bbs', 1, 0) = {}
    BY <2>1 DEF ResultsUpTo
  <2>3. AddressesRight(D, 1, 0)'
    BY <2>2 DEF AddressesRight, ResultsUpTo
  <2> QED
    BY <1>13, <2>3 DEF AddressesRight, ResultsUpTo
<1>16. RunInv(g, D)'
  BY <1>1, <1>10, <1>11, <1>12, <1>13, <1>14, <1>15 DEF RunInv
<1> QED
  BY <1>9, <1>16 DEF Follows

LEMMA StepNone ==
    ASSUME NEW g, NEW D, Given(g, D), RunInv(g, D), UNCHANGED codeVars
    PROVE  Follows(g, D)
<1>1. /\ UNCHANGED maskVars /\ phase' = phase /\ asm' = asm
      /\ UNCHANGED <<inputs, pc, regs, mem, next, out>>
  BY DEF codeVars, machine
<1>2. SameBlocks
  BY <1>1 DEF SameBlocks, maskVars
<1>3. Leaving' = Leaving /\ InBlock' = InBlock /\ Between' = Between /\ Here' = Here /\ LastInst' = LastInst
  BY <1>1, <1>2 DEF SameBlocks, Leaving, Between, InBlock, Here, LastInst, Blocks, Code
<1>4. Status' = Status
  BY <1>1, <1>3 DEF Status
<1>5. Place' = Place
  BY <1>1, <1>2, <1>3, <1>4 DEF Place, AfterKept, Kept, SameBlocks
<1>6. Values' = Values /\ Out' = Out /\ Graph' = Graph
  BY <1>1, <1>2, <1>3, <1>4, SameKnown DEF Values, Out, Graph, SameBlocks
<1>7. Cells' = Cells
  <2>p. PICK b, i : b = Place[1] /\ i = Place[2] - 1
    OBVIOUS
  <2>1. CellsAfter(Place[1], Place[2] - 1)' = CellsAfter(b, i)'
    BY <1>5, <2>p DEF CellsAfter
  <2>2. CellsAfter(b, i)' = CellsAfter(Place[1], Place[2] - 1)
    BY <1>2, <2>p, SameNeeded
  <2> QED
    BY <1>1, <1>4, <2>1, <2>2 DEF Cells
<1>8. UNCHANGED Machine!vars
  BY <1>1, <1>4, <1>5, <1>6, <1>7 DEF Machine!vars
<1>9. MaskInv(g, D)'
  BY <1>1, MaskInvNext DEF RunInv, Given
<1>10. phase' = "mask" => NothingRun'
  BY <1>1 DEF RunInv, NothingRun
<1>11. phase' # "mask" => stage' = "masked" /\ IsPrinted'
  BY <1>1, <1>2, SameKnown DEF RunInv, maskVars
<1>12. phase' = "run" => Located' /\ DOMAIN regs' = 0..NumResults' /\ DOMAIN mem' = 0..(2 * NumResults' + 1)
  BY <1>1, <1>2, SameKnown DEF RunInv, Located, AtPrologue, AtReturn, SameBlocks
<1>13. ASSUME phase' = "run", Status' = "running"
       PROVE  /\ Place'[1] \in Blocks' /\ NoneDeadNeeded(Place[1])'
              /\ AddressesRight(D, Place[1], Place[2] - 1)'
  <2>p. PICK b, i : b = Place[1] /\ i = Place[2] - 1 /\ b = Place'[1] /\ i = Place'[2] - 1
    BY <1>5
  <2>1. b \in Blocks /\ NoneDeadNeeded(b) /\ AddressesRight(D, b, i)
    BY <1>1, <1>4, <1>13, <2>p DEF RunInv
  <2>2. b \in Blocks' /\ NoneDeadNeeded(b)'
    BY <1>2, <2>1, SameKnown
  <2>3. AddressesRight(D, b, i)'
    BY <1>1, <1>2, <2>1, SameKnown DEF AddressesRight, RightAddress, ResultsUpTo, SameBlocks
  <2> QED
    BY <2>2, <2>3, <2>p DEF NoneDeadNeeded, AddressesRight, ResultsUpTo
<1>14. RunInv(g, D)'
  BY <1>1, <1>9, <1>10, <1>11, <1>12, <1>13 DEF RunInv
<1> QED
  BY <1>8, <1>14 DEF Follows

LEMMA RunInvNext ==
    ASSUME NEW g, NEW D, Given(g, D), RunInv(g, D), IndicesInBounds, [CodeNext]_codeVars
    PROVE  RunInv(g, D)' /\ [Machine!Next]_(Machine!vars)
<1>1. Follows(g, D)
  BY StepMask, StepEmit, StepRun, StepNone DEF CodeNext
<1> QED
  BY <1>1 DEF Follows

\* The compiled function does what its basic blocks do: without the dead
\* instructions it makes the same calls in the same order, with the same
\* values, and returns the same value, on any inputs and for every graph of
\* the kind IRBuilder makes, as long as no element outside its array is
\* addressed (maskDeadInst, emitCondJumpInst, emitFunction).
THEOREM CodeRunsItsBlocks ==
    ASSUME NEW g, NEW D, Closed(g), Runnable(g), DefinedFirst(g, D)
    PROVE  CodeSpec(g) /\ []IndicesInBounds => RunsTheBlocks
<1>g. Given(g, D)
  BY DEF Given
<1>1. CodeInit(g) => RunInv(g, D) /\ Machine!Init
  BY <1>g, RunInvInit
<1>2. RunInv(g, D) /\ IndicesInBounds /\ [CodeNext]_codeVars => RunInv(g, D)' /\ [Machine!Next]_(Machine!vars)
  BY <1>g, RunInvNext
<1> QED
  BY <1>1, <1>2, PTL DEF CodeSpec, RunsTheBlocks, Machine!Spec

=============================================================================
