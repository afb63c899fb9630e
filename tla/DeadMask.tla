------------------------------ MODULE DeadMask ------------------------------
(***************************************************************************)
(* IRBuilder::maskDeadInst: which instructions of a function have no       *)
(* effect.  Rounds go over the blocks in order, each block backwards from  *)
(* the values its successors need at their start, and mark the             *)
(* instructions whose result nobody needs; a round that changes no block   *)
(* is the last.  An allocation is needed if a store to it is, which the    *)
(* end of a round sees.                                                    *)
(***************************************************************************)
EXTENDS IR, FiniteSets

VARIABLES bbs,        \* the blocks of the function
          alives,     \* _alives of each block: what is needed at its start
          dead,       \* isDead: for each block the indices of its instructions
          allocVar,   \* the allocations that a live store of this round writes
          at,         \* the block the round has come to
          pos,        \* the instruction in it: those after it are done
          need,       \* the local set alives: what is needed after that instruction
          stage,      \* "block" between blocks, "inst" in one, "masked" at the end
          update      \* has the round changed a block

maskVars == <<bbs, alives, dead, allocVar, at, pos, need, stage, update>>

Blocks == DOMAIN bbs

Elems(seq) == {seq[j] : j \in DOMAIN seq}

\* A store to a local variable: neither to a global nor through an address.
IsLocalStore(inst) ==
    inst.op = "store" /\ inst.args[2].kind # "global" /\ inst.args[2].by # "gep"

\* Is the instruction needed, when the values in after are?
IsLive(inst, after) ==
    IF inst.op = "store" THEN IsLocalStore(inst) => inst.args[2] \in after
    ELSE inst.op \in {"call", "ret", "jump", "cond"} \/ inst.dst \in after

\* The values a live instruction needs.
Uses(inst) ==
    CASE inst.op = "load"  -> {a \in Elems(inst.args) : a.kind # "global"}
      [] inst.op = "store" ->
            IF inst.args[2].by = "gep" THEN Elems(inst.args) ELSE {inst.args[1]}
      [] OTHER -> Elems(inst.args)

\* What is needed before the instruction.
Before(inst, after) ==
    IF ~IsLive(inst, after) THEN after \ {inst.dst}
    ELSE ((after \cup Uses(inst)) \ (IF IsLocalStore(inst) THEN {inst.args[2]} ELSE {}))
            \ {inst.dst}

\* What the successors of a block need at their start.
NeededAfter(b) == UNION {alives[s] : s \in Elems(bbs[b].succ)}

\* The graphs a round makes sense of: code is a sequence, and jumps stay in
\* the function.
GraphOK(g) ==
    /\ DOMAIN g = 1..Len(g) /\ Len(g) \in Nat
    /\ \A b \in DOMAIN g : /\ Len(g[b].code) \in Nat
                           /\ DOMAIN g[b].code = 1..Len(g[b].code)
                           /\ Elems(g[b].succ) \subseteq DOMAIN g

-----------------------------------------------------------------------------
MaskInit(g) ==
    /\ bbs = g
    /\ alives = [b \in DOMAIN g |-> {}]
    /\ dead = [b \in DOMAIN g |-> {}]
    /\ allocVar = {}
    /\ at = 1
    /\ pos = 0
    /\ need = {}
    /\ stage = "block"
    /\ update = FALSE

\* Begin a block at its end.
EnterBlock ==
    /\ stage = "block"
    /\ at \in Blocks
    /\ need' = NeededAfter(at)
    /\ pos' = Len(bbs[at].code)
    /\ stage' = "inst"
    /\ UNCHANGED <<bbs, alives, dead, allocVar, at, update>>

\* Mutant: the index of the instruction is off by one.
MaskInstBefore ==
    /\ stage = "inst"
    /\ pos > 0
    /\ LET inst == bbs[at].code[pos]
       IN /\ dead' = [dead EXCEPT ![at] =
                         IF IsLive(inst, need) THEN @ \ {pos - 1} ELSE @ \cup {pos - 1}]
          /\ need' = Before(inst, need)
          /\ allocVar' = IF IsLocalStore(inst) /\ IsLive(inst, need)
                         THEN allocVar \cup {inst.args[2]} ELSE allocVar
    /\ pos' = pos - 1
    /\ UNCHANGED <<bbs, alives, at, stage, update>>

\* One instruction, from the last to the first.
MaskInst ==
    /\ stage = "inst"
    /\ pos > 0
    /\ LET inst == bbs[at].code[pos]
       IN /\ dead' = [dead EXCEPT ![at] = IF IsLive(inst, need) THEN @ \ {pos} ELSE @ \cup {pos}]
          /\ need' = Before(inst, need)
          /\ allocVar' = IF IsLocalStore(inst) /\ IsLive(inst, need)
                         THEN allocVar \cup {inst.args[2]} ELSE allocVar
    /\ pos' = pos - 1
    /\ UNCHANGED <<bbs, alives, at, stage, update>>

\* Before the first instruction: what is needed here is kept.
LeaveBlock ==
    /\ stage = "inst"
    /\ pos = 0
    /\ alives' = [alives EXCEPT ![at] = need]
    /\ update' = (update \/ alives[at] # need)
    /\ at' = at + 1
    /\ stage' = "block"
    /\ UNCHANGED <<bbs, dead, allocVar, pos, need>>

\* Mutant: allocations that are stored to stay dead.
EndRoundUnrestored ==
    /\ stage = "block"
    /\ at \notin Blocks
    /\ stage' = IF update THEN "block" ELSE "masked"
    /\ at' = 1
    /\ update' = FALSE
    /\ allocVar' = {}
    /\ UNCHANGED <<bbs, alives, dead, pos, need>>

\* Mutant: every round begins with nothing needed.
EndRoundAfresh ==
    /\ stage = "block"
    /\ at \notin Blocks
    /\ stage' = IF update THEN "block" ELSE "masked"
    /\ alives' = [b \in Blocks |-> {}]
    /\ at' = 1
    /\ update' = FALSE
    /\ allocVar' = {}
    /\ UNCHANGED <<bbs, dead, pos, need>>

\* Mutant: update is not reset.
EndRoundNoReset ==
    /\ stage = "block"
    /\ at \notin Blocks
    /\ dead' = [dead EXCEPT ![1] = {i \in @ : ~(/\ bbs[1].code[i].op = "alloc"
                                                /\ bbs[1].code[i].dst \in allocVar)}]
    /\ stage' = IF update THEN "block" ELSE "masked"
    /\ at' = 1
    /\ allocVar' = {}
    /\ UNCHANGED <<bbs, alives, pos, need, update>>

\* The end of a round: allocations stored to are not dead; again if
\* something changed.
EndRound ==
    /\ stage = "block"
    /\ at \notin Blocks
    /\ dead' = [dead EXCEPT ![1] = {i \in @ : ~(/\ bbs[1].code[i].op = "alloc"
                                                /\ bbs[1].code[i].dst \in allocVar)}]
    /\ stage' = IF update THEN "block" ELSE "masked"
    /\ at' = 1
    /\ update' = FALSE
    /\ allocVar' = {}
    /\ UNCHANGED <<bbs, alives, pos, need>>

MaskNext == EnterBlock \/ MaskInst \/ LeaveBlock \/ EndRound

MaskSpec(g) == MaskInit(g) /\ [][MaskNext]_maskVars

\* The rounds of maskDeadInst only find more values to be needed: that is why
\* they end (the loop runs until getAlives() of no block changes, line 968).
NeedsOnlyGrow == [][\A b \in Blocks : alives[b] \subseteq alives'[b]]_maskVars
=============================================================================
