---------------------------- MODULE SelectedCode ----------------------------
(***************************************************************************)
(* What the register allocator relies on in the code it is given.          *)
(* buildInterference records what is live together only where a register   *)
(* is read, so colouring is right for the code that the emit* methods of   *)
(* CodeGenerator select, and not for any code.  Programs are functions     *)
(* that have these features; RegAllocExecProofs shows that the allocated   *)
(* code of such a function runs as the selected code would.                *)
(***************************************************************************)
EXTENDS RegAllocExec

-----------------------------------------------------------------------------
(* Liveness, of code c without reference to how it is computed *)

Reads(ins) == ({ins.src1, ins.src2} \ {NoReg}) \union ins.used

\* Instructions i to j - 1 of block s do not write x.
Untouched(s, i, j, x) == \A k \in i .. j - 1 : s[k].dest # x

\* From instruction i on, x is read before it is written.
ReadFrom(s, i, x) == \E j \in i .. Len(s) : x \in Reads(s[j]) /\ Untouched(s, i, j, x)

\* x is not written from instruction i to the end.
Through(s, i, x) == Untouched(s, i, Len(s) + 1, x)

\* B has every block where x is read first, and every one that x passes
\* unchanged on the way to a block of B.
Closed(c, x, B) ==
  \A b \in DOMAIN c :
    ReadFrom(c[b], 1, x) \/ (Through(c[b], 1, x) /\ Successors(c, b) \intersect B # {}) => b \in B

\* The blocks at whose start x is live: the least such set.
LiveIn(c, x) == {b \in DOMAIN c : \A B \in SUBSET DOMAIN c : Closed(c, x, B) => b \in B}

\* x is live before instruction i of block b.
LiveAt(c, b, i, x) ==
  \/ ReadFrom(c[b], i, x)
  \/ Through(c[b], i, x) /\ Successors(c, b) \intersect LiveIn(c, x) # {}

-----------------------------------------------------------------------------
Colorable == IntNames \union FloatNames

\* A block ends with its only jump, before which there may be a branch
\* (emitCondJumpInst); both lead behind the entry block, and a branch to a
\* block of the IR.  The last block, _retBB, and only it, is empty.
Controlled(c) ==
  /\ c[Len(c)] = << >>
  /\ \A b \in DOMAIN c \ {Len(c)} :
       /\ c[b] # << >>
       /\ \A i \in DOMAIN c[b] :
            /\ c[b][i].kind = "jump" <=> i = Len(c[b])
            /\ c[b][i].kind = "branch" => i = Len(c[b]) - 1 /\ c[b][i].target < Len(c)
            /\ c[b][i].kind = "jump" => c[b][i].src1 = NoReg /\ c[b][i].src2 = NoReg
            /\ IF c[b][i].kind \in {"branch", "jump"}
               THEN c[b][i].dest = NoReg /\ c[b][i].target \in 2 .. Len(c)
               ELSE c[b][i].target = 0

\* An instruction writes a temporary, or an argument or result register; a
\* call, and only a call, names argument registers it uses (addUsedReg in
\* emitFunctionCallInst).
Operands(c) ==
  \A b \in DOMAIN c : \A i \in DOMAIN c[b] :
    /\ c[b][i].dest \notin CalleeSaved \union Special
    /\ c[b][i].used \subseteq IF c[b][i].kind = "call" THEN CallerSaved ELSE {}

\* An expression is evaluated before it is used: no temporary is live at the
\* entry.  One that is live across a branch belongs to an expression around
\* both sides.
Temporaries(c) ==
  \A r \in Vregs :
    /\ 1 \notin LiveIn(c, r)
    /\ \A b \in DOMAIN c : Successors(c, b) \intersect LiveIn(c, r) # {} => Successors(c, b) \subseteq LiveIn(c, r)

\* Argument and result registers are read in the block that writes them
\* (emitFunctionCallInst, emitRetInst), parameters in the entry block.
Locally(c) == \A b \in DOMAIN c \ {1} : \A x \in Colorable : ~ReadFrom(c[b], 1, x)

\* What an instruction writes is read; only the result of a call that is an
\* expression statement may not be, and then no other value is waiting.
Useful(c) ==
  \A b \in DOMAIN c : \A i \in DOMAIN c[b] :
    LET d == c[b][i].dest IN
    d # NoReg =>
      \/ LiveAt(c, b, i + 1, d)
      \/ \A x \in (Vregs \union Colorable) \ {d} : ~LiveAt(c, b, i + 1, x)

\* A jump to _retBB comes right behind the move to the result register
\* (emitRetInst).
Returned(c, result) ==
  /\ result \subseteq CallerSaved
  /\ \A b \in DOMAIN c : \A i \in DOMAIN c[b] :
       c[b][i].kind = "jump" /\ c[b][i].target = Len(c)
         => \A x \in result : i > 1 /\ c[b][i - 1].dest = x

\* What run() relies on, spill code included.
Allocatable(c, result) ==
  Controlled(c) /\ Operands(c) /\ Temporaries(c) /\ Locally(c) /\ Useful(c) /\ Returned(c, result)

IsSpill(ins) == ins.kind \in {"store", "reload"}

\* What instruction selection leaves.
Selected(c, result) ==
  Allocatable(c, result) /\ \A b \in DOMAIN c : \A i \in DOMAIN c[b] : ~IsSpill(c[b][i])

ASSUME SelectedOK == \A p \in Programs : \A g \in Rounds : Selected(FreshCode(p, g), p.result)

-----------------------------------------------------------------------------
\* The registers an instruction names.
Mentioned(ins) == {ins.dest, ins.src1, ins.src2}

\* What spill() relies on to put r into one slot of the frame: it was not put
\* into one before, it has one definition, and every use of it is in the block
\* of the definition or in a later one, where _currentOffset is what it was
\* when the definition was stored.
Homed(c, r) ==
  /\ \A b \in DOMAIN c : \A i \in DOMAIN c[b] : IsSpill(c[b][i]) => r \notin Mentioned(c[b][i])
  /\ \A a, b \in DOMAIN c : \A i \in DOMAIN c[a], j \in DOMAIN c[b] :
       c[a][i].dest = r /\ c[b][j].dest = r => a = b /\ i = j
  /\ \A b \in DOMAIN c : \A i \in DOMAIN c[b] :
       r \in {c[b][i].src1, c[b][i].src2} => \E a \in 1 .. b : \E j \in DOMAIN c[a] : c[a][j].dest = r

\* spill() in RegAllocator.cpp is called only for registers that it can give
\* one slot: none that run() has spilled before, and none with a second
\* definition, whose value it would store at another offset than it reloads
\* from.
SpillFits == phase = "spill" => Homed(code, failed)
=============================================================================
