------------------------- MODULE RegAllocExecProofs -------------------------
(***************************************************************************)
(* The allocated code runs as the selected code would: RegAllocExec        *)
(* implements VirtualMachine, for every function of Programs, every        *)
(* register file, every order of the heap's addresses and every path       *)
(* through the code, as long as spill() is called for registers that it    *)
(* can give one slot (SpillFits).                                          *)
(*                                                                         *)
(* The argument:                                                           *)
(*   - spill() puts stores and reloads between the instructions of the     *)
(*     selected code, a store behind what writes its register and a reload *)
(*     before what reads it, in one slot per register (Laid,               *)
(*     SpillKeepsLaid), and such code is as good for run() as the selected *)
(*     code (LaidAllocatable);                                             *)
(*   - a pass of buildInterference that changes nothing has found what is  *)
(*     live (Solved), and has recorded the interferences of every read     *)
(*     (Recorded);                                                         *)
(*   - two registers that are live together therefore interfere: the first *)
(*     of them to be read finds the other live (BlockEdge, LiveEdge);      *)
(*   - the colours keep interfering registers apart (NoClash, proved in    *)
(*     RegAllocProofs), so no instruction overwrites a live one            *)
(*     (NotOverwritten, CallApart);                                        *)
(*   - so the physical registers go on holding what will be read           *)
(*     (StepKeeps, JumpKeeps), and the slots what will be reloaded         *)
(*     (SlotsStep, SlotsJump, StoreKeeps, ReloadKeeps), and every step of  *)
(*     the run is a step of VirtualMachine or, when it stores or reloads,  *)
(*     changes nothing there (ExecImplements).                             *)
(***************************************************************************)
EXTENDS SelectedCode, RegAllocProofs

-----------------------------------------------------------------------------
(* Spill code between the instructions of the selected code *)

\* The register that a store or a reload of spill() moves.
RegOf(ins) == IF ins.kind = "store" THEN ins.src1 ELSE ins.dest

\* w is s with stores and reloads between; h places the instructions of s.
Embeds(s, w, h) ==
  /\ h \in [1 .. Len(s) -> 1 .. Len(w)]
  /\ \A m, n \in 1 .. Len(s) : m < n => h[m] < h[n]
  /\ \A m \in 1 .. Len(s) : w[h[m]] = s[m]
  /\ \A i \in 1 .. Len(w) : IsSpill(w[i]) \/ \E m \in 1 .. Len(s) : h[m] = i

\* At i of w the next instruction of s, of length n, is its m-th.
Upcoming(h, n, m, i) ==
  /\ m = 1 \/ h[m - 1] < i
  /\ m = n + 1 \/ i <= h[m]

\* The first of the places of a block from which a predicate holds.
LEMMA UpcomingExists ==
  ASSUME NEW s, NEW w, NEW h, Len(s) \in Nat, Len(w) \in Nat, Embeds(s, w, h), NEW i \in 1 .. Len(w) + 1
  PROVE  \E m \in 1 .. Len(s) + 1 : Upcoming(h, Len(s), m, i)
<1>. DEFINE T == {m \in 1 .. Len(s) + 1 : m = Len(s) + 1 \/ i <= h[m]}
<1>1. PICK m \in T : \A n \in T : m <= n
  <2>1. T \subseteq Nat /\ Len(s) + 1 \in T
    OBVIOUS
  <2>. HIDE DEF T
  <2>. QED  BY <2>1, LeastNat
<1>2. ASSUME m # 1 PROVE h[m - 1] < i
  <2>1. m - 1 \in 1 .. Len(s) /\ m - 1 # Len(s) + 1 /\ ~(m <= m - 1)
    BY <1>2
  <2>2. ~(i <= h[m - 1])
    BY <1>1, <2>1
  <2>3. h[m - 1] \in 1 .. Len(w)
    BY <2>1 DEF Embeds
  <2>. QED  BY <2>2, <2>3
<1>. QED  BY <1>2 DEF Upcoming

\* Later instructions of s are later in w, and the other way round.
LEMMA EmbedOrder ==
  ASSUME NEW s, NEW w, NEW h, Len(s) \in Nat, Len(w) \in Nat, Embeds(s, w, h),
         NEW i \in 1 .. Len(w) + 1, NEW m \in 1 .. Len(s) + 1, Upcoming(h, Len(s), m, i), NEW n \in 1 .. Len(s)
  PROVE  n >= m <=> h[n] >= i
<1>1. h[n] \in 1 .. Len(w) /\ \A k \in 1 .. Len(s) : h[k] \in 1 .. Len(w)
  BY DEF Embeds
<1>2. ASSUME n >= m PROVE h[n] >= i
  <2>1. m \in 1 .. Len(s) /\ i <= h[m]
    BY <1>2 DEF Upcoming
  <2>2. n = m \/ m < n
    BY <1>2
  <2>3. h[m] <= h[n]
    BY <1>1, <2>1, <2>2 DEF Embeds
  <2>. QED  BY <1>1, <2>1, <2>3
<1>3. ASSUME ~(n >= m) PROVE ~(h[n] >= i)
  <2>1. m - 1 \in 1 .. Len(s) /\ h[m - 1] < i
    BY <1>3 DEF Upcoming
  <2>2. n = m - 1 \/ n < m - 1
    BY <1>3
  <2>3. h[n] <= h[m - 1]
    BY <1>1, <2>1, <2>2 DEF Embeds
  <2>. QED  BY <1>1, <2>1, <2>3
<1>. QED  BY <1>2, <1>3

\* A register that spill() does not move is read in w where it is in s.
LEMMA EmbedReads ==
  ASSUME NEW s, NEW w, NEW h, Len(s) \in Nat, Len(w) \in Nat, Embeds(s, w, h),
         NEW i \in 1 .. Len(w) + 1, NEW m \in 1 .. Len(s) + 1, Upcoming(h, Len(s), m, i), NEW x,
         \A j \in 1 .. Len(w) : IsSpill(w[j]) => x \notin Reads(w[j]) /\ w[j].dest # x
  PROVE  /\ ReadFrom(w, i, x) <=> ReadFrom(s, m, x)
         /\ Through(w, i, x) <=> Through(s, m, x)
<1>0. \A n \in 1 .. Len(s) : h[n] \in 1 .. Len(w) /\ w[h[n]] = s[n] /\ (n >= m <=> h[n] >= i)
  BY EmbedOrder DEF Embeds
<1>1. \A n, k \in 1 .. Len(s) : n < k <=> h[n] < h[k]
  <2>. SUFFICES ASSUME NEW n \in 1 .. Len(s), NEW k \in 1 .. Len(s) PROVE n < k <=> h[n] < h[k]
    OBVIOUS
  <2>1. n < k \/ n = k \/ k < n
    OBVIOUS
  <2>2. (n < k => h[n] < h[k]) /\ (k < n => h[k] < h[n])
    BY DEF Embeds
  <2>3. h[n] \in 1 .. Len(w) /\ h[k] \in 1 .. Len(w)
    BY <1>0
  <2>. QED  BY <2>1, <2>2, <2>3
\* What is not written in w is not written in s, up to the same place.
<1>2. ASSUME NEW e \in 1 .. Len(w) + 1, NEW f \in 1 .. Len(s) + 1,
             \A n \in 1 .. Len(s) : n < f <=> h[n] < e
      PROVE  Untouched(w, i, e, x) <=> Untouched(s, m, f, x)
  <2>1. ASSUME Untouched(w, i, e, x), NEW n \in m .. f - 1 PROVE s[n].dest # x
    <3>1. n \in 1 .. Len(s) /\ n < f /\ n >= m
      OBVIOUS
    <3>2. h[n] \in i .. e - 1
      BY <1>0, <1>2, <3>1
    <3>. QED  BY <1>0, <2>1, <3>1, <3>2 DEF Untouched
  <2>2. ASSUME Untouched(s, m, f, x), NEW k \in i .. e - 1 PROVE w[k].dest # x
    <3>1. k \in 1 .. Len(w)
      OBVIOUS
    <3>2. CASE IsSpill(w[k])
      BY <3>1, <3>2
    <3>3. CASE ~IsSpill(w[k])
      <4>1. PICK n \in 1 .. Len(s) : h[n] = k
        BY <3>1, <3>3 DEF Embeds
      <4>2. n >= m /\ n < f
        BY <1>0, <1>2, <4>1
      <4>3. n \in m .. f - 1
        BY <4>2
      <4>. QED  BY <1>0, <2>2, <4>1, <4>3 DEF Untouched
    <3>. QED  BY <3>2, <3>3
  <2>. QED  BY <2>1, <2>2 DEF Untouched
<1>3. ASSUME NEW n \in 1 .. Len(s)
      PROVE  Untouched(w, i, h[n], x) <=> Untouched(s, m, n, x)
  <2>1. h[n] \in 1 .. Len(w) + 1 /\ n \in 1 .. Len(s) + 1
    BY <1>0
  <2>2. \A k \in 1 .. Len(s) : k < n <=> h[k] < h[n]
    BY <1>1
  <2>. QED  BY <1>2, <2>1, <2>2
<1>4. ASSUME ReadFrom(w, i, x) PROVE ReadFrom(s, m, x)
  <2>1. PICK j \in i .. Len(w) : x \in Reads(w[j]) /\ Untouched(w, i, j, x)
    BY <1>4 DEF ReadFrom
  <2>2. j \in 1 .. Len(w)
    OBVIOUS
  <2>3. PICK n \in 1 .. Len(s) : h[n] = j
    BY <2>1, <2>2 DEF Embeds
  <2>4. n \in m .. Len(s) /\ x \in Reads(s[n]) /\ Untouched(s, m, n, x)
    BY <1>0, <1>3, <2>1, <2>3
  <2>. QED  BY <2>4 DEF ReadFrom
<1>5. ASSUME ReadFrom(s, m, x) PROVE ReadFrom(w, i, x)
  <2>1. PICK n \in m .. Len(s) : x \in Reads(s[n]) /\ Untouched(s, m, n, x)
    BY <1>5 DEF ReadFrom
  <2>2. n \in 1 .. Len(s) /\ n >= m
    OBVIOUS
  <2>3. h[n] \in i .. Len(w) /\ x \in Reads(w[h[n]]) /\ Untouched(w, i, h[n], x)
    BY <1>0, <1>3, <2>1, <2>2
  <2>. QED  BY <2>3 DEF ReadFrom
<1>6. Through(w, i, x) <=> Through(s, m, x)
  <2>1. \A n \in 1 .. Len(s) : n < Len(s) + 1 /\ h[n] < Len(w) + 1
    BY <1>0
  <2>2. Untouched(w, i, Len(w) + 1, x) <=> Untouched(s, m, Len(s) + 1, x)
    BY <1>2, <2>1
  <2>. QED  BY <2>2 DEF Through
<1>. QED  BY <1>4, <1>5, <1>6

-----------------------------------------------------------------------------
(* How spill() leaves the code *)

\* The registers that have a slot in the frame.
Slotted(c) ==
  {o \in Vregs : \E b \in DOMAIN c : \E i \in DOMAIN c[b] : IsSpill(c[b][i]) /\ RegOf(c[b][i]) = o}

\* A store or reload as spill() makes it.
SpillForm(ins) ==
  /\ ins.kind = "store" => ins.src1 \in Vregs /\ ins.src2 = S0 /\ ins.dest = NoReg
  /\ ins.kind = "reload" => ins.dest \in Vregs /\ ins.src1 = S0 /\ ins.src2 = NoReg
  /\ IsSpill(ins) => ins.used = {} /\ ins.target = 0

\* Only reloads from i to j - 1 of w.
Reloads(w, i, j) == \A k \in i .. j - 1 : w[k].kind = "reload"

\* A store is behind what writes its register, a reload before what reads it.
Stored(w, i) == i > 1 /\ ~IsSpill(w[i - 1]) /\ w[i - 1].dest = w[i].src1
Reloaded(w, i) ==
  \E j \in i + 1 .. Len(w) : /\ ~IsSpill(w[j]) /\ w[i].dest \in {w[j].src1, w[j].src2}
                             /\ Reloads(w, i + 1, j)
                             /\ \A k \in i + 1 .. j - 1 : w[k].dest # w[i].dest

\* A register with a slot is stored behind what writes it, and reloaded before
\* what reads it.
Saved(w, i) == i < Len(w) /\ w[i + 1].kind = "store" /\ w[i + 1].src1 = w[i].dest
Fetched(w, i, o) == \E j \in 1 .. i - 1 : w[j].kind = "reload" /\ w[j].dest = o /\ Reloads(w, j + 1, i)

\* Block w of a function in which the registers S have slots.
Spaced(w, S) ==
  \A i \in 1 .. Len(w) :
    /\ SpillForm(w[i])
    /\ w[i].kind = "store" => Stored(w, i)
    /\ w[i].kind = "reload" => Reloaded(w, i)
    /\ ~IsSpill(w[i]) /\ w[i].dest \in S => Saved(w, i)
    /\ ~IsSpill(w[i]) => \A o \in {w[i].src1, w[i].src2} \intersect S : Fetched(w, i, o)

\* Every register has one slot, and no other register has it.
OneSlot(c) ==
  \A a, b \in DOMAIN c : \A i \in DOMAIN c[a], j \in DOMAIN c[b] :
    IsSpill(c[a][i]) /\ IsSpill(c[b][j]) => (RegOf(c[a][i]) = RegOf(c[b][j]) <=> c[a][i].off = c[b][j].off)

\* c is f with spill code, in slots down to offset off.
Laid(c, f, off) ==
  /\ DOMAIN c = DOMAIN f
  /\ \A b \in DOMAIN c : (\E h : Embeds(f[b], c[b], h)) /\ Spaced(c[b], Slotted(c))
  /\ OneSlot(c)
  /\ \A b \in DOMAIN c : \A i \in DOMAIN c[b] : IsSpill(c[b][i]) => c[b][i].off >= off

\* What is read of a register with a slot has just been written there.
LEMMA SlotReads ==
  ASSUME NEW w \in Seq(Instr(Regs)), NEW S \in SUBSET Vregs, Spaced(w, S), NEW o \in S,
         NEW i \in Nat \ {0}, ReadFrom(w, i, o)
  PROVE  \/ i \in 1 .. Len(w) /\ w[i].kind = "store" /\ w[i].src1 = o
         \/ Fetched(w, i, o)
<1>0. Len(w) \in Nat /\ \A k \in 1 .. Len(w) : w[k] \in Instr(Regs)
  BY LenProperties, ElementOfSeq
<1>1. PICK j \in i .. Len(w) : o \in Reads(w[j]) /\ Untouched(w, i, j, o)
  BY DEF ReadFrom
<1>2. j \in 1 .. Len(w) /\ o \in Vregs /\ o \in {w[j].src1, w[j].src2}
  <2>1. j \in 1 .. Len(w) /\ w[j] \in Instr(Regs)
    BY <1>0
  <2>2. o \notin w[j].used
    BY <2>1, Apart DEF Instr
  <2>. QED  BY <1>1, <2>1, <2>2 DEF Reads
<1>3. o # S0 /\ o # NoReg
  BY <1>2, Apart DEF Fixed, Regs
<1>4. CASE IsSpill(w[j])
  <2>1. w[j].kind = "store" /\ w[j].src1 = o
    BY <1>2, <1>3, <1>4 DEF Spaced, SpillForm, IsSpill
  <2>2. j > 1 /\ w[j - 1].dest = o
    BY <1>2, <2>1 DEF Spaced, Stored
  <2>3. j - 1 \notin i .. j - 1
    BY <1>1, <2>2 DEF Untouched
  <2>4. j = i
    BY <1>0, <2>3
  <2>. QED  BY <1>2, <2>1, <2>4
<1>5. CASE ~IsSpill(w[j])
  <2>1. Fetched(w, j, o)
    BY <1>2, <1>5 DEF Spaced
  <2>2. PICK k \in 1 .. j - 1 : w[k].kind = "reload" /\ w[k].dest = o /\ Reloads(w, k + 1, j)
    BY <2>1 DEF Fetched
  <2>3. k < i
    <3>1. k \notin i .. j - 1
      BY <1>1, <2>2 DEF Untouched
    <3>. QED  BY <3>1
  <2>4. k \in 1 .. i - 1 /\ Reloads(w, k + 1, i)
    <3>1. \A n \in k + 1 .. i - 1 : n \in k + 1 .. j - 1
      OBVIOUS
    <3>. QED  BY <2>2, <2>3, <3>1 DEF Reloads
  <2>. QED  BY <2>2, <2>4 DEF Fetched
<1>. QED  BY <1>4, <1>5

\* The code with spill code in it, and the selected code that it is made from.
LEMMA LaidFacts ==
  ASSUME NEW p \in Programs, NEW g \in Rounds, NEW c \in Blocks(p), NEW f, f = FreshCode(p, g),
         NEW off, Laid(c, f, off)
  PROVE  /\ f \in Blocks(p) /\ Selected(f, p.result) /\ DOMAIN f = DOMAIN c /\ Len(f) = Len(c)
         /\ DOMAIN c = 1 .. Len(c) /\ Len(c) \in Nat \ {0}
         /\ \A b \in DOMAIN c :
              /\ Len(c[b]) \in Nat /\ DOMAIN c[b] = 1 .. Len(c[b]) /\ c[b] \in Seq(Instr(Regs))
              /\ Len(f[b]) \in Nat /\ DOMAIN f[b] = 1 .. Len(f[b]) /\ f[b] \in Seq(Instr(Regs))
              /\ Spaced(c[b], Slotted(c))
              /\ \A i \in DOMAIN f[b] : ~IsSpill(f[b][i]) /\ f[b][i] \in Instr(Regs)
              /\ \A i \in DOMAIN c[b] :
                   /\ c[b][i] \in Instr(Regs)
                   /\ IsSpill(c[b][i]) => /\ SpillForm(c[b][i]) /\ RegOf(c[b][i]) \in Slotted(c)
                                          /\ Reads(c[b][i]) \subseteq Slotted(c) \union {S0}
                                          /\ c[b][i].dest \in Slotted(c) \union {NoReg}
         /\ Slotted(c) \subseteq Vregs
<1>1. /\ f \in Blocks(p) /\ Selected(f, p.result) /\ DOMAIN f = DOMAIN c
      /\ DOMAIN c = 1 .. Len(c) /\ Len(c) \in Nat \ {0} /\ Len(f) = Len(c)
      /\ \A b \in DOMAIN c :
           /\ Len(c[b]) \in Nat /\ DOMAIN c[b] = 1 .. Len(c[b]) /\ c[b] \in Seq(Instr(Regs))
           /\ Len(f[b]) \in Nat /\ DOMAIN f[b] = 1 .. Len(f[b]) /\ f[b] \in Seq(Instr(Regs))
           /\ \A i \in DOMAIN f[b] : f[b][i] \in Instr(Regs)
           /\ \A i \in DOMAIN c[b] : c[b][i] \in Instr(Regs)
  BY FreshCodeType, SelectedOK, BlocksShape DEF Laid
<1>2. ASSUME NEW b \in DOMAIN c, NEW i \in DOMAIN c[b], IsSpill(c[b][i])
      PROVE  /\ SpillForm(c[b][i]) /\ RegOf(c[b][i]) \in Slotted(c)
             /\ Reads(c[b][i]) \subseteq Slotted(c) \union {S0}
             /\ c[b][i].dest \in Slotted(c) \union {NoReg}
  <2>1. SpillForm(c[b][i])
    BY <1>1 DEF Laid, Spaced
  <2>2. RegOf(c[b][i]) \in Vregs
    BY <1>2, <2>1 DEF RegOf, SpillForm, IsSpill
  <2>3. RegOf(c[b][i]) \in Slotted(c)
    BY <1>2, <2>2 DEF Slotted
  <2>. QED  BY <1>2, <2>1, <2>3 DEF SpillForm, RegOf, IsSpill, Reads
<1>3. \A b \in DOMAIN c : \A i \in DOMAIN f[b] : ~IsSpill(f[b][i])
  BY <1>1 DEF Selected
<1>. QED  BY <1>1, <1>2, <1>3 DEF Laid, Slotted

\* Stores and reloads do not touch what has no slot.
LEMMA LaidReads ==
  ASSUME NEW p \in Programs, NEW g \in Rounds, NEW c \in Blocks(p), NEW f, f = FreshCode(p, g),
         NEW off, Laid(c, f, off), NEW x \in (Vregs \union Colorable) \ Slotted(c),
         NEW b \in DOMAIN c, NEW h, Embeds(f[b], c[b], h),
         NEW i \in 1 .. Len(c[b]) + 1, NEW m \in 1 .. Len(f[b]) + 1, Upcoming(h, Len(f[b]), m, i)
  PROVE  /\ ReadFrom(c[b], i, x) <=> ReadFrom(f[b], m, x)
         /\ Through(c[b], i, x) <=> Through(f[b], m, x)
<1>1. x # S0 /\ x # NoReg
  BY Apart DEF Colorable, Fixed, Regs
<1>2. \A j \in 1 .. Len(c[b]) : IsSpill(c[b][j]) => x \notin Reads(c[b][j]) /\ c[b][j].dest # x
  BY <1>1, LaidFacts
<1>3. Len(c[b]) \in Nat /\ Len(f[b]) \in Nat
  BY LaidFacts
<1>. QED  BY <1>2, <1>3, EmbedReads

\* Nor where control goes.
LEMMA LaidSuccessors ==
  ASSUME NEW p \in Programs, NEW g \in Rounds, NEW c \in Blocks(p), NEW f, f = FreshCode(p, g),
         NEW off, Laid(c, f, off), NEW b \in DOMAIN c
  PROVE  Successors(c, b) = Successors(f, b)
<1>1. /\ DOMAIN c = 1 .. Len(c) /\ Len(c) \in Nat /\ DOMAIN f = DOMAIN c
      /\ DOMAIN c[b] = 1 .. Len(c[b]) /\ DOMAIN f[b] = 1 .. Len(f[b])
      /\ \A i \in DOMAIN c[b] : IsSpill(c[b][i]) => c[b][i].target = 0
  BY LaidFacts DEF SpillForm
<1>2. PICK h : Embeds(f[b], c[b], h)
  BY DEF Laid
<1>3. ASSUME NEW a \in Successors(c, b) PROVE a \in Successors(f, b)
  <2>1. PICK i \in DOMAIN c[b] : a = c[b][i].target
    BY DEF Successors
  <2>2. a \in DOMAIN c /\ a # 0
    BY <1>1 DEF Successors
  <2>3. ~IsSpill(c[b][i])
    BY <1>1, <2>1, <2>2
  <2>4. PICK m \in 1 .. Len(f[b]) : h[m] = i
    BY <1>1, <1>2, <2>3 DEF Embeds
  <2>5. a = f[b][m].target
    BY <1>2, <2>1, <2>4 DEF Embeds
  <2>. QED  BY <1>1, <2>2, <2>5 DEF Successors
<1>4. ASSUME NEW a \in Successors(f, b) PROVE a \in Successors(c, b)
  <2>1. PICK m \in 1 .. Len(f[b]) : a = f[b][m].target
    BY <1>1 DEF Successors
  <2>2. h[m] \in DOMAIN c[b] /\ c[b][h[m]] = f[b][m]
    BY <1>1, <1>2 DEF Embeds
  <2>. QED  BY <1>1, <2>1, <2>2 DEF Successors
<1>. QED  BY <1>3, <1>4

\* What has no slot is live where it is in the selected code.
LEMMA LaidLive ==
  ASSUME NEW p \in Programs, NEW g \in Rounds, NEW c \in Blocks(p), NEW f, f = FreshCode(p, g),
         NEW off, Laid(c, f, off), NEW x \in (Vregs \union Colorable) \ Slotted(c)
  PROVE  /\ LiveIn(c, x) = LiveIn(f, x)
         /\ \A b \in DOMAIN c : ReadFrom(c[b], 1, x) <=> ReadFrom(f[b], 1, x)
         /\ \A b \in DOMAIN c : \A h, i, m :
              Embeds(f[b], c[b], h) /\ i \in 1 .. Len(c[b]) + 1 /\ m \in 1 .. Len(f[b]) + 1
                /\ Upcoming(h, Len(f[b]), m, i)
                => (LiveAt(c, b, i, x) <=> LiveAt(f, b, m, x))
<1>1. /\ DOMAIN c = DOMAIN f
      /\ \A b \in DOMAIN c : Len(c[b]) \in Nat /\ Len(f[b]) \in Nat
  BY LaidFacts
<1>2. \A b \in DOMAIN c : Successors(c, b) = Successors(f, b)
  BY LaidSuccessors
<1>3. ASSUME NEW b \in DOMAIN c
      PROVE  /\ ReadFrom(c[b], 1, x) <=> ReadFrom(f[b], 1, x)
             /\ Through(c[b], 1, x) <=> Through(f[b], 1, x)
  <2>1. PICK h : Embeds(f[b], c[b], h)
    BY DEF Laid
  <2>2. 1 \in 1 .. Len(c[b]) + 1 /\ 1 \in 1 .. Len(f[b]) + 1
    BY <1>1
  <2>3. Upcoming(h, Len(f[b]), 1, 1)
    <3>1. 1 \in 1 .. Len(f[b]) => 1 <= h[1]
      BY <1>1, <2>1 DEF Embeds
    <3>2. 1 = Len(f[b]) + 1 \/ 1 \in 1 .. Len(f[b])
      BY <1>1
    <3>. QED  BY <3>1, <3>2 DEF Upcoming
  <2>. QED  BY <2>1, <2>2, <2>3, LaidReads
<1>4. \A B : Closed(c, x, B) <=> Closed(f, x, B)
  BY <1>1, <1>2, <1>3 DEF Closed
<1>5. LiveIn(c, x) = LiveIn(f, x)
  BY <1>1, <1>4 DEF LiveIn
<1>6. ASSUME NEW b \in DOMAIN c, NEW h, Embeds(f[b], c[b], h),
             NEW i \in 1 .. Len(c[b]) + 1, NEW m \in 1 .. Len(f[b]) + 1, Upcoming(h, Len(f[b]), m, i)
      PROVE  LiveAt(c, b, i, x) <=> LiveAt(f, b, m, x)
  <2>1. /\ ReadFrom(c[b], i, x) <=> ReadFrom(f[b], m, x)
        /\ Through(c[b], i, x) <=> Through(f[b], m, x)
    BY <1>6, LaidReads
  <2>. QED  BY <1>2, <1>5, <2>1 DEF LiveAt
<1>. QED  BY <1>3, <1>5, <1>6

\* What has a slot is live only between a reload and a use, and between a
\* definition and its store.
LEMMA SlotLive ==
  ASSUME NEW p \in Programs, NEW g \in Rounds, NEW c \in Blocks(p), NEW f, f = FreshCode(p, g),
         NEW off, Laid(c, f, off), NEW o \in Slotted(c)
  PROVE  /\ LiveIn(c, o) = {}
         /\ \A b \in DOMAIN c : ~ReadFrom(c[b], 1, o)
         /\ \A b \in DOMAIN c : \A i \in Nat \ {0} :
              LiveAt(c, b, i, o) => \/ i \in 1 .. Len(c[b]) /\ c[b][i].kind = "store" /\ c[b][i].src1 = o
                                    \/ Fetched(c[b], i, o)
<1>1. \A b \in DOMAIN c : c[b] \in Seq(Instr(Regs)) /\ Spaced(c[b], Slotted(c)) /\ Slotted(c) \subseteq Vregs
  BY LaidFacts
<1>2. \A b \in DOMAIN c : \A i \in Nat \ {0} :
        ReadFrom(c[b], i, o) => \/ i \in 1 .. Len(c[b]) /\ c[b][i].kind = "store" /\ c[b][i].src1 = o
                                \/ Fetched(c[b], i, o)
  BY <1>1, SlotReads
<1>3. ASSUME NEW b \in DOMAIN c PROVE ~ReadFrom(c[b], 1, o)
  <2>1. ~Fetched(c[b], 1, o)
    BY DEF Fetched
  <2>2. ~(1 \in 1 .. Len(c[b]) /\ c[b][1].kind = "store")
    BY <1>1 DEF Spaced, Stored
  <2>. QED  BY <1>2, <2>1, <2>2
<1>4. Closed(c, o, {})
  BY <1>3 DEF Closed
<1>5. LiveIn(c, o) = {}
  BY <1>4 DEF LiveIn
<1>. QED  BY <1>2, <1>3, <1>5 DEF LiveAt

-----------------------------------------------------------------------------
(* Spill code keeps what run() relies on *)

\* The places around an instruction, and around a store or reload.
LEMMA UpcomingAt ==
  ASSUME NEW s, NEW w, NEW h, Len(s) \in Nat, Len(w) \in Nat, Embeds(s, w, h), NEW m \in 1 .. Len(s)
  PROVE  /\ h[m] \in 1 .. Len(w) /\ w[h[m]] = s[m]
         /\ Upcoming(h, Len(s), m, h[m]) /\ Upcoming(h, Len(s), m + 1, h[m] + 1)
         /\ h[m] + 1 \in 1 .. Len(w) + 1 /\ m + 1 \in 1 .. Len(s) + 1
<1>1. \A n \in 1 .. Len(s) : h[n] \in 1 .. Len(w)
  BY DEF Embeds
<1>2. Upcoming(h, Len(s), m, h[m])
  <2>1. m # 1 => m - 1 \in 1 .. Len(s) /\ m - 1 < m
    OBVIOUS
  <2>2. h[m] <= h[m]
    BY <1>1
  <2>. QED  BY <2>1, <2>2 DEF Embeds, Upcoming
<1>3. Upcoming(h, Len(s), m + 1, h[m] + 1)
  <2>1. m + 1 # 1 /\ (m + 1) - 1 = m /\ h[m] < h[m] + 1
    BY <1>1
  <2>2. m + 1 # Len(s) + 1 => h[m] + 1 <= h[m + 1]
    <3>1. SUFFICES ASSUME m + 1 # Len(s) + 1 PROVE h[m] + 1 <= h[m + 1]
      OBVIOUS
    <3>2. m + 1 \in 1 .. Len(s) /\ m < m + 1
      BY <3>1
    <3>3. h[m] < h[m + 1]
      BY <3>2 DEF Embeds
    <3>. QED  BY <1>1, <3>2, <3>3
  <2>. QED  BY <2>1, <2>2 DEF Upcoming
<1>. QED  BY <1>1, <1>2, <1>3 DEF Embeds

LEMMA UpcomingSpill ==
  ASSUME NEW s, NEW w, NEW h, Len(s) \in Nat, Len(w) \in Nat, Embeds(s, w, h),
         \A m \in 1 .. Len(s) : ~IsSpill(s[m]),
         NEW i \in 1 .. Len(w), IsSpill(w[i]), NEW m \in 1 .. Len(s) + 1, Upcoming(h, Len(s), m, i)
  PROVE  Upcoming(h, Len(s), m, i + 1)
<1>1. m # 1 => h[m - 1] \in 1 .. Len(w) /\ h[m - 1] < i
  BY DEF Embeds, Upcoming
<1>2. m # Len(s) + 1 => h[m] \in 1 .. Len(w) /\ i <= h[m] /\ h[m] # i
  <2>1. m # Len(s) + 1 => m \in 1 .. Len(s)
    OBVIOUS
  <2>. QED  BY <2>1 DEF Embeds, Upcoming
<1>. QED  BY <1>1, <1>2 DEF Upcoming

\* The program's instructions of a block with spill code.
LEMMA LaidPlaces ==
  ASSUME NEW p \in Programs, NEW g \in Rounds, NEW c \in Blocks(p), NEW f, f = FreshCode(p, g),
         NEW off, Laid(c, f, off), NEW b \in DOMAIN c, NEW h, Embeds(f[b], c[b], h), NEW i \in DOMAIN c[b]
  PROVE  ~IsSpill(c[b][i]) <=> \E m \in DOMAIN f[b] : h[m] = i
<1>1. /\ DOMAIN f[b] = 1 .. Len(f[b]) /\ DOMAIN c[b] = 1 .. Len(c[b])
      /\ \A m \in DOMAIN f[b] : ~IsSpill(f[b][m])
  BY LaidFacts
<1>. QED  BY <1>1 DEF Embeds

\* Nothing is inserted behind the jump of a block, nor between it and an
\* instruction that writes no register with a slot.
LEMMA LaidEnd ==
  ASSUME NEW p \in Programs, NEW g \in Rounds, NEW c \in Blocks(p), NEW f, f = FreshCode(p, g),
         NEW off, Laid(c, f, off), NEW b \in DOMAIN c \ {Len(c)}, NEW h, Embeds(f[b], c[b], h)
  PROVE  /\ Len(f[b]) \in Nat \ {0} /\ Len(c[b]) \in Nat \ {0} /\ h[Len(f[b])] = Len(c[b])
         /\ Len(f[b]) > 1 /\ f[b][Len(f[b]) - 1].dest \notin Slotted(c)
              => h[Len(f[b]) - 1] = Len(c[b]) - 1
<1>. PICK s, w, n, k, S : s = f[b] /\ w = c[b] /\ n = Len(f[b]) /\ k = Len(c[b]) /\ S = Slotted(c)
  OBVIOUS
<1>1. /\ n \in Nat /\ k \in Nat /\ Spaced(w, S) /\ S \subseteq Vregs /\ DOMAIN s = 1 .. n /\ DOMAIN w = 1 .. k
      /\ f \in Blocks(p) /\ Controlled(f) /\ Len(f) = Len(c) /\ DOMAIN f = DOMAIN c
      /\ s \in Seq(Instr(Regs))
  BY LaidFacts DEF Selected, Allocatable
<1>2. /\ h \in [1 .. n -> 1 .. k] /\ \A m, l \in 1 .. n : m < l => h[m] < h[l]
      /\ \A m \in 1 .. n : w[h[m]] = s[m]
      /\ \A i \in 1 .. k : ~IsSpill(w[i]) <=> \E m \in 1 .. n : h[m] = i
  <2>1. Embeds(s, w, h)
    OBVIOUS
  <2>2. \A i \in DOMAIN c[b] : ~IsSpill(c[b][i]) <=> \E m \in DOMAIN f[b] : h[m] = i
    BY LaidPlaces
  <2>. QED  BY <1>1, <2>1, <2>2 DEF Embeds
<1>3. n # 0
  <2>1. s # << >>
    BY <1>1 DEF Controlled
  <2>. QED  BY <1>1, <2>1, EmptySeq
<1>4. s[n].kind = "jump" /\ s[n].dest = NoReg /\ s[n].src1 = NoReg /\ s[n].src2 = NoReg
  <2>1. n \in DOMAIN s
    BY <1>1, <1>3
  <2>. QED  BY <1>1, <2>1 DEF Controlled
<1>5. h[n] \in 1 .. k /\ k \in Nat \ {0}
  BY <1>1, <1>2, <1>3
<1>6. \A i \in 1 .. k : IsSpill(w[i]) => SpillForm(w[i]) /\ RegOf(w[i]) \in Vregs
  <2>1. \A i \in DOMAIN w : IsSpill(w[i]) => SpillForm(w[i]) /\ RegOf(w[i]) \in S
    BY LaidFacts
  <2>. QED  BY <1>1, <2>1
<1>7. NoReg \notin Vregs
  BY Apart DEF Regs
<1>8. h[n] = k
  <2>1. SUFFICES ASSUME h[n] # k PROVE FALSE
    OBVIOUS
  <2>2. \A m \in 1 .. n : h[m] \in 1 .. k /\ h[m] <= h[n]
    <3>1. ASSUME NEW m \in 1 .. n PROVE h[m] <= h[n]
      <4>1. m = n \/ m < n
        BY <1>1
      <4>. QED  BY <1>2, <1>3, <1>1, <4>1
    <3>. QED  BY <1>2, <3>1
  <2>3. IsSpill(w[k])
    BY <1>2, <1>5, <2>1, <2>2
  <2>4. CASE w[k].kind = "reload"
    <3>1. Reloaded(w, k)
      BY <1>1, <1>5, <2>4 DEF Spaced
    <3>2. \E j : j \in k + 1 .. Len(w)
      BY <3>1 DEF Reloaded
    <3>. QED  BY <1>1, <3>2
  <2>5. CASE w[k].kind = "store"
    <3>1. k > 1 /\ ~IsSpill(w[k - 1]) /\ w[k - 1].dest = w[k].src1 /\ w[k].src1 \in Vregs
      BY <1>1, <1>5, <1>6, <2>3, <2>5 DEF Spaced, Stored, SpillForm
    <3>2. k - 1 \in 1 .. k /\ h[n] <= k - 1
      BY <1>5, <2>1, <3>1
    <3>3. PICK m \in 1 .. n : h[m] = k - 1
      BY <1>2, <3>1, <3>2
    <3>4. h[m] = h[n]
      BY <1>5, <2>2, <3>2, <3>3
    <3>5. w[k - 1] = s[n]
      BY <1>2, <1>3, <1>1, <3>3, <3>4
    <3>. QED  BY <1>4, <1>7, <3>1, <3>5
  <2>. QED  BY <2>3, <2>4, <2>5 DEF IsSpill
<1>9. ASSUME n > 1, s[n - 1].dest \notin S PROVE h[n - 1] = k - 1
  <2>0. n - 1 \in 1 .. n /\ n - 1 < n /\ h[n - 1] \in 1 .. k /\ h[n - 1] < k /\ n \in 1 .. n
    <3>1. n - 1 \in 1 .. n /\ n - 1 < n /\ n \in 1 .. n
      BY <1>1, <1>9
    <3>. QED  BY <1>2, <1>8, <3>1
  <2>1. SUFFICES ASSUME h[n - 1] # k - 1 PROVE FALSE
    OBVIOUS
  <2>2. \A m \in 1 .. n : m = n \/ h[m] <= h[n - 1]
    <3>1. ASSUME NEW m \in 1 .. n PROVE m = n \/ h[m] <= h[n - 1]
      <4>1. m = n \/ m = n - 1 \/ m < n - 1
        BY <1>1
      <4>2. m < n - 1 => h[m] < h[n - 1]
        BY <1>2, <2>0
      <4>3. h[m] \in 1 .. k
        BY <1>2
      <4>. QED  BY <2>0, <4>1, <4>2, <4>3
    <3>. QED  BY <3>1
  <2>3. k - 1 \in 1 .. k /\ h[n - 1] < k - 1 /\ k - 1 # k
    BY <1>5, <2>0, <2>1
  <2>4. IsSpill(w[k - 1])
    <3>1. ASSUME NEW m \in 1 .. n, h[m] = k - 1 PROVE FALSE
      BY <1>8, <2>0, <2>2, <2>3, <3>1
    <3>. QED  BY <1>2, <2>3, <3>1
  <2>5. CASE w[k - 1].kind = "reload"
    <3>1. Reloaded(w, k - 1) /\ w[k - 1].dest \in Vregs
      BY <1>1, <1>6, <2>3, <2>4, <2>5 DEF Spaced, SpillForm
    <3>2. PICK j \in (k - 1) + 1 .. Len(w) : w[k - 1].dest \in {w[j].src1, w[j].src2}
      BY <3>1 DEF Reloaded
    <3>3. j = k
      BY <1>1, <1>5
    <3>4. w[k] = s[n]
      BY <1>2, <1>8, <2>0
    <3>. QED  BY <1>4, <1>7, <3>1, <3>2, <3>3, <3>4
  <2>6. CASE w[k - 1].kind = "store"
    <3>. PICK l : l = k - 1
      OBVIOUS
    <3>0. l \in 1 .. k /\ l \in Nat
      BY <1>5, <2>3
    <3>1. l > 1 /\ ~IsSpill(w[l - 1]) /\ w[l - 1].dest = w[l].src1
      BY <1>1, <3>0, <2>6 DEF Spaced, Stored
    <3>2. w[l].src1 \in S
      <4>1. RegOf(w[l]) \in S
        BY <1>1, <2>4, <3>0, LaidFacts
      <4>. QED  BY <2>6, <4>1 DEF RegOf
    <3>3. l - 1 \in 1 .. k /\ h[n - 1] <= l - 1 /\ l - 1 < k
      BY <1>5, <2>0, <2>3, <3>0, <3>1
    <3>4. PICK m \in 1 .. n : h[m] = l - 1
      BY <1>2, <3>1, <3>3
    <3>5. m # n
      BY <1>8, <3>3, <3>4
    <3>6. h[m] = h[n - 1]
      BY <2>0, <2>2, <3>3, <3>4, <3>5
    <3>7. w[l - 1] = s[n - 1]
      <4>1. m = n - 1 \/ m < n - 1
        BY <1>1, <3>5
      <4>2. m < n - 1 => h[m] < h[n - 1]
        BY <1>2, <2>0
      <4>3. h[n - 1] \in Nat
        BY <1>5, <2>0
      <4>4. m = n - 1
        BY <3>6, <4>1, <4>2, <4>3
      <4>5. w[h[n - 1]] = s[n - 1]
        BY <1>2, <2>0
      <4>. QED  BY <3>4, <4>4, <4>5
    <3>. QED  BY <1>9, <3>1, <3>2, <3>7
  <2>. QED  BY <2>4, <2>5, <2>6 DEF IsSpill
<1>. QED  BY <1>3, <1>5, <1>8, <1>9, <1>1

LEMMA LaidControlled ==
  ASSUME NEW p \in Programs, NEW g \in Rounds, NEW c \in Blocks(p), NEW f, f = FreshCode(p, g),
         NEW off, Laid(c, f, off)
  PROVE  Controlled(c)
<1>0. /\ f \in Blocks(p) /\ Controlled(f) /\ Len(f) = Len(c) /\ DOMAIN f = DOMAIN c
      /\ DOMAIN c = 1 .. Len(c) /\ Len(c) \in Nat \ {0}
      /\ \A b \in DOMAIN c :
           /\ Len(c[b]) \in Nat /\ DOMAIN c[b] = 1 .. Len(c[b]) /\ c[b] \in Seq(Instr(Regs))
           /\ Len(f[b]) \in Nat /\ DOMAIN f[b] = 1 .. Len(f[b]) /\ f[b] \in Seq(Instr(Regs))
           /\ Spaced(c[b], Slotted(c))
           /\ \A i \in DOMAIN c[b] : IsSpill(c[b][i]) => SpillForm(c[b][i])
  BY LaidFacts DEF Selected, Allocatable
<1>1. c[Len(c)] = << >>
  <2>. PICK b, w : b = Len(c) /\ w = c[b]
    OBVIOUS
  <2>1. b \in DOMAIN c /\ f[b] = << >> /\ w \in Seq(Instr(Regs)) /\ Spaced(w, Slotted(c)) /\ Len(w) \in Nat
        /\ DOMAIN w = 1 .. Len(w)
    BY <1>0 DEF Controlled
  <2>2. PICK h : Embeds(f[b], w, h)
    BY <2>1 DEF Laid
  <2>3. Len(f[b]) = 0
    BY <2>1
  <2>4. \A i \in 1 .. Len(w) : IsSpill(w[i])
    BY <2>2, <2>3 DEF Embeds
  <2>5. ASSUME Len(w) # 0 PROVE FALSE
    <3>1. 1 \in 1 .. Len(w) /\ IsSpill(w[1])
      BY <2>1, <2>4, <2>5
    <3>2. CASE w[1].kind = "store"
      BY <2>1, <3>1, <3>2 DEF Spaced, Stored
    <3>3. CASE w[1].kind = "reload"
      <4>1. Reloaded(w, 1)
        BY <2>1, <3>1, <3>3 DEF Spaced
      <4>2. PICK j \in 1 + 1 .. Len(w) : ~IsSpill(w[j])
        BY <4>1 DEF Reloaded
      <4>. QED  BY <2>1, <2>4, <4>2
    <3>. QED  BY <3>1, <3>2, <3>3 DEF IsSpill
  <2>. QED  BY <2>1, <2>5, EmptySeq
<1>2. ASSUME NEW b \in DOMAIN c \ {Len(c)}
      PROVE  /\ c[b] # << >>
             /\ \A i \in DOMAIN c[b] :
                  /\ c[b][i].kind = "jump" <=> i = Len(c[b])
                  /\ c[b][i].kind = "branch" => i = Len(c[b]) - 1 /\ c[b][i].target < Len(c)
                  /\ c[b][i].kind = "jump" => c[b][i].src1 = NoReg /\ c[b][i].src2 = NoReg
                  /\ IF c[b][i].kind \in {"branch", "jump"}
                     THEN c[b][i].dest = NoReg /\ c[b][i].target \in 2 .. Len(c)
                     ELSE c[b][i].target = 0
  <2>. PICK s, w, n, k : s = f[b] /\ w = c[b] /\ n = Len(f[b]) /\ k = Len(c[b])
    OBVIOUS
  <2>1. PICK h : Embeds(s, w, h)
    BY DEF Laid
  <2>2. /\ n \in Nat \ {0} /\ k \in Nat \ {0} /\ h[n] = k
        /\ n > 1 /\ s[n - 1].dest \notin Slotted(c) => h[n - 1] = k - 1
    BY <2>1, LaidEnd
  <2>3. c[b] # << >>
    BY <1>0, <2>2, EmptySeq
  <2>4. /\ DOMAIN s = 1 .. n /\ DOMAIN w = 1 .. k /\ Slotted(c) \subseteq Vregs /\ NoReg \notin Vregs
    BY <1>0, LaidFacts, Apart DEF Regs
  <2>5. \A i \in DOMAIN w : ~IsSpill(w[i]) <=> \E m \in DOMAIN s : h[m] = i
    BY <2>1, LaidPlaces
  <2>6. ASSUME NEW i \in DOMAIN w, IsSpill(w[i]) PROVE i # k /\ w[i].target = 0
    <3>1. i # k
      BY <2>2, <2>4, <2>5, <2>6
    <3>. QED  BY <1>0, <2>6, <3>1 DEF SpillForm
  <2>7. ASSUME NEW m \in DOMAIN s
        PROVE  /\ s[m].kind = "jump" <=> h[m] = k
               /\ s[m].kind = "branch" => h[m] = k - 1 /\ s[m].target < Len(c)
               /\ s[m].kind = "jump" => s[m].src1 = NoReg /\ s[m].src2 = NoReg
               /\ IF s[m].kind \in {"branch", "jump"}
                  THEN s[m].dest = NoReg /\ s[m].target \in 2 .. Len(c)
                  ELSE s[m].target = 0
    <3>1. /\ s[m].kind = "jump" <=> m = n
          /\ s[m].kind = "branch" => m = n - 1 /\ s[m].target < Len(c)
          /\ s[m].kind = "jump" => s[m].src1 = NoReg /\ s[m].src2 = NoReg
          /\ IF s[m].kind \in {"branch", "jump"}
             THEN s[m].dest = NoReg /\ s[m].target \in 2 .. Len(c)
             ELSE s[m].target = 0
      BY <1>0 DEF Controlled
    <3>2. m # n => h[m] # k
      <4>1. m # n => m < n
        BY <2>4
      <4>2. h[m] \in 1 .. k /\ (m < n => h[m] < h[n])
        BY <2>1, <2>2, <2>4 DEF Embeds
      <4>. QED  BY <2>2, <4>1, <4>2
    <3>3. s[m].kind = "branch" => h[m] = k - 1
      <4>1. SUFFICES ASSUME s[m].kind = "branch" PROVE h[m] = k - 1
        OBVIOUS
      <4>2. m = n - 1 /\ n > 1 /\ s[m].dest \notin Slotted(c)
        BY <2>2, <2>4, <3>1, <4>1
      <4>. QED  BY <2>2, <4>2
    <3>. QED  BY <2>2, <3>1, <3>2, <3>3
  <2>8. ASSUME NEW i \in DOMAIN w
        PROVE  /\ w[i].kind = "jump" <=> i = k
               /\ w[i].kind = "branch" => i = k - 1 /\ w[i].target < Len(c)
               /\ w[i].kind = "jump" => w[i].src1 = NoReg /\ w[i].src2 = NoReg
               /\ IF w[i].kind \in {"branch", "jump"}
                  THEN w[i].dest = NoReg /\ w[i].target \in 2 .. Len(c)
                  ELSE w[i].target = 0
    <3>1. CASE IsSpill(w[i])
      BY <2>6, <3>1 DEF IsSpill
    <3>2. CASE ~IsSpill(w[i])
      <4>1. PICK m \in DOMAIN s : h[m] = i
        BY <2>5, <3>2
      <4>2. w[i] = s[m]
        BY <2>1, <2>4, <4>1 DEF Embeds
      <4>. QED  BY <2>7, <4>1, <4>2
    <3>. QED  BY <3>1, <3>2
  <2>. QED  BY <2>3, <2>8
<1>. QED  BY <1>1, <1>2 DEF Controlled

LEMMA LaidReturned ==
  ASSUME NEW p \in Programs, NEW g \in Rounds, NEW c \in Blocks(p), NEW f, f = FreshCode(p, g),
         NEW off, Laid(c, f, off)
  PROVE  Returned(c, p.result)
<1>0. /\ f \in Blocks(p) /\ Returned(f, p.result) /\ Controlled(f) /\ Len(f) = Len(c) /\ DOMAIN f = DOMAIN c
      /\ DOMAIN c = 1 .. Len(c) /\ Slotted(c) \subseteq Vregs
      /\ \A b \in DOMAIN c : DOMAIN f[b] = 1 .. Len(f[b]) /\ DOMAIN c[b] = 1 .. Len(c[b])
  BY LaidFacts DEF Selected, Allocatable
<1>1. Controlled(c)
  BY LaidControlled
<1>a. ASSUME NEW b \in DOMAIN c \ {Len(c)}, NEW h, Embeds(f[b], c[b], h)
      PROVE  /\ Len(f[b]) \in Nat \ {0} /\ Len(c[b]) \in Nat \ {0} /\ h[Len(f[b])] = Len(c[b])
             /\ Len(f[b]) > 1 /\ f[b][Len(f[b]) - 1].dest \notin Slotted(c)
                  => h[Len(f[b]) - 1] = Len(c[b]) - 1
  BY <1>a, LaidEnd
<1>2. ASSUME NEW b \in DOMAIN c, NEW i \in DOMAIN c[b], c[b][i].kind = "jump", c[b][i].target = Len(c),
             NEW x \in p.result
      PROVE  i > 1 /\ c[b][i - 1].dest = x
  <2>1. b # Len(c)
    <3>1. b = Len(c) => DOMAIN c[b] = {}
      BY <1>1 DEF Controlled
    <3>. QED  BY <3>1
  <2>. PICK s, w, n, k : s = f[b] /\ w = c[b] /\ n = Len(f[b]) /\ k = Len(c[b])
    OBVIOUS
  <2>2. PICK h : Embeds(s, w, h)
    BY DEF Laid
  <2>3. /\ n \in Nat \ {0} /\ k \in Nat \ {0} /\ h[n] = k
        /\ n > 1 /\ s[n - 1].dest \notin Slotted(c) => h[n - 1] = k - 1
    <3>1. b \in DOMAIN c \ {Len(c)} /\ Embeds(f[b], c[b], h)
      BY <2>1, <2>2
    <3>. QED  BY <1>a, <3>1
  <2>4. i = k
    BY <1>1, <1>2, <2>1 DEF Controlled
  <2>5. n \in DOMAIN s /\ s[n].kind = "jump" /\ s[n].target = Len(f)
    <3>1. n \in DOMAIN s /\ w[k] = s[n]
      BY <1>0, <2>2, <2>3 DEF Embeds
    <3>. QED  BY <1>0, <1>2, <2>4, <3>1
  <2>6. n > 1 /\ s[n - 1].dest = x
    BY <1>0, <2>5 DEF Returned
  <2>7. x \notin Slotted(c)
    <3>1. x \in Fixed
      BY <1>0, Names DEF Returned
    <3>. QED  BY <1>0, <3>1, Apart
  <2>8. h[n - 1] = k - 1
    BY <2>3, <2>6, <2>7
  <2>9. n - 1 \in 1 .. n
    BY <2>3, <2>6
  <2>10. h[n - 1] \in 1 .. k /\ w[h[n - 1]] = s[n - 1]
    BY <2>2, <2>9 DEF Embeds
  <2>. QED  BY <2>3, <2>4, <2>6, <2>8, <2>10
<1>. QED  BY <1>0, <1>2 DEF Returned

\* What an instruction writes is read, or nothing else is live.
LEMMA LaidUseful ==
  ASSUME NEW p \in Programs, NEW g \in Rounds, NEW c \in Blocks(p), NEW f, f = FreshCode(p, g),
         NEW off, Laid(c, f, off)
  PROVE  Useful(c)
<1>0. /\ Useful(f) /\ DOMAIN f = DOMAIN c /\ Slotted(c) \subseteq Vregs
      /\ \A b \in DOMAIN c :
           /\ Len(c[b]) \in Nat /\ DOMAIN c[b] = 1 .. Len(c[b]) /\ c[b] \in Seq(Instr(Regs))
           /\ Len(f[b]) \in Nat /\ DOMAIN f[b] = 1 .. Len(f[b]) /\ Spaced(c[b], Slotted(c))
           /\ \A i \in DOMAIN f[b] : ~IsSpill(f[b][i])
           /\ \A i \in DOMAIN c[b] : /\ c[b][i] \in Instr(Regs)
                                     /\ IsSpill(c[b][i]) => SpillForm(c[b][i]) /\ RegOf(c[b][i]) \in Slotted(c)
  BY LaidFacts DEF Selected, Allocatable
<1>. SUFFICES ASSUME NEW b \in DOMAIN c, NEW i \in DOMAIN c[b], NEW d, d = c[b][i].dest, d # NoReg
              PROVE  \/ LiveAt(c, b, i + 1, d)
                     \/ \A x \in (Vregs \union Colorable) \ {d} : ~LiveAt(c, b, i + 1, x)
  BY DEF Useful
<1>. PICK s, w, S : s = f[b] /\ w = c[b] /\ S = Slotted(c)
  OBVIOUS
<1>1. i \in 1 .. Len(w) /\ Len(w) \in Nat /\ i + 1 \in Nat \ {0} /\ Spaced(w, S)
  BY <1>0
<1>2. CASE w[i].kind = "reload"
  <2>1. Reloaded(w, i)
    BY <1>1, <1>2 DEF Spaced
  <2>2. PICK j \in i + 1 .. Len(w) : /\ d \in {w[j].src1, w[j].src2}
                                     /\ \A k \in i + 1 .. j - 1 : w[k].dest # d
    BY <2>1 DEF Reloaded
  <2>3. d \in Reads(w[j]) /\ Untouched(w, i + 1, j, d)
    BY <2>2 DEF Reads, Untouched
  <2>. QED  BY <2>3 DEF LiveAt, ReadFrom
<1>3. CASE w[i].kind = "store"
  <2>1. d = NoReg
    BY <1>0, <1>3 DEF SpillForm, IsSpill
  <2>. QED  BY <2>1
<1>4. CASE ~IsSpill(w[i]) /\ d \in S
  <2>1. i + 1 \in 1 .. Len(w) /\ w[i + 1].src1 = d
    BY <1>1, <1>4 DEF Spaced, Saved
  <2>2. i + 1 \in i + 1 .. Len(w) /\ d \in Reads(w[i + 1]) /\ Untouched(w, i + 1, i + 1, d)
    BY <1>1, <2>1 DEF Reads, Untouched
  <2>. QED  BY <2>2 DEF LiveAt, ReadFrom
<1>5. CASE ~IsSpill(w[i]) /\ d \notin S
  <2>1. PICK h : Embeds(s, w, h)
    BY DEF Laid
  <2>2. PICK m \in DOMAIN s : h[m] = i
    BY <1>5, <2>1, LaidPlaces
  <2>3. /\ w[i] = s[m] /\ Upcoming(h, Len(s), m + 1, i + 1)
        /\ i + 1 \in 1 .. Len(w) + 1 /\ m + 1 \in 1 .. Len(s) + 1
    <3>1. Len(s) \in Nat /\ Len(w) \in Nat /\ m \in 1 .. Len(s)
      BY <1>0
    <3>. QED  BY <2>1, <2>2, <3>1, UpcomingAt
  <2>4. ASSUME NEW x \in (Vregs \union Colorable) \ S
        PROVE  LiveAt(c, b, i + 1, x) <=> LiveAt(f, b, m + 1, x)
    BY <2>1, <2>3, LaidLive
  <2>5. \/ LiveAt(f, b, m + 1, d)
        \/ \A x \in (Vregs \union Colorable) \ {d} : ~LiveAt(f, b, m + 1, x)
    <3>1. d = s[m].dest /\ b \in DOMAIN f /\ m \in DOMAIN f[b]
      BY <1>0, <2>3
    <3>. QED  BY <1>0, <3>1 DEF Useful
  <2>6. ASSUME NEW o \in S PROVE ~LiveAt(c, b, i + 1, o)
    <3>1. SUFFICES ASSUME LiveAt(c, b, i + 1, o) PROVE FALSE
      OBVIOUS
    <3>2. \/ i + 1 \in 1 .. Len(w) /\ w[i + 1].kind = "store" /\ w[i + 1].src1 = o
          \/ Fetched(w, i + 1, o)
      BY <1>1, <3>1, SlotLive
    <3>3. CASE i + 1 \in 1 .. Len(w) /\ w[i + 1].kind = "store" /\ w[i + 1].src1 = o
      <4>1. w[(i + 1) - 1].dest = o /\ (i + 1) - 1 = i
        BY <1>1, <3>3 DEF Spaced, Stored
      <4>. QED  BY <1>5, <4>1
    <3>4. CASE Fetched(w, i + 1, o)
      <4>1. PICK j \in 1 .. (i + 1) - 1 : w[j].kind = "reload" /\ Reloads(w, j + 1, i + 1)
        BY <3>4 DEF Fetched
      <4>2. i = j \/ i \in j + 1 .. (i + 1) - 1
        BY <1>1
      <4>. QED  BY <1>5, <4>1, <4>2 DEF Reloads, IsSpill
    <3>. QED  BY <3>2, <3>3, <3>4
  <2>7. d \in Vregs \union Colorable => d \in (Vregs \union Colorable) \ S
    BY <1>5
  <2>8. d \in Vregs \union Colorable
    <3>1. d \in Regs
      BY <1>0 DEF Instr
    <3>2. d \notin Special
      <4>1. Operands(f) /\ d = s[m].dest /\ b \in DOMAIN f /\ m \in DOMAIN f[b]
        BY <1>0, <2>3, LaidFacts DEF Selected, Allocatable
      <4>. QED  BY <4>1 DEF Operands
    <3>. QED  BY <3>1, <3>2 DEF Regs, Fixed, Colorable
  <2>. QED  BY <2>4, <2>5, <2>6, <2>7, <2>8
<1>. QED  BY <1>2, <1>3, <1>4, <1>5 DEF IsSpill

\* Code with spill code in it is as good for run() as the code without.
LEMMA LaidAllocatable ==
  ASSUME NEW p \in Programs, NEW g \in Rounds, NEW c \in Blocks(p), NEW f, f = FreshCode(p, g),
         NEW off, Laid(c, f, off)
  PROVE  Allocatable(c, p.result)
<1>0. /\ Operands(f) /\ Temporaries(f) /\ Locally(f) /\ DOMAIN f = DOMAIN c /\ Slotted(c) \subseteq Vregs
      /\ \A b \in DOMAIN c : DOMAIN c[b] = 1 .. Len(c[b]) /\ DOMAIN f[b] = 1 .. Len(f[b])
  BY LaidFacts DEF Selected, Allocatable
<1>1. Operands(c)
  <2>. SUFFICES ASSUME NEW b \in DOMAIN c, NEW i \in DOMAIN c[b]
                PROVE  /\ c[b][i].dest \notin CalleeSaved \union Special
                       /\ c[b][i].used \subseteq IF c[b][i].kind = "call" THEN CallerSaved ELSE {}
    BY DEF Operands
  <2>1. CASE IsSpill(c[b][i])
    <3>1. c[b][i].dest \in Vregs \union {NoReg} /\ c[b][i].used = {}
      BY <1>0, <2>1, LaidFacts DEF SpillForm
    <3>2. NoReg \notin Fixed /\ Vregs \intersect Fixed = {} /\ CalleeSaved \union Special \subseteq Fixed
      BY Apart, Names DEF Regs, Fixed
    <3>. QED  BY <3>1, <3>2
  <2>2. CASE ~IsSpill(c[b][i])
    <3>1. PICK h : Embeds(f[b], c[b], h)
      BY DEF Laid
    <3>2. PICK m \in DOMAIN f[b] : h[m] = i
      BY <2>2, <3>1, LaidPlaces
    <3>3. c[b][i] = f[b][m]
      BY <1>0, <3>1, <3>2 DEF Embeds
    <3>. QED  BY <1>0, <3>3 DEF Operands
  <2>. QED  BY <2>1, <2>2
<1>2. Temporaries(c)
  <2>. SUFFICES ASSUME NEW r \in Vregs
                PROVE  /\ 1 \notin LiveIn(c, r)
                       /\ \A b \in DOMAIN c :
                            Successors(c, b) \intersect LiveIn(c, r) # {} => Successors(c, b) \subseteq LiveIn(c, r)
    BY DEF Temporaries
  <2>1. CASE r \in Slotted(c)
    <3>1. LiveIn(c, r) = {}
      BY <2>1, SlotLive
    <3>. QED  BY <3>1
  <2>2. CASE r \notin Slotted(c)
    <3>1. LiveIn(c, r) = LiveIn(f, r)
      BY <2>2, LaidLive
    <3>2. \A b \in DOMAIN c : Successors(c, b) = Successors(f, b)
      BY LaidSuccessors
    <3>. QED  BY <1>0, <3>1, <3>2 DEF Temporaries
  <2>. QED  BY <2>1, <2>2
<1>3. Locally(c)
  <2>. SUFFICES ASSUME NEW b \in DOMAIN c \ {1}, NEW x \in Colorable PROVE ~ReadFrom(c[b], 1, x)
    BY DEF Locally
  <2>1. x \notin Slotted(c)
    BY <1>0, Apart DEF Colorable, Fixed
  <2>2. ReadFrom(c[b], 1, x) <=> ReadFrom(f[b], 1, x)
    BY <2>1, LaidLive
  <2>. QED  BY <1>0, <2>2 DEF Locally
<1>. QED  BY <1>1, <1>2, <1>3, LaidControlled, LaidReturned, LaidUseful DEF Allocatable

-----------------------------------------------------------------------------
(* What spill() adds leaves the code laid *)

\* Between two old instructions, only reloads before the second of them, are
\* only reloads still.
LEMMA SpillBetween ==
  ASSUME TypeOK, phase = "spill", Homed(code, failed), NEW b \in DOMAIN code, NEW at, Placed(at, b),
         NEW i \in 1 .. Len(code[b]), NEW j \in 1 .. Len(code[b]), i < j, Reloads(code[b], i, j)
  PROVE  \A k \in at[i] + 1 .. at[j] - 1 :
           /\ SpillBlock(b)[k].kind = "reload"
           /\ \/ SpillBlock(b)[k].dest = failed
              \/ \E m \in i + 1 .. j - 1 : SpillBlock(b)[k] = code[b][m]
<1>1. /\ Len(code[b]) \in Nat /\ DOMAIN code[b] = 1 .. Len(code[b])
      /\ Len(SpillBlock(b)) \in Nat
      /\ \A m \in 1 .. Len(code[b]) : at[m] \in 1 .. Len(SpillBlock(b)) /\ SpillBlock(b)[at[m]] = code[b][m]
      /\ \A m, n \in 1 .. Len(code[b]) : m < n <=> at[m] < at[n]
      /\ \A m \in Uses(b) : SpillBlock(b)[at[m] - 1] = SpillReload(b)
      /\ \A m \in Lasts(b) : m \in 1 .. Len(code[b])
      /\ \A k \in 1 .. Len(SpillBlock(b)) : \/ \E m \in 1 .. Len(code[b]) : at[m] = k
                                            \/ \E m \in Uses(b) : at[m] - 1 = k
                                            \/ \E m \in Lasts(b) : at[m] + 1 = k
  BY SpillBlockShape DEF Padded
<1>. SUFFICES ASSUME NEW k \in at[i] + 1 .. at[j] - 1
              PROVE  /\ SpillBlock(b)[k].kind = "reload"
                     /\ \/ SpillBlock(b)[k].dest = failed
                        \/ \E m \in i + 1 .. j - 1 : SpillBlock(b)[k] = code[b][m]
  OBVIOUS
<1>2. k \in 1 .. Len(SpillBlock(b)) /\ at[i] < k /\ k < at[j] /\ at[i] \in Int /\ at[j] \in Int /\ k \in Int
  BY <1>1
<1>3. ASSUME NEW m \in 1 .. Len(code[b]), at[m] = k
      PROVE  SpillBlock(b)[k].kind = "reload" /\ \E q \in i + 1 .. j - 1 : SpillBlock(b)[k] = code[b][q]
  <2>1. i < m /\ m < j
    BY <1>1, <1>2, <1>3
  <2>2. m \in i + 1 .. j - 1 /\ m \in i .. j - 1
    BY <2>1
  <2>. QED  BY <1>1, <1>3, <2>2 DEF Reloads
<1>4. ASSUME NEW m \in Uses(b), at[m] - 1 = k
      PROVE  SpillBlock(b)[k].kind = "reload" /\ SpillBlock(b)[k].dest = failed
  BY <1>1, <1>4 DEF SpillReload, Blank
<1>5. ASSUME NEW m \in Lasts(b), at[m] + 1 = k PROVE FALSE
  <2>1. m \in 1 .. Len(code[b]) /\ at[m] \in Int
    BY <1>1
  <2>2. ~(at[m] < at[i]) /\ at[m] < at[j]
    BY <1>2, <1>5, <2>1
  <2>3. ~(m < i) /\ m < j
    BY <1>1, <2>1, <2>2
  <2>4. m \in i .. j - 1
    BY <2>1, <2>3
  <2>5. code[b][m].kind = "reload"
    BY <2>4 DEF Reloads
  <2>6. failed # code[b][m].dest
    BY <1>1, <2>1, <2>5 DEF Homed, IsSpill, Mentioned
  <2>. QED  BY <2>6 DEF Lasts, Defs
<1>. QED  BY <1>1, <1>2, <1>3, <1>4, <1>5

\* A block stays spaced, with a slot for the spilled register.
LEMMA SpillSpaced ==
  ASSUME TypeOK, phase = "spill", Homed(code, failed), NEW b \in DOMAIN code, NEW S \in SUBSET Vregs,
         Spaced(code[b], S)
  PROVE  Spaced(SpillBlock(b), S \union {failed})
<1>. PICK at : Placed(at, b)
  BY SpillPlaces
<1>. PICK w, v, U, L : w = code[b] /\ v = SpillBlock(b) /\ U = Uses(b) /\ L = Lasts(b)
  OBVIOUS
<1>1. /\ Len(w) \in Nat /\ DOMAIN w = 1 .. Len(w)
      /\ Len(v) \in Nat
      /\ \A i \in 1 .. Len(w) : at[i] \in 1 .. Len(v) /\ v[at[i]] = w[i]
      /\ \A i, j \in 1 .. Len(w) : i < j <=> at[i] < at[j]
      /\ \A i \in U : /\ i \in 1 .. Len(w) /\ at[i] - 1 \in 1 .. Len(v)
                      /\ v[at[i] - 1] = SpillReload(b)
      /\ \A i \in L : /\ i \in 1 .. Len(w) /\ at[i] + 1 \in 1 .. Len(v)
                      /\ v[at[i] + 1] = SpillStore(b)
      /\ \A k \in 1 .. Len(v) : \/ \E i \in 1 .. Len(w) : at[i] = k
                                \/ \E i \in U : at[i] - 1 = k
                                \/ \E i \in L : at[i] + 1 = k
      /\ \A i \in 1 .. Len(w) : i > 1 /\ i \notin U /\ i - 1 \notin L => at[i] = at[i - 1] + 1
  <2>1. Padded(code[b], SpillBlock(b), at, Uses(b), Lasts(b), SpillReload(b), SpillStore(b))
    BY SpillBlockShape
  <2>2. Padded(w, v, at, U, L, SpillReload(b), SpillStore(b))
    BY <2>1
  <2>. QED  BY <2>2 DEF Padded
<1>2. /\ \A i \in 1 .. Len(w) : IsSpill(w[i]) => failed \notin Mentioned(w[i])
      /\ \A i \in 1 .. Len(w) : i \in U <=> failed \in {w[i].src1, w[i].src2}
      /\ \A i \in 1 .. Len(w) : i \in L <=> w[i].dest = failed
      /\ failed \in Vregs
  <2>1. \A i \in 1 .. Len(w) : IsSpill(w[i]) => failed \notin Mentioned(w[i])
    BY <1>1 DEF Homed
  <2>2. \A i, j \in 1 .. Len(w) : w[i].dest = failed /\ w[j].dest = failed => i = j
    <3>1. \A i, j \in DOMAIN code[b] : code[b][i].dest = failed /\ code[b][j].dest = failed => i = j
      BY DEF Homed
    <3>. QED  BY <1>1, <3>1
  <2>3. \A i \in 1 .. Len(w) : i \in Defs(b) <=> w[i].dest = failed
    BY <1>1 DEF Defs
  <2>4. Defs(b) \subseteq 1 .. Len(w)
    BY <1>1 DEF Defs
  <2>5. ASSUME NEW i \in 1 .. Len(w), w[i].dest = failed PROVE i \in L
    <3>1. i \in Defs(b)
      BY <2>3, <2>5
    <3>2. \A j \in Defs(b) : j = i
      BY <2>2, <2>3, <2>4, <2>5
    <3>. QED  BY <3>1, <3>2 DEF Lasts
  <2>6. \A i \in L : i \in Defs(b)
    BY DEF Lasts
  <2>7. \A i \in 1 .. Len(w) : i \in U <=> failed \in {w[i].src1, w[i].src2}
    BY <1>1 DEF Uses
  <2>8. failed \in Vregs
    BY DEF TypeOK
  <2>. QED  BY <2>1, <2>3, <2>5, <2>6, <2>7, <2>8
<1>3. /\ SpillReload(b).kind = "reload" /\ SpillReload(b).dest = failed /\ SpillForm(SpillReload(b))
      /\ SpillStore(b).kind = "store" /\ SpillStore(b).src1 = failed /\ SpillForm(SpillStore(b))
  BY <1>2 DEF SpillReload, SpillStore, Blank, SpillForm
<1>4. \A i \in 1 .. Len(w) :
        /\ SpillForm(w[i])
        /\ w[i].kind = "store" => Stored(w, i)
        /\ w[i].kind = "reload" => Reloaded(w, i)
        /\ ~IsSpill(w[i]) /\ w[i].dest \in S => Saved(w, i)
        /\ ~IsSpill(w[i]) => \A o \in {w[i].src1, w[i].src2} \intersect S : Fetched(w, i, o)
  BY DEF Spaced
\* Old instructions.
<1>5. ASSUME NEW i \in 1 .. Len(w), w[i].kind = "store" PROVE Stored(v, at[i])
  <2>1. i > 1 /\ ~IsSpill(w[i - 1]) /\ w[i - 1].dest = w[i].src1
    BY <1>4, <1>5 DEF Stored
  <2>2. i - 1 \in 1 .. Len(w) /\ IsSpill(w[i])
    BY <1>5, <2>1 DEF IsSpill
  <2>3. w[i].src1 # failed /\ i \notin U
    BY <1>2, <2>2 DEF Mentioned
  <2>4. i - 1 \notin L
    BY <1>2, <2>1, <2>2, <2>3
  <2>5. at[i] = at[i - 1] + 1 /\ at[i - 1] \in 1 .. Len(v) /\ v[at[i - 1]] = w[i - 1] /\ v[at[i]] = w[i]
    BY <1>1, <2>1, <2>2, <2>3, <2>4
  <2>6. at[i] > 1 /\ at[i] - 1 = at[i - 1]
    BY <1>1, <2>5
  <2>. QED  BY <2>1, <2>5, <2>6 DEF Stored
<1>6. ASSUME NEW i \in 1 .. Len(w), NEW j \in 1 .. Len(w), i < j, Reloads(w, i, j), w[i].kind = "reload"
      PROVE  /\ at[i] < at[j] /\ at[i] \in 1 .. Len(v) /\ at[j] \in 1 .. Len(v)
             /\ \A k \in at[i] + 1 .. at[j] - 1 :
                  v[k].kind = "reload" /\ (v[k].dest = failed \/ \E m \in i + 1 .. j - 1 : v[k] = w[m])
  <2>1. i \in 1 .. Len(code[b]) /\ j \in 1 .. Len(code[b]) /\ Reloads(code[b], i, j)
    BY <1>6
  <2>2. \A k \in at[i] + 1 .. at[j] - 1 :
          /\ SpillBlock(b)[k].kind = "reload"
          /\ \/ SpillBlock(b)[k].dest = failed
             \/ \E m \in i + 1 .. j - 1 : SpillBlock(b)[k] = code[b][m]
    BY <1>6, <2>1, SpillBetween
  <2>. QED  BY <1>1, <1>6, <2>2
<1>7. ASSUME NEW i \in 1 .. Len(w), w[i].kind = "reload" PROVE Reloaded(v, at[i])
  <2>1. PICK j \in i + 1 .. Len(w) :
          /\ ~IsSpill(w[j]) /\ w[i].dest \in {w[j].src1, w[j].src2}
          /\ Reloads(w, i + 1, j)
          /\ \A k \in i + 1 .. j - 1 : w[k].dest # w[i].dest
    BY <1>4, <1>7 DEF Reloaded
  <2>2. j \in 1 .. Len(w) /\ i < j
    BY <1>1
  <2>3. Reloads(w, i, j)
    <3>1. \A k \in i .. j - 1 : k = i \/ k \in i + 1 .. j - 1
      OBVIOUS
    <3>. QED  BY <1>7, <2>1, <3>1 DEF Reloads
  <2>4. /\ at[i] < at[j] /\ at[i] \in 1 .. Len(v) /\ at[j] \in 1 .. Len(v)
        /\ \A k \in at[i] + 1 .. at[j] - 1 :
             v[k].kind = "reload" /\ (v[k].dest = failed \/ \E m \in i + 1 .. j - 1 : v[k] = w[m])
    BY <1>6, <1>7, <2>2, <2>3
  <2>5. w[i].dest # failed
    BY <1>2, <1>7 DEF IsSpill, Mentioned
  <2>6. \A k \in at[i] + 1 .. at[j] - 1 : v[k].kind = "reload" /\ v[k].dest # w[i].dest
    BY <2>1, <2>4, <2>5
  <2>7. v[at[i]] = w[i] /\ v[at[j]] = w[j]
    BY <1>1, <2>2
  <2>8. at[j] \in at[i] + 1 .. Len(v)
    BY <1>1, <2>4
  <2>. QED  BY <2>1, <2>6, <2>7, <2>8 DEF Reloaded, Reloads
<1>8. ASSUME NEW i \in 1 .. Len(w), ~IsSpill(w[i]), w[i].dest \in S \union {failed} PROVE Saved(v, at[i])
  <2>0. at[i] \in 1 .. Len(v) /\ v[at[i]] = w[i]
    BY <1>1
  <2>1. CASE w[i].dest = failed
    <3>1. at[i] + 1 \in 1 .. Len(v) /\ v[at[i] + 1] = SpillStore(b)
      BY <1>1, <1>2, <2>1
    <3>2. at[i] < Len(v)
      BY <1>1, <2>0, <3>1
    <3>. QED  BY <1>3, <2>0, <2>1, <3>1, <3>2 DEF Saved
  <2>2. CASE w[i].dest # failed
    <3>1. i < Len(w) /\ w[i + 1].kind = "store" /\ w[i + 1].src1 = w[i].dest
      BY <1>4, <1>8, <2>2 DEF Saved
    <3>2. i + 1 \in 1 .. Len(w) /\ i + 1 > 1 /\ (i + 1) - 1 = i
      BY <1>1, <3>1
    <3>3. i + 1 \notin U /\ i \notin L
      BY <1>2, <2>2, <3>1, <3>2 DEF IsSpill, Mentioned
    <3>4. at[i + 1] = at[i] + 1
      BY <1>1, <3>2, <3>3
    <3>5. at[i + 1] \in 1 .. Len(v) /\ v[at[i + 1]] = w[i + 1]
      BY <1>1, <3>2
    <3>6. at[i] < Len(v)
      BY <1>1, <2>0, <3>4, <3>5
    <3>. QED  BY <2>0, <3>1, <3>4, <3>5, <3>6 DEF Saved
  <2>. QED  BY <2>1, <2>2
<1>9. ASSUME NEW i \in 1 .. Len(w), ~IsSpill(w[i]), NEW o \in {w[i].src1, w[i].src2} \intersect (S \union {failed})
      PROVE  Fetched(v, at[i], o)
  <2>0. at[i] \in 1 .. Len(v)
    BY <1>1
  <2>1. CASE o = failed
    <3>1. i \in U
      BY <1>2, <2>1
    <3>2. at[i] - 1 \in 1 .. Len(v) /\ v[at[i] - 1] = SpillReload(b)
      BY <1>1, <3>1
    <3>3. at[i] - 1 \in 1 .. at[i] - 1 /\ \A k \in (at[i] - 1) + 1 .. at[i] - 1 : FALSE
      BY <1>1, <2>0, <3>2
    <3>. QED  BY <1>3, <2>1, <3>2, <3>3 DEF Fetched, Reloads
  <2>2. CASE o # failed
    <3>1. Fetched(w, i, o)
      BY <1>4, <1>9, <2>2
    <3>2. PICK j \in 1 .. i - 1 : w[j].kind = "reload" /\ w[j].dest = o /\ Reloads(w, j + 1, i)
      BY <3>1 DEF Fetched
    <3>3. j \in 1 .. Len(w) /\ j < i
      BY <1>1
    <3>4. Reloads(w, j, i)
      <4>1. \A k \in j .. i - 1 : k = j \/ k \in j + 1 .. i - 1
        OBVIOUS
      <4>. QED  BY <3>2, <4>1 DEF Reloads
    <3>5. /\ at[j] < at[i] /\ at[j] \in 1 .. Len(v)
          /\ \A k \in at[j] + 1 .. at[i] - 1 : v[k].kind = "reload"
      BY <1>6, <3>2, <3>3, <3>4
    <3>6. at[j] \in 1 .. at[i] - 1 /\ v[at[j]] = w[j]
      BY <1>1, <2>0, <3>3, <3>5
    <3>. QED  BY <3>2, <3>5, <3>6 DEF Fetched, Reloads
  <2>. QED  BY <2>1, <2>2
\* New ones.
<1>10. ASSUME NEW i \in U PROVE SpillForm(v[at[i] - 1]) /\ v[at[i] - 1].kind = "reload" /\ Reloaded(v, at[i] - 1)
  <2>1. i \in 1 .. Len(w) /\ at[i] - 1 \in 1 .. Len(v) /\ v[at[i] - 1] = SpillReload(b)
        /\ at[i] \in 1 .. Len(v) /\ v[at[i]] = w[i]
    BY <1>1
  <2>2. failed \in {w[i].src1, w[i].src2} /\ ~IsSpill(w[i])
    BY <1>2, <2>1 DEF Mentioned
  <2>3. at[i] \in (at[i] - 1) + 1 .. Len(v) /\ \A k \in (at[i] - 1) + 1 .. at[i] - 1 : FALSE
    BY <1>1, <2>1
  <2>. QED  BY <1>3, <2>1, <2>2, <2>3 DEF Reloaded, Reloads
<1>11. ASSUME NEW i \in L PROVE SpillForm(v[at[i] + 1]) /\ v[at[i] + 1].kind = "store" /\ Stored(v, at[i] + 1)
  <2>1. i \in 1 .. Len(w) /\ at[i] + 1 \in 1 .. Len(v) /\ v[at[i] + 1] = SpillStore(b)
        /\ at[i] \in 1 .. Len(v) /\ v[at[i]] = w[i]
    BY <1>1
  <2>2. w[i].dest = failed /\ ~IsSpill(w[i])
    BY <1>2, <2>1 DEF Mentioned
  <2>3. (at[i] + 1) - 1 = at[i] /\ at[i] + 1 > 1
    BY <1>1, <2>1
  <2>. QED  BY <1>3, <2>1, <2>2, <2>3 DEF Stored
<1>12. ASSUME NEW k \in 1 .. Len(v)
       PROVE  /\ SpillForm(v[k])
              /\ v[k].kind = "store" => Stored(v, k)
              /\ v[k].kind = "reload" => Reloaded(v, k)
              /\ ~IsSpill(v[k]) /\ v[k].dest \in S \union {failed} => Saved(v, k)
              /\ ~IsSpill(v[k]) =>
                   \A o \in {v[k].src1, v[k].src2} \intersect (S \union {failed}) : Fetched(v, k, o)
  <2>1. CASE \E i \in 1 .. Len(w) : at[i] = k
    <3>1. PICK i \in 1 .. Len(w) : at[i] = k
      BY <2>1
    <3>2. v[k] = w[i]
      BY <1>1, <3>1
    <3>. QED  BY <1>4, <1>5, <1>7, <1>8, <1>9, <3>1, <3>2
  <2>2. CASE \E i \in U : at[i] - 1 = k
    <3>1. SpillForm(v[k]) /\ v[k].kind = "reload" /\ Reloaded(v, k)
      BY <1>10, <2>2
    <3>. QED  BY <3>1 DEF IsSpill
  <2>3. CASE \E i \in L : at[i] + 1 = k
    <3>1. SpillForm(v[k]) /\ v[k].kind = "store" /\ Stored(v, k)
      BY <1>11, <2>3
    <3>. QED  BY <3>1 DEF IsSpill
  <2>. QED  BY <1>1, <2>1, <2>2, <2>3
<1>13. Spaced(v, S \union {failed})
  BY <1>12 DEF Spaced
<1>. QED  BY <1>13

\* spill() finds one slot below the frame as it is: one definition, and the
\* uses behind it.
LEMMA SpillSlot ==
  ASSUME TypeOK, phase = "spill", Homed(code, failed)
  PROVE  /\ \A b \in DOMAIN code : Uses(b) # {} \/ Lasts(b) # {} =>
               SpillOffset(b) = offset - 8 /\ SpillOffset(Len(code)) = offset - 8
         /\ SpillOffset(Len(code)) \in Int /\ SpillOffset(Len(code)) <= offset
<1>1. DOMAIN code = 1 .. Len(code) /\ Len(code) \in Nat /\ offset \in Int
  BY BlocksShape DEF TypeOK, Blocks
<1>2. ASSUME NEW a \in DOMAIN code, NEW i \in Defs(a), NEW b \in DOMAIN code, a <= b
      PROVE  DefsUpTo(b) = {<<a, i>>}
  <2>1. \A e \in DOMAIN code : \A j \in Defs(e) : e = a /\ j = i
    BY DEF Defs, Homed
  <2>2. a \in 1 .. b /\ \A e \in 1 .. b : e \in DOMAIN code
    BY <1>1, <1>2
  <2>3. DefsUpTo(b) \subseteq {<<a, i>>}
    BY <2>1, <2>2 DEF DefsUpTo
  <2>4. <<a, i>> \in DefsUpTo(b)
    BY <2>2 DEF DefsUpTo
  <2>. QED  BY <2>3, <2>4
<1>3. ASSUME NEW a \in DOMAIN code, NEW i \in Defs(a), NEW b \in DOMAIN code, a <= b
      PROVE  SpillOffset(b) = offset - 8
  <2>1. Cardinality(DefsUpTo(b)) = 1
    <3>1. Cardinality({<<a, i>>}) = 1
      BY FS_Singleton
    <3>. QED  BY <1>2, <1>3, <3>1
  <2>. QED  BY <1>1, <2>1 DEF SpillOffset
<1>4. ASSUME NEW b \in DOMAIN code, Uses(b) # {} \/ Lasts(b) # {}
      PROVE  \E a \in DOMAIN code : a <= b /\ Defs(a) # {}
  <2>1. CASE Lasts(b) # {}
    BY <1>1, <2>1 DEF Lasts
  <2>2. CASE Uses(b) # {}
    <3>1. PICK j \in DOMAIN code[b] : failed \in {code[b][j].src1, code[b][j].src2}
      BY <2>2 DEF Uses
    <3>2. PICK a \in 1 .. b : \E i \in DOMAIN code[a] : code[a][i].dest = failed
      BY <3>1 DEF Homed
    <3>3. a \in DOMAIN code /\ a <= b
      BY <1>1
    <3>. QED  BY <3>2, <3>3 DEF Defs
  <2>. QED  BY <1>4, <2>1, <2>2
<1>5. ASSUME NEW b \in DOMAIN code, Uses(b) # {} \/ Lasts(b) # {}
      PROVE  SpillOffset(b) = offset - 8 /\ SpillOffset(Len(code)) = offset - 8
  <2>1. PICK a \in DOMAIN code : a <= b /\ Defs(a) # {}
    BY <1>4, <1>5
  <2>2. PICK i \in Defs(a) : TRUE
    BY <2>1
  <2>3. a <= Len(code) /\ Len(code) \in DOMAIN code
    BY <1>1
  <2>. QED  BY <1>3, <2>1, <2>2, <2>3
<1>6. SpillOffset(Len(code)) \in Int /\ SpillOffset(Len(code)) <= offset
  <2>1. CASE \E a \in DOMAIN code : Defs(a) # {}
    <3>1. PICK a \in DOMAIN code : Defs(a) # {}
      BY <2>1
    <3>2. PICK i \in Defs(a) : TRUE
      BY <3>1
    <3>3. a <= Len(code) /\ Len(code) \in DOMAIN code
      BY <1>1
    <3>4. SpillOffset(Len(code)) = offset - 8
      BY <1>3, <3>2, <3>3
    <3>. QED  BY <1>1, <3>4
  <2>2. CASE ~\E a \in DOMAIN code : Defs(a) # {}
    <3>1. \A a \in 1 .. Len(code) : Defs(a) = {}
      BY <1>1, <2>2
    <3>2. DefsUpTo(Len(code)) = {}
      BY <3>1 DEF DefsUpTo
    <3>3. Cardinality(DefsUpTo(Len(code))) = 0
      BY <3>2, FS_EmptySet
    <3>. QED  BY <1>1, <3>3 DEF SpillOffset
  <2>. QED  BY <2>1, <2>2
<1>. QED  BY <1>5, <1>6

\* The instructions of the selected code have their places in the new block.
LEMMA SpillEmbeds ==
  ASSUME TypeOK, phase = "spill", NEW b \in DOMAIN code, NEW s, NEW h, Len(s) \in Nat, Embeds(s, code[b], h)
  PROVE  \E k : Embeds(s, SpillBlock(b), k)
<1>. PICK at : Placed(at, b)
  BY SpillPlaces
<1>. PICK w, v, U, L : w = code[b] /\ v = SpillBlock(b) /\ U = Uses(b) /\ L = Lasts(b)
  OBVIOUS
<1>1. Padded(w, v, at, U, L, SpillReload(b), SpillStore(b))
  BY SpillBlockShape
<1>2. /\ h \in [1 .. Len(s) -> 1 .. Len(w)]
      /\ \A m, n \in 1 .. Len(s) : m < n => h[m] < h[n]
      /\ \A m \in 1 .. Len(s) : w[h[m]] = s[m]
      /\ \A i \in 1 .. Len(w) : IsSpill(w[i]) \/ \E m \in 1 .. Len(s) : h[m] = i
  BY DEF Embeds
<1>3. /\ \A i \in 1 .. Len(w) : at[i] \in 1 .. Len(v) /\ v[at[i]] = w[i]
      /\ \A i, j \in 1 .. Len(w) : i < j <=> at[i] < at[j]
      /\ \A k \in 1 .. Len(v) : \/ \E i \in 1 .. Len(w) : at[i] = k
                                \/ \E i \in U : v[k] = SpillReload(b)
                                \/ \E i \in L : v[k] = SpillStore(b)
  <2>1. \A k \in 1 .. Len(v) : \/ \E i \in 1 .. Len(w) : at[i] = k
                               \/ \E i \in U : at[i] - 1 = k
                               \/ \E i \in L : at[i] + 1 = k
    BY <1>1 DEF Padded
  <2>2. /\ \A i \in U : v[at[i] - 1] = SpillReload(b)
        /\ \A i \in L : v[at[i] + 1] = SpillStore(b)
    BY <1>1 DEF Padded
  <2>3. /\ \A i \in 1 .. Len(w) : at[i] \in 1 .. Len(v) /\ v[at[i]] = w[i]
        /\ \A i, j \in 1 .. Len(w) : i < j <=> at[i] < at[j]
    BY <1>1 DEF Padded
  <2>4. ASSUME NEW k \in 1 .. Len(v), \E i \in U : at[i] - 1 = k PROVE \E i \in U : v[k] = SpillReload(b)
    BY <2>2, <2>4
  <2>5. ASSUME NEW k \in 1 .. Len(v), \E i \in L : at[i] + 1 = k PROVE \E i \in L : v[k] = SpillStore(b)
    BY <2>2, <2>5
  <2>. QED  BY <2>1, <2>3, <2>4, <2>5
<1>. PICK k : k = [m \in 1 .. Len(s) |-> at[h[m]]]
  OBVIOUS
<1>4. \A m \in 1 .. Len(s) : h[m] \in 1 .. Len(w) /\ k[m] = at[h[m]]
  BY <1>2
<1>5. k \in [1 .. Len(s) -> 1 .. Len(v)]
  BY <1>3, <1>4
<1>6. \A m, n \in 1 .. Len(s) : m < n => k[m] < k[n]
  BY <1>2, <1>3, <1>4
<1>7. \A m \in 1 .. Len(s) : v[k[m]] = s[m]
  BY <1>2, <1>3, <1>4
<1>8. ASSUME NEW j \in 1 .. Len(v) PROVE IsSpill(v[j]) \/ \E m \in 1 .. Len(s) : k[m] = j
  <2>1. CASE \E i \in 1 .. Len(w) : at[i] = j
    <3>1. PICK i \in 1 .. Len(w) : at[i] = j
      BY <2>1
    <3>2. v[j] = w[i]
      BY <1>3, <3>1
    <3>3. ASSUME NEW m \in 1 .. Len(s), h[m] = i PROVE k[m] = j
      BY <1>4, <3>1, <3>3
    <3>. QED  BY <1>2, <3>2, <3>3
  <2>2. CASE v[j] = SpillReload(b) \/ v[j] = SpillStore(b)
    BY <2>2 DEF IsSpill, SpillReload, SpillStore, Blank
  <2>. QED  BY <1>3, <2>1, <2>2
<1>9. Embeds(s, v, k)
  BY <1>5, <1>6, <1>7, <1>8 DEF Embeds
<1>. QED  BY <1>9

\* The spill code of a block: as it was, or for the failed register.
LEMMA SpillKinds ==
  ASSUME TypeOK, phase = "spill", NEW b \in DOMAIN code, NEW k \in DOMAIN SpillBlock(b), IsSpill(SpillBlock(b)[k])
  PROVE  \/ \E i \in DOMAIN code[b] : SpillBlock(b)[k] = code[b][i]
         \/ /\ Uses(b) # {} \/ Lasts(b) # {}
            /\ RegOf(SpillBlock(b)[k]) = failed /\ SpillBlock(b)[k].off = SpillOffset(b)
<1>. PICK at : Placed(at, b)
  BY SpillPlaces
<1>1. Padded(code[b], SpillBlock(b), at, Uses(b), Lasts(b), SpillReload(b), SpillStore(b))
  BY SpillBlockShape
<1>2. DOMAIN SpillBlock(b) = 1 .. Len(SpillBlock(b))
  BY SpillBlockType, LenProperties
<1>3. \/ \E i \in 1 .. Len(code[b]) : at[i] = k
      \/ \E i \in Uses(b) : at[i] - 1 = k
      \/ \E i \in Lasts(b) : at[i] + 1 = k
  BY <1>1, <1>2 DEF Padded
<1>4. CASE \E i \in 1 .. Len(code[b]) : at[i] = k
  BY <1>1, <1>4 DEF Padded
<1>5. CASE \E i \in Uses(b) : at[i] - 1 = k
  <2>1. SpillBlock(b)[k] = SpillReload(b) /\ Uses(b) # {}
    BY <1>1, <1>5 DEF Padded
  <2>. QED  BY <2>1 DEF SpillReload, Blank, RegOf
<1>6. CASE \E i \in Lasts(b) : at[i] + 1 = k
  <2>1. SpillBlock(b)[k] = SpillStore(b) /\ Lasts(b) # {}
    BY <1>1, <1>6 DEF Padded
  <2>. QED  BY <2>1 DEF SpillStore, Blank, RegOf
<1>. QED  BY <1>3, <1>4, <1>5, <1>6

\* spill() leaves the selected code with spill code in it.
LEMMA SpillKeepsLaid ==
  ASSUME TypeOK, phase = "spill", Homed(code, failed), NEW f, \A b \in DOMAIN f : Len(f[b]) \in Nat,
         Laid(code, f, offset)
  PROVE  Laid([b \in DOMAIN code |-> SpillBlock(b)], f, SpillOffset(Len(code)))
<1>. PICK c : c = [b \in DOMAIN code |-> SpillBlock(b)]
  OBVIOUS
<1>1. DOMAIN c = DOMAIN f /\ DOMAIN c = DOMAIN code /\ \A b \in DOMAIN code : c[b] = SpillBlock(b)
  BY DEF Laid
<1>2. failed \in Vregs /\ offset \in Int
  BY DEF TypeOK
\* One of the old stores and reloads, or a new one.
<1>3. \A b \in DOMAIN code : \A k \in DOMAIN c[b] : IsSpill(c[b][k]) =>
        \/ /\ RegOf(c[b][k]) # failed
           /\ \E i \in DOMAIN code[b] : c[b][k] = code[b][i]
        \/ /\ RegOf(c[b][k]) = failed /\ c[b][k].off = offset - 8
           /\ SpillOffset(Len(code)) = offset - 8
  <2>. SUFFICES ASSUME NEW b \in DOMAIN code, NEW k \in DOMAIN c[b], IsSpill(c[b][k])
                PROVE  \/ /\ RegOf(c[b][k]) # failed
                          /\ \E i \in DOMAIN code[b] : c[b][k] = code[b][i]
                       \/ /\ RegOf(c[b][k]) = failed /\ c[b][k].off = offset - 8
                          /\ SpillOffset(Len(code)) = offset - 8
    OBVIOUS
  <2>1. \/ \E i \in DOMAIN code[b] : c[b][k] = code[b][i]
        \/ /\ Uses(b) # {} \/ Lasts(b) # {}
           /\ RegOf(c[b][k]) = failed /\ c[b][k].off = SpillOffset(b)
    BY <1>1, SpillKinds
  <2>2. ASSUME NEW i \in DOMAIN code[b], c[b][k] = code[b][i] PROVE RegOf(c[b][k]) # failed
    BY <2>2 DEF Homed, Mentioned, RegOf
  <2>. QED  BY <2>1, <2>2, SpillSlot
<1>4. Slotted(c) \subseteq Slotted(code) \union {failed}
  BY <1>1, <1>3 DEF Slotted
<1>5. ASSUME NEW b \in DOMAIN c PROVE (\E h : Embeds(f[b], c[b], h)) /\ Spaced(c[b], Slotted(c))
  <2>1. b \in DOMAIN code /\ c[b] = SpillBlock(b) /\ Slotted(code) \in SUBSET Vregs
    BY <1>1 DEF Slotted
  <2>2. Spaced(c[b], Slotted(code) \union {failed})
    BY <2>1, SpillSpaced DEF Laid
  <2>3. Spaced(c[b], Slotted(c))
    BY <1>4, <2>2 DEF Spaced
  <2>4. PICK h : Embeds(f[b], code[b], h)
    BY <2>1 DEF Laid
  <2>5. \E k : Embeds(f[b], SpillBlock(b), k)
    BY <1>1, <2>1, <2>4, SpillEmbeds
  <2>. QED  BY <2>1, <2>3, <2>5
<1>6. \A b \in DOMAIN code : \A i \in DOMAIN code[b] : IsSpill(code[b][i]) => code[b][i].off >= offset
  BY DEF Laid
<1>7. \A b \in DOMAIN code : \A i \in DOMAIN code[b] : code[b][i].off \in Int
  <2>. TAKE b \in DOMAIN code
  <2>. TAKE i \in DOMAIN code[b]
  <2>1. code[b] \in Seq(Instr(Regs))
    BY BlocksShape DEF TypeOK, Blocks
  <2>2. code[b][i] \in Instr(Regs)
    BY <2>1
  <2>. QED  BY <2>2 DEF Instr
<1>8. OneSlot(c)
  <2>. SUFFICES ASSUME NEW a \in DOMAIN code, NEW b \in DOMAIN code, NEW i \in DOMAIN c[a], NEW j \in DOMAIN c[b],
                       IsSpill(c[a][i]), IsSpill(c[b][j])
                PROVE  RegOf(c[a][i]) = RegOf(c[b][j]) <=> c[a][i].off = c[b][j].off
    BY <1>1 DEF OneSlot
  <2>1. CASE RegOf(c[a][i]) # failed /\ RegOf(c[b][j]) # failed
    <3>1. PICK m \in DOMAIN code[a] : c[a][i] = code[a][m]
      BY <1>3, <2>1
    <3>2. PICK n \in DOMAIN code[b] : c[b][j] = code[b][n]
      BY <1>3, <2>1
    <3>. QED  BY <3>1, <3>2 DEF Laid, OneSlot
  <2>2. CASE RegOf(c[a][i]) = failed /\ RegOf(c[b][j]) = failed
    BY <1>3, <2>2
  <2>3. CASE RegOf(c[a][i]) # failed /\ RegOf(c[b][j]) = failed
    <3>1. PICK m \in DOMAIN code[a] : c[a][i] = code[a][m]
      BY <1>3, <2>3
    <3>2. c[a][i].off >= offset /\ c[a][i].off \in Int /\ c[b][j].off = offset - 8
      BY <1>3, <1>6, <1>7, <2>3, <3>1
    <3>. QED  BY <1>2, <2>3, <3>2
  <2>4. CASE RegOf(c[a][i]) = failed /\ RegOf(c[b][j]) # failed
    <3>1. PICK m \in DOMAIN code[b] : c[b][j] = code[b][m]
      BY <1>3, <2>4
    <3>2. c[b][j].off >= offset /\ c[b][j].off \in Int /\ c[a][i].off = offset - 8
      BY <1>3, <1>6, <1>7, <2>4, <3>1
    <3>. QED  BY <1>2, <2>4, <3>2
  <2>. QED  BY <2>1, <2>2, <2>3, <2>4
<1>9. ASSUME NEW b \in DOMAIN c, NEW k \in DOMAIN c[b], IsSpill(c[b][k])
      PROVE  c[b][k].off >= SpillOffset(Len(code))
  <2>1. CASE RegOf(c[b][k]) # failed
    <3>1. PICK i \in DOMAIN code[b] : c[b][k] = code[b][i]
      BY <1>1, <1>3, <1>9, <2>1
    <3>2. c[b][k].off >= offset /\ c[b][k].off \in Int
      BY <1>1, <1>6, <1>7, <1>9, <3>1
    <3>. QED  BY <1>2, <3>2, SpillSlot
  <2>2. CASE RegOf(c[b][k]) = failed
    <3>1. c[b][k].off = offset - 8 /\ SpillOffset(Len(code)) = offset - 8
      BY <1>1, <1>3, <1>9, <2>2
    <3>. QED  BY <1>2, <3>1
  <2>. QED  BY <2>1, <2>2
<1>10. Laid(c, f, SpillOffset(Len(code)))
  BY <1>1, <1>5, <1>8, <1>9 DEF Laid
<1>. QED  BY <1>10

\* What emitFunction selects has no spill code in it.
LEMMA FreshLaid ==
  ASSUME NEW p \in Programs, NEW g \in Rounds, NEW f, f = FreshCode(p, g), NEW off
  PROVE  Laid(f, f, off)
<1>1. /\ f \in Blocks(p)
      /\ \A b \in DOMAIN f : f[b] \in Seq(Instr(Regs)) /\ \A i \in DOMAIN f[b] : ~IsSpill(f[b][i])
  BY FreshCodeType, BlocksShape, SelectedOK DEF Selected, Blocks
<1>2. ASSUME NEW b \in DOMAIN f PROVE \E h : Embeds(f[b], f[b], h)
  <2>1. Len(f[b]) \in Nat /\ DOMAIN f[b] = 1 .. Len(f[b])
    BY <1>1, LenProperties
  <2>. PICK h : h = [m \in 1 .. Len(f[b]) |-> m]
    OBVIOUS
  <2>2. Embeds(f[b], f[b], h)
    BY <2>1 DEF Embeds
  <2>. QED  BY <2>2
<1>3. Slotted(f) = {}
  BY <1>1 DEF Slotted
<1>4. ASSUME NEW b \in DOMAIN f PROVE Spaced(f[b], {})
  <2>1. \A i \in 1 .. Len(f[b]) : ~IsSpill(f[b][i])
    BY <1>1, LenProperties
  <2>. QED  BY <2>1 DEF Spaced, SpillForm, IsSpill
<1>. QED  BY <1>1, <1>2, <1>3, <1>4 DEF Laid, OneSlot

-----------------------------------------------------------------------------
(* The inductive invariant *)

\* What is live before instruction i of block b if al is live into the blocks.
LiveSet(c, al, b, i) ==
  {x \in Regs : ReadFrom(c[b], i, x) \/ (Through(c[b], i, x) /\ x \in LiveOut(c, b, al))}

Reached(b, i) == phase = "scan" => b < blk \/ (b = blk /\ i > pos)

\* Instruction ins, after which L is live, has left its interferences.
Recorded(ins, L) ==
  LET live0 == L \ {ins.dest}
      live1 == live0 \union ({ins.src1} \ {NoReg})
      live2 == live1 \union ({ins.src2} \ {NoReg})
  IN /\ Meet(ins.src1, live0) \subseteq intf
     /\ Meet(ins.src2, live1) \subseteq intf
     /\ ins.kind = "call" => \A s \in CallerSaved : Meet(s, live2) \subseteq intf

\* The code is the selected code with spill code in it.
\* The passes of buildInterference stay below the least solution, and one
\* that changes nothing has solved the equations of the blocks behind it, and
\* recorded what they read.
ScanInv ==
  phase \in {"scan", "color", "spill", "done"} =>
    /\ Laid(code, FreshCode(prog, round), offset)
    /\ \A b \in DOMAIN code : \A x \in alives[b] : b \in LiveIn(code, x)
    /\ phase = "scan" => alive = LiveSet(code, alives, blk, pos + 1)
    /\ (phase = "scan" => ~update) =>
         \A b \in DOMAIN code :
           /\ Reached(b, 0) => alives[b] = LiveSet(code, alives, b, 1)
           /\ \A i \in DOMAIN code[b] :
                Reached(b, i) => Recorded(code[b][i], LiveSet(code, alives, b, i + 1))

\* A coloured register has a colour of its kind.
PaintedColors == \A r \in Painted : name[r] \in {Colors(r)[k] : k \in DOMAIN Colors(r)}

\* Where the run may be.
Somewhere(here) ==
  \/ here = <<0, 0>>
  \/ here = <<Len(code), 1>>
  \/ \E b \in 1 .. Len(code) - 1 : \E i \in 1 .. Len(code[b]) : here = <<b, i>>

\* Before instruction i of block b the files agree on what will be read, and
\* on what was written last.
Agree(b, i, fp, fv) ==
  /\ \A t \in Temps : LiveAt(code, b, i, <<t, round>>) => fp[name[<<t, round>>]] = fv[t]
  /\ \A x \in Colorable : ReadFrom(code[b], i, x) => fp[x] = fv[x]
  /\ \A x \in Fixed : i > 1 /\ code[b][i - 1].dest = x => fp[x] = fv[x]

\* The place in prog.code[b] of instruction i of block b.
Place(b, i) == 1 + Cardinality(Template(b, i))

\* The slot of o holds token v.
Holds(sl, o, v) ==
  \A a \in DOMAIN code : \A j \in DOMAIN code[a] :
    IsSpill(code[a][j]) /\ RegOf(code[a][j]) = o => code[a][j].off \in DOMAIN sl /\ sl[code[a][j].off] = v

\* Before instruction i of block b the slots hold what the selected code will
\* read of the spilled registers; what has just been written is about to be
\* stored.
SlotsHold(b, i, sl, fv) ==
  \A t \in Temps :
    <<t, round>> \in Slotted(code) /\ LiveAt(FreshCode(prog, round), b, Place(b, i), <<t, round>>)
      => \/ Holds(sl, <<t, round>>, fv[t])
         \/ code[b][i].kind = "store" /\ code[b][i].src1 = <<t, round>>

\* The fixed registers, and the callee-saved ones that the frame does not
\* save, hold what the caller left in them.
Kept(fp, fv) ==
  /\ \A x \in Special : fp[x] = x /\ fv[x] = x
  /\ \A x \in CalleeSaved : fv[x] = x /\ (x \notin pushed => fp[x] = x)

\* The run has not begun.
Unstarted ==
  /\ pc = <<1, 1>> /\ phys = [r \in Fixed |-> r]
  /\ virt = [r \in Temps \union Fixed |-> IF r \in Fixed THEN r ELSE NoReg]

\* While the function runs, the physical registers hold what it will read.
RunInv ==
  IF phase # "done"
  THEN Unstarted
  ELSE /\ Somewhere(pc)
       /\ DOMAIN phys = Fixed /\ DOMAIN virt = Temps \union Fixed
       /\ Kept(phys, virt)
       /\ pc[1] \in 1 .. Len(code) - 1 => /\ Agree(pc[1], pc[2], phys, virt)
                                          /\ SlotsHold(pc[1], pc[2], slots, virt)
       /\ pc[1] = Len(code) => \A x \in prog.result : phys[x] = virt[x]

ExecInv == AllocInv /\ ScanInv /\ PaintedColors /\ RunInv
-----------------------------------------------------------------------------
(* Reading and writing along a block *)

\* Whether x is read before it is written is decided one instruction at a time.
LEMMA ReadStep ==
  ASSUME NEW s, Len(s) \in Nat, NEW x, NEW i \in 1 .. Len(s)
  PROVE  /\ ReadFrom(s, i, x) <=> x \in Reads(s[i]) \/ (s[i].dest # x /\ ReadFrom(s, i + 1, x))
         /\ Through(s, i, x) <=> s[i].dest # x /\ Through(s, i + 1, x)
<1>1. ASSUME ReadFrom(s, i, x), x \notin Reads(s[i])
      PROVE  s[i].dest # x /\ ReadFrom(s, i + 1, x)
  <2>1. PICK j \in i .. Len(s) : x \in Reads(s[j]) /\ Untouched(s, i, j, x)
    BY <1>1 DEF ReadFrom
  <2>2. j # i
    BY <1>1, <2>1
  <2>3. j \in i + 1 .. Len(s) /\ i \in i .. j - 1 /\ Untouched(s, i + 1, j, x)
    BY <2>1, <2>2 DEF Untouched
  <2>4. s[i].dest # x
    BY <2>1, <2>3 DEF Untouched
  <2>. QED  BY <2>1, <2>3, <2>4 DEF ReadFrom
<1>2. ASSUME s[i].dest # x, ReadFrom(s, i + 1, x)
      PROVE  ReadFrom(s, i, x)
  <2>1. PICK j \in i + 1 .. Len(s) : x \in Reads(s[j]) /\ Untouched(s, i + 1, j, x)
    BY <1>2 DEF ReadFrom
  <2>2. j \in i .. Len(s)
    OBVIOUS
  <2>3. \A k \in i .. j - 1 : k = i \/ k \in i + 1 .. j - 1
    OBVIOUS
  <2>4. Untouched(s, i, j, x)
    BY <1>2, <2>1, <2>3 DEF Untouched
  <2>. QED  BY <2>1, <2>2, <2>4 DEF ReadFrom
<1>3. ASSUME x \in Reads(s[i]) PROVE ReadFrom(s, i, x)
  <2>1. i \in i .. Len(s) /\ Untouched(s, i, i, x)
    BY DEF Untouched
  <2>. QED  BY <1>3, <2>1 DEF ReadFrom
<1>4. Through(s, i, x) <=> s[i].dest # x /\ Through(s, i + 1, x)
  <2>1. i \in i .. (Len(s) + 1) - 1
    OBVIOUS
  <2>2. \A k \in i .. (Len(s) + 1) - 1 : k = i \/ k \in i + 1 .. (Len(s) + 1) - 1
    OBVIOUS
  <2>3. \A k \in i + 1 .. (Len(s) + 1) - 1 : k \in i .. (Len(s) + 1) - 1
    OBVIOUS
  <2>. QED  BY <2>1, <2>2, <2>3 DEF Through, Untouched
<1>. QED  BY <1>1, <1>2, <1>3, <1>4

\* At the end of a block nothing is read any more.
LEMMA ReadEnd ==
  ASSUME NEW s, Len(s) \in Nat, NEW x
  PROVE  ~ReadFrom(s, Len(s) + 1, x) /\ Through(s, Len(s) + 1, x)
BY DEF ReadFrom, Through, Untouched

-----------------------------------------------------------------------------
(* Liveness *)

\* What an instruction reads is registers.
LEMMA ReadsType ==
  ASSUME NEW ins \in Instr(Regs)
  PROVE  Reads(ins) \subseteq Regs
BY InRegs DEF Reads, Instr

\* One step of buildInterference: what is read is live, what is written not.
LEMMA LiveSetStep ==
  ASSUME NEW p \in Programs, NEW c \in Blocks(p), NEW al, NEW b \in DOMAIN c, NEW i \in DOMAIN c[b]
  PROVE  LiveSet(c, al, b, i) = Reads(c[b][i]) \union (LiveSet(c, al, b, i + 1) \ {c[b][i].dest})
<1>1. Len(c[b]) \in Nat /\ i \in 1 .. Len(c[b]) /\ c[b][i] \in Instr(Regs)
  BY BlocksShape
<1>2. Reads(c[b][i]) \subseteq Regs
  BY <1>1, ReadsType
<1>3. \A x : /\ ReadFrom(c[b], i, x) <=> x \in Reads(c[b][i]) \/ (c[b][i].dest # x /\ ReadFrom(c[b], i + 1, x))
             /\ Through(c[b], i, x) <=> c[b][i].dest # x /\ Through(c[b], i + 1, x)
  BY <1>1, ReadStep
<1>. QED  BY <1>2, <1>3 DEF LiveSet

\* At the end of a block what its successors need is live.
LEMMA LiveSetEnd ==
  ASSUME NEW p \in Programs, NEW c \in Blocks(p), NEW al \in [DOMAIN c -> SUBSET Regs], NEW b \in DOMAIN c
  PROVE  LiveSet(c, al, b, Len(c[b]) + 1) = LiveOut(c, b, al)
<1>1. Len(c[b]) \in Nat
  BY BlocksShape
<1>2. \A x : ~ReadFrom(c[b], Len(c[b]) + 1, x) /\ Through(c[b], Len(c[b]) + 1, x)
  BY <1>1, ReadEnd
<1>3. LiveOut(c, b, al) \subseteq Regs
  BY DEF LiveOut, Successors
<1>. QED  BY <1>2, <1>3 DEF LiveSet

\* The least solution is one.
LEMMA LiveInClosed ==
  ASSUME NEW c, NEW x
  PROVE  Closed(c, x, LiveIn(c, x))
<1>. SUFFICES ASSUME NEW b \in DOMAIN c,
                     \/ ReadFrom(c[b], 1, x)
                     \/ Through(c[b], 1, x) /\ Successors(c, b) \intersect LiveIn(c, x) # {},
                     NEW B \in SUBSET DOMAIN c, Closed(c, x, B)
              PROVE  b \in B
  BY DEF Closed, LiveIn
<1>1. LiveIn(c, x) \subseteq B
  BY DEF LiveIn
<1>2. ReadFrom(c[b], 1, x) \/ (Through(c[b], 1, x) /\ Successors(c, b) \intersect B # {})
  BY <1>1
<1>. QED  BY <1>2 DEF Closed

\* What is live before the first instruction is live at the start.
LEMMA LiveAtStart ==
  ASSUME NEW c, NEW b \in DOMAIN c, NEW x, LiveAt(c, b, 1, x)
  PROVE  b \in LiveIn(c, x)
BY LiveInClosed DEF LiveAt, Closed

\* Liveness, decided one instruction at a time.
LEMMA LiveAtStep ==
  ASSUME NEW p \in Programs, NEW c \in Blocks(p), NEW b \in DOMAIN c, NEW i \in DOMAIN c[b], NEW x
  PROVE  LiveAt(c, b, i, x)
           <=> x \in Reads(c[b][i]) \/ (c[b][i].dest # x /\ LiveAt(c, b, i + 1, x))
<1>1. Len(c[b]) \in Nat /\ i \in 1 .. Len(c[b])
  BY BlocksShape
<1>. QED  BY <1>1, ReadStep DEF LiveAt
-----------------------------------------------------------------------------
(* The passes of buildInterference *)

\* The code that is scanned, coloured and run is the selected code, but for
\* the spill code in it.
LEMMA EmittedCode ==
  ASSUME TypeOK, ScanInv, phase \in {"scan", "color", "spill", "done"}
  PROVE  /\ prog \in Programs /\ round \in Rounds /\ code \in Blocks(prog)
         /\ Laid(code, FreshCode(prog, round), offset) /\ Allocatable(code, prog.result)
         /\ DOMAIN code = 1 .. Len(code) /\ Len(code) \in Nat \ {0} /\ Len(code) = Len(prog.code)
         /\ DOMAIN prog.code = DOMAIN code
         /\ \A b \in DOMAIN code : /\ Len(code[b]) \in Nat /\ DOMAIN code[b] = 1 .. Len(code[b])
                                   /\ \A i \in DOMAIN code[b] : code[b][i] \in Instr(Regs)
<1>1. /\ prog \in Programs /\ round \in Rounds /\ Laid(code, FreshCode(prog, round), offset)
      /\ code \in [DOMAIN prog.code -> Seq(Instr(Regs))]
  BY DEF TypeOK, ScanInv
<1>2. code \in Blocks(prog)
  BY <1>1 DEF Blocks
<1>3. Allocatable(code, prog.result)
  BY <1>1, <1>2, LaidAllocatable
<1>4. DOMAIN prog.code = 1 .. Len(prog.code)
  BY <1>1, ProgramShape
<1>. QED  BY <1>1, <1>2, <1>3, <1>4, BlocksShape

\* buildInterference starts with nothing found.
LEMMA BuildScan ==
  ASSUME prog \in Programs, UNCHANGED <<prog, round>>, NEW c \in Blocks(prog), code' = c, StartBuild(c),
         Laid(c, FreshCode(prog, round), offset')
  PROVE  ScanInv'
<1>3. /\ DOMAIN c = 1 .. Len(c) /\ Len(c) \in Nat \ {0} /\ DOMAIN prog.code = DOMAIN c
      /\ \A b \in DOMAIN c : Len(c[b]) \in Nat /\ DOMAIN c[b] = 1 .. Len(c[b])
  BY BlocksShape, ProgramShape
<1>4. /\ phase' = "scan" /\ alives' \in [DOMAIN c -> SUBSET Regs] /\ \A b \in DOMAIN c : alives'[b] = {}
      /\ blk' = 1 /\ pos' = Len(c[1]) /\ update' = FALSE
      /\ alive' = LiveOut(c, 1, alives')
  BY <1>3, StartBuildType DEF StartBuild, StartBlock
<1>5. alive' = LiveSet(c, alives', 1, Len(c[1]) + 1)
  <2>1. PICK al : al = alives'
    OBVIOUS
  <2>2. al \in [DOMAIN c -> SUBSET Regs] /\ 1 \in DOMAIN c
    BY <1>3, <1>4, <2>1
  <2>3. LiveSet(c, al, 1, Len(c[1]) + 1) = LiveOut(c, 1, al)
    BY <2>2, LiveSetEnd
  <2>. QED  BY <1>4, <2>1, <2>3
<1>6. ASSUME NEW b \in DOMAIN c, NEW i \in {0} \union DOMAIN c[b] PROVE ~Reached(b, i)'
  <2>1. b = 1 => ~(i > Len(c[1])) /\ ~(b < 1)
    BY <1>3
  <2>. QED  BY <1>3, <1>4, <2>1 DEF Reached
<1>7. Laid(code, FreshCode(prog, round), offset)'
  <2>1. \A d, f, off : Laid(d, f, off)' <=> Laid(d, f, off)
    BY DEF Laid, Slotted
  <2>2. FreshCode(prog, round)' = FreshCode(prog, round)
    BY DEF FreshCode
  <2>. QED  OBVIOUS
<1>. QED  BY <1>4, <1>5, <1>6, <1>7 DEF ScanInv

\* A round of emission.
LEMMA EmitScan == TypeOK /\ EmitRound => ScanInv'
<1>. SUFFICES ASSUME TypeOK, EmitRound PROVE ScanInv'
  OBVIOUS
<1>1. /\ prog \in Programs /\ round \in Rounds /\ UNCHANGED <<prog, round>>
      /\ code' = FreshCode(prog, round) /\ StartBuild(code')
  BY DEF EmitRound, TypeOK
<1>. PICK c : c = FreshCode(prog, round)
  OBVIOUS
<1>2. c \in Blocks(prog) /\ code' = c /\ StartBuild(c)
  BY <1>1, FreshCodeType
<1>3. \A off : Laid(c, FreshCode(prog, round), off)
  BY <1>1, FreshLaid
<1>. QED  BY <1>1, <1>2, <1>3, BuildScan

\* A call of spill(), for a register that it can give one slot.
LEMMA SpillScan == TypeOK /\ ScanInv /\ SpillFits /\ Spill => ScanInv'
<1>. SUFFICES ASSUME TypeOK, ScanInv, SpillFits, Spill PROVE ScanInv'
  OBVIOUS
<1>1. /\ phase = "spill" /\ UNCHANGED <<prog, round>> /\ prog \in Programs /\ round \in Rounds
      /\ code' = [b \in DOMAIN code |-> SpillBlock(b)] /\ offset' = SpillOffset(Len(code))
      /\ StartBuild(code')
  BY DEF Spill, TypeOK
<1>2. Laid(code, FreshCode(prog, round), offset) /\ Homed(code, failed)
  BY <1>1 DEF ScanInv, SpillFits
<1>. PICK c, f : c = [b \in DOMAIN code |-> SpillBlock(b)] /\ f = FreshCode(prog, round)
  OBVIOUS
<1>3. \A b \in DOMAIN f : Len(f[b]) \in Nat
  BY <1>1, FreshCodeType, BlocksShape
<1>4. Laid(c, f, SpillOffset(Len(code)))
  BY <1>1, <1>2, <1>3, SpillKeepsLaid
<1>5. c \in Blocks(prog)
  BY SpillBlockType DEF TypeOK, Blocks
<1>. QED  BY <1>1, <1>4, <1>5, BuildScan

\* What does not change the code keeps it laid.
LEMMA LaidStays ==
  ASSUME Laid(code, FreshCode(prog, round), offset), UNCHANGED <<prog, round, code, offset>>
  PROVE  Laid(code, FreshCode(prog, round), offset)'
<1>1. \A d, f, off : Laid(d, f, off)' <=> Laid(d, f, off)
  BY DEF Laid, Slotted
<1>2. FreshCode(prog, round)' = FreshCode(prog, round)
  BY DEF FreshCode
<1>. QED  BY <1>1, <1>2

\* One instruction of buildInterference.
LEMMA ScanScan == TypeOK /\ ScanInv /\ ScanInst => ScanInv'
<1>. SUFFICES ASSUME TypeOK, ScanInv, ScanInst PROVE ScanInv'
  OBVIOUS
<1>1. /\ phase = "scan" /\ phase' = "scan" /\ pos > 0 /\ pos' = pos - 1
      /\ UNCHANGED <<prog, round, code, alives, blk, update, offset>>
  BY DEF ScanInst
<1>2. /\ prog \in Programs /\ code \in Blocks(prog) /\ Allocatable(code, prog.result)
      /\ \A b \in DOMAIN code : /\ Len(code[b]) \in Nat /\ DOMAIN code[b] = 1 .. Len(code[b])
                                /\ \A i \in DOMAIN code[b] : code[b][i] \in Instr(Regs)
  BY <1>1, EmittedCode
<1>3. blk \in DOMAIN code /\ pos \in DOMAIN code[blk] /\ pos \in Nat /\ blk \in Nat
  <2>1. blk \in DOMAIN code /\ pos \in 0 .. Len(code[blk])
    BY DEF TypeOK
  <2>. QED  BY <1>1, <1>2, <2>1, EmittedCode
<1>. PICK ins : ins = code[blk][pos]
  OBVIOUS
<1>. PICK L : L = LiveSet(code, alives, blk, pos + 1)
  OBVIOUS
<1>4. alive = L
  BY <1>1 DEF ScanInv
<1>. DEFINE live0 == L \ {ins.dest}
            live1 == live0 \union ({ins.src1} \ {NoReg})
            live2 == live1 \union ({ins.src2} \ {NoReg})
<1>5. /\ intf' = intf \union Meet(ins.src1, live0) \union Meet(ins.src2, live1)
                   \union (IF ins.kind = "call" THEN UNION {Meet(s, live2) : s \in CallerSaved} ELSE {})
      /\ alive' = live2 \union (IF ins.kind = "call" THEN ins.used ELSE {})
  BY <1>4 DEF ScanInst
<1>6. ins.kind # "call" => ins.used = {}
  BY <1>2, <1>3 DEF Allocatable, Operands
<1>7. alive' = LiveSet(code, alives, blk, pos)
  <2>1. LiveSet(code, alives, blk, pos) = Reads(ins) \union (L \ {ins.dest})
    BY <1>2, <1>3, LiveSetStep
  <2>. QED  BY <1>5, <1>6, <2>1 DEF Reads
<1>8. Recorded(ins, L)'
  <2>1. \A s \in CallerSaved : ins.kind = "call" => Meet(s, live2) \subseteq intf'
    BY <1>5
  <2>2. Meet(ins.src1, live0) \subseteq intf' /\ Meet(ins.src2, live1) \subseteq intf'
    BY <1>5
  <2>3. \A r, S : Meet(r, S)' = Meet(r, S)
    BY DEF Meet
  <2>. QED  BY <2>1, <2>2, <2>3 DEF Recorded
<1>9. intf \subseteq intf'
  BY <1>5
<1>10. ASSUME NEW b \in DOMAIN code, NEW i \in DOMAIN code[b], Reached(b, i)', ~update
       PROVE  Recorded(code[b][i], LiveSet(code, alives, b, i + 1))'
  <2>1. CASE b = blk /\ i = pos
    BY <1>1, <1>8, <2>1 DEF LiveSet
  <2>2. CASE ~(b = blk /\ i = pos)
    <3>1. i \in Nat
      BY <1>2
    <3>2. Reached(b, i)
      BY <1>1, <1>3, <1>10, <2>2, <3>1 DEF Reached
    <3>3. Recorded(code[b][i], LiveSet(code, alives, b, i + 1))
      BY <1>1, <1>10, <3>2 DEF ScanInv
    <3>. PICK M : M = LiveSet(code, alives, b, i + 1)
      OBVIOUS
    <3>4. Recorded(code[b][i], M)'
      BY <1>1, <1>9, <3>3 DEF Recorded
    <3>5. LiveSet(code, alives, b, i + 1)' = M
      BY <1>1 DEF LiveSet
    <3>. QED  BY <1>1, <3>4, <3>5
  <2>. QED  BY <2>1, <2>2
<1>11. ASSUME NEW b \in DOMAIN code, Reached(b, 0)', ~update
       PROVE  alives[b] = LiveSet(code, alives, b, 1)
  <2>1. Reached(b, 0)
    BY <1>1, <1>3, <1>11 DEF Reached
  <2>. QED  BY <1>1, <1>11, <2>1 DEF ScanInv
<1>12. (pos + 1)' = pos
  BY <1>1, <1>3
<1>13. /\ Laid(code, FreshCode(prog, round), offset)'
       /\ \A b \in DOMAIN code : \A x \in alives[b] : b \in LiveIn(code, x)
  BY <1>1, LaidStays DEF ScanInv
<1>. QED  BY <1>1, <1>7, <1>10, <1>11, <1>12, <1>13 DEF ScanInv, LiveSet

\* The end of a block: on to the next, to another pass, or to coloring().
LEMMA EndBlockScan == TypeOK /\ ScanInv /\ EndBlock => ScanInv'
<1>. SUFFICES ASSUME TypeOK, ScanInv, EndBlock PROVE ScanInv'
  OBVIOUS
<1>. PICK al : al = [alives EXCEPT ![blk] = alive]
  OBVIOUS
<1>. DEFINE changed == update \/ alives[blk] # alive
<1>1. /\ phase = "scan" /\ pos = 0 /\ alives' = al
      /\ UNCHANGED <<prog, round, code, intf, offset>>
      /\ \/ /\ blk < Len(code) /\ StartBlock(blk + 1, code, al)
            /\ (update' <=> changed) /\ phase' = "scan"
         \/ /\ blk = Len(code) /\ changed /\ StartBlock(1, code, al)
            /\ ~update' /\ phase' = "scan"
         \/ blk = Len(code) /\ ~changed /\ phase' = "color"
  BY Zenon DEF EndBlock
<1>2. /\ prog \in Programs /\ code \in Blocks(prog)
      /\ DOMAIN code = 1 .. Len(code) /\ Len(code) \in Nat \ {0} /\ DOMAIN prog.code = DOMAIN code
      /\ \A b \in DOMAIN code : Len(code[b]) \in Nat /\ DOMAIN code[b] = 1 .. Len(code[b])
  BY <1>1, EmittedCode
<1>3. /\ blk \in DOMAIN code /\ blk \in Nat /\ alive \subseteq Regs
      /\ alives \in [DOMAIN code -> SUBSET Regs] /\ update \in BOOLEAN
  BY <1>2 DEF TypeOK
<1>4. /\ al \in [DOMAIN code -> SUBSET Regs] /\ al[blk] = alive
      /\ \A b \in DOMAIN code : b # blk => al[b] = alives[b]
      /\ alives[blk] = alive => al = alives
  BY <1>3
<1>5. alive = LiveSet(code, alives, blk, 1)
  BY <1>1 DEF ScanInv
<1>6. ASSUME NEW b \in DOMAIN code, NEW x \in al[b] PROVE b \in LiveIn(code, x)
  <2>1. \A s \in DOMAIN code : x \in alives[s] => s \in LiveIn(code, x)
    BY <1>1 DEF ScanInv
  <2>2. CASE b = blk
    <3>1. ReadFrom(code[b], 1, x) \/ (Through(code[b], 1, x) /\ x \in LiveOut(code, b, alives))
      BY <1>4, <1>5, <1>6, <2>2 DEF LiveSet
    <3>2. x \in LiveOut(code, b, alives) => Successors(code, b) \intersect LiveIn(code, x) # {}
      BY <2>1 DEF LiveOut, Successors
    <3>3. LiveAt(code, b, 1, x)
      BY <3>1, <3>2 DEF LiveAt
    <3>. QED  BY <3>3, LiveAtStart
  <2>3. CASE b # blk
    BY <1>4, <1>6, <2>1, <2>3
  <2>. QED  BY <2>2, <2>3
<1>7. ASSUME NEW b \in DOMAIN code, StartBlock(b, code, al)
      PROVE  alive' = LiveSet(code, al, blk', pos' + 1)
  BY <1>2, <1>4, <1>7, LiveSetEnd DEF StartBlock
\* The blocks behind, this one included, if nothing has changed.
<1>8. ASSUME ~changed, NEW b \in DOMAIN code, b <= blk
      PROVE  /\ al[b] = LiveSet(code, al, b, 1)
             /\ \A i \in DOMAIN code[b] : Recorded(code[b][i], LiveSet(code, al, b, i + 1))
  <2>1. ~update /\ al = alives
    BY <1>4, <1>8
  <2>2. al[b] = LiveSet(code, al, b, 1)
    <3>1. b < blk => Reached(b, 0)
      BY DEF Reached
    <3>2. b = blk \/ b < blk
      BY <1>2, <1>3, <1>8
    <3>. QED  BY <1>1, <1>4, <1>5, <2>1, <3>1, <3>2 DEF ScanInv
  <2>3. ASSUME NEW i \in DOMAIN code[b] PROVE Recorded(code[b][i], LiveSet(code, al, b, i + 1))
    <3>1. Reached(b, i)
      <4>1. i > 0 /\ (b = blk \/ b < blk)
        BY <1>2, <1>3, <1>8
      <4>. QED  BY <1>1, <4>1 DEF Reached
    <3>. QED  BY <1>1, <2>1, <3>1 DEF ScanInv
  <2>. QED  BY <2>2, <2>3
<1>9. \A b, i : Recorded(code[b][i], LiveSet(code, al, b, i + 1))
                  => Recorded(code[b][i], LiveSet(code, alives, b, i + 1))'
  <2>1. \A b, i : LiveSet(code, alives, b, i + 1)' = LiveSet(code, al, b, i + 1)
    BY <1>1 DEF LiveSet
  <2>2. \A ins, L : Recorded(ins, L)' <=> Recorded(ins, L)
    BY <1>1 DEF Recorded
  <2>. QED  BY <1>1, <2>1, <2>2
<1>10. /\ Laid(code, FreshCode(prog, round), offset)'
       /\ (\A b \in DOMAIN code : \A x \in alives[b] : b \in LiveIn(code, x))'
  BY <1>1, <1>6, LaidStays DEF ScanInv
<1>11. ASSUME phase' \in {"scan", "color"},
              phase' = "scan" => alive' = LiveSet(code, al, blk', pos' + 1),
              (phase' = "scan" => ~update') =>
                 \A b \in DOMAIN code :
                   /\ Reached(b, 0)' => al[b] = LiveSet(code, al, b, 1)
                   /\ \A i \in DOMAIN code[b] :
                        Reached(b, i)' => Recorded(code[b][i], LiveSet(code, al, b, i + 1))
       PROVE  ScanInv'
  <2>1. (phase = "scan" => alive = LiveSet(code, alives, blk, pos + 1))'
    BY <1>1, <1>11 DEF LiveSet
  <2>2. ((phase = "scan" => ~update) =>
            \A b \in DOMAIN code :
              /\ Reached(b, 0) => alives[b] = LiveSet(code, alives, b, 1)
              /\ \A i \in DOMAIN code[b] :
                   Reached(b, i) => Recorded(code[b][i], LiveSet(code, alives, b, i + 1)))'
    <3>1. \A b : LiveSet(code, alives, b, 1)' = LiveSet(code, al, b, 1)
      BY <1>1 DEF LiveSet
    <3>. QED  BY <1>1, <1>9, <1>11, <3>1
  <2>. QED  BY <1>10, <2>1, <2>2 DEF ScanInv
<1>12. CASE blk < Len(code) /\ StartBlock(blk + 1, code, al) /\ (update' <=> changed) /\ phase' = "scan"
  <2>1. blk + 1 \in DOMAIN code /\ blk' = blk + 1 /\ pos' = Len(code[blk + 1])
    BY <1>2, <1>3, <1>12 DEF StartBlock
  <2>2. ASSUME NEW b \in DOMAIN code, NEW i \in {0} \union DOMAIN code[b], Reached(b, i)'
        PROVE  b <= blk
    <3>1. b = blk + 1 => ~(i > Len(code[blk + 1]))
      BY <1>2
    <3>. QED  BY <1>2, <1>3, <1>12, <2>1, <2>2, <3>1 DEF Reached
  <2>. QED  BY <1>7, <1>8, <1>11, <1>12, <2>1, <2>2
<1>13. CASE blk = Len(code) /\ changed /\ StartBlock(1, code, al) /\ ~update' /\ phase' = "scan"
  <2>1. 1 \in DOMAIN code /\ blk' = 1 /\ pos' = Len(code[1])
    BY <1>2, <1>13 DEF StartBlock
  <2>2. ASSUME NEW b \in DOMAIN code, NEW i \in {0} \union DOMAIN code[b] PROVE ~Reached(b, i)'
    <3>1. b = 1 => ~(i > Len(code[1])) /\ ~(b < 1)
      BY <1>2
    <3>. QED  BY <1>2, <1>13, <2>1, <3>1 DEF Reached
  <2>. QED  BY <1>7, <1>11, <1>13, <2>1, <2>2
<1>14. CASE blk = Len(code) /\ ~changed /\ phase' = "color"
  <2>1. ~changed /\ phase' # "scan" /\ \A b \in DOMAIN code : b <= blk
    BY <1>2, <1>14
  <2>. HIDE DEF changed
  <2>. QED  BY <1>8, <1>11, <1>14, <2>1
<1>. QED  BY <1>1, <1>12, <1>13, <1>14

\* Colouring reads what the last pass has left.
LEMMA ColorScan ==
  ASSUME ScanInv, phase \in {"color", "spill", "done"}, phase' \in {"color", "spill", "done"},
         UNCHANGED <<prog, round, code, alives, intf, offset>>
  PROVE  ScanInv'
<1>1. /\ Laid(code, FreshCode(prog, round), offset)'
      /\ \A b \in DOMAIN code : \A x \in alives[b] : b \in LiveIn(code, x)
      /\ \A b \in DOMAIN code :
           /\ alives[b] = LiveSet(code, alives, b, 1)
           /\ \A i \in DOMAIN code[b] : Recorded(code[b][i], LiveSet(code, alives, b, i + 1))
  BY LaidStays DEF ScanInv, Reached
<1>2. \A b, i : LiveSet(code, alives, b, i)' = LiveSet(code, alives, b, i)
  BY DEF LiveSet
<1>3. \A ins, L : Recorded(ins, L)' <=> Recorded(ins, L)
  BY DEF Recorded
<1>. QED  BY <1>1, <1>2, <1>3 DEF ScanInv

\* Every step keeps ScanInv, if what is spilled can be.
LEMMA NextScan == TypeOK /\ ScanInv /\ SpillFits /\ [AllocNext]_vars => ScanInv'
<1>. SUFFICES ASSUME TypeOK, ScanInv, SpillFits, [AllocNext]_vars PROVE ScanInv'
  OBVIOUS
<1>1. CASE UNCHANGED vars
  <2>1. UNCHANGED <<prog, round, code, offset, phase, alives, alive, blk, pos, update, intf>>
    BY <1>1 DEF vars
  <2>2. CASE phase \in {"scan", "color", "spill", "done"}
    <3>1. Laid(code, FreshCode(prog, round), offset)'
      BY <2>1, <2>2, LaidStays DEF ScanInv
    <3>2. \A b, i : LiveSet(code, alives, b, i)' = LiveSet(code, alives, b, i) /\ (Reached(b, i)' <=> Reached(b, i))
      BY <2>1 DEF LiveSet, Reached
    <3>3. LiveSet(code, alives, blk, pos + 1)' = LiveSet(code, alives, blk, pos + 1)
      BY <2>1 DEF LiveSet
    <3>4. \A ins, L : Recorded(ins, L)' <=> Recorded(ins, L)
      BY <2>1 DEF Recorded
    <3>. QED  BY <2>1, <2>2, <3>1, <3>2, <3>3, <3>4 DEF ScanInv
  <2>. QED  BY <2>1, <2>2 DEF ScanInv
<1>2. ASSUME NEW r \in todo, ColorReg(r) \/ FailReg(r) PROVE ScanInv'
  BY <1>2, ColorScan DEF ColorReg, FailReg
<1>3. CASE Colored
  <2>1. CASE phase' = "emit"
    BY <2>1 DEF ScanInv
  <2>2. CASE phase' # "emit"
    BY <1>3, <2>2, ColorScan DEF Colored
  <2>. QED  BY <2>1, <2>2
<1>. QED  BY <1>1, <1>2, <1>3, EmitScan, SpillScan, ScanScan, EndBlockScan DEF AllocNext
-----------------------------------------------------------------------------
(* What the last pass has found *)

\* What is live at the start is live before the first instruction.
LEMMA LiveInStart ==
  ASSUME NEW c, NEW b, NEW x, b \in LiveIn(c, x)
  PROVE  b \in DOMAIN c /\ LiveAt(c, b, 1, x)
<1>. DEFINE A == {a \in DOMAIN c : LiveAt(c, a, 1, x)}
<1>1. A \subseteq LiveIn(c, x)
  BY LiveAtStart
<1>2. Closed(c, x, A)
  <2>. SUFFICES ASSUME NEW a \in DOMAIN c,
                       \/ ReadFrom(c[a], 1, x)
                       \/ Through(c[a], 1, x) /\ Successors(c, a) \intersect A # {}
                PROVE  LiveAt(c, a, 1, x)
    BY DEF Closed
  <2>. QED  BY <1>1 DEF LiveAt
<1>. QED  BY <1>2 DEF LiveIn

\* The sets of buildInterference are the least solution.
LEMMA Solved ==
  ASSUME TypeOK, ScanInv, phase = "done"
  PROVE  /\ \A x \in Regs, b \in DOMAIN code : x \in alives[b] <=> b \in LiveIn(code, x)
         /\ \A x \in Regs, b \in DOMAIN code : \A i : x \in LiveSet(code, alives, b, i) <=> LiveAt(code, b, i, x)
<1>1. /\ \A b \in DOMAIN code : \A x \in alives[b] : b \in LiveIn(code, x)
      /\ \A b \in DOMAIN code : alives[b] = LiveSet(code, alives, b, 1)
  BY DEF ScanInv, Reached
<1>2. ASSUME NEW x \in Regs, NEW b \in LiveIn(code, x) PROVE x \in alives[b]
  <2>. DEFINE A == {a \in DOMAIN code : x \in alives[a]}
  <2>1. Closed(code, x, A)
    <3>. SUFFICES ASSUME NEW a \in DOMAIN code,
                         \/ ReadFrom(code[a], 1, x)
                         \/ Through(code[a], 1, x) /\ Successors(code, a) \intersect A # {}
                  PROVE  x \in LiveSet(code, alives, a, 1)
      BY <1>1 DEF Closed
    <3>1. Successors(code, a) \intersect A # {} => x \in LiveOut(code, a, alives)
      BY DEF LiveOut
    <3>. QED  BY <3>1 DEF LiveSet
  <2>. QED  BY <2>1 DEF LiveIn
<1>3. \A x \in Regs, b \in DOMAIN code : x \in alives[b] <=> b \in LiveIn(code, x)
  BY <1>1, <1>2
<1>4. ASSUME NEW x \in Regs, NEW b \in DOMAIN code
      PROVE  x \in LiveOut(code, b, alives) <=> Successors(code, b) \intersect LiveIn(code, x) # {}
  <2>1. Successors(code, b) \subseteq DOMAIN code
    BY DEF Successors
  <2>. QED  BY <1>3, <2>1 DEF LiveOut
<1>. QED  BY <1>3, <1>4 DEF LiveSet, LiveAt

-----------------------------------------------------------------------------
(* What is live together interferes *)

\* The edges that matter between y and z.
Edges(y, z) == /\ y \in Vregs => <<y, z>> \in intf
               /\ z \in Vregs => <<z, y>> \in intf

Comparable(y, z) == y \in Regs /\ z \in Regs /\ y # z /\ (IsFloat(y) <=> IsFloat(z))

\* Meet leaves both edges of every pair of a kind.
LEMMA MeetEdges ==
  ASSUME NEW y, NEW z, Comparable(y, z), NEW S, z \in S, Meet(y, S) \subseteq intf
  PROVE  Edges(y, z) /\ Edges(z, y)
<1>1. <<y, z>> \in {y} \X S /\ <<z, y>> \in S \X {y}
  OBVIOUS
<1>2. y \in Vregs => <<y, z>> \in Meet(y, S)
  BY <1>1 DEF Meet, Comparable
<1>3. z \in Vregs => <<z, y>> \in Meet(y, S)
  BY <1>1 DEF Meet, Comparable
<1>. QED  BY <1>2, <1>3 DEF Edges

\* An instruction of the finished code, and what it has recorded.
LEMMA CodeFacts ==
  ASSUME TypeOK, ScanInv, phase = "done", NEW b \in DOMAIN code, NEW i \in DOMAIN code[b]
  PROVE  /\ code[b][i] \in Instr(Regs)
         /\ Reads(code[b][i]) \subseteq Regs
         /\ code[b][i].used \subseteq IF code[b][i].kind = "call" THEN CallerSaved ELSE {}
         /\ code[b][i].dest \notin CalleeSaved \union Special
         /\ Recorded(code[b][i], {x \in Regs : LiveAt(code, b, i + 1, x)})
         /\ \A x : LiveAt(code, b, i, x)
              <=> x \in Reads(code[b][i]) \/ (code[b][i].dest # x /\ LiveAt(code, b, i + 1, x))
<1>1. /\ prog \in Programs /\ code \in Blocks(prog) /\ Allocatable(code, prog.result)
      /\ code[b][i] \in Instr(Regs)
  BY EmittedCode
<1>2. LiveSet(code, alives, b, i + 1) = {x \in Regs : LiveAt(code, b, i + 1, x)}
  <2>1. LiveSet(code, alives, b, i + 1) \subseteq Regs
    BY DEF LiveSet
  <2>. QED  BY <2>1, Solved
<1>3. Recorded(code[b][i], LiveSet(code, alives, b, i + 1))
  BY DEF ScanInv, Reached
<1>. QED  BY <1>1, <1>2, <1>3, ReadsType, LiveAtStep DEF Allocatable, Operands

\* A register that is read interferes with all that is live.
LEMMA UseEdge ==
  ASSUME TypeOK, ScanInv, phase = "done", NEW b \in DOMAIN code, NEW i \in DOMAIN code[b],
         NEW y \in Reads(code[b][i]), NEW z, Comparable(y, z), LiveAt(code, b, i, z)
  PROVE  Edges(y, z)
<1>. PICK ins : ins = code[b][i]
  OBVIOUS
<1>. PICK L : L = {x \in Regs : LiveAt(code, b, i + 1, x)}
  OBVIOUS
<1>. DEFINE live0 == L \ {ins.dest}
            live1 == live0 \union ({ins.src1} \ {NoReg})
            live2 == live1 \union ({ins.src2} \ {NoReg})
<1>1. /\ ins \in Instr(Regs) /\ ins.used \subseteq IF ins.kind = "call" THEN CallerSaved ELSE {}
      /\ Recorded(ins, L)
      /\ z \in Reads(ins) \/ (ins.dest # z /\ LiveAt(code, b, i + 1, z))
  BY CodeFacts
<1>2. /\ Meet(ins.src1, live0) \subseteq intf
      /\ Meet(ins.src2, live1) \subseteq intf
      /\ ins.kind = "call" => \A s \in CallerSaved : Meet(s, live2) \subseteq intf
  BY <1>1 DEF Recorded
<1>3. z \in live0 \/ (z \in {ins.src1, ins.src2} \ {NoReg}) \/ z \in ins.used
  BY <1>1 DEF Reads, Comparable
<1>4. y \in {ins.src1, ins.src2} \ {NoReg} \/ y \in ins.used
  BY DEF Reads
<1>5. Comparable(z, y) /\ y # z
  BY DEF Comparable
<1>6. ins.used \subseteq Fixed /\ (ins.used # {} => ins.kind = "call") /\ ins.used \subseteq CallerSaved
  BY <1>1 DEF Instr
<1>7. CASE z \in ins.used /\ y \in ins.used
  <2>1. y \notin Vregs /\ z \notin Vregs
    BY <1>6, <1>7, Apart
  <2>. QED  BY <2>1 DEF Edges
<1>8. CASE y \in ins.used /\ z \notin ins.used
  <2>1. z \in live2 /\ Meet(y, live2) \subseteq intf
    BY <1>2, <1>3, <1>6, <1>8
  <2>. HIDE DEF live2
  <2>. QED  BY <2>1, MeetEdges
<1>9. CASE z \in ins.used /\ y \notin ins.used
  <2>1. y \in live2 /\ Meet(z, live2) \subseteq intf
    BY <1>2, <1>4, <1>6, <1>9
  <2>. HIDE DEF live2
  <2>. QED  BY <1>5, <2>1, MeetEdges
<1>10. CASE z \notin ins.used /\ y \notin ins.used
  <2>1. CASE y = ins.src1 /\ z \in live0
    <3>. HIDE DEF live0
    <3>. QED  BY <1>2, <2>1, MeetEdges
  <2>2. CASE y = ins.src1 /\ z = ins.src2
    <3>1. y \in live1
      BY <1>4, <1>10, <2>2
    <3>. HIDE DEF live1
    <3>. QED  BY <1>2, <1>5, <2>2, <3>1, MeetEdges
  <2>3. CASE y = ins.src2 /\ (z \in live0 \/ z = ins.src1)
    <3>1. z \in live1
      BY <1>3, <1>10, <2>3
    <3>. HIDE DEF live1
    <3>. QED  BY <1>2, <2>3, <3>1, MeetEdges
  <2>. QED  BY <1>3, <1>4, <1>5, <1>10, <2>1, <2>2, <2>3
<1>. QED  BY <1>7, <1>8, <1>9, <1>10

\* Edges is symmetric.
LEMMA EdgesBothWays == \A y, z : Edges(y, z) <=> Edges(z, y)
BY DEF Edges

\* One that will be read in the block interferes with all that is live: at
\* the first read of either, the other is live.
LEMMA BlockEdge ==
  ASSUME TypeOK, ScanInv, phase = "done", NEW b \in DOMAIN code, NEW i \in Nat \ {0},
         NEW y, ReadFrom(code[b], i, y), NEW z, Comparable(y, z), LiveAt(code, b, i, z)
  PROVE  Edges(y, z)
<1>1. Len(code[b]) \in Nat /\ DOMAIN code[b] = 1 .. Len(code[b])
  BY EmittedCode
<1>2. PICK j \in i .. Len(code[b]) : y \in Reads(code[b][j]) /\ Untouched(code[b], i, j, y)
  BY DEF ReadFrom
<1>3. Comparable(z, y)
  BY DEF Comparable
<1>4. j \in DOMAIN code[b]
  BY <1>1
<1>5. CASE LiveAt(code, b, j, z)
  BY <1>2, <1>4, <1>5, UseEdge
<1>6. CASE ~LiveAt(code, b, j, z)
  <2>1. ~Through(code[b], i, z) \/ Successors(code, b) \intersect LiveIn(code, z) = {}
    <3>1. Through(code[b], i, z) => Through(code[b], j, z)
      BY <1>1 DEF Through, Untouched
    <3>. QED  BY <1>6, <3>1 DEF LiveAt
  <2>2. PICK k \in i .. Len(code[b]) : z \in Reads(code[b][k]) /\ Untouched(code[b], i, k, z)
    BY <2>1 DEF LiveAt, ReadFrom
  <2>3. k < j
    <3>1. ASSUME k >= j PROVE FALSE
      <4>1. k \in j .. Len(code[b]) /\ Untouched(code[b], j, k, z)
        BY <1>1, <2>2, <3>1 DEF Untouched
      <4>. QED  BY <1>6, <2>2, <4>1 DEF LiveAt, ReadFrom
    <3>. QED  BY <1>1, <3>1
  <2>4. j \in k .. Len(code[b]) /\ Untouched(code[b], k, j, y) /\ k \in DOMAIN code[b]
    BY <1>1, <1>2, <2>2, <2>3 DEF Untouched
  <2>5. LiveAt(code, b, k, y)
    BY <1>2, <2>4 DEF LiveAt, ReadFrom
  <2>6. Edges(z, y)
    BY <1>3, <2>2, <2>4, <2>5, UseEdge
  <2>. QED  BY <2>6, EdgesBothWays
<1>. QED  BY <1>5, <1>6

\* Two temporaries that are live at the start of a block interfere.
LEMMA StartEdge ==
  ASSUME TypeOK, ScanInv, phase = "done", NEW r \in Vregs, NEW s \in Vregs, Comparable(r, s),
         NEW b, b \in LiveIn(code, r), b \in LiveIn(code, s)
  PROVE  Edges(r, s)
<1>. DEFINE X == {a \in DOMAIN code : a \in LiveIn(code, r) /\ a \in LiveIn(code, s) => Edges(r, s)}
<1>0. Allocatable(code, prog.result)
  BY EmittedCode
<1>1. ASSUME NEW a \in DOMAIN code,
             \/ ReadFrom(code[a], 1, r)
             \/ Through(code[a], 1, r) /\ Successors(code, a) \intersect X # {},
             a \in LiveIn(code, r), a \in LiveIn(code, s)
      PROVE  Edges(r, s)
  <2>1. LiveAt(code, a, 1, r) /\ LiveAt(code, a, 1, s)
    BY <1>1, LiveInStart
  <2>2. Comparable(s, r)
    BY DEF Comparable
  <2>3. CASE ReadFrom(code[a], 1, r)
    BY <2>1, <2>3, BlockEdge
  <2>4. CASE ReadFrom(code[a], 1, s)
    <3>1. Edges(s, r)
      BY <2>1, <2>2, <2>4, BlockEdge
    <3>. QED  BY <3>1, EdgesBothWays
  <2>5. CASE ~ReadFrom(code[a], 1, r) /\ ~ReadFrom(code[a], 1, s)
    <3>1. Successors(code, a) \subseteq LiveIn(code, r) /\ Successors(code, a) \subseteq LiveIn(code, s)
      BY <1>0, <2>1, <2>5 DEF LiveAt, Allocatable, Temporaries
    <3>. QED  BY <1>1, <2>5, <3>1
  <2>. QED  BY <2>3, <2>4, <2>5
<1>2. Closed(code, r, X)
  BY <1>1 DEF Closed
<1>3. b \in X
  BY <1>2 DEF LiveIn
<1>. QED  BY <1>3

\* Two temporaries that are live together interfere.
LEMMA LiveEdge ==
  ASSUME TypeOK, ScanInv, phase = "done", NEW r \in Vregs, NEW s \in Vregs, Comparable(r, s),
         NEW b \in DOMAIN code, NEW i \in Nat \ {0}, LiveAt(code, b, i, r), LiveAt(code, b, i, s)
  PROVE  Edges(r, s)
<1>1. Comparable(s, r)
  BY DEF Comparable
<1>2. CASE ReadFrom(code[b], i, r)
  BY <1>2, BlockEdge
<1>3. CASE ReadFrom(code[b], i, s)
  <2>1. Edges(s, r)
    BY <1>1, <1>3, BlockEdge
  <2>. QED  BY <2>1, EdgesBothWays
<1>4. CASE ~ReadFrom(code[b], i, r) /\ ~ReadFrom(code[b], i, s)
  <2>1. PICK a \in Successors(code, b) : a \in LiveIn(code, r)
    BY <1>4 DEF LiveAt
  <2>2. Successors(code, b) \subseteq LiveIn(code, s)
    <3>1. Allocatable(code, prog.result) /\ Successors(code, b) \intersect LiveIn(code, s) # {}
      BY <1>4, EmittedCode DEF LiveAt
    <3>. QED  BY <3>1 DEF Allocatable, Temporaries
  <2>. QED  BY <2>1, <2>2, StartEdge
<1>. QED  BY <1>2, <1>3, <1>4
-----------------------------------------------------------------------------
(* The colours *)

\* A float register has a float colour, and no other register has it.
LEMMA ColorsOfKind ==
  ASSUME NEW r \in Regs, NEW k \in DOMAIN Colors(r)
  PROVE  /\ Colors(r)[k] \in Colorable /\ Colors(r)[k] \in Fixed
         /\ IsFloat(Colors(r)[k]) <=> IsFloat(r)
<1>1. IsFloat(r) => Colors(r)[k] \in FloatNames
  BY DEF Colors, FloatNames
<1>2. ~IsFloat(r) => Colors(r)[k] \in IntNames
  BY DEF Colors, IntNames
<1>3. \A x \in Fixed : x \notin FloatTemps \X Rounds
  BY Apart, Names DEF Vregs
<1>. QED  BY <1>1, <1>2, <1>3, Apart DEF Colorable, Fixed, IsFloat

\* colorOneReg takes a colour of the register's kind.
LEMMA ColorPainted == TypeOK /\ PaintedColors /\ (\E r \in todo : ColorReg(r)) => PaintedColors'
<1>. SUFFICES ASSUME TypeOK, PaintedColors, NEW q \in todo, ColorReg(q)
              PROVE  PaintedColors'
  OBVIOUS
<1>1. PICK k \in Free(q) : name' = [name EXCEPT ![q] = Colors(q)[k]]
  BY DEF ColorReg
<1>2. phase = "color" /\ phase' = "color" /\ need' = need /\ todo' = todo \ {q}
  BY DEF ColorReg
<1>3. name \in [Vregs -> Fixed \union {Uncolored}] /\ q \in Vregs /\ need \subseteq Vregs /\ q \in need
  BY DEF TypeOK
<1>4. k \in DOMAIN Colors(q)
  BY DEF Free
<1>5. Painted' = Painted \union {q}
  BY <1>2, <1>3 DEF Painted
<1>6. ASSUME NEW r \in Painted' PROVE name'[r] \in {Colors(r)[j] : j \in DOMAIN Colors(r)}
  <2>1. CASE r = q
    BY <1>1, <1>3, <1>4, <2>1
  <2>2. CASE r # q
    <3>1. r \in Painted /\ r \in Vregs
      BY <1>2, <1>3, <1>5, <2>2 DEF Painted
    <3>2. name'[r] = name[r]
      BY <1>1, <1>3, <2>2, <3>1
    <3>. QED  BY <3>1, <3>2 DEF PaintedColors
  <2>. QED  BY <2>1, <2>2
<1>. QED  BY <1>6 DEF PaintedColors, Colors, IsFloat

\* Every step of the allocator keeps PaintedColors.
LEMMA NextPainted == TypeOK /\ PaintedColors /\ [AllocNext]_vars => PaintedColors'
<1>. SUFFICES ASSUME TypeOK, PaintedColors, [AllocNext]_vars PROVE PaintedColors'
  OBVIOUS
<1>1. CASE EmitRound
  <2>1. Painted' = {}
    BY <1>1 DEF EmitRound, StartBuild, Painted
  <2>. QED  BY <2>1 DEF PaintedColors
<1>2. CASE ScanInst
  <2>1. Painted' = {}
    BY <1>2 DEF ScanInst, Painted
  <2>. QED  BY <2>1 DEF PaintedColors
<1>3. CASE EndBlock
  <2>1. Painted' = {}
    BY <1>3 DEF EndBlock, Painted
  <2>. QED  BY <2>1 DEF PaintedColors
<1>4. CASE \E r \in todo : ColorReg(r) \/ FailReg(r)
  <2>1. ASSUME NEW r \in todo, FailReg(r) PROVE PaintedColors'
    <3>1. Painted' = {}
      BY <2>1 DEF FailReg, Painted
    <3>. QED  BY <3>1 DEF PaintedColors
  <2>. QED  BY <1>4, <2>1, ColorPainted
<1>5. CASE Colored
  <2>1. Painted' = Painted /\ name' = name
    BY <1>5 DEF Colored, Painted
  <2>. QED  BY <2>1 DEF PaintedColors, Colors, IsFloat
<1>6. CASE Spill
  <2>1. Painted' = {}
    BY <1>6 DEF Spill, StartBuild, Painted
  <2>. QED  BY <2>1 DEF PaintedColors
<1>7. CASE UNCHANGED vars
  <2>1. Painted' = Painted /\ name' = name
    BY <1>7 DEF vars, Painted
  <2>. QED  BY <2>1 DEF PaintedColors, Colors, IsFloat
<1>. QED  BY <1>1, <1>2, <1>3, <1>4, <1>5, <1>6, <1>7 DEF AllocNext

-----------------------------------------------------------------------------
(* The registers of the finished code *)

DoneInv == AllocInv /\ ScanInv /\ PaintedColors /\ phase = "done"

\* When coloring() has succeeded, every register of the code, and every one
\* that is live somewhere, has been coloured.
LEMMA AllNeeded ==
  ASSUME DoneInv
  PROVE  /\ Painted = need
         /\ \A b \in DOMAIN code : \A i \in DOMAIN code[b] : VregsAt(b, i) \subseteq need
         /\ \A b \in DOMAIN code : \A i \in Nat \ {0} : \A r \in Vregs : LiveAt(code, b, i, r) => r \in need
<1>1. TypeOK /\ LiveNeeded /\ Scanned /\ todo = {} /\ ScanInv /\ phase = "done"
  BY DEF DoneInv, AllocInv, AllPainted
<1>2. Painted = need
  BY <1>1 DEF Painted
<1>3. \A b \in DOMAIN code : \A i \in DOMAIN code[b] : VregsAt(b, i) \subseteq need
  BY <1>1 DEF Scanned
<1>4. ASSUME NEW b \in DOMAIN code, NEW i \in Nat \ {0}, NEW r \in Vregs, LiveAt(code, b, i, r)
      PROVE  r \in need
  <2>1. CASE ReadFrom(code[b], i, r)
    <3>1. PICK j \in i .. Len(code[b]) : r \in Reads(code[b][j])
      BY <2>1 DEF ReadFrom
    <3>2. j \in DOMAIN code[b] /\ code[b][j] \in Instr(Regs)
      BY <1>1, EmittedCode
    <3>3. r \notin code[b][j].used
      BY <3>2, Apart DEF Instr
    <3>4. r \in VregsAt(b, j)
      BY <3>1, <3>3 DEF Reads, VregsAt
    <3>. QED  BY <1>3, <3>2, <3>4
  <2>2. CASE Successors(code, b) \intersect LiveIn(code, r) # {}
    <3>1. PICK a \in DOMAIN code : a \in LiveIn(code, r)
      BY <2>2 DEF Successors
    <3>2. r \in alives[a] /\ a \in DOMAIN alives
      BY <1>1, <3>1, Solved DEF Regs, TypeOK
    <3>. QED  BY <1>1, <3>2 DEF LiveNeeded
  <2>. QED  BY <1>4, <2>1, <2>2 DEF LiveAt
<1>. QED  BY <1>2, <1>3, <1>4

\* A register of the code has a colour of its kind.
LEMMA ColorOf ==
  ASSUME DoneInv, NEW r \in need
  PROVE  /\ r \in Vregs /\ name[r] \in Colorable /\ name[r] \in Fixed
         /\ IsFloat(name[r]) <=> IsFloat(r)
         /\ name[r] \in CalleeSaved => name[r] \in pushed
<1>1. r \in Vregs /\ r \in Regs
  BY DEF DoneInv, AllocInv, TypeOK, Regs
<1>2. r \in Painted
  BY AllNeeded
<1>3. PICK k \in DOMAIN Colors(r) : name[r] = Colors(r)[k]
  BY <1>2 DEF DoneInv, PaintedColors
<1>4. name[r] \in CalleeSaved => name[r] \in pushed
  BY <1>2 DEF DoneInv, AllocInv, PaintedPushed, AllPainted
<1>. QED  BY <1>1, <1>3, <1>4, ColorsOfKind

\* An interference keeps two names apart.
LEMMA EdgeApart ==
  ASSUME DoneInv, NEW r \in need, NEW x \in need \union Fixed, x # r,
         Comparable(r, x) => <<r, x>> \in intf
  PROVE  name[r] # NameOf(x)
<1>1. r \in Vregs /\ r \in Regs /\ x \in Regs /\ (x \in Fixed => NameOf(x) = x) /\ (x \in need => NameOf(x) = name[x])
  BY Apart DEF DoneInv, AllocInv, TypeOK, Regs, NameOf
<1>2. SUFFICES ASSUME name[r] = NameOf(x) PROVE FALSE
  OBVIOUS
<1>3. IsFloat(r) <=> IsFloat(x)
  BY <1>1, <1>2, ColorOf
<1>4. <<r, x>> \in intf
  BY <1>1, <1>3 DEF Comparable
<1>5. r \in Painted /\ x \in Painted \union Fixed
  BY AllNeeded
<1>. QED  BY <1>1, <1>2, <1>4, <1>5 DEF DoneInv, AllocInv, NoClash

\* Two temporaries that are live together are in different registers.
LEMMA LiveApart ==
  ASSUME DoneInv, NEW b \in DOMAIN code, NEW i \in Nat \ {0}, NEW r \in Vregs, NEW s \in Vregs, r # s,
         LiveAt(code, b, i, r), LiveAt(code, b, i, s)
  PROVE  name[r] # name[s]
<1>1. r \in need /\ s \in need /\ TypeOK /\ ScanInv /\ phase = "done"
  BY AllNeeded DEF DoneInv, AllocInv
<1>2. Comparable(r, s) => <<r, s>> \in intf
  BY <1>1, LiveEdge DEF Edges
<1>3. NameOf(s) = name[s]
  BY DEF NameOf
<1>. QED  BY <1>1, <1>2, <1>3, EdgeApart

\* No live temporary is in an argument register that is about to be read.
LEMMA FixedApart ==
  ASSUME DoneInv, NEW b \in DOMAIN code, NEW i \in Nat \ {0}, NEW r \in Vregs, NEW x \in Fixed,
         LiveAt(code, b, i, r), ReadFrom(code[b], i, x)
  PROVE  name[r] # x
<1>1. r \in need /\ TypeOK /\ ScanInv /\ phase = "done" /\ r # x /\ NameOf(x) = x
  BY AllNeeded, Apart DEF DoneInv, AllocInv, NameOf
<1>2. Comparable(r, x) => Comparable(x, r)
  BY DEF Comparable
<1>3. Comparable(r, x) => <<r, x>> \in intf
  BY <1>1, <1>2, BlockEdge DEF Edges
<1>. QED  BY <1>1, <1>3, EdgeApart

\* What is live across a call is in a register that the call preserves.
LEMMA CallApart ==
  ASSUME DoneInv, NEW b \in DOMAIN code, NEW i \in DOMAIN code[b], code[b][i].kind = "call",
         NEW r \in Vregs, r # code[b][i].dest, LiveAt(code, b, i + 1, r)
  PROVE  name[r] \notin CallerSaved
<1>0. TypeOK /\ ScanInv /\ phase = "done"
  BY DEF DoneInv, AllocInv
<1>1. i + 1 \in Nat \ {0} /\ r \in Regs
  BY <1>0, EmittedCode DEF Regs
<1>2. r \in need
  BY <1>1, AllNeeded
<1>3. ASSUME NEW s \in CallerSaved PROVE name[r] # s
  <2>1. s \in Fixed /\ s # r /\ NameOf(s) = s
    BY Names, Apart DEF NameOf
  <2>. PICK L : L = {x \in Regs : LiveAt(code, b, i + 1, x)}
    OBVIOUS
  <2>. DEFINE live0 == L \ {code[b][i].dest}
              live1 == live0 \union ({code[b][i].src1} \ {NoReg})
              live2 == live1 \union ({code[b][i].src2} \ {NoReg})
  <2>2. Recorded(code[b][i], L)
    BY <1>0, CodeFacts
  <2>3. Meet(s, live2) \subseteq intf
    BY <2>2 DEF Recorded
  <2>4. r \in live2
    BY <1>1
  <2>5. Comparable(r, s) => <<r, s>> \in intf
    <3>. HIDE DEF live2
    <3>1. Comparable(r, s) => Comparable(s, r)
      BY DEF Comparable
    <3>. QED  BY <2>3, <2>4, <3>1, MeetEdges DEF Edges
  <2>. QED  BY <1>2, <2>1, <2>5, EdgeApart
<1>. QED  BY <1>3
-----------------------------------------------------------------------------
(* One instruction *)

\* The instruction of the selected code that comes next at instruction i.
LEMMA Places ==
  ASSUME TypeOK, ScanInv, phase = "done", NEW b \in DOMAIN code, NEW f, f = FreshCode(prog, round),
         NEW i \in 1 .. Len(code[b]) + 1, NEW h, Embeds(f[b], code[b], h)
  PROVE  /\ Place(b, i) \in 1 .. Len(f[b]) + 1
         /\ Upcoming(h, Len(f[b]), Place(b, i), i)
<1>. PICK s, w : s = f[b] /\ w = code[b]
  OBVIOUS
<1>1. /\ Len(s) \in Nat /\ DOMAIN s = 1 .. Len(s) /\ Len(w) \in Nat /\ DOMAIN w = 1 .. Len(w)
      /\ \A n \in 1 .. Len(s) : ~IsSpill(s[n])
  BY EmittedCode, LaidFacts
<1>2. PICK m \in 1 .. Len(s) + 1 : Upcoming(h, Len(s), m, i)
  <2>1. Embeds(s, w, h) /\ i \in 1 .. Len(w) + 1
    OBVIOUS
  <2>. QED  BY <1>1, <2>1, UpcomingExists
<1>3. \A n \in 1 .. Len(s) : h[n] \in 1 .. Len(w) /\ w[h[n]] = s[n] /\ (n >= m <=> h[n] >= i)
  <2>1. Embeds(s, w, h) /\ i \in 1 .. Len(w) + 1
    OBVIOUS
  <2>2. \A n \in 1 .. Len(s) : n >= m <=> h[n] >= i
    BY <1>1, <1>2, <2>1, EmbedOrder
  <2>. QED  BY <2>1, <2>2 DEF Embeds
<1>4. Template(b, i) = {h[n] : n \in 1 .. m - 1}
  <2>1. ASSUME NEW k \in Template(b, i) PROVE \E n \in 1 .. m - 1 : h[n] = k
    <3>1. k \in 1 .. Len(w) /\ k < i /\ ~IsSpill(w[k])
      BY DEF Template, IsSpill
    <3>2. PICK n \in 1 .. Len(s) : h[n] = k
      BY <3>1 DEF Embeds
    <3>3. ~(n >= m)
      BY <1>3, <3>1, <3>2
    <3>4. n \in 1 .. m - 1
      BY <3>3
    <3>. QED  BY <3>2, <3>4
  <2>2. ASSUME NEW n \in 1 .. m - 1 PROVE h[n] \in Template(b, i)
    <3>1. n \in 1 .. Len(s) /\ ~(n >= m)
      OBVIOUS
    <3>2. h[n] \in 1 .. i - 1 /\ ~IsSpill(w[h[n]])
      BY <1>1, <1>3, <3>1
    <3>. QED  BY <3>2 DEF Template, IsSpill
  <2>. QED  BY <2>1, <2>2
<1>5. Cardinality(Template(b, i)) = m - 1
  <2>. PICK g : g = [n \in 1 .. m - 1 |-> h[n]]
    OBVIOUS
  <2>1. ASSUME NEW n \in 1 .. m - 1, NEW k \in 1 .. m - 1, h[n] = h[k] PROVE n = k
    <3>1. n \in 1 .. Len(s) /\ k \in 1 .. Len(s) /\ h[n] \in Int
      BY <1>3
    <3>2. (n < k => h[n] < h[k]) /\ (k < n => h[k] < h[n])
      BY <3>1 DEF Embeds
    <3>. QED  BY <2>1, <3>1, <3>2
  <2>2. g \in Bijection(1 .. m - 1, Template(b, i))
    BY <1>4, <2>1 DEF Bijection, Injection, Surjection, IsInjective
  <2>3. IsFiniteSet(1 .. m - 1) /\ Cardinality(1 .. m - 1) = m - 1
    <3>1. m - 1 \in Int /\ 1 \in Int /\ m - 1 >= 0
      OBVIOUS
    <3>2. IsFiniteSet(1 .. m - 1) /\ Cardinality(1 .. m - 1) = IF 1 <= m - 1 THEN ((m - 1) - 1) + 1 ELSE 0
      BY <3>1, FS_Interval
    <3>. QED  BY <3>1, <3>2
  <2>4. ExistsBijection(1 .. m - 1, Template(b, i))
    BY <2>2 DEF ExistsBijection
  <2>. QED  BY <2>3, <2>4, FS_Bijection
<1>6. Place(b, i) = m
  BY <1>5 DEF Place
<1>. QED  BY <1>2, <1>6

\* At an instruction of the program that one comes next, and then the one
\* behind it.
LEMMA PlaceStep ==
  ASSUME TypeOK, ScanInv, phase = "done", NEW b \in DOMAIN code, NEW f, f = FreshCode(prog, round),
         NEW i \in DOMAIN code[b]
  PROVE  /\ IsSpill(code[b][i]) => Place(b, i + 1) = Place(b, i)
         /\ ~IsSpill(code[b][i]) => /\ Place(b, i) \in DOMAIN f[b] /\ f[b][Place(b, i)] = code[b][i]
                                    /\ Place(b, i + 1) = Place(b, i) + 1
<1>. PICK s, w, m, k : s = f[b] /\ w = code[b] /\ m = Place(b, i) /\ k = Place(b, i + 1)
  OBVIOUS
<1>1. /\ Len(s) \in Nat /\ DOMAIN s = 1 .. Len(s) /\ Len(w) \in Nat /\ DOMAIN w = 1 .. Len(w)
      /\ \A n \in 1 .. Len(s) : ~IsSpill(s[n])
  BY EmittedCode, LaidFacts
<1>2. PICK h : Embeds(s, w, h)
  BY EmittedCode DEF Laid
<1>3. /\ m \in 1 .. Len(s) + 1 /\ Upcoming(h, Len(s), m, i)
      /\ k \in 1 .. Len(s) + 1 /\ Upcoming(h, Len(s), k, i + 1)
  <2>1. Embeds(f[b], code[b], h) /\ i \in 1 .. Len(code[b]) + 1 /\ i + 1 \in 1 .. Len(code[b]) + 1
    BY <1>1, <1>2
  <2>. QED  BY <2>1, Places
<1>4. \A n \in 1 .. Len(s) : h[n] \in 1 .. Len(w) /\ w[h[n]] = s[n] /\ (n >= m <=> h[n] >= i) /\ (n >= k <=> h[n] >= i + 1)
  <2>1. i \in 1 .. Len(w) + 1 /\ i + 1 \in 1 .. Len(w) + 1
    BY <1>1
  <2>2. \A n \in 1 .. Len(s) : n >= m <=> h[n] >= i
    BY <1>1, <1>2, <1>3, <2>1, EmbedOrder
  <2>3. \A n \in 1 .. Len(s) : n >= k <=> h[n] >= i + 1
    BY <1>1, <1>2, <1>3, <2>1, EmbedOrder
  <2>. QED  BY <1>2, <2>2, <2>3 DEF Embeds
<1>5. ASSUME IsSpill(w[i]) PROVE k = m
  <2>1. \A n \in 1 .. Len(s) : h[n] # i
    BY <1>1, <1>4, <1>5
  <2>2. \A n \in 1 .. Len(s) : n >= m <=> n >= k
    BY <1>1, <1>4, <2>1
  <2>3. m < k => FALSE
    <3>1. m < k => m \in 1 .. Len(s)
      BY <1>1, <1>3
    <3>. QED  BY <1>3, <2>2, <3>1
  <2>4. k < m => FALSE
    <3>1. k < m => k \in 1 .. Len(s)
      BY <1>1, <1>3
    <3>. QED  BY <1>3, <2>2, <3>1
  <2>. QED  BY <1>3, <2>3, <2>4
<1>6. ASSUME ~IsSpill(w[i]) PROVE m \in 1 .. Len(s) /\ s[m] = w[i] /\ k = m + 1
  <2>1. PICK n \in 1 .. Len(s) : h[n] = i
    BY <1>1, <1>2, <1>6 DEF Embeds
  <2>2. n >= m /\ ~(n >= k)
    BY <1>1, <1>4, <2>1
  <2>3. m \in 1 .. Len(s)
    BY <1>1, <1>3, <2>2
  <2>4. ~(m < n)
    <3>1. m < n => h[m] < h[n]
      BY <1>2, <2>3 DEF Embeds
    <3>2. h[m] >= i /\ h[m] \in Int
      BY <1>3, <1>4, <2>3
    <3>. QED  BY <1>1, <2>1, <3>1, <3>2
  <2>5. n = m
    BY <1>3, <2>2, <2>4
  <2>6. k <= m + 1
    <3>1. CASE k <= Len(s)
      <4>1. CASE m + 1 <= Len(s)
        <5>1. m + 1 \in 1 .. Len(s) /\ m < m + 1
          BY <2>3, <4>1
        <5>2. h[m] < h[m + 1]
          BY <1>2, <2>3, <5>1 DEF Embeds
        <5>3. h[m + 1] >= i + 1
          BY <1>1, <1>4, <2>1, <2>5, <5>1, <5>2
        <5>. QED  BY <1>4, <5>1, <5>3
      <4>. QED  BY <1>1, <1>3, <3>1, <4>1
    <3>2. CASE ~(k <= Len(s))
      <4>1. k = Len(s) + 1
        BY <1>1, <1>3, <3>2
      <4>2. m + 1 \in 1 .. Len(s) => FALSE
        <5>1. SUFFICES ASSUME m + 1 \in 1 .. Len(s) PROVE FALSE
          OBVIOUS
        <5>0. m < m + 1
          BY <2>3
        <5>2. h[m] < h[m + 1]
          BY <1>2, <2>3, <5>0, <5>1 DEF Embeds
        <5>3. h[m + 1] >= i + 1
          BY <1>1, <1>4, <2>1, <2>5, <5>1, <5>2
        <5>. QED  BY <1>1, <1>4, <4>1, <5>1, <5>3
      <4>. QED  BY <1>1, <1>3, <2>3, <4>1, <4>2
    <3>. QED  BY <3>1, <3>2
  <2>. QED  BY <1>1, <1>3, <1>4, <2>1, <2>2, <2>3, <2>5, <2>6
<1>. QED  BY <1>1, <1>5, <1>6

\* An instruction of the program, its template, and where the colours put them.
LEMMA Instruction ==
  ASSUME DoneInv, NEW b \in DOMAIN code \ {Len(code)}, NEW i \in DOMAIN code[b], ~IsSpill(code[b][i]),
         NEW ins, ins = code[b][i], NEW src, src = prog.code[b][Place(b, i)]
  PROVE  /\ src \in Instr(Temps \union Fixed) /\ ins \in Instr(Regs)
         /\ ins = Fresh(src, round)
         /\ ins.kind = src.kind /\ ins.used = src.used /\ ins.target = src.target
         /\ ins.dest = Object(src.dest, round) /\ ins.src1 = Object(src.src1, round)
         /\ ins.src2 = Object(src.src2, round)
         /\ ins.kind = "jump" <=> i = Len(code[b])
         /\ ins.kind = "branch" => i = Len(code[b]) - 1
         /\ ins.kind \in {"branch", "jump"} => ins.dest = NoReg /\ ins.target \in 2 .. Len(code)
<1>. PICK f, m : f = FreshCode(prog, round) /\ m = Place(b, i)
  OBVIOUS
<1>1. /\ TypeOK /\ ScanInv /\ phase = "done" /\ prog \in Programs /\ round \in Rounds
  BY DEF DoneInv, AllocInv, TypeOK
<1>2. Controlled(code) /\ DOMAIN prog.code = DOMAIN code /\ ins \in Instr(Regs)
  BY <1>1, EmittedCode DEF Allocatable
<1>3. b \in DOMAIN prog.code /\ f[b] = [j \in DOMAIN prog.code[b] |-> Fresh(prog.code[b][j], round)]
  BY <1>1, <1>2 DEF FreshCode
<1>4. m \in DOMAIN prog.code[b] /\ ins = Fresh(src, round)
  <2>1. m \in DOMAIN f[b] /\ f[b][m] = code[b][i]
    BY <1>1, PlaceStep
  <2>. QED  BY <1>3, <2>1
<1>5. src \in Instr(Temps \union Fixed)
  <2>1. prog.code \in Seq(Seq(Instr(Temps \union Fixed)))
    BY <1>1, ProgramsOK
  <2>2. prog.code[b] \in Seq(Instr(Temps \union Fixed))
    BY <1>3, <2>1
  <2>. QED  BY <1>4, <2>2
<1>6. /\ ins.kind = src.kind /\ ins.used = src.used /\ ins.target = src.target
      /\ ins.dest = Object(src.dest, round) /\ ins.src1 = Object(src.src1, round)
      /\ ins.src2 = Object(src.src2, round)
  BY <1>4, <1>5 DEF Fresh, Instr
<1>7. /\ ins.kind = "jump" <=> i = Len(code[b])
      /\ ins.kind = "branch" => i = Len(code[b]) - 1
      /\ ins.kind \in {"branch", "jump"} => ins.dest = NoReg /\ ins.target \in 2 .. Len(code)
  BY <1>2 DEF Controlled
<1>. QED  BY <1>2, <1>4, <1>5, <1>6, <1>7

\* An object is a virtual register where the template's register is.
LEMMA Objects ==
  ASSUME NEW x \in Temps \union Fixed \union {NoReg}, NEW g \in Rounds
  PROVE  /\ x \in Temps => Object(x, g) = <<x, g>> /\ Object(x, g) \in Vregs /\ NameOf(Object(x, g)) = name[<<x, g>>]
         /\ x \in Fixed => Object(x, g) = x /\ NameOf(Object(x, g)) = x /\ x \notin Temps /\ x \notin Vregs
         /\ x = NoReg <=> Object(x, g) = NoReg
         /\ x = NoReg => x \notin Temps /\ x \notin Fixed /\ x \notin Vregs
BY Apart DEF Object, NameOf, Vregs, Regs

\* The registers that are live after it are not overwritten by it.
LEMMA NotOverwritten ==
  ASSUME DoneInv, NEW b \in DOMAIN code, NEW i \in DOMAIN code[b],
         NEW d, d = code[b][i].dest, d # NoReg
  PROVE  /\ d \notin CalleeSaved \union Special
         /\ d \in Fixed => d \in Colorable /\ NameOf(d) = d
         /\ d \in Vregs => d \in need /\ NameOf(d) = name[d]
         /\ d \in Fixed \/ d \in Vregs
         /\ \A r \in Vregs : r # d /\ LiveAt(code, b, i + 1, r) => name[r] # NameOf(d)
         /\ \A x \in Colorable : x # d /\ ReadFrom(code[b], i + 1, x) => x # NameOf(d)
<1>1. /\ TypeOK /\ ScanInv /\ phase = "done" /\ Allocatable(code, prog.result)
      /\ DOMAIN code = 1 .. Len(code) /\ Len(code) \in Nat \ {0}
      /\ Len(code[b]) \in Nat /\ DOMAIN code[b] = 1 .. Len(code[b]) /\ code[b][i] \in Instr(Regs)
  BY EmittedCode DEF DoneInv, AllocInv
<1>2. d \notin CalleeSaved \union Special
  BY <1>1 DEF Allocatable, Operands
<1>3. d \in Fixed \/ d \in Vregs
  BY <1>1 DEF Instr, Regs
<1>4. d \in Fixed => d \in Colorable /\ NameOf(d) = d /\ d \notin Vregs
  BY <1>2, Apart DEF Fixed, Colorable, NameOf
<1>5. d \in Vregs => d \in need /\ NameOf(d) = name[d]
  <2>1. d \in Vregs => d \in VregsAt(b, i)
    BY DEF VregsAt
  <2>. QED  BY <2>1, AllNeeded DEF NameOf
<1>6. i + 1 \in Nat \ {0}
  BY <1>1
<1>7. \/ LiveAt(code, b, i + 1, d)
      \/ \A x \in (Vregs \union Colorable) \ {d} : ~LiveAt(code, b, i + 1, x)
  BY <1>1 DEF Allocatable, Useful
<1>8. ASSUME d \in Fixed, LiveAt(code, b, i + 1, d) PROVE ReadFrom(code[b], i + 1, d)
  <2>1. Closed(code, d, {1})
    <3>1. \A a \in DOMAIN code \ {1} : ~ReadFrom(code[a], 1, d)
      BY <1>1, <1>4, <1>8 DEF Allocatable, Locally
    <3>2. \A a \in DOMAIN code : 1 \notin Successors(code, a)
      BY <1>1 DEF Allocatable, Controlled, Successors
    <3>. QED  BY <3>1, <3>2 DEF Closed
  <2>2. LiveIn(code, d) \subseteq {1}
    BY <1>1, <2>1 DEF LiveIn
  <2>3. 1 \notin Successors(code, b)
    BY <1>1 DEF Allocatable, Controlled, Successors
  <2>. QED  BY <1>8, <2>2, <2>3 DEF LiveAt
<1>9. ASSUME NEW r \in Vregs, r # d, LiveAt(code, b, i + 1, r) PROVE name[r] # NameOf(d)
  <2>1. LiveAt(code, b, i + 1, d)
    BY <1>7, <1>9
  <2>2. CASE d \in Vregs
    BY <1>5, <1>6, <1>9, <2>1, <2>2, LiveApart
  <2>3. CASE d \in Fixed
    BY <1>4, <1>6, <1>8, <1>9, <2>1, <2>3, FixedApart
  <2>. QED  BY <1>3, <2>2, <2>3
<1>10. ASSUME NEW x \in Colorable, x # d, ReadFrom(code[b], i + 1, x) PROVE x # NameOf(d)
  <2>1. LiveAt(code, b, i + 1, d)
    BY <1>7, <1>10 DEF LiveAt
  <2>2. CASE d \in Vregs
    BY <1>5, <1>6, <1>10, <2>1, <2>2, FixedApart DEF Colorable, Fixed
  <2>3. CASE d \in Fixed
    BY <1>4, <1>10, <2>3
  <2>. QED  BY <1>3, <2>2, <2>3
<1>. QED  BY <1>2, <1>3, <1>4, <1>5, <1>9, <1>10
-----------------------------------------------------------------------------
(* A step of the run *)

\* VM!Written for an instruction of a kind with destination d.
Write(file, d, kind, token) ==
  [r \in DOMAIN file |-> IF r = d THEN token
                         ELSE IF kind = "call" /\ r \in CallerSaved THEN NoReg
                         ELSE file[r]]

\* Both files before instruction i of block b.
Ready(b, i, fp, fv) ==
  DOMAIN fp = Fixed /\ DOMAIN fv = Temps \union Fixed /\ Agree(b, i, fp, fv) /\ Kept(fp, fv)

\* Neither file has changed.
Same(fp, fv, gp, gv) ==
  (\A x \in Fixed : gp[x] = fp[x] /\ gv[x] = fv[x]) /\ \A t \in Temps : gv[t] = fv[t]

\* The physical register that instruction i of block b writes.
Dest(b, i) == IF code[b][i].dest = NoReg THEN NoReg ELSE NameOf(code[b][i].dest)

\* The two register files after an instruction still agree.
LEMMA StepKeeps ==
  ASSUME DoneInv, NEW b \in DOMAIN code \ {Len(code)}, NEW i \in DOMAIN code[b], ~IsSpill(code[b][i]),
         NEW fp, NEW fv, Ready(b, i, fp, fv), NEW token,
         NEW gp, gp = Write(fp, Dest(b, i), code[b][i].kind, token),
         NEW gv, gv = Write(fv, prog.code[b][Place(b, i)].dest, code[b][i].kind, token)
  PROVE  /\ Ready(b, i + 1, gp, gv)
         /\ code[b][i].kind \in {"branch", "jump"} => Same(fp, fv, gp, gv)
<1>. PICK ins, src, d : ins = code[b][i] /\ src = prog.code[b][Place(b, i)] /\ d = Dest(b, i)
  OBVIOUS
<1>0. /\ TypeOK /\ ScanInv /\ phase = "done" /\ round \in Rounds
      /\ DOMAIN code = 1 .. Len(code) /\ Len(code) \in Nat \ {0} /\ prog \in Programs /\ code \in Blocks(prog)
      /\ Len(code[b]) \in Nat /\ DOMAIN code[b] = 1 .. Len(code[b])
  BY EmittedCode DEF DoneInv, AllocInv, TypeOK
<1>1. /\ src \in Instr(Temps \union Fixed) /\ ins \in Instr(Regs)
      /\ ins.kind = src.kind /\ ins.dest = Object(src.dest, round)
      /\ ins.kind \in {"branch", "jump"} => ins.dest = NoReg
  <2>1. src \in Instr(Temps \union Fixed) /\ ins \in Instr(Regs)
    BY Instruction
  <2>2. ins.kind = src.kind /\ ins.dest = Object(src.dest, round)
    BY Instruction
  <2>3. ins.kind \in {"branch", "jump"} => ins.dest = NoReg
    BY Instruction
  <2>. QED  BY <2>1, <2>2, <2>3
<1>2. src.dest \in Temps \union Fixed \union {NoReg} /\ ins.dest \in Regs \union {NoReg}
  BY <1>1 DEF Instr
<1>3. /\ src.dest \in Temps => ins.dest = <<src.dest, round>> /\ ins.dest \in Vregs
      /\ src.dest \in Fixed => ins.dest = src.dest /\ src.dest \notin Temps
      /\ src.dest = NoReg <=> ins.dest = NoReg
      /\ NoReg \notin Temps /\ NoReg \notin Fixed /\ NoReg \notin Vregs
      /\ Temps \intersect Fixed = {} /\ Vregs \intersect Fixed = {}
  <2>1. Temps \intersect Fixed = {} /\ Vregs \intersect Fixed = {}
    BY Apart
  <2>2. NoReg \notin Temps /\ NoReg \notin Fixed /\ NoReg \notin Vregs
    BY Apart DEF Regs
  <2>3. CASE src.dest \in Temps
    <3>1. Object(src.dest, round) = <<src.dest, round>> /\ Object(src.dest, round) \in Vregs
      BY <1>0, <2>3, Objects
    <3>. QED  BY <1>1, <2>1, <2>2, <2>3, <3>1
  <2>4. CASE src.dest \in Fixed
    BY <1>0, <1>1, <2>1, <2>2, <2>4, Objects
  <2>5. CASE src.dest = NoReg
    BY <1>0, <1>1, <2>1, <2>2, <2>5, Objects
  <2>. QED  BY <1>2, <2>1, <2>2, <2>3, <2>4, <2>5
<1>4. d = IF ins.dest = NoReg THEN NoReg ELSE NameOf(ins.dest)
  BY DEF Dest
<1>5. \A x \in Fixed : gp[x] = IF x = d THEN token
                               ELSE IF ins.kind = "call" /\ x \in CallerSaved THEN NoReg ELSE fp[x]
  BY DEF Write, Ready
<1>6. \A x \in Temps \union Fixed :
        gv[x] = IF x = src.dest THEN token
                ELSE IF ins.kind = "call" /\ x \in CallerSaved THEN NoReg ELSE fv[x]
  BY DEF Write, Ready
<1>7. DOMAIN gp = Fixed /\ DOMAIN gv = Temps \union Fixed
  BY DEF Write, Ready
<1>8. \A x : LiveAt(code, b, i, x)
        <=> x \in Reads(ins) \/ (ins.dest # x /\ LiveAt(code, b, i + 1, x))
  BY <1>0, CodeFacts
<1>9. \A x : ReadFrom(code[b], i, x)
        <=> x \in Reads(ins) \/ (ins.dest # x /\ ReadFrom(code[b], i + 1, x))
  BY <1>0, ReadStep
<1>10. /\ \A t \in Temps : LiveAt(code, b, i, <<t, round>>) => fp[name[<<t, round>>]] = fv[t]
       /\ \A x \in Colorable : ReadFrom(code[b], i, x) => fp[x] = fv[x]
  BY DEF Agree, Ready
<1>11. /\ CallerSaved \subseteq Fixed /\ CalleeSaved \subseteq Fixed /\ Special \subseteq Fixed /\ Colorable \subseteq Fixed
       /\ CallerSaved \intersect CalleeSaved = {} /\ CallerSaved \intersect Special = {}
       /\ Colorable \intersect Special = {}
  BY Names, Apart DEF Fixed, Colorable
<1>12. ASSUME NEW t \in Temps, LiveAt(code, b, i + 1, <<t, round>>)
       PROVE  gp[name[<<t, round>>]] = gv[t]
  <2>. PICK r : r = <<t, round>>
    OBVIOUS
  <2>1. r \in Vregs
    BY <1>0 DEF Vregs
  <2>2. name[r] \in Fixed
    <3>1. i + 1 \in Nat \ {0}
      BY <1>0
    <3>2. r \in need
      BY <1>12, <2>1, <3>1, AllNeeded
    <3>. QED  BY <3>2, ColorOf
  <2>3. CASE src.dest = t
    <3>1. ins.dest = r /\ NameOf(r) = name[r] /\ r # NoReg
      BY <1>3, <2>1, <2>3 DEF NameOf
    <3>2. d = name[r]
      BY <1>4, <3>1
    <3>. QED  BY <1>5, <1>6, <2>2, <2>3, <3>2
  <2>4. CASE src.dest # t
    <3>1. ins.dest # r
      BY <1>2, <1>3, <2>1, <2>4
    <3>2. fp[name[r]] = fv[t]
      BY <1>8, <1>10, <1>12, <3>1
    <3>3. name[r] # d
      BY <1>3, <1>4, <1>12, <2>1, <2>2, <3>1, NotOverwritten
    <3>4. ins.kind = "call" => name[r] \notin CallerSaved
      BY <1>12, <2>1, <3>1, CallApart
    <3>5. t \notin CallerSaved
      BY <1>3, <1>11
    <3>. QED  BY <1>5, <1>6, <2>2, <2>4, <3>2, <3>3, <3>4, <3>5
  <2>. QED  BY <2>3, <2>4
<1>13. ASSUME NEW x \in Fixed, src.dest = x PROVE gp[x] = gv[x]
  <2>1. ins.dest = x /\ NameOf(x) = x
    BY <1>3, <1>13 DEF NameOf
  <2>2. d = x
    BY <1>3, <1>4, <2>1
  <2>. QED  BY <1>5, <1>6, <1>13, <2>2
<1>14. ASSUME NEW x \in Colorable, ReadFrom(code[b], i + 1, x)
       PROVE  gp[x] = gv[x]
  <2>1. x \in Fixed
    BY <1>11
  <2>2. CASE src.dest # x
    <3>1. ins.dest # x
      BY <1>2, <1>3, <2>1, <2>2
    <3>2. fp[x] = fv[x]
      BY <1>9, <1>10, <1>14, <3>1
    <3>3. x # d
      BY <1>3, <1>4, <1>14, <2>1, <3>1, NotOverwritten
    <3>. QED  BY <1>5, <1>6, <2>1, <2>2, <3>2, <3>3
  <2>. QED  BY <1>13, <2>1, <2>2
<1>15. ASSUME NEW x \in Special PROVE gp[x] = x /\ gv[x] = x
  <2>1. x \in Fixed /\ x \notin CallerSaved /\ fp[x] = x /\ fv[x] = x
    BY <1>11 DEF Kept, Ready
  <2>2. ins.dest # NoReg => NameOf(ins.dest) # x /\ ins.dest # x
    BY <1>11, NotOverwritten, ColorOf
  <2>3. x # d /\ x # src.dest
    BY <1>3, <1>4, <2>1, <2>2
  <2>. QED  BY <1>5, <1>6, <2>1, <2>3
<1>16. ASSUME NEW x \in CalleeSaved PROVE gv[x] = x /\ (x \notin pushed => gp[x] = x)
  <2>1. x \in Fixed /\ x \notin CallerSaved /\ fv[x] = x /\ (x \notin pushed => fp[x] = x)
    BY <1>11 DEF Kept, Ready
  <2>2. ins.dest # NoReg => ins.dest # x /\ (NameOf(ins.dest) = x => x \in pushed)
    BY NotOverwritten, ColorOf
  <2>3. x # src.dest /\ (x = d => x \in pushed)
    BY <1>3, <1>4, <2>1, <2>2
  <2>. QED  BY <1>5, <1>6, <2>1, <2>3
<1>17. ASSUME NEW x \in Fixed, i + 1 > 1, code[b][(i + 1) - 1].dest = x PROVE gp[x] = gv[x]
  <2>1. (i + 1) - 1 = i
    BY <1>0
  <2>2. src.dest = x
    BY <1>2, <1>3, <1>17, <2>1
  <2>. QED  BY <1>13, <2>2
<1>18. ASSUME ins.kind \in {"branch", "jump"}
       PROVE  (\A x \in Fixed : gp[x] = fp[x] /\ gv[x] = fv[x]) /\ \A t \in Temps : gv[t] = fv[t]
  <2>1. d = NoReg /\ src.dest = NoReg /\ ins.kind # "call"
    BY <1>1, <1>3, <1>4, <1>18
  <2>. QED  BY <1>3, <1>5, <1>6, <2>1
<1>. QED  BY <1>7, <1>12, <1>14, <1>15, <1>16, <1>17, <1>18 DEF Agree, Kept, Ready, Same

\* At the target of a jump the files agree on what the block there reads.
LEMMA JumpKeeps ==
  ASSUME DoneInv, NEW b \in DOMAIN code \ {Len(code)}, NEW i \in DOMAIN code[b],
         code[b][i].kind \in {"branch", "jump"},
         NEW fp, NEW fv, Agree(b, i, fp, fv), NEW a, a = code[b][i].target
  PROVE  /\ a \in 2 .. Len(code)
         /\ a < Len(code) => Agree(a, 1, fp, fv)
         /\ a = Len(code) => \A x \in prog.result : fp[x] = fv[x]
<1>0. /\ TypeOK /\ ScanInv /\ phase = "done" /\ round \in Rounds /\ Allocatable(code, prog.result)
      /\ DOMAIN code = 1 .. Len(code) /\ Len(code) \in Nat \ {0}
      /\ Len(code[b]) \in Nat /\ DOMAIN code[b] = 1 .. Len(code[b])
  BY EmittedCode DEF DoneInv, AllocInv, TypeOK
<1>1. a \in 2 .. Len(code) /\ a \in Successors(code, b)
  BY <1>0 DEF Allocatable, Controlled, Successors
<1>2. \A k \in i .. Len(code[b]) : code[b][k].dest = NoReg
  <2>. SUFFICES ASSUME NEW k \in i .. Len(code[b]) PROVE code[b][k].dest = NoReg
    OBVIOUS
  <2>1. k \in DOMAIN code[b] /\ i >= Len(code[b]) - 1
    BY <1>0 DEF Allocatable, Controlled
  <2>2. k = i \/ k = Len(code[b])
    BY <1>0, <2>1
  <2>. QED  BY <1>0, <2>1, <2>2 DEF Allocatable, Controlled
<1>3. ASSUME NEW t \in Temps, LiveAt(code, a, 1, <<t, round>>), a < Len(code)
      PROVE  fp[name[<<t, round>>]] = fv[t]
  <2>1. a \in LiveIn(code, <<t, round>>)
    <3>1. a \in DOMAIN code
      BY <1>0, <1>1
    <3>. QED  BY <1>3, <3>1, LiveAtStart
  <2>2. <<t, round>> # NoReg
    <3>1. <<t, round>> \in Vregs
      BY <1>0 DEF Vregs
    <3>. QED  BY <3>1, Apart DEF Regs
  <2>3. Through(code[b], i, <<t, round>>)
    <3>1. \A k \in i .. (Len(code[b]) + 1) - 1 : k \in i .. Len(code[b])
      BY <1>0
    <3>. QED  BY <1>2, <2>2, <3>1 DEF Through, Untouched
  <2>4. LiveAt(code, b, i, <<t, round>>)
    BY <1>1, <2>1, <2>3 DEF LiveAt
  <2>. QED  BY <2>4 DEF Agree
<1>4. ASSUME a < Len(code) PROVE \A x \in Colorable : ~ReadFrom(code[a], 1, x)
  BY <1>0, <1>1 DEF Allocatable, Locally
<1>6. ASSUME NEW x \in prog.result, a = Len(code) PROVE fp[x] = fv[x]
  <2>1. code[b][i].kind = "jump"
    <3>1. code[b][i].kind = "branch" => a < Len(code)
      BY <1>0 DEF Allocatable, Controlled
    <3>. QED  BY <1>0, <1>6, <3>1
  <2>2. i > 1 /\ code[b][i - 1].dest = x /\ x \in Fixed
    BY <1>0, <1>6, <2>1, Names DEF Allocatable, Returned
  <2>. QED  BY <2>2 DEF Agree
<1>. QED  BY <1>1, <1>3, <1>4, <1>6 DEF Agree
-----------------------------------------------------------------------------
(* The slots of the frame *)

\* The finished code, and the selected code that it is made from.
LEMMA DoneFacts ==
  ASSUME DoneInv, NEW f, f = FreshCode(prog, round)
  PROVE  /\ TypeOK /\ ScanInv /\ phase = "done" /\ round \in Rounds /\ prog \in Programs /\ code \in Blocks(prog)
         /\ Laid(code, f, offset) /\ Allocatable(code, prog.result) /\ Controlled(f)
         /\ DOMAIN code = 1 .. Len(code) /\ Len(code) \in Nat \ {0} /\ f \in Blocks(prog) /\ DOMAIN f = DOMAIN code /\ Len(f) = Len(code)
         /\ \A b \in DOMAIN code :
              /\ Len(code[b]) \in Nat /\ DOMAIN code[b] = 1 .. Len(code[b])
              /\ Len(f[b]) \in Nat /\ DOMAIN f[b] = 1 .. Len(f[b])
              /\ Successors(code, b) = Successors(f, b) /\ Spaced(code[b], Slotted(code))
<1>1. /\ TypeOK /\ ScanInv /\ phase = "done" /\ round \in Rounds /\ prog \in Programs /\ code \in Blocks(prog)
      /\ Laid(code, f, offset) /\ Allocatable(code, prog.result)
  BY EmittedCode DEF DoneInv, AllocInv
<1>2. /\ f \in Blocks(prog) /\ Selected(f, prog.result) /\ DOMAIN f = DOMAIN code /\ Len(f) = Len(code)
      /\ DOMAIN code = 1 .. Len(code) /\ Len(code) \in Nat \ {0}
      /\ \A b \in DOMAIN code :
           /\ Len(code[b]) \in Nat /\ DOMAIN code[b] = 1 .. Len(code[b])
           /\ Len(f[b]) \in Nat /\ DOMAIN f[b] = 1 .. Len(f[b]) /\ Spaced(code[b], Slotted(code))
  BY <1>1, LaidFacts
<1>3. \A b \in DOMAIN code : Successors(code, b) = Successors(f, b)
  BY <1>1, LaidSuccessors
<1>4. Controlled(f)
  BY <1>2 DEF Selected, Allocatable
<1>. QED  BY <1>1, <1>2, <1>3, <1>4

\* Only a temporary of the last round of emission has a slot.
LEMMA SlottedRound ==
  ASSUME DoneInv, NEW o \in Slotted(code)
  PROVE  \E t \in Temps : o = <<t, round>>
<1>0. /\ round \in Rounds /\ Controlled(code) /\ DOMAIN code = 1 .. Len(code) /\ Len(code) \in Nat \ {0}
      /\ \A b \in DOMAIN code : /\ Len(code[b]) \in Nat /\ DOMAIN code[b] = 1 .. Len(code[b])
                                /\ Spaced(code[b], Slotted(code))
  BY DoneFacts DEF Allocatable
<1>1. PICK b \in DOMAIN code : \E i \in DOMAIN code[b] : IsSpill(code[b][i]) /\ RegOf(code[b][i]) = o
  BY DEF Slotted
<1>2. PICK i \in DOMAIN code[b] : IsSpill(code[b][i]) /\ RegOf(code[b][i]) = o
  BY <1>1
<1>3. PICK j \in DOMAIN code[b] : /\ ~IsSpill(code[b][j])
                                  /\ o \in {code[b][j].dest, code[b][j].src1, code[b][j].src2}
  <2>1. CASE code[b][i].kind = "store"
    <3>1. Stored(code[b], i) /\ RegOf(code[b][i]) = code[b][i].src1
      BY <1>0, <2>1 DEF Spaced, RegOf
    <3>2. i - 1 \in DOMAIN code[b]
      BY <1>0, <3>1 DEF Stored
    <3>. QED  BY <1>2, <3>1, <3>2 DEF Stored
  <2>2. CASE code[b][i].kind = "reload"
    <3>1. Reloaded(code[b], i) /\ RegOf(code[b][i]) = code[b][i].dest
      BY <1>0, <2>2 DEF Spaced, RegOf
    <3>2. PICK j \in i + 1 .. Len(code[b]) : ~IsSpill(code[b][j]) /\ code[b][i].dest \in {code[b][j].src1, code[b][j].src2}
      BY <3>1 DEF Reloaded
    <3>3. j \in DOMAIN code[b]
      BY <1>0
    <3>. QED  BY <1>2, <3>1, <3>2, <3>3
  <2>. QED  BY <1>2, <2>1, <2>2 DEF IsSpill
<1>4. b # Len(code)
  BY <1>0 DEF Controlled
<1>. PICK src : src = prog.code[b][Place(b, j)]
  OBVIOUS
<1>5. /\ src \in Instr(Temps \union Fixed) /\ code[b][j].dest = Object(src.dest, round)
      /\ code[b][j].src1 = Object(src.src1, round) /\ code[b][j].src2 = Object(src.src2, round)
  <2>0. b \in DOMAIN code \ {Len(code)}
    BY <1>4
  <2>1. src \in Instr(Temps \union Fixed)
    BY <1>3, <2>0, Instruction
  <2>2. code[b][j].dest = Object(src.dest, round)
    BY <1>3, <2>0, Instruction
  <2>3. code[b][j].src1 = Object(src.src1, round) /\ code[b][j].src2 = Object(src.src2, round)
    BY <1>3, <2>0, Instruction
  <2>. QED  BY <2>1, <2>2, <2>3
<1>6. PICK x \in Temps \union Fixed \union {NoReg} : o = Object(x, round)
  BY <1>3, <1>5 DEF Instr
<1>7. o \in Vregs
  BY DEF Slotted
<1>8. x \in Temps
  <2>1. x \notin Temps => o = x
    BY <1>6 DEF Object
  <2>2. o \notin Fixed /\ o # NoReg
    BY <1>7, Apart DEF Regs
  <2>. QED  BY <1>6, <2>1, <2>2
<1>. QED  BY <1>6, <1>8 DEF Object

\* The place of the first instruction of a block, and of the one that a
\* reload is for.
LEMMA PlaceFirst == \A b : Place(b, 1) = 1
<1>1. \A b : Template(b, 1) = {}
  BY DEF Template
<1>. QED  BY <1>1, FS_EmptySet DEF Place

LEMMA PlaceReload ==
  ASSUME NEW b, NEW i \in Nat, NEW j \in Nat, i <= j, \A k \in i .. j - 1 : IsSpill(code[b][k])
  PROVE  Place(b, j) = Place(b, i)
<1>1. Template(b, j) = Template(b, i)
  <2>1. ASSUME NEW k \in Template(b, j) PROVE k \in Template(b, i)
    <3>1. k \in 1 .. j - 1 /\ ~IsSpill(code[b][k])
      BY DEF Template, IsSpill
    <3>2. k \notin i .. j - 1
      BY <3>1
    <3>3. k \in 1 .. i - 1
      BY <3>1, <3>2
    <3>. QED  BY <3>1, <3>3 DEF Template, IsSpill
  <2>2. ASSUME NEW k \in Template(b, i) PROVE k \in Template(b, j)
    <3>1. k \in 1 .. i - 1
      BY DEF Template
    <3>2. k \in 1 .. j - 1
      BY <3>1
    <3>. QED  BY <3>2 DEF Template
  <2>. QED  BY <2>1, <2>2
<1>. QED  BY <1>1 DEF Place

\* An instruction of the program leaves in the slots what will be reloaded; what
\* it writes itself is stored next.
LEMMA SlotsStep ==
  ASSUME DoneInv, NEW b \in DOMAIN code \ {Len(code)}, NEW i \in DOMAIN code[b], ~IsSpill(code[b][i]),
         NEW sl, NEW fv, SlotsHold(b, i, sl, fv), DOMAIN fv = Temps \union Fixed, NEW token,
         NEW gv, gv = Write(fv, prog.code[b][Place(b, i)].dest, code[b][i].kind, token)
  PROVE  SlotsHold(b, i + 1, sl, gv)
<1>. PICK f, m, ins, src : f = FreshCode(prog, round) /\ m = Place(b, i) /\ ins = code[b][i] /\ src = prog.code[b][m]
  OBVIOUS
<1>0. /\ TypeOK /\ ScanInv /\ phase = "done" /\ round \in Rounds /\ prog \in Programs /\ f \in Blocks(prog)
      /\ DOMAIN f = DOMAIN code /\ Len(code[b]) \in Nat /\ DOMAIN code[b] = 1 .. Len(code[b])
      /\ Spaced(code[b], Slotted(code))
  BY DoneFacts
<1>1. m \in DOMAIN f[b] /\ f[b][m] = ins /\ Place(b, i + 1) = m + 1
  BY <1>0, PlaceStep
<1>2. src \in Instr(Temps \union Fixed) /\ ins.dest = Object(src.dest, round)
  <2>1. src \in Instr(Temps \union Fixed)
    BY Instruction
  <2>2. ins.dest = Object(src.dest, round)
    BY Instruction
  <2>. QED  BY <2>1, <2>2
<1>. SUFFICES ASSUME NEW t \in Temps, <<t, round>> \in Slotted(code), LiveAt(f, b, m + 1, <<t, round>>)
              PROVE  \/ Holds(sl, <<t, round>>, gv[t])
                     \/ code[b][i + 1].kind = "store" /\ code[b][i + 1].src1 = <<t, round>>
  BY <1>1 DEF SlotsHold
<1>3. CASE ins.dest = <<t, round>>
  <2>1. Saved(code[b], i)
    BY <1>0, <1>3 DEF Spaced
  <2>. QED  BY <1>3, <2>1 DEF Saved
<1>4. CASE ins.dest # <<t, round>>
  <2>1. LiveAt(f, b, m, <<t, round>>)
    <3>1. b \in DOMAIN f
      BY <1>0
    <3>. QED  BY <1>0, <1>1, <1>4, <3>1, LiveAtStep
  <2>2. Holds(sl, <<t, round>>, fv[t])
    BY <2>1 DEF SlotsHold, IsSpill
  <2>3. src.dest # t
    BY <1>2, <1>4 DEF Object
  <2>4. t \notin CallerSaved /\ t \in DOMAIN fv
    BY Names, Apart
  <2>5. gv[t] = fv[t]
    BY <2>3, <2>4 DEF Write
  <2>. QED  BY <2>2, <2>5
<1>. QED  BY <1>3, <1>4

\* So does a branch or a jump, where it leads.
LEMMA SlotsJump ==
  ASSUME DoneInv, NEW b \in DOMAIN code \ {Len(code)}, NEW i \in DOMAIN code[b],
         code[b][i].kind \in {"branch", "jump"},
         NEW sl, NEW fv, SlotsHold(b, i, sl, fv), NEW a, a = code[b][i].target, a < Len(code)
  PROVE  SlotsHold(a, 1, sl, fv)
<1>. PICK f, m, ins : f = FreshCode(prog, round) /\ m = Place(b, i) /\ ins = code[b][i]
  OBVIOUS
<1>0. /\ TypeOK /\ ScanInv /\ phase = "done" /\ round \in Rounds /\ prog \in Programs /\ f \in Blocks(prog)
      /\ DOMAIN f = DOMAIN code /\ Len(f) = Len(code) /\ Len(f[b]) \in Nat /\ DOMAIN f[b] = 1 .. Len(f[b]) /\ Controlled(f)
      /\ DOMAIN code = 1 .. Len(code) /\ Len(code) \in Nat \ {0}
      /\ Successors(code, b) = Successors(f, b) /\ Allocatable(code, prog.result)
  BY DoneFacts
<1>1. ~IsSpill(ins)
  BY DEF IsSpill
<1>2. m \in DOMAIN f[b] /\ f[b][m] = ins
  BY <1>0, <1>1, PlaceStep
<1>3. a \in 2 .. Len(code) /\ a \in Successors(f, b)
  BY <1>0 DEF Allocatable, Controlled, Successors
<1>4. \A k \in m .. Len(f[b]) : f[b][k].dest = NoReg
  <2>0. b \in DOMAIN f \ {Len(f)}
    BY <1>0
  <2>. SUFFICES ASSUME NEW k \in m .. Len(f[b]) PROVE f[b][k].dest = NoReg
    OBVIOUS
  <2>1. k \in DOMAIN f[b] /\ m >= Len(f[b]) - 1 /\ Len(f[b]) \in DOMAIN f[b]
    BY <1>0, <1>2, <2>0 DEF Controlled
  <2>2. k = m \/ k = Len(f[b])
    BY <1>0, <1>2, <2>1
  <2>. QED  BY <1>0, <1>2, <2>0, <2>1, <2>2 DEF Controlled
<1>. SUFFICES ASSUME NEW t \in Temps, <<t, round>> \in Slotted(code), LiveAt(f, a, 1, <<t, round>>)
              PROVE  Holds(sl, <<t, round>>, fv[t])
  BY PlaceFirst DEF SlotsHold
<1>5. a \in LiveIn(f, <<t, round>>)
  <2>1. a \in DOMAIN f
    BY <1>0, <1>3
  <2>. QED  BY <2>1, LiveAtStart
<1>6. Through(f[b], m, <<t, round>>)
  <2>1. <<t, round>> # NoReg
    <3>1. <<t, round>> \in Vregs
      BY <1>0 DEF Vregs
    <3>. QED  BY <3>1, Apart DEF Regs
  <2>2. \A k \in m .. (Len(f[b]) + 1) - 1 : k \in m .. Len(f[b])
    BY <1>0
  <2>. QED  BY <1>4, <2>1, <2>2 DEF Through, Untouched
<1>7. LiveAt(f, b, m, <<t, round>>)
  BY <1>3, <1>5, <1>6 DEF LiveAt
<1>. QED  BY <1>7 DEF SlotsHold

\* The slots after token v is stored at offset o.
Put(sl, o, v) == [p \in DOMAIN sl \union {o} |-> IF p = o THEN v ELSE sl[p]]

\* spill()'s store behind an instruction.
LEMMA StoreKeeps ==
  ASSUME DoneInv, NEW b \in DOMAIN code \ {Len(code)}, NEW i \in DOMAIN code[b], code[b][i].kind = "store",
         NEW fp, NEW fv, NEW sl, Ready(b, i, fp, fv), SlotsHold(b, i, sl, fv), NEW ins, ins = code[b][i],
         NEW sm, sm = Put(sl, ins.off, fp[NameOf(ins.src1)])
  PROVE  Ready(b, i + 1, fp, fv) /\ SlotsHold(b, i + 1, sm, fv)
<1>. PICK f, m : f = FreshCode(prog, round) /\ m = Place(b, i)
  OBVIOUS
<1>0. /\ TypeOK /\ ScanInv /\ phase = "done" /\ round \in Rounds /\ prog \in Programs /\ code \in Blocks(prog)
      /\ Laid(code, f, offset) /\ Len(code[b]) \in Nat /\ DOMAIN code[b] = 1 .. Len(code[b])
      /\ Spaced(code[b], Slotted(code)) /\ IsSpill(ins)
  BY DoneFacts DEF IsSpill
<1>1. ins.src1 \in Vregs /\ ins.dest = NoReg /\ RegOf(ins) = ins.src1 /\ NoReg \notin Vregs /\ NoReg \notin Fixed
  BY <1>0, Apart DEF Spaced, SpillForm, RegOf, Regs
<1>2. ins.src1 \in Slotted(code)
  BY <1>0, <1>1 DEF Slotted
<1>3. PICK t \in Temps : ins.src1 = <<t, round>>
  BY <1>2, SlottedRound
<1>. PICK o : o = <<t, round>>
  OBVIOUS
<1>4. Place(b, i + 1) = m
  BY <1>0, PlaceStep
<1>5. /\ \A x : LiveAt(code, b, i, x) <=> x \in Reads(ins) \/ (ins.dest # x /\ LiveAt(code, b, i + 1, x))
      /\ \A x : ReadFrom(code[b], i, x) <=> x \in Reads(ins) \/ (ins.dest # x /\ ReadFrom(code[b], i + 1, x))
  BY <1>0, LiveAtStep, ReadStep
<1>6. fp[NameOf(o)] = fv[t]
  <2>1. o \in Reads(ins)
    BY <1>1, <1>3 DEF Reads
  <2>2. LiveAt(code, b, i, o)
    BY <1>5, <2>1
  <2>3. NameOf(o) = name[o]
    BY <1>1, <1>3 DEF NameOf
  <2>. QED  BY <2>2, <2>3 DEF Ready, Agree
<1>7. Agree(b, i + 1, fp, fv)
  <2>1. ASSUME NEW u \in Temps, LiveAt(code, b, i + 1, <<u, round>>) PROVE fp[name[<<u, round>>]] = fv[u]
    <3>1. <<u, round>> # ins.dest
      BY <1>0, <1>1 DEF Vregs
    <3>2. LiveAt(code, b, i, <<u, round>>)
      BY <1>5, <2>1, <3>1
    <3>. QED  BY <3>2 DEF Ready, Agree
  <2>2. ASSUME NEW x \in Colorable, ReadFrom(code[b], i + 1, x) PROVE fp[x] = fv[x]
    <3>1. x # ins.dest
      BY <1>1 DEF Colorable, Fixed
    <3>2. ReadFrom(code[b], i, x)
      BY <1>5, <2>2, <3>1
    <3>. QED  BY <3>2 DEF Ready, Agree
  <2>3. (i + 1) - 1 = i
    BY <1>0
  <2>4. \A x \in Fixed : code[b][(i + 1) - 1].dest # x
    BY <1>1, <2>3
  <2>. QED  BY <2>1, <2>2, <2>4 DEF Agree
<1>8. ASSUME NEW u \in Temps, <<u, round>> \in Slotted(code), LiveAt(f, b, m, <<u, round>>)
      PROVE  Holds(sm, <<u, round>>, fv[u])
  <2>. SUFFICES ASSUME NEW a \in DOMAIN code, NEW j \in DOMAIN code[a],
                       IsSpill(code[a][j]), RegOf(code[a][j]) = <<u, round>>
                PROVE  code[a][j].off \in DOMAIN sm /\ sm[code[a][j].off] = fv[u]
    BY DEF Holds
  <2>1. RegOf(code[a][j]) = RegOf(ins) <=> code[a][j].off = ins.off
    <3>1. OneSlot(code)
      BY <1>0 DEF Laid
    <3>. QED  BY <1>0, <3>1 DEF OneSlot
  <2>2. CASE u = t
    <3>1. code[a][j].off = ins.off
      BY <1>1, <1>3, <2>1, <2>2
    <3>. QED  BY <1>3, <1>6, <2>2, <3>1 DEF Put
  <2>3. CASE u # t
    <3>1. code[a][j].off # ins.off /\ ins.src1 # <<u, round>>
      BY <1>1, <1>3, <2>1, <2>3
    <3>2. Holds(sl, <<u, round>>, fv[u])
      BY <1>8, <3>1 DEF SlotsHold
    <3>3. code[a][j].off \in DOMAIN sl /\ sl[code[a][j].off] = fv[u]
      BY <3>2 DEF Holds
    <3>. QED  BY <3>1, <3>3 DEF Put
  <2>. QED  BY <2>2, <2>3
<1>9. SlotsHold(b, i + 1, sm, fv)
  BY <1>4, <1>8 DEF SlotsHold
<1>. QED  BY <1>7, <1>9 DEF Ready

\* spill()'s load before an instruction.
LEMMA ReloadKeeps ==
  ASSUME DoneInv, NEW b \in DOMAIN code \ {Len(code)}, NEW i \in DOMAIN code[b], code[b][i].kind = "reload",
         NEW fp, NEW fv, NEW sl, Ready(b, i, fp, fv), SlotsHold(b, i, sl, fv), NEW ins, ins = code[b][i],
         NEW gp, gp = [fp EXCEPT ![NameOf(ins.dest)] = IF ins.off \in DOMAIN sl THEN sl[ins.off] ELSE NoReg]
  PROVE  Ready(b, i + 1, gp, fv) /\ SlotsHold(b, i + 1, sl, fv)
<1>. PICK f, m : f = FreshCode(prog, round) /\ m = Place(b, i)
  OBVIOUS
<1>0. /\ TypeOK /\ ScanInv /\ phase = "done" /\ round \in Rounds /\ prog \in Programs /\ code \in Blocks(prog)
      /\ f \in Blocks(prog) /\ DOMAIN f = DOMAIN code /\ Len(f[b]) \in Nat /\ DOMAIN f[b] = 1 .. Len(f[b])
      /\ Laid(code, f, offset) /\ Len(code[b]) \in Nat /\ DOMAIN code[b] = 1 .. Len(code[b])
      /\ Spaced(code[b], Slotted(code)) /\ IsSpill(ins)
  BY DoneFacts DEF IsSpill
<1>1. ins.dest \in Vregs /\ RegOf(ins) = ins.dest /\ NoReg \notin Vregs /\ NoReg \notin Fixed
  BY <1>0, Apart DEF Spaced, SpillForm, RegOf, Regs
<1>2. ins.dest \in Slotted(code)
  BY <1>0, <1>1 DEF Slotted
<1>3. PICK t \in Temps : ins.dest = <<t, round>>
  BY <1>2, SlottedRound
<1>. PICK o : o = <<t, round>>
  OBVIOUS
<1>4. Place(b, i + 1) = m
  BY <1>0, PlaceStep
<1>5. /\ \A x : LiveAt(code, b, i, x) <=> x \in Reads(ins) \/ (ins.dest # x /\ LiveAt(code, b, i + 1, x))
      /\ \A x : ReadFrom(code[b], i, x) <=> x \in Reads(ins) \/ (ins.dest # x /\ ReadFrom(code[b], i + 1, x))
  BY <1>0, LiveAtStep, ReadStep
<1>6. LiveAt(f, b, m, o)
  <2>1. PICK j \in i + 1 .. Len(code[b]) : /\ ~IsSpill(code[b][j]) /\ ins.dest \in {code[b][j].src1, code[b][j].src2}
                                           /\ Reloads(code[b], i + 1, j)
    BY <1>0 DEF Spaced, Reloaded
  <2>2. j \in DOMAIN code[b] /\ i \in Nat /\ j \in Nat /\ i <= j
    BY <1>0
  <2>3. \A k \in i .. j - 1 : IsSpill(code[b][k])
    <3>. SUFFICES ASSUME NEW k \in i .. j - 1 PROVE IsSpill(code[b][k])
      OBVIOUS
    <3>1. k = i \/ k \in i + 1 .. j - 1
      BY <2>2
    <3>. QED  BY <1>0, <2>1, <3>1 DEF Reloads, IsSpill
  <2>4. Place(b, j) = m
    BY <2>2, <2>3, PlaceReload
  <2>5. m \in DOMAIN f[b] /\ f[b][m] = code[b][j]
    BY <1>0, <2>1, <2>2, <2>4, PlaceStep
  <2>6. o \in Reads(f[b][m])
    BY <1>1, <1>3, <2>1, <2>5 DEF Reads
  <2>7. ReadFrom(f[b], m, o)
    BY <1>0, <2>5, <2>6, ReadStep
  <2>. QED  BY <2>7 DEF LiveAt
<1>7. ins.off \in DOMAIN sl /\ sl[ins.off] = fv[t]
  <2>1. Holds(sl, o, fv[t])
    BY <1>2, <1>3, <1>6 DEF SlotsHold
  <2>. QED  BY <1>0, <1>1, <1>3, <2>1 DEF Holds
<1>8. /\ o \in Vregs /\ o \in need /\ NameOf(o) = name[o] /\ name[o] \in Fixed /\ name[o] \in Colorable
      /\ name[o] \in CalleeSaved => name[o] \in pushed
      /\ \A r \in Vregs : r # o /\ LiveAt(code, b, i + 1, r) => name[r] # name[o]
      /\ \A x \in Colorable : x # o /\ ReadFrom(code[b], i + 1, x) => x # name[o]
  <2>1. ins.dest # NoReg /\ o = code[b][i].dest /\ b \in DOMAIN code
    BY <1>1, <1>3
  <2>2. o \in need /\ NameOf(o) = name[o]
    BY <1>1, <1>3, <2>1, NotOverwritten
  <2>3. /\ \A r \in Vregs : r # o /\ LiveAt(code, b, i + 1, r) => name[r] # NameOf(o)
        /\ \A x \in Colorable : x # o /\ ReadFrom(code[b], i + 1, x) => x # NameOf(o)
    BY <1>1, <1>3, <2>1, NotOverwritten
  <2>. QED  BY <2>2, <2>3, ColorOf
<1>9. /\ DOMAIN gp = Fixed /\ gp[name[o]] = fv[t] /\ \A x \in Fixed : x # name[o] => gp[x] = fp[x]
  BY <1>3, <1>7, <1>8 DEF Ready
<1>10. Agree(b, i + 1, gp, fv)
  <2>1. ASSUME NEW u \in Temps, LiveAt(code, b, i + 1, <<u, round>>) PROVE gp[name[<<u, round>>]] = fv[u]
    <3>. PICK r : r = <<u, round>>
      OBVIOUS
    <3>1. r \in Vregs /\ i + 1 \in Nat \ {0}
      BY <1>0 DEF Vregs
    <3>2. CASE u = t
      BY <1>9, <3>2
    <3>3. CASE u # t
      <4>1. r # o
        BY <3>3
      <4>2. LiveAt(code, b, i, r)
        BY <1>3, <1>5, <2>1, <4>1
      <4>3. fp[name[r]] = fv[u]
        BY <4>2 DEF Ready, Agree
      <4>4. name[r] # name[o]
        BY <1>8, <2>1, <3>1, <4>1
      <4>5. name[r] \in Fixed
        BY <2>1, <3>1, AllNeeded, ColorOf
      <4>. QED  BY <1>9, <4>3, <4>4, <4>5
    <3>. QED  BY <3>2, <3>3
  <2>2. ASSUME NEW x \in Colorable, ReadFrom(code[b], i + 1, x) PROVE gp[x] = fv[x]
    <3>1. x # o /\ x \in Fixed
      BY <1>8, Apart DEF Colorable, Fixed
    <3>2. ReadFrom(code[b], i, x)
      BY <1>3, <1>5, <2>2, <3>1
    <3>3. fp[x] = fv[x]
      BY <3>2 DEF Ready, Agree
    <3>. QED  BY <1>8, <1>9, <2>2, <3>1, <3>3
  <2>3. (i + 1) - 1 = i
    BY <1>0
  <2>4. \A x \in Fixed : code[b][(i + 1) - 1].dest # x
    BY <1>1, <2>3, Apart
  <2>. QED  BY <2>1, <2>2, <2>4 DEF Agree
<1>11. Kept(gp, fv)
  <2>1. \A x \in Special : x \in Fixed /\ x # name[o]
    BY <1>8, Apart DEF Fixed, Colorable
  <2>2. \A x \in CalleeSaved : x \in Fixed /\ (x \notin pushed => x # name[o])
    BY <1>8, Names
  <2>3. Kept(fp, fv)
    BY DEF Ready
  <2>. QED  BY <1>9, <2>1, <2>2, <2>3 DEF Kept
<1>12. SlotsHold(b, i + 1, sl, fv)
  <2>. SUFFICES ASSUME NEW u \in Temps, <<u, round>> \in Slotted(code), LiveAt(f, b, m, <<u, round>>)
                PROVE  Holds(sl, <<u, round>>, fv[u])
    BY <1>4 DEF SlotsHold
  <2>. QED  BY DEF SlotsHold
<1>. QED  BY <1>9, <1>10, <1>11, <1>12 DEF Ready
-----------------------------------------------------------------------------
(* The run keeps the invariant *)

\* At the entry no temporary is live and every register is the caller's.
LEMMA RunStarts == DoneInv /\ Unstarted => RunInv
<1>. SUFFICES ASSUME DoneInv, Unstarted PROVE RunInv
  OBVIOUS
<1>0. /\ TypeOK /\ ScanInv /\ phase = "done" /\ round \in Rounds /\ Allocatable(code, prog.result)
      /\ DOMAIN code = 1 .. Len(code) /\ Len(code) \in Nat \ {0} /\ DOMAIN code[1] = 1 .. Len(code[1])
      /\ Len(code[1]) \in Nat
  BY EmittedCode DEF DoneInv, AllocInv, TypeOK
<1>1. \A x \in Fixed : phys[x] = x /\ virt[x] = x
  BY DEF Unstarted
<1>2. CallerSaved \subseteq Fixed /\ CalleeSaved \subseteq Fixed /\ Special \subseteq Fixed /\ Colorable \subseteq Fixed
  BY Names DEF Fixed, Colorable
<1>3. Somewhere(pc)
  <2>1. Len(code) = 1 \/ (1 \in 1 .. Len(code) - 1 /\ 1 \in DOMAIN code \ {Len(code)})
    BY <1>0
  <2>2. 1 \in DOMAIN code \ {Len(code)} => 1 \in 1 .. Len(code[1])
    BY <1>0 DEF Allocatable, Controlled
  <2>. QED  BY <2>1, <2>2 DEF Somewhere, Unstarted
<1>4. Kept(phys, virt)
  BY <1>1, <1>2 DEF Kept
<1>5. Agree(1, 1, phys, virt)
  <2>1. ASSUME NEW t \in Temps PROVE ~LiveAt(code, 1, 1, <<t, round>>)
    <3>. PICK r : r = <<t, round>>
      OBVIOUS
    <3>1. r \in Vregs /\ 1 \in DOMAIN code
      BY <1>0 DEF Vregs
    <3>2. 1 \notin LiveIn(code, r)
      BY <1>0, <3>1 DEF Allocatable, Temporaries
    <3>. QED  BY <3>1, <3>2, LiveAtStart
  <2>. QED  BY <1>1, <1>2, <2>1 DEF Agree
<1>6. prog.result \subseteq Fixed
  BY <1>0, <1>2 DEF Allocatable, Returned
<1>7. pc[1] = 1 /\ pc[2] = 1 /\ DOMAIN phys = Fixed /\ DOMAIN virt = Temps \union Fixed
  BY DEF Unstarted
<1>8. SlotsHold(1, 1, slots, virt)
  <2>. PICK f : f = FreshCode(prog, round)
    OBVIOUS
  <2>. SUFFICES ASSUME NEW t \in Temps, LiveAt(f, 1, 1, <<t, round>>) PROVE FALSE
    BY PlaceFirst DEF SlotsHold
  <2>1. 1 \in DOMAIN f /\ Selected(f, prog.result)
    BY <1>0, EmittedCode, LaidFacts
  <2>2. 1 \in LiveIn(f, <<t, round>>)
    BY <2>1, LiveAtStart
  <2>3. <<t, round>> \in Vregs
    BY <1>0 DEF Vregs
  <2>. QED  BY <2>1, <2>2, <2>3 DEF Selected, Allocatable, Temporaries
<1>. QED  BY <1>0, <1>1, <1>3, <1>4, <1>5, <1>6, <1>7, <1>8 DEF RunInv

\* The run is about to execute instruction i of block b.
Running(b, i) ==
  /\ b \in DOMAIN code \ {Len(code)} /\ i \in DOMAIN code[b]
  /\ pc = <<b, i>> /\ Origin = <<b, Place(b, i)>>
  /\ Ready(b, i, phys, virt) /\ SlotsHold(b, i, slots, virt)

LEMMA RunningSomewhere ==
  ASSUME DoneInv, RunInv, pc[1] # 0, pc[1] < Len(code)
  PROVE  \E b, i : Running(b, i)
<1>0. /\ phase = "done" /\ DOMAIN code = 1 .. Len(code) /\ Len(code) \in Nat \ {0}
      /\ \A b \in DOMAIN code : Len(code[b]) \in Nat /\ DOMAIN code[b] = 1 .. Len(code[b])
  BY DoneFacts
<1>. PICK n : n = Len(code)
  OBVIOUS
<1>a. PICK b \in 1 .. n - 1 : \E i \in 1 .. Len(code[b]) : pc = <<b, i>>
  BY <1>0 DEF RunInv, Somewhere
<1>1. PICK i \in 1 .. Len(code[b]) : pc = <<b, i>>
  BY <1>a
<1>2. b \in DOMAIN code \ {Len(code)} /\ b # 0 /\ i \in DOMAIN code[b]
  <2>1. b \in DOMAIN code /\ b # Len(code) /\ b # 0
    <3>1. n \in Nat /\ DOMAIN code = 1 .. n
      BY <1>0
    <3>. QED  BY <3>1
  <2>2. DOMAIN code[b] = 1 .. Len(code[b])
    BY <1>0, <2>1
  <2>. QED  BY <2>1, <2>2
<1>3. Ready(b, i, phys, virt) /\ SlotsHold(b, i, slots, virt)
  BY <1>0, <1>1 DEF RunInv, Ready
<1>4. Origin = <<b, Place(b, i)>>
  BY <1>0, <1>1, <1>2 DEF Origin, Place
<1>. QED  BY <1>1, <1>2, <1>3, <1>4 DEF Running

\* The step leads to instruction j of block a, or to the end.
LEMMA RunsOn ==
  ASSUME DoneInv, UNCHANGED vars, NEW a \in DOMAIN code, NEW j, pc' = <<a, j>>,
         a # Len(code) => j \in DOMAIN code[a] /\ Agree(a, j, phys', virt') /\ SlotsHold(a, j, slots', virt'),
         a = Len(code) => j = 1 /\ \A x \in prog.result : phys'[x] = virt'[x],
         DOMAIN phys' = Fixed, DOMAIN virt' = Temps \union Fixed, Kept(phys', virt')
  PROVE  RunInv'
<1>0. /\ DOMAIN code = 1 .. Len(code) /\ Len(code) \in Nat \ {0}
      /\ \A b \in DOMAIN code : Len(code[b]) \in Nat /\ DOMAIN code[b] = 1 .. Len(code[b])
  BY DoneFacts
<1>. PICK q, gp, gv, sm : q = pc' /\ gp = phys' /\ gv = virt' /\ sm = slots'
  OBVIOUS
<1>1. /\ Somewhere(q) /\ DOMAIN gp = Fixed /\ DOMAIN gv = Temps \union Fixed /\ Kept(gp, gv)
      /\ q[1] \in 1 .. Len(code) - 1 => Agree(q[1], q[2], gp, gv) /\ SlotsHold(q[1], q[2], sm, gv)
      /\ q[1] = Len(code) => \A x \in prog.result : gp[x] = gv[x]
  <2>1. CASE a = Len(code)
    <3>1. q[1] = a /\ a \notin 1 .. Len(code) - 1
      BY <1>0, <2>1
    <3>. QED  BY <2>1, <3>1 DEF Somewhere
  <2>2. CASE a # Len(code)
    <3>1. q[1] = a /\ q[2] = j /\ a \in 1 .. Len(code) - 1 /\ j \in 1 .. Len(code[a])
      BY <1>0, <2>2
    <3>2. Somewhere(q)
      BY <3>1 DEF Somewhere
    <3>. QED  BY <2>2, <3>1, <3>2
  <2>. QED  BY <2>1, <2>2
<1>2. phase' = "done" /\ UNCHANGED <<code, prog, round, name, pushed>>
  BY DEF vars, DoneInv
<1>3. \A b, i : Place(b, i)' = Place(b, i)
  BY <1>2 DEF Place, Template
<1>4. /\ \A c, i, fp, fv : Agree(c, i, fp, fv)' <=> Agree(c, i, fp, fv)
      /\ \A fp, fv : Kept(fp, fv)' <=> Kept(fp, fv)
      /\ \A here : Somewhere(here)' <=> Somewhere(here)
  BY <1>2 DEF Agree, Kept, Somewhere
<1>5. \A b, i, sl, fv : SlotsHold(b, i, sl, fv)' <=> SlotsHold(b, i, sl, fv)
  <2>1. \A sl, o, v : Holds(sl, o, v)' <=> Holds(sl, o, v)
    BY <1>2 DEF Holds
  <2>2. FreshCode(prog, round)' = FreshCode(prog, round)
    BY <1>2 DEF FreshCode
  <2>. QED  BY <1>2, <1>3, <2>1, <2>2 DEF SlotsHold
<1>6. /\ Somewhere(q)' /\ Kept(gp, gv)'
      /\ q[1] \in 1 .. Len(code) - 1 => Agree(q[1], q[2], gp, gv)' /\ SlotsHold(q[1], q[2], sm, gv)'
  BY <1>1, <1>4, <1>5
<1>7. /\ Somewhere(pc)' /\ Kept(phys, virt)'
      /\ pc'[1] \in 1 .. Len(code)' - 1 => Agree(pc[1], pc[2], phys, virt)' /\ SlotsHold(pc[1], pc[2], slots, virt)'
  BY <1>2, <1>6
<1>8. /\ (DOMAIN phys = Fixed /\ DOMAIN virt = Temps \union Fixed)'
      /\ pc'[1] = Len(code)' => \A x \in prog.result : phys'[x] = virt'[x]
  BY <1>1, <1>2
<1>. QED  BY <1>2, <1>7, <1>8 DEF RunInv

\* A block goes on behind what is not its jump.
LEMMA GoesOn ==
  ASSUME DoneInv, NEW b \in DOMAIN code \ {Len(code)}, NEW i \in DOMAIN code[b], code[b][i].kind # "jump"
  PROVE  i + 1 \in DOMAIN code[b]
<1>1. Len(code[b]) \in Nat /\ DOMAIN code[b] = 1 .. Len(code[b]) /\ Controlled(code)
  BY DoneFacts DEF Allocatable
<1>2. i # Len(code[b])
  BY <1>1 DEF Controlled
<1>. QED  BY <1>1, <1>2

\* An instruction of the program keeps RunInv.
LEMMA ProgramRuns ==
  ASSUME DoneInv, NEW b, NEW i, Running(b, i), ~IsSpill(code[b][i]), ProgramStep, UNCHANGED vars
  PROVE  RunInv'
<1>0. /\ DOMAIN code = 1 .. Len(code) /\ Len(code) \in Nat \ {0}
      /\ Allocatable(code, prog.result) /\ Controlled(code) /\ round \in Rounds
  BY DoneFacts DEF Allocatable
<1>2. /\ b \in DOMAIN code \ {Len(code)} /\ i \in DOMAIN code[b] /\ pc = <<b, i>> /\ Origin = <<b, Place(b, i)>>
      /\ Ready(b, i, phys, virt) /\ SlotsHold(b, i, slots, virt)
  BY DEF Running
<1>. PICK fp, fv, gp, gv, q, token, ins, src, d, sl :
       /\ token = <<b, Place(b, i)>> /\ fp = phys /\ fv = virt /\ gp = phys' /\ gv = virt' /\ q = pc'
       /\ ins = code[b][i] /\ src = prog.code[b][Place(b, i)] /\ sl = slots
       /\ d = IF ins.dest = NoReg THEN NoReg ELSE NameOf(ins.dest)
  OBVIOUS
<1>a. ins \in Instr(Regs) /\ src \in Instr(Temps \union Fixed) /\ ins.kind = src.kind
  <2>1. ins \in Instr(Regs) /\ src \in Instr(Temps \union Fixed)
    BY <1>2, Instruction
  <2>2. ins.kind = src.kind
    BY <1>2, Instruction
  <2>. QED  BY <2>1, <2>2
<1>b. Inst = ins /\ Source = src /\ Origin = token
  BY <1>2 DEF Inst, Source
<1>c. Named.dest = d /\ Named.kind = ins.kind
  BY <1>a, <1>b DEF Named, Instr
<1>3. /\ gp = Write(fp, d, ins.kind, token) /\ gv = Write(fv, src.dest, ins.kind, token)
      /\ q \in VM!After(ins, <<b, i>>) /\ slots' = sl
  BY <1>2, <1>a, <1>b, <1>c DEF ProgramStep, VM!Written, Write
<1>4. Ready(b, i, fp, fv) /\ SlotsHold(b, i, sl, fv)
  BY <1>2
<1>5. Ready(b, i + 1, gp, gv) /\ (ins.kind \in {"branch", "jump"} => Same(fp, fv, gp, gv))
  <2>1. gp = Write(fp, Dest(b, i), code[b][i].kind, token)
    BY <1>3 DEF Dest
  <2>. QED  BY <1>2, <1>3, <1>4, <2>1, StepKeeps
<1>6. CASE ins.kind # "jump" /\ q = <<b, i + 1>>
  <2>1. i + 1 \in DOMAIN code[b]
    BY <1>2, <1>6, GoesOn
  <2>2. DOMAIN fv = Temps \union Fixed
    BY <1>4 DEF Ready
  <2>3. SlotsHold(b, i + 1, sl, gv)
    BY <1>2, <1>3, <1>4, <2>2, SlotsStep
  <2>4. /\ Agree(b, i + 1, phys', virt') /\ SlotsHold(b, i + 1, slots', virt')
        /\ DOMAIN phys' = Fixed /\ DOMAIN virt' = Temps \union Fixed /\ Kept(phys', virt')
    BY <1>3, <1>5, <2>3 DEF Ready
  <2>5. b \in DOMAIN code /\ b # Len(code) /\ pc' = <<b, i + 1>>
    BY <1>2, <1>6
  <2>. QED  BY <2>1, <2>4, <2>5, RunsOn
<1>7. CASE ins.kind \in {"branch", "jump"} /\ q = <<ins.target, 1>>
  <2>. PICK a : a = ins.target
    OBVIOUS
  <2>1. /\ a \in 2 .. Len(code)
        /\ a < Len(code) => Agree(a, 1, fp, fv)
        /\ a = Len(code) => \A x \in prog.result : fp[x] = fv[x]
    BY <1>2, <1>4, <1>7, JumpKeeps DEF Ready
  <2>2. a \in DOMAIN code /\ (a # Len(code) => a < Len(code) /\ 1 \in DOMAIN code[a])
    <3>1. a \in DOMAIN code /\ (a # Len(code) => a < Len(code) /\ a \in DOMAIN code \ {Len(code)})
      BY <1>0, <2>1
    <3>2. a # Len(code) => code[a] # << >> /\ Len(code[a]) \in Nat /\ DOMAIN code[a] = 1 .. Len(code[a]) /\ code[a] \in Seq(Instr(Regs))
      <4>1. code \in Blocks(prog)
        BY DoneFacts
      <4>2. code[a] \in Seq(Instr(Regs))
        BY <3>1, <4>1 DEF Blocks
      <4>. QED  BY <1>0, <3>1, <4>2 DEF Controlled
    <3>3. a # Len(code) => Len(code[a]) # 0
      BY <3>2
    <3>. QED  BY <3>1, <3>2, <3>3
  <2>3. ASSUME a # Len(code) PROVE Agree(a, 1, gp, gv) /\ SlotsHold(a, 1, sl, gv)
    <3>1. ASSUME NEW t \in Temps, LiveAt(code, a, 1, <<t, round>>)
          PROVE  gp[name[<<t, round>>]] = gv[t]
      <4>. PICK r : r = <<t, round>>
        OBVIOUS
      <4>1. r \in Vregs /\ a \in DOMAIN code /\ 1 \in Nat \ {0}
        BY <1>0, <2>2 DEF Vregs
      <4>2. name[r] \in Fixed
        BY <3>1, <4>1, AllNeeded, ColorOf
      <4>3. fp[name[r]] = fv[t]
        BY <2>1, <2>2, <2>3, <3>1 DEF Agree
      <4>. QED  BY <1>5, <1>7, <4>2, <4>3 DEF Same
    <3>2. Colorable \subseteq Fixed
      BY DEF Colorable, Fixed
    <3>3. Agree(a, 1, gp, gv)
      BY <1>5, <1>7, <2>1, <2>2, <2>3, <3>1, <3>2 DEF Agree, Same
    <3>4. SlotsHold(a, 1, sl, fv)
      BY <1>2, <1>4, <1>7, <2>2, <2>3, SlotsJump
    <3>5. \A t \in Temps : gv[t] = fv[t]
      BY <1>5, <1>7 DEF Same
    <3>. QED  BY <3>3, <3>4, <3>5 DEF SlotsHold
  <2>4. ASSUME a = Len(code), NEW x \in prog.result PROVE gp[x] = gv[x]
    <3>1. x \in Fixed
      BY <1>0, Names DEF Allocatable, Returned
    <3>. QED  BY <1>5, <1>7, <2>1, <2>4, <3>1 DEF Same
  <2>5. pc' = <<a, 1>> /\ phys' = gp /\ virt' = gv /\ slots' = sl
    BY <1>3, <1>7
  <2>6. DOMAIN phys' = Fixed /\ DOMAIN virt' = Temps \union Fixed /\ Kept(phys', virt')
    BY <1>5 DEF Ready
  <2>7. a # Len(code) => 1 \in DOMAIN code[a] /\ Agree(a, 1, phys', virt') /\ SlotsHold(a, 1, slots', virt')
    BY <2>2, <2>3, <2>5
  <2>8. a = Len(code) => 1 = 1 /\ \A x \in prog.result : phys'[x] = virt'[x]
    BY <2>4, <2>5
  <2>. QED  BY <2>2, <2>5, <2>6, <2>7, <2>8, RunsOn
<1>. QED  BY <1>3, <1>6, <1>7 DEF VM!After

\* So do a store and a load of spill().
LEMMA SpillRuns ==
  ASSUME DoneInv, NEW b, NEW i, Running(b, i), IsSpill(code[b][i]), SpillStep, UNCHANGED vars
  PROVE  RunInv' /\ UNCHANGED <<virt, seen>> /\ pc' = <<b, i + 1>>
<1>2. /\ b \in DOMAIN code \ {Len(code)} /\ i \in DOMAIN code[b] /\ pc = <<b, i>>
      /\ Ready(b, i, phys, virt) /\ SlotsHold(b, i, slots, virt)
  BY DEF Running
<1>. PICK fp, fv, gp, ins, sl, sm : /\ fp = phys /\ fv = virt /\ gp = phys' /\ ins = code[b][i]
                                    /\ sl = slots /\ sm = slots'
  OBVIOUS
<1>3. Inst = ins /\ pc' = <<b, i + 1>> /\ virt' = fv /\ seen' = seen
  BY <1>2 DEF Inst, SpillStep
<1>4. Ready(b, i, fp, fv) /\ SlotsHold(b, i, sl, fv)
  BY <1>2
<1>5. Ready(b, i + 1, gp, fv) /\ SlotsHold(b, i + 1, sm, fv)
  <2>1. CASE ins.kind = "store"
    <3>1. sm = Put(sl, ins.off, fp[NameOf(ins.src1)]) /\ gp = fp
      BY <1>3, <2>1 DEF SpillStep, Put
    <3>2. Ready(b, i + 1, fp, fv) /\ SlotsHold(b, i + 1, sm, fv)
      BY <1>2, <1>4, <2>1, <3>1, StoreKeeps
    <3>. QED  BY <3>1, <3>2
  <2>2. CASE ins.kind = "reload"
    <3>1. /\ gp = [fp EXCEPT ![NameOf(ins.dest)] = IF ins.off \in DOMAIN sl THEN sl[ins.off] ELSE NoReg]
          /\ sm = sl
      BY <1>3, <2>2 DEF SpillStep
    <3>. QED  BY <1>2, <1>4, <2>2, <3>1, ReloadKeeps
  <2>. QED  BY <2>1, <2>2 DEF IsSpill
<1>6. i + 1 \in DOMAIN code[b]
  BY <1>2, GoesOn DEF IsSpill
<1>7. /\ Agree(b, i + 1, phys', virt') /\ SlotsHold(b, i + 1, slots', virt')
      /\ DOMAIN phys' = Fixed /\ DOMAIN virt' = Temps \union Fixed /\ Kept(phys', virt')
  BY <1>3, <1>5 DEF Ready
<1>8. b \in DOMAIN code /\ b # Len(code)
  BY <1>2
<1>9. RunInv'
  BY <1>3, <1>6, <1>7, <1>8, RunsOn
<1>. QED  BY <1>3, <1>9

\* A step of the run keeps RunInv.
LEMMA ExecRuns == DoneInv /\ RunInv /\ Execute => RunInv'
<1>. SUFFICES ASSUME DoneInv, RunInv, Execute PROVE RunInv'
  OBVIOUS
<1>0. phase = "done" /\ UNCHANGED vars /\ pc[1] # 0
  BY DEF DoneInv, Execute
<1>1. CASE pc[1] < Len(code)
  <2>0. PICK b, i : Running(b, i)
    BY <1>0, <1>1, RunningSomewhere
  <2>1. Inst = code[b][i]
    BY <2>0 DEF Inst, Running
  <2>2. CASE IsSpill(code[b][i])
    <3>1. SpillStep
      BY <1>1, <2>1, <2>2 DEF Execute, ProgramStep, IsSpill
    <3>. QED  BY <1>0, <2>0, <2>2, <3>1, SpillRuns
  <2>3. CASE ~IsSpill(code[b][i])
    <3>1. ProgramStep
      BY <1>1, <2>1, <2>3 DEF Execute, SpillStep, IsSpill
    <3>. QED  BY <1>0, <2>0, <2>3, <3>1, ProgramRuns
  <2>. QED  BY <2>2, <2>3
<1>2. CASE ~(pc[1] < Len(code))
  <2>1. pc' = <<0, 0>> /\ phys' = phys /\ virt' = virt
    BY <1>2 DEF Execute, Return
  <2>2. UNCHANGED <<phase, code, pushed>>
    BY <1>0 DEF vars
  <2>3. Len(code) \in Nat \ {0}
    BY DoneFacts
  <2>4. Somewhere(pc)' /\ Kept(phys, virt)'
    BY <1>0, <2>1, <2>2 DEF Somewhere, RunInv, Kept
  <2>. QED  BY <1>0, <2>1, <2>2, <2>3, <2>4 DEF RunInv
<1>. QED  BY <1>1, <1>2
-----------------------------------------------------------------------------
(* The refinement *)

\* A compiled function is compiled.
LEMMA NotDoneYet == AllocNext => phase # "done"
BY DEF AllocNext, EmitRound, ScanInst, EndBlock, ColorReg, FailReg, Colored, Spill

\* A step of the compiler keeps RunInv.
LEMMA CompileRuns ==
  TypeOK /\ RunInv /\ Compile /\ (phase = "done" => DoneInv)' => RunInv'
<1>. SUFFICES ASSUME TypeOK, RunInv, Compile, (phase = "done" => DoneInv)' PROVE RunInv'
  OBVIOUS
<1>1. Unstarted
  BY NotDoneYet DEF RunInv, Compile
<1>2. Unstarted'
  BY <1>1 DEF Unstarted, Compile
<1>3. CASE phase' # "done"
  BY <1>2, <1>3 DEF RunInv
<1>4. CASE phase' = "done"
  <2>1. (DoneInv /\ Unstarted => RunInv)'
    BY RunStarts, PTL
  <2>. QED  BY <1>2, <1>4, <2>1
<1>. QED  BY <1>3, <1>4

\* The invariant is inductive, as long as spill() can do what it is called for.
LEMMA ExecTypes ==
  ExecInv /\ SpillFits /\ [ExecNext]_evars => ExecInv'
<1>. SUFFICES ASSUME ExecInv, SpillFits, [ExecNext]_evars PROVE ExecInv'
  OBVIOUS
<1>0. AllocInv /\ TypeOK /\ ScanInv /\ PaintedColors /\ RunInv
  BY DEF ExecInv, AllocInv
<1>1. [AllocNext]_vars
  BY DEF ExecNext, Compile, Execute, evars
<1>2. AllocInv'
  BY <1>0, <1>1, NextType, NextStrong DEF AllocInv, Strong
<1>3. ScanInv'
  BY <1>0, <1>1, NextScan
<1>4. PaintedColors'
  BY <1>0, <1>1, NextPainted
<1>5. RunInv'
  <2>1. CASE Compile
    <3>1. (phase = "done" => DoneInv)'
      BY <1>2, <1>3, <1>4 DEF DoneInv
    <3>. QED  BY <1>0, <2>1, <3>1, CompileRuns
  <2>2. CASE Execute
    <3>1. DoneInv
      BY <1>0, <2>2 DEF DoneInv, Execute
    <3>. QED  BY <1>0, <2>2, <3>1, ExecRuns
  <2>3. CASE UNCHANGED evars
    <3>1. UNCHANGED <<phase, code, prog, round, name, pushed, pc, phys, virt, slots>>
      BY <2>3 DEF evars, vars
    <3>2. \A b, i : Place(b, i)' = Place(b, i)
      BY <3>1 DEF Place, Template
    <3>3. \A sl, o, v : Holds(sl, o, v)' <=> Holds(sl, o, v)
      BY <3>1 DEF Holds
    <3>4. FreshCode(prog, round)' = FreshCode(prog, round)
      BY <3>1 DEF FreshCode
    <3>5. SlotsHold(pc[1], pc[2], slots, virt)' <=> SlotsHold(pc[1], pc[2], slots, virt)
      BY <3>1, <3>2, <3>3, <3>4 DEF SlotsHold
    <3>6. Agree(pc[1], pc[2], phys, virt)' <=> Agree(pc[1], pc[2], phys, virt)
      BY <3>1 DEF Agree
    <3>. QED  BY <1>0, <3>1, <3>5, <3>6 DEF RunInv, Unstarted, Somewhere, Kept
  <2>. QED  BY <2>1, <2>2, <2>3 DEF ExecNext
<1>. QED  BY <1>2, <1>3, <1>4, <1>5 DEF ExecInv

\* Initial states have the invariant and are those of VirtualMachine.
LEMMA ExecStart == ExecInit => ExecInv /\ VM!VInit
<1>. SUFFICES ASSUME ExecInit PROVE ExecInv /\ VM!VInit
  OBVIOUS
<1>1. Init /\ phase = "emit" /\ need = {} /\ pc = <<1, 1>>
  BY DEF ExecInit, Init
<1>2. AllocInv
  BY <1>1, InitType, InitStrong DEF AllocInv, Strong
<1>3. ScanInv
  BY <1>1 DEF ScanInv
<1>4. PaintedColors
  BY <1>1 DEF PaintedColors, Painted
<1>5. RunInv
  BY <1>1 DEF ExecInit, RunInv, Unstarted
<1>6. Origin = <<1, 1>>
  BY <1>1 DEF Origin
<1>. QED  BY <1>2, <1>3, <1>4, <1>5, <1>6 DEF ExecInv, ExecInit, VM!VInit

\* The place of the run in prog.code.
LEMMA OriginNext ==
  ASSUME phase = "done", UNCHANGED vars, NEW a, a # 0, NEW j, pc' = <<a, j>>
  PROVE  Origin' = <<a, Place(a, j)>>
<1>1. phase' = "done" /\ code' = code
  BY DEF vars
<1>2. Template(a, j)' = Template(a, j)
  BY <1>1 DEF Template
<1>. QED  BY <1>1, <1>2 DEF Origin, Place

\* An instruction reads what it would read from the virtual file.
LEMMA ReadsRight ==
  ASSUME DoneInv, NEW b \in DOMAIN code \ {Len(code)}, NEW i \in DOMAIN code[b],
         ~IsSpill(code[b][i]), Agree(b, i, phys, virt), Kept(phys, virt),
         NEW t \in VM!Read(prog.code[b][Place(b, i)])
  PROVE  phys[NameOf(Object(t, round))] = virt[t]
<1>0. /\ TypeOK /\ ScanInv /\ phase = "done" /\ round \in Rounds
      /\ Len(code[b]) \in Nat /\ DOMAIN code[b] = 1 .. Len(code[b])
  BY EmittedCode DEF DoneInv, AllocInv, TypeOK
<1>. PICK ins, src : ins = code[b][i] /\ src = prog.code[b][Place(b, i)]
  OBVIOUS
<1>1. /\ src \in Instr(Temps \union Fixed)
      /\ ins.used = src.used /\ ins.src1 = Object(src.src1, round) /\ ins.src2 = Object(src.src2, round)
  <2>1. src \in Instr(Temps \union Fixed)
    BY Instruction
  <2>2. ins.used = src.used
    BY Instruction
  <2>3. ins.src1 = Object(src.src1, round) /\ ins.src2 = Object(src.src2, round)
    BY Instruction
  <2>. QED  BY <2>1, <2>2, <2>3
<1>2. t \in Temps \union Fixed /\ t # NoReg
  <2>1. src.src1 \in Temps \union Fixed \union {NoReg} /\ src.src2 \in Temps \union Fixed \union {NoReg} /\ src.used \subseteq Fixed
    BY <1>1 DEF Instr
  <2>2. NoReg \notin Fixed
    BY Apart DEF Regs
  <2>. QED  BY <2>1, <2>2 DEF VM!Read
<1>. PICK r : r = Object(t, round)
  OBVIOUS
<1>3. r # NoReg
  BY <1>0, <1>2, Objects
<1>4. r \in Reads(ins)
  <2>1. t \in src.used => r \in ins.used
    <3>1. t \in src.used => t \in Fixed
      BY <1>1 DEF Instr
    <3>2. t \in Fixed => r = t
      BY <1>0, <1>2, Objects
    <3>. QED  BY <1>1, <3>1, <3>2
  <2>. QED  BY <1>1, <1>3, <2>1 DEF Reads, VM!Read
<1>5. LiveAt(code, b, i, r) /\ ReadFrom(code[b], i, r)
  <2>1. ReadFrom(code[b], i, r)
    BY <1>0, <1>4, ReadStep
  <2>. QED  BY <2>1 DEF LiveAt
<1>6. CASE t \in Temps
  <2>1. r = <<t, round>> /\ NameOf(r) = name[<<t, round>>]
    BY <1>0, <1>2, <1>6, Objects
  <2>. QED  BY <1>5, <1>6, <2>1 DEF Agree
<1>7. CASE t \in Fixed
  <2>1. r = t /\ NameOf(r) = t
    BY <1>0, <1>2, <1>7, Objects
  <2>2. t \in Colorable \/ t \in Special
    BY <1>7 DEF Fixed, Colorable
  <2>. QED  BY <1>5, <2>1, <2>2 DEF Agree, Kept
<1>. QED  BY <1>2, <1>6, <1>7

\* An instruction of the program is a step of VirtualMachine.
LEMMA ProgramImplements ==
  ASSUME DoneInv, UNCHANGED vars, NEW b, NEW i, Running(b, i), ~IsSpill(code[b][i]), ProgramStep
  PROVE  VM!VStep
<1>0. /\ Len(code) = Len(prog.code) /\ DOMAIN code = 1 .. Len(code) /\ phase = "done" /\ Controlled(code)
      /\ Len(code) \in Nat \ {0} /\ Len(code[b]) \in Nat /\ DOMAIN code[b] = 1 .. Len(code[b])
  <2>1. TypeOK /\ ScanInv /\ phase = "done" /\ b \in DOMAIN code
    BY DEF DoneInv, AllocInv, Running
  <2>2. Len(code) = Len(prog.code)
    BY <2>1, EmittedCode
  <2>. QED  BY <2>1, <2>2, DoneFacts DEF Allocatable
<1>. PICK ins, src, m : ins = code[b][i] /\ src = prog.code[b][m] /\ m = Place(b, i)
  OBVIOUS
<1>2. /\ b \in DOMAIN code \ {Len(code)} /\ i \in DOMAIN code[b] /\ pc = <<b, i>> /\ Origin = <<b, m>>
      /\ Agree(b, i, phys, virt) /\ Kept(phys, virt)
  BY DEF Running, Ready
<1>3. Place(b, i + 1) = m + 1
  BY <1>2, PlaceStep DEF DoneInv, AllocInv
<1>4. Inst = ins /\ Source = src /\ VM!Template = src
  BY <1>2 DEF Inst, Source, VM!Template
<1>5. ins.kind = src.kind /\ ins.target = src.target
  <2>1. ins.kind = src.kind
    BY <1>2, Instruction
  <2>2. ins.target = src.target
    BY <1>2, Instruction
  <2>. QED  BY <2>1, <2>2
<1>6. Origin[1] < Len(prog.code)
  BY <1>0, <1>2
<1>7. seen' = [t \in VM!Read(src) |-> virt[t]]
  <2>1. seen' = [t \in VM!Read(src) |-> phys[NameOf(Object(t, round))]]
    BY <1>4 DEF ProgramStep
  <2>2. \A t \in VM!Read(src) : phys[NameOf(Object(t, round))] = virt[t]
    BY <1>2, ReadsRight
  <2>. QED  BY <2>1, <2>2
<1>8. virt' = VM!Written(virt, src, Origin)
  BY <1>4 DEF ProgramStep
<1>9. Origin' \in VM!After(src, Origin)
  <2>1. pc' \in VM!After(ins, <<b, i>>)
    BY <1>2, <1>4 DEF ProgramStep
  <2>2. CASE ins.kind # "jump" /\ pc' = <<b, i + 1>>
    <3>1. b # 0
      BY <1>0, <1>2
    <3>2. Origin' = <<b, m + 1>>
      BY <1>0, <1>3, <2>2, <3>1, OriginNext
    <3>. QED  BY <1>2, <1>5, <2>2, <3>2 DEF VM!After
  <2>3. CASE ins.kind \in {"jump", "branch"} /\ pc' = <<ins.target, 1>>
    <3>1. ins.target # 0
      <4>1. ins.target \in 2 .. Len(code)
        BY <1>0, <1>2, <2>3 DEF Controlled
      <4>. QED  BY <4>1
    <3>2. Origin' = <<ins.target, Place(ins.target, 1)>>
      BY <1>0, <2>3, <3>1, OriginNext
    <3>. QED  BY <1>2, <1>5, <2>3, <3>2, PlaceFirst DEF VM!After
  <2>. QED  BY <2>1, <2>2, <2>3 DEF VM!After
<1>10. prog' = prog
  BY DEF vars
<1>. QED  BY <1>4, <1>6, <1>7, <1>8, <1>9, <1>10 DEF VM!VStep

\* So is the return to the caller.
LEMMA ReturnImplements ==
  ASSUME ExecInv, phase = "done", UNCHANGED vars, pc[1] # 0, ~(pc[1] < Len(code)), Return
  PROVE  VM!VReturn
<1>0. DoneInv /\ RunInv /\ TypeOK /\ ScanInv
  BY DEF ExecInv, DoneInv, AllocInv
<1>1. Len(code) = Len(prog.code) /\ Len(code) \in Nat \ {0} /\ Allocatable(code, prog.result)
  BY <1>0, EmittedCode DEF DoneInv
<1>2. pc = <<Len(code), 1>>
  <2>. PICK n : n = Len(code)
    OBVIOUS
  <2>1. ~\E b \in 1 .. n - 1 : \E i \in 1 .. Len(code[b]) : pc = <<b, i>>
    <3>. SUFFICES ASSUME NEW b \in 1 .. n - 1, NEW i, pc = <<b, i>> PROVE FALSE
      OBVIOUS
    <3>1. pc[1] = b /\ n \in Nat
      BY <1>1
    <3>. QED  BY <3>1
  <2>2. pc # <<0, 0>>
    OBVIOUS
  <2>. QED  BY <1>0, <2>1, <2>2 DEF RunInv, Somewhere
<1>3. Origin = <<Len(prog.code), 1>>
  <2>. PICK n : n = Len(code)
    OBVIOUS
  <2>1. n # 0
    BY <1>1
  <2>2. Origin = <<n, Place(n, 1)>>
    BY <1>2, <2>1 DEF Origin, Place
  <2>. QED  BY <1>1, <2>2, PlaceFirst
<1>4. Origin' = <<0, 0>>
  BY DEF Return, Origin
<1>5. \A r \in prog.result : phys[r] = virt[r] /\ r \notin pushed
  <2>1. prog.result \subseteq CallerSaved /\ pushed \subseteq CalleeSaved
    BY <1>0, <1>1 DEF Allocatable, Returned, TypeOK
  <2>2. \A r \in prog.result : phys[r] = virt[r]
    BY <1>0, <1>2 DEF RunInv
  <2>. QED  BY <2>1, <2>2, Apart
<1>6. \A r \in CalleeSaved : virt[r] = r /\ (r \notin pushed => phys[r] = r)
  BY <1>0 DEF RunInv, Kept
<1>7. \A r \in prog.result \union CalleeSaved : Restored(r) = virt[r]
  BY <1>5, <1>6 DEF Restored
<1>8. prog' = prog /\ virt' = virt /\ seen' = [r \in prog.result \union CalleeSaved |-> virt[r]]
  BY <1>7 DEF vars, Return
<1>. QED  BY <1>3, <1>4, <1>8 DEF VM!VReturn

\* Every step is one of VirtualMachine, or none.
LEMMA ExecImplements ==
  ExecInv /\ ExecInv' /\ [ExecNext]_evars => [VM!VStep \/ VM!VReturn]_(VM!vvars)
<1>. SUFFICES ASSUME ExecInv, ExecInv', [ExecNext]_evars PROVE [VM!VStep \/ VM!VReturn]_(VM!vvars)
  OBVIOUS
<1>1. CASE Compile
  <2>1. UNCHANGED <<pc, virt, seen>> /\ phase # "done"
    BY <1>1, NotDoneYet DEF Compile
  <2>2. prog' = prog
    BY <1>1 DEF Compile, AllocNext, EmitRound, ScanInst, EndBlock, ColorReg, FailReg, Colored, Spill
  <2>3. pc = <<1, 1>>
    BY <2>1 DEF ExecInv, RunInv, Unstarted
  <2>4. Origin = <<1, 1>>
    BY <2>1, <2>3 DEF Origin
  <2>5. Origin' = <<1, 1>>
    <3>1. Template(1, 1)' = {}
      BY DEF Template
    <3>2. Origin' = <<1, IF phase' = "done" THEN 1 + Cardinality(Template(1, 1)') ELSE 1>>
      BY <2>1, <2>3 DEF Origin
    <3>3. Cardinality({}) = 0
      BY FS_EmptySet
    <3>4. Origin' = <<1, IF phase' = "done" THEN 1 + 0 ELSE 1>>
      BY <3>1, <3>2, <3>3
    <3>5. 1 + 0 = 1
      OBVIOUS
    <3>. QED  BY <3>4, <3>5
  <2>. QED  BY <2>1, <2>2, <2>4, <2>5 DEF VM!vvars
<1>2. CASE Execute
  <2>0. phase = "done" /\ UNCHANGED vars /\ pc[1] # 0
    BY <1>2 DEF Execute
  <2>1. CASE pc[1] < Len(code)
    <3>1. DoneInv /\ RunInv
      BY <2>0 DEF ExecInv, DoneInv
    <3>2. PICK b, i : Running(b, i)
      BY <2>0, <2>1, <3>1, RunningSomewhere
    <3>3. Inst = code[b][i]
      BY <3>2 DEF Inst, Running
    <3>4. CASE IsSpill(code[b][i])
      <4>1. SpillStep
        BY <1>2, <2>1, <3>3, <3>4 DEF Execute, ProgramStep, IsSpill
      <4>2. UNCHANGED <<virt, seen>> /\ pc' = <<b, i + 1>>
        BY <2>0, <3>1, <3>2, <3>4, <4>1, SpillRuns
      <4>3. b # 0 /\ b \in DOMAIN code /\ i \in DOMAIN code[b] /\ Origin = <<b, Place(b, i)>>
        <5>1. DOMAIN code = 1 .. Len(code)
          BY <3>1, DoneFacts
        <5>. QED  BY <3>2, <5>1 DEF Running
      <4>4. Place(b, i + 1) = Place(b, i)
        BY <3>1, <3>4, <4>3, PlaceStep DEF DoneInv, AllocInv
      <4>5. Origin' = Origin
        BY <2>0, <4>2, <4>3, <4>4, OriginNext
      <4>6. prog' = prog
        BY <2>0 DEF vars
      <4>. QED  BY <4>2, <4>5, <4>6 DEF VM!vvars
    <3>5. CASE ~IsSpill(code[b][i])
      <4>1. ProgramStep
        BY <1>2, <2>1, <3>3, <3>5 DEF Execute, SpillStep, IsSpill
      <4>. QED  BY <2>0, <3>1, <3>2, <3>5, <4>1, ProgramImplements
    <3>. QED  BY <3>4, <3>5
  <2>2. CASE ~(pc[1] < Len(code))
    <3>1. Return
      BY <1>2, <2>2 DEF Execute
    <3>. QED  BY <2>0, <2>2, <3>1, ReturnImplements
  <2>. QED  BY <2>1, <2>2
<1>3. CASE UNCHANGED evars
  <2>1. UNCHANGED <<prog, pc, virt, seen, phase, code>>
    BY <1>3 DEF evars, vars
  <2>2. \A b, i : Template(b, i)' = Template(b, i)
    BY <2>1 DEF Template
  <2>3. Origin' = Origin
    BY <2>1, <2>2 DEF Origin
  <2>. QED  BY <2>1, <2>3 DEF VM!vvars
<1>. QED  BY <1>1, <1>2, <1>3 DEF ExecNext

\* RegAllocExec's refinement: as long as spill() is called for registers that
\* it can give one slot, every step of the compiler and of the code it leaves
\* is a step of VirtualMachine or changes nothing of it.  Whatever the order
\* in which coloring() visits the registers, and whichever it fails for, every
\* instruction reads what it would read with a register for every Register
\* object, and the caller gets its registers back.
THEOREM AllocationIsCorrect == ExecSpec /\ []SpillFits => ImplementsVirtual
<1>1. ExecInit => ExecInv /\ VM!VInit
  BY ExecStart
<1>2. ExecInv /\ SpillFits /\ [ExecNext]_evars => ExecInv'
  BY ExecTypes
<1>3. ExecInv /\ ExecInv' /\ [ExecNext]_evars => [VM!VStep \/ VM!VReturn]_(VM!vvars)
  BY ExecImplements
<1>. QED  BY <1>1, <1>2, <1>3, PTL DEF ExecSpec, ImplementsVirtual, VM!VSpec
=============================================================================
