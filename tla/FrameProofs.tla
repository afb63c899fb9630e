---------------------------- MODULE FrameProofs ----------------------------
(***************************************************************************)
(* Theorems about Frame, for any callee-saved registers up to the 23 the   *)
(* machine has, any sizes of locals and parameters and any number of them. *)
(***************************************************************************)
EXTENDS Frame, SeqFacts, FiniteSetTheorems

Kept3 == Savable \union {Ra, S0}
Values == Kept3 \union {Junk} \union Int
Area == [lo : Int, size : Nat \ {0}]

\* The layout, before and after the frame is closed.
LayInv ==
  /\ phase \in {"lay", "enter", "body", "leave", "returned"}
  /\ hasCall \in BOOLEAN
  /\ order \in Seq(Savable) /\ Len(order) <= 23
  /\ offset \in Int /\ maxPass \in Nat /\ areas \in SUBSET Area
  /\ \A a, b \in areas : a # b => a.lo + a.size <= b.lo \/ b.lo + b.size <= a.lo
  /\ \A a \in areas : a.lo + a.size <= -KeptBytes(hasCall, order)
  /\ phase = "lay" => /\ offset <= -KeptBytes(hasCall, order)
                      /\ \A a \in areas : offset <= a.lo
  /\ phase # "lay" => /\ offset + maxPass <= -KeptBytes(hasCall, order)
                      /\ \A a \in areas : offset + maxPass <= a.lo
                      /\ offset % 16 = 0

-----------------------------------------------------------------------------
\* Rounding: never up, by less than 16 more than needed, to a multiple of 16.
LEMMA AlignedFact ==
  ASSUME NEW x \in Int, x <= 0
  PROVE  Aligned(x) \in Int /\ Aligned(x) <= x /\ x - 30 <= Aligned(x) /\ Aligned(x) % 16 = 0
<1>1. CASE x % 16 = 0
  BY <1>1 DEF Aligned
<1>2. CASE x % 16 # 0
  <2>. DEFINE q == (15 - x) \div 16
  <2>1. q \in Int /\ 16 * q <= 15 - x /\ 15 - x < 16 * q + 16
    OBVIOUS
  <2>2. Aligned(x) = (-q) * 16
    BY <1>2 DEF Aligned, ToZero
  <2>. HIDE DEF q
  <2>3. (-q) * 16 = -(16 * q) /\ (-q) * 16 \in Int /\ ((-q) * 16) % 16 = 0
    BY <2>1
  <2>4. x % 16 \in 0 .. 15
    OBVIOUS
  <2>5. (-q) * 16 <= x
    BY <2>1, <2>3
  <2>. QED  BY <2>1, <2>2, <2>3, <2>5
<1>. QED  BY <1>1, <1>2

\* What the frame keeps: s0 among it, eight bytes of the frame for each.
LEMMA KeptFact ==
  ASSUME NEW call \in BOOLEAN, NEW push \in Seq(Savable)
  PROVE  /\ Kept(call, push) \in Seq(Kept3)
         /\ Len(Kept(call, push)) \in Nat \ {0}
         /\ KeptBytes(call, push) = 8 * Len(Kept(call, push))
         /\ Len(Kept(call, push)) <= 2 + Len(push)
         /\ \E k \in 1 .. Len(Kept(call, push)) : Kept(call, push)[k] = S0
         /\ \A r : (\E k \in 1 .. Len(Kept(call, push)) : Kept(call, push)[k] = r)
                   <=> r = S0 \/ (call /\ r = Ra) \/ \E k \in 1 .. Len(push) : push[k] = r
<1>1. push \in Seq(Kept3) /\ Len(push) \in Nat
  BY DEF Kept3
<1>. DEFINE top == IF call THEN <<Ra, S0>> ELSE <<S0>>
            m == Len(top)
            K == Kept(call, push)
<1>2. /\ top \in Seq(Kept3) /\ m \in {1, 2} /\ m = (IF call THEN 2 ELSE 1)
      /\ top[m] = S0 /\ (call => top[1] = Ra)
  <2>1. <<Ra, S0>> \in Seq(Kept3) /\ <<S0>> \in Seq(Kept3)
    BY DEF Kept3
  <2>2. CASE call
    BY <2>1, <2>2
  <2>3. CASE ~call
    BY <2>1, <2>3
  <2>. QED  BY <2>2, <2>3
<1>3. K = top \o push
  BY DEF Kept
<1>4. KeptBytes(call, push) = 8 * (m + Len(push))
  BY <1>2 DEF KeptBytes
<1>5. \A r : (\E k \in 1 .. m : top[k] = r) <=> r = S0 \/ (call /\ r = Ra)
  <2>1. CASE call
    BY <2>1
  <2>2. CASE ~call
    BY <2>2
  <2>. QED  BY <2>1, <2>2
<1>. HIDE DEF top
<1>6. /\ K \in Seq(Kept3) /\ Len(K) = m + Len(push)
      /\ \A k \in 1 .. m : K[k] = top[k]
      /\ \A k \in 1 .. Len(push) : K[m + k] = push[k]
  <2>. HIDE DEF K
  <2>1. /\ top \o push \in Seq(Kept3) /\ Len(top \o push) = m + Len(push)
        /\ \A k \in 1 .. m : (top \o push)[k] = top[k]
        /\ \A k \in 1 .. Len(push) : (top \o push)[m + k] = push[k]
    BY <1>1, <1>2, ConcatFact
  <2>. QED  BY <1>3, <2>1
<1>. HIDE DEF K
<1>7. \A k \in 1 .. Len(K) : k \in 1 .. m \/ (k - m \in 1 .. Len(push) /\ k = m + (k - m))
  BY <1>1, <1>2, <1>6
<1>8. \A k \in 1 .. Len(push) : m + k \in 1 .. Len(K)
  BY <1>1, <1>2, <1>6
<1>9. \A r : (\E k \in 1 .. Len(K) : K[k] = r)
             <=> (\E k \in 1 .. m : top[k] = r) \/ \E k \in 1 .. Len(push) : push[k] = r
  <2>. SUFFICES ASSUME NEW r
       PROVE  (\E k \in 1 .. Len(K) : K[k] = r)
             <=> (\E k \in 1 .. m : top[k] = r) \/ \E k \in 1 .. Len(push) : push[k] = r
    OBVIOUS
  <2>1. ASSUME NEW k \in 1 .. Len(K), K[k] = r
        PROVE  (\E i \in 1 .. m : top[i] = r) \/ \E i \in 1 .. Len(push) : push[i] = r
    BY <2>1, <1>6, <1>7
  <2>2. ASSUME NEW k \in 1 .. m, top[k] = r
        PROVE  \E i \in 1 .. Len(K) : K[i] = r
    BY <2>2, <1>1, <1>2, <1>6
  <2>3. ASSUME NEW k \in 1 .. Len(push), push[k] = r
        PROVE  \E i \in 1 .. Len(K) : K[i] = r
    BY <2>3, <1>6, <1>8
  <2>. QED  BY <2>1, <2>2, <2>3
<1>10. \E k \in 1 .. Len(K) : K[k] = S0
  BY <1>5, <1>9
<1>11. \A r : (\E k \in 1 .. Len(K) : K[k] = r)
              <=> r = S0 \/ (call /\ r = Ra) \/ \E k \in 1 .. Len(push) : push[k] = r
  BY <1>5, <1>9, Zenon
<1>12. Len(K) \in Nat \ {0} /\ KeptBytes(call, push) = 8 * Len(K) /\ Len(K) <= 2 + Len(push)
  BY <1>1, <1>2, <1>4, <1>6
<1>. QED  BY <1>6, <1>10, <1>11, <1>12 DEF K

LEMMA EnumerationFact ==
  ASSUME NEW S \in SUBSET Savable, NEW q \in Enumerations(S)
  PROVE  q \in Seq(Savable) /\ Len(q) = Cardinality(S) /\ Len(q) <= 23
<1>1. IsFiniteSet(Savable) /\ Cardinality(Savable) <= 23
  BY Registers
<1>2. Cardinality(S) \in Nat /\ Cardinality(S) <= Cardinality(Savable)
  BY <1>1, FS_Subset, FS_CardinalityType
<1>3. Cardinality(Savable) \in Nat
  BY <1>1, FS_CardinalityType
<1>4. q \in [1 .. Cardinality(S) -> Savable]
  BY DEF Enumerations
<1>. QED  BY <1>1, <1>2, <1>3, <1>4, SeqOfFunction

-----------------------------------------------------------------------------
\* A round starts below the registers it keeps, with no area yet.
LEMMA RoundStarts ==
  ASSUME NEW push \in Seq(Savable), Len(push) <= 23, hasCall \in BOOLEAN, phase = "lay",
         StartRound(push), UNCHANGED <<phase, hasCall>>
  PROVE  LayInv'
<1>1. KeptBytes(hasCall, push) \in Int
  BY KeptFact
<1>2. /\ hasCall' = hasCall /\ phase' = "lay" /\ order' = push /\ areas' = {} /\ maxPass' = 0
      /\ offset' = -KeptBytes(hasCall, push)
  BY DEF StartRound
<1>. QED  BY <1>1, <1>2 DEF LayInv

LEMMA AreaTaken ==
  ASSUME NEW n \in Nat \ {0}, LayInv, NewArea(n)
  PROVE  LayInv'
<1>. DEFINE new == [lo |-> offset - n, size |-> n]
<1>1. /\ phase = "lay" /\ phase' = phase /\ hasCall' = hasCall /\ order' = order
      /\ maxPass' = maxPass /\ offset' = offset - n /\ areas' = areas \union {new}
  BY DEF NewArea
<1>2. KeptBytes(hasCall, order) \in Int
  BY KeptFact DEF LayInv
<1>3. /\ new \in Area /\ new.lo = offset - n /\ new.size = n
      /\ offset - n \in Int /\ offset - n <= offset
  BY DEF LayInv, Area
<1>4. \A a \in areas : a \in Area /\ a.lo \in Int /\ a.size \in Int
  BY DEF LayInv, Area
<1>5. \A a \in areas : new.lo + new.size <= a.lo
  <2>1. new.lo + new.size = offset
    BY <1>3 DEF LayInv
  <2>. QED  BY <1>1, <2>1 DEF LayInv
<1>6. new.lo + new.size <= -KeptBytes(hasCall, order)
  <2>1. new.lo + new.size = offset
    BY <1>3 DEF LayInv
  <2>. QED  BY <1>1, <2>1 DEF LayInv
<1>. HIDE DEF new
<1>7. (areas \union {new}) \in SUBSET Area
  BY <1>3 DEF LayInv
<1>8. \A a, b \in areas \union {new} : a # b => a.lo + a.size <= b.lo \/ b.lo + b.size <= a.lo
  BY <1>5 DEF LayInv
<1>9. \A a \in areas \union {new} : a.lo + a.size <= -KeptBytes(hasCall, order)
  BY <1>6 DEF LayInv
<1>10. \A a \in areas \union {new} : offset - n <= a.lo
  BY <1>1, <1>3, <1>4 DEF LayInv
<1>11. offset - n <= -KeptBytes(hasCall, order)
  BY <1>1, <1>2, <1>3 DEF LayInv
<1>12. (KeptBytes(hasCall, order))' = KeptBytes(hasCall, order)
  BY <1>1 DEF KeptBytes
<1>. QED
  BY <1>1, <1>3, <1>7, <1>8, <1>9, <1>10, <1>11, <1>12 DEF LayInv

\* Closing rounds away from the areas, with room for the outgoing parameters.
LEMMA FrameClosed ==
  ASSUME LayInv, Close
  PROVE  LayInv'
<1>1. /\ phase = "lay" /\ phase' = "enter" /\ hasCall' = hasCall /\ order' = order
      /\ maxPass' = maxPass /\ areas' = areas /\ offset' = Aligned(offset - maxPass)
  BY DEF Close
<1>2. /\ KeptBytes(hasCall, order) \in Int /\ KeptBytes(hasCall, order) >= 0
  BY KeptFact DEF LayInv
<1>3. (KeptBytes(hasCall, order))' = KeptBytes(hasCall, order)
  BY <1>1 DEF KeptBytes
<1>4. offset - maxPass \in Int /\ offset - maxPass <= 0
  BY <1>1, <1>2 DEF LayInv
<1>5. offset' \in Int /\ offset' <= offset - maxPass /\ offset' % 16 = 0
  BY <1>1, <1>4, AlignedFact
<1>6. offset' + maxPass <= offset
  <2>1. offset \in Int /\ maxPass \in Int
    BY DEF LayInv
  <2>2. \A x, y, z \in Int : x <= y - z => x + z <= y
    OBVIOUS
  <2>. QED  BY <1>5, <2>1, <2>2
<1>7. \A a \in areas : a.lo \in Int
  BY DEF LayInv, Area
<1>8. \A a \in areas : offset' + maxPass <= a.lo
  BY <1>1, <1>5, <1>6, <1>7 DEF LayInv
<1>9. offset' + maxPass <= -KeptBytes(hasCall, order)
  BY <1>1, <1>2, <1>5, <1>6 DEF LayInv
<1>. QED  BY <1>1, <1>3, <1>5, <1>8, <1>9 DEF LayInv

LEMMA LayInvInit == Init => LayInv
<1>. SUFFICES ASSUME Init PROVE LayInv
  OBVIOUS
<1>1. order \in Seq(Savable) /\ hasCall \in BOOLEAN
  BY DEF Init
<1>2. KeptBytes(hasCall, order) \in Int
  <2>1. /\ KeptBytes(hasCall, order) = 8 * Len(Kept(hasCall, order))
        /\ Len(Kept(hasCall, order)) \in Nat
    BY <1>1, KeptFact
  <2>. QED  BY <2>1
<1>3. Len(order) = 0
  BY DEF Init
<1>. QED  BY <1>1, <1>2, <1>3 DEF Init, LayInv

LEMMA LayInvStep == LayInv /\ [Next]_vars => LayInv'
<1>. SUFFICES ASSUME LayInv, [Next]_vars PROVE LayInv'
  OBVIOUS
<1>1. CASE Alloc
  BY <1>1, AreaTaken, Lengths DEF Alloc
<1>2. CASE SpillSlot
  BY <1>2, AreaTaken DEF SpillSlot
<1>3. CASE PassParams
  <2>1. /\ phase = "lay" /\ phase' = phase /\ hasCall' = hasCall /\ order' = order
        /\ offset' = offset /\ areas' = areas /\ maxPass' \in Nat
    BY <1>3, Lengths DEF PassParams
  <2>2. (KeptBytes(hasCall, order))' = KeptBytes(hasCall, order)
    BY <2>1 DEF KeptBytes
  <2>. QED  BY <2>1, <2>2 DEF LayInv
<1>4. CASE NextRound
  <2>0. PICK S \in SUBSET Savable : \E q \in Enumerations(S) : StartRound(q)
    BY <1>4 DEF NextRound
  <2>1. PICK q \in Enumerations(S) : StartRound(q)
    BY <2>0
  <2>2. phase = "lay" /\ UNCHANGED <<phase, hasCall>>
    BY <1>4 DEF NextRound
  <2>3. q \in Seq(Savable) /\ Len(q) <= 23
    BY EnumerationFact
  <2>. QED  BY <2>1, <2>2, <2>3, RoundStarts DEF LayInv
<1>5. CASE Close
  BY <1>5, FrameClosed
<1>6. CASE Enter \/ Body \/ Leave
  <2>1. phase # "lay" /\ phase' \in {"enter", "body", "leave", "returned"} /\ UNCHANGED layout
    BY <1>6 DEF Enter, Leave, Body, Step
  <2>2. (KeptBytes(hasCall, order))' = KeptBytes(hasCall, order)
    BY <2>1 DEF KeptBytes, layout
  <2>. QED  BY <2>1, <2>2 DEF LayInv, layout
<1>7. CASE UNCHANGED vars
  <2>1. (KeptBytes(hasCall, order))' = KeptBytes(hasCall, order)
    BY <1>7 DEF KeptBytes, vars
  <2>. QED  BY <1>7, <2>1 DEF LayInv, vars
<1>. QED  BY <1>1, <1>2, <1>3, <1>4, <1>5, <1>6, <1>7 DEF Next

-----------------------------------------------------------------------------
\* The code that is run.
Base(off) == IF FitsOneAddi(off) THEN -off ELSE Hop
Far(off) == IF FitsOneAddi(off) THEN 0 ELSE 1

LEMMA OneInstruction ==
  ASSUME NEW i \in Instrs
  PROVE  <<i>> \in Seq(Instrs) /\ Len(<<i>>) = 1 /\ <<i>>[1] = i
OBVIOUS

LEMMA SavesShape ==
  ASSUME NEW kept \in Seq(Kept3), NEW base \in Int
  PROVE  /\ Saves(kept, base) \in Seq(Instrs) /\ Len(Saves(kept, base)) = Len(kept)
         /\ Loads(kept, base) \in Seq(Instrs) /\ Len(Loads(kept, base)) = Len(kept)
         /\ \A k \in 1 .. Len(kept) : /\ Saves(kept, base)[k] = Sd(kept[k], base - 8 * k)
                                      /\ Loads(kept, base)[k] = Ld(kept[k], base - 8 * k)
<1>1. DOMAIN kept = 1 .. Len(kept) /\ Len(kept) \in Nat
  BY LenProperties
<1>2. \A k \in 1 .. Len(kept) : kept[k] \in Kept3 /\ base - 8 * k \in Int
  BY <1>1, ElementOfSeq
<1>3. \A k \in 1 .. Len(kept) : /\ Sd(kept[k], base - 8 * k) \in Instrs
                                /\ Ld(kept[k], base - 8 * k) \in Instrs
  BY <1>2 DEF Sd, Ld, Instrs, Kept3
<1>4. /\ Saves(kept, base) = [k \in 1 .. Len(kept) |-> Sd(kept[k], base - 8 * k)]
      /\ Loads(kept, base) = [k \in 1 .. Len(kept) |-> Ld(kept[k], base - 8 * k)]
  BY <1>1 DEF Saves, Loads, SavedAt
<1>5. /\ Saves(kept, base) \in [1 .. Len(kept) -> Instrs]
      /\ Loads(kept, base) \in [1 .. Len(kept) -> Instrs]
  BY <1>3, <1>4
<1>. QED  BY <1>1, <1>4, <1>5, SeqOfFunction

LEMMA PrologueShape ==
  ASSUME NEW kept \in Seq(Kept3), NEW off \in Int
  PROVE  /\ Prologue(kept, off) \in Seq(Instrs)
         /\ Len(Prologue(kept, off)) = Len(kept) + Far(off) + 2
         /\ Prologue(kept, off)[1] = Addi("sp", -Base(off))
         /\ \A k \in 1 .. Len(kept) :
              Prologue(kept, off)[k + 1] = Sd(kept[k], Base(off) - 8 * k)
         /\ Prologue(kept, off)[Len(kept) + 2] = Addi("s0", Base(off))
         /\ ~FitsOneAddi(off) => Prologue(kept, off)[Len(kept) + 3] = AddLoaded(off + Hop)
<1>. DEFINE n == Len(kept)
            saves == Saves(kept, Base(off))
            first == <<Addi("sp", -Base(off))>>
            last == IF FitsOneAddi(off) THEN <<Addi("s0", Base(off))>>
                    ELSE <<Addi("s0", Base(off)), AddLoaded(off + Hop)>>
<1>1. n \in Nat /\ Base(off) \in Int /\ -Base(off) \in Int /\ off + Hop \in Int
  BY LenProperties DEF Base, Hop
<1>2. /\ saves \in Seq(Instrs) /\ Len(saves) = n
      /\ \A k \in 1 .. n : saves[k] = Sd(kept[k], Base(off) - 8 * k)
  BY <1>1, SavesShape
<1>3. /\ Addi("sp", -Base(off)) \in Instrs /\ Addi("s0", Base(off)) \in Instrs
      /\ AddLoaded(off + Hop) \in Instrs
  BY <1>1 DEF Addi, AddLoaded, Instrs
<1>4. first \in Seq(Instrs) /\ Len(first) = 1 /\ first[1] = Addi("sp", -Base(off))
  BY <1>3
<1>5. /\ last \in Seq(Instrs) /\ Len(last) = 1 + Far(off) /\ last[1] = Addi("s0", Base(off))
      /\ ~FitsOneAddi(off) => last[2] = AddLoaded(off + Hop)
  <2>1. CASE FitsOneAddi(off)
    BY <1>3, <2>1 DEF Far
  <2>2. CASE ~FitsOneAddi(off)
    BY <1>3, <2>2 DEF Far
  <2>. QED  BY <2>1, <2>2
<1>6. Prologue(kept, off) = (first \o saves) \o last
  <2>1. CASE FitsOneAddi(off)
    <3>1. -Base(off) = off /\ Base(off) = -off
      BY <2>1 DEF Base
    <3>. QED  BY <2>1, <3>1 DEF Prologue
  <2>2. CASE ~FitsOneAddi(off)
    BY <2>2 DEF Base, Prologue
  <2>. QED  BY <2>1, <2>2
<1>7. Far(off) \in {0, 1} /\ (~FitsOneAddi(off) => Far(off) = 1)
  BY DEF Far
<1>. HIDE DEF n, saves, first, last
<1>. DEFINE head == first \o saves
<1>8. /\ head \in Seq(Instrs) /\ Len(head) = n + 1
      /\ head[1] = Addi("sp", -Base(off))
      /\ \A k \in 1 .. n : head[1 + k] = saves[k]
  <2>1. first \in Seq(Instrs) /\ saves \in Seq(Instrs)
    BY <1>2, <1>4
  <2>2. /\ head \in Seq(Instrs) /\ Len(head) = Len(first) + Len(saves)
        /\ \A k \in 1 .. Len(first) : head[k] = first[k]
        /\ \A k \in 1 .. Len(saves) : head[Len(first) + k] = saves[k]
    BY <2>1, ConcatFact
  <2>. HIDE DEF head
  <2>3. 1 \in 1 .. Len(first) /\ 1 + n = n + 1
    BY <1>1, <1>4
  <2>. QED  BY <1>2, <1>4, <2>2, <2>3
<1>. HIDE DEF head
<1>9. /\ head \o last \in Seq(Instrs) /\ Len(head \o last) = (n + 1) + (1 + Far(off))
      /\ \A k \in 1 .. n + 1 : (head \o last)[k] = head[k]
      /\ \A k \in 1 .. 1 + Far(off) : (head \o last)[(n + 1) + k] = last[k]
  <2>0. head \in Seq(Instrs) /\ last \in Seq(Instrs)
    BY <1>5, <1>8
  <2>1. /\ head \o last \in Seq(Instrs) /\ Len(head \o last) = Len(head) + Len(last)
        /\ \A k \in 1 .. Len(head) : (head \o last)[k] = head[k]
        /\ \A k \in 1 .. Len(last) : (head \o last)[Len(head) + k] = last[k]
    BY <2>0, ConcatFact
  <2>. QED  BY <1>5, <1>8, <2>1
<1>10. Prologue(kept, off) = head \o last
  BY <1>6 DEF head
<1>11. \A k \in 1 .. n : k + 1 \in 1 .. n + 1 /\ 1 + k = k + 1
  BY <1>1
<1>12. /\ 1 \in 1 .. n + 1 /\ 1 \in 1 .. 1 + Far(off) /\ (n + 1) + 1 = n + 2
       /\ (n + 1) + (1 + Far(off)) = n + Far(off) + 2
       /\ ~FitsOneAddi(off) => 2 \in 1 .. 1 + Far(off) /\ (n + 1) + 2 = n + 3
  BY <1>1, <1>7
<1>13. \A k \in 1 .. n : (head \o last)[k + 1] = Sd(kept[k], Base(off) - 8 * k)
  BY <1>2, <1>8, <1>9, <1>11
<1>14. /\ (head \o last)[1] = Addi("sp", -Base(off))
       /\ (head \o last)[n + 2] = Addi("s0", Base(off))
       /\ ~FitsOneAddi(off) => (head \o last)[n + 3] = AddLoaded(off + Hop)
  BY <1>5, <1>8, <1>9, <1>12
<1>. QED  BY <1>9, <1>10, <1>12, <1>13, <1>14 DEF n

LEMMA EpilogueShape ==
  ASSUME NEW kept \in Seq(Kept3), NEW off \in Int
  PROVE  /\ Epilogue(kept, off) \in Seq(Instrs)
         /\ Len(Epilogue(kept, off)) = Len(kept) + Far(off) + 1
         /\ ~FitsOneAddi(off) => Epilogue(kept, off)[1] = AddLoaded(-off - Hop)
         /\ \A k \in 1 .. Len(kept) :
              Epilogue(kept, off)[k + Far(off)] = Ld(kept[k], Base(off) - 8 * k)
         /\ Epilogue(kept, off)[Len(kept) + Far(off) + 1] = Addi("sp", Base(off))
<1>. DEFINE n == Len(kept)
            loads == Loads(kept, Base(off))
            first == IF FitsOneAddi(off) THEN << >> ELSE <<AddLoaded(-off - Hop)>>
            last == <<Addi("sp", Base(off))>>
<1>1. n \in Nat /\ Base(off) \in Int /\ -off - Hop \in Int
  BY LenProperties DEF Base, Hop
<1>2. /\ loads \in Seq(Instrs) /\ Len(loads) = n
      /\ \A k \in 1 .. n : loads[k] = Ld(kept[k], Base(off) - 8 * k)
  BY <1>1, SavesShape
<1>3. Addi("sp", Base(off)) \in Instrs /\ AddLoaded(-off - Hop) \in Instrs
  BY <1>1 DEF Addi, AddLoaded, Instrs
<1>4. last \in Seq(Instrs) /\ Len(last) = 1 /\ last[1] = Addi("sp", Base(off))
  BY <1>3
<1>5. /\ first \in Seq(Instrs) /\ Len(first) = Far(off)
      /\ ~FitsOneAddi(off) => first[1] = AddLoaded(-off - Hop)
  <2>1. CASE FitsOneAddi(off)
    BY <2>1 DEF Far
  <2>2. CASE ~FitsOneAddi(off)
    BY <1>3, <2>2 DEF Far
  <2>. QED  BY <2>1, <2>2
<1>6. Epilogue(kept, off) = (first \o loads) \o last
  <2>1. CASE FitsOneAddi(off)
    <3>1. Base(off) = -off /\ first = << >>
      BY <2>1 DEF Base
    <3>2. << >> \o loads = loads
      BY <1>2
    <3>. QED  BY <2>1, <3>1, <3>2 DEF Epilogue
  <2>2. CASE ~FitsOneAddi(off)
    BY <2>2 DEF Base, Epilogue
  <2>. QED  BY <2>1, <2>2
<1>7. Far(off) \in {0, 1} /\ (~FitsOneAddi(off) => Far(off) = 1)
  BY DEF Far
<1>. HIDE DEF n, loads, first, last
<1>. DEFINE head == first \o loads
<1>8. /\ head \in Seq(Instrs) /\ Len(head) = Far(off) + n
      /\ \A k \in 1 .. Far(off) : head[k] = first[k]
      /\ \A k \in 1 .. n : head[Far(off) + k] = loads[k]
  <2>1. first \in Seq(Instrs) /\ loads \in Seq(Instrs)
    BY <1>2, <1>5
  <2>2. /\ head \in Seq(Instrs) /\ Len(head) = Len(first) + Len(loads)
        /\ \A k \in 1 .. Len(first) : head[k] = first[k]
        /\ \A k \in 1 .. Len(loads) : head[Len(first) + k] = loads[k]
    BY <2>1, ConcatFact
  <2>. HIDE DEF head
  <2>. QED  BY <1>2, <1>5, <2>2
<1>. HIDE DEF head
<1>9. /\ head \o last \in Seq(Instrs) /\ Len(head \o last) = (Far(off) + n) + 1
      /\ \A k \in 1 .. Far(off) + n : (head \o last)[k] = head[k]
      /\ \A k \in 1 .. 1 : (head \o last)[(Far(off) + n) + k] = last[k]
  <2>0. head \in Seq(Instrs) /\ last \in Seq(Instrs)
    BY <1>4, <1>8
  <2>1. /\ head \o last \in Seq(Instrs) /\ Len(head \o last) = Len(head) + Len(last)
        /\ \A k \in 1 .. Len(head) : (head \o last)[k] = head[k]
        /\ \A k \in 1 .. Len(last) : (head \o last)[Len(head) + k] = last[k]
    BY <2>0, ConcatFact
  <2>. QED  BY <1>4, <1>8, <2>1
<1>10. Epilogue(kept, off) = head \o last
  BY <1>6 DEF head
<1>11. \A k \in 1 .. n : k + Far(off) \in 1 .. Far(off) + n /\ Far(off) + k = k + Far(off)
  BY <1>1, <1>7
<1>12. /\ 1 \in 1 .. 1 /\ (Far(off) + n) + 1 = n + Far(off) + 1
       /\ ~FitsOneAddi(off) => 1 \in 1 .. Far(off) /\ 1 \in 1 .. Far(off) + n
  BY <1>1, <1>7
<1>13. \A k \in 1 .. n : (head \o last)[k + Far(off)] = Ld(kept[k], Base(off) - 8 * k)
  BY <1>2, <1>8, <1>9, <1>11
<1>14. (head \o last)[(Far(off) + n) + 1] = Addi("sp", Base(off))
  BY <1>4, <1>9, <1>12
<1>15. ~FitsOneAddi(off) => (head \o last)[1] = AddLoaded(-off - Hop)
  BY <1>5, <1>8, <1>9, <1>12
<1>. QED  BY <1>9, <1>10, <1>12, <1>13, <1>14, <1>15 DEF n

-----------------------------------------------------------------------------
\* What one instruction does.
LEMMA ExecuteSp ==
  ASSUME NEW i \in Int, Execute(Addi("sp", i)) \/ Execute(AddLoaded(i))
  PROVE  sp' = sp + i /\ UNCHANGED <<s0, regs, mem>>
BY DEF Execute, Addi, AddLoaded

LEMMA ExecuteS0 ==
  ASSUME NEW i \in Int, Execute(Addi("s0", i))
  PROVE  s0' = sp + i /\ UNCHANGED <<sp, regs, mem>>
BY DEF Execute, Addi

LEMMA ExecuteSd ==
  ASSUME NEW r, NEW i \in Int, Execute(Sd(r, i))
  PROVE  /\ mem' = [x \in DOMAIN mem \union {sp + i} |->
                      IF x = sp + i THEN (IF r = S0 THEN s0 ELSE regs[r]) ELSE mem[x]]
         /\ UNCHANGED <<sp, s0, regs>>
BY DEF Execute, Sd

LEMMA ExecuteLd ==
  ASSUME NEW r, NEW i \in Int, sp + i \in DOMAIN mem, Execute(Ld(r, i))
  PROVE  /\ r = S0 => s0' = mem[sp + i] /\ regs' = regs
         /\ r # S0 => regs' = [regs EXCEPT ![r] = mem[sp + i]] /\ s0' = s0
         /\ UNCHANGED <<sp, mem>>
BY DEF Execute, Ld

-----------------------------------------------------------------------------
\* The run, in terms of the layout.
K == Kept(hasCall, order)
N == Len(K)
B == Base(offset)
D == Far(offset)
Value(r) == IF r = S0 THEN s0 ELSE regs[r]

Saved(m) == \A k \in 1 .. N : k <= m => 0 - 8 * k \in DOMAIN mem /\ mem[0 - 8 * k] = K[k]
Unkept == \A r \in Savable \union {Ra} : (\A k \in 1 .. N : K[k] # r) => regs[r] = r
Intact == \A r \in Savable \union {Ra} : regs[r] = r
RegsTyped == regs \in [Savable \union {Ra} -> Values]

EnterInv ==
  /\ pc \in 1 .. N + D + 3 /\ Intact /\ Saved(pc - 2)
  /\ sp = IF pc = 1 THEN 0 ELSE IF pc <= N + 3 THEN -B ELSE offset
  /\ s0 = IF pc <= N + 2 THEN S0 ELSE 0

BodyInv == pc = 1 /\ sp = offset /\ s0 = 0 /\ Saved(N) /\ Unkept

LeaveInv ==
  /\ pc \in 1 .. N + D + 2 /\ Saved(N) /\ Unkept
  /\ sp = IF pc <= D THEN offset ELSE IF pc <= N + D + 1 THEN -B ELSE 0
  /\ s0 \in {0, S0}
  /\ \A k \in 1 .. N : k + D < pc => Value(K[k]) = K[k]

RunInv ==
  /\ RegsTyped
  /\ phase = "lay" => /\ entry = << >> /\ ret = << >>
                      /\ pc = 1 /\ sp = 0 /\ s0 = S0 /\ Intact
  /\ phase # "lay" => entry = Prologue(K, offset) /\ ret = Epilogue(K, offset)
  /\ phase = "enter" => EnterInv
  /\ phase = "body" => BodyInv
  /\ phase = "leave" => LeaveInv
  /\ phase = "returned" => pc = 1 /\ sp = 0 /\ s0 = S0 /\ Intact

FrameInv == LayInv /\ RunInv

\* What the layout says of the kept registers and of the distances.
LEMMA LayoutFact ==
  ASSUME LayInv
  PROVE  /\ K \in Seq(Kept3) /\ N \in Nat \ {0} /\ KeptBytes(hasCall, order) = 8 * N
         /\ \A k \in 1 .. N : K[k] \in Kept3
         /\ \E k \in 1 .. N : K[k] = S0
         /\ \A r : (\E k \in 1 .. N : K[k] = r)
                   <=> r = S0 \/ (hasCall /\ r = Ra) \/ \E k \in 1 .. Len(order) : order[k] = r
         /\ offset \in Int /\ B \in Int /\ D \in {0, 1}
         /\ D = 0 => -B = offset
         /\ D = 1 => ~FitsOneAddi(offset) /\ B = Hop
         /\ N <= 25
<1>1. hasCall \in BOOLEAN /\ order \in Seq(Savable) /\ offset \in Int /\ Len(order) <= 23
  BY DEF LayInv
<1>2. /\ K \in Seq(Kept3) /\ N \in Nat \ {0} /\ KeptBytes(hasCall, order) = 8 * N
      /\ N <= 2 + Len(order)
      /\ \E k \in 1 .. N : K[k] = S0
      /\ \A r : (\E k \in 1 .. N : K[k] = r)
                <=> r = S0 \/ (hasCall /\ r = Ra) \/ \E k \in 1 .. Len(order) : order[k] = r
  BY <1>1, KeptFact DEF K, N
<1>3. \A k \in 1 .. N : K[k] \in Kept3
  BY <1>2, ElementOfSeq DEF N
<1>4. /\ B \in Int /\ D \in {0, 1} /\ (D = 0 => -B = offset)
      /\ D = 1 => ~FitsOneAddi(offset) /\ B = Hop
  BY <1>1 DEF B, D, Base, Far, Hop
<1>5. Len(order) \in Nat
  BY <1>1, LenProperties
<1>. QED  BY <1>1, <1>2, <1>3, <1>4, <1>5

LEMMA RunInvInit == Init => RunInv
<1>. SUFFICES ASSUME Init PROVE RunInv
  OBVIOUS
<1>1. \A r \in Savable \union {Ra} : regs[r] = r
  BY DEF Init
<1>2. regs \in [Savable \union {Ra} -> Values]
  BY DEF Init, Values, Kept3
<1>. QED  BY <1>1, <1>2 DEF Init, RunInv, Intact, RegsTyped

\* While the body is emitted nothing runs, and closing starts the run.
LEMMA LayingKeepsRun ==
  ASSUME RunInv, phase = "lay", phase' = "lay", UNCHANGED <<text, machine>>
  PROVE  RunInv'
BY DEF RunInv, RegsTyped, Intact, text, machine

LEMMA ClosingStartsRun ==
  ASSUME LayInv, RunInv, Close, LayInv'
  PROVE  RunInv'
<1>1. /\ phase = "lay" /\ phase' = "enter" /\ hasCall' = hasCall /\ order' = order
      /\ pc' = pc /\ sp' = sp /\ s0' = s0 /\ regs' = regs /\ mem' = mem
      /\ entry' = Prologue(K, offset') /\ ret' = Epilogue(K, offset')
  BY DEF Close, K, machine
<1>2. K' = K /\ N' = N
  BY <1>1 DEF K, N
<1>3. N' \in Nat /\ D' \in Nat
  BY <1>2, LayoutFact DEF D, Far
<1>4. pc' = 1 /\ sp' = 0 /\ s0' = S0 /\ Intact' /\ RegsTyped'
  BY <1>1 DEF RunInv, Intact, RegsTyped
<1>5. \A k \in 1 .. N' : ~(k <= pc' - 2)
  BY <1>4
<1>6. Saved(pc - 2)'
  BY <1>5 DEF Saved
<1>7. 1 \in 1 .. N' + D' + 3 /\ 1 <= N' + 2
  <2>1. \A n, d \in Nat : 1 \in 1 .. n + d + 3 /\ 1 <= n + 2
    OBVIOUS
  <2>. QED  BY <1>3, <2>1
<1>8. EnterInv'
  BY <1>4, <1>6, <1>7 DEF EnterInv
<1>. QED  BY <1>1, <1>2, <1>4, <1>8 DEF RunInv

\* Each instruction of the prologue leads to the state the next one expects.
LEMMA EnterStep ==
  ASSUME LayInv, RunInv, Enter
  PROVE  RunInv'
<1>. DEFINE P == Prologue(K, offset)
<1>1. /\ phase = "enter" /\ entry = P /\ ret = Epilogue(K, offset) /\ EnterInv /\ RegsTyped
      /\ hasCall' = hasCall /\ order' = order /\ offset' = offset
      /\ entry' = entry /\ ret' = ret
  BY DEF Enter, Step, RunInv, layout, text
<1>2. K' = K /\ N' = N /\ B' = B /\ D' = D
  BY <1>1 DEF K, N, B, D
<1>3. /\ K \in Seq(Kept3) /\ N \in Nat \ {0} /\ offset \in Int /\ B \in Int /\ D \in {0, 1}
      /\ (D = 0 => -B = offset) /\ (D = 1 => ~FitsOneAddi(offset) /\ B = Hop)
      /\ \A k \in 1 .. N : K[k] \in Kept3
  BY LayoutFact
<1>4. /\ Len(P) = N + D + 2
      /\ P[1] = Addi("sp", -B)
      /\ \A k \in 1 .. N : P[k + 1] = Sd(K[k], B - 8 * k)
      /\ P[N + 2] = Addi("s0", B)
      /\ D = 1 => P[N + 3] = AddLoaded(offset + Hop)
  BY <1>3, PrologueShape DEF N, B, D
<1>. HIDE DEF P
<1>5. pc \in 1 .. N + D + 3 /\ Intact /\ Saved(pc - 2)
  BY <1>1 DEF EnterInv
<1>6. CASE pc > N + D + 2
  <2>1. pc = N + D + 3
    BY <1>3, <1>5, <1>6
  <2>2. phase' = "body" /\ pc' = 1 /\ UNCHANGED <<sp, s0, regs, mem>>
    BY <1>1, <1>3, <1>4, <1>5, <1>6 DEF Enter, Step
  <2>3. sp = offset /\ s0 = 0
    <3>1. CASE D = 0
      BY <1>1, <1>3, <2>1, <3>1 DEF EnterInv
    <3>2. CASE D = 1
      BY <1>1, <1>3, <2>1, <3>2 DEF EnterInv
    <3>. QED  BY <1>3, <3>1, <3>2
  <2>4. Saved(N)
    <3>1. \A k \in 1 .. N : k <= pc - 2
      BY <1>3, <2>1
    <3>. QED  BY <1>5, <3>1 DEF Saved
  <2>5. Saved(N)' /\ Unkept' /\ RegsTyped'
    BY <1>1, <1>2, <1>5, <2>2, <2>4 DEF Saved, Unkept, Intact, RegsTyped
  <2>. QED  BY <1>1, <1>2, <2>2, <2>3, <2>5 DEF RunInv, BodyInv
<1>7. CASE pc <= N + D + 2
  <2>1. Execute(P[pc]) /\ pc' = pc + 1 /\ phase' = "enter"
    BY <1>1, <1>3, <1>4, <1>5, <1>7 DEF Enter, Step
  <2>2. pc' \in 1 .. N + D + 3
    BY <1>3, <1>5, <1>7, <2>1
  <2>3. ASSUME regs' = regs, mem' = mem, N < pc - 1 \/ pc = 1
        PROVE  Intact' /\ RegsTyped' /\ Saved(pc - 2)'
    <3>1. \A k \in 1 .. N : k <= (pc + 1) - 2 => k <= pc - 2
      BY <1>3, <1>5, <2>3
    <3>. QED  BY <1>1, <1>2, <1>5, <2>1, <2>3, <3>1 DEF Saved, Intact, RegsTyped
  <2>4. ASSUME Intact', RegsTyped', Saved(pc - 2)',
               sp' = (IF pc + 1 <= N + 3 THEN -B ELSE offset),
               s0' = (IF pc + 1 <= N + 2 THEN S0 ELSE 0)
        PROVE  RunInv'
    <3>1. pc + 1 # 1
      BY <1>3, <1>5
    <3>2. EnterInv'
      BY <1>2, <1>1, <2>1, <2>2, <2>4, <3>1 DEF EnterInv
    <3>. QED  BY <1>1, <1>2, <2>1, <2>4, <3>2 DEF RunInv
  <2>5. CASE pc = 1
    <3>1. Execute(Addi("sp", -B)) /\ sp = 0 /\ s0 = S0
      BY <1>1, <1>3, <1>4, <2>1, <2>5 DEF EnterInv
    <3>2. sp' = 0 + -B /\ UNCHANGED <<s0, regs, mem>>
      BY <1>3, <3>1, ExecuteSp
    <3>3. sp' = -B /\ pc + 1 <= N + 2 /\ pc + 1 <= N + 3
      BY <1>3, <2>5, <3>2
    <3>. QED  BY <2>3, <2>4, <2>5, <3>1, <3>2, <3>3
  <2>6. CASE pc \in 2 .. N + 1
    <3>. DEFINE j == pc - 1
    <3>1. j \in 1 .. N /\ j + 1 = pc /\ B - 8 * j \in Int
      BY <1>3, <2>6
    <3>2. Execute(Sd(K[j], B - 8 * j)) /\ sp = -B /\ s0 = S0
      BY <1>1, <1>3, <1>4, <2>1, <2>6, <3>1 DEF EnterInv
    <3>3. -B + (B - 8 * j) = 0 - 8 * j
      BY <1>3, <3>1
    <3>4. (IF K[j] = S0 THEN s0 ELSE regs[K[j]]) = K[j]
      BY <1>3, <1>5, <3>1, <3>2 DEF Intact, Kept3
    <3>5. /\ mem' = [x \in DOMAIN mem \union {0 - 8 * j} |->
                       IF x = 0 - 8 * j THEN K[j] ELSE mem[x]]
          /\ UNCHANGED <<sp, s0, regs>>
      <4>. HIDE DEF j
      <4>. DEFINE i == B - 8 * j
      <4>0. i \in Int /\ Execute(Sd(K[j], i))
        BY <3>1, <3>2
      <4>1. sp + i = 0 - 8 * j
        BY <3>2, <3>3
      <4>. HIDE DEF i
      <4>2. /\ mem' = [x \in DOMAIN mem \union {sp + i} |->
                         IF x = sp + i THEN (IF K[j] = S0 THEN s0 ELSE regs[K[j]]) ELSE mem[x]]
            /\ UNCHANGED <<sp, s0, regs>>
        BY <4>0, ExecuteSd
      <4>. QED  BY <3>4, <4>1, <4>2
    <3>6. Saved(pc - 2)'
      <4>1. \A k \in 1 .. N : k <= (pc + 1) - 2 => k = j \/ (k <= pc - 2 /\ 0 - 8 * k # 0 - 8 * j)
        BY <1>3, <1>5, <3>1
      <4>2. \A k \in 1 .. N : k <= (pc + 1) - 2 => 0 - 8 * k \in DOMAIN mem' /\ mem'[0 - 8 * k] = K[k]
        BY <1>5, <3>5, <4>1 DEF Saved
      <4>. QED  BY <1>2, <2>1, <4>2 DEF Saved
    <3>7. Intact' /\ RegsTyped'
      BY <1>1, <1>5, <3>5 DEF Intact, RegsTyped
    <3>8. pc + 1 <= N + 2 /\ pc + 1 <= N + 3
      BY <1>3, <2>6
    <3>. QED  BY <2>4, <3>2, <3>5, <3>6, <3>7, <3>8
  <2>7. CASE pc = N + 2
    <3>1. Execute(Addi("s0", B)) /\ sp = -B
      BY <1>1, <1>3, <1>4, <2>1, <2>7 DEF EnterInv
    <3>2. s0' = -B + B /\ UNCHANGED <<sp, regs, mem>>
      BY <1>3, <3>1, ExecuteS0
    <3>3. s0' = 0 /\ ~(pc + 1 <= N + 2) /\ pc + 1 <= N + 3 /\ N < pc - 1
      BY <1>3, <2>7, <3>2
    <3>. QED  BY <2>3, <2>4, <3>1, <3>2, <3>3
  <2>8. CASE pc = N + 3 /\ D = 1
    <3>1. Execute(AddLoaded(offset + Hop)) /\ sp = -B /\ s0 = 0
      BY <1>1, <1>3, <1>4, <2>1, <2>8 DEF EnterInv
    <3>2. sp' = -B + (offset + Hop) /\ UNCHANGED <<s0, regs, mem>>
      <4>1. offset + Hop \in Int
        BY <1>3 DEF Hop
      <4>. QED  BY <3>1, <4>1, ExecuteSp
    <3>3. sp' = offset
      BY <1>3, <2>8, <3>2 DEF Hop
    <3>4. ~(pc + 1 <= N + 2) /\ ~(pc + 1 <= N + 3) /\ N < pc - 1
      BY <1>3, <2>8
    <3>. QED  BY <2>3, <2>4, <3>1, <3>2, <3>3, <3>4
  <2>9. pc = 1 \/ pc \in 2 .. N + 1 \/ pc = N + 2 \/ (pc = N + 3 /\ D = 1)
    BY <1>3, <1>5, <1>7
  <2>. QED  BY <2>5, <2>6, <2>7, <2>8, <2>9
<1>8. pc > N + D + 2 \/ pc <= N + D + 2
  BY <1>3, <1>5
<1>. QED  BY <1>6, <1>7, <1>8

\* The body writes only its own bytes, none of which hold a saved register.
LEMMA BodyStep ==
  ASSUME LayInv, RunInv, Body
  PROVE  RunInv'
<1>1. /\ phase = "body" /\ phase' \in {"body", "leave"} /\ BodyInv /\ RegsTyped
      /\ entry = Prologue(K, offset) /\ ret = Epilogue(K, offset)
      /\ hasCall' = hasCall /\ order' = order /\ offset' = offset
      /\ entry' = entry /\ ret' = ret /\ pc' = pc /\ sp' = sp /\ s0' = s0
  BY DEF Body, RunInv, layout, text
<1>2. K' = K /\ N' = N /\ B' = B /\ D' = D
  BY <1>1 DEF K, N, B, D
<1>3. /\ N \in Nat \ {0} /\ KeptBytes(hasCall, order) = 8 * N /\ D \in {0, 1}
      /\ offset \in Int /\ maxPass \in Nat
      /\ \A r : (\E k \in 1 .. N : K[k] = r)
                <=> r = S0 \/ (hasCall /\ r = Ra) \/ \E k \in 1 .. Len(order) : order[k] = r
  BY LayoutFact DEF LayInv
<1>4. PICK a \in areas \union {[lo |-> sp, size |-> maxPass]} :
        mem' = [x \in DOMAIN mem |->
                  IF Bytes(x, 8) \intersect Bytes(a.lo, a.size) # {} THEN Junk ELSE mem[x]]
  BY DEF Body
<1>5. a.lo \in Int /\ a.size \in Int /\ a.lo + a.size <= -(8 * N)
  <2>1. CASE a \in areas
    BY <1>3, <2>1 DEF LayInv, Area
  <2>2. CASE a = [lo |-> sp, size |-> maxPass]
    BY <1>1, <1>3, <2>2 DEF LayInv, BodyInv
  <2>. QED  BY <2>1, <2>2
<1>6. ASSUME NEW k \in 1 .. N
      PROVE  0 - 8 * k \in DOMAIN mem' /\ mem'[0 - 8 * k] = K[k]
  <2>1. 0 - 8 * k \in DOMAIN mem /\ mem[0 - 8 * k] = K[k]
    BY <1>1, <1>3 DEF BodyInv, Saved
  <2>2. Bytes(0 - 8 * k, 8) \intersect Bytes(a.lo, a.size) = {}
    <3>1. a.lo + a.size <= 0 - 8 * k
      BY <1>3, <1>5
    <3>. QED  BY <1>3, <1>5, <3>1 DEF Bytes
  <2>. QED  BY <1>4, <2>1, <2>2
<1>7. Saved(N)'
  BY <1>2, <1>6 DEF Saved
<1>8. DOMAIN regs = Savable \union {Ra}
  BY <1>1 DEF RegsTyped
<1>9. regs' = [r \in Savable \union {Ra} |->
                 IF \/ \E k \in DOMAIN order : order[k] = r
                    \/ r = Ra /\ hasCall
                 THEN Junk ELSE regs[r]]
  BY <1>8 DEF Body
<1>10. RegsTyped'
  BY <1>1, <1>9 DEF RegsTyped, Values
<1>11. DOMAIN order = 1 .. Len(order)
  BY LenProperties DEF LayInv
<1>12. Unkept'
  <2>. SUFFICES ASSUME NEW r \in Savable \union {Ra}, \A k \in 1 .. N : K[k] # r
       PROVE  regs'[r] = r
    BY <1>2 DEF Unkept
  <2>1. ~((hasCall /\ r = Ra) \/ \E k \in DOMAIN order : order[k] = r)
    BY <1>3, <1>11
  <2>2. regs[r] = r
    BY <1>1 DEF BodyInv, Unkept
  <2>. QED  BY <1>9, <2>1, <2>2
<1>13. pc' = 1 /\ sp' = offset' /\ s0' = 0
  BY <1>1 DEF BodyInv
<1>14. BodyInv'
  BY <1>7, <1>12, <1>13 DEF BodyInv
<1>15. phase' = "leave" => LeaveInv'
  <2>1. 1 \in 1 .. N + D + 2 /\ 1 <= N + D + 1 /\ \A k \in 1 .. N : ~(k + D < 1)
    BY <1>3
  <2>2. (IF 1 <= D THEN offset ELSE IF 1 <= N + D + 1 THEN -B ELSE 0) = offset
    BY <1>3, <2>1, LayoutFact
  <2>. QED  BY <1>1, <1>2, <1>7, <1>12, <1>13, <2>1, <2>2 DEF LeaveInv
<1>. QED  BY <1>1, <1>2, <1>10, <1>14, <1>15 DEF RunInv

\* Each instruction of the epilogue leads to the state the next one expects.
LEMMA LeaveStep ==
  ASSUME LayInv, RunInv, Leave
  PROVE  RunInv'
<1>. DEFINE P == Epilogue(K, offset)
<1>1. /\ phase = "leave" /\ ret = P /\ entry = Prologue(K, offset) /\ LeaveInv /\ RegsTyped
      /\ hasCall' = hasCall /\ order' = order /\ offset' = offset
      /\ entry' = entry /\ ret' = ret
  BY DEF Leave, Step, RunInv, layout, text
<1>2. K' = K /\ N' = N /\ B' = B /\ D' = D
  BY <1>1 DEF K, N, B, D
<1>3. /\ K \in Seq(Kept3) /\ N \in Nat \ {0} /\ offset \in Int /\ B \in Int /\ D \in {0, 1}
      /\ (D = 0 => -B = offset) /\ (D = 1 => ~FitsOneAddi(offset) /\ B = Hop)
      /\ \A k \in 1 .. N : K[k] \in Kept3
      /\ \E k \in 1 .. N : K[k] = S0
  BY LayoutFact
<1>4. /\ Len(P) = N + D + 1
      /\ D = 1 => P[1] = AddLoaded(-offset - Hop)
      /\ \A k \in 1 .. N : P[k + D] = Ld(K[k], B - 8 * k)
      /\ P[N + D + 1] = Addi("sp", B)
  BY <1>3, EpilogueShape DEF N, B, D
<1>. HIDE DEF P
<1>5. /\ pc \in 1 .. N + D + 2 /\ Saved(N) /\ Unkept /\ s0 \in {0, S0}
      /\ \A k \in 1 .. N : k + D < pc => Value(K[k]) = K[k]
  BY <1>1 DEF LeaveInv
<1>6. S0 \notin Savable \union {Ra}
  BY Registers
<1>7. CASE pc > N + D + 1
  <2>1. pc = N + D + 2 /\ phase' = "returned" /\ pc' = 1 /\ UNCHANGED <<sp, s0, regs, mem>>
    BY <1>1, <1>3, <1>4, <1>5, <1>7 DEF Leave, Step
  <2>2. sp = 0
    BY <1>1, <1>3, <2>1 DEF LeaveInv
  <2>3. \A k \in 1 .. N : Value(K[k]) = K[k]
    BY <1>3, <1>5, <2>1
  <2>4. s0 = S0
    BY <1>3, <2>3 DEF Value
  <2>5. Intact
    BY <1>5, <1>6, <2>3 DEF Intact, Unkept, Value
  <2>. QED  BY <1>1, <1>2, <2>1, <2>2, <2>4, <2>5 DEF RunInv, Intact, RegsTyped
<1>8. CASE pc <= N + D + 1
  <2>1. Execute(P[pc]) /\ pc' = pc + 1 /\ phase' = "leave"
    BY <1>1, <1>3, <1>4, <1>5, <1>8 DEF Leave, Step
  <2>2. pc' \in 1 .. N + D + 2
    BY <1>3, <1>5, <1>8, <2>1
  <2>3. ASSUME mem' = mem, Unkept', RegsTyped', s0' \in {0, S0},
               sp' = (IF pc + 1 <= D THEN offset ELSE IF pc + 1 <= N + D + 1 THEN -B ELSE 0),
               \A k \in 1 .. N : k + D < pc + 1 => Value(K[k])' = K[k]
        PROVE  RunInv'
    <3>1. Saved(N)'
      BY <1>2, <1>5, <2>3 DEF Saved
    <3>2. \A k \in 1 .. N : K'[k] = K[k]
      BY <1>2
    <3>3. LeaveInv'
      BY <1>1, <1>2, <2>1, <2>2, <2>3, <3>1, <3>2 DEF LeaveInv, Value
    <3>. QED  BY <1>1, <1>2, <2>1, <2>3, <3>3 DEF RunInv
  <2>4. ASSUME regs' = regs, s0' = s0
        PROVE  Unkept' /\ RegsTyped' /\ s0' \in {0, S0} /\ \A k \in 1 .. N : Value(K[k])' = Value(K[k])
    BY <1>1, <1>2, <1>5, <2>4 DEF Unkept, RegsTyped, Value
  <2>5. CASE pc = 1 /\ D = 1
    <3>1. Execute(AddLoaded(-offset - Hop)) /\ sp = offset
      BY <1>1, <1>3, <1>4, <2>1, <2>5 DEF LeaveInv
    <3>2. sp' = offset + (-offset - Hop) /\ UNCHANGED <<s0, regs, mem>>
      <4>1. -offset - Hop \in Int
        BY <1>3 DEF Hop
      <4>. QED  BY <3>1, <4>1, ExecuteSp
    <3>3. sp' = -B /\ ~(pc + 1 <= D) /\ pc + 1 <= N + D + 1
      BY <1>3, <2>5, <3>2 DEF Hop
    <3>4. \A k \in 1 .. N : ~(k + D < pc + 1)
      BY <1>3, <2>5
    <3>. QED  BY <2>3, <2>4, <3>2, <3>3, <3>4
  <2>6. CASE pc \in D + 1 .. N + D
    <3>. DEFINE j == pc - D
    <3>1. j \in 1 .. N /\ j + D = pc /\ B - 8 * j \in Int
      BY <1>3, <2>6
    <3>2. Execute(Ld(K[j], B - 8 * j)) /\ sp = -B
      <4>1. ~(pc <= D) /\ pc <= N + D + 1
        BY <1>3, <2>6
      <4>2. sp = -B
        BY <1>1, <4>1 DEF LeaveInv
      <4>3. P[j + D] = Ld(K[j], B - 8 * j) /\ P[pc] = P[j + D]
        BY <1>4, <3>1
      <4>. QED  BY <2>1, <4>2, <4>3
    <3>3. -B + (B - 8 * j) = 0 - 8 * j
      BY <1>3, <3>1
    <3>4. 0 - 8 * j \in DOMAIN mem /\ mem[0 - 8 * j] = K[j]
      BY <1>3, <1>5, <3>1 DEF Saved
    <3>5. K[j] \in Kept3
      BY <1>3, <3>1
    <3>6. \A k \in 1 .. N : k + D < pc + 1 => k = j \/ k + D < pc
      BY <1>3, <3>1
    <3>7. ~(pc + 1 <= D) /\ pc + 1 <= N + D + 1
      BY <1>3, <2>6
    <3>. HIDE DEF j
    <3>8. /\ K[j] = S0 => s0' = K[j] /\ regs' = regs
          /\ K[j] # S0 => regs' = [regs EXCEPT ![K[j]] = K[j]] /\ s0' = s0
          /\ UNCHANGED <<sp, mem>>
      <4>. DEFINE i == B - 8 * j
      <4>1. i \in Int /\ Execute(Ld(K[j], i)) /\ sp + i = 0 - 8 * j
        BY <3>1, <3>2, <3>3
      <4>. HIDE DEF i
      <4>2. /\ K[j] = S0 => s0' = mem[sp + i] /\ regs' = regs
            /\ K[j] # S0 => regs' = [regs EXCEPT ![K[j]] = mem[sp + i]] /\ s0' = s0
            /\ UNCHANGED <<sp, mem>>
        BY <3>4, <4>1, ExecuteLd
      <4>. QED  BY <3>4, <4>1, <4>2
    <3>9. CASE K[j] = S0
      <4>1. Unkept' /\ RegsTyped' /\ s0' \in {0, S0}
        BY <1>1, <1>2, <1>5, <3>8, <3>9 DEF Unkept, RegsTyped
      <4>2. \A k \in 1 .. N : k + D < pc + 1 => Value(K[k])' = K[k]
        BY <1>2, <1>5, <3>6, <3>8, <3>9 DEF Value
      <4>. QED  BY <2>3, <3>2, <3>7, <3>8, <4>1, <4>2
    <3>10. CASE K[j] # S0
      <4>0. K[j] \in Savable \union {Ra} /\ K[j] \in Values
        BY <3>5, <3>10 DEF Kept3, Values
      <4>1. /\ \A r \in Savable \union {Ra} : regs'[r] = IF r = K[j] THEN K[j] ELSE regs[r]
            /\ RegsTyped'
        BY <1>1, <3>8, <3>10, <4>0 DEF RegsTyped
      <4>2. Unkept' /\ s0' \in {0, S0}
        BY <1>2, <1>5, <3>1, <3>8, <3>10, <4>1 DEF Unkept
      <4>3. ASSUME NEW k \in 1 .. N, k + D < pc + 1
            PROVE  Value(K[k])' = K[k]
        <5>1. K[k] \in Kept3 /\ (K[k] = K[j] \/ Value(K[k]) = K[k])
          BY <1>3, <1>5, <3>6, <4>3
        <5>2. CASE K[k] = S0
          BY <1>2, <3>8, <3>10, <5>1, <5>2 DEF Value
        <5>3. CASE K[k] # S0
          <6>1. K[k] \in Savable \union {Ra}
            BY <5>1, <5>3 DEF Kept3
          <6>. QED  BY <1>2, <4>1, <5>1, <5>3, <6>1 DEF Value
        <5>. QED  BY <5>2, <5>3
      <4>. QED  BY <2>3, <3>2, <3>7, <3>8, <4>1, <4>2, <4>3
    <3>. QED  BY <3>9, <3>10
  <2>7. CASE pc = N + D + 1
    <3>1. Execute(Addi("sp", B)) /\ sp = -B
      <4>1. Execute(Addi("sp", B))
        BY <1>4, <2>1, <2>7
      <4>2. ~(pc <= D) /\ pc <= N + D + 1
        BY <1>3, <2>7
      <4>. QED  BY <1>1, <4>1, <4>2 DEF LeaveInv
    <3>2. sp' = -B + B /\ UNCHANGED <<s0, regs, mem>>
      BY <1>3, <3>1, ExecuteSp
    <3>3. sp' = 0 /\ ~(pc + 1 <= D) /\ ~(pc + 1 <= N + D + 1)
      BY <1>3, <2>7, <3>2
    <3>4. \A k \in 1 .. N : k + D < pc
      BY <1>3, <2>7
    <3>. QED  BY <1>5, <2>3, <2>4, <3>2, <3>3, <3>4
  <2>8. (pc = 1 /\ D = 1) \/ pc \in D + 1 .. N + D \/ pc = N + D + 1
    BY <1>3, <1>5, <1>8
  <2>. QED  BY <2>5, <2>6, <2>7, <2>8
<1>9. pc > N + D + 1 \/ pc <= N + D + 1
  BY <1>3, <1>5
<1>. QED  BY <1>7, <1>8, <1>9

LEMMA FrameInvStep == FrameInv /\ [Next]_vars => FrameInv'
<1>. SUFFICES ASSUME LayInv, RunInv, [Next]_vars PROVE RunInv'
  BY LayInvStep DEF FrameInv
<1>1. CASE Alloc \/ SpillSlot
  BY <1>1, LayingKeepsRun DEF Alloc, SpillSlot, NewArea
<1>2. CASE PassParams
  BY <1>2, LayingKeepsRun DEF PassParams
<1>3. CASE NextRound
  BY <1>3, LayingKeepsRun DEF NextRound
<1>4. CASE Close
  BY <1>4, ClosingStartsRun, LayInvStep DEF Next
<1>5. CASE Enter
  BY <1>5, EnterStep
<1>6. CASE Body
  BY <1>6, BodyStep
<1>7. CASE Leave
  BY <1>7, LeaveStep
<1>8. CASE UNCHANGED vars
  <2>1. K' = K /\ N' = N /\ B' = B /\ D' = D
    BY <1>8 DEF K, N, B, D, vars
  <2>2. \A k \in 1 .. N : Value(K[k])' = Value(K[k])
    BY <1>8, <2>1 DEF Value, vars
  <2>3. EnterInv' <=> EnterInv
    BY <1>8, <2>1 DEF vars, EnterInv, Intact, Saved
  <2>4. BodyInv' <=> BodyInv
    BY <1>8, <2>1 DEF vars, BodyInv, Saved, Unkept
  <2>5. LeaveInv' <=> LeaveInv
    BY <1>8, <2>1, <2>2 DEF vars, LeaveInv, Saved, Unkept
  <2>. QED  BY <1>8, <2>1, <2>3, <2>4, <2>5 DEF vars, RunInv, Intact, RegsTyped
<1>. QED  BY <1>1, <1>2, <1>3, <1>4, <1>5, <1>6, <1>7, <1>8 DEF Next

\* The layout and the run keep their invariant.
THEOREM Inductive == Spec => []FrameInv
<1>1. Init => FrameInv
  BY LayInvInit, RunInvInit DEF FrameInv
<1>2. FrameInv /\ [Next]_vars => FrameInv'
  BY FrameInvStep
<1>. QED  BY <1>1, <1>2, PTL DEF Spec

\* Every variable of emitFunction's frame and of the run keeps its type.
THEOREM TypeCorrect == Spec => []TypeOK
<1>1. FrameInv => TypeOK
  <2>. SUFFICES ASSUME LayInv, RunInv PROVE TypeOK
    BY DEF FrameInv
  <2>1. /\ phase \in {"lay", "enter", "body", "leave", "returned"} /\ hasCall \in BOOLEAN
        /\ order \in Seq(Savable) /\ offset \in Int /\ maxPass \in Nat
        /\ areas \in SUBSET [lo : Int, size : Nat \ {0}]
    BY DEF LayInv, Area
  <2>2. /\ K \in Seq(Kept3) /\ N \in Nat \ {0} /\ B \in Int /\ D \in {0, 1}
    BY LayoutFact
  <2>3. entry \in Seq(Instrs) /\ ret \in Seq(Instrs)
    <3>1. CASE phase = "lay"
      BY <3>1 DEF RunInv
    <3>2. CASE phase # "lay"
      BY <2>1, <2>2, <3>2, PrologueShape, EpilogueShape DEF RunInv
    <3>. QED  BY <3>1, <3>2
  <2>4. pc \in Nat \ {0} /\ sp \in Int /\ s0 \in Int \union {S0, Junk}
    <3>1. CASE phase \in {"lay", "returned"}
      BY <3>1 DEF RunInv
    <3>2. CASE phase = "enter"
      BY <2>1, <2>2, <3>2 DEF RunInv, EnterInv
    <3>3. CASE phase = "body"
      BY <2>1, <3>3 DEF RunInv, BodyInv
    <3>4. CASE phase = "leave"
      BY <2>1, <2>2, <3>4 DEF RunInv, LeaveInv
    <3>. QED  BY <2>1, <3>1, <3>2, <3>3, <3>4
  <2>5. regs \in [Savable \union {Ra} -> Savable \union {Ra, S0, Junk} \union Int]
    <3>1. Values = Savable \union {Ra, S0, Junk} \union Int
      BY DEF Values, Kept3
    <3>. QED  BY <3>1 DEF RunInv, RegsTyped
  <2>. QED  BY <2>1, <2>3, <2>4, <2>5 DEF TypeOK
<1>. QED  BY <1>1, Inductive, PTL

\* Locals, spill slots, saved registers and outgoing parameters share no byte,
\* for any number of locals, sizes and rounds of emission.
THEOREM LayoutIsSound == Spec => []AreasApart
<1>1. FrameInv => AreasApart
  BY DEF FrameInv, LayInv, AreasApart
<1>. QED  BY <1>1, Inductive, PTL

\* sp is a multiple of 16 at every call the body makes, and s0 is the entry sp.
THEOREM SpIsAligned == Spec => []StackAligned
<1>1. FrameInv => StackAligned
  BY DEF FrameInv, LayInv, RunInv, BodyInv, StackAligned
<1>. QED  BY <1>1, Inductive, PTL

\* The caller finds sp, s0, ra and the callee-saved registers as it left them.
THEOREM CallerIsRestored == Spec => []Restored
<1>1. FrameInv => Restored
  <2>. SUFFICES ASSUME RunInv, phase = "returned"
       PROVE  sp = 0 /\ s0 = S0 /\ \A r \in DOMAIN regs : regs[r] = r
    BY DEF FrameInv, Restored
  <2>1. DOMAIN regs = Savable \union {Ra}
    BY DEF RunInv, RegsTyped
  <2>. QED  BY <2>1 DEF RunInv, Intact
<1>. QED  BY <1>1, Inductive, PTL

\* The immediates of the code: the step of sp, or the slot of a kept register.
Expected(i) == \/ i.op = "add"
               \/ i.op = "addi" /\ i.imm \in {B, -B}
               \/ i.op \in {"sd", "ld"} /\ \E j \in 1 .. N : i.imm = B - 8 * j

LEMMA CodeFact ==
  ASSUME LayInv, RunInv
  PROVE  /\ \A k \in DOMAIN entry : Expected(entry[k])
         /\ \A k \in DOMAIN ret : Expected(ret[k])
<1>1. CASE phase = "lay"
  BY <1>1 DEF RunInv
<1>2. CASE phase # "lay"
  <2>1. /\ K \in Seq(Kept3) /\ N \in Nat \ {0} /\ offset \in Int /\ D \in {0, 1} /\ B \in Int
        /\ D = 1 => ~FitsOneAddi(offset)
    BY LayoutFact
  <2>2. entry = Prologue(K, offset) /\ ret = Epilogue(K, offset)
    BY <1>2 DEF RunInv
  <2>3. /\ entry \in Seq(Instrs) /\ Len(entry) = N + D + 2
        /\ entry[1] = Addi("sp", -B)
        /\ \A k \in 1 .. N : entry[k + 1] = Sd(K[k], B - 8 * k)
        /\ entry[N + 2] = Addi("s0", B)
        /\ D = 1 => entry[N + 3] = AddLoaded(offset + Hop)
    BY <2>1, <2>2, PrologueShape DEF N, B, D
  <2>4. /\ ret \in Seq(Instrs) /\ Len(ret) = N + D + 1
        /\ D = 1 => ret[1] = AddLoaded(-offset - Hop)
        /\ \A k \in 1 .. N : ret[k + D] = Ld(K[k], B - 8 * k)
        /\ ret[N + D + 1] = Addi("sp", B)
    BY <2>1, <2>2, EpilogueShape DEF N, B, D
  <2>5. ASSUME NEW k \in DOMAIN entry PROVE Expected(entry[k])
    <3>1. k \in 1 .. N + D + 2
      BY <2>3, LenProperties
    <3>2. k = 1 \/ (k - 1 \in 1 .. N /\ k = (k - 1) + 1) \/ k = N + 2 \/ (k = N + 3 /\ D = 1)
      BY <2>1, <3>1
    <3>3. CASE k - 1 \in 1 .. N /\ k = (k - 1) + 1
      <4>1. PICK j \in 1 .. N : k = j + 1
        BY <3>3
      <4>2. entry[k] = Sd(K[j], B - 8 * j)
        BY <2>3, <4>1
      <4>. QED  BY <4>2 DEF Expected, Sd
    <3>4. CASE k = 1 \/ k = N + 2
      BY <2>3, <3>4 DEF Expected, Addi
    <3>5. CASE k = N + 3 /\ D = 1
      BY <2>3, <3>5 DEF Expected, AddLoaded
    <3>. QED  BY <3>2, <3>3, <3>4, <3>5
  <2>6. ASSUME NEW k \in DOMAIN ret PROVE Expected(ret[k])
    <3>1. k \in 1 .. N + D + 1
      BY <2>4, LenProperties
    <3>2. (k = 1 /\ D = 1) \/ (k - D \in 1 .. N /\ k = (k - D) + D) \/ k = N + D + 1
      BY <2>1, <3>1
    <3>3. CASE k - D \in 1 .. N /\ k = (k - D) + D
      <4>1. PICK j \in 1 .. N : k = j + D
        BY <3>3
      <4>2. ret[k] = Ld(K[j], B - 8 * j)
        BY <2>4, <4>1
      <4>. QED  BY <4>2 DEF Expected, Ld
    <3>4. CASE k = N + D + 1
      BY <2>4, <3>4 DEF Expected, Addi
    <3>5. CASE k = 1 /\ D = 1
      BY <2>4, <3>5 DEF Expected, AddLoaded
    <3>. QED  BY <3>2, <3>3, <3>4, <3>5
  <2>. QED  BY <2>5, <2>6
<1>. QED  BY <1>1, <1>2

\* Prologue and epilogue touch no byte outside the frame.
THEOREM SavesStayInFrame == Spec => []SavesInFrame
<1>1. FrameInv => SavesInFrame
  <2>. SUFFICES ASSUME LayInv, RunInv,
                       NEW code \in {entry, ret}, NEW k \in DOMAIN code,
                       code[k].op \in {"sd", "ld"}
       PROVE  code[k].imm >= 0 /\ code[k].imm + 8 <= (IF FitsOneAddi(offset) THEN -offset ELSE Hop)
    BY DEF FrameInv, SavesInFrame
  <2>1. phase # "lay"
    BY DEF RunInv
  <2>2. /\ N \in Nat \ {0} /\ N <= 25 /\ KeptBytes(hasCall, order) = 8 * N
        /\ offset \in Int /\ maxPass \in Nat /\ offset + maxPass <= -KeptBytes(hasCall, order)
    BY <2>1, LayoutFact DEF LayInv
  <2>3. PICK j \in 1 .. N : code[k].imm = B - 8 * j
    BY CodeFact DEF Expected
  <2>4. B = (IF FitsOneAddi(offset) THEN -offset ELSE Hop) /\ B \in Int
    BY <2>2 DEF B, Base, Hop
  <2>5. 8 * N <= B
    BY <2>2 DEF B, Base, Hop
  <2>6. B - 8 * j >= 0 /\ (B - 8 * j) + 8 <= B
    <3>1. \A n, i, b \in Int : i >= 1 /\ i <= n /\ 8 * n <= b => b - 8 * i >= 0 /\ (b - 8 * i) + 8 <= b
      OBVIOUS
    <3>2. N \in Int /\ j \in Int /\ j >= 1 /\ j <= N
      BY <2>2, <2>3
    <3>. QED  BY <2>4, <2>5, <3>1, <3>2
  <2>. QED  BY <2>3, <2>4, <2>6
<1>. QED  BY <1>1, Inductive, PTL

\* Every immediate fits, except in a frame of exactly 2048 bytes.
THEOREM ImmediatesFit == Spec => []OthersEncodable
<1>1. FrameInv => OthersEncodable
  <2>. SUFFICES ASSUME LayInv, RunInv, offset # ImmMin,
                       NEW code \in {entry, ret}, NEW k \in DOMAIN code, code[k].op # "add"
       PROVE  ImmMin <= code[k].imm /\ code[k].imm <= ImmMax
    BY DEF FrameInv, OthersEncodable, Immediates
  <2>1. phase # "lay"
    BY DEF RunInv
  <2>2. /\ N \in Nat \ {0} /\ N <= 25 /\ KeptBytes(hasCall, order) = 8 * N
        /\ offset \in Int /\ maxPass \in Nat /\ offset + maxPass <= -KeptBytes(hasCall, order)
    BY <2>1, LayoutFact DEF LayInv
  <2>3. B \in Int /\ 8 * N <= B /\ B <= 2047
    BY <2>2 DEF B, Base, Hop, FitsOneAddi, ImmMin
  <2>4. Expected(code[k])
    BY CodeFact
  <2>5. CASE code[k].imm \in {B, -B}
    BY <2>2, <2>3, <2>5 DEF ImmMin, ImmMax
  <2>6. ASSUME NEW j \in 1 .. N, code[k].imm = B - 8 * j
        PROVE  ImmMin <= code[k].imm /\ code[k].imm <= ImmMax
    BY <2>2, <2>3, <2>6 DEF ImmMin, ImmMax
  <2>. QED  BY <2>4, <2>5, <2>6 DEF Expected
<1>. QED  BY <1>1, Inductive, PTL
=============================================================================
