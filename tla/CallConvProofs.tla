--------------------------- MODULE CallConvProofs ---------------------------
(***************************************************************************)
(* Theorems about CallConv, for any number of argument registers, any      *)
(* parameter lists and any nesting of calls.                               *)
(***************************************************************************)
EXTENDS CallConv, SeqFacts, FiniteSetTheorems

Calls == [sig : Signatures, args : Seq(Args)]

\* Going one parameter further adds one to the count of its kind.
LEMMA CountStep ==
  ASSUME NEW sig, NEW kind, NEW n \in Nat
  PROVE  /\ CountUpTo(sig, kind, 0) = 0
         /\ CountUpTo(sig, kind, n) \in Nat
         /\ CountUpTo(sig, kind, n + 1) =
              CountUpTo(sig, kind, n) + (IF sig[n + 1] = kind THEN 1 ELSE 0)
<1>. DEFINE Of(m) == {j \in 1 .. m : sig[j] = kind}
<1>1. Of(0) = {}
  OBVIOUS
<1>2. IsFiniteSet(1 .. n) /\ Of(n) \subseteq 1 .. n
  BY FS_Interval
<1>3. IsFiniteSet(Of(n))
  BY <1>2, FS_Subset
<1>4. Cardinality(Of(n)) \in Nat /\ Cardinality(Of(0)) = 0
  <2>. HIDE DEF Of
  <2>. QED  BY <1>1, <1>3, FS_CardinalityType, FS_EmptySet
<1>. DEFINE C(m) == CountUpTo(sig, kind, m)
<1>5. C(n) = Cardinality(Of(n)) /\ C(0) = Cardinality(Of(0))
      /\ C(n + 1) = Cardinality(Of(n + 1))
  BY DEF CountUpTo
<1>6. CASE sig[n + 1] = kind
  <2>1. Of(n + 1) = Of(n) \union {n + 1} /\ n + 1 \notin Of(n)
    BY <1>6
  <2>2. Cardinality(Of(n + 1)) = Cardinality(Of(n)) + 1
    <3>. HIDE DEF Of
    <3>. QED  BY <1>3, <2>1, FS_AddElement
  <2>. QED  BY <1>5, <1>4, <1>6, <2>2
<1>7. CASE sig[n + 1] # kind
  <2>1. Of(n + 1) = Of(n)
    BY <1>7
  <2>. QED  BY <1>5, <1>4, <1>7, <2>1
<1>. QED  BY <1>6, <1>7

\* The signatures are sequences of the two kinds.
LEMMA SignatureShape ==
  ASSUME NEW s \in Signatures
  PROVE  /\ s \in Seq({"int", "float"}) /\ Len(s) \in Nat /\ DOMAIN s = 1 .. Len(s)
         /\ \A i \in 1 .. Len(s) : s[i] \in {"int", "float"}
<1>1. s \in Seq({"int", "float"})
  BY SignaturesOK
<1>. QED  BY <1>1, LenProperties, ElementOfSeq

\* The innermost call is one of those being built.
LEMMA InnermostCall ==
  ASSUME NEW calls \in Seq(Calls), calls # << >>
  PROVE  /\ Len(calls) \in Nat \ {0} /\ DOMAIN calls = 1 .. Len(calls)
         /\ calls[Len(calls)] \in Calls
<1>1. Len(calls) \in Nat \ {0}
  BY EmptySeq
<1>. QED  BY <1>1, ElementOfSeq, LenProperties

LEMMA WithArgType ==
  ASSUME NEW calls \in Seq(Calls), calls # << >>, NEW a \in Args
  PROVE  WithArg(calls, a) \in Seq(Calls) /\ WithArg(calls, a) # << >>
<1>. DEFINE last == calls[Len(calls)]
            more == [last EXCEPT !.args = Append(@, a)]
<1>1. /\ Len(calls) \in Nat \ {0} /\ last \in Calls
      /\ Len(calls) \in 1 .. Len(calls)
  BY InnermostCall
<1>2. Append(last.args, a) \in Seq(Args)
  BY <1>1 DEF Calls
<1>3. more \in Calls
  BY <1>1, <1>2 DEF Calls
<1>4. /\ [calls EXCEPT ![Len(calls)] = more] \in Seq(Calls)
      /\ Len([calls EXCEPT ![Len(calls)] = more]) = Len(calls)
  <2>. HIDE DEF more
  <2>. QED  BY <1>1, <1>3, ExceptSeq
<1>5. WithArg(calls, a) = [calls EXCEPT ![Len(calls)] = more]
  BY DEF WithArg
<1>. QED  BY <1>1, <1>4, <1>5, EmptySeq

LEMMA UnsettledType ==
  ASSUME NEW calls \in Seq(Calls)
  PROVE  Unsettled(calls) \in Seq(Calls) /\ (calls # << >> => Unsettled(calls) # << >>)
<1>1. /\ DOMAIN calls = 1 .. Len(calls) /\ Len(calls) \in Nat
      /\ \A d \in DOMAIN calls : calls[d] \in Calls
  BY LenProperties, ElementOfSeq
<1>. DEFINE Old(d) == [i \in DOMAIN calls[d].args |->
                         [calls[d].args[i] EXCEPT !.settled = FALSE]]
<1>2. ASSUME NEW d \in DOMAIN calls
      PROVE  [calls[d] EXCEPT !.args = Old(d)] \in Calls
  <2>1. calls[d].args \in Seq(Args)
    BY <1>1 DEF Calls
  <2>2. /\ Len(calls[d].args) \in Nat /\ DOMAIN calls[d].args = 1 .. Len(calls[d].args)
        /\ \A i \in DOMAIN calls[d].args : calls[d].args[i] \in Args
    BY <2>1, LenProperties, ElementOfSeq
  <2>3. \A i \in DOMAIN calls[d].args :
           [calls[d].args[i] EXCEPT !.settled = FALSE] \in Args
    BY <2>2 DEF Args
  <2>4. Old(d) \in [1 .. Len(calls[d].args) -> Args]
    BY <2>2, <2>3
  <2>5. Old(d) \in Seq(Args)
    <3>. HIDE DEF Old
    <3>. QED  BY <2>2, <2>4, SeqOfFunction
  <2>. QED  BY <1>1, <2>5 DEF Calls
<1>3. Unsettled(calls) = [d \in DOMAIN calls |-> [calls[d] EXCEPT !.args = Old(d)]]
  BY DEF Unsettled
<1>4. Unsettled(calls) \in [1 .. Len(calls) -> Calls]
  <2>. HIDE DEF Old
  <2>. QED  BY <1>1, <1>2, <1>3
<1>5. Unsettled(calls) \in Seq(Calls) /\ Len(Unsettled(calls)) = Len(calls)
  BY <1>1, <1>4, SeqOfFunction
<1>. QED  BY <1>1, <1>5, EmptySeq

-----------------------------------------------------------------------------
\* Places and instructions are what their constructors say.
LEMMA PlaceTypes ==
  ASSUME NEW n \in Nat, NEW kind \in {"int", "float"}
  PROVE  Slot(n) \in Places /\ ArgReg(kind, n) \in Places /\ Value(n) \in Places
<1>. QED  BY DEF Slot, ArgReg, Value, Places

LEMMA EqualType ==
  ASSUME NEW v \in Places
  PROVE  Equal(v) \in Places /\ NotEqual(v) \in Args
<1>1. Equal(v) \in Places
  BY DEF Equal, Places
<1>. QED  BY <1>1 DEF NotEqual, Arg, Args

\* The instructions that store no parameter at or above byte m, calls with
\* all their arguments among them.
Fitting(m) ==
  {ins \in Instrs : /\ ins.op = "save" => ins.dest \in Places /\ ins.dest.at + 8 <= m
                    /\ ins.op = "call" => Len(ins.args) = Len(ins.sig)}

LEMMA InsTypes ==
  ASSUME NEW v \in Places, NEW h \in Places, NEW m \in Nat
  PROVE  /\ Def(v) \in Fitting(m) /\ Feq(v) \in Fitting(m) /\ Move(h, v) \in Fitting(m)
         /\ \A n \in Nat : n + 8 <= m => Save(n, v) \in Fitting(m)
<1>1. << >> \in Signatures \union {<< >>} /\ << >> \in Seq(Args)
  BY EmptySeq
<1>2. Def(v) \in Fitting(m) /\ Feq(v) \in Fitting(m)
  BY <1>1, EqualType DEF Def, Feq, Ins, Instrs, Fitting
<1>3. Move(h, v) \in Fitting(m)
  BY <1>1 DEF Move, Ins, Instrs, Fitting
<1>4. ASSUME NEW n \in Nat, n + 8 <= m
      PROVE  Save(n, v) \in Fitting(m)
  <2>1. Slot(n) \in Places /\ Slot(n).at = n
    BY PlaceTypes DEF Slot
  <2>. QED  BY <1>1, <1>4, <2>1 DEF Save, Ins, Instrs, Fitting
<1>. QED  BY <1>2, <1>3, <1>4

LEMMA FittingGrows ==
  ASSUME NEW m \in Nat, NEW n \in Nat, m <= n
  PROVE  Seq(Fitting(m)) \subseteq Seq(Fitting(n)) /\ Seq(Fitting(m)) \subseteq Seq(Instrs)
<1>1. Fitting(m) \subseteq Instrs
  BY DEF Fitting
<1>2. Fitting(m) \subseteq Fitting(n)
  <2>1. \A ins \in Instrs : ins.dest \in Places => ins.dest.at \in Nat
    BY DEF Places
  <2>. QED  BY <2>1 DEF Fitting
<1>. QED  BY <1>1, <1>2, SeqMonotonic

\* Wherever the store goes, the list stays one of such instructions.
LEMMA SaveAfterDefType ==
  ASSUME NEW S, NEW c \in Seq(S), NEW v, NEW off, Save(off, v) \in S,
         start \in 1 .. Len(c) + 1
  PROVE  /\ SaveAfterDef(c, v, off) \in Seq(S)
         /\ start \in 1 .. Len(SaveAfterDef(c, v, off)) + 1
<1>. DEFINE k == CHOOSE k \in start .. Len(c) : FirstDef(c, v, k)
            Found == \E j \in start .. Len(c) : FirstDef(c, v, j)
            t == SubSeq(c, 1, k) \o <<Save(off, v)>> \o SubSeq(c, k + 1, Len(c))
<1>1. Len(c) \in Nat
  BY LenProperties
<1>2. SaveAfterDef(c, v, off) = IF Found THEN t ELSE c
  BY DEF SaveAfterDef
<1>3. CASE Found
  <2>1. k \in start .. Len(c)
    BY <1>3
  <2>2. k \in 1 .. Len(c)
    <3>. HIDE DEF k
    <3>. QED  BY <1>1, <2>1
  <2>3. t \in Seq(S) /\ Len(t) = Len(c) + 1
    <3>. HIDE DEF k
    <3>. QED  BY <2>2, InsertFact
  <2>4. SaveAfterDef(c, v, off) = t
    BY <1>2, <1>3
  <2>. HIDE DEF t
  <2>. QED  BY <1>1, <2>3, <2>4
<1>4. CASE ~Found
  BY <1>1, <1>2, <1>4
<1>. QED  BY <1>3, <1>4

-----------------------------------------------------------------------------
LEMMA InitType == Init => TypeOK
<1>. SUFFICES ASSUME Init PROVE TypeOK
  OBVIOUS
<1>1. PICK s \in Signatures : open = <<[sig |-> s, args |-> << >>]>>
  BY DEF Init
<1>2. << >> \in Seq(Args) /\ << >> \in Seq(Instrs) /\ << >> \in Seq(Places)
  BY EmptySeq
<1>3. [sig |-> s, args |-> << >>] \in Calls
  BY <1>2 DEF Calls
<1>4. open \in Seq(Calls) /\ open # << >>
  BY <1>1, <1>3
<1>5. regs \in [DOMAIN regs -> Places \union {Junk}] /\ out \in [DOMAIN out -> Places \union {Junk}]
  BY DEF Init
<1>6. code \in Seq(Instrs) /\ start \in 1 .. Len(code) + 1
  BY <1>2, EmptySeq DEF Init
<1>. QED  BY <1>2, <1>4, <1>5, <1>6, ArgRegsOK DEF Init, TypeOK, Calls

\* The part of the type invariant a step of the compiler changes.
LEMMA OperandType == TypeOK /\ Operand => TypeOK'
<1>. SUFFICES ASSUME TypeOK, Operand PROVE TypeOK'
  OBVIOUS
<1>. DEFINE kept == Arg(NewValue, FALSE, TRUE)
            lit == Arg(NewValue, TRUE, TRUE)
            lost == Arg(NewValue, FALSE, FALSE)
            both == NotEqual(NewValue)
<1>1. /\ open \in Seq(Calls) /\ open # << >> /\ phase = "eval"
      /\ code \in Seq(Instrs) /\ Len(code) \in Nat /\ start \in 1 .. Len(code) + 1
  BY LenProperties DEF TypeOK, Operand, Calls
<1>2. values + 1 \in Nat /\ NewValue \in Places
  BY PlaceTypes DEF TypeOK, NewValue
<1>3. kept \in Args /\ lit \in Args /\ lost \in Args /\ both \in Args
  BY <1>2, EqualType DEF Arg, Args
<1>4. Def(NewValue) \in Instrs /\ Feq(NewValue) \in Instrs
  BY <1>2, InsTypes DEF Fitting
<1>5. Append(code, Def(NewValue)) \in Seq(Instrs) /\ Len(Append(code, Def(NewValue))) = Len(code) + 1
  BY <1>1, <1>4, AppendFact
<1>6. /\ code \o <<Feq(NewValue), Def(NewValue)>> \in Seq(Instrs)
      /\ Len(code \o <<Feq(NewValue), Def(NewValue)>>) = Len(code) + 2
  BY <1>1, <1>4, ConcatProperties
<1>7. /\ code' \in Seq(Instrs)
      /\ start' \in 1 .. Len(code') + 1
      /\ open' \in Seq(Calls) /\ open' # << >>
  <2>. HIDE DEF kept, lit, lost, both
  <2>1. CASE /\ code' = Append(code, Def(NewValue))
             /\ open' = WithArg(open, kept)
             /\ UNCHANGED start
    BY <1>1, <1>3, <1>5, <2>1, WithArgType
  <2>2. CASE open' = WithArg(open, lit) /\ UNCHANGED <<code, start>>
    BY <1>1, <1>3, <2>2, WithArgType
  <2>3. CASE /\ code' = Append(code, Def(NewValue))
             /\ open' = WithArg(Unsettled(open), kept)
             /\ start' = Len(code')
    BY <1>1, <1>3, <1>5, <2>3, WithArgType, UnsettledType
  <2>4. CASE /\ code' = Append(code, Def(NewValue))
             /\ open' = Unsettled(WithArg(open, lost))
             /\ start' = Len(code') + 1
    <3>1. WithArg(open, lost) \in Seq(Calls) /\ WithArg(open, lost) # << >>
      BY <1>1, <1>3, WithArgType
    <3>2. Unsettled(WithArg(open, lost)) \in Seq(Calls) /\ Unsettled(WithArg(open, lost)) # << >>
      BY <3>1, UnsettledType
    <3>. QED  BY <1>1, <1>5, <2>4, <3>2
  <2>5. CASE /\ code' = code \o <<Feq(NewValue), Def(NewValue)>>
             /\ open' = WithArg(open, both)
             /\ UNCHANGED start
    BY <1>1, <1>3, <1>6, <2>5, WithArgType
  <2>. QED  BY <2>1, <2>2, <2>3, <2>4, <2>5 DEF Operand, kept, lit, lost, both
<1>. QED  BY <1>1, <1>2, <1>7 DEF TypeOK, Operand, locals, machine, Calls

LEMMA NestedType == TypeOK /\ Nested => TypeOK'
<1>. SUFFICES ASSUME TypeOK, Nested PROVE TypeOK'
  OBVIOUS
<1>1. PICK s \in Signatures : open' = Append(open, [sig |-> s, args |-> << >>])
  BY DEF Nested
<1>2. [sig |-> s, args |-> << >>] \in Calls
  BY EmptySeq DEF Calls
<1>3. open \in Seq(Calls) /\ Len(open) \in Nat
  BY LenProperties DEF TypeOK, Calls
<1>4. open' \in Seq(Calls) /\ open' # << >>
  BY <1>1, <1>2, <1>3, AppendFact, EmptySeq
<1>. QED  BY <1>4 DEF TypeOK, Nested, locals, machine, Calls

LEMMA BeginPassType == TypeOK /\ BeginPass => TypeOK'
<1>. SUFFICES ASSUME TypeOK, BeginPass PROVE TypeOK'
  OBVIOUS
<1>1. open # << >> /\ open \in Seq(Calls)
  BY DEF TypeOK, BeginPass, Calls
<1>2. Call.sig \in Signatures /\ Len(Call.sig) \in Nat
  BY <1>1, InnermostCall, SignatureShape DEF Call, Depth, Calls
<1>3. Len(<< >>) = 0 /\ << >> \in Seq(Places)
  BY EmptySeq
<1>4. Call' = Call
  BY DEF BeginPass, Call, Depth
<1>. QED  BY <1>1, <1>2, <1>3, <1>4, ArgRegsOK DEF TypeOK, BeginPass, machine

\* The parameter the loop is at.
LEMMA Current ==
  ASSUME TypeOK, phase = "pass", Len(sent) < Len(Call.sig)
  PROVE  /\ Call.sig \in Signatures /\ Call.args \in Seq(Args)
         /\ Len(sent) \in Nat /\ Len(sent) + 1 \in 1 .. Len(Call.sig)
         /\ Call.sig[Len(sent) + 1] \in {"int", "float"}
         /\ Call.args[Len(sent) + 1] \in Args
<1>1. open # << >> /\ open \in Seq(Calls)
  BY DEF TypeOK, Calls
<1>2. Call.sig \in Signatures /\ Call.args \in Seq(Args)
  BY <1>1, InnermostCall DEF Call, Depth, Calls
<1>3. Len(sent) \in Nat /\ Len(Call.sig) \in Nat /\ Len(Call.args) = Len(Call.sig)
  BY <1>2, SignatureShape, LenProperties DEF TypeOK
<1>4. Len(sent) + 1 \in 1 .. Len(Call.sig)
  BY <1>3
<1>. QED  BY <1>2, <1>3, <1>4, SignatureShape, ElementOfSeq

LEMMA PassParamType == TypeOK /\ PassParam => TypeOK'
<1>. SUFFICES ASSUME TypeOK, PassParam PROVE TypeOK'
  OBVIOUS
<1>. DEFINE i == Len(sent) + 1
            kind == Call.sig[i]
            v == Call.args[i].v
            loaded == IF Call.args[i].literal THEN Append(code, Def(v)) ELSE code
            order == IF kind = "int" THEN intOrder ELSE floatOrder
<1>1. /\ phase = "pass" /\ Len(sent) < Len(Call.sig) /\ Len(Call.args) = Len(Call.sig)
      /\ Len(sent) \in Nat /\ i \in 1 .. Len(Call.sig)
      /\ kind \in {"int", "float"} /\ Call.args[i] \in Args
      /\ Call.sig \in Signatures
  BY Current DEF PassParam, TypeOK
<1>2. v \in Places
  BY <1>1 DEF Args
<1>3. Def(v) \in Instrs /\ order \in 0 .. ArgRegs
  BY <1>2, InsTypes DEF Fitting, TypeOK
<1>4. /\ loaded \in Seq(Instrs) /\ Len(loaded) \in Nat
      /\ start \in 1 .. Len(loaded) + 1
  <2>1. code \in Seq(Instrs) /\ Len(code) \in Nat /\ start \in 1 .. Len(code) + 1
    BY LenProperties DEF TypeOK
  <2>2. Append(code, Def(v)) \in Seq(Instrs) /\ Len(Append(code, Def(v))) = Len(code) + 1
    BY <1>3, <2>1, AppendFact
  <2>. HIDE DEF v
  <2>. QED  BY <2>1, <2>2
<1>5. sent \in Seq(Places) /\ stackOffset \in Nat
  BY DEF TypeOK
<1>6. UNCHANGED <<phase, open, start, values, maxPass, pc, regs, out, Call>>
  BY DEF PassParam, machine, Call, Depth
<1>7. Len(Call.sig) \in Nat
  BY <1>1, SignatureShape
<1>8. CASE InRegister(order)
  <2>1. order < ArgRegs /\ order \in Nat
    BY <1>3, <1>8, ArgRegsOK DEF InRegister
  <2>2. ArgReg(kind, order) \in Places
    BY <1>1, <2>1, PlaceTypes
  <2>3. Move(ArgReg(kind, order), v) \in Instrs
    BY <1>2, <2>2, InsTypes DEF Fitting
  <2>4. /\ code' = Append(loaded, Move(ArgReg(kind, order), v))
        /\ sent' = Append(sent, ArgReg(kind, order))
        /\ intOrder' = (IF kind = "int" THEN intOrder + 1 ELSE intOrder)
        /\ floatOrder' = (IF kind = "float" THEN floatOrder + 1 ELSE floatOrder)
        /\ UNCHANGED stackOffset
    BY <1>8 DEF PassParam
  <2>. HIDE DEF loaded, v
  <2>5. code' \in Seq(Instrs) /\ start \in 1 .. Len(code') + 1
    BY <1>4, <2>3, <2>4, AppendFact
  <2>6. sent' \in Seq(Places) /\ Len(sent') = Len(sent) + 1
    BY <1>5, <2>2, <2>4, AppendFact
  <2>7. intOrder' \in 0 .. ArgRegs /\ floatOrder' \in 0 .. ArgRegs
    <3>1. intOrder \in 0 .. ArgRegs /\ floatOrder \in 0 .. ArgRegs
      BY DEF TypeOK
    <3>2. CASE kind = "int"
      BY <2>1, <2>4, <3>1, <3>2, ArgRegsOK
    <3>3. CASE kind = "float"
      BY <2>1, <2>4, <3>1, <3>3, ArgRegsOK
    <3>. QED  BY <1>1, <3>2, <3>3
  <2>8. Len(sent') <= Len(Call.sig)
    BY <1>1, <1>7, <2>6
  <2>. QED
    <3>. HIDE DEF order, kind, i
    <3>. QED  BY <1>1, <1>6, <2>4, <2>5, <2>6, <2>7, <2>8 DEF TypeOK
<1>9. CASE ~InRegister(order)
  <2>1. /\ code' = SaveAfterDef(loaded, v, stackOffset)
        /\ sent' = Append(sent, Slot(stackOffset))
        /\ stackOffset' = stackOffset + 8
        /\ UNCHANGED <<intOrder, floatOrder>>
    BY <1>9 DEF PassParam
  <2>2. Slot(stackOffset) \in Places
    BY <1>5, PlaceTypes
  <2>3. Save(stackOffset, v) \in Instrs
    <3>1. stackOffset + 8 \in Nat /\ stackOffset + 8 <= stackOffset + 8
      BY <1>5
    <3>. QED  BY <1>2, <1>5, <3>1, InsTypes DEF Fitting
  <2>. HIDE DEF loaded, v
  <2>4. code' \in Seq(Instrs) /\ start \in 1 .. Len(code') + 1
    BY <1>4, <2>1, <2>3, SaveAfterDefType
  <2>5. sent' \in Seq(Places) /\ Len(sent') = Len(sent) + 1
    BY <1>5, <2>1, <2>2, AppendFact
  <2>6. stackOffset' \in Nat
    BY <1>5, <2>1
  <2>7. Len(sent') <= Len(Call.sig)
    BY <1>1, <1>7, <2>5
  <2>. QED
    <3>. HIDE DEF order, kind, i
    <3>. QED  BY <1>1, <1>6, <2>1, <2>4, <2>5, <2>6, <2>7 DEF TypeOK
<1>. QED  BY <1>8, <1>9

LEMMA EndPassType == TypeOK /\ EndPass => TypeOK'
<1>. SUFFICES ASSUME TypeOK, EndPass PROVE TypeOK'
  OBVIOUS
<1>. DEFINE call == [Ins("call", Junk, Junk) EXCEPT !.sig = Call.sig, !.args = Call.args]
            res == Arg(NewValue, FALSE, TRUE)
            outer == SubSeq(open, 1, Depth - 1)
            rest == IF stackOffset > 0 THEN Unsettled(outer) ELSE outer
<1>1. /\ open \in Seq(Calls) /\ open # << >>
      /\ Depth \in Nat \ {0} /\ DOMAIN open = 1 .. Depth /\ Call \in Calls
      /\ Depth = Len(open)
  BY InnermostCall DEF TypeOK, EndPass, Calls, Call, Depth
<1>2. values + 1 \in Nat /\ NewValue \in Places
  BY PlaceTypes DEF TypeOK, NewValue
<1>3. call \in Instrs /\ Def(NewValue) \in Instrs /\ res \in Args
  <2>1. call \in Instrs
    BY <1>1 DEF Ins, Instrs, Calls
  <2>. QED  BY <1>2, <2>1, InsTypes DEF Fitting, Arg, Args
<1>4. code' \in Seq(Instrs) /\ start \in 1 .. Len(code') + 1
  <2>1. code' = code \o <<call, Def(NewValue)>>
    BY DEF EndPass
  <2>. HIDE DEF call
  <2>2. <<call, Def(NewValue)>> \in Seq(Instrs) /\ Len(<<call, Def(NewValue)>>) = 2
    BY <1>3
  <2>3. code \in Seq(Instrs) /\ Len(code) \in Nat /\ start \in 1 .. Len(code) + 1
    BY LenProperties DEF TypeOK
  <2>4. code' \in Seq(Instrs) /\ Len(code') = Len(code) + 2
    BY <2>1, <2>2, <2>3, ConcatProperties
  <2>. QED  BY <2>3, <2>4
<1>5. maxPass' \in Nat
  BY DEF EndPass, TypeOK, LargerRoom
<1>6. CASE Depth = 1
  <2>1. phase' = "run" /\ open' = << >>
    BY <1>6 DEF EndPass
  <2>2. open' \in Seq(Calls)
    BY <2>1, EmptySeq
  <2>. QED  BY <1>2, <1>4, <1>5, <2>1, <2>2 DEF TypeOK, EndPass, locals, machine, Calls
<1>7. CASE Depth > 1
  <2>1. Depth # 1
    <3>1. Depth \in Nat
      BY <1>1
    <3>. QED  BY <1>7, <3>1
  <2>2. phase' = "eval" /\ open' = WithArg(rest, res)
    BY <2>1, Zenon DEF EndPass
  <2>3. outer \in Seq(Calls) /\ outer # << >>
    <3>1. \A d \in 1 .. Depth - 1 : open[d] \in Calls
      BY <1>1, ElementOfSeq
    <3>2. outer \in Seq(Calls) /\ Len(outer) = Depth - 1
      BY <1>1, <1>7, <3>1, SubSeqProperties
    <3>. HIDE DEF outer
    <3>3. Len(outer) # 0
      BY <1>1, <1>7, <3>2
    <3>. QED  BY <3>2, <3>3, EmptySeq
  <2>4. rest \in Seq(Calls) /\ rest # << >>
    <3>. HIDE DEF outer
    <3>. QED  BY <2>3, UnsettledType
  <2>5. open' \in Seq(Calls) /\ open' # << >>
    <3>. HIDE DEF rest, res
    <3>. QED  BY <1>3, <2>2, <2>4, WithArgType
  <2>. QED  BY <1>2, <1>4, <1>5, <2>2, <2>5 DEF TypeOK, EndPass, locals, machine, Calls
<1>. QED  BY <1>1, <1>6, <1>7

LEMMA RunType == TypeOK /\ Run => TypeOK'
<1>. SUFFICES ASSUME TypeOK, Run PROVE TypeOK'
  OBVIOUS
<1>. DEFINE ins == code[pc]
            Held == Places \union {Junk}
<1>1. ins \in Instrs
  <2>1. pc \in Nat \ {0} /\ pc <= Len(code) /\ code \in Seq(Instrs)
    BY DEF TypeOK, Run
  <2>2. pc \in 1 .. Len(code)
    BY <2>1, LenProperties
  <2>. QED  BY <2>1, <2>2, ElementOfSeq
<1>2. regs \in [DOMAIN regs -> Held] /\ out \in [DOMAIN out -> Held]
  BY DEF TypeOK
<1>3. regs' \in [DOMAIN regs' -> Held] /\ out' \in [DOMAIN out' -> Held]
  <2>1. \A x : Get(regs, x) \in Held
    BY <1>2 DEF Get
  <2>2. ASSUME NEW f, NEW x, NEW y \in Held, f \in [DOMAIN f -> Held]
        PROVE  Put(f, x, y) \in [DOMAIN Put(f, x, y) -> Held]
    BY <2>2 DEF Put
  <2>3. ins.src \in Held
    BY <1>1 DEF Instrs
  <2>4. CASE regs' = Put(regs, ins.dest, ins.src) /\ UNCHANGED out
    BY <1>2, <2>2, <2>3, <2>4
  <2>5. CASE regs' = Put(regs, ins.dest, Get(regs, ins.src)) /\ UNCHANGED out
    BY <1>2, <2>1, <2>2, <2>5
  <2>6. CASE out' = Put(out, ins.dest, Get(regs, ins.src)) /\ UNCHANGED regs
    BY <1>2, <2>1, <2>2, <2>6
  <2>7. CASE AfterCall(ins.sig)
    BY <1>2, <2>7 DEF AfterCall
  <2>. QED  BY <2>4, <2>5, <2>6, <2>7 DEF Run
<1>4. pc' \in Nat \ {0}
  BY DEF Run, TypeOK
<1>. QED  BY <1>3, <1>4 DEF Run, TypeOK, locals, Call, Depth

LEMMA NextType == TypeOK /\ [Next]_vars => TypeOK'
<1>1. TypeOK /\ UNCHANGED vars => TypeOK'
  BY DEF TypeOK, vars, Call, Depth
<1>. QED  BY <1>1, OperandType, NestedType, BeginPassType, PassParamType,
             EndPassType, RunType DEF Next

\* Every variable of CallConv keeps to its type: emitFunctionCallInst never
\* numbers a register past the last argument register.
THEOREM TypeCorrect == Spec => []TypeOK
<1>. QED  BY InitType, NextType, PTL DEF Spec

-----------------------------------------------------------------------------
\* Registers of a kind that the first n parameters have used up.
UsedUpTo(sig, kind, n) == CountUpTo(sig, kind, n) - OverUpTo(sig, kind, n)

\* One parameter further: a register of its kind while there are some left,
\* the next stack slot afterwards.
LEMMA HomeStep ==
  ASSUME NEW sig, NEW n \in Nat, NEW kind \in {"int", "float"},
         NEW other \in {"int", "float"}, other # kind, sig[n + 1] = kind
  PROVE  LET used == UsedUpTo(sig, kind, n)
             over == OverUpTo(sig, kind, n)
             rest == OverUpTo(sig, other, n)
         IN  /\ used \in 0 .. ArgRegs /\ over \in Nat /\ rest \in Nat
             /\ OverUpTo(sig, other, n + 1) = rest
             /\ UsedUpTo(sig, other, n + 1) = UsedUpTo(sig, other, n)
             /\ used < ArgRegs => /\ Home(sig, n + 1) = ArgReg(kind, used)
                                  /\ OverUpTo(sig, kind, n + 1) = over
                                  /\ UsedUpTo(sig, kind, n + 1) = used + 1
             /\ used >= ArgRegs => /\ Home(sig, n + 1) = Slot(8 * (over + rest))
                                   /\ OverUpTo(sig, kind, n + 1) = over + 1
                                   /\ UsedUpTo(sig, kind, n + 1) = used
<1>. DEFINE c == CountUpTo(sig, kind, n)
            d == CountUpTo(sig, other, n)
            c1 == CountUpTo(sig, kind, n + 1)
            d1 == CountUpTo(sig, other, n + 1)
            over == OverUpTo(sig, kind, n)
            rest == OverUpTo(sig, other, n)
            over1 == OverUpTo(sig, kind, n + 1)
            rest1 == OverUpTo(sig, other, n + 1)
<1>1. c \in Nat /\ d \in Nat /\ c1 = c + 1 /\ d1 = d
  BY CountStep
<1>2. /\ over = (IF c > ArgRegs THEN c - ArgRegs ELSE 0)
      /\ rest = (IF d > ArgRegs THEN d - ArgRegs ELSE 0)
      /\ over1 = (IF c1 > ArgRegs THEN c1 - ArgRegs ELSE 0)
      /\ rest1 = (IF d1 > ArgRegs THEN d1 - ArgRegs ELSE 0)
  BY DEF OverUpTo
<1>3. /\ UsedUpTo(sig, kind, n) = c - over /\ UsedUpTo(sig, kind, n + 1) = c1 - over1
      /\ UsedUpTo(sig, other, n) = d - rest /\ UsedUpTo(sig, other, n + 1) = d1 - rest1
  BY DEF UsedUpTo
<1>4. Home(sig, n + 1) = IF c1 <= ArgRegs THEN ArgReg(kind, c1 - 1)
                         ELSE Slot((over1 + rest1 - 1) * 8)
  <2>. DEFINE both == OverUpTo(sig, "int", n + 1) + OverUpTo(sig, "float", n + 1)
  <2>1. both = over1 + rest1 /\ over1 \in Nat /\ rest1 \in Nat
    <3>1. over1 \in Nat /\ rest1 \in Nat
      BY <1>1, <1>2, ArgRegsOK
    <3>2. \/ kind = "int" /\ other = "float"
          \/ kind = "float" /\ other = "int"
      OBVIOUS
    <3>. QED  BY <3>1, <3>2
  <2>2. Home(sig, n + 1) = IF CountUpTo(sig, sig[n + 1], n + 1) <= ArgRegs
                           THEN ArgReg(sig[n + 1], CountUpTo(sig, sig[n + 1], n + 1) - 1)
                           ELSE Slot((both - 1) * 8)
    BY Zenon DEF Home
  <2>3. Home(sig, n + 1) = IF c1 <= ArgRegs THEN ArgReg(kind, c1 - 1)
                           ELSE Slot((both - 1) * 8)
    <3>. HIDE DEF both
    <3>. QED  BY <2>2, Zenon
  <2>4. Slot((both - 1) * 8) = Slot((over1 + rest1 - 1) * 8)
    <3>. HIDE DEF both, over1, rest1
    <3>. QED  BY <2>1
  <2>. QED
    <3>. HIDE DEF both, c1, over1, rest1
    <3>. QED  BY <2>3, <2>4, Zenon
<1>. HIDE DEF c, d, c1, d1, over, rest, over1, rest1
<1>5. CASE c < ArgRegs
  BY <1>1, <1>2, <1>3, <1>4, <1>5, ArgRegsOK DEF c, d, c1, d1, over, rest, over1, rest1
<1>6. CASE c >= ArgRegs
  <2>1. over = c - ArgRegs /\ over1 = over + 1 /\ rest \in Nat /\ rest1 = rest /\ over \in Nat
    BY <1>1, <1>2, <1>6, ArgRegsOK
  <2>2. c - over = ArgRegs /\ c1 - over1 = ArgRegs /\ ~(c1 <= ArgRegs)
    BY <1>1, <1>6, <2>1, ArgRegsOK
  <2>3. (over1 + rest1 - 1) * 8 = 8 * (over + rest)
    BY <2>1
  <2>4. Home(sig, n + 1) = Slot(8 * (over + rest))
    BY <1>4, <2>2, <2>3
  <2>. QED  BY <1>1, <1>3, <2>1, <2>2, <2>4, ArgRegsOK
            DEF c, d, c1, d1, over, rest, over1, rest1
<1>. QED  BY <1>1, <1>5, <1>6, ArgRegsOK

\* The loop's counters are functions of the parameters it has passed.
Counted ==
  phase = "pass" =>
    LET sig == Call.sig  n == Len(sent) IN
    /\ intOrder = UsedUpTo(sig, "int", n)
    /\ floatOrder = UsedUpTo(sig, "float", n)
    /\ stackOffset = 8 * (OverUpTo(sig, "int", n) + OverUpTo(sig, "float", n))
    /\ \A i \in 1 .. n : sent[i] = Home(sig, i)

LEMMA BeginPassCounted == TypeOK /\ BeginPass => Counted'
<1>. SUFFICES ASSUME TypeOK, BeginPass PROVE Counted'
  OBVIOUS
<1>1. Call' = Call /\ sent' = << >> /\ Len(sent') = 0
  BY EmptySeq DEF BeginPass, Call, Depth
<1>2. \A kind : CountUpTo(Call.sig, kind, 0) = 0
  BY CountStep
<1>3. \A kind : OverUpTo(Call.sig, kind, 0) = 0 /\ UsedUpTo(Call.sig, kind, 0) = 0
  BY <1>2, ArgRegsOK DEF OverUpTo, UsedUpTo
<1>. QED  BY <1>1, <1>3 DEF BeginPass, Counted

LEMMA PassParamCounted == TypeOK /\ Counted /\ PassParam => Counted'
<1>. SUFFICES ASSUME TypeOK, Counted, PassParam PROVE Counted'
  OBVIOUS
<1>. DEFINE sig == Call.sig
            n == Len(sent)
            kind == sig[n + 1]
            other == IF kind = "int" THEN "float" ELSE "int"
            used == UsedUpTo(sig, kind, n)
            over == OverUpTo(sig, kind, n)
            rest == OverUpTo(sig, other, n)
            order == IF kind = "int" THEN intOrder ELSE floatOrder
<1>1. /\ phase = "pass" /\ n \in Nat /\ kind \in {"int", "float"} /\ sent \in Seq(Places)
      /\ Call' = Call
  BY Current DEF PassParam, TypeOK, Call, Depth
<1>2. other \in {"int", "float"} /\ other # kind
  BY <1>1
<1>3. /\ intOrder = UsedUpTo(sig, "int", n) /\ floatOrder = UsedUpTo(sig, "float", n)
      /\ stackOffset = 8 * (OverUpTo(sig, "int", n) + OverUpTo(sig, "float", n))
      /\ \A i \in 1 .. n : sent[i] = Home(sig, i)
  BY <1>1 DEF Counted
<1>4. /\ used \in 0 .. ArgRegs /\ over \in Nat /\ rest \in Nat
      /\ OverUpTo(sig, other, n + 1) = rest
      /\ UsedUpTo(sig, other, n + 1) = UsedUpTo(sig, other, n)
      /\ used < ArgRegs => /\ Home(sig, n + 1) = ArgReg(kind, used)
                           /\ OverUpTo(sig, kind, n + 1) = over
                           /\ UsedUpTo(sig, kind, n + 1) = used + 1
      /\ used >= ArgRegs => /\ Home(sig, n + 1) = Slot(8 * (over + rest))
                            /\ OverUpTo(sig, kind, n + 1) = over + 1
                            /\ UsedUpTo(sig, kind, n + 1) = used
  <2>. HIDE DEF sig, other
  <2>. QED  BY <1>1, <1>2, HomeStep
<1>5. order = used /\ stackOffset = 8 * (over + rest)
  <2>1. CASE kind = "int"
    BY <1>3, <2>1
  <2>2. CASE kind = "float"
    <3>1. other = "int" /\ order = floatOrder
      BY <2>2
    <3>2. over + rest = rest + over
      BY <1>4
    <3>. QED  BY <1>3, <2>2, <3>1, <3>2
  <2>. QED  BY <1>1, <2>1, <2>2
<1>6. ASSUME NEW home \in Places, sent' = Append(sent, home), home = Home(sig, n + 1)
      PROVE  Len(sent') = n + 1 /\ \A i \in 1 .. n + 1 : sent'[i] = Home(sig, i)
  <2>1. /\ Len(sent') = n + 1 /\ sent'[n + 1] = home
        /\ \A i \in 1 .. n : sent'[i] = sent[i]
    BY <1>1, <1>6, AppendFact
  <2>. QED  BY <1>1, <1>3, <1>6, <2>1
<1>7. CASE InRegister(order)
  <2>1. used < ArgRegs
    BY <1>5, <1>7 DEF InRegister
  <2>2. /\ sent' = Append(sent, ArgReg(kind, order))
        /\ intOrder' = (IF kind = "int" THEN intOrder + 1 ELSE intOrder)
        /\ floatOrder' = (IF kind = "float" THEN floatOrder + 1 ELSE floatOrder)
        /\ stackOffset' = stackOffset
    BY <1>7 DEF PassParam
  <2>3. ArgReg(kind, order) \in Places /\ ArgReg(kind, order) = Home(sig, n + 1)
    BY <1>1, <1>4, <1>5, <2>1, PlaceTypes
  <2>4. Len(sent') = n + 1 /\ \A i \in 1 .. n + 1 : sent'[i] = Home(sig, i)
    BY <1>6, <2>2, <2>3
  <2>5. /\ intOrder' = UsedUpTo(sig, "int", n + 1)
        /\ floatOrder' = UsedUpTo(sig, "float", n + 1)
        /\ stackOffset' = 8 * (OverUpTo(sig, "int", n + 1) + OverUpTo(sig, "float", n + 1))
    <3>1. CASE kind = "int"
      BY <1>3, <1>4, <2>1, <2>2, <3>1
    <3>2. CASE kind = "float"
      BY <1>3, <1>4, <2>1, <2>2, <3>2
    <3>. QED  BY <1>1, <3>1, <3>2
  <2>. QED  BY <1>1, <2>4, <2>5 DEF Counted
<1>8. CASE ~InRegister(order)
  <2>1. used >= ArgRegs
    BY <1>4, <1>5, <1>8, ArgRegsOK DEF InRegister
  <2>2. /\ sent' = Append(sent, Slot(stackOffset))
        /\ intOrder' = intOrder /\ floatOrder' = floatOrder
        /\ stackOffset' = stackOffset + 8
    BY <1>8 DEF PassParam
  <2>3. Slot(stackOffset) \in Places /\ Slot(stackOffset) = Home(sig, n + 1)
    BY <1>4, <1>5, <2>1, PlaceTypes DEF TypeOK
  <2>4. Len(sent') = n + 1 /\ \A i \in 1 .. n + 1 : sent'[i] = Home(sig, i)
    BY <1>6, <2>2, <2>3
  <2>5. /\ intOrder' = UsedUpTo(sig, "int", n + 1)
        /\ floatOrder' = UsedUpTo(sig, "float", n + 1)
        /\ stackOffset' = 8 * (OverUpTo(sig, "int", n + 1) + OverUpTo(sig, "float", n + 1))
    <3>1. CASE kind = "int"
      BY <1>3, <1>4, <2>1, <2>2, <3>1
    <3>2. CASE kind = "float"
      BY <1>3, <1>4, <2>1, <2>2, <3>2
    <3>. QED  BY <1>1, <3>1, <3>2
  <2>. QED  BY <1>1, <2>4, <2>5 DEF Counted
<1>. QED  BY <1>7, <1>8

LEMMA NextCounted == TypeOK /\ Counted /\ [Next]_vars => Counted'
<1>. SUFFICES ASSUME TypeOK, Counted, [Next]_vars PROVE Counted'
  OBVIOUS
<1>1. CASE Operand \/ Nested \/ EndPass \/ Run
  BY <1>1 DEF Operand, Nested, EndPass, Run, Counted
<1>2. CASE UNCHANGED vars
  BY <1>2 DEF vars, Counted, Call, Depth
<1>. QED  BY <1>1, <1>2, BeginPassCounted, PassParamCounted DEF Next

\* The caller puts every parameter where the callee looks for it, whatever the
\* parameter list and the number of argument registers.
THEOREM CallerMeetsCallee == Spec => []HomesAgree
<1>1. Init => Counted
  BY DEF Init, Counted
<1>2. TypeOK /\ Counted => HomesAgree
  <2>. SUFFICES ASSUME TypeOK, Counted, phase = "pass"
                PROVE  \A i \in DOMAIN sent : sent[i] = Home(Call.sig, i)
    BY DEF HomesAgree
  <2>1. DOMAIN sent = 1 .. Len(sent)
    BY LenProperties DEF TypeOK
  <2>. QED  BY <2>1 DEF Counted
<1>. QED  BY <1>1, <1>2, InitType, NextType, NextCounted, PTL DEF Spec

-----------------------------------------------------------------------------
\* Every store emitted so far is within the bytes the frame will reserve.
Room == code \in Seq(Fitting(LargerRoom(maxPass, IF phase = "pass" THEN stackOffset ELSE 0)))

LEMMA RoomOf ==
  ASSUME TypeOK
  PROVE  /\ maxPass \in Nat /\ stackOffset \in Nat
         /\ LargerRoom(maxPass, 0) = maxPass
         /\ LargerRoom(maxPass, stackOffset) \in Nat
         /\ LargerRoom(maxPass, stackOffset) >= maxPass
         /\ LargerRoom(maxPass, stackOffset) >= stackOffset
<1>. QED  BY DEF TypeOK, LargerRoom

LEMMA NewValueType == TypeOK => NewValue \in Places
<1>. SUFFICES ASSUME TypeOK PROVE NewValue \in Places
  OBVIOUS
<1>1. values + 1 \in Nat
  BY DEF TypeOK
<1>. QED  BY <1>1, PlaceTypes DEF NewValue

LEMMA PassParamRoom == TypeOK /\ Room /\ PassParam => Room'
<1>. SUFFICES ASSUME TypeOK, Room, PassParam PROVE Room'
  OBVIOUS
<1>. DEFINE i == Len(sent) + 1
            kind == Call.sig[i]
            v == Call.args[i].v
            loaded == IF Call.args[i].literal THEN Append(code, Def(v)) ELSE code
            order == IF kind = "int" THEN intOrder ELSE floatOrder
            room == LargerRoom(maxPass, stackOffset)
            room1 == LargerRoom(maxPass, stackOffset')
<1>1. /\ phase = "pass" /\ phase' = "pass" /\ maxPass' = maxPass
      /\ kind \in {"int", "float"} /\ Call.args[i] \in Args
      /\ maxPass \in Nat /\ stackOffset \in Nat /\ room \in Nat
  BY Current, RoomOf DEF PassParam
<1>2. v \in Places /\ order \in Nat
  BY <1>1, ArgRegsOK DEF Args, TypeOK
<1>3. Def(v) \in Fitting(room) /\ code \in Seq(Fitting(room))
  BY <1>1, <1>2, InsTypes DEF Room
<1>4. /\ loaded \in Seq(Fitting(room))
      /\ start \in 1 .. Len(loaded) + 1
  <2>. HIDE DEF room, v
  <2>1. Len(code) \in Nat /\ start \in 1 .. Len(code) + 1
    BY LenProperties DEF TypeOK
  <2>. QED  BY <1>3, <2>1, AppendFact
<1>5. Room' <=> code' \in Seq(Fitting(room1))
  BY <1>1 DEF Room
<1>6. CASE InRegister(order)
  <2>1. code' = Append(loaded, Move(ArgReg(kind, order), v)) /\ stackOffset' = stackOffset
    BY <1>6 DEF PassParam
  <2>2. Move(ArgReg(kind, order), v) \in Fitting(room)
    BY <1>1, <1>2, PlaceTypes, InsTypes
  <2>3. room1 = room
    BY <2>1
  <2>. HIDE DEF loaded, room, room1
  <2>. QED  BY <1>4, <1>5, <2>1, <2>2, <2>3, AppendFact
<1>7. CASE ~InRegister(order)
  <2>1. code' = SaveAfterDef(loaded, v, stackOffset) /\ stackOffset' = stackOffset + 8
    BY <1>7 DEF PassParam
  <2>2. room1 \in Nat /\ room <= room1 /\ stackOffset + 8 <= room1
    BY <1>1, <2>1 DEF LargerRoom
  <2>3. Save(stackOffset, v) \in Fitting(room1)
    <3>. HIDE DEF room1, v
    <3>. QED  BY <1>1, <1>2, <2>2, InsTypes
  <2>. HIDE DEF loaded, room, room1
  <2>4. loaded \in Seq(Fitting(room1))
    BY <1>1, <1>4, <2>2, FittingGrows
  <2>5. SaveAfterDef(loaded, v, stackOffset) \in Seq(Fitting(room1))
    BY <1>4, <2>3, <2>4, SaveAfterDefType
  <2>. QED  BY <1>5, <2>1, <2>5
<1>. QED  BY <1>6, <1>7

LEMMA EndPassRoom == TypeOK /\ Room /\ EndPass => Room'
<1>. SUFFICES ASSUME TypeOK, Room, EndPass PROVE Room'
  OBVIOUS
<1>. DEFINE call == [Ins("call", Junk, Junk) EXCEPT !.sig = Call.sig, !.args = Call.args]
            room == LargerRoom(maxPass, stackOffset)
<1>1. /\ phase = "pass" /\ phase' # "pass" /\ maxPass' = room /\ room \in Nat
      /\ code' = code \o <<call, Def(NewValue)>> /\ code \in Seq(Fitting(room))
  BY RoomOf DEF EndPass, Room
<1>2. Call \in Calls /\ Len(Call.args) = Len(Call.sig)
  BY InnermostCall DEF TypeOK, EndPass, Calls, Call, Depth
<1>3. NewValue \in Places
  BY NewValueType
<1>4. call \in Fitting(room)
  BY <1>2 DEF Ins, Instrs, Calls, Fitting
<1>5. Def(NewValue) \in Fitting(room)
  BY <1>1, <1>3, InsTypes
<1>6. code' \in Seq(Fitting(room))
  <2>. HIDE DEF call, room
  <2>1. <<call, Def(NewValue)>> \in Seq(Fitting(room))
    BY <1>4, <1>5
  <2>. QED  BY <1>1, <2>1, ConcatProperties
<1>7. LargerRoom(maxPass', 0) = maxPass'
  BY <1>1 DEF LargerRoom
<1>. QED  BY <1>1, <1>6, <1>7 DEF Room

LEMMA NextRoom == TypeOK /\ Room /\ [Next]_vars => Room'
<1>. SUFFICES ASSUME TypeOK, Room, [Next]_vars PROVE Room'
  OBVIOUS
<1>1. CASE Operand
  <2>1. /\ phase = "eval" /\ phase' = "eval" /\ maxPass' = maxPass /\ maxPass \in Nat
        /\ NewValue \in Places
    BY <1>1, NewValueType DEF Operand, TypeOK
  <2>2. /\ code \in Seq(Fitting(maxPass))
        /\ Def(NewValue) \in Fitting(maxPass) /\ Feq(NewValue) \in Fitting(maxPass)
    BY <2>1, RoomOf, InsTypes DEF Room
  <2>3. <<Feq(NewValue), Def(NewValue)>> \in Seq(Fitting(maxPass))
    BY <2>2
  <2>4. code' \in Seq(Fitting(maxPass))
    <3>1. CASE code' \in {code, Append(code, Def(NewValue))}
      BY <2>2, <3>1, AppendFact
    <3>2. CASE code' = code \o <<Feq(NewValue), Def(NewValue)>>
      <4>. HIDE DEF Fitting
      <4>. QED  BY <2>2, <2>3, <3>2, ConcatProperties
    <3>. QED  BY <1>1, <3>1, <3>2 DEF Operand
  <2>. QED  BY <2>1, <2>4, RoomOf DEF Room
<1>2. CASE BeginPass
  BY <1>2, RoomOf DEF BeginPass, Room, LargerRoom
<1>3. CASE Nested \/ Run \/ UNCHANGED vars
  BY <1>3 DEF Nested, Run, vars, locals, Room
<1>. QED  BY <1>1, <1>2, <1>3, PassParamRoom, EndPassRoom DEF Next

LEMMA InitRoom == Init => Room
<1>. QED  BY EmptySeq DEF Init, Room, LargerRoom

\* _maxPassParamsStackOffset covers every parameter any call stores above sp,
\* so the outgoing area emitFunction subtracts from the frame is large enough.
THEOREM OutgoingAreaSuffices == Spec => []OutgoingFits
<1>1. TypeOK /\ Room => OutgoingFits
  <2>. SUFFICES ASSUME TypeOK, Room, phase # "pass", NEW k \in DOMAIN code, code[k].op = "save"
                PROVE  code[k].dest.at + 8 <= maxPass
    BY DEF OutgoingFits
  <2>1. code \in Seq(Fitting(maxPass))
    BY RoomOf DEF Room
  <2>2. code[k] \in Fitting(maxPass)
    BY <2>1, LenProperties, ElementOfSeq
  <2>. QED  BY <2>2 DEF Fitting
<1>. QED  BY <1>1, InitType, NextType, InitRoom, NextRoom, PTL DEF Spec

-----------------------------------------------------------------------------
Virtuals == {p \in Places : p.in = "virtual"}
Homes == {p \in Places : p.in # "virtual"}

\* The arguments of the open calls, by depth and index, and their values.
Given == UNION {{<<d, i>> : i \in DOMAIN open[d].args} : d \in DOMAIN open}
ArgAt(g) == open[g[1]].args[g[2]]
Before(g, h) == g[1] < h[1] \/ (g[1] = h[1] /\ g[2] < h[2])
OpenValues == {ArgAt(g).v : g \in Given}
OuterValues == {ArgAt(g).v : g \in {h \in Given : h[1] < Depth}}

\* Values are numbered in the order the visitor meets the arguments.
Numbered ==
  /\ \A g \in Given : ArgAt(g).v \in Virtuals /\ ArgAt(g).v.at <= values
  /\ \A g, h \in Given : Before(g, h) => ArgAt(g).v.at < ArgAt(h).v.at

WellMade(ins, n) ==
  \/ ins.op = "def" /\ ins.dest \in Virtuals /\ ins.dest.at <= n
  \/ ins.op = "move" /\ ins.dest \in Homes /\ ins.dest.in = "reg"
  \/ ins.op = "save" /\ ins.dest \in Homes /\ ins.dest.in = "stack"
  \/ ins.op = "call" /\ ins.dest = Junk

\* An argument the loop over the parameters has not come to after n of them.
Waiting(g, n) == phase = "pass" /\ g[1] = Depth => g[2] > n

\* What the definitions of v in c leave, the first and the last.
Leaves(c, v, first) ==
  \A j \in DOMAIN c : c[j].dest = v =>
    /\ (\A i \in DOMAIN c : c[i].dest = v => j <= i) => c[j].src = first
    /\ (\A i \in DOMAIN c : c[i].dest = v => i <= j) => c[j].src = v

\* An argument is defined in the code before the next call's are, a constant
\* once, when the loop comes to it.
Emitted(c, n) ==
  /\ \A j \in DOMAIN c : WellMade(c[j], values)
  /\ \A g \in Given :
       /\ Leaves(c, ArgAt(g).v, ArgAt(g).first)
       /\ ArgAt(g).literal => ArgAt(g).first = ArgAt(g).v
       /\ ~ArgAt(g).literal => \E j \in DOMAIN c : c[j].dest = ArgAt(g).v
       /\ ArgAt(g).literal /\ Waiting(g, n) => \A j \in DOMAIN c : c[j].dest # ArgAt(g).v
  /\ \A g, h \in Given : \A j, k \in DOMAIN c :
       g[1] < h[1] /\ c[j].dest = ArgAt(g).v /\ c[k].dest = ArgAt(h).v => j < k

\* What `settled' records: the definitions are in the block, and nothing after
\* the first touches the stack, but for the parameters the loop has just passed.
Quiet(ins, ph, off) ==
  /\ ins.op = "save" => ph = "pass" /\ ins.dest.at < off
  /\ ins.op = "call" => OnStack(ins.sig) = {}
Undisturbed(c, off) ==
  \A g \in Given : ArgAt(g).settled /\ ~ArgAt(g).literal =>
     \A j \in DOMAIN c : c[j].dest = ArgAt(g).v =>
       start <= j /\ \A k \in DOMAIN c : j < k => Quiet(c[k], phase, off)

Guaranteed(home, arg) == home.in # "stack" \/ arg.literal \/ arg.settled

\* What the callee finds at home: a store is put after the first definition,
\* a move after the last.
Arriving(home, arg) == IF home.in = "stack" THEN arg.first ELSE arg.v

Harmless(ins, home) ==
  /\ ins.dest # home
  /\ ins.op = "call" => home.in = "stack" /\ \A i \in OnStack(ins.sig) : home # Home(ins.sig, i)

\* Instruction d of c is the last before m that defines v.
LastBefore(c, d, m, v) ==
  /\ d \in 1 .. m - 1 /\ c[d].op = "def" /\ c[d].dest = v
  /\ \A j \in d + 1 .. m - 1 : c[j].dest # v

\* Instruction m of c gives what v holds there, w, to home, and it is there
\* when k is reached.
Window(c, m, k, home, v, w) ==
  /\ m \in 1 .. k - 1 /\ v \in Virtuals
  /\ c[m].op \in {"move", "save"} /\ c[m].dest = home /\ c[m].src = v
  /\ \E d \in 1 .. m - 1 : LastBefore(c, d, m, v) /\ c[d].src = w
  /\ \A j \in m + 1 .. k - 1 : Harmless(c[j], home)

\* So it is with the argument, and no store for one of the values V can come
\* between.
Kept(c, k, home, arg, V) ==
  \E m \in 1 .. k - 1 :
    Window(c, m, k, home, arg.v, Arriving(home, arg)) /\ \A j \in m .. k - 1 : c[j].dest \notin V

\* Every parameter passed so far has its place, and those the callee is sure
\* to get stay there.
Sent(c) ==
  phase = "pass" => \A i \in DOMAIN sent :
    /\ \/ sent[i].in = "stack" /\ sent[i].at < stackOffset
       \/ sent[i].in = "reg" /\ sent[i].at < (IF sent[i].kind = "int" THEN intOrder ELSE floatOrder)
    /\ Guaranteed(sent[i], Call.args[i])
         => Kept(c, Len(c) + 1, sent[i], Call.args[i], OuterValues)

\* So it is with every call emitted.
CallReady(c, k, V) ==
  \A i \in DOMAIN c[k].sig :
    Guaranteed(Home(c[k].sig, i), c[k].args[i])
      => Kept(c, k, Home(c[k].sig, i), c[k].args[i], V)
Ready(c, V) == \A k \in DOMAIN c : c[k].op = "call" => CallReady(c, k, V)

\* In the run a register holds what it was last given, and so does a home.
Ran ==
  IF phase = "run"
  THEN /\ \A j \in DOMAIN code :
            LastBefore(code, j, pc, code[j].dest) => Get(regs, code[j].dest) = code[j].src
       /\ \A m, k \in DOMAIN code : \A w :
            LET home == code[m].dest IN
            m < pc /\ pc <= k /\ Window(code, m, k, home, code[m].src, w) => Received(home) = w
  ELSE pc = 1

Delivery ==
  /\ Numbered
  /\ Emitted(code, Len(sent))
  /\ Undisturbed(code, stackOffset)
  /\ Sent(code)
  /\ Ready(code, OpenValues)
  /\ Ran

-----------------------------------------------------------------------------
\* A code t that has the definitions of v in the order of c leaves what c does.
LEMMA LeavesMoved ==
  ASSUME NEW c, NEW t, NEW v, NEW first, NEW at, Leaves(c, v, first),
         \A i \in DOMAIN c : at[i] \in DOMAIN t /\ t[at[i]] = c[i],
         \A k \in DOMAIN t : t[k].dest = v => \E i \in DOMAIN c : k = at[i],
         \A i, j \in DOMAIN c : i <= j <=> at[i] <= at[j]
  PROVE  Leaves(t, v, first)
<1>. SUFFICES ASSUME NEW k \in DOMAIN t, t[k].dest = v
              PROVE  /\ (\A l \in DOMAIN t : t[l].dest = v => k <= l) => t[k].src = first
                     /\ (\A l \in DOMAIN t : t[l].dest = v => l <= k) => t[k].src = v
  BY DEF Leaves
<1>1. PICK i \in DOMAIN c : k = at[i] /\ t[k] = c[i]
  OBVIOUS
<1>2. ASSUME \A l \in DOMAIN t : t[l].dest = v => k <= l PROVE t[k].src = first
  <2>1. \A j \in DOMAIN c : c[j].dest = v => i <= j
    BY <1>1, <1>2
  <2>. QED  BY <1>1, <2>1 DEF Leaves
<1>3. ASSUME \A l \in DOMAIN t : t[l].dest = v => l <= k PROVE t[k].src = v
  <2>1. \A j \in DOMAIN c : c[j].dest = v => j <= i
    BY <1>1, <1>3
  <2>. QED  BY <1>1, <2>1 DEF Leaves
<1>. QED  BY <1>2, <1>3

LEMMA LeavesConcat ==
  ASSUME NEW c \in Seq(Instrs), NEW t \in Seq(Instrs), NEW v, NEW first,
         \/ Leaves(c, v, first) /\ \A j \in DOMAIN t : t[j].dest # v
         \/ Leaves(t, v, first) /\ \A j \in DOMAIN c : c[j].dest # v
  PROVE  Leaves(c \o t, v, first)
<1>. DEFINE ct == c \o t
<1>1. /\ Len(c) \in Nat /\ Len(t) \in Nat
      /\ DOMAIN c = 1 .. Len(c) /\ DOMAIN t = 1 .. Len(t)
  BY LenProperties
<1>2. /\ DOMAIN ct = 1 .. Len(c) + Len(t)
      /\ \A j \in 1 .. Len(c) : ct[j] = c[j]
      /\ \A j \in 1 .. Len(t) : ct[Len(c) + j] = t[j]
  <2>1. /\ ct \in Seq(Instrs) /\ Len(ct) = Len(c) + Len(t)
        /\ \A j \in 1 .. Len(c) : ct[j] = c[j]
        /\ \A j \in 1 .. Len(t) : ct[Len(c) + j] = t[j]
    BY <1>1, ConcatIs
  <2>. QED  BY <2>1, LenProperties
<1>. HIDE DEF ct
<1>3. \A k \in DOMAIN ct : k \in 1 .. Len(c) \/ (k - Len(c) \in 1 .. Len(t) /\ k = Len(c) + (k - Len(c)))
  BY <1>1, <1>2
<1>4. CASE Leaves(c, v, first) /\ \A j \in DOMAIN t : t[j].dest # v
  <2>. DEFINE at == [i \in DOMAIN c |-> i]
  <2>1. \A i \in DOMAIN c : at[i] \in DOMAIN ct /\ ct[at[i]] = c[i]
    BY <1>1, <1>2
  <2>2. \A k \in DOMAIN ct : ct[k].dest = v => \E i \in DOMAIN c : k = at[i]
    BY <1>1, <1>2, <1>3, <1>4
  <2>3. \A i, j \in DOMAIN c : i <= j <=> at[i] <= at[j]
    OBVIOUS
  <2>. HIDE DEF at
  <2>. QED  BY <1>4, <2>1, <2>2, <2>3, LeavesMoved DEF ct
<1>5. CASE Leaves(t, v, first) /\ \A j \in DOMAIN c : c[j].dest # v
  <2>. DEFINE at == [i \in DOMAIN t |-> Len(c) + i]
  <2>1. \A i \in DOMAIN t : at[i] \in DOMAIN ct /\ ct[at[i]] = t[i]
    BY <1>1, <1>2
  <2>2. \A k \in DOMAIN ct : ct[k].dest = v => \E i \in DOMAIN t : k = at[i]
    BY <1>1, <1>2, <1>3, <1>5
  <2>3. \A i, j \in DOMAIN t : i <= j <=> at[i] <= at[j]
    BY <1>1
  <2>. HIDE DEF at
  <2>. QED  BY <1>5, <2>1, <2>2, <2>3, LeavesMoved DEF ct
<1>. QED  BY <1>4, <1>5

\* Inserting an instruction moves a window, and does not break it unless the
\* instruction harms and falls inside.
LEMMA WindowInsert ==
  ASSUME NEW c \in Seq(Instrs), NEW p \in 1 .. Len(c), NEW ins \in Instrs,
         NEW k \in 1 .. Len(c) + 1, NEW home, NEW arg, NEW V,
         Kept(c, k, home, arg, V),
         Harmless(ins, home) \/ c[p].dest \in V,
         ins.dest \notin V, ins.dest \notin Virtuals
  PROVE  Kept(Inserted(c, p, ins), IF k <= p THEN k ELSE k + 1, home, arg, V)
<1>. DEFINE v == arg.v
            w == Arriving(home, arg)
            t == Inserted(c, p, ins)
            At(j) == IF j <= p THEN j ELSE j + 1
<1>1. /\ Len(c) \in Nat
      /\ \A i \in 1 .. p : t[i] = c[i]
      /\ t[p + 1] = ins
      /\ \A i \in p + 1 .. Len(c) : t[i + 1] = c[i]
  <2>1. Len(c) \in Nat
    BY LenProperties
  <2>2. \A S : c \in Seq(S) /\ ins \in S /\ p \in 1 .. Len(c) =>
          /\ \A i \in 1 .. p : t[i] = c[i]
          /\ t[p + 1] = ins
          /\ \A i \in p + 1 .. Len(c) : t[i + 1] = c[i]
    BY InsertPositions
  <2>. QED  BY <2>1, <2>2
<1>. HIDE DEF t
<1>2. PICK m \in 1 .. k - 1 : Window(c, m, k, home, v, w) /\ \A j \in m .. k - 1 : c[j].dest \notin V
  BY DEF Kept
<1>. HIDE DEF v, w
<1>3. m \in Nat /\ 1 <= m /\ m < k /\ k <= Len(c) + 1 /\ k \in Nat /\ Len(c) \in Nat
  BY <1>1
<1>4. \A i \in 1 .. Len(c) : At(i) \in 1 .. Len(c) + 1 /\ t[At(i)] = c[i]
  BY <1>1
<1>5. /\ c[m].op \in {"move", "save"} /\ c[m].dest = home /\ c[m].src = v
      /\ \A j \in m + 1 .. k - 1 : Harmless(c[j], home)
  BY <1>2 DEF Window
<1>6. PICK d \in 1 .. m - 1 : LastBefore(c, d, m, v) /\ c[d].src = w
  BY <1>2 DEF Window
<1>7. At(m) \in 1 .. At(k) - 1 /\ At(d) \in 1 .. At(m) - 1
  BY <1>1, <1>2, <1>6
<1>8. ASSUME NEW j \in At(m) .. At(k) - 1
      PROVE  \/ j = At(m)
             \/ j # At(m) /\ j = p + 1 /\ p \in m .. k - 1
             \/ \E i \in m + 1 .. k - 1 : j = At(i)
  <2>1. CASE j <= p
    <3>1. j \in m .. k - 1 /\ At(j) = j
      BY <1>1, <1>2, <2>1
    <3>. QED  BY <3>1
  <2>2. CASE j > p + 1
    <3>1. j \in Int /\ At(j - 1) = j
      BY <1>3, <2>2
    <3>2. At(m) <= j /\ j < At(k)
      BY <1>3
    <3>3. j # At(m) => j - 1 \in m + 1 .. k - 1
      BY <1>3, <2>2, <3>1, <3>2
    <3>. HIDE DEF At
    <3>. QED  BY <3>1, <3>3
  <2>3. CASE j = p + 1
    BY <1>1, <1>2, <2>3
  <2>. QED  BY <1>1, <2>1, <2>2, <2>3
\* The same from the definition to the instruction that opens the window.
<1>9. LastBefore(t, At(d), At(m), v)
  <2>1. d \in 1 .. Len(c) /\ t[At(d)] = c[d]
    BY <1>3, <1>4, <1>6
  <2>2. ASSUME NEW j \in At(d) + 1 .. At(m) - 1 PROVE t[j].dest # v
    <3>1. CASE j <= p
      <4>1. j \in d + 1 .. m - 1 /\ t[j] = c[j]
        BY <1>3, <1>1, <1>6, <2>2, <3>1
      <4>. QED  BY <1>6, <4>1 DEF LastBefore
    <3>2. CASE j > p + 1
      <4>1. j - 1 \in d + 1 .. m - 1 /\ j - 1 \in p + 1 .. Len(c) /\ (j - 1) + 1 = j
        BY <1>3, <1>6, <2>2, <3>2
      <4>2. t[j] = c[j - 1]
        BY <1>1, <4>1
      <4>. QED  BY <1>6, <4>1, <4>2 DEF LastBefore
    <3>3. CASE j = p + 1
      BY <1>1, <1>2, <3>3 DEF Window
    <3>. QED  BY <1>3, <3>1, <3>2, <3>3
  <2>. HIDE DEF At
  <2>. QED  BY <1>6, <1>7, <2>1, <2>2 DEF LastBefore
<1>10. Window(t, At(m), At(k), home, v, w)
  <2>1. \A j \in At(m) + 1 .. At(k) - 1 : Harmless(t[j], home)
    <3>. SUFFICES ASSUME NEW j \in At(m) + 1 .. At(k) - 1 PROVE Harmless(t[j], home)
      OBVIOUS
    <3>1. j \in At(m) .. At(k) - 1 /\ j # At(m)
      BY <1>1, <1>2
    <3>2. CASE j = p + 1 /\ p \in m .. k - 1
      BY <1>1, <1>2, <3>2
    <3>3. CASE \E i \in m + 1 .. k - 1 : j = At(i)
      <4>. HIDE DEF At
      <4>1. PICK i \in m + 1 .. k - 1 : j = At(i)
        BY <3>3
      <4>2. i \in 1 .. Len(c)
        BY <1>1, <1>2
      <4>. QED  BY <1>4, <1>5, <4>1, <4>2
    <3>. HIDE DEF At
    <3>. QED  BY <1>8, <3>1, <3>2, <3>3
  <2>2. m \in 1 .. Len(c) /\ d \in 1 .. Len(c)
    BY <1>1, <1>2, <1>6
  <2>. HIDE DEF At
  <2>3. v \in Virtuals /\ t[At(d)].src = w
    BY <1>2, <1>4, <1>6, <2>2 DEF Window
  <2>. QED  BY <1>4, <1>5, <1>7, <1>9, <2>1, <2>2, <2>3 DEF Window
<1>11. \A j \in At(m) .. At(k) - 1 : t[j].dest \notin V
  <2>. SUFFICES ASSUME NEW j \in At(m) .. At(k) - 1 PROVE t[j].dest \notin V
    OBVIOUS
  <2>1. CASE j = At(m)
    <3>1. m \in 1 .. Len(c) /\ m \in m .. k - 1
      BY <1>1, <1>2
    <3>. QED  BY <1>2, <1>4, <2>1, <3>1
  <2>2. CASE j = p + 1
    BY <1>1, <2>2
  <2>3. CASE \E i \in m + 1 .. k - 1 : j = At(i)
    <3>. HIDE DEF At
    <3>1. PICK i \in m + 1 .. k - 1 : j = At(i)
      BY <2>3
    <3>2. i \in 1 .. Len(c) /\ i \in m .. k - 1
      BY <1>1, <1>2
    <3>. QED  BY <1>2, <1>4, <3>1, <3>2
  <2>. HIDE DEF At
  <2>. QED  BY <1>8, <2>1, <2>2, <2>3
<1>. QED  BY <1>7, <1>10, <1>11 DEF Kept, t, v, w

\* Only the instructions before k matter, and a harmless one at k prolongs.
LEMMA KeptAgree ==
  ASSUME NEW c, NEW t, NEW k \in Nat, NEW home, NEW arg, NEW V, NEW W,
         \A j \in 1 .. k - 1 : t[j] = c[j],
         Kept(c, k, home, arg, V),
         \A j \in 1 .. k - 1 : c[j].dest \in W => c[j].dest \in V
  PROVE  /\ Kept(t, k, home, arg, W)
         /\ Harmless(t[k], home) /\ t[k].dest \notin W => Kept(t, k + 1, home, arg, W)
<1>1. PICK m \in 1 .. k - 1 :
        Window(c, m, k, home, arg.v, Arriving(home, arg)) /\ \A j \in m .. k - 1 : c[j].dest \notin V
  BY DEF Kept
<1>2. m \in Nat /\ 1 <= m /\ m < k
  OBVIOUS
<1>3. \A j \in 1 .. k - 1 : j \in m .. k - 1 => t[j].dest \notin W
  BY <1>1
<1>4. Window(t, m, k, home, arg.v, Arriving(home, arg))
  <2>1. PICK d \in 1 .. m - 1 : LastBefore(c, d, m, arg.v) /\ c[d].src = Arriving(home, arg)
    BY <1>1 DEF Window
  <2>2. \A j \in 1 .. m : t[j] = c[j]
    BY <1>2
  <2>3. LastBefore(t, d, m, arg.v) /\ t[d].src = Arriving(home, arg)
    <3>1. t[d] = c[d]
      BY <1>2, <2>2
    <3>2. \A j \in d + 1 .. m - 1 : t[j] = c[j]
      BY <1>2, <2>2
    <3>. QED  BY <2>1, <3>1, <3>2 DEF LastBefore
  <2>4. t[m] = c[m] /\ \A j \in m + 1 .. k - 1 : t[j] = c[j]
    BY <1>2
  <2>. QED  BY <1>1, <2>3, <2>4 DEF Window
<1>5. Kept(t, k, home, arg, W)
  BY <1>1, <1>3, <1>4 DEF Kept
<1>6. ASSUME Harmless(t[k], home), t[k].dest \notin W
      PROVE  Kept(t, k + 1, home, arg, W)
  <2>1. m \in 1 .. (k + 1) - 1
    BY <1>1
  <2>2. Window(t, m, k + 1, home, arg.v, Arriving(home, arg))
    <3>1. \A j \in m + 1 .. (k + 1) - 1 : Harmless(t[j], home)
      <4>1. \A j \in m + 1 .. (k + 1) - 1 : j = k \/ j \in m + 1 .. k - 1
        BY <1>1
      <4>. QED  BY <1>4, <1>6, <4>1 DEF Window
    <3>. QED  BY <1>4, <2>1, <3>1 DEF Window
  <2>3. \A j \in m .. (k + 1) - 1 : t[j].dest \notin W
    <3>1. \A j \in m .. (k + 1) - 1 : j = k \/ (j \in 1 .. k - 1 /\ j \in m .. k - 1)
      BY <1>2
    <3>. QED  BY <1>3, <1>6, <3>1
  <2>. QED  BY <2>1, <2>2, <2>3 DEF Kept
<1>. QED  BY <1>5, <1>6

-----------------------------------------------------------------------------
\* What Given says of the calls.
GivenShape ==
  /\ open \in Seq(Calls) /\ Depth \in Nat /\ DOMAIN open = 1 .. Depth /\ Depth = Len(open)
  /\ \A d \in 1 .. Depth : /\ open[d] \in Calls /\ Len(open[d].args) \in Nat
                           /\ DOMAIN open[d].args = 1 .. Len(open[d].args)
  /\ \A g \in Given : /\ g[1] \in 1 .. Depth /\ g[2] \in Nat \ {0} /\ g = <<g[1], g[2]>>
                      /\ ArgAt(g) \in Args /\ g[2] \in 1 .. Len(open[g[1]].args)
  /\ \A d \in 1 .. Depth : \A i \in 1 .. Len(open[d].args) :
       <<d, i>> \in Given /\ ArgAt(<<d, i>>) = open[d].args[i]

LEMMA GivenFacts == TypeOK => GivenShape
<1>. SUFFICES ASSUME TypeOK PROVE GivenShape
  OBVIOUS
<1>1. open \in Seq(Calls) /\ Depth \in Nat /\ DOMAIN open = 1 .. Depth
  BY LenProperties DEF TypeOK, Calls, Depth
<1>2. ASSUME NEW d \in 1 .. Depth
      PROVE  /\ open[d] \in Calls /\ Len(open[d].args) \in Nat
             /\ DOMAIN open[d].args = 1 .. Len(open[d].args)
             /\ \A i \in 1 .. Len(open[d].args) : open[d].args[i] \in Args
  <2>1. open[d] \in Calls
    BY <1>1, ElementOfSeq DEF Depth
  <2>2. open[d].args \in Seq(Args)
    BY <2>1 DEF Calls
  <2>. QED  BY <2>1, <2>2, LenProperties, ElementOfSeq
<1>3. \A g : g \in Given <=> \E d \in 1 .. Depth : \E i \in 1 .. Len(open[d].args) : g = <<d, i>>
  BY <1>1, <1>2 DEF Given
<1>4. ASSUME NEW g \in Given
      PROVE  /\ g[1] \in 1 .. Depth /\ g[2] \in Nat \ {0} /\ g = <<g[1], g[2]>>
             /\ ArgAt(g) \in Args /\ g[2] \in 1 .. Len(open[g[1]].args)
  <2>1. PICK d \in 1 .. Depth : \E i \in 1 .. Len(open[d].args) : g = <<d, i>>
    BY <1>3
  <2>2. PICK i \in 1 .. Len(open[d].args) : g = <<d, i>>
    BY <2>1
  <2>3. i \in Nat \ {0} /\ g[1] = d /\ g[2] = i
    BY <1>2, <2>2
  <2>. QED  BY <1>2, <2>2, <2>3 DEF ArgAt
<1>5. ASSUME NEW d \in 1 .. Depth, NEW i \in 1 .. Len(open[d].args)
      PROVE  <<d, i>> \in Given /\ ArgAt(<<d, i>>) = open[d].args[i]
  BY <1>3 DEF ArgAt
<1>. QED  BY <1>1, <1>2, <1>4, <1>5 DEF GivenShape, Depth

\* What an instruction writes tells what it is.
LEMMA Destinations ==
  ASSUME NEW n \in Nat, NEW ins \in Instrs, WellMade(ins, n)
  PROVE  /\ ins.dest \in Virtuals <=> ins.op = "def"
         /\ ins.dest \in Virtuals => ins.dest.at <= n
         /\ ins.dest \in Places /\ ins.dest.in = "stack" <=> ins.op = "save"
         /\ ins.dest \in Places /\ ins.dest.in = "reg" <=> ins.op = "move"
<1>. QED  BY JunkOK DEF WellMade, Virtuals, Homes, Places

LEMMA NewValueFresh ==
  ASSUME TypeOK, Delivery
  PROVE  /\ NewValue \in Virtuals /\ NewValue.at = values + 1 /\ values \in Nat
         /\ \A j \in DOMAIN code : code[j].dest # NewValue
         /\ \A g \in Given : ArgAt(g).v # NewValue
<1>1. values \in Nat /\ code \in Seq(Instrs) /\ \A j \in DOMAIN code : code[j] \in Instrs
  BY ElementOfSeq, LenProperties DEF TypeOK
<1>2. NewValue \in Virtuals /\ NewValue.at = values + 1
  BY <1>1, NewValueType DEF NewValue, Value, Virtuals
<1>3. ASSUME NEW j \in DOMAIN code PROVE code[j].dest # NewValue
  <2>1. WellMade(code[j], values)
    BY DEF Delivery, Emitted
  <2>2. code[j].dest \in Virtuals => code[j].dest.at <= values
    BY <1>1, <2>1, Destinations
  <2>. QED  BY <1>1, <1>2, <2>2
<1>4. ASSUME NEW g \in Given PROVE ArgAt(g).v # NewValue
  <2>1. ArgAt(g).v.at <= values
    BY DEF Delivery, Numbered
  <2>. QED  BY <1>1, <1>2, <2>1
<1>. QED  BY <1>1, <1>2, <1>3, <1>4

\* One more argument, whatever had to be emitted for it.
LEMMA ArgumentAdded ==
  ASSUME TypeOK, Delivery, TypeOK',
         phase' # "pass", values' = values + 1,
         NEW new, NEW t \in Seq(Instrs), code' = code \o t,
         \A j \in DOMAIN t :
           \/ /\ t[j].op = "def" /\ t[j].dest = NewValue
              /\ \A k \in DOMAIN t : j < k => t[k].op = "def"
           \/ /\ t[j].op = "call" /\ t[j].dest = Junk
              /\ CallReady(code', Len(code) + j, OpenValues'),
         \A g \in Given' : ~Before(new, g),
         \A g \in Given' : g # new =>
           /\ g \in Given /\ Before(g, new) /\ Waiting(g, Len(sent))
           /\ ArgAt(g)'.v = ArgAt(g).v /\ ArgAt(g)'.first = ArgAt(g).first
           /\ ArgAt(g)'.literal = ArgAt(g).literal
           /\ ArgAt(g)'.settled =>
                /\ ArgAt(g).settled /\ start' = start
                /\ \A ins \in Instrs : WellMade(ins, values) /\ Quiet(ins, phase, stackOffset)
                                         => Quiet(ins, phase', stackOffset')
                /\ \A j \in DOMAIN t : Quiet(t[j], phase', stackOffset'),
         new \in Given' =>
           /\ ArgAt(new)'.v = NewValue /\ Leaves(t, NewValue, ArgAt(new)'.first)
           /\ ArgAt(new)'.literal => t = << >> /\ ArgAt(new)'.first = NewValue
           /\ ~ArgAt(new)'.literal => \E j \in DOMAIN t : t[j].dest = NewValue
           /\ ArgAt(new)'.settled => \A j \in DOMAIN t : t[j].dest = NewValue => start' <= Len(code) + j
  PROVE  /\ Numbered' /\ Emitted(code, Len(sent))' /\ Undisturbed(code, stackOffset)'
         /\ Sent(code)' /\ Ready(code, OpenValues)'
<1>1. /\ NewValue \in Virtuals /\ NewValue.at = values + 1 /\ values \in Nat
      /\ \A j \in DOMAIN code : code[j].dest # NewValue
      /\ \A g \in Given : ArgAt(g).v # NewValue
  BY NewValueFresh
<1>2. code \in Seq(Instrs) /\ Len(code) \in Nat /\ DOMAIN code = 1 .. Len(code)
      /\ \A j \in DOMAIN code : code[j] \in Instrs
  BY ElementOfSeq, LenProperties DEF TypeOK
<1>3. /\ code' \in Seq(Instrs) /\ Len(code') = Len(code) + Len(t) /\ Len(t) \in Nat
      /\ DOMAIN code' = 1 .. Len(code) + Len(t) /\ DOMAIN t = 1 .. Len(t)
      /\ \A j \in 1 .. Len(code) : code'[j] = code[j]
      /\ \A j \in 1 .. Len(t) : code'[Len(code) + j] = t[j]
  <2>1. /\ code' \in Seq(Instrs) /\ Len(code') = Len(code) + Len(t) /\ Len(t) \in Nat
        /\ \A j \in 1 .. Len(code) : code'[j] = code[j]
        /\ \A j \in 1 .. Len(t) : code'[Len(code) + j] = t[j]
    BY <1>2, ConcatIs
  <2>. QED  BY <2>1, LenProperties
<1>4. ASSUME NEW j \in DOMAIN code'
      PROVE  \/ j \in DOMAIN code /\ code'[j] = code[j]
             \/ /\ j \notin DOMAIN code /\ j - Len(code) \in DOMAIN t
                /\ code'[j].op = "def" /\ code'[j].dest = NewValue
                /\ code'[j] = t[j - Len(code)]
             \/ /\ j \notin DOMAIN code /\ j - Len(code) \in DOMAIN t
                /\ code'[j].op = "call" /\ code'[j].dest = Junk
                /\ CallReady(code', j, OpenValues')
                /\ code'[j] = t[j - Len(code)]
  <2>1. CASE j \in DOMAIN code
    BY <1>2, <1>3, <2>1
  <2>2. CASE j \notin DOMAIN code
    <3>1. PICK i \in 1 .. Len(t) : i = j - Len(code) /\ Len(code) + i = j
      BY <1>2, <1>3, <2>2
    <3>2. code'[j] = t[i] /\ i \in DOMAIN t
      BY <1>3, <3>1
    <3>3. \/ t[i].op = "def" /\ t[i].dest = NewValue
          \/ t[i].op = "call" /\ t[i].dest = Junk /\ CallReady(code', Len(code) + i, OpenValues')
      BY <3>2
    <3>. QED  BY <2>2, <3>1, <3>2, <3>3
  <2>. QED  BY <2>1, <2>2
<1>5. ASSUME NEW g \in Given'
      PROVE  \/ g = new /\ ArgAt(g)'.v = NewValue
             \/ /\ g # new /\ g \in Given /\ ArgAt(g)'.v = ArgAt(g).v
                /\ ArgAt(g)'.first = ArgAt(g).first /\ ArgAt(g)'.literal = ArgAt(g).literal
  OBVIOUS
<1>6. Numbered /\ Emitted(code, Len(sent)) /\ Undisturbed(code, stackOffset) /\ Ready(code, OpenValues)
  BY DEF Delivery
<1>7. Numbered'
  <2>1. ASSUME NEW g \in Given' PROVE ArgAt(g)'.v \in Virtuals /\ ArgAt(g)'.v.at <= values'
    BY <1>1, <1>5, <1>6 DEF Numbered, Virtuals, Places
  <2>2. ASSUME NEW g \in Given', NEW h \in Given', Before(g, h)
        PROVE  ArgAt(g)'.v.at < ArgAt(h)'.v.at
    <3>1. CASE g # new /\ h # new
      BY <1>5, <1>6, <2>2, <3>1 DEF Numbered
    <3>2. CASE g # new /\ h = new
      <4>1. ArgAt(g)'.v.at <= values /\ ArgAt(g).v \in Virtuals
        BY <1>5, <1>6, <3>2 DEF Numbered
      <4>2. ArgAt(g)'.v = ArgAt(g).v
        BY <3>2
      <4>. QED  BY <1>1, <1>5, <3>2, <4>1, <4>2 DEF Virtuals, Places
    <3>3. CASE g = new
      BY <2>2, <3>3
    <3>. QED  BY <3>1, <3>2, <3>3
  <2>. QED  BY <2>1, <2>2 DEF Numbered
<1>8. ASSUME NEW j \in DOMAIN code' PROVE WellMade(code'[j], values')
  <2>1. CASE j \in DOMAIN code /\ code'[j] = code[j]
    <3>1. WellMade(code[j], values)
      BY <1>6, <2>1 DEF Emitted
    <3>2. code[j].dest \in Virtuals => code[j].dest.at \in Nat
      BY DEF Virtuals, Places
    <3>. QED  BY <1>1, <2>1, <3>1, <3>2 DEF WellMade
  <2>2. CASE code'[j].op = "def" /\ code'[j].dest = NewValue
    BY <1>1, <2>2 DEF WellMade
  <2>3. CASE code'[j].op = "call" /\ code'[j].dest = Junk
    BY <2>3 DEF WellMade
  <2>. QED  BY <1>4, <2>1, <2>2, <2>3
\* Instruction j of the new code defines the argument g.
<1>. DEFINE Defines(j, g) == code'[j].dest = ArgAt(g)'.v
<1>9. ASSUME NEW j \in DOMAIN code', NEW g \in Given', Defines(j, g)
      PROVE  \/ /\ g = new /\ j \notin DOMAIN code /\ j - Len(code) \in DOMAIN t
                /\ t[j - Len(code)].dest = NewValue
             \/ g # new /\ g \in Given /\ j \in DOMAIN code /\ code[j].dest = ArgAt(g).v
  <2>1. CASE g = new
    <3>1. code'[j].dest = NewValue
      BY <1>9, <2>1
    <3>2. NewValue # Junk
      BY <1>1, JunkOK DEF Virtuals
    <3>. QED  BY <1>1, <1>4, <2>1, <3>1, <3>2
  <2>2. CASE g # new
    <3>1. g \in Given /\ ArgAt(g)'.v = ArgAt(g).v
      BY <2>2
    <3>2. ArgAt(g).v \in Virtuals /\ ArgAt(g).v # NewValue
      BY <1>1, <1>6, <3>1 DEF Numbered
    <3>3. ArgAt(g).v # Junk
      BY <3>2, JunkOK DEF Virtuals
    <3>. QED  BY <1>4, <1>9, <2>2, <3>1, <3>2, <3>3
  <2>. QED  BY <2>1, <2>2
<1>10. ASSUME NEW g \in Given', ~ArgAt(g)'.literal
       PROVE  \E j \in DOMAIN code' : Defines(j, g)
  <2>1. CASE g = new
    <3>1. PICK i \in DOMAIN t : t[i].dest = NewValue
      BY <1>10, <2>1
    <3>2. Len(code) + i \in DOMAIN code' /\ code'[Len(code) + i] = t[i]
      BY <1>2, <1>3, <3>1
    <3>. QED  BY <2>1, <3>1, <3>2
  <2>2. CASE g # new
    <3>1. g \in Given /\ ArgAt(g)'.v = ArgAt(g).v /\ ~ArgAt(g).literal
      BY <1>10, <2>2
    <3>2. PICK j \in DOMAIN code : code[j].dest = ArgAt(g).v
      BY <1>6, <3>1 DEF Emitted
    <3>3. j \in DOMAIN code' /\ code'[j] = code[j]
      BY <1>2, <1>3
    <3>. QED  BY <3>1, <3>2, <3>3
  <2>. QED  BY <2>1, <2>2
<1>11. ASSUME NEW g \in Given', ArgAt(g)'.literal, NEW j \in DOMAIN code'
       PROVE  ~Defines(j, g)
  <2>1. CASE g = new
    <3>1. t = << >>
      BY <1>11, <2>1
    <3>2. DOMAIN t = {}
      BY <3>1
    <3>. QED  BY <1>9, <2>1, <3>2
  <2>2. CASE g # new
    BY <1>6, <1>9, <1>11, <2>2 DEF Emitted
  <2>. QED  BY <2>1, <2>2
<1>12. ASSUME NEW g \in Given', NEW h \in Given', NEW j \in DOMAIN code', NEW k \in DOMAIN code',
              g[1] < h[1], Defines(j, g), Defines(k, h)
       PROVE  j < k
  <2>1. Before(g, h)
    BY <1>12 DEF Before
  <2>2. g # new
    BY <2>1
  <2>3. CASE h = new
    <3>1. k \notin DOMAIN code
      BY <1>9, <1>12, <2>3
    <3>2. j \in DOMAIN code
      BY <1>9, <1>12, <2>2
    <3>. QED  BY <1>2, <1>3, <3>1, <3>2
  <2>4. CASE h # new
    BY <1>6, <1>9, <1>12, <2>2, <2>4 DEF Emitted
  <2>. QED  BY <2>3, <2>4
\* The new value has its definitions in t, the others have theirs in code.
<1>13. ASSUME NEW g \in Given'
       PROVE  /\ Leaves(code', ArgAt(g)'.v, ArgAt(g)'.first)
              /\ ArgAt(g)'.literal => ArgAt(g)'.first = ArgAt(g)'.v
  <2>1. CASE g = new
    BY <1>1, <1>2, <2>1, LeavesConcat
  <2>2. CASE g # new
    <3>1. g \in Given /\ ArgAt(g)'.v = ArgAt(g).v /\ ArgAt(g)'.first = ArgAt(g).first
          /\ ArgAt(g)'.literal = ArgAt(g).literal
      BY <2>2
    <3>2. ArgAt(g).v # NewValue /\ ArgAt(g).v # Junk
      BY <1>1, <1>6, <3>1, JunkOK DEF Numbered, Virtuals
    <3>3. \A j \in DOMAIN t : t[j].dest # ArgAt(g).v
      BY <3>2
    <3>4. Leaves(code, ArgAt(g).v, ArgAt(g).first) /\ (ArgAt(g).literal => ArgAt(g).first = ArgAt(g).v)
      BY <1>6, <3>1 DEF Emitted
    <3>. QED  BY <1>2, <3>1, <3>3, <3>4, LeavesConcat
  <2>. QED  BY <2>1, <2>2
<1>14. Emitted(code, Len(sent))'
  <2>. HIDE DEF Defines
  <2>. QED  BY <1>8, <1>10, <1>11, <1>12, <1>13 DEF Emitted, Defines
<1>15. ASSUME NEW g \in Given', ArgAt(g)'.settled, ~ArgAt(g)'.literal,
              NEW j \in DOMAIN code', Defines(j, g)
       PROVE  start' <= j /\ \A k \in DOMAIN code' : j < k => Quiet(code'[k], phase', stackOffset')
  <2>1. CASE g = new
    <3>1. j \notin DOMAIN code /\ j - Len(code) \in DOMAIN t /\ t[j - Len(code)].dest = NewValue
      BY <1>9, <1>15, <2>1
    <3>2. start' <= j
      <4>1. start' <= Len(code) + (j - Len(code)) /\ j \in Int
        BY <1>3, <1>15, <2>1, <3>1
      <4>. QED  BY <1>2, <4>1
    <3>3. ASSUME NEW k \in DOMAIN code', j < k PROVE code'[k].op = "def"
      <4>1. k \notin DOMAIN code /\ j - Len(code) < k - Len(code)
        BY <1>2, <1>3, <3>1, <3>3
      <4>2. k - Len(code) \in DOMAIN t /\ code'[k] = t[k - Len(code)]
        BY <1>4, <4>1
      <4>3. t[j - Len(code)].dest # Junk
        BY <1>1, <3>1, JunkOK DEF Virtuals
      <4>. QED  BY <3>1, <4>1, <4>2, <4>3
    <3>. QED  BY <3>2, <3>3 DEF Quiet
  <2>2. CASE g # new
    <3>1. /\ g \in Given /\ ArgAt(g).settled /\ ~ArgAt(g).literal /\ start' = start
          /\ \A ins \in Instrs : WellMade(ins, values) /\ Quiet(ins, phase, stackOffset)
                                   => Quiet(ins, phase', stackOffset')
          /\ \A i \in DOMAIN t : Quiet(t[i], phase', stackOffset')
      BY <1>15, <2>2
    <3>2. j \in DOMAIN code /\ code[j].dest = ArgAt(g).v
      BY <1>9, <1>15, <2>2
    <3>3. start <= j /\ \A k \in DOMAIN code : j < k => Quiet(code[k], phase, stackOffset)
      BY <1>6, <3>1, <3>2 DEF Undisturbed
    <3>4. ASSUME NEW k \in DOMAIN code', j < k PROVE Quiet(code'[k], phase', stackOffset')
      <4>1. CASE k \in DOMAIN code
        <5>1. Quiet(code[k], phase, stackOffset) /\ WellMade(code[k], values)
          BY <1>6, <3>3, <3>4, <4>1 DEF Emitted
        <5>. QED  BY <1>2, <1>3, <3>1, <4>1, <5>1
      <4>2. CASE k \notin DOMAIN code
        <5>1. k - Len(code) \in DOMAIN t /\ code'[k] = t[k - Len(code)]
          BY <1>4, <4>2
        <5>. QED  BY <3>1, <5>1
      <4>. QED  BY <4>1, <4>2
    <3>. QED  BY <3>1, <3>3, <3>4
  <2>. QED  BY <2>1, <2>2
<1>16. Undisturbed(code, stackOffset)'
  <2>. HIDE DEF Defines
  <2>. QED  BY <1>15 DEF Undisturbed, Defines
<1>17. Sent(code)'
  BY DEF Sent
<1>18. Ready(code, OpenValues)'
  <2>. SUFFICES ASSUME NEW k \in DOMAIN code', code'[k].op = "call"
                PROVE  CallReady(code', k, OpenValues')
    BY DEF Ready
  <2>1. CASE k \notin DOMAIN code
    BY <1>4, <2>1
  <2>2. CASE k \in DOMAIN code
    <3>1. code'[k] = code[k] /\ k \in Nat /\ \A j \in 1 .. k - 1 : code'[j] = code[j] /\ j \in DOMAIN code
      BY <1>2, <1>3, <2>2
    <3>2. \A x : x \in OpenValues' => x \in OpenValues \/ x = NewValue
      BY <1>5 DEF OpenValues
    <3>3. \A j \in 1 .. k - 1 : code[j].dest \in OpenValues' => code[j].dest \in OpenValues
      BY <1>1, <3>1, <3>2
    <3>4. CallReady(code, k, OpenValues)
      BY <1>6, <2>2, <3>1 DEF Ready
    <3>5. ASSUME NEW home, NEW arg, Kept(code, k, home, arg, OpenValues)
          PROVE  Kept(code', k, home, arg, OpenValues')
      BY <3>1, <3>3, <3>5, KeptAgree
    <3>. QED  BY <3>1, <3>4, <3>5 DEF CallReady
  <2>. QED  BY <2>1, <2>2
<1>. QED  BY <1>7, <1>14, <1>16, <1>17, <1>18

-----------------------------------------------------------------------------
\* What WithArg and Unsettled leave of the calls.
LEMMA WithArgShape ==
  ASSUME NEW calls \in Seq(Calls), calls # << >>, NEW a \in Args
  PROVE  LET more == WithArg(calls, a)  n == Len(calls)
         IN  /\ more \in Seq(Calls) /\ n \in Nat \ {0} /\ Len(more) = n
             /\ \A d \in 1 .. n - 1 : more[d] = calls[d]
             /\ more[n].sig = calls[n].sig /\ Len(more[n].args) = Len(calls[n].args) + 1
             /\ \A i \in 1 .. Len(calls[n].args) : more[n].args[i] = calls[n].args[i]
             /\ more[n].args[Len(calls[n].args) + 1] = a
<1>. DEFINE n == Len(calls)
            last == [calls[n] EXCEPT !.args = Append(@, a)]
<1>1. n \in Nat \ {0} /\ DOMAIN calls = 1 .. n /\ calls[n] \in Calls
  BY InnermostCall
<1>2. calls[n].args \in Seq(Args)
  BY <1>1 DEF Calls
<1>3. /\ Append(calls[n].args, a) \in Seq(Args)
      /\ Len(Append(calls[n].args, a)) = Len(calls[n].args) + 1
      /\ \A i \in 1 .. Len(calls[n].args) : Append(calls[n].args, a)[i] = calls[n].args[i]
      /\ Append(calls[n].args, a)[Len(calls[n].args) + 1] = a
  BY <1>2, AppendFact
<1>4. last \in Calls /\ last.sig = calls[n].sig /\ last.args = Append(calls[n].args, a)
  BY <1>1, <1>3 DEF Calls
<1>. HIDE DEF last
<1>. DEFINE more == [calls EXCEPT ![n] = last]
<1>5. WithArg(calls, a) = more
  BY DEF WithArg, last
<1>6. more \in Seq(Calls) /\ Len(more) = n
  BY <1>1, <1>4, ExceptSeq
<1>7. \A d \in 1 .. n : more[d] = IF d = n THEN last ELSE calls[d]
  BY <1>1
<1>. HIDE DEF more, n
<1>8. \A d \in 1 .. n - 1 : d \in 1 .. n /\ d # n
  BY <1>1
<1>9. \A d \in 1 .. n - 1 : more[d] = calls[d]
  BY <1>7, <1>8
<1>10. more[n] = last
  BY <1>1, <1>7
<1>11. /\ more[n].sig = calls[n].sig /\ Len(more[n].args) = Len(calls[n].args) + 1
       /\ \A i \in 1 .. Len(calls[n].args) : more[n].args[i] = calls[n].args[i]
       /\ more[n].args[Len(calls[n].args) + 1] = a
  BY <1>3, <1>4, <1>10
<1>. QED  BY <1>1, <1>5, <1>6, <1>9, <1>11 DEF n

LEMMA UnsettledShape ==
  ASSUME NEW calls \in Seq(Calls)
  PROVE  LET less == Unsettled(calls)  n == Len(calls)
         IN  /\ less \in Seq(Calls) /\ n \in Nat /\ Len(less) = n
             /\ \A d \in 1 .. n :
                  /\ less[d].sig = calls[d].sig /\ Len(less[d].args) = Len(calls[d].args)
                  /\ \A i \in 1 .. Len(calls[d].args) :
                       /\ less[d].args[i].v = calls[d].args[i].v
                       /\ less[d].args[i].first = calls[d].args[i].first
                       /\ less[d].args[i].literal = calls[d].args[i].literal
                       /\ ~less[d].args[i].settled
<1>. DEFINE Old(d) == [i \in DOMAIN calls[d].args |->
                         [calls[d].args[i] EXCEPT !.settled = FALSE]]
<1>1. /\ DOMAIN calls = 1 .. Len(calls) /\ Len(calls) \in Nat
      /\ \A d \in DOMAIN calls : calls[d] \in Calls
  BY LenProperties, ElementOfSeq
<1>2. Unsettled(calls) \in Seq(Calls)
  BY UnsettledType
<1>3. Unsettled(calls) = [d \in DOMAIN calls |-> [calls[d] EXCEPT !.args = Old(d)]]
  BY DEF Unsettled
<1>4. Len(Unsettled(calls)) = Len(calls)
  BY <1>1, <1>2, <1>3, LenProperties
<1>5. ASSUME NEW d \in 1 .. Len(calls)
      PROVE  /\ Unsettled(calls)[d].sig = calls[d].sig
             /\ Len(Unsettled(calls)[d].args) = Len(calls[d].args)
             /\ \A i \in 1 .. Len(calls[d].args) :
                  /\ Unsettled(calls)[d].args[i].v = calls[d].args[i].v
                  /\ Unsettled(calls)[d].args[i].first = calls[d].args[i].first
                  /\ Unsettled(calls)[d].args[i].literal = calls[d].args[i].literal
                  /\ ~Unsettled(calls)[d].args[i].settled
  <2>1. calls[d] \in Calls /\ calls[d].args \in Seq(Args)
    BY <1>1 DEF Calls
  <2>2. /\ Len(calls[d].args) \in Nat /\ DOMAIN calls[d].args = 1 .. Len(calls[d].args)
        /\ \A i \in DOMAIN calls[d].args : calls[d].args[i] \in Args
    BY <2>1, LenProperties, ElementOfSeq
  <2>3. Unsettled(calls)[d] = [calls[d] EXCEPT !.args = Old(d)]
    <3>. HIDE DEF Old
    <3>. QED  BY <1>1, <1>3
  <2>4. Unsettled(calls)[d].args = Old(d) /\ Unsettled(calls)[d].sig = calls[d].sig
    <3>. HIDE DEF Old
    <3>. QED  BY <2>1, <2>3 DEF Calls
  <2>5. Old(d) \in Seq(Args) /\ Len(Old(d)) = Len(calls[d].args)
    <3>1. Old(d) \in [1 .. Len(calls[d].args) -> Args]
      BY <2>2 DEF Args
    <3>. HIDE DEF Old
    <3>. QED  BY <2>2, <3>1, SeqOfFunction
  <2>6. \A i \in 1 .. Len(calls[d].args) :
          /\ Old(d)[i].v = calls[d].args[i].v /\ Old(d)[i].first = calls[d].args[i].first
          /\ Old(d)[i].literal = calls[d].args[i].literal
          /\ ~Old(d)[i].settled
    BY <2>2 DEF Args
  <2>. HIDE DEF Old
  <2>. QED  BY <2>4, <2>5, <2>6
<1>. QED  BY <1>1, <1>2, <1>4, <1>5

\* The calls before and after the innermost gets an argument: all others keep
\* their values, and may lose what was settled.
Extends(calls, more, arg, kept) ==
  LET n == Len(calls) IN
  /\ n \in Nat \ {0} /\ Len(more) = n
  /\ \A d \in 1 .. n - 1 : Len(more[d].args) = Len(calls[d].args)
  /\ Len(more[n].args) = Len(calls[n].args) + 1
  /\ more[n].args[Len(calls[n].args) + 1] = arg
  /\ \A d \in 1 .. n : \A i \in 1 .. Len(calls[d].args) :
       /\ more[d].args[i].v = calls[d].args[i].v
       /\ more[d].args[i].first = calls[d].args[i].first
       /\ more[d].args[i].literal = calls[d].args[i].literal
       /\ more[d].args[i].settled => kept /\ calls[d].args[i].settled

LEMMA ExtendsCases ==
  ASSUME NEW calls \in Seq(Calls), calls # << >>, NEW a \in Args
  PROVE  /\ Extends(calls, WithArg(calls, a), a, TRUE)
         /\ Extends(calls, WithArg(Unsettled(calls), a), a, FALSE)
         /\ ~a.settled => Extends(calls, Unsettled(WithArg(calls, a)), a, FALSE)
<1>. DEFINE n == Len(calls)
            more == WithArg(calls, a)
            less == Unsettled(calls)
            lessmore == WithArg(less, a)
            moreless == Unsettled(more)
<1>1. n \in Nat \ {0} /\ \A d \in 1 .. n : Len(calls[d].args) \in Nat
  <2>1. \A d \in 1 .. n : calls[d] \in Calls
    BY ElementOfSeq
  <2>2. \A d \in 1 .. n : calls[d].args \in Seq(Args)
    BY <2>1 DEF Calls
  <2>. QED  BY <2>2, InnermostCall, LenProperties
<1>2. /\ more \in Seq(Calls) /\ Len(more) = n
      /\ \A d \in 1 .. n - 1 : more[d] = calls[d]
      /\ Len(more[n].args) = Len(calls[n].args) + 1
      /\ \A i \in 1 .. Len(calls[n].args) : more[n].args[i] = calls[n].args[i]
      /\ more[n].args[Len(calls[n].args) + 1] = a
  BY WithArgShape
<1>3. /\ less \in Seq(Calls) /\ Len(less) = n
      /\ \A d \in 1 .. n :
           /\ Len(less[d].args) = Len(calls[d].args)
           /\ \A i \in 1 .. Len(calls[d].args) :
                /\ less[d].args[i].v = calls[d].args[i].v
                /\ less[d].args[i].first = calls[d].args[i].first
                /\ less[d].args[i].literal = calls[d].args[i].literal
                /\ ~less[d].args[i].settled
  BY UnsettledShape
<1>4. less # << >>
  BY <1>1, <1>3, EmptySeq
<1>. HIDE DEF less, more
<1>5. /\ Len(lessmore) = n
      /\ \A d \in 1 .. n - 1 : lessmore[d] = less[d]
      /\ Len(lessmore[n].args) = Len(less[n].args) + 1
      /\ \A i \in 1 .. Len(less[n].args) : lessmore[n].args[i] = less[n].args[i]
      /\ lessmore[n].args[Len(less[n].args) + 1] = a
  <2>1. Len(less) = n /\ less \in Seq(Calls)
    BY <1>3
  <2>. QED  BY <1>4, <2>1, WithArgShape
<1>6. /\ Len(moreless) = n
      /\ \A d \in 1 .. n :
           /\ Len(moreless[d].args) = Len(more[d].args)
           /\ \A i \in 1 .. Len(more[d].args) :
                /\ moreless[d].args[i].v = more[d].args[i].v
                /\ moreless[d].args[i].first = more[d].args[i].first
                /\ moreless[d].args[i].literal = more[d].args[i].literal
                /\ ~moreless[d].args[i].settled
  <2>1. Len(more) = n /\ more \in Seq(Calls)
    BY <1>2
  <2>. QED  BY <2>1, UnsettledShape
<1>. HIDE DEF lessmore, moreless, n
<1>7. \A d \in 1 .. n : d \in 1 .. n - 1 \/ d = n
  BY <1>1
<1>8. 1 .. n - 1 \subseteq 1 .. n /\ n \in 1 .. n
  BY <1>1
<1>9. Extends(calls, more, a, TRUE)
  <2>1. \A d \in 1 .. n : \A i \in 1 .. Len(calls[d].args) : more[d].args[i] = calls[d].args[i]
    BY <1>2, <1>7
  <2>. QED  BY <1>1, <1>2, <2>1 DEF Extends, n
<1>10. Extends(calls, lessmore, a, FALSE)
  <2>1. \A d \in 1 .. n : \A i \in 1 .. Len(calls[d].args) : lessmore[d].args[i] = less[d].args[i]
    BY <1>3, <1>5, <1>7
  <2>2. \A d \in 1 .. n - 1 : Len(lessmore[d].args) = Len(calls[d].args)
    BY <1>3, <1>5, <1>8
  <2>3. Len(lessmore[n].args) = Len(calls[n].args) + 1 /\ lessmore[n].args[Len(calls[n].args) + 1] = a
    BY <1>3, <1>5, <1>8
  <2>. QED  BY <1>1, <1>3, <1>5, <2>1, <2>2, <2>3 DEF Extends, n
<1>11. ASSUME NEW b, moreless[n].args[Len(calls[n].args) + 1] = b
       PROVE  Extends(calls, moreless, b, FALSE)
  <2>1. \A d \in 1 .. n : \A i \in 1 .. Len(calls[d].args) :
          more[d].args[i] = calls[d].args[i] /\ i \in 1 .. Len(more[d].args)
    BY <1>1, <1>2, <1>7
  <2>2. \A d \in 1 .. n - 1 : Len(moreless[d].args) = Len(calls[d].args)
    BY <1>2, <1>6, <1>8
  <2>3. Len(moreless[n].args) = Len(calls[n].args) + 1
    BY <1>2, <1>6, <1>8
  <2>4. ASSUME NEW d \in 1 .. n, NEW i \in 1 .. Len(calls[d].args)
        PROVE  /\ moreless[d].args[i].v = calls[d].args[i].v
               /\ moreless[d].args[i].first = calls[d].args[i].first
               /\ moreless[d].args[i].literal = calls[d].args[i].literal
               /\ ~moreless[d].args[i].settled
    BY <1>6, <2>1
  <2>. QED  BY <1>1, <1>6, <1>11, <2>2, <2>3, <2>4 DEF Extends, n
<1>12. moreless[n].args[Len(calls[n].args) + 1] = [a EXCEPT !.settled = FALSE]
  <2>1. n \in DOMAIN more /\ DOMAIN more = 1 .. n
    BY <1>1, <1>2, LenProperties
  <2>2. more[n] \in Calls
    BY <1>2, <2>1, ElementOfSeq
  <2>3. DOMAIN more[n].args = 1 .. Len(calls[n].args) + 1
    BY <1>2, <2>2, LenProperties DEF Calls
  <2>4. Len(calls[n].args) + 1 \in DOMAIN more[n].args
    BY <1>1, <1>8, <2>3
  <2>5. moreless[n].args = [i \in DOMAIN more[n].args |-> [more[n].args[i] EXCEPT !.settled = FALSE]]
    BY <2>1, <2>2 DEF moreless, Unsettled, Calls
  <2>. QED  BY <1>2, <2>4, <2>5
<1>13. ~a.settled => [a EXCEPT !.settled = FALSE] = a
  BY DEF Args
<1>. QED  BY <1>9, <1>10, <1>11, <1>12, <1>13 DEF more, less, lessmore, moreless

\* The arguments that were there, and the new one.
LEMMA ExtendsGiven ==
  ASSUME TypeOK, TypeOK', NEW n, NEW calls, NEW a, NEW kept,
         Extends(calls, open', a, kept), Len(calls) = n, n <= Depth,
         \A d \in 1 .. n : calls[d] = open[d],
         phase = "pass" => n < Depth,
         NEW new, new = <<n, Len(open[n].args) + 1>>
  PROVE  /\ \A g \in Given' : ~Before(new, g)
         /\ \A g \in Given' : g # new =>
              /\ g \in Given /\ Before(g, new) /\ Waiting(g, Len(sent))
              /\ ArgAt(g)'.v = ArgAt(g).v /\ ArgAt(g)'.first = ArgAt(g).first
              /\ ArgAt(g)'.literal = ArgAt(g).literal
              /\ ArgAt(g)'.settled => kept /\ ArgAt(g).settled
         /\ ArgAt(new)' = a
<1>1. GivenShape
  BY GivenFacts
<1>2. GivenShape'
  BY GivenFacts, PTL
<1>3. /\ n \in Nat \ {0} /\ Depth' = n /\ Depth \in Nat
      /\ \A d \in 1 .. n : d \in 1 .. Depth
  BY <1>1, <1>2 DEF Extends, GivenShape
<1>4. /\ \A d \in 1 .. n - 1 : Len(open'[d].args) = Len(open[d].args)
      /\ Len(open'[n].args) = Len(open[n].args) + 1
      /\ open'[n].args[Len(open[n].args) + 1] = a
      /\ \A d \in 1 .. n : \A i \in 1 .. Len(open[d].args) :
           /\ open'[d].args[i].v = open[d].args[i].v
           /\ open'[d].args[i].first = open[d].args[i].first
           /\ open'[d].args[i].literal = open[d].args[i].literal
           /\ open'[d].args[i].settled => kept /\ open[d].args[i].settled
  <2>1. \A d \in 1 .. n - 1 : d \in 1 .. n
    BY <1>3
  <2>2. n \in 1 .. n
    BY <1>3
  <2>. QED  BY <2>1, <2>2 DEF Extends
<1>5. ASSUME NEW g \in Given'
      PROVE  /\ g[1] \in 1 .. n /\ g[2] \in Nat \ {0} /\ g = <<g[1], g[2]>>
             /\ g[1] < n => g[2] \in 1 .. Len(open[g[1]].args)
             /\ g[1] = n => g[2] \in 1 .. Len(open[n].args) + 1
  <2>1. /\ g[1] \in 1 .. Depth' /\ g[2] \in Nat \ {0} /\ g = <<g[1], g[2]>>
        /\ g[2] \in 1 .. Len(open'[g[1]].args)
    BY <1>2 DEF GivenShape
  <2>2. g[1] < n => g[1] \in 1 .. n - 1
    BY <1>3, <2>1
  <2>. QED  BY <1>3, <1>4, <2>1, <2>2
<1>6. Len(open[n].args) \in Nat
  BY <1>1, <1>3 DEF GivenShape
<1>7. new[1] = n /\ new[2] = Len(open[n].args) + 1
  OBVIOUS
<1>8. ASSUME NEW g \in Given' PROVE ~Before(new, g)
  BY <1>3, <1>5, <1>6, <1>7 DEF Before
<1>9. ASSUME NEW g \in Given', g # new
      PROVE  /\ g \in Given /\ Before(g, new) /\ Waiting(g, Len(sent))
             /\ ArgAt(g)'.v = ArgAt(g).v /\ ArgAt(g)'.first = ArgAt(g).first
             /\ ArgAt(g)'.literal = ArgAt(g).literal
             /\ ArgAt(g)'.settled => kept /\ ArgAt(g).settled
  <2>1. g[1] \in 1 .. n /\ g[2] \in 1 .. Len(open[g[1]].args) /\ Before(g, new)
    <3>1. CASE g[1] < n
      BY <1>5, <1>7, <3>1 DEF Before
    <3>2. CASE g[1] = n
      <4>1. g[2] # Len(open[n].args) + 1
        BY <1>5, <1>9, <3>2
      <4>. QED  BY <1>5, <1>6, <1>7, <3>2, <4>1 DEF Before
    <3>. QED  BY <1>3, <1>5, <3>1, <3>2
  <2>2. g \in Given
    <3>1. <<g[1], g[2]>> \in Given
      BY <1>1, <1>3, <2>1 DEF GivenShape
    <3>. QED  BY <1>5, <3>1
  <2>3. phase = "pass" => g[1] # Depth
    BY <1>3, <2>1
  <2>. QED  BY <1>4, <2>1, <2>2, <2>3 DEF ArgAt, Waiting
<1>10. ArgAt(new)' = a
  BY <1>4, <1>7 DEF ArgAt
<1>. QED  BY <1>8, <1>9, <1>10

LEMMA OperandDelivery == TypeOK /\ TypeOK' /\ Delivery /\ Operand => Delivery'
<1>. SUFFICES ASSUME TypeOK, TypeOK', Delivery, Operand PROVE Delivery'
  OBVIOUS
<1>1. PICK n, new : n = Depth /\ new = <<n, Len(open[n].args) + 1>>
  OBVIOUS
<1>2. /\ phase = "eval" /\ phase' = "eval" /\ values' = values + 1 /\ pc' = pc /\ stackOffset' = stackOffset
      /\ open # << >>
  BY DEF Operand, locals, machine, TypeOK
<1>3. open \in Seq(Calls) /\ code \in Seq(Instrs) /\ Len(code) \in Nat /\ start \in 1 .. Len(code) + 1
      /\ n \in Nat /\ n = Len(open)
  BY <1>1, LenProperties DEF TypeOK, Calls, Depth
<1>4. NewValue \in Virtuals /\ Def(NewValue) \in Instrs /\ Feq(NewValue) \in Instrs
  <2>1. NewValue \in Places
    BY NewValueType
  <2>. QED  BY <2>1, InsTypes, NewValueFresh DEF Fitting
\* Each alternative extends the calls, with the definitions t or with none.
<1>5. ASSUME NEW arg \in Args, NEW t \in Seq(Instrs), NEW kept \in BOOLEAN,
             Extends(open, open', arg, kept), code' = code \o t,
             arg.v = NewValue, Leaves(t, NewValue, arg.first),
             arg.literal => t = << >> /\ arg.first = NewValue,
             ~arg.literal => \E j \in DOMAIN t : t[j].dest = NewValue,
             \A j \in DOMAIN t : t[j].op = "def" /\ t[j].dest = NewValue,
             kept => start' = start,
             arg.settled => \A j \in DOMAIN t : start' <= Len(code) + j
      PROVE  Delivery'
  <2>1. /\ \A g \in Given' : ~Before(new, g)
        /\ \A g \in Given' : g # new =>
             /\ g \in Given /\ Before(g, new) /\ Waiting(g, Len(sent))
             /\ ArgAt(g)'.v = ArgAt(g).v /\ ArgAt(g)'.first = ArgAt(g).first
             /\ ArgAt(g)'.literal = ArgAt(g).literal
             /\ ArgAt(g)'.settled => kept /\ ArgAt(g).settled
        /\ ArgAt(new)' = arg
    <3>1. /\ Len(open) = n /\ n <= Depth /\ ~(phase = "pass")
          /\ \A d \in 1 .. n : open[d] = open[d]
      BY <1>1, <1>2, <1>3
    <3>. QED  BY <1>1, <1>5, <3>1, ExtendsGiven
  <2>2. \A ins \in Instrs : WellMade(ins, values) /\ Quiet(ins, phase, stackOffset)
                              => Quiet(ins, phase', stackOffset')
    BY <1>2
  <2>3. \A j \in DOMAIN t : Quiet(t[j], phase', stackOffset')
    BY <1>5 DEF Quiet
  <2>4. /\ Numbered' /\ Emitted(code, Len(sent))' /\ Undisturbed(code, stackOffset)'
        /\ Sent(code)' /\ Ready(code, OpenValues)'
    BY <1>2, <1>5, <2>1, <2>2, <2>3, ArgumentAdded
  <2>5. Ran'
    BY <1>2 DEF Delivery, Ran
  <2>. QED  BY <2>4, <2>5 DEF Delivery
<1>. DEFINE once == <<Def(NewValue)>>
            twice == <<Feq(NewValue), Def(NewValue)>>
<1>6. /\ once \in Seq(Instrs) /\ DOMAIN once = {1} /\ Leaves(once, NewValue, NewValue)
      /\ once[1].op = "def" /\ once[1].dest = NewValue
      /\ Append(code, Def(NewValue)) = code \o once /\ Len(code \o once) = Len(code) + 1
  <2>1. /\ Def(NewValue).op = "def" /\ Def(NewValue).dest = NewValue /\ Def(NewValue).src = NewValue
    BY DEF Def, Ins
  <2>. HIDE DEF Def
  <2>2. once \in Seq(Instrs) /\ DOMAIN once = {1} /\ once[1] = Def(NewValue) /\ Len(once) = 1
    BY <1>4
  <2>3. Append(code, Def(NewValue)) = code \o once
    BY <1>3, <1>4
  <2>4. Len(code \o once) = Len(code) + 1
    BY <1>3, <1>4, <2>3, AppendFact
  <2>. QED  BY <2>1, <2>2, <2>3, <2>4 DEF Leaves
<1>7. /\ twice \in Seq(Instrs) /\ DOMAIN twice = {1, 2}
      /\ Leaves(twice, NewValue, Equal(NewValue))
      /\ \A j \in {1, 2} : twice[j].op = "def" /\ twice[j].dest = NewValue
  <2>1. /\ Def(NewValue).op = "def" /\ Def(NewValue).dest = NewValue /\ Def(NewValue).src = NewValue
        /\ Feq(NewValue).op = "def" /\ Feq(NewValue).dest = NewValue
        /\ Feq(NewValue).src = Equal(NewValue)
    BY DEF Def, Feq, Ins
  <2>. HIDE DEF Def, Feq, Equal
  <2>2. /\ twice \in Seq(Instrs) /\ DOMAIN twice = {1, 2}
        /\ twice[1] = Feq(NewValue) /\ twice[2] = Def(NewValue)
    BY <1>4
  <2>. HIDE DEF twice
  <2>3. ASSUME NEW j \in {1, 2}
        PROVE  /\ (\A i \in {1, 2} : j <= i) => twice[j].src = Equal(NewValue)
               /\ (\A i \in {1, 2} : i <= j) => twice[j].src = NewValue
    BY <2>1, <2>2
  <2>4. \A j \in {1, 2} : twice[j].op = "def" /\ twice[j].dest = NewValue
    BY <2>1, <2>2
  <2>. QED  BY <2>2, <2>3, <2>4 DEF Leaves
<1>8. \A literal, settled \in BOOLEAN :
        LET arg == Arg(NewValue, literal, settled)
        IN  /\ arg \in Args /\ arg.v = NewValue /\ arg.first = NewValue
            /\ arg.literal = literal /\ arg.settled = settled
  BY <1>4 DEF Arg, Args, Virtuals
<1>9. LET arg == NotEqual(NewValue)
      IN  /\ arg \in Args /\ arg.v = NewValue /\ arg.first = Equal(NewValue)
          /\ ~arg.literal /\ arg.settled
  BY <1>4, EqualType DEF NotEqual, Arg, Virtuals
<1>10. << >> \in Seq(Instrs) /\ DOMAIN << >> = {} /\ code = code \o << >>
       /\ Leaves(<< >>, NewValue, NewValue)
  BY <1>3, EmptySeq DEF Leaves
<1>. HIDE DEF once, twice
<1>11. CASE /\ code' = Append(code, Def(NewValue))
            /\ open' = WithArg(open, Arg(NewValue, FALSE, TRUE))
            /\ UNCHANGED start
  <2>1. Extends(open, open', Arg(NewValue, FALSE, TRUE), TRUE)
    BY <1>2, <1>3, <1>8, <1>11, ExtendsCases
  <2>2. \A j \in DOMAIN once : start' <= Len(code) + j
    BY <1>3, <1>6, <1>11
  <2>. QED  BY <1>5, <1>6, <1>8, <1>11, <2>1, <2>2
<1>12. CASE /\ code' = code \o <<Feq(NewValue), Def(NewValue)>>
            /\ open' = WithArg(open, NotEqual(NewValue))
            /\ UNCHANGED start
  <2>1. Extends(open, open', NotEqual(NewValue), TRUE)
    BY <1>2, <1>3, <1>9, <1>12, ExtendsCases
  <2>2. \A j \in DOMAIN twice : start' <= Len(code) + j
    BY <1>3, <1>7, <1>12
  <2>3. code' = code \o twice
    BY <1>12 DEF twice
  <2>4. ~NotEqual(NewValue).literal => \E j \in DOMAIN twice : twice[j].dest = NewValue
    BY <1>7
  <2>. QED  BY <1>5, <1>7, <1>9, <1>12, <2>1, <2>2, <2>3, <2>4
<1>13. CASE open' = WithArg(open, Arg(NewValue, TRUE, TRUE)) /\ UNCHANGED <<code, start>>
  <2>1. Extends(open, open', Arg(NewValue, TRUE, TRUE), TRUE)
    BY <1>2, <1>3, <1>8, <1>13, ExtendsCases
  <2>2. code' = code \o << >>
    BY <1>10, <1>13
  <2>. QED  BY <1>5, <1>8, <1>10, <1>13, <2>1, <2>2
<1>14. CASE /\ code' = Append(code, Def(NewValue))
            /\ open' = WithArg(Unsettled(open), Arg(NewValue, FALSE, TRUE))
            /\ start' = Len(code')
  <2>1. Extends(open, open', Arg(NewValue, FALSE, TRUE), FALSE)
    BY <1>2, <1>3, <1>8, <1>14, ExtendsCases
  <2>2. \A j \in DOMAIN once : start' <= Len(code) + j
    BY <1>3, <1>6, <1>14
  <2>. QED  BY <1>5, <1>6, <1>8, <1>14, <2>1, <2>2
<1>15. CASE /\ code' = Append(code, Def(NewValue))
            /\ open' = Unsettled(WithArg(open, Arg(NewValue, FALSE, FALSE)))
            /\ start' = Len(code') + 1
  <2>1. Extends(open, open', Arg(NewValue, FALSE, FALSE), FALSE)
    BY <1>2, <1>3, <1>8, <1>15, ExtendsCases
  <2>. QED  BY <1>5, <1>6, <1>8, <1>15, <2>1
<1>. QED  BY <1>11, <1>12, <1>13, <1>14, <1>15 DEF Operand

LEMMA NestedDelivery == TypeOK /\ TypeOK' /\ Delivery /\ Nested => Delivery'
<1>. SUFFICES ASSUME TypeOK, TypeOK', Delivery, Nested PROVE Delivery'
  OBVIOUS
<1>1. PICK s \in Signatures : open' = Append(open, [sig |-> s, args |-> << >>])
  BY DEF Nested
<1>2. GivenShape
  BY GivenFacts
<1>3. GivenShape'
  BY GivenFacts, PTL
<1>4. /\ Depth' = Depth + 1 /\ open'[Depth + 1].args = << >>
      /\ \A d \in 1 .. Depth : open'[d] = open[d]
  <2>1. [sig |-> s, args |-> << >>] \in Calls /\ open \in Seq(Calls)
    BY <1>2, EmptySeq DEF Calls, GivenShape
  <2>. QED  BY <1>1, <2>1, AppendFact DEF Depth
<1>5. ASSUME NEW g
      PROVE  g \in Given' <=> g \in Given
  <2>1. ASSUME g \in Given' PROVE g \in Given
    <3>1. g[1] \in 1 .. Depth + 1 /\ g[2] \in 1 .. Len(open'[g[1]].args) /\ g = <<g[1], g[2]>>
      BY <1>3, <1>4, <2>1 DEF GivenShape
    <3>2. g[1] # Depth + 1
      BY <1>4, <3>1
    <3>3. g[1] \in 1 .. Depth
      BY <1>2, <3>1, <3>2 DEF GivenShape
    <3>. QED  BY <1>2, <1>4, <3>1, <3>3 DEF GivenShape
  <2>2. ASSUME g \in Given PROVE g \in Given'
    <3>1. g[1] \in 1 .. Depth /\ g[2] \in 1 .. Len(open[g[1]].args) /\ g = <<g[1], g[2]>>
      BY <1>2, <2>2 DEF GivenShape
    <3>2. g[1] \in 1 .. Depth' /\ g[2] \in 1 .. Len(open'[g[1]].args)
      BY <1>2, <1>4, <3>1 DEF GivenShape
    <3>. QED  BY <1>3, <3>1, <3>2 DEF GivenShape
  <2>. QED  BY <2>1, <2>2
<1>6. \A g \in Given : ArgAt(g)' = ArgAt(g)
  BY <1>2, <1>4 DEF GivenShape, ArgAt
<1>7. Given' = Given
  BY <1>5
<1>8. OpenValues' = OpenValues
  BY <1>6, <1>7 DEF OpenValues
<1>9. /\ phase = "eval" /\ phase' = "eval" /\ pc' = pc
      /\ UNCHANGED <<code, start, values, sent, stackOffset>>
  BY DEF Nested, locals, machine
<1>10. /\ Numbered /\ Emitted(code, Len(sent)) /\ Undisturbed(code, stackOffset)
       /\ Ready(code, OpenValues) /\ Ran
  BY DEF Delivery
<1>11. Numbered'
  BY <1>6, <1>7, <1>9, <1>10 DEF Numbered
<1>12. Emitted(code, Len(sent))'
  BY <1>6, <1>7, <1>9, <1>10 DEF Emitted, Waiting
<1>13. Undisturbed(code, stackOffset)'
  BY <1>6, <1>7, <1>9, <1>10 DEF Undisturbed
<1>14. Sent(code)' /\ Ready(code, OpenValues)' /\ Ran'
  BY <1>8, <1>9, <1>10 DEF Sent, Ready, Ran
<1>. QED  BY <1>11, <1>12, <1>13, <1>14 DEF Delivery

LEMMA BeginPassDelivery == TypeOK /\ Delivery /\ BeginPass => Delivery'
<1>. SUFFICES ASSUME TypeOK, Delivery, BeginPass PROVE Delivery'
  OBVIOUS
<1>1. /\ phase = "eval" /\ phase' = "pass" /\ sent' = << >> /\ Len(sent') = 0 /\ DOMAIN sent' = {}
      /\ UNCHANGED <<open, code, start, values, pc>>
  BY DEF BeginPass, machine
<1>2. GivenShape
  BY GivenFacts
<1>3. /\ Numbered /\ Emitted(code, Len(sent)) /\ Undisturbed(code, stackOffset)
      /\ Ready(code, OpenValues) /\ Ran
  BY DEF Delivery
<1>4. Given' = Given /\ OpenValues' = OpenValues /\ \A g : ArgAt(g)' = ArgAt(g)
  BY <1>1 DEF Given, OpenValues, ArgAt
<1>5. Numbered'
  BY <1>1, <1>3, <1>4 DEF Numbered
<1>6. Emitted(code, Len(sent))'
  BY <1>1, <1>3, <1>4 DEF Emitted, Waiting
<1>7. Undisturbed(code, stackOffset)'
  BY <1>1, <1>3, <1>4 DEF Undisturbed, Quiet
<1>8. Sent(code)' /\ Ready(code, OpenValues)' /\ Ran'
  BY <1>1, <1>3, <1>4 DEF Sent, Ready, Ran
<1>. QED  BY <1>5, <1>6, <1>7, <1>8 DEF Delivery

\* What is at home after an instruction that writes elsewhere.
LEMMA RunDelivery == TypeOK /\ Delivery /\ Run => Delivery'
<1>. SUFFICES ASSUME TypeOK, Delivery, Run PROVE Delivery'
  OBVIOUS
<1>. DEFINE ins == code[pc]
<1>1. /\ phase = "run" /\ phase' = "run" /\ pc \in DOMAIN code /\ pc' = pc + 1 /\ pc \in Nat
      /\ code \in Seq(Instrs) /\ DOMAIN code = 1 .. Len(code) /\ Len(code) \in Nat
      /\ UNCHANGED <<open, code, start, values, sent, stackOffset, intOrder, floatOrder>>
  BY LenProperties DEF Run, TypeOK, locals
<1>2. /\ Numbered /\ Emitted(code, Len(sent)) /\ Undisturbed(code, stackOffset)
      /\ Ready(code, OpenValues) /\ Ran
  BY DEF Delivery
<1>3. Given' = Given /\ OpenValues' = OpenValues /\ \A g : ArgAt(g)' = ArgAt(g)
  BY <1>1 DEF Given, OpenValues, ArgAt
<1>4. /\ Numbered' /\ Emitted(code, Len(sent))' /\ Undisturbed(code, stackOffset)'
      /\ Sent(code)' /\ Ready(code, OpenValues)'
  BY <1>1, <1>2, <1>3 DEF Numbered, Emitted, Undisturbed, Sent, Ready, Waiting
<1>5. \A j \in DOMAIN code : WellMade(code[j], values) /\ code[j] \in Instrs
  BY <1>1, <1>2, ElementOfSeq DEF Emitted
<1>6. values \in Nat
  BY DEF TypeOK
\* A register keeps what it has been given.
<1>7. ASSUME NEW x \in Virtuals, NEW w,
             \/ Get(regs, x) = w /\ ins.dest # x
             \/ ins.op = "def" /\ ins.dest = x /\ ins.src = w
      PROVE  Get(regs', x) = w
  <2>1. CASE regs' = Put(regs, ins.dest, ins.src) /\ ins.op = "def"
    BY <1>7, <2>1 DEF Put, Get
  <2>2. CASE regs' = Put(regs, ins.dest, Get(regs, ins.src)) /\ ins.op = "move"
    <3>1. ins.dest # x
      BY <1>1, <1>5, <1>6, <2>2, Destinations
    <3>. QED  BY <1>7, <2>2, <3>1 DEF Put, Get
  <2>3. CASE UNCHANGED regs /\ ins.op = "save"
    BY <1>7, <2>3
  <2>4. CASE AfterCall(ins.sig) /\ ins.op = "call"
    <3>1. x.in = "virtual"
      BY DEF Virtuals
    <3>. QED  BY <1>7, <2>4, <3>1 DEF AfterCall, Get
  <2>. QED  BY <2>1, <2>2, <2>3, <2>4 DEF Run
<1>8. ASSUME NEW j \in DOMAIN code, LastBefore(code, j, pc', code[j].dest)
      PROVE  Get(regs', code[j].dest) = code[j].src
  <2>1. j \in 1 .. pc /\ code[j].op = "def" /\ \A i \in j + 1 .. pc : code[i].dest # code[j].dest
    BY <1>1, <1>8 DEF LastBefore
  <2>2. code[j].dest \in Virtuals
    BY <1>5, <1>6, <2>1, Destinations
  <2>3. CASE j = pc
    BY <1>7, <2>1, <2>2, <2>3
  <2>4. CASE j # pc
    <3>1. j \in 1 .. pc - 1 /\ pc \in j + 1 .. pc /\ \A i \in j + 1 .. pc - 1 : i \in j + 1 .. pc
      BY <1>1, <2>1, <2>4
    <3>2. LastBefore(code, j, pc, code[j].dest)
      BY <2>1, <3>1 DEF LastBefore
    <3>3. Get(regs, code[j].dest) = code[j].src
      BY <1>1, <1>2, <3>2 DEF Ran
    <3>. QED  BY <1>7, <2>1, <2>2, <3>1, <3>3
  <2>. QED  BY <2>3, <2>4
\* A harmless instruction leaves a home alone.
<1>9. ASSUME NEW home \in Homes, Harmless(ins, home)
      PROVE  Received(home)' = Received(home)
  <2>1. CASE regs' = Put(regs, ins.dest, ins.src) /\ UNCHANGED out
    BY <1>9, <2>1 DEF Put, Get, Received, Harmless
  <2>2. CASE regs' = Put(regs, ins.dest, Get(regs, ins.src)) /\ UNCHANGED out
    BY <1>9, <2>2 DEF Put, Get, Received, Harmless
  <2>3. CASE out' = Put(out, ins.dest, Get(regs, ins.src)) /\ UNCHANGED regs
    BY <1>9, <2>3 DEF Put, Get, Received, Harmless
  <2>4. CASE AfterCall(ins.sig) /\ ins.op = "call"
    <3>1. home.in = "stack" /\ \A i \in OnStack(ins.sig) : home # Home(ins.sig, i)
      BY <1>9, <2>4 DEF Harmless
    <3>2. Get(out', home) = Get(out, home)
      BY <2>4, <3>1 DEF AfterCall, Get
    <3>. QED  BY <3>1, <3>2 DEF Received
  <2>. QED  BY <2>1, <2>2, <2>3, <2>4 DEF Run
\* The instruction that opens a window fills it.
<1>10. ASSUME NEW home \in Homes, NEW w, ins.op \in {"move", "save"}, ins.dest = home,
              Get(regs, ins.src) = w
       PROVE  Received(home)' = w
  <2>1. home \in Places /\ (home.in = "stack" <=> ins.op = "save")
    BY <1>1, <1>5, <1>6, <1>10, Destinations DEF Homes
  <2>2. CASE ins.op = "move"
    <3>1. regs' = Put(regs, home, w)
      BY <1>10, <2>2 DEF Run
    <3>. QED  BY <2>1, <2>2, <3>1 DEF Put, Get, Received
  <2>3. CASE ins.op = "save"
    <3>1. out' = Put(out, home, w)
      BY <1>10, <2>3 DEF Run
    <3>. QED  BY <2>1, <2>3, <3>1 DEF Put, Get, Received
  <2>. QED  BY <1>10, <2>2, <2>3
<1>11. ASSUME NEW m \in DOMAIN code, NEW k \in DOMAIN code, m < pc', pc' <= k,
              NEW home, NEW v, NEW w, home = code[m].dest, v = code[m].src,
              Window(code, m, k, home, v, w)
       PROVE  Received(home)' = w
  <2>1. m \in 1 .. k - 1 /\ pc \in 1 .. k - 1 /\ k \in Nat /\ m \in Nat
    BY <1>1, <1>11
  <2>2. code[m].op \in {"move", "save"}
    BY <1>11 DEF Window
  <2>3. home \in Homes
    BY <1>5, <1>6, <1>11, <2>2 DEF WellMade
  <2>4. CASE m = pc
    <3>1. PICK d \in 1 .. m - 1 : LastBefore(code, d, m, v) /\ code[d].src = w
      BY <1>11 DEF Window
    <3>2. d \in DOMAIN code /\ code[d].dest = v
      BY <1>1, <2>1, <2>4, <3>1 DEF LastBefore
    <3>3. Get(regs, v) = w
      BY <1>1, <1>2, <2>4, <3>1, <3>2 DEF Ran
    <3>. QED  BY <1>10, <1>11, <2>2, <2>3, <2>4, <3>3
  <2>5. CASE m # pc
    <3>1. m < pc /\ pc <= k /\ pc \in m + 1 .. k - 1
      BY <1>1, <1>11, <2>1, <2>5
    <3>2. Received(home) = w
      BY <1>1, <1>2, <1>11, <3>1 DEF Ran
    <3>3. Harmless(ins, home)
      BY <1>11, <3>1 DEF Window
    <3>. QED  BY <1>9, <2>3, <3>2, <3>3
  <2>. QED  BY <2>4, <2>5
<1>12. Ran'
  BY <1>1, <1>8, <1>11 DEF Ran
<1>. QED  BY <1>4, <1>12 DEF Delivery

\* The parameters of a call are where the callee looks for them when the loop
\* is through, and with none on the stack there is nothing to fear from it.
LEMMA PassedParameters ==
  ASSUME TypeOK, Delivery, Counted, phase = "pass", Len(sent) = Len(Call.sig)
  PROVE  /\ Call \in Calls /\ DOMAIN sent = DOMAIN Call.sig
         /\ \A i \in DOMAIN Call.sig : Home(Call.sig, i) = sent[i]
         /\ \A i \in DOMAIN Call.sig :
              Guaranteed(sent[i], Call.args[i])
                => Kept(code, Len(code) + 1, sent[i], Call.args[i], OuterValues)
         /\ stackOffset = 0 => OnStack(Call.sig) = {}
<1>1. Call \in Calls /\ Len(Call.sig) \in Nat
  BY InnermostCall, SignatureShape DEF TypeOK, Calls, Call, Depth
<1>2. sent \in Seq(Places) /\ DOMAIN sent = 1 .. Len(sent) /\ \A i \in DOMAIN sent : sent[i] \in Places
  BY LenProperties, ElementOfSeq DEF TypeOK
<1>3. DOMAIN Call.sig = 1 .. Len(Call.sig)
  BY <1>1, SignatureShape DEF Calls
<1>4. \A i \in DOMAIN Call.sig : Home(Call.sig, i) = sent[i]
  BY <1>3 DEF Counted
<1>5. Sent(code)
  BY DEF Delivery
<1>6. \A i \in DOMAIN Call.sig :
        Guaranteed(sent[i], Call.args[i])
          => Kept(code, Len(code) + 1, sent[i], Call.args[i], OuterValues)
  BY <1>2, <1>3, <1>5 DEF Sent
<1>7. ASSUME stackOffset = 0 PROVE OnStack(Call.sig) = {}
  <2>1. ASSUME NEW i \in DOMAIN Call.sig, Home(Call.sig, i).in = "stack" PROVE FALSE
    <3>1. sent[i].in = "stack" /\ i \in DOMAIN sent
      BY <1>2, <1>3, <1>4, <2>1
    <3>2. sent[i].at < 0
      BY <1>5, <1>7, <3>1 DEF Sent
    <3>3. sent[i].at \in Nat
      BY <1>2, <3>1 DEF Places
    <3>. QED  BY <3>2, <3>3
  <2>. QED  BY <2>1 DEF OnStack
<1>. QED  BY <1>1, <1>2, <1>3, <1>4, <1>6, <1>7

LEMMA EndPassDelivery == TypeOK /\ TypeOK' /\ Counted /\ Delivery /\ EndPass => Delivery'
<1>. SUFFICES ASSUME TypeOK, TypeOK', Counted, Delivery, EndPass PROVE Delivery'
  OBVIOUS
<1>1. PICK call, t, res, outer, n :
        /\ call = [Ins("call", Junk, Junk) EXCEPT !.sig = Call.sig, !.args = Call.args]
        /\ t = <<call, Def(NewValue)>> /\ res = Arg(NewValue, FALSE, TRUE)
        /\ outer = SubSeq(open, 1, Depth - 1) /\ n = Depth - 1
  OBVIOUS
<1>2. /\ phase = "pass" /\ phase' # "pass" /\ values' = values + 1 /\ code' = code \o t
      /\ Len(sent) = Len(Call.sig)
      /\ UNCHANGED <<start, sent, stackOffset, pc>>
  BY <1>1 DEF EndPass, locals, machine
<1>3. /\ Call \in Calls /\ DOMAIN sent = DOMAIN Call.sig
      /\ \A i \in DOMAIN Call.sig : Home(Call.sig, i) = sent[i]
      /\ \A i \in DOMAIN Call.sig :
           Guaranteed(sent[i], Call.args[i])
             => Kept(code, Len(code) + 1, sent[i], Call.args[i], OuterValues)
      /\ stackOffset = 0 => OnStack(Call.sig) = {}
  BY <1>2, PassedParameters
<1>4. /\ NewValue \in Virtuals /\ Def(NewValue) \in Instrs /\ res \in Args
      /\ res.v = NewValue /\ res.first = NewValue /\ ~res.literal /\ res.settled
      /\ \A j \in DOMAIN code : code[j].dest # NewValue
  <2>1. NewValue \in Places
    BY NewValueType
  <2>2. Def(NewValue) \in Instrs
    BY <2>1, InsTypes DEF Fitting
  <2>. QED  BY <1>1, <2>1, <2>2, NewValueFresh DEF Arg, Args
<1>5. /\ call \in Instrs /\ call.op = "call" /\ call.dest = Junk
      /\ call.sig = Call.sig /\ call.args = Call.args
  BY <1>1, <1>3 DEF Ins, Instrs, Calls
<1>6. /\ t \in Seq(Instrs) /\ Len(t) = 2 /\ DOMAIN t = 1 .. 2 /\ t[1] = call /\ t[2] = Def(NewValue)
      /\ Def(NewValue).op = "def" /\ Def(NewValue).dest = NewValue /\ Def(NewValue).src = NewValue
  BY <1>1, <1>4, <1>5 DEF Def, Ins
<1>7. GivenShape
  BY GivenFacts
<1>8. /\ code \in Seq(Instrs) /\ Len(code) \in Nat /\ start \in 1 .. Len(code) + 1
      /\ DOMAIN code = 1 .. Len(code) /\ stackOffset \in Nat /\ open # << >>
  BY <1>2, LenProperties DEF TypeOK
<1>9. /\ \A j \in 1 .. Len(code) : code'[j] = code[j]
      /\ code'[Len(code) + 1] = call
  <2>1. /\ \A j \in 1 .. Len(code) : code'[j] = code[j]
        /\ \A j \in 1 .. Len(t) : code'[Len(code) + j] = t[j]
    <3>1. code \in Seq(Instrs) /\ t \in Seq(Instrs) /\ code' = code \o t
      BY <1>2, <1>6, <1>8
    <3>. QED  BY <3>1, ConcatIs
  <2>. QED  BY <1>6, <1>8, <2>1
<1>10. /\ Depth \in Nat \ {0} /\ Depth = Len(open) /\ open \in Seq(Calls)
      /\ \A d \in 1 .. Depth : open[d] \in Calls
  <2>1. Depth # 0
    BY <1>7, <1>8, EmptySeq DEF GivenShape
  <2>. QED  BY <1>7, <2>1 DEF GivenShape
<1>11. PICK new : new = <<n, Len(open[n].args) + 1>>
  OBVIOUS
\* The call just emitted is ready whatever is open afterwards.
<1>12. ASSUME \A x \in OpenValues' : x = NewValue \/ x \in OuterValues
       PROVE  CallReady(code', Len(code) + 1, OpenValues')
  <2>1. \A j \in 1 .. (Len(code) + 1) - 1 :
           code'[j] = code[j] /\ (code[j].dest \in OpenValues' => code[j].dest \in OuterValues)
    BY <1>4, <1>8, <1>9, <1>12
  <2>2. ASSUME NEW home, NEW arg, Kept(code, Len(code) + 1, home, arg, OuterValues)
        PROVE  Kept(code', Len(code) + 1, home, arg, OpenValues')
    <3>1. Len(code) + 1 \in Nat
      BY <1>8
    <3>. QED  BY <2>1, <2>2, <3>1, KeptAgree
  <2>. QED  BY <1>3, <1>5, <1>9, <2>2 DEF CallReady
<1>13. ASSUME \A x \in OpenValues' : x = NewValue \/ x \in OuterValues
       PROVE  \A j \in DOMAIN t :
                \/ /\ t[j].op = "def" /\ t[j].dest = NewValue
                   /\ \A k \in DOMAIN t : j < k => t[k].op = "def"
                \/ /\ t[j].op = "call" /\ t[j].dest = Junk
                   /\ CallReady(code', Len(code) + j, OpenValues')
  <2>1. \A j \in DOMAIN t : j = 1 \/ j = 2
    BY <1>6
  <2>. QED  BY <1>5, <1>6, <1>12, <1>13, <2>1
<1>14. Ran'
  <2>1. pc' = 1
    BY <1>2 DEF Delivery, Ran
  <2>2. phase' = "run" => Ran'
    <3>. SUFFICES ASSUME phase' = "run" PROVE Ran'
      OBVIOUS
    <3>1. DOMAIN code' = 1 .. Len(code')
      BY LenProperties DEF TypeOK
    <3>2. \A j \in DOMAIN code' : ~(j < pc')
      BY <2>1, <3>1
    <3>3. \A j, v : ~LastBefore(code', j, pc', v)
      BY <2>1 DEF LastBefore
    <3>. QED  BY <3>2, <3>3 DEF Ran
  <2>. QED  BY <2>1, <2>2 DEF Ran
<1>15. CASE Depth = 1
  <2>1. open' = << >>
    BY <1>15 DEF EndPass
  <2>2. Given' = {} /\ OpenValues' = {}
    <3>1. DOMAIN open' = {}
      BY <2>1
    <3>. QED  BY <3>1 DEF Given, OpenValues
  <2>3. \A j \in DOMAIN t :
          \/ /\ t[j].op = "def" /\ t[j].dest = NewValue
             /\ \A k \in DOMAIN t : j < k => t[k].op = "def"
          \/ /\ t[j].op = "call" /\ t[j].dest = Junk
             /\ CallReady(code', Len(code) + j, OpenValues')
    BY <1>13, <2>2
  <2>4. /\ Numbered' /\ Emitted(code, Len(sent))' /\ Undisturbed(code, stackOffset)'
        /\ Sent(code)' /\ Ready(code, OpenValues)'
    BY <1>2, <1>6, <2>2, <2>3, ArgumentAdded
  <2>. QED  BY <1>14, <2>4 DEF Delivery
<1>16. CASE Depth > 1
  <2>1. PICK rest, kept : /\ rest = (IF stackOffset > 0 THEN Unsettled(outer) ELSE outer)
                          /\ kept = (IF stackOffset > 0 THEN FALSE ELSE TRUE)
                          /\ open' = WithArg(rest, res)
    <3>1. Depth # 1
      BY <1>16
    <3>. QED  BY <1>1, <3>1, Zenon DEF EndPass
  <2>2. /\ outer \in Seq(Calls) /\ Len(outer) = n /\ n \in Nat \ {0}
        /\ \A d \in 1 .. n : outer[d] = open[d]
    <3>1. \A d \in 1 .. Depth - 1 : open[d] \in Calls
      BY <1>10
    <3>2. Depth - 1 \in Nat \ {0}
      BY <1>10, <1>16
    <3>. QED  BY <1>1, <1>10, <3>1, <3>2, SubSeqProperties
  <2>3. outer # << >>
    BY <2>2, EmptySeq
  <2>4. Extends(outer, open', res, kept)
    <3>1. CASE stackOffset > 0
      <4>1. kept = FALSE /\ rest = Unsettled(outer)
        BY <2>1, <3>1, Zenon
      <4>2. Extends(outer, WithArg(Unsettled(outer), res), res, FALSE)
        BY <1>4, <2>2, <2>3, ExtendsCases
      <4>. QED  BY <2>1, <4>1, <4>2, Zenon
    <3>2. CASE ~(stackOffset > 0)
      <4>1. kept = TRUE /\ rest = outer
        BY <2>1, <3>2, Zenon
      <4>2. Extends(outer, WithArg(outer, res), res, TRUE)
        BY <1>4, <2>2, <2>3, ExtendsCases
      <4>. QED  BY <2>1, <4>1, <4>2, Zenon
    <3>. QED  BY <3>1, <3>2
  <2>5. /\ \A g \in Given' : ~Before(new, g)
        /\ \A g \in Given' : g # new =>
             /\ g \in Given /\ Before(g, new) /\ Waiting(g, Len(sent))
             /\ ArgAt(g)'.v = ArgAt(g).v /\ ArgAt(g)'.first = ArgAt(g).first
             /\ ArgAt(g)'.literal = ArgAt(g).literal
             /\ ArgAt(g)'.settled => kept /\ ArgAt(g).settled
        /\ ArgAt(new)' = res
    <3>1. n <= Depth /\ n < Depth /\ Len(outer) = n
      BY <1>1, <1>10, <2>2
    <3>2. kept \in BOOLEAN /\ \A d \in 1 .. n : outer[d] = open[d]
      <4>1. kept \in BOOLEAN
        BY <2>1, Zenon
      <4>. QED  BY <2>2, <4>1
    <3>. QED  BY <1>11, <2>4, <3>1, <3>2, ExtendsGiven
  <2>6. \A g \in Given' : g # new => g[1] < Depth
    <3>1. \A g \in Given : g[1] \in Int
      BY <1>7 DEF GivenShape
    <3>2. \A g \in Given' : g # new => g[1] \in Int /\ (g[1] < n \/ g[1] = n)
      BY <1>11, <2>5, <3>1 DEF Before
    <3>. QED  BY <1>1, <1>10, <3>2
  <2>7. \A x \in OpenValues' : x = NewValue \/ x \in OuterValues
    <3>1. \A g \in Given' : ArgAt(g)'.v = NewValue \/ ArgAt(g)'.v \in OuterValues
      BY <1>4, <2>5, <2>6 DEF OuterValues
    <3>. QED  BY <3>1 DEF OpenValues
  <2>8. \A j \in DOMAIN t :
          \/ /\ t[j].op = "def" /\ t[j].dest = NewValue
             /\ \A k \in DOMAIN t : j < k => t[k].op = "def"
          \/ /\ t[j].op = "call" /\ t[j].dest = Junk
             /\ CallReady(code', Len(code) + j, OpenValues')
    BY <1>13, <2>7
  <2>9. ASSUME kept
        PROVE  /\ \A ins \in Instrs : WellMade(ins, values) /\ Quiet(ins, phase, stackOffset)
                                        => Quiet(ins, phase', stackOffset')
               /\ \A j \in DOMAIN t : Quiet(t[j], phase', stackOffset')
    <3>1. stackOffset = 0
      BY <1>8, <2>1, <2>9
    <3>2. \A p \in Places : ~(p.at < 0)
      BY DEF Places
    <3>3. \A ins \in Instrs : WellMade(ins, values) /\ ins.op = "save" => ~(ins.dest.at < 0)
      BY <3>2 DEF WellMade, Homes
    <3>4. \A ins \in Instrs : WellMade(ins, values) /\ Quiet(ins, phase, stackOffset)
                                => Quiet(ins, phase', stackOffset')
      BY <3>1, <3>3 DEF Quiet
    <3>5. \A j \in DOMAIN t : Quiet(t[j], phase', stackOffset')
      <4>1. OnStack(call.sig) = {}
        BY <1>3, <1>5, <3>1
      <4>2. \A j \in DOMAIN t : j = 1 \/ j = 2
        BY <1>6
      <4>. QED  BY <1>5, <1>6, <4>1, <4>2 DEF Quiet
    <3>. QED  BY <3>4, <3>5
  <2>10. /\ ArgAt(new)'.v = NewValue /\ ~ArgAt(new)'.literal
         /\ Leaves(t, NewValue, ArgAt(new)'.first)
         /\ \E j \in DOMAIN t : t[j].dest = NewValue
         /\ \A j \in DOMAIN t : start' <= Len(code) + j
    <3>1. Leaves(t, NewValue, NewValue)
      <4>1. call.dest # NewValue /\ \A j \in DOMAIN t : j = 1 \/ j = 2
        BY <1>4, <1>5, <1>6, JunkOK DEF Virtuals
      <4>. QED  BY <1>6, <4>1 DEF Leaves
    <3>2. \E j \in DOMAIN t : t[j].dest = NewValue
      BY <1>6
    <3>3. \A j \in DOMAIN t : start' <= Len(code) + j
      BY <1>2, <1>6, <1>8
    <3>. QED  BY <1>4, <2>5, <3>1, <3>2, <3>3
  <2>11. /\ Numbered' /\ Emitted(code, Len(sent))' /\ Undisturbed(code, stackOffset)'
         /\ Sent(code)' /\ Ready(code, OpenValues)'
    BY <1>2, <1>6, <2>5, <2>8, <2>9, <2>10, ArgumentAdded
  <2>. QED  BY <1>14, <2>11 DEF Delivery
<1>. QED  BY <1>10, <1>15, <1>16

-----------------------------------------------------------------------------
\* The code once getRegFromValue has loaded the parameter, if it is a constant.
LoadedCode ==
  LET arg == Call.args[Len(sent) + 1]
  IN  IF arg.literal THEN Append(code, Def(arg.v)) ELSE code

LEMMA LoadedDelivery ==
  ASSUME TypeOK, Delivery, phase = "pass", Len(sent) < Len(Call.sig),
         NEW n, n = Len(sent) + 1, NEW c, c = LoadedCode, NEW g, g = <<Depth, n>>, NEW v, v = Call.args[n].v
  PROVE  /\ c \in Seq(Instrs) /\ start <= Len(c) + 1
         /\ Emitted(c, n) /\ Undisturbed(c, stackOffset) /\ Sent(c) /\ Ready(c, OpenValues)
         /\ g \in Given /\ ArgAt(g) = Call.args[n] /\ v \in Virtuals
         /\ \E d \in DOMAIN c : c[d].dest = v
         /\ Call.args[n].literal =>
              start <= Len(c) /\ Len(c) \in DOMAIN c /\ \A d \in DOMAIN c : c[d].dest = v <=> d = Len(c)
<1>1. GivenShape
  BY GivenFacts
<1>2. /\ n \in Nat \ {0} /\ n \in 1 .. Len(Call.args) /\ Call.args[n] \in Args /\ Len(sent) \in Nat
  BY Current DEF TypeOK
<1>3. Depth \in 1 .. Depth /\ Call = open[Depth] /\ Depth \in Nat \ {0}
  <2>1. Depth # 0
    <3>1. open # << >>
      BY DEF TypeOK
    <3>. QED  BY <1>1, <3>1, EmptySeq DEF GivenShape
  <2>. QED  BY <1>1, <2>1 DEF GivenShape, Call
<1>4. g \in Given /\ ArgAt(g) = Call.args[n] /\ g[1] = Depth /\ g[2] = n
  BY <1>1, <1>2, <1>3 DEF GivenShape
<1>5. /\ Numbered /\ Emitted(code, Len(sent)) /\ Undisturbed(code, stackOffset)
      /\ Sent(code) /\ Ready(code, OpenValues)
  BY DEF Delivery
<1>6. /\ v \in Virtuals /\ v.at <= values /\ v \in Places
      /\ \A h \in Given : Before(g, h) \/ Before(h, g) => ArgAt(h).v # v
  <2>1. \A h \in Given : ArgAt(h).v \in Virtuals /\ ArgAt(h).v.at \in Nat
    BY <1>5 DEF Numbered, Virtuals, Places
  <2>. QED  BY <1>4, <1>5, <2>1 DEF Numbered, Virtuals
<1>7. \A h \in Given : h # g => Before(g, h) \/ Before(h, g)
  <2>. SUFFICES ASSUME NEW h \in Given, h # g PROVE Before(g, h) \/ Before(h, g)
    OBVIOUS
  <2>1. h = <<h[1], h[2]>> /\ h[1] \in Nat /\ h[2] \in Nat
    BY <1>1 DEF GivenShape
  <2>2. h[1] # Depth \/ h[2] # n
    BY <2>1
  <2>. QED  BY <1>2, <1>3, <1>4, <2>1, <2>2 DEF Before
<1>8. /\ code \in Seq(Instrs) /\ Len(code) \in Nat /\ DOMAIN code = 1 .. Len(code)
      /\ start \in 1 .. Len(code) + 1
  BY LenProperties DEF TypeOK
<1>9. CASE ~Call.args[n].literal
  <2>1. c = code
    BY <1>9 DEF LoadedCode
  <2>2. \A h \in Given : Waiting(h, n) => Waiting(h, Len(sent))
    BY <1>1, <1>2 DEF Waiting, GivenShape
  <2>3. Emitted(c, n)
    BY <1>5, <2>1, <2>2 DEF Emitted
  <2>4. \E d \in DOMAIN c : c[d].dest = v
    BY <1>4, <1>5, <1>9, <2>1 DEF Emitted
  <2>. QED  BY <1>4, <1>5, <1>6, <1>8, <1>9, <2>1, <2>3, <2>4
<1>10. CASE Call.args[n].literal
  <2>1. c = Append(code, Def(v)) /\ Def(v) \in Instrs
    BY <1>6, <1>10, InsTypes DEF LoadedCode, Fitting
  <2>2. /\ c \in Seq(Instrs) /\ Len(c) = Len(code) + 1 /\ DOMAIN c = 1 .. Len(code) + 1
        /\ \A j \in 1 .. Len(code) : c[j] = code[j]
        /\ c[Len(code) + 1] = Def(v)
    <3>. HIDE DEF Def
    <3>1. c \in Seq(Instrs) /\ Len(c) = Len(code) + 1
      BY <1>8, <2>1, AppendFact
    <3>. QED  BY <1>8, <2>1, <3>1, AppendFact, LenProperties
  <2>3. Def(v).op = "def" /\ Def(v).dest = v /\ Def(v).src = v
    BY DEF Def, Ins
  <2>4. \A j \in DOMAIN code : code[j].dest # v
    <3>1. Waiting(g, Len(sent))
      BY <1>2, <1>4 DEF Waiting
    <3>. QED  BY <1>4, <1>5, <1>10, <3>1 DEF Emitted
  <2>5. \A j \in DOMAIN c : (j \in DOMAIN code /\ c[j] = code[j]) \/ j = Len(code) + 1
    BY <1>8, <2>2
  <2>6. \A d \in DOMAIN c : c[d].dest = v <=> d = Len(c)
    BY <1>8, <2>2, <2>3, <2>4, <2>5
  \* The argument h is defined where it was, or it is v.
  <2>7. ASSUME NEW h \in Given, h # g, NEW j \in DOMAIN c, c[j].dest = ArgAt(h).v
        PROVE  j \in DOMAIN code /\ code[j].dest = ArgAt(h).v
    BY <1>6, <1>7, <2>2, <2>3, <2>5, <2>7
  <2>8. \A j \in DOMAIN c : WellMade(c[j], values)
    <3>1. WellMade(Def(v), values)
      BY <1>6, <2>3 DEF WellMade
    <3>2. \A j \in DOMAIN code : WellMade(code[j], values)
      BY <1>5 DEF Emitted
    <3>. QED  BY <2>2, <2>5, <3>1, <3>2
  <2>9. ASSUME NEW h \in Given
         PROVE  /\ Leaves(c, ArgAt(h).v, ArgAt(h).first)
                /\ ArgAt(h).literal => ArgAt(h).first = ArgAt(h).v
    <3>1. Leaves(code, ArgAt(h).v, ArgAt(h).first) /\ (ArgAt(h).literal => ArgAt(h).first = ArgAt(h).v)
      BY <1>5 DEF Emitted
    <3>2. CASE h = g
      <4>1. c[Len(c)].src = v /\ ArgAt(g).v = v /\ ArgAt(g).first = v
        BY <1>4, <1>10, <2>2, <2>3, <3>1, <3>2
      <4>. QED  BY <2>6, <3>1, <3>2, <4>1 DEF Leaves
    <3>3. CASE h # g
      <4>1. ArgAt(h).v # v
        BY <1>6, <1>7, <3>3
      <4>2. c = code \o <<Def(v)>> /\ <<Def(v)>> \in Seq(Instrs)
        BY <1>8, <2>1
      <4>3. \A k \in DOMAIN <<Def(v)>> : <<Def(v)>>[k].dest # ArgAt(h).v
        BY <2>3, <4>1
      <4>. HIDE DEF Def
      <4>. QED  BY <1>8, <3>1, <4>2, <4>3, LeavesConcat
    <3>. QED  BY <3>2, <3>3
  <2>10. Emitted(c, n)
    <3>1. ASSUME NEW h \in Given, ~ArgAt(h).literal PROVE \E j \in DOMAIN c : c[j].dest = ArgAt(h).v
      <4>1. PICK j \in DOMAIN code : code[j].dest = ArgAt(h).v
        BY <1>5, <3>1 DEF Emitted
      <4>2. j \in DOMAIN c /\ c[j] = code[j]
        BY <1>8, <2>2
      <4>. QED  BY <4>1, <4>2
    <3>2. ASSUME NEW h \in Given, ArgAt(h).literal, Waiting(h, n), NEW j \in DOMAIN c
          PROVE  c[j].dest # ArgAt(h).v
      <4>1. h # g /\ Waiting(h, Len(sent))
        BY <1>1, <1>2, <1>4, <3>2 DEF Waiting, GivenShape
      <4>. QED  BY <1>5, <2>7, <3>2, <4>1 DEF Emitted
    <3>3. ASSUME NEW h \in Given, NEW i \in Given, NEW j \in DOMAIN c, NEW k \in DOMAIN c,
                 h[1] < i[1], c[j].dest = ArgAt(h).v, c[k].dest = ArgAt(i).v
          PROVE  j < k
      <4>1. h # g
        <5>1. i[1] <= Depth /\ i[1] \in Nat
          BY <1>1 DEF GivenShape
        <5>. QED  BY <1>3, <1>4, <3>3, <5>1
      <4>2. j \in DOMAIN code /\ code[j].dest = ArgAt(h).v
        BY <2>7, <3>3, <4>1
      <4>3. CASE i = g
        <5>1. k = Len(code) + 1
          BY <1>4, <2>2, <2>6, <3>3, <4>3
        <5>. QED  BY <1>8, <4>2, <5>1
      <4>4. CASE i # g
        <5>1. k \in DOMAIN code /\ code[k].dest = ArgAt(i).v
          BY <2>7, <3>3, <4>4
        <5>. QED  BY <1>5, <3>3, <4>2, <5>1 DEF Emitted
      <4>. QED  BY <4>3, <4>4
    <3>. QED  BY <2>8, <2>9, <3>1, <3>2, <3>3 DEF Emitted
  <2>11. Undisturbed(c, stackOffset)
    <3>. SUFFICES ASSUME NEW h \in Given, ArgAt(h).settled, ~ArgAt(h).literal,
                         NEW j \in DOMAIN c, c[j].dest = ArgAt(h).v
                  PROVE  start <= j /\ \A k \in DOMAIN c : j < k => Quiet(c[k], phase, stackOffset)
      BY DEF Undisturbed
    <3>1. h # g
      BY <1>4, <1>10
    <3>2. j \in DOMAIN code /\ code[j].dest = ArgAt(h).v
      BY <2>7, <3>1
    <3>3. start <= j /\ \A k \in DOMAIN code : j < k => Quiet(code[k], phase, stackOffset)
      BY <1>5, <3>2 DEF Undisturbed
    <3>4. Quiet(c[Len(code) + 1], phase, stackOffset)
      BY <2>2, <2>3 DEF Quiet
    <3>. QED  BY <2>5, <3>3, <3>4
  <2>12. Sent(c)
    <3>1. ASSUME NEW i \in DOMAIN sent, Kept(code, Len(code) + 1, sent[i], Call.args[i], OuterValues)
          PROVE  Kept(c, Len(c) + 1, sent[i], Call.args[i], OuterValues)
      <4>1. \A j \in 1 .. (Len(code) + 1) - 1 : c[j] = code[j]
        BY <1>8, <2>2
      <4>2. sent[i] \in Homes
        <5>1. sent[i] \in Places
          BY ElementOfSeq, LenProperties DEF TypeOK
        <5>2. sent[i].in \in {"stack", "reg"}
          BY <1>5 DEF Sent
        <5>. QED  BY <5>1, <5>2 DEF Homes
      <4>3. Harmless(c[Len(code) + 1], sent[i])
        BY <1>6, <2>2, <2>3, <4>2 DEF Harmless, Homes, Virtuals
      <4>4. c[Len(code) + 1].dest \notin OuterValues
        <5>1. ASSUME NEW h \in Given, h[1] < Depth PROVE ArgAt(h).v # v
          <6>1. h # g
            BY <1>3, <1>4, <5>1
          <6>. QED  BY <1>6, <1>7, <6>1
        <5>. QED  BY <2>2, <2>3, <5>1 DEF OuterValues
      <4>5. PICK k \in Nat : k = Len(code) + 1
        BY <1>8
      <4>6. Kept(c, k + 1, sent[i], Call.args[i], OuterValues)
        BY <3>1, <4>1, <4>3, <4>4, <4>5, KeptAgree
      <4>. QED  BY <2>2, <4>5, <4>6
    <3>. QED  BY <1>5, <3>1 DEF Sent
  <2>13. Ready(c, OpenValues)
    <3>. SUFFICES ASSUME NEW k \in DOMAIN c, c[k].op = "call" PROVE CallReady(c, k, OpenValues)
      BY DEF Ready
    <3>1. k \in DOMAIN code /\ c[k] = code[k]
      BY <2>2, <2>3, <2>5
    <3>2. CallReady(code, k, OpenValues)
      BY <1>5, <3>1 DEF Ready
    <3>3. \A j \in 1 .. k - 1 : c[j] = code[j]
      BY <1>8, <2>2, <3>1
    <3>4. ASSUME NEW home, NEW arg, Kept(code, k, home, arg, OpenValues)
          PROVE  Kept(c, k, home, arg, OpenValues)
      <4>1. k \in Nat
        BY <1>8, <3>1
      <4>. QED  BY <3>3, <3>4, <4>1, KeptAgree
    <3>. QED  BY <3>1, <3>2, <3>4 DEF CallReady
  <2>14. start <= Len(c) /\ Len(c) \in DOMAIN c
    BY <1>8, <2>2
  <2>. QED  BY <1>4, <1>6, <1>8, <2>2, <2>6, <2>10, <2>11, <2>12, <2>13, <2>14
<1>. QED  BY <1>9, <1>10

\* A store put right after the definition of the current parameter, or nowhere.
LEMMA StoredDelivery ==
  ASSUME TypeOK, Delivery, phase = "pass", Len(sent) < Len(Call.sig),
         NEW n, n = Len(sent) + 1, NEW c, c = LoadedCode, NEW v, v = Call.args[n].v,
         NEW ins, ins = Save(stackOffset, v),
         NEW p \in start .. Len(c), p \in 1 .. Len(c), FirstDef(c, v, p),
         NEW t, t = Inserted(c, p, ins)
  PROVE  /\ Emitted(t, n) /\ Undisturbed(t, stackOffset + 8) /\ Ready(t, OpenValues)
         /\ \A i \in DOMAIN sent :
              Guaranteed(sent[i], Call.args[i])
                => Kept(t, Len(t) + 1, sent[i], Call.args[i], OuterValues)
         /\ Guaranteed(Slot(stackOffset), Call.args[n])
              => Kept(t, Len(t) + 1, Slot(stackOffset), Call.args[n], OuterValues)
<1>. DEFINE home == Slot(stackOffset)
            At(j) == IF j <= p THEN j ELSE j + 1
<1>1. PICK g : g = <<Depth, n>>
  OBVIOUS
<1>2. c[p].dest = v /\ \A j \in start .. p - 1 : c[j].dest # v
  BY DEF FirstDef
<1>3. /\ c \in Seq(Instrs) /\ start <= Len(c) + 1
      /\ Emitted(c, n) /\ Undisturbed(c, stackOffset) /\ Sent(c) /\ Ready(c, OpenValues)
      /\ g \in Given /\ ArgAt(g) = Call.args[n] /\ v \in Virtuals
      /\ Call.args[n].literal =>
           start <= Len(c) /\ Len(c) \in DOMAIN c /\ \A d \in DOMAIN c : c[d].dest = v <=> d = Len(c)
  BY <1>1, LoadedDelivery
<1>4. /\ stackOffset \in Nat /\ start \in Nat /\ values \in Nat /\ Len(c) \in Nat /\ DOMAIN c = 1 .. Len(c)
      /\ p \in Nat /\ p \in DOMAIN c
  BY <1>3, LenProperties DEF TypeOK
<1>5. home \in Homes /\ home.in = "stack" /\ home.at = stackOffset
  BY <1>4, PlaceTypes DEF Homes, Slot
<1>6. ins \in Instrs /\ ins.op = "save" /\ ins.dest = home /\ ins.src = v
  <2>1. stackOffset + 8 \in Nat /\ stackOffset + 8 <= stackOffset + 8 /\ v \in Places
    BY <1>3, <1>4 DEF Virtuals
  <2>2. Save(stackOffset, v) \in Fitting(stackOffset + 8)
    BY <1>4, <2>1, InsTypes
  <2>3. ins \in Instrs
    BY <2>2 DEF Fitting
  <2>. QED  BY <2>3 DEF Save, Ins
<1>. HIDE DEF home
<1>7. /\ Len(t) = Len(c) + 1 /\ DOMAIN t = 1 .. Len(c) + 1 /\ t \in Seq(Instrs)
      /\ t[p + 1] = ins
      /\ \A i \in 1 .. p : t[i] = c[i]
      /\ \A i \in p + 1 .. Len(c) : t[i + 1] = c[i]
  <2>1. p \in 1 .. Len(c)
    BY <1>4
  <2>2. t \in Seq(Instrs) /\ Len(t) = Len(c) + 1
    BY <1>3, <1>6, <2>1, InsertPositions
  <2>3. /\ t[p + 1] = ins
        /\ \A i \in 1 .. p : t[i] = c[i]
        /\ \A i \in p + 1 .. Len(c) : t[i + 1] = c[i]
    <3>1. c \in Seq(Instrs) /\ ins \in Instrs
      BY <1>3, <1>6
    <3>2. t[p + 1] = ins
      BY <2>1, <3>1, InsertPositions
    <3>3. \A i \in 1 .. p : t[i] = c[i]
      BY <2>1, <3>1, InsertPositions, SMTT(20)
    <3>4. \A i \in p + 1 .. Len(c) : Inserted(c, p, ins)[i + 1] = c[i]
      BY <2>1, <3>1, InsertedTail
    <3>. QED  BY <3>2, <3>3, <3>4, Zenon
  <2>. QED  BY <2>2, <2>3, LenProperties
<1>8. \A j \in DOMAIN c : At(j) \in DOMAIN t /\ t[At(j)] = c[j] /\ At(j) \in Nat /\ At(j) >= j
  BY <1>4, <1>7
<1>9. \A j \in DOMAIN c, k \in DOMAIN c : j < k <=> At(j) < At(k)
  BY <1>4
<1>10. ASSUME NEW j \in DOMAIN t, j # p + 1
      PROVE  \E i \in DOMAIN c : j = At(i) /\ t[j] = c[i]
  <2>1. CASE j <= p
    <3>1. j \in DOMAIN c /\ At(j) = j
      BY <1>4, <1>7, <2>1
    <3>. HIDE DEF At
    <3>. QED  BY <1>8, <3>1
  <2>2. CASE j > p
    <3>1. j - 1 \in DOMAIN c /\ At(j - 1) = j
      BY <1>4, <1>7, <1>10, <2>2
    <3>. HIDE DEF At
    <3>. QED  BY <1>8, <3>1
  <2>. QED  BY <1>4, <1>7, <2>1, <2>2
<1>11. At(p) = p /\ \A k \in DOMAIN c : k > p => At(k) > p + 1
  BY <1>4
<1>12. \A j \in DOMAIN c : p < j => At(j) = j + 1
  BY <1>4
<1>13. \A k \in 1 .. Len(c) + 1 : At(k) = IF k <= p THEN k ELSE k + 1
  OBVIOUS
<1>14. At(Len(c) + 1) = Len(t) + 1
  BY <1>4, <1>7
<1>. HIDE DEF At
\* No argument is the store's destination.
<1>15. ASSUME NEW h \in Given, NEW j \in DOMAIN t, t[j].dest = ArgAt(h).v
       PROVE  \E i \in DOMAIN c : j = At(i) /\ t[j] = c[i] /\ c[i].dest = ArgAt(h).v
  <2>1. ArgAt(h).v \in Virtuals
    BY DEF Delivery, Numbered
  <2>2. j # p + 1
    BY <1>5, <1>6, <1>7, <1>15, <2>1 DEF Homes, Virtuals
  <2>. QED  BY <1>10, <1>15, <2>2
<1>16. ASSUME NEW h \in Given PROVE Leaves(t, ArgAt(h).v, ArgAt(h).first)
  <2>. DEFINE at == [i \in DOMAIN c |-> At(i)]
  <2>1. Leaves(c, ArgAt(h).v, ArgAt(h).first)
    BY <1>3 DEF Emitted
  <2>2. \A i \in DOMAIN c : at[i] \in DOMAIN t /\ t[at[i]] = c[i]
    BY <1>8
  <2>3. \A k \in DOMAIN t : t[k].dest = ArgAt(h).v => \E i \in DOMAIN c : k = at[i]
    BY <1>15
  <2>4. ASSUME NEW i1 \in DOMAIN c, NEW j1 \in DOMAIN c PROVE i1 <= j1 <=> at[i1] <= at[j1]
    <3>1. i1 \in Nat /\ j1 \in Nat /\ At(i1) \in Nat /\ At(j1) \in Nat
      BY <1>4, <1>8
    <3>2. j1 < i1 <=> At(j1) < At(i1)
      BY <1>9
    <3>. QED  BY <3>1, <3>2
  <2>. HIDE DEF at
  <2>. QED  BY <2>1, <2>2, <2>3, <2>4, LeavesMoved
<1>17. Emitted(t, n)
  <2>1. ASSUME NEW j \in DOMAIN t PROVE WellMade(t[j], values)
    <3>1. WellMade(ins, values)
      BY <1>5, <1>6 DEF WellMade
    <3>2. j # p + 1 => \E i \in DOMAIN c : t[j] = c[i]
      BY <1>10
    <3>. QED  BY <1>3, <1>7, <3>1, <3>2 DEF Emitted
  <2>2. ASSUME NEW h \in Given, ~ArgAt(h).literal PROVE \E j \in DOMAIN t : t[j].dest = ArgAt(h).v
    <3>1. PICK j \in DOMAIN c : c[j].dest = ArgAt(h).v
      BY <1>3, <2>2 DEF Emitted
    <3>. QED  BY <1>8, <3>1
  <2>3. ASSUME NEW h \in Given, ArgAt(h).literal, Waiting(h, n), NEW j \in DOMAIN t
        PROVE  t[j].dest # ArgAt(h).v
    BY <1>3, <1>15, <2>3 DEF Emitted
  <2>4. ASSUME NEW h \in Given, NEW i \in Given, NEW j \in DOMAIN t, NEW k \in DOMAIN t,
               h[1] < i[1], t[j].dest = ArgAt(h).v, t[k].dest = ArgAt(i).v
        PROVE  j < k
    <3>1. PICK jj \in DOMAIN c : j = At(jj) /\ c[jj].dest = ArgAt(h).v
      BY <1>15, <2>4
    <3>2. PICK kk \in DOMAIN c : k = At(kk) /\ c[kk].dest = ArgAt(i).v
      BY <1>15, <2>4
    <3>3. jj < kk
      BY <1>3, <2>4, <3>1, <3>2 DEF Emitted
    <3>. QED  BY <1>9, <3>1, <3>2, <3>3
  <2>5. \A h \in Given : ArgAt(h).literal => ArgAt(h).first = ArgAt(h).v
    BY <1>3 DEF Emitted
  <2>. QED  BY <1>16, <2>1, <2>2, <2>3, <2>4, <2>5 DEF Emitted
<1>18. Undisturbed(t, stackOffset + 8)
  <2>. SUFFICES ASSUME NEW h \in Given, ArgAt(h).settled, ~ArgAt(h).literal,
                       NEW j \in DOMAIN t, t[j].dest = ArgAt(h).v
                PROVE  start <= j /\ \A k \in DOMAIN t : j < k => Quiet(t[k], phase, stackOffset + 8)
    BY DEF Undisturbed
  <2>1. PICK jj \in DOMAIN c : j = At(jj) /\ c[jj].dest = ArgAt(h).v
    BY <1>15
  <2>2. start <= jj /\ \A k \in DOMAIN c : jj < k => Quiet(c[k], phase, stackOffset)
    BY <1>3, <2>1 DEF Undisturbed
  <2>3. start <= j
    BY <1>4, <1>8, <2>1, <2>2
  <2>4. ASSUME NEW k \in DOMAIN t, j < k PROVE Quiet(t[k], phase, stackOffset + 8)
    <3>1. CASE k = p + 1
      BY <1>4, <1>5, <1>6, <1>7, <3>1 DEF Quiet
    <3>2. CASE k # p + 1
      <4>1. PICK kk \in DOMAIN c : k = At(kk) /\ t[k] = c[kk]
        BY <1>10, <3>2
      <4>2. Quiet(c[kk], phase, stackOffset)
        BY <1>9, <2>1, <2>2, <2>4, <4>1
      <4>3. c[kk].op = "save" => c[kk].dest.at \in Nat
        BY <1>3 DEF Emitted, WellMade, Homes, Places
      <4>. QED  BY <1>4, <4>1, <4>2, <4>3 DEF Quiet
    <3>. QED  BY <3>1, <3>2
  <2>. QED  BY <2>3, <2>4
<1>19. ins.dest \notin Virtuals /\ ins.dest \notin OpenValues /\ ins.dest \notin OuterValues /\ c[p].dest \in OpenValues
  <2>1. \A h \in Given : ArgAt(h).v \in Virtuals
    BY DEF Delivery, Numbered
  <2>2. home \notin Virtuals
    BY <1>5 DEF Homes, Virtuals
  <2>. QED  BY <1>3, <1>6, <1>2, <2>1, <2>2 DEF OpenValues, OuterValues
<1>20. Ready(t, OpenValues)
  <2>. SUFFICES ASSUME NEW j \in DOMAIN t, t[j].op = "call" PROVE CallReady(t, j, OpenValues)
    BY DEF Ready
  <2>1. j # p + 1
    BY <1>6, <1>7
  <2>2. PICK k \in DOMAIN c : j = At(k) /\ t[j] = c[k]
    BY <1>10, <2>1
  <2>3. CallReady(c, k, OpenValues)
    BY <1>3, <2>2 DEF Ready
  <2>4. ASSUME NEW hm, NEW arg, Kept(c, k, hm, arg, OpenValues)
        PROVE  Kept(t, j, hm, arg, OpenValues)
    <3>1. k \in 1 .. Len(c) + 1
      BY <1>4
    <3>2. Kept(t, IF k <= p THEN k ELSE k + 1, hm, arg, OpenValues)
      BY <1>3, <1>4, <1>6, <1>19, <2>4, <3>1, WindowInsert
    <3>. QED  BY <1>13, <2>2, <3>1, <3>2
  <2>. QED  BY <2>2, <2>3, <2>4 DEF CallReady
<1>21. ASSUME NEW i \in DOMAIN sent, Guaranteed(sent[i], Call.args[i])
       PROVE  Kept(t, Len(t) + 1, sent[i], Call.args[i], OuterValues)
  <2>1. Kept(c, Len(c) + 1, sent[i], Call.args[i], OuterValues)
    BY <1>3, <1>21 DEF Sent
  <2>2. sent[i].in # "stack" \/ sent[i].at < stackOffset
    BY <1>3 DEF Sent
  <2>3. Harmless(ins, sent[i])
    BY <1>4, <1>5, <1>6, <2>2 DEF Harmless
  <2>4. PICK k \in 1 .. Len(c) + 1 : k = Len(c) + 1
    BY <1>4
  <2>5. Kept(t, IF k <= p THEN k ELSE k + 1, sent[i], Call.args[i], OuterValues)
    BY <1>3, <1>4, <1>6, <1>19, <2>1, <2>3, <2>4, WindowInsert
  <2>. QED  BY <1>13, <1>14, <2>4, <2>5
<1>22. ASSUME Guaranteed(home, Call.args[n])
       PROVE  Kept(t, Len(t) + 1, home, Call.args[n], OuterValues)
  <2>1. Call.args[n].literal \/ Call.args[n].settled
    BY <1>5, <1>22 DEF Guaranteed
  <2>2. ASSUME NEW j \in DOMAIN t, j > p + 1
        PROVE  Harmless(t[j], home) /\ t[j].dest \notin OuterValues
    <3>1. PICK k \in DOMAIN c : j = At(k) /\ t[j] = c[k]
      BY <1>4, <1>10, <2>2
    <3>2. p < k
      <4>1. k \in Nat /\ At(p) = p /\ (~(p < k) => k = p \/ k < p)
        BY <1>4, <1>11
      <4>. QED  BY <1>4, <1>8, <1>9, <2>2, <3>1, <4>1
    <3>3. ~Call.args[n].literal
      BY <1>3, <1>4, <1>2, <3>2
    <3>4. Quiet(c[k], phase, stackOffset)
      BY <1>3, <1>4, <1>2, <2>1, <3>2, <3>3 DEF Undisturbed
    <3>5. WellMade(c[k], values)
      BY <1>3 DEF Emitted
    <3>6. Harmless(c[k], home)
      <4>1. c[k].dest # home
        BY <1>4, <1>5, <3>4, <3>5, JunkOK DEF Quiet, WellMade, Homes, Virtuals
      <4>2. c[k].op = "call" => home.in = "stack" /\ \A i \in OnStack(c[k].sig) : home # Home(c[k].sig, i)
        BY <1>5, <3>4 DEF Quiet
      <4>. QED  BY <4>1, <4>2 DEF Harmless
    <3>7. ASSUME NEW h \in Given, h[1] < Depth PROVE c[k].dest # ArgAt(h).v
      <4>1. g[1] = Depth
        BY <1>1
      <4>. QED  BY <1>3, <1>4, <1>2, <3>2, <3>7, <4>1 DEF Emitted
    <3>. QED  BY <3>1, <3>6, <3>7 DEF OuterValues
  <2>3. c[p].op = "def"
    <3>1. WellMade(c[p], values) /\ c[p] \in Instrs
      BY <1>3, <1>4, ElementOfSeq DEF Emitted
    <3>. QED  BY <1>3, <1>4, <1>2, <3>1, Destinations
  \* The definition the loop stops at is the first of all.
  <2>4. c[p].src = Call.args[n].first
    <3>1. ASSUME NEW j \in DOMAIN c, c[j].dest = v PROVE p <= j
      <4>1. CASE Call.args[n].literal
        BY <1>3, <1>4, <1>2, <3>1, <4>1
      <4>2. CASE ~Call.args[n].literal
        <5>1. start <= j /\ j \in Nat
          BY <1>3, <1>4, <2>1, <3>1, <4>2 DEF Undisturbed
        <5>. QED  BY <1>4, <1>2, <3>1, <5>1
      <4>. QED  BY <4>1, <4>2
    <3>2. Leaves(c, v, Call.args[n].first)
      BY <1>3 DEF Emitted
    <3>. QED  BY <1>4, <1>2, <3>1, <3>2 DEF Leaves
  <2>5. Arriving(home, Call.args[n]) = Call.args[n].first
    BY <1>5 DEF Arriving
  <2>6. Window(t, p + 1, Len(t) + 1, home, v, Arriving(home, Call.args[n]))
    <3>1. LastBefore(t, p, p + 1, v) /\ t[p].src = Call.args[n].first /\ p \in 1 .. (p + 1) - 1
      <4>1. t[p] = c[p] /\ p \in 1 .. (p + 1) - 1 /\ \A j \in p + 1 .. (p + 1) - 1 : FALSE
        BY <1>4, <1>7
      <4>. QED  BY <1>2, <2>3, <2>4, <4>1 DEF LastBefore
    <3>2. \A j \in (p + 1) + 1 .. (Len(t) + 1) - 1 : j \in DOMAIN t /\ j > p + 1
      BY <1>4, <1>7
    <3>3. p + 1 \in 1 .. (Len(t) + 1) - 1
      BY <1>4, <1>7
    <3>. QED  BY <1>3, <1>6, <1>7, <2>2, <2>5, <3>1, <3>2, <3>3 DEF Window
  <2>7. \A j \in p + 1 .. (Len(t) + 1) - 1 : t[j].dest \notin OuterValues
    <3>1. \A j \in p + 1 .. (Len(t) + 1) - 1 : j = p + 1 \/ (j \in DOMAIN t /\ j > p + 1)
      BY <1>4, <1>7
    <3>. QED  BY <1>7, <1>19, <2>2, <3>1
  <2>8. p + 1 \in 1 .. (Len(t) + 1) - 1
    BY <1>4, <1>7
  <2>. QED  BY <2>6, <2>7, <2>8 DEF Kept
<1>. QED  BY <1>17, <1>18, <1>20, <1>21, <1>22 DEF home

\* The loop over mutableInstList stops at a definition if there is one.
LEMMA FirstDefFound ==
  ASSUME NEW c, NEW v, start \in Nat, Len(c) \in Nat,
         NEW off, NEW d \in start .. Len(c), c[d].dest = v
  PROVE  \E p \in start .. Len(c) :
           FirstDef(c, v, p) /\ SaveAfterDef(c, v, off) = Inserted(c, p, Save(off, v))
<1>. DEFINE T == {k \in start .. Len(c) : c[k].dest = v}
            p == CHOOSE k \in start .. Len(c) : FirstDef(c, v, k)
<1>1. PICK k \in T : \A j \in T : k <= j
  <2>1. T \subseteq Nat /\ d \in T
    OBVIOUS
  <2>. HIDE DEF T
  <2>. QED  BY <2>1, LeastNat
<1>2. \E j \in start .. Len(c) : FirstDef(c, v, j)
  <2>1. \A j \in start .. k - 1 : c[j].dest # v
    BY <1>1
  <2>. QED  BY <1>1, <2>1 DEF FirstDef
<1>3. p \in start .. Len(c) /\ FirstDef(c, v, p)
  BY <1>2, Zenon
<1>4. SaveAfterDef(c, v, off) = Inserted(c, p, Save(off, v))
  BY <1>2, Zenon DEF SaveAfterDef, Inserted
<1>. HIDE DEF p
<1>. QED  BY <1>3, <1>4

LEMMA PassParamDelivery == TypeOK /\ TypeOK' /\ Delivery /\ PassParam => Delivery'
<1>. SUFFICES ASSUME TypeOK, TypeOK', Delivery, PassParam PROVE Delivery'
  OBVIOUS
<1>1. PICK n, kind, v, c, order :
        /\ n = Len(sent) + 1 /\ kind = Call.sig[n] /\ v = Call.args[n].v /\ c = LoadedCode
        /\ order = IF kind = "int" THEN intOrder ELSE floatOrder
  OBVIOUS
<1>2. /\ phase = "pass" /\ phase' = "pass" /\ Len(sent) < Len(Call.sig)
      /\ UNCHANGED <<open, start, values, pc>>
      /\ Len(sent) \in Nat /\ n \in Nat /\ kind \in {"int", "float"} /\ order \in Nat
      /\ sent \in Seq(Places) /\ DOMAIN sent = 1 .. Len(sent)
      /\ stackOffset \in Nat /\ start \in Nat \ {0}
      /\ intOrder \in Nat /\ floatOrder \in Nat
  <2>1. /\ phase = "pass" /\ phase' = "pass" /\ Len(sent) < Len(Call.sig)
        /\ UNCHANGED <<open, start, values, pc>>
    BY DEF PassParam, machine
  <2>2. sent \in Seq(Places) /\ stackOffset \in Nat /\ intOrder \in Nat /\ floatOrder \in Nat
    BY ArgRegsOK DEF TypeOK
  <2>3. start \in Nat \ {0}
    <3>1. Len(code) \in Nat /\ start \in 1 .. Len(code) + 1
      BY LenProperties DEF TypeOK
    <3>. QED  BY <3>1
  <2>4. Len(sent) \in Nat /\ DOMAIN sent = 1 .. Len(sent)
    BY <2>2, LenProperties
  <2>5. n \in 1 .. Len(Call.sig) /\ Call.sig[n] \in {"int", "float"}
    BY <1>1, <2>1, Current
  <2>. QED  BY <1>1, <2>1, <2>2, <2>4, <2>5, <2>3
<1>3. PICK g : g = <<Depth, n>>
  OBVIOUS
<1>4. /\ c \in Seq(Instrs) /\ start <= Len(c) + 1 /\ Len(c) \in Nat /\ DOMAIN c = 1 .. Len(c)
      /\ Emitted(c, n) /\ Undisturbed(c, stackOffset) /\ Sent(c) /\ Ready(c, OpenValues)
      /\ g \in Given /\ ArgAt(g) = Call.args[n] /\ v \in Virtuals
      /\ \E d \in DOMAIN c : c[d].dest = v
      /\ Call.args[n].literal =>
           start <= Len(c) /\ Len(c) \in DOMAIN c /\ \A d \in DOMAIN c : c[d].dest = v <=> d = Len(c)
  BY <1>1, <1>2, <1>3, LoadedDelivery, LenProperties
<1>5. /\ Given' = Given /\ OpenValues' = OpenValues /\ OuterValues' = OuterValues
      /\ Call' = Call /\ Depth' = Depth /\ \A h : ArgAt(h)' = ArgAt(h)
  BY <1>2 DEF Given, OpenValues, OuterValues, ArgAt, Call, Depth
<1>6. Numbered'
  BY <1>2, <1>5 DEF Delivery, Numbered
<1>7. Ran'
  BY <1>2 DEF Delivery, Ran
\* It is enough to have the invariant of the new code, with the counters as
\* they will be.
<1>8. ASSUME Len(sent') = n, Emitted(code', n), Undisturbed(code', stackOffset'), Ready(code', OpenValues),
             Sent(code)'
      PROVE  Delivery'
  <2>1. Emitted(code, Len(sent))'
    BY <1>2, <1>5, <1>8 DEF Emitted, Waiting
  <2>2. Undisturbed(code, stackOffset)'
    BY <1>2, <1>5, <1>8 DEF Undisturbed
  <2>3. Ready(code, OpenValues)'
    BY <1>5, <1>8
  <2>. QED  BY <1>6, <1>7, <1>8, <2>1, <2>2, <2>3 DEF Delivery
<1>9. CASE InRegister(order)
  <2>1. PICK home : home = ArgReg(kind, order)
    OBVIOUS
  <2>2. PICK ins : ins = Move(home, v)
    OBVIOUS
  <2>3. /\ code' = Append(c, ins) /\ sent' = Append(sent, home)
        /\ intOrder' = IF kind = "int" THEN intOrder + 1 ELSE intOrder
        /\ floatOrder' = IF kind = "float" THEN floatOrder + 1 ELSE floatOrder
        /\ stackOffset' = stackOffset
    BY <1>1, <1>9, <2>1, <2>2 DEF PassParam, LoadedCode
  <2>4. /\ home \in Places /\ home \in Homes /\ home.in = "reg" /\ home.kind = kind /\ home.at = order
    BY <1>2, <2>1, PlaceTypes DEF ArgReg, Homes
  <2>5. ins \in Instrs /\ ins.op = "move" /\ ins.dest = home /\ ins.src = v
    <3>1. ins \in Instrs
      BY <1>2, <1>4, <2>2, <2>4, InsTypes DEF Fitting, Virtuals
    <3>. QED  BY <2>2, <3>1 DEF Move, Ins
  <2>6. /\ code' \in Seq(Instrs) /\ Len(code') = Len(c) + 1 /\ DOMAIN code' = 1 .. Len(c) + 1
        /\ \A j \in 1 .. Len(c) : code'[j] = c[j]
        /\ code'[Len(c) + 1] = ins
    <3>1. c \in Seq(Instrs)
      BY <1>4
    <3>2. code' \in Seq(Instrs) /\ Len(code') = Len(c) + 1
      BY <2>3, <2>5, <3>1, AppendFact
    <3>. QED  BY <2>3, <2>5, <3>1, <3>2, AppendFact, LenProperties
  <2>7. /\ Len(sent') = n /\ DOMAIN sent' = 1 .. n /\ sent'[n] = home
        /\ \A i \in 1 .. Len(sent) : sent'[i] = sent[i]
    <3>1. sent' \in Seq(Places) /\ Len(sent') = n
      BY <1>1, <1>2, <2>3, <2>4, AppendFact
    <3>. QED  BY <1>1, <1>2, <2>3, <2>4, <3>1, AppendFact, LenProperties
  <2>8. ASSUME NEW j \in DOMAIN code'
        PROVE  (j \in DOMAIN c /\ code'[j] = c[j]) \/ (j = Len(c) + 1 /\ code'[j] = ins)
    BY <1>4, <2>6
  <2>9. \A j \in DOMAIN c : j \in DOMAIN code' /\ code'[j] = c[j] /\ j < Len(c) + 1
    BY <1>4, <2>6
  <2>10. \A h \in Given : ArgAt(h).v \in Virtuals /\ ArgAt(h).v # ins.dest
    BY <2>4, <2>5 DEF Delivery, Numbered, Virtuals, Homes
  <2>11. Emitted(code', n)
    <3>1. WellMade(ins, values)
      BY <2>4, <2>5 DEF WellMade
    <3>2. ASSUME NEW h \in Given PROVE Leaves(code', ArgAt(h).v, ArgAt(h).first)
      <4>1. Leaves(c, ArgAt(h).v, ArgAt(h).first)
        BY <1>4 DEF Emitted
      <4>2. c \in Seq(Instrs) /\ code' = c \o <<ins>> /\ <<ins>> \in Seq(Instrs)
        <5>1. c \in Seq(Instrs)
          BY <1>4
        <5>. QED  BY <2>3, <2>5, <5>1, AppendIsConcat
      <4>3. \A l \in DOMAIN <<ins>> : <<ins>>[l].dest # ArgAt(h).v
        BY <2>10
      <4>. QED  BY <4>1, <4>2, <4>3, LeavesConcat
    <3>. QED  BY <1>4, <2>8, <2>9, <2>10, <3>1, <3>2 DEF Emitted
  <2>12. Undisturbed(code', stackOffset')
    <3>. SUFFICES ASSUME NEW h \in Given, ArgAt(h).settled, ~ArgAt(h).literal,
                         NEW j \in DOMAIN code', code'[j].dest = ArgAt(h).v
                  PROVE  start <= j /\ \A k \in DOMAIN code' : j < k => Quiet(code'[k], phase, stackOffset')
      BY DEF Undisturbed
    <3>1. j \in DOMAIN c /\ c[j].dest = ArgAt(h).v
      BY <2>8, <2>10
    <3>2. start <= j /\ \A k \in DOMAIN c : j < k => Quiet(c[k], phase, stackOffset)
      BY <1>4, <3>1 DEF Undisturbed
    <3>3. Quiet(ins, phase, stackOffset')
      BY <2>5 DEF Quiet
    <3>. QED  BY <2>3, <2>8, <3>2, <3>3
  <2>13. Ready(code', OpenValues)
    <3>. SUFFICES ASSUME NEW k \in DOMAIN code', code'[k].op = "call" PROVE CallReady(code', k, OpenValues)
      BY DEF Ready
    <3>1. k \in DOMAIN c /\ code'[k] = c[k]
      BY <2>5, <2>8
    <3>2. CallReady(c, k, OpenValues)
      BY <1>4, <3>1 DEF Ready
    <3>3. k \in Nat /\ \A j \in 1 .. k - 1 : code'[j] = c[j]
      BY <1>4, <2>6, <3>1
    <3>4. ASSUME NEW hm, NEW arg, Kept(c, k, hm, arg, OpenValues)
          PROVE  Kept(code', k, hm, arg, OpenValues)
      BY <3>3, <3>4, KeptAgree
    <3>. QED  BY <3>1, <3>2, <3>4 DEF CallReady
  <2>14. ins.dest \notin OuterValues
    BY <2>10 DEF OuterValues
  <2>15. PICK k \in Nat : k = Len(c) + 1
    BY <1>4
  <2>16. ASSUME NEW i \in 1 .. Len(sent)
         PROVE  /\ \/ sent[i].in = "stack" /\ sent[i].at < stackOffset'
                   \/ sent[i].in = "reg" /\ sent[i].at < (IF sent[i].kind = "int" THEN intOrder' ELSE floatOrder')
                /\ Guaranteed(sent[i], Call.args[i])
                     => Kept(code', k + 1, sent[i], Call.args[i], OuterValues)
    <3>1. i \in DOMAIN sent /\ sent[i] \in Places
      BY <1>2, ElementOfSeq
    <3>2. /\ \/ sent[i].in = "stack" /\ sent[i].at < stackOffset
             \/ sent[i].in = "reg" /\ sent[i].at < (IF sent[i].kind = "int" THEN intOrder ELSE floatOrder)
          /\ Guaranteed(sent[i], Call.args[i])
               => Kept(c, k, sent[i], Call.args[i], OuterValues)
      BY <1>2, <1>4, <2>15, <3>1 DEF Sent
    <3>3. \/ sent[i].in = "stack" /\ sent[i].at < stackOffset'
          \/ sent[i].in = "reg" /\ sent[i].at < (IF sent[i].kind = "int" THEN intOrder' ELSE floatOrder')
      <4>1. sent[i].at \in Nat
        BY <3>1 DEF Places
      <4>2. intOrder <= intOrder' /\ floatOrder <= floatOrder' /\ intOrder' \in Nat /\ floatOrder' \in Nat
        BY <1>2, <2>3
      <4>. QED  BY <1>2, <2>3, <3>2, <4>1, <4>2
    <3>4. Harmless(ins, sent[i])
      <4>1. sent[i] # home
        BY <1>1, <1>2, <2>4, <3>2
      <4>. QED  BY <2>5, <4>1 DEF Harmless
    <3>5. ASSUME Kept(c, k, sent[i], Call.args[i], OuterValues)
          PROVE  Kept(code', k + 1, sent[i], Call.args[i], OuterValues)
      <4>1. code'[k] = ins /\ \A j \in 1 .. k - 1 : code'[j] = c[j]
        BY <1>4, <2>6, <2>15
      <4>. QED  BY <2>14, <2>15, <3>4, <3>5, <4>1, KeptAgree
    <3>. QED  BY <3>2, <3>3, <3>5
  \* The move comes after the last definition.
  <2>17. Kept(code', k + 1, home, Call.args[n], OuterValues)
    <3>1. PICK d \in DOMAIN c : c[d].dest = v /\ \A j \in DOMAIN c : c[j].dest = v => j <= d
      <4>1. PICK T : T = {j \in DOMAIN c : c[j].dest = v}
        OBVIOUS
      <4>2. T \subseteq 1 .. Len(c) /\ T # {}
        BY <1>4, <4>1
      <4>3. PICK d \in T : \A j \in T : j <= d
        BY <1>4, <4>2, GreatestUpTo
      <4>. QED  BY <4>1, <4>3
    <3>2. c[d].op = "def"
      <4>1. WellMade(c[d], values) /\ c[d] \in Instrs /\ values \in Nat
        BY <1>4, ElementOfSeq DEF Emitted, TypeOK
      <4>. QED  BY <1>4, <3>1, <4>1, Destinations
    <3>3. Leaves(c, v, Call.args[n].first)
      <4>1. Leaves(c, ArgAt(g).v, ArgAt(g).first)
        BY <1>4 DEF Emitted
      <4>. QED  BY <1>1, <1>4, <4>1
    <3>4. c[d].src = v
      BY <3>1, <3>3 DEF Leaves
    <3>5. /\ d \in 1 .. k - 1 /\ code'[d] = c[d]
          /\ k \in 1 .. (k + 1) - 1 /\ code'[k] = ins
          /\ \A j \in k + 1 .. (k + 1) - 1 : FALSE
      BY <1>4, <2>6, <2>15, <3>1
    <3>6. LastBefore(code', d, k, v) /\ code'[d].src = v
      <4>1. ASSUME NEW j \in d + 1 .. k - 1 PROVE code'[j].dest # v
        <5>1. j \in DOMAIN c /\ code'[j] = c[j] /\ ~(j <= d)
          BY <1>4, <2>6, <2>15, <3>1
        <5>. QED  BY <3>1, <5>1
      <4>. QED  BY <3>1, <3>2, <3>4, <3>5, <4>1 DEF LastBefore
    <3>7. Window(code', k, k + 1, home, v, v)
      BY <1>4, <2>5, <3>5, <3>6 DEF Window
    <3>8. \A j \in k .. (k + 1) - 1 : code'[j].dest \notin OuterValues
      <4>1. \A j \in k .. (k + 1) - 1 : j = k
        BY <2>15
      <4>. QED  BY <2>14, <3>5, <4>1
    <3>9. Arriving(home, Call.args[n]) = v /\ Call.args[n].v = v
      BY <1>1, <2>4 DEF Arriving
    <3>. QED  BY <3>5, <3>7, <3>8, <3>9 DEF Kept
  <2>18. Sent(code)'
    <3>1. Len(code') + 1 = k + 1
      BY <1>4, <2>6, <2>15
    <3>. SUFFICES ASSUME NEW i \in DOMAIN sent'
                  PROVE  /\ \/ sent'[i].in = "stack" /\ sent'[i].at < stackOffset'
                            \/ /\ sent'[i].in = "reg"
                               /\ sent'[i].at < (IF sent'[i].kind = "int" THEN intOrder' ELSE floatOrder')
                         /\ Guaranteed(sent'[i], Call.args[i])
                              => Kept(code', Len(code') + 1, sent'[i], Call.args[i], OuterValues)
      BY <1>5 DEF Sent
    <3>2. CASE i \in 1 .. Len(sent)
      BY <2>7, <2>16, <3>1, <3>2
    <3>3. CASE i = n
      <4>1. home.at < (IF home.kind = "int" THEN intOrder' ELSE floatOrder')
        BY <1>1, <1>2, <2>3, <2>4
      <4>. QED  BY <1>1, <2>4, <2>7, <2>17, <3>1, <3>3, <4>1
    <3>. QED  BY <1>1, <1>2, <2>7, <3>2, <3>3
  <2>. QED  BY <1>8, <2>7, <2>11, <2>12, <2>13, <2>18
<1>10. CASE ~InRegister(order)
  <2>1. PICK home, ins : home = Slot(stackOffset) /\ ins = Save(stackOffset, v)
    OBVIOUS
  <2>2. /\ code' = SaveAfterDef(c, v, stackOffset) /\ sent' = Append(sent, home)
        /\ stackOffset' = stackOffset + 8 /\ UNCHANGED <<intOrder, floatOrder>>
    BY <1>1, <1>10, <2>1 DEF PassParam, LoadedCode
  <2>3. home \in Places /\ home.in = "stack" /\ home.at = stackOffset
    BY <1>2, <2>1, PlaceTypes DEF Slot
  <2>4. /\ Len(sent') = n /\ DOMAIN sent' = 1 .. n /\ sent'[n] = home
        /\ \A i \in 1 .. Len(sent) : sent'[i] = sent[i]
    <3>1. sent' \in Seq(Places) /\ Len(sent') = n
      BY <1>1, <1>2, <2>2, <2>3, AppendFact
    <3>. QED  BY <1>1, <1>2, <2>2, <2>3, <3>1, AppendFact, LenProperties
  <2>5. /\ Emitted(code', n) /\ Undisturbed(code', stackOffset') /\ Ready(code', OpenValues)
        /\ \A i \in DOMAIN sent :
             Guaranteed(sent[i], Call.args[i])
               => Kept(code', Len(code') + 1, sent[i], Call.args[i], OuterValues)
        /\ Guaranteed(home, Call.args[n]) => Kept(code', Len(code') + 1, home, Call.args[n], OuterValues)
    <3>1. CASE \E d \in start .. Len(c) : c[d].dest = v
      <4>1. PICK p \in start .. Len(c) : FirstDef(c, v, p) /\ code' = Inserted(c, p, ins)
        BY <1>2, <1>4, <2>1, <2>2, <3>1, FirstDefFound
      <4>2. p \in 1 .. Len(c)
        BY <1>2, <1>4
      <4>. QED  BY <1>1, <1>2, <2>1, <2>2, <4>1, <4>2, StoredDelivery
    <3>2. CASE ~\E d \in start .. Len(c) : c[d].dest = v
      <4>1. code' = c
        <5>1. ~\E k \in start .. Len(c) : FirstDef(c, v, k)
          BY <3>2 DEF FirstDef
        <5>. QED  BY <2>2, <5>1 DEF SaveAfterDef
      <4>2. ~Guaranteed(home, Call.args[n])
        <5>1. ~Call.args[n].literal
          BY <1>2, <1>4, <3>2
        <5>2. ~Call.args[n].settled
          <6>1. PICK d \in DOMAIN c : c[d].dest = v
            BY <1>4
          <6>2. Call.args[n].settled => start <= d
            BY <1>1, <1>4, <5>1, <6>1 DEF Undisturbed
          <6>. QED  BY <1>2, <1>4, <3>2, <6>1, <6>2
        <5>. QED  BY <2>3, <5>1, <5>2 DEF Guaranteed
      <4>3. Undisturbed(c, stackOffset')
        <5>1. ASSUME NEW ins1, WellMade(ins1, values), Quiet(ins1, phase, stackOffset)
              PROVE  Quiet(ins1, phase, stackOffset')
          <6>1. ins1.op = "save" => ins1.dest.at \in Nat
            BY <5>1 DEF WellMade, Homes, Places
          <6>. QED  BY <1>2, <2>2, <5>1, <6>1 DEF Quiet
        <5>2. \A j \in DOMAIN c : WellMade(c[j], values)
          BY <1>4 DEF Emitted
        <5>. QED  BY <1>4, <5>1, <5>2 DEF Undisturbed
      <4>. QED  BY <1>2, <1>4, <4>1, <4>2, <4>3 DEF Sent
    <3>. QED  BY <3>1, <3>2
  <2>6. Sent(code)'
    <3>. SUFFICES ASSUME NEW i \in DOMAIN sent'
                  PROVE  /\ \/ sent'[i].in = "stack" /\ sent'[i].at < stackOffset'
                            \/ /\ sent'[i].in = "reg"
                               /\ sent'[i].at < (IF sent'[i].kind = "int" THEN intOrder' ELSE floatOrder')
                         /\ Guaranteed(sent'[i], Call.args[i])
                              => Kept(code', Len(code') + 1, sent'[i], Call.args[i], OuterValues)
      BY <1>5 DEF Sent
    <3>1. CASE i \in 1 .. Len(sent)
      <4>1. i \in DOMAIN sent /\ sent'[i] = sent[i]
        BY <1>2, <2>4, <3>1
      <4>2. sent[i].at \in Nat
        <5>1. sent[i] \in Places
          BY <1>2, <3>1, ElementOfSeq
        <5>. QED  BY <5>1 DEF Places
      <4>3. \/ sent[i].in = "stack" /\ sent[i].at < stackOffset
            \/ sent[i].in = "reg" /\ sent[i].at < (IF sent[i].kind = "int" THEN intOrder ELSE floatOrder)
        BY <1>2, <1>4, <4>1 DEF Sent
      <4>. QED  BY <1>2, <2>2, <2>5, <4>1, <4>2, <4>3
    <3>2. CASE i = n
      <4>1. sent'[i] = home /\ home.at < stackOffset'
        BY <1>2, <2>2, <2>3, <2>4, <3>2
      <4>. QED  BY <1>1, <2>3, <2>5, <3>2, <4>1
    <3>. QED  BY <1>1, <1>2, <2>4, <3>1, <3>2
  <2>. QED  BY <1>8, <2>4, <2>5, <2>6
<1>. QED  BY <1>9, <1>10

LEMMA NextDelivery == TypeOK /\ TypeOK' /\ Counted /\ Delivery /\ [Next]_vars => Delivery'
<1>. SUFFICES ASSUME TypeOK, TypeOK', Counted, Delivery, UNCHANGED vars PROVE Delivery'
  BY OperandDelivery, NestedDelivery, BeginPassDelivery, PassParamDelivery, EndPassDelivery,
     RunDelivery DEF Next
<1>1. /\ Given' = Given /\ OpenValues' = OpenValues /\ OuterValues' = OuterValues
      /\ Call' = Call /\ Depth' = Depth /\ \A h : ArgAt(h)' = ArgAt(h)
      /\ \A h : Received(h)' = Received(h)
  BY DEF vars, Given, OpenValues, OuterValues, ArgAt, Call, Depth, Received
<1>. QED  BY <1>1 DEF vars, Delivery, Numbered, Emitted, Undisturbed, Sent, Ready, Ran, Waiting

LEMMA InitDelivery == Init => Delivery
<1>. SUFFICES ASSUME Init PROVE Delivery
  OBVIOUS
<1>1. PICK s \in Signatures : open = <<[sig |-> s, args |-> << >>]>>
  BY DEF Init
<1>2. Given = {}
  <2>1. DOMAIN open = {1} /\ DOMAIN open[1].args = {}
    BY <1>1
  <2>. QED  BY <2>1 DEF Given
<1>3. DOMAIN code = {} /\ phase = "eval" /\ pc = 1
  BY DEF Init
<1>. QED  BY <1>2, <1>3 DEF Delivery, Numbered, Emitted, Undisturbed, Sent, Ready, Ran

\* The arguments that a call of the code carries.
LEMMA ArgumentType ==
  ASSUME TypeOK, Room, phase = "run", pc <= Len(code), code[pc].op = "call",
         NEW i \in DOMAIN code[pc].sig
  PROVE  code[pc].args[i] \in Args
<1>1. code[pc] \in Fitting(maxPass)
  <2>1. code \in Seq(Fitting(maxPass)) /\ pc \in 1 .. Len(code)
    BY RoomOf, LenProperties DEF Room, TypeOK
  <2>. QED  BY <2>1, ElementOfSeq
<1>2. /\ code[pc].sig \in Seq({"int", "float"}) /\ code[pc].args \in Seq(Args)
      /\ Len(code[pc].args) = Len(code[pc].sig)
  BY <1>1, SignaturesOK, EmptySeq DEF Fitting, Instrs
<1>3. i \in 1 .. Len(code[pc].args)
  BY <1>2, LenProperties
<1>. QED  BY <1>2, <1>3, ElementOfSeq

\* At a call the callee finds every argument it is sure to get.
LEMMA Arrival ==
  ASSUME TypeOK, Delivery, phase = "run", pc <= Len(code), code[pc].op = "call",
         NEW i \in DOMAIN code[pc].sig, Guaranteed(Home(code[pc].sig, i), code[pc].args[i])
  PROVE  Received(Home(code[pc].sig, i)) = Arriving(Home(code[pc].sig, i), code[pc].args[i])
<1>. DEFINE home == Home(code[pc].sig, i)
            arg == code[pc].args[i]
<1>1. pc \in DOMAIN code
  BY LenProperties DEF TypeOK
<1>2. Kept(code, pc, home, arg, OpenValues)
  BY <1>1 DEF Delivery, Ready, CallReady
<1>3. PICK m \in 1 .. pc - 1 : Window(code, m, pc, home, arg.v, Arriving(home, arg))
  BY <1>2 DEF Kept
<1>4. m \in DOMAIN code /\ m < pc /\ pc <= pc
  BY <1>1, LenProperties DEF TypeOK
<1>5. code[m].dest = home /\ code[m].src = arg.v
  BY <1>3 DEF Window
<1>. HIDE DEF home, arg
<1>6. Received(home) = Arriving(home, arg)
  BY <1>1, <1>3, <1>4, <1>5 DEF Delivery, Ran
<1>. QED  BY <1>6 DEF home, arg

\* The two invariants together, the first for the arguments of the calls.
LEMMA AlwaysDelivery == Spec => [](TypeOK /\ Room /\ Delivery)
<1>1. Init => Counted
  BY DEF Init, Counted
<1>. QED  BY <1>1, InitType, NextType, NextCounted, InitRoom, NextRoom, InitDelivery, NextDelivery,
             PTL DEF Spec

\* Every argument that travels in a register, is a constant, or has its register
\* defined once and nothing between that and the call that leaves the block or
\* stores above sp, is where the callee looks for it when the call is reached:
\* for any nesting of calls, and whatever emitFunctionCallInst inserted where.
THEOREM SettledArgumentsArrive == Spec => []SettledDelivered
<1>1. TypeOK /\ Room /\ Delivery => SettledDelivered
  <2>. SUFFICES ASSUME TypeOK, Room, Delivery, phase = "run", pc <= Len(code), code[pc].op = "call",
                       NEW i \in DOMAIN code[pc].sig,
                       \/ i \notin OnStack(code[pc].sig) \/ code[pc].args[i].literal
                       \/ /\ code[pc].args[i].settled
                          /\ code[pc].args[i].first = code[pc].args[i].v
                PROVE  Received(Home(code[pc].sig, i)) = code[pc].args[i].v
    BY DEF SettledDelivered
  <2>1. Guaranteed(Home(code[pc].sig, i), code[pc].args[i])
    BY DEF Guaranteed, OnStack
  <2>2. Received(Home(code[pc].sig, i)) = Arriving(Home(code[pc].sig, i), code[pc].args[i])
    BY <2>1, Arrival
  <2>3. code[pc].args[i].literal => code[pc].args[i].first = code[pc].args[i].v
    BY ArgumentType DEF Args
  <2>. QED  BY <2>2, <2>3 DEF Arriving, OnStack
<1>. QED  BY <1>1, AlwaysDelivery, PTL

\* A float x != y passed on the stack arrives as x == y, for any lists of
\* parameters and any nesting: the store follows the first of the two
\* definitions of its register.
THEOREM NotEqualArrivesReversed == Spec => []NotEqualReversed
<1>1. TypeOK /\ Room /\ Delivery => NotEqualReversed
  <2>. SUFFICES ASSUME TypeOK, Room, Delivery, phase = "run", pc <= Len(code), code[pc].op = "call",
                       NEW i \in OnStack(code[pc].sig), code[pc].args[i].settled,
                       code[pc].args[i].first # code[pc].args[i].v
                PROVE  Received(Home(code[pc].sig, i)) = Equal(code[pc].args[i].v)
    BY DEF NotEqualReversed
  <2>1. i \in DOMAIN code[pc].sig /\ Home(code[pc].sig, i).in = "stack"
    BY DEF OnStack
  <2>2. Guaranteed(Home(code[pc].sig, i), code[pc].args[i])
    BY DEF Guaranteed
  <2>3. Received(Home(code[pc].sig, i)) = Arriving(Home(code[pc].sig, i), code[pc].args[i])
    BY <2>1, <2>2, Arrival
  <2>4. code[pc].args[i].first = Equal(code[pc].args[i].v)
    BY <2>1, ArgumentType DEF Args
  <2>. QED  BY <2>1, <2>3, <2>4 DEF Arriving
<1>. QED  BY <1>1, AlwaysDelivery, PTL
=============================================================================
