---------------------------- MODULE MC_RegAlloc ----------------------------
(***************************************************************************)
(* Register files scaled down, and the functions that are compiled.  The   *)
(* scale keeps every class of register: argument and result, temporary,    *)
(* callee-saved, fixed, of both kinds.  A function is what instruction     *)
(* selection emits for the C text above it, with the blocks in the order   *)
(* emitFunction adds them and the empty _retBB last.                       *)
(***************************************************************************)
EXTENDS SelectedCode

CONSTANTS a0, a1, t0, s1, s2, fa0, fa1, fs0, ra, s0, sp, zero

MCTemps == 1 .. 21
MCFloatTemps == 12 .. 21
PressureTemps == 1 .. 17
MCIntPhy == <<a0, a1, t0, s1, s2>>
MCFloatPhy == <<fa0, fa1, fs0>>
MCSpecial == {ra, s0, sp, zero}
MCCallerSaved == {a0, a1, t0, fa0, fa1}
MCCalleeSaved == {s0, s1, s2, fs0}

\* The order of the addresses of the Register objects: as created, reversed,
\* odd objects first, objects of a later emission below the earlier ones, and
\* objects of the emissions interleaved.
MCLayouts ==
  LET rank(F(_, _)) == [r \in Temps \X (0 .. MaxRound) |-> F(r[1], r[2])]
      up(t, g) == 30 * g + t
      down(t, g) == 30 * g + 30 - t
      odd(t, g) == 60 * g + (IF t % 2 = 1 THEN t ELSE 30 + t)
      reuse(t, g) == 30 * (MaxRound - g) + t
      mixed(t, g) == (MaxRound + 1) * (30 - t) + g
  IN {rank(up), rank(down), rank(odd), rank(reuse), rank(mixed)}

Op(d, x, y) == [kind |-> "op", dest |-> d, src1 |-> x, src2 |-> y,
                used |-> {}, target |-> 0, off |-> 0]
Def(d) == Op(d, NoReg, NoReg)
Un(d, x) == Op(d, x, NoReg)
Sto(x, base) == Op(NoReg, x, base)
Jump(b) == [Op(NoReg, NoReg, NoReg) EXCEPT !.kind = "jump", !.target = b]
Branch(x, y, b) == [Op(NoReg, x, y) EXCEPT !.kind = "branch", !.target = b]
Call(d, args) == [Def(d) EXCEPT !.kind = "call", !.used = args]

Fun(c, call, loc, res) == [code |-> c, hasCall |-> call, locals |-> loc, result |-> res]

\* int main() { return (a+1)*((b+1)*((c+1)*f(1))); }
\* Three values live across the call, two callee-saved registers.
CallCross == Fun(
  << << Un(1, s0), Un(2, 1), Un(3, s0), Un(4, 3), Un(5, s0), Un(6, 5), Def(7),
        Un(a0, 7), Call(a0, {a0}), Un(8, a0), Op(9, 6, 8), Op(10, 4, 9),
        Op(11, 2, 10), Un(a0, 11), Jump(2) >>, << >> >>, TRUE, 12, {a0})

\* int g(int a, int b) { return (a+1) + (b && f(b)); }
\* Blocks: entry, valueOneBB, valueZeroBB, rhsCondBB, afterCalcShortCircuitBB.
ShortCircuit == Fun(
  << << Sto(a0, s0), Sto(a1, s0), Un(1, s0), Un(2, 1), Un(3, s0), Def(4),
        Branch(3, 4, 4), Jump(3) >>,
     << Def(5), Sto(5, s0), Jump(5) >>,
     << Def(6), Sto(6, s0), Jump(5) >>,
     << Un(7, s0), Un(a0, 7), Call(a0, {a0}), Un(8, a0), Def(9),
        Branch(8, 9, 2), Jump(3) >>,
     << Un(10, s0), Op(11, 2, 10), Un(a0, 11), Jump(6) >>,
     << >> >>, TRUE, 12, {a0})

\* int h(int a, int b) with a frame too large for the immediates of the
\* parameters' stores: lui/add before each, while a1 still holds b.
FarParams == Fun(
  << << Def(1), Op(2, s0, 1), Sto(a0, 2), Def(3), Op(4, s0, 3), Sto(a1, 4),
        Def(5), Op(6, s0, 5), Un(7, 6), Un(a0, 7), Jump(2) >>, << >> >>,
  FALSE, 8, {a0})

\* int main() { f(1); return g(a+1, f(2)); }
\* A call whose result nobody reads, arguments moved one after the other.
Arguments == Fun(
  << << Def(1), Un(a0, 1), Call(a0, {a0}), Un(2, a0), Un(3, s0), Un(4, 3), Def(5),
        Un(a0, 5), Call(a0, {a0}), Un(6, a0), Un(a0, 4), Un(a1, 6),
        Call(a0, {a0, a1}), Un(7, a0), Un(a0, 7), Jump(2) >>, << >> >>,
  TRUE, 4, {a0})

\* float h() { return g(x < y, k() * z); }
\* The 0-or-1 conversion of emitUnaryInst: 14 is defined in two blocks.
Convert == Fun(
  << << Un(12, s0), Un(13, s0), Op(1, 13, 12), Branch(1, zero, 3), Jump(2) >>,
     << Def(2), Un(14, 2), Jump(4) >>,
     << Un(14, zero), Jump(4) >>,
     << Call(fa0, {}), Un(15, fa0), Un(16, s0), Op(17, 15, 16), Un(fa0, 14),
        Un(fa1, 17), Call(fa0, {fa0, fa1}), Un(18, fa0), Un(fa0, 18), Jump(5) >>,
     << >> >>, TRUE, 12, {fa0})

\* int g(int n) { while (n) n = f(n); return n; }
\* Blocks: entry, beginBB, condBB, whileBB, afterWhileBB.
Loop == Fun(
  << << Sto(a0, s0), Jump(2) >>,
     << Jump(3) >>,
     << Un(1, s0), Def(2), Branch(1, 2, 4), Jump(5) >>,
     << Un(3, s0), Un(a0, 3), Call(a0, {a0}), Un(4, a0), Sto(4, s0), Jump(3) >>,
     << Un(5, s0), Un(a0, 5), Jump(6) >>,
     << >> >>, TRUE, 4, {a0})

\* float main() { return (x+y) * ((y+x) * k(u)); }
\* Two floats live across the call, one callee-saved float register.
FloatCross == Fun(
  << << Un(12, s0), Un(13, s0), Op(14, 13, 12), Un(15, s0), Un(16, s0),
        Op(17, 16, 15), Un(18, s0), Un(fa0, 18), Call(fa0, {fa0}), Un(19, fa0),
        Op(20, 17, 19), Op(21, 14, 20), Un(fa0, 21), Jump(2) >>, << >> >>,
  TRUE, 12, {fa0})

\* float h() { return g(x < y, (x + y) * k()); }
\* As Convert, with a second float live across the call of k.
ConvertCross == [Convert EXCEPT !.code[4] =
  << Un(15, s0), Un(16, s0), Op(17, 16, 15), Call(fa0, {}), Un(18, fa0), Op(19, 17, 18),
     Un(fa0, 14), Un(fa1, 19), Call(fa0, {fa0, fa1}), Un(20, fa0), Un(fa0, 20), Jump(5) >>]

\* int main() { return (a+1)*((b+1)*((x != y)*f(1))); }
\* INST_NE of emitFloatBinaryInst: seqz writes the register it reads.
NotEqual == Fun(
  << << Un(1, s0), Un(2, 1), Un(3, s0), Un(4, 3), Un(12, s0), Un(13, s0),
        Op(5, 13, 12), Un(5, 5), Def(7), Un(a0, 7), Call(a0, {a0}), Un(8, a0),
        Op(9, 5, 8), Op(10, 4, 9), Op(11, 2, 10), Un(a0, 11), Jump(2) >>, << >> >>,
  TRUE, 16, {a0})

\* int main() { return (a+1)+((b+1)+((c+1)+((d+1)+((e+1)+(g+1))))); }
\* Six values live at once, five colours.
Pressure == Fun(
  << << Un(1, s0), Un(2, 1), Un(3, s0), Un(4, 3), Un(5, s0), Un(6, 5), Un(7, s0),
        Un(8, 7), Un(9, s0), Un(10, 9), Un(11, s0), Un(12, 11), Op(13, 10, 12),
        Op(14, 8, 13), Op(15, 6, 14), Op(16, 4, 15), Op(17, 2, 16), Un(a0, 17),
        Jump(2) >>, << >> >>, FALSE, 24, {a0})

MCPrograms == {CallCross, ShortCircuit, FarParams, Arguments, Convert, Loop, FloatCross}
MCConvertCross == {ConvertCross}
MCNotEqual == {NotEqual}
MCPressure == {Pressure}
=============================================================================
