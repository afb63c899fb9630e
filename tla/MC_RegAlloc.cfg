SPECIFICATION FairExecSpec
CONSTANTS
  a0 = a0
  a1 = a1
  t0 = t0
  s1 = s1
  s2 = s2
  fa0 = fa0
  fa1 = fa1
  fs0 = fs0
  ra = ra
  s0 = s0
  sp = sp
  zero = zero
  S0 = s0
  NoReg = NoReg
  Uncolored = Uncolored
  Temps <- MCTemps
  FloatTemps <- MCFloatTemps
  IntPhy <- MCIntPhy
  FloatPhy <- MCFloatPhy
  Special <- MCSpecial
  CallerSaved <- MCCallerSaved
  CalleeSaved <- MCCalleeSaved
  Layouts <- MCLayouts
  MaxRound = 3
  MaxSpills = 3
  Programs <- MCPrograms
INVARIANTS TypeOK NoClash CalleeSavedPushed SpillFits
PROPERTIES Compiles ImplementsVirtual
\* A compiled function that has returned to its caller takes no further step.
CHECK_DEADLOCK FALSE
