SPECIFICATION Spec
CONSTANTS
  ImmHalf = 4
  HiHalf = 4
  MaxReg = 18
  Inputs <- MCInputs
  Consts <- Ints
  FloatJobs <- MCFloatJobs
  MemoryJobs <- MCMemoryJobs
INVARIANTS TypeOK AllAssemble IntsRight FloatsRight AddressesRight
\* An expression that has been run takes no further step.
CHECK_DEADLOCK FALSE
