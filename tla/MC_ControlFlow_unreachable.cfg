SPECIFICATION Spec
CONSTANTS
  Programs <- UnreachablePrograms
  Inputs <- TheInputs
INVARIANT
  OperandsHaveRegisters
CHECK_DEADLOCK FALSE
