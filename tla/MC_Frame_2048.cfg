SPECIFICATION Spec
CONSTANTS
  s1 = s1
  fs0 = fs0
  Ra = Ra
  S0 = S0
  Junk = Junk
  Savable <- MCSavable
  Sizes <- MCSizes
  Passed <- MCPassed
  MaxAreas = 3
INVARIANTS Encodable
\* A function that has returned takes no further step.
CHECK_DEADLOCK FALSE
