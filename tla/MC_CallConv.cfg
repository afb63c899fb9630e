SPECIFICATION Spec
CONSTANTS
  ArgRegs = 1
  Signatures <- MCSignatures
  MaxDepth = 2
  MaxValues = 6
  Junk = Junk
INVARIANTS TypeOK HomesAgree OutgoingFits  NotEqualReversed
\* The statement ends, and a statement with more values than the bound stops.
CHECK_DEADLOCK FALSE
