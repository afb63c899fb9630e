SPECIFICATION Spec
CONSTANTS
  Programs <- ThePrograms
  Inputs <- TheInputs
INVARIANTS
  TypeOK
  BlocksClosed
  DefinitionsFirst
  NothingNeededIsDead
  LabelsKept
  OperandsDefined
  IndicesInBounds
PROPERTIES
  NeedsOnlyGrow
  ImplementsSource
  RunsTheBlocks
  Finishes
CHECK_DEADLOCK FALSE
