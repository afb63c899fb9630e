CONSTANTS
  Units <- MCUnits
  MaxVariables = 4
  MaxRefs = 1
SPECIFICATION Spec
INVARIANTS TypeOK FindsInnermost ElementsAgree MeansTheSame
PROPERTY ImplementsNameStack
CHECK_DEADLOCK FALSE
