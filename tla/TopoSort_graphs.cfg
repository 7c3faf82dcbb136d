CONSTANTS
  n1 = n1
  n2 = n2
  n3 = n3
  Id <- ThreeIds
  Lex <- ThreeLex
  Inputs <- ShortInputs
  Graphs <- AllGraphs
SPECIFICATION FairSpec
INVARIANTS TypeOK DepsFirst EveryOpOnce ErrorOnlyOnCycle CycleIsReported
PROPERTY Terminates
CHECK_DEADLOCK FALSE
