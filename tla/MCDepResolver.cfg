SPECIFICATION FairSpec
CONSTANTS
  a = a
  b = b
  c = c
  Names <- MCNames
  Target = a
  Graphs <- MCGraphs
INVARIANTS
  TypeOK
  DependenciesFirst
  ClosureComplete
  OnlyCyclesBroken
PROPERTIES
  Resolves
CHECK_DEADLOCK FALSE
