SPECIFICATION Spec
CONSTANTS
  NodeIds = {n1, n2, n3}
  Unknown = unknown
  MaxEntries = 2
  Graphs <- MCGraphs
INVARIANTS TypeOK LayersRespectDependencies LayersAreEarliest ResultIsRight
PROPERTY Terminates
CHECK_DEADLOCK FALSE
