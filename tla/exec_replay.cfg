\* Three executes of every graph, one failing capture or replay, shared inputs.
SPECIFICATION Spec
CONSTANTS
  Input = {1, 2}
  Const = {}
  Node = {3, 4, 5}
  Graphs <- MCGraphs
  MaxExecutes = 3
  MaxFailures = 1
  MaxKept = 2
  Views = TRUE
  NoBuffer = NoBuffer
INVARIANTS
  ResultsAreRight
  
  FallsBackOnFailure
PROPERTIES
  KeptUnchanged
