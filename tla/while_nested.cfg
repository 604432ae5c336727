\* An outer loop that passes on earlier results of its inner loop.
SPECIFICATION Spec
CONSTANTS
  N = 2
  Programs <- PassedOn
  MaxSteps = 3
  MaxRounds = 3
  MaxExecutes = 1
  MaxFailures = 0
  Modulus = 251
  NoBuffer = NoBuffer
INVARIANTS
  StateIsInterpreted
