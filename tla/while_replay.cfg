\* Loops on their own and loops whose outer loop computes with their results.
SPECIFICATION Spec
CONSTANTS
  N = 2
  Programs <- Loops
  MaxSteps = 3
  MaxRounds = 2
  MaxExecutes = 2
  MaxFailures = 1
  Modulus = 251
  NoBuffer = NoBuffer
INVARIANTS
  WrongInTwoWays
  FallsBackOnFailure
