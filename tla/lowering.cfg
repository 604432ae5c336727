\* Every expression of MCLowering: lowered, validated, executed.
SPECIFICATION Spec
CONSTANTS
  Programs <- MCPrograms
  Inputs <- MCInputs
  Rounds = 2
  Modulus = 97
INVARIANTS
  SameValue
  NeverRejected
  SubGraphsAreClosed
  LoweredOnce
