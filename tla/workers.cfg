SPECIFICATION Spec
CONSTANTS
  Default = default
  Names = {default, device}
  Procs = {p, q}
  MaxRestarts = 1
  MaxGen = 3
  MaxBuffers = 3
SYMMETRY Symmetric
INVARIANTS
  OneIdPerName
  LeaksOnlyByExit
CHECK_DEADLOCK FALSE
