\* Every fault, two incarnations, a pipe of two frames, a Python process that may hang.
SPECIFICATION FairSpec
CONSTANTS
  Client = {c1, c2}
  MaxCalls = 2
  MaxGen = 2
  PipeSize = 2
  Faults = {"bad_frame", "kill", "worker_error"}
  NoTag = NoTag
INVARIANTS
  EveryOpenCallIsHeld
  FramesMatch
PROPERTIES
  ImplementsRpc
  CallsReturn
