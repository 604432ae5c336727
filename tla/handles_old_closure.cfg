\* A compiled closure is called again after a restart.
SPECIFICATION Spec
CONSTANTS
  Client = {c1}
  RefId = {r1, r2, r3}
  Data = {"a", "b"}
  Graph = {"flip", "keep"}
  Meaning <- MCMeaning
  MaxGen = 2
  MaxId = 2
  MaxOrphans = 0
  CacheLimit = 1
  Reaper = Reaper
  Nobody = Nobody
  NoRef = NoRef
  None = None
SYMMETRY Symmetry
INVARIANTS
  NoStaleExecutableSent
