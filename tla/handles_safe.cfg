\* Safety, with restarts anywhere and closures of any age.
SPECIFICATION Spec
CONSTANTS
  Client = {c1, c2}
  RefId = {r1, r2, r3}
  Data = {"a", "b"}
  Graph = {"flip", "keep"}
  Meaning <- MCMeaning
  MaxGen = 2
  MaxId = 3
  MaxOrphans = 0
  CacheLimit = 1
  Reaper = Reaper
  Nobody = Nobody
  NoRef = NoRef
  None = None
SYMMETRY Symmetry
INVARIANTS
  TypeOK
  ReadsOwnData
  ResidentWhileLive
  ReleasedOnce
