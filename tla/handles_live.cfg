\* Liveness under FairSpec, restarts anywhere, old closures, an abandoned request.
SPECIFICATION FairSpec
CONSTANTS
  Client = {c1}
  RefId = {r1, r2}
  Data = {"a", "b"}
  Graph = {"flip", "keep"}
  Meaning <- MCMeaning
  MaxGen = 2
  MaxId = 2
  MaxOrphans = 1
  CacheLimit = 1
  Reaper = Reaper
  Nobody = Nobody
  NoRef = NoRef
  None = None
INVARIANTS
  HandlesUnique
  NothingLeaks
PROPERTIES
  DroppedIsReleased
  CallsReturn
