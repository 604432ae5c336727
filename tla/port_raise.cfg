\* A request handled after the port closed.
SPECIFICATION Spec
CONSTANTS
  Client = {c1, c2}
  MaxCalls = 1
  MaxGen = 1
  PipeSize = 2
  Faults = {}
  NoTag = NoTag
PROPERTIES
  InFlightAreTold
