SPECIFICATION FairSpec
CONSTANTS
  Byte <- Bytes
  Requests <- AllRequests
  MaxRequests = 3
  CountBase = 3
  MaxFrame = 16
  PrefixBase = 24
  PipeSize = 9
  HostOutputs = 3
  Zero <- Plus0
  MinusZero <- Minus0
  NaN <- QuietNaN
  Negative <- Negatives
  NotFinite <- NotNumbers
  Signaling <- SignalingNaNs
INVARIANTS
  NeverMisread
  OneReplyEach
  BytesSurvive
  EndsForAReason
PROPERTIES
  ErrorsKeepBuffers
  EveryRequestAnswered
CHECK_DEADLOCK FALSE
