SPECIFICATION Spec
CONSTANTS
  MaxAge = 4
  SourceIsMaster = TRUE
  TargetDuration = 1
  Interval <- NoInterval
  Window = 2
  LongSegments = {2}
  Discontinuities = {0, 1, 2}
  SegmentFetches <- MCSegmentFetches
  MaxSeq = 3
  MaxDelay = 0
  MaxRestarts = 1
  MaxPollErrors = 1
  MaxSegmentErrors = 2
INVARIANTS
  NoFalseAlarm
PROPERTIES
  DeliveredInOrder
