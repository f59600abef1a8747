SPECIFICATION Spec
CONSTANTS
  MaxAge = 4
  SourceIsMaster = TRUE
  TargetDuration = 1
  Interval <- NoInterval
  Window = 2
  LongSegments = {2}
  Discontinuities = {1}
  SegmentFetches <- MCSegmentFetches
  MaxSeq = 3
  MaxDelay = 1
  MaxRestarts = 0
  MaxPollErrors = 3
  MaxSegmentErrors = 2
INVARIANTS
  TypeOK
  LossIsReported
  HealthAgreesWithFindings
  HealthBlamesOneSide
PROPERTIES
  CatchesUp
  StallIsNoticed
  StatusRecovers
