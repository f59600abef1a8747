SPECIFICATION Spec
CONSTANTS
  MaxAge = 4
  TargetDuration = 1
  MinimumUpdatePeriod <- Absent
  Interval <- Absent
  IopRules = {"DASH_AVAIL_START"}
  ProbeResults <- MCProbeResults
  MaxProbeSeq = 4
  MaxEdge = 2
  MaxDelay = 1
  MaxPollErrors = 2
  MaxProbeErrors = 2
INVARIANTS
  HealthBlamesOneSide
PROPERTIES
  ProbesOnlyNewEdges
  NewestEdgeIsTried
  StallIsNoticed
