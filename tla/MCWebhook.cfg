SPECIFICATION Spec
CONSTANTS
  Alerts = {"stall", "shi_below_70", "http_5xx"}
  DedupeWindow = 7
  MaxPost = 1
  RetryDelay = 1
  DELIVERY_LOG_CAP = 1
  QueueCapacity = 2
  OtherEvents <- MCOtherEvents
  MaxOthers = 1
  MaxChanges = 2
INVARIANTS
  BusyBounded
PROPERTIES
  OneAlertPerDrop
  LastingStallIsRepeated
  EndsAfterClose
CHECK_DEADLOCK FALSE
