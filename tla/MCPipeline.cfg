SPECIFICATION Spec
CONSTANTS
  Streams <- MCStreams
  MaxPolls = 5
  KeyTtl = 3
  KeyWait = 1
  KeyCacheMax = 1
  MaxKeys = 3
INVARIANTS
  BufferTracksThePlayer
  AlarmsAreCountedOnce
  OrphansAreComplete
  KeysAreFresh
  WatchedBreakIsShown
CHECK_DEADLOCK FALSE
