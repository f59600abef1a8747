SPECIFICATION Spec
CONSTANTS
  Names <- MCNames
  Page = 10
  Broken = {3}
  HasHook = TRUE
  Kinds = {"Status", "Latency"}
  Capacity = 1
  Presets <- MCPresets
  Keys <- MCKeys
  MaxPollers = 2
  Letters = {"r", "q"}
  MaxQuery = 1
INVARIANTS
  OneSession
  ShownIsLatest
  EnterOpensHighlighted
  FilterShownIsApplied
PROPERTIES
  EscLeadsOut
  OldSessionsEnd
  OpenedChannelAnswers
CHECK_DEADLOCK FALSE
