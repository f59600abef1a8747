SPECIFICATION Spec
CONSTANTS
  Capacity = 2
  HasHook = TRUE
  MaxEvents = 5
INVARIANTS
  MetricsLead
  DropsAreCounted
PROPERTIES
  UiIsLossyChannel
  HookIsLossyChannel
