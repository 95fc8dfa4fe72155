\* Two workspaces, at most two requests or workspaces that fail
CONSTANTS
  Count = 2
  RetryAfters = {45}
  MaxFaults = 2
SPECIFICATION FairSpec
INVARIANTS Inv NoLostWakeup WatchesAll PatientRetry
PROPERTIES FailureEnds SignalStops Recovers
CHECK_DEADLOCK FALSE
