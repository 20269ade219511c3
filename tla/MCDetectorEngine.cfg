SPECIFICATION Spec
CONSTANTS
  p1 = p1
  d1 = d1
  d2 = d2
  v1 = v1
  v2 = v2
  Pids <- MCPids
  SourcePids <- MCPids
  Dests <- MCDests
  Targets <- MCTargets
  Window = 1
  HollowWindow = 1
  Threshold = 2
  QueueSize = 2
  Horizon = 3
  MaxEvents = 3
INVARIANT TypeOK
INVARIANT AlertedIsExact
INVARIANT AlertsOnCrossing
INVARIANT AlertsAreApart
INVARIANT InjectionsAreFound
INVARIANT StoresHoldTheWindow
INVARIANT NoEventSkipped
CHECK_DEADLOCK FALSE
