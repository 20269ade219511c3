SPECIFICATION Spec
CONSTANTS
  p1 = p1
  d1 = d1
  d2 = d2
  v1 = v1
  v2 = v2
  Pids <- MCPids
  SourcePids <- MCPids
  Dests <- OneDest
  Targets <- OneTarget
  Window = 1
  HollowWindow = 1
  Threshold = 2
  QueueSize = 2
  Horizon = 3
  MaxEvents = 3
INVARIANT OncePerWindow
CHECK_DEADLOCK FALSE
