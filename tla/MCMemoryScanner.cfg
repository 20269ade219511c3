SPECIFICATION Spec
CONSTANTS
  p1 = p1
  p2 = p2
  h1 = h1
  h2 = h2
  url = url
  shellcode = shellcode
  NoHandle = NoHandle
  Closed = Closed
  Pids <- MCPids
  Handles <- MCHandles
  Strings <- MCStrings
  RwxStrings <- MCRwxStrings
  QueueSize = 1
  MaxStrings = 1
  RwxThreshold = 2
INVARIANT TypeOK
INVARIANT RememberedWasReported
INVARIANT CachesInStep
INVARIANT StaleHandlesAreOfTheGone
