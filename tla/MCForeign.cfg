SPECIFICATION Spec
CONSTANTS
  p1 = p1
  victim = victim
  debugger = debugger
  h1 = h1
  h2 = h2
  self = self
  hklm = hklm
  services_key = services_key
  run_path = run_path
  services_path = services_path
  broad_path = broad_path
  run = run
  other = other
  plain = plain
  None = None
  Opened <- MCOpened
  SourcePids <- MCSourcePids
  Others <- MCOthers
  Debugger = debugger
  Handles <- TwoHandles
  Self = self
  Roots <- MCRoots
  Keys <- NoKeys
  Targets <- MCTargets
  KeyPaths <- MCKeyPaths
  CriticalPaths <- OneCritical
  HighPaths <- OneHigh
  PersistenceKeys <- MCPersistenceKeys
  ValueNames <- MCValueNames
  InKey <- MCInKey
  InContext <- MCInContext
  HollowWindow = 0
  QueueSize = 2
  Horizon = 0
  MaxCalls = 2
INVARIANT VictimsCorrelate
