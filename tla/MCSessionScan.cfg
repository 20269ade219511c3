SPECIFICATION SSFairSpec
CONSTANTS
  QueueSize = 1
  Pages = 3
  MaxSize = 2
  BufferSize = 2
  MaxChanges = 1
  MaxProcesses = 1
INVARIANT TypeOK
INVARIANT ScannerNeedsTarget
INVARIANT StablePagesAreRead
INVARIANT DataIsOfItsRegion
PROPERTY StopEndsBoth
PROPERTY LoopFollowsTarget
PROPERTY UsesLoop
PROPERTY ImplementsSession
CHECK_DEADLOCK FALSE
