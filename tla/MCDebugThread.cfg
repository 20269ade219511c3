SPECIFICATION Spec
CONSTANTS
  p1 = p1
  p2 = p2
  t1 = t1
  t2 = t2
  t3 = t3
  ntdll = ntdll
  ws2 = ws2
  connect = connect
  NtWrite = NtWrite
  push = push
  INT3 = INT3
  NoHook = NoHook
  Unmapped = Unmapped
  NoPid = NoPid
  NoAddr = NoAddr
  NoDll = NoDll
  RootPid = p1
  RootTid = t1
  Bytes <- MCBytes
  OwnByte <- MCOwnByte
  Dlls <- MCDlls
  DllOf <- MCDllOf
  Pids <- MCPids
  Tids <- TwoTids
  Addrs <- OneAddr
  InitialDlls <- MCInitialDlls
  MaxTracked = 2
  Adversity <- Everything
INVARIANT TypeOK
INVARIANT Restorable
INVARIANT HooksAreNamed
INVARIANT OurStepsAreClaimed
INVARIANT TrackedAreLive
PROPERTY OneProcessAtATime
PROPERTY ImplementsLoop
