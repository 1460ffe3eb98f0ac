CONSTANTS
  a1 = a1
  b1 = b1
  v1 = v1
  NoIP = NoIP
  Cidrs <- MCCidrs
  VIPs <- MCVIPs
  c1 = c1
  c2 = c2
  Conns = {c1, c2}
  MaxAttempts = 2
  MaxFrames = 1
SPECIFICATION DaemonSpec
INVARIANTS
  LivePodAllocated
  GrantKept
  RetryPortFree
PROPERTIES
  GrantReachesUtun
  ServeExits
CHECK_DEADLOCK FALSE
