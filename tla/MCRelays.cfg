\* The bounds stop the clock and the writers, and closed relays take no more steps.
CONSTANTS
  v1 = v1  v2 = v2  x1 = x1  x2 = x2  s1 = s1  p1 = p1  p2 = p2  l1 = l1  l2 = l2
  Relays = {v1, v2}
  Clients = {x1, x2}
  SourceIP <- OneSource
  Limits <- TightLimits
  IdleTimeout = 1
  NoClient = NoClient
  MaxUdpNow = 2
  Pods = {p1, p2}
  Leases = {l1, l2}
  Outside = {l2}
  Declared = {{1}}
  SvcPorts = {{}, {2}, {2, 3}}
  MaxRelayPorts = 2
  NoLease = NoLease
  MaxGen = 4
  MaxBindFaults = 1
SPECIFICATION Spec
INVARIANTS FlowsCounted SocketsOwned OnlyAdmittedServe
PROPERTY RelaysConverge
CHECK_DEADLOCK FALSE
