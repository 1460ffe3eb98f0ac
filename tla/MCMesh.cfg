\* Two routed peers, of which one moves and rotates its key; two watchers.
CONSTANTS
  self = self  n1 = n1  n2 = n2  ks = ks  ka = ka  kb = kb  kc = kc
  cs = cs  c1 = c1  c2 = c2  e1 = e1  e2 = e2
  Nodes = {self, n1, n2}  Keys = {ks, ka, kb, kc}
  Cidrs = {cs, c1, c2}  Endpoints = {e1, e2}
  SpecsOf <- SomeSpecs  Self = cs  PerNode = {cs, c1, c2}
  NoSpec = NoSpec  NoCidr = NoCidr  NoEndpoint = NoEndpoint  NoText = NoText
  Watchers = {w1, w2}  Second = w2
  MaxSpec = 2  MaxTime = 2  MaxPeerWrites = 2  MaxWatchFaults = 1
SPECIFICATION MeshSpec
INVARIANT RoutesOwned
PROPERTIES RoamedStays DeviceConverges WatchersConverge
CHECK_DEADLOCK FALSE
