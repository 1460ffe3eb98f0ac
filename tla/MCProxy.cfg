\* One port: two callers and the barrier race with deletes, restarts of the worker and the
\* shutdown. One port of the table: connections race with the writers.
CONSTANTS
  k1 = k1  k2 = k2  v1 = v1  w1 = w1  w2 = w2
  c1 = c1  c2 = c2
  Keys = {k1}
  VIP <- OneKey
  NodePortKeys = {k1}
  Workers = {w1, w2}
  Callers = {c1, c2}
  NoWorker = NoWorker  NoKey = NoKey
  Cap = 2
  MaxEvents = 4
  k3 = k3  x1 = x1  x2 = x2  b1 = b1  b2 = b2
  r1 = r1  r2 = r2
  TableKeys = {k3}
  Clients = {x1, x2}
  Backends = {b1, b2}
  Place <- OneLocal
  PodCIDRValid = TRUE
  Conns = {r1, r2}
  Caps <- SmallCaps
  Timeout = 1
  NoState = NoState  NoBind = NoBind  NoTableKey = NoTableKey  NoConn = NoConn
  MaxWrites = 3
  MaxNow = 2
SPECIFICATION ProxySpec
SYMMETRY ProxySymmetry
INVARIANTS ServedOrRetried ShutdownReleases BindingsAccounted PickedWasEligible
\* Run returns, and the bounds stop the writers and the clock.
CHECK_DEADLOCK FALSE
