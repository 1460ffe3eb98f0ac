\* Two ports of one VIP.
CONSTANTS
  k1 = k1  k2 = k2  v1 = v1  w1 = w1  w2 = w2
  c1 = c1  c2 = c2
  Keys = {k1, k2}
  VIP <- SharedVIP
  NodePortKeys = {k1}
  Workers = {w1, w2}
  Callers = {c1}
  NoWorker = NoWorker  NoKey = NoKey
  Cap = 1
  MaxEvents = 2
SPECIFICATION Spec
INVARIANTS VipOnLo0
\* Run returns.
CHECK_DEADLOCK FALSE
