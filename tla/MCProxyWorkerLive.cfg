\* Liveness: one port, one caller, the barrier and the shutdown.
CONSTANTS
  k1 = k1  k2 = k2  v1 = v1  w1 = w1  w2 = w2
  c1 = c1  c2 = c2
  Keys = {k1}
  VIP <- OneKey
  NodePortKeys = {k1}
  Workers = {w1, w2}
  Callers = {c1}
  NoWorker = NoWorker  NoKey = NoKey
  Cap = 1
  MaxEvents = 3
SPECIFICATION FairSpec
PROPERTY CallerReturns
\* Run returns.
CHECK_DEADLOCK FALSE
