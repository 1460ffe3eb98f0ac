SPECIFICATION FairSpec
CONSTANTS
  Pods = {p1, p2}
  First = 2
  Last = 3
  NoPod = NoPod
  NoIP = NoIP
INVARIANTS
  RunningPodOnLo0
PROPERTIES
  KeepsPromise
  TeardownCompletes
