SPECIFICATION ShimSpec
CONSTANTS
  ClusterDomain <- MCClusterDomain
  LongNames <- MCLongNames
  MaxSearchDomains = 5
  MaxNDots = 3
  DefaultNDots = 2
  QueryAttempts = 2
  Attempts = 2
  MaxServers = 3
  Replies <- MCReplies
  BadLabels = {""}
  OptedIn = {"ns2", "com"}
  Reserved = {"com"}
  Width = 4
  Sockets = {s1, s2}
  InterconnectRange <- MCInterconnectRange
  MaxClusterCIDRs = 2
  MinRewritablePort = 2
  Ports = {0, 1, 2}
  p1 = p1
  p2 = p2
  node = node
  s1 = s1
  s2 = s2
  Explicit = {1}
  Pods = {p1, p2}
  Node = node
  PodIP <- MCPodIP
  EgressIP = 14
  Dests = {2, 9, 12}
INVARIANTS PodsBindFreely ShimMirrorsReference AnswerRight CompletionIsCandidate EncodersAgree
PROPERTY DialsCarryIdentity
CHECK_DEADLOCK FALSE
