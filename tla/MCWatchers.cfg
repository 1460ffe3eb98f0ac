\* The bounds stop the changes, the faults and the swaps; then nothing moves.
CONSTANTS
  Resources = {"networkpolicies", "pods", "namespaces"}
  Versions <- SomeVersions
  Addrs = {0, 1, 2, 3, 4}
  AlwaysAllow = {0}
  VMNet = {4}
  BlockAddrs = {2, 4}
  NamedPort <- Http
  PolicyPorts = {80, 90}
  NoIP = 99
  MayFail = {"pods"}
  MaxStoreChanges = 4
  MaxWatchErrors = 1
  NodePorts = {"p30001", "p30002"}
  Ifaces <- SomeIfaces
  NodeAddr = 2
  Loopback = 1
  Wildcard = 0
  NpSpecs <- SomeSpecs
  NoGroup = NoGroup
  Nobody = Nobody
  MaxNpFaults = 1
  MaxSwaps = 2
  EventBuffer = 1
  NoState = NoState
  MaxLinkChanges = 2
  MaxLinkFaults = 1
  Informers = {"ingresses", "services"}
  ObjectVersions <- SomeObjects
  Hosts = {"", "a", "b"}
  Paths <- SomePaths
  NoObject = NoObject
  NoBackend = NoBackend
  NoVIP = NoVIP
  MaxObjectChanges = 3
SPECIFICATION WatchersSpec
INVARIANTS VerdictsFaithful NodePortsBound LinkSettles RoutedAsDeclared
PROPERTIES PolicyConverges
CHECK_DEADLOCK FALSE
