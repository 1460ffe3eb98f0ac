CONSTANTS
  A = A
  B = B
  k1 = k1
  k2 = k2
  k3 = k3
  h1 = h1
  h2 = h2
  None = None
  NoOne = NoOne
  Cidrs <- MCCidrs
  Default = A
  Slots = {0, 1}
  AliasConns = {k1}
  MeshConns = {k1, k2}
  IcConns = {k3}
  Clients <- MCClients
  Digests <- MCDigests
  Archive <- MCArchive
  Version <- MCVersion
  SetFiles <- MCSetFiles
  SkippedFiles = {"LICENSE"}
  PayloadFiles <- MCPayloadFiles
  UpdateRequests <- MCRequests
  FirstInstalled = "rc2"
  MaxMembers = 6
  MaxRequests = 2
  MaxFaults = 1
SPECIFICATION Spec
CONSTRAINT NoDevice
SYMMETRY ClientSymmetry
INVARIANTS
  DeviceCarriesNode
  InstallerUndisturbed
  OnlyVerifiedInstalled
  ReplyTrue
PROPERTIES
  RestartKeepsOwned
  NoDowngrade
CHECK_DEADLOCK FALSE
