CONSTANTS
  a1 = a1
  b1 = b1
  v1 = v1
  NoIP = NoIP
  Cidrs <- MCCidrs
  VIPs <- MCVIPs
SPECIFICATION RetrySpec
PROPERTIES
  RetryCompletes
