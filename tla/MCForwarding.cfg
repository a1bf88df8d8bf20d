\* Routes that move, with a LAN and a default route published or not.
SPECIFICATION FairSpec
CONSTANTS
  Width = 4
  Node = {1, 2, 5}
  Container = {14}
  Hosts = {1, 2}
  None = None
  Missing = Missing
  Torn = Torn
  CidrFiles <- MCCidrFiles
  Dest = {1, 3, 13, 14, 29}
  Gateways = {5}
  Lan <- MCLan
  HostBits = 2
  MaxTtl = 1
INVARIANT TypeOK
INVARIANT MostSpecific
PROPERTY ContainerFound
PROPERTY CirclesEnd
PROPERTY EveryHopCloser
