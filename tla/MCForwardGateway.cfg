\* A gateway, and no subnet routes.
SPECIFICATION Spec
CONSTANTS
  Width = 4
  Node = {1, 2, 5}
  Container = {14}
  Hosts = {1, 2}
  None = None
  Missing = Missing
  Torn = Torn
  CidrFiles <- MCNoCidrFiles
  Dest = {5, 14, 8}
  Gateways = {5}
  Lan <- MCLan
  HostBits = 2
  MaxTtl = 1
PROPERTY GatewayPasses
