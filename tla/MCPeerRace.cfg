SPECIFICATION Spec
CONSTANTS
  None = None
  k1 = k1
  k2 = k2
  k3 = k3
  i1 = i1
  i2 = i2
  i3 = i3
  e1 = e1
  e2 = e2
  h = h
  Ip = {i1, i2}
  Key = {k1, k2}
  Ep = {e1, e2}
  Host = {h}
  Routable = {e1}
  Announced <- OwnAddresses
  Configs <- Lists
  Discovery = TRUE
INVARIANTS
  TypeOK
  IdIndexComplete
  PurgedNotRelayed
PROPERTIES
  PinnedSticks
