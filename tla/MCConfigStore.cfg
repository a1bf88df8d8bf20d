SPECIFICATION Spec
CONSTANTS
  None = None
  Empty = Empty
  Garbled = Garbled
  k1 = k1
  k2 = k2
  e1 = e1
  e2 = e2
  Proc = {p1}
  Key = {k1, k2}
  Endpoint = {e1, e2}
  Invite <- Invites
  Written <- Lists
  Wipes = {"empty", "delete"}
INVARIANTS
  TypeOK
PROPERTIES
  ConfigIsAtomic
  NeverHalf
  NothingDropped
