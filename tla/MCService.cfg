SPECIFICATION FairSpecOnline
CONSTANTS
  unit = unit
  hand = hand
  eth = eth
  Proc = {unit, hand}
  Unit = unit
  Iface = {eth}
  MaxEdits = 2
  Readable = {0, 2}
  Usable = {0, 2}
  Port <- Listen
  MaxUpsets = 1
  None = None
INVARIANTS
  TypeOK
  DaemonsBounded
  RulesBounded
  HangupKept
PROPERTIES
  StopsWhenAsked
  EditsApplied
  ComesUp
