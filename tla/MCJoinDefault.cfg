SPECIFICATION Spec
CONSTANTS
  a = a
  b = b
  c = c
  home = home
  away = away
  Node = {a, b}
  Net = {home, away}
  Size = 8
  Highest = 6
  Default <- DefaultAddr
  Founder = {a}
  Chosen <- OneFounder
  Partners <- Pair
  MaxKeys = 2
  None = None
INVARIANTS
  FoundersLinked
