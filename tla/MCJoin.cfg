SPECIFICATION Spec
CONSTANTS
  a = a
  b = b
  c = c
  home = home
  away = away
  Node = {a, b, c}
  Net = {home, away}
  Size = 8
  Highest = 6
  Default <- DefaultAddr
  Founder = {a}
  Chosen <- LastHost
  Partners <- Everyone
  MaxKeys = 2
  None = None
INVARIANTS
  TypeOK
  LinksComplete
  TokensStayTrue
PROPERTY
  NamesForGood
