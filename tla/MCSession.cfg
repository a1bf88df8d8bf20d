SPECIFICATION FairSpec
CONSTANTS
  A = A
  B = B
  Configured = {A, B}
  Dialled = {B}
  Discovering = {A}
  Talkers = {A}
  Window <- MCWindow
  RestartLimit <- MCRestartLimit
  MaxCounter = 3
  MaxData = 2
INVARIANTS
  TypeOK
  NextPacketAccepted
PROPERTIES
  StallsShrink
  Reconnects
  StallEnds
  HandshakesDieOut
