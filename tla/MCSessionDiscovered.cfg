SPECIFICATION FairSpec
CONSTANTS
  A = A
  B = B
  Configured = {}
  Dialled = {}
  Discovering = {A, B}
  Talkers = {A, B}
  Window <- MCWindow
  RestartLimit <- MCRestartLimit
  MaxCounter = 1
  MaxData = 1
PROPERTIES
  Reconnects
