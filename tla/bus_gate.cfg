SPECIFICATION FairSpec
CONSTANTS
  k1 = k1
  k2 = k2
  k3 = k3
  None = None
  Conns = {k1, k2, k3}
  RoleOf <- OneEach
  Target <- AllToAgent
  MaxCommands = 1
  ChatCommands = {1}
  Invoked = {}
  MaxBeats = 1
  MaxRestarts = 0
CHECK_DEADLOCK FALSE
INVARIANTS
  NothingStranded
PROPERTIES
  ServedCommandsSettle
