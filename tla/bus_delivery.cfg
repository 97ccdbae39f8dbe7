SPECIFICATION Spec
CONSTANTS
  k1 = k1
  k2 = k2
  k3 = k3
  None = None
  Conns = {k1, k2}
  RoleOf <- TwoAgents
  Target <- AllToAgent
  MaxCommands = 2
  ChatCommands = {}
  Invoked = {1}
  MaxBeats = 0
  MaxRestarts = 1
CHECK_DEADLOCK FALSE
INVARIANTS
  StartedAtMostOnce
  RowsMatchTable
  ClaimAccountedFor
PROPERTIES
  ImplementsLifecycle
  StartedInOrder
