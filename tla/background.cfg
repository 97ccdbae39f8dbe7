SPECIFICATION Spec
CONSTANTS
  s1 = s1
  s2 = s2
  sub = sub
  i1 = i1
  None = None
  Queues = {"memory", "dreams", "skills"}
  Sessions = {s1, s2}
  Sub = sub
  Ideas = {i1}
  Limit = 2
  MaxSuggestions = 1
  MaxMessages = 3
  MaxDrafts = 1
  MaxEvents = 2
CHECK_DEADLOCK FALSE
SYMMETRY AllSessions
INVARIANTS
  EveryMessageShown
  NoOrphanTask
  SuggestedOnce
