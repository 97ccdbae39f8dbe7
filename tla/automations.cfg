SPECIFICATION FairSpec
CONSTANTS
  a1 = a1
  a2 = a2
  s1 = s1
  s2 = s2
  Nobody = Nobody
  Autos = {a1}
  Kinds = {"recurring", "reminder"}
  Syncs = {s1, s2}
  MaxRuns = 2
  MaxEvents = 2
CHECK_DEADLOCK FALSE
INVARIANTS
  OneLook
  QuietSchedules
PROPERTIES
  ReminderRingsOnce
  EveryLookSettles
