SPECIFICATION Spec
CONSTANTS
  p1 = p1
  p2 = p2
  s1 = s1
  f1 = f1
  f2 = f2
  None = None
  Processes = {p1, p2}
  Sessions = {s1}
  Names = {"New Chat", "Renamed"}
  DefaultName = "New Chat"
  Flushes = {f1, f2}
  MaxWrites = 3
  MaxReads = 2
  MaxMishaps = 1
  MaxEvents = 3
SYMMETRY Symmetry
CHECK_DEADLOCK FALSE
INVARIANTS
  CachesMatchTable
  OwnWritesShow
  UnsettledIsOnItsWay
PROPERTIES
  FlushMeansStored
