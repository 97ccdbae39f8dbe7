SPECIFICATION FairSpec
CONSTANTS
    j1 = j1
    j2 = j2
    c1 = c1
    Nobody = Nobody
    Jobs = {j1, j2}
    Convs = {c1}
    ConvOf <- BothOfOne
    Limits = {1, 2}
    FirstLimit = 2
    MaxStops = 1
    MaxStopAlls = 1
    MaxExits = 1
    MaxPauses = 1
    MaxResizes = 1
    MaxMounts = 1
    MaxTimeouts = 1
    MaxEvents = 2
CHECK_DEADLOCK FALSE
INVARIANTS PauseIsOwed CompletedMeansAnswered RefreshWaitsForRuns
PROPERTIES RunsOnce StopReachesRun TasksEnd
