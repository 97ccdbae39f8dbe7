SPECIFICATION FairSpec
CONSTANTS
    MaxRouters = 5
    Settings = {1, 2}
    MaxChanges = 1
    MaxFaults = 3
CHECK_DEADLOCK FALSE
INVARIANT NotReadyMeansRecovering
PROPERTIES MarkerKept RecoverySettles
