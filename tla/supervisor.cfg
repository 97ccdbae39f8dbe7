SPECIFICATION FairSpec
CONSTANTS
    MaxProcs = 4
    MaxFaults = 1
    MaxChecks = 1
    StopMs = 700
CHECK_DEADLOCK FALSE
INVARIANTS NoForgottenChild HealthyNeverStopped
PROPERTIES SupervisionSettles
