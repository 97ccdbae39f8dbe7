SPECIFICATION Spec
CONSTANTS
    MaxProcs = 3
    MaxFaults = 1
    MaxChecks = 1
    StopMs = 700
CHECK_DEADLOCK FALSE
PROPERTY NoStartAfterClose
