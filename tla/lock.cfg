SPECIFICATION FairLockSpec
CONSTANTS
    MaxLockCalls = 5
CHECK_DEADLOCK FALSE
INVARIANTS Exclusive InCallOrder
PROPERTIES EveryCallEnds
