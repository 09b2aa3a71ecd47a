SPECIFICATION Spec
CONSTANTS
    MaxTasks = 7
    MaxAttempts = 2
    MaxSockets = 2
    MaxFaults = 0
    MaxMicFaults = 0
    MaxPresses = 1
    MaxRunTimeouts = 1
INVARIANTS
    IdleHoldsNothing
CHECK_DEADLOCK FALSE
