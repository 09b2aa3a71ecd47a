SPECIFICATION FairSpec
CONSTANTS
    MaxTasks = 7
    MaxAttempts = 2
    MaxSockets = 2
    MaxFaults = 2
    MaxMicFaults = 1
    MaxPresses = 1
    MaxRunTimeouts = 1
INVARIANTS
    TypeOK
    EndingIsServed
    RecordingIsServed
    ReleasedPressHoldsNothing
PROPERTIES
    PressEnds
CHECK_DEADLOCK FALSE
