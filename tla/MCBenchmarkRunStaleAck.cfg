SPECIFICATION PhoneSpec
CONSTANTS
    Phrases = 1
    MaxPresses = 2
    MaxFaults = 0
    MaxClears = 1
INVARIANTS
    CleanRowsAreMeasured
CHECK_DEADLOCK FALSE
