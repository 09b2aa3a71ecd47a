SPECIFICATION PhoneSpec
CONSTANTS
    Phrases = 1
    MaxPresses = 2
    MaxFaults = 1
    MaxClears = 2
INVARIANTS
    OldAckNeverFinalises
PROPERTIES
    NoTraceIsLost
    UtteranceIsClosed
CHECK_DEADLOCK FALSE
