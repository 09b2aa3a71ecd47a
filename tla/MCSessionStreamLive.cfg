SPECIFICATION FairSpec
CONSTANTS
    FrameBudget <- MCAnyFrames
    MaxFrames = 3
    MaxPending = 3
    MaxDeltas = 2
    UpstreamFaults = {"connect", "error", "closeOk", "closeError", "redis"}
    MaxFaults = 1
PROPERTIES
    ReleasedAfterClientLeaves
    EventuallyAnswered
CHECK_DEADLOCK FALSE
