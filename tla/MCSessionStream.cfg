SPECIFICATION Spec
CONSTANTS
    FrameBudget <- MCBothUtterances
    MaxFrames = 5
    MaxPending = 1
    MaxDeltas = 1
    UpstreamFaults = {"error", "closeOk", "redis"}
    MaxFaults = 1
INVARIANTS
    AudioIntact
    OneOutcome
    FinalEndsWithPartials
    AnsweredWhileUpstreamOpen
    UsageRecorded
CHECK_DEADLOCK FALSE
