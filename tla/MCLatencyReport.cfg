CONSTANTS
    BleTarget = 2
    S1Target = 3
    S2Target = 2
    S3Target = 2
    GatePct = 67
    AccuracyMinPct = 75
    AccuracyGood = 4
    RetryMaxPct = 25
    RecognitionMinPct = 75
    Samples <- MCSamples
    Marks <- MCMarks
    MaxRows = 4

SPECIFICATION Spec

CHECK_DEADLOCK FALSE

INVARIANTS
    SumsAddUp
    PassesS1WhenS2
    AgreesWithPhone

PROPERTIES
    AbortNeverHelps
    MarksMoveVerdict
