CONSTANTS
    Texts <- MCTexts
    StatusText <- MCStatusText
    Width = 3
    Height = 10
    HeaderHeight = 4
    MaxLines = 3
    MaxBytes = 12
    PageHold = 3
    LoopDelay = 2
    ClockModulus = 12
    MaxSubtitles = 2
SPECIFICATION FairSpec

    
PROPERTIES
    EveryLineShown
    SettledStays
