SPECIFICATION FairLinkSpec
CONSTANTS
    SeqSpace = 8
    ByteMod = 5
    MaxFragments = 3
    AssembledMax = 3
    MaxTexts = 3
    FragmentCounts = {0, 2}
    FirstSeqs <- MCBeforeWrap
    MaxInFlight = 2
    MaxDrops = 2
    MaxBreaks = 1
INVARIANTS
    DisplayWhole
    VerdictFinal
    AckTimesOwnSubtitle
PROPERTIES
    DeliverySpec
    EventuallyShown
    EventuallyConfirmed
CHECK_DEADLOCK FALSE
