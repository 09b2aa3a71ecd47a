SPECIFICATION Spec
CONSTANTS
    SeqSpace = 6
    ByteMod = 4
    MaxFragments = 3
    AssembledMax = 4
INVARIANTS
    TypeOK
    BufferCoherent
    CompleteIsWhole
    FreshSubtitleCompletes
    StaleCostsNothing
