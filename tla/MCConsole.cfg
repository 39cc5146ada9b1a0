SPECIFICATION Spec
CONSTANTS
    Rom <- MCRom
    RomEnd = 7
    ExtraMemory <- MCExtraMemory
    Sessions <- MCSessions
    Looks <- MCLooks
CHECK_DEADLOCK FALSE
INVARIANTS
    MemoryIsFlat
    PadTellsButtons
    LoadsOneSave
