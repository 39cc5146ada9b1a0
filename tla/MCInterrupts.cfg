SPECIFICATION Spec
CONSTANTS
    BYTE = 6
    RADIX = 5
    Programs <- MCPrograms
    Rom <- MCRom
    Ram <- MCRam
    ResetSp = 72
    ResetPc = 100
    VblankPc = 200
    Periods = {1, 2}
    Clicks = 1
INVARIANTS
    Transparent
    FramesIntact
PROPERTY
    HandlersReturn
    Orderly
    VblankComes
