CONSTANTS
  PC = {vblank, reset}
  VblankPc = vblank
  ResetPc = reset
  MaxClicks = 2
SPECIFICATION FairSpec
INVARIANTS
  TypeOK
  FrameOwnership
  BlockedIsOwed
  FreshClock
PROPERTIES
  OnlyOwnRunCleared
  EmuReleased
  ShutdownIfInterruptible
  ImplementsTurns
