CONSTANTS
  PC = {vblank, reset}
  VblankPc = vblank
  ResetPc = reset
  MaxClicks = 2
SPECIFICATION Spec
INVARIANT
  InspectOnlyWhenStopped
