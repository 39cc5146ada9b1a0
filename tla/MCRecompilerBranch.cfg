CONSTANTS
  Size = 5
  Programs <- Roms
  Vectors <- ResetAndVblank
  SwitchTargets <- Targets
  KnownFunctions <- Known
SPECIFICATION Spec
INVARIANT BranchesFallThrough
