CONSTANTS
  Size = 5
  Programs <- Roms
  Vectors <- ResetAndVblank
  SwitchTargets <- Targets
  KnownFunctions <- Known
SPECIFICATION FairSpec
INVARIANTS
  SwitchTargetsSeeded
  SuccessorsKept
  ReachableIsTranslated
  MissingLabelsAreEntries
PROPERTY
  Terminates
