CONSTANTS
  VramSize = 8
  VsramSize = 2
  CramSize = 4
  RegisterWrites <- Writes
SPECIFICATION Spec
INVARIANTS
  TypeOK
  FieldsFollowRegisters
  FastDmaIsWordByWord
  WritesStayInside
  OnlyFillsWait
PROPERTIES
  HalvesStayPaired
\* std::abort ends the process.
CHECK_DEADLOCK FALSE
