SPECIFICATION Spec
CONSTANTS
  Docs <- MCDocs
  Buffers <- MCBuffers
  Spare <- MCSpare
  Names <- MCNames
  Cuts <- MCCuts
  MaxEdits = 2
  NESTING_LIMIT = 5
  NUMBER_MAX = 63
INVARIANTS InStep StaysInside FiveMoreIsEnough PointersLeadBack
PROPERTY CutIsRefused
CHECK_DEADLOCK FALSE
