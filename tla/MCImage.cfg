SPECIFICATION MCSpec
CONSTANTS
  SIZE_RANGE = 65536
  Lines      = {"a", "b", "c"}
  MaxVectors = 24
  MaxCalls   = 2
  Widths    <- MCWidths
  Heights   <- MCHeights
  Words     <- MCWords
  Shifts    <- MCShifts
  Indexes   <- MCIndexes
  Palettes  <- MCPalettes
  Starts    <- MCStarts
  Failures  <- MCFailures
CHECK_DEADLOCK FALSE
INVARIANTS
  TypeOK
  PartsHaveOneOwner
  NothingLeaks
  VectorLaws
PROPERTIES
  ErrorsChangeNothing
  DrawsThePicture
