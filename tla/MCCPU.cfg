SPECIFICATION MCSpec
CONSTANTS
  Bits      <- MCBits
  Byte      <- MCByte
  NbLines   <- MCLines
  Handler   <- MCHandler
  RegIF     <- MCRegIF
  Tracked   <- MCTracked
  Code      <- MCCode
  InitialSP <- MCSP
  InitialIE <- MCIE
  MaxDepth  = 2
INVARIANTS
  TypeOK
  KeepsToItsStack
PROPERTIES
  InterruptNotLost
  NothingPendsForEver
  ComesBackWhereItLeft
