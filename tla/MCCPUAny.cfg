SPECIFICATION Spec
CONSTANTS
  Bits      <- AnyBits
  Byte      <- AnyByte
  NbLines   <- AnyLines
  Handler   <- AnyHandler
  RegIF     <- AnyRegIF
  Tracked   <- AnyTracked
  Code      <- AnyCode
  InitialSP <- AnySP
  InitialIE <- AnyIE
PROPERTIES
  StoresAreAnnounced
