SPECIFICATION Spec
CONSTANTS
  Bits      <- WeekBits
  Byte      <- WeekByte
  NbLines   <- WeekLines
  Handler   <- WeekHandler
  RegIF     <- WeekRegIF
  Tracked   <- WeekTracked
  Code      <- WeekCode
  InitialSP <- WeekSP
  InitialIE <- WeekIE
PROPERTIES
  Week08ReachesItsNOP
