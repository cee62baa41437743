SPECIFICATION WidthSpec
CONSTANTS
  Byte   <- GBByte
  Tics   <- GBTics
  Weight <- GBWeight
  Stored <- GBStored
INVARIANTS
  TimaCountsPeriods
