SPECIFICATION GameboySpec
CONSTANTS
  Top          = 31
  Components  <- MCComponents
  Sizes        = {}
  MaxBlocks    = 15
  Allocations <- Reliable
  Area        <- MCArea
  RegIF       <- MCRegIF
  RegIE       <- MCRegIE
  Reads       <- SoundFile
CHECK_DEADLOCK FALSE
INVARIANTS
  CreatesAGameboy
