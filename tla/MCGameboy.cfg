SPECIFICATION GameboySpec
CONSTANTS
  Top          = 31
  Components  <- MCComponents
  Sizes        = {}
  MaxBlocks    = 15
  Allocations <- Unreliable
  Area        <- MCArea
  RegIF       <- MCRegIF
  RegIE       <- MCRegIE
  Reads       <- AnyFile
CHECK_DEADLOCK FALSE
INVARIANTS
  RestOfTheBusIsLive
  FreeUnmapsTheRest
