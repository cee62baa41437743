SPECIFICATION DataSpec
CONSTANTS
  Top         = 3
  Components <- Trio
  Sizes      <- MCSizes
  MaxBlocks   = 2
  Allocations <- Unreliable
  Bytes = {1}
  Words <- MCWords
  MaxLength = 4
  MaxStores = 1
  c1 = c1
  c2 = c2
  c3 = c3
SYMMETRY Permuted
CHECK_DEADLOCK FALSE
INVARIANTS
  MappedIsLive
  ExactMapping
  ReadsBackWhatItStored
  OnlyWordsAtAnEndGoAstray
PROPERTIES
  StoresStayInTheirComponent
