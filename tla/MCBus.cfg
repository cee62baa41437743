SPECIFICATION Spec
CONSTANTS
  Top         = 1
  Components <- Pair
  Sizes      <- AnySizes
  MaxBlocks   = 2
  Allocations <- Unreliable
  c1 = c1
  c2 = c2
SYMMETRY Permuted
INVARIANTS
  TypeOK
  MappedInBounds
