SPECIFICATION Spec
CONSTANTS
  Byte   <- MCByte
  Tics   <- MCTics
  Weight <- MCWeight
  Stored <- MCStored
INVARIANTS
  TypeOK
  CounterAligned
PROPERTIES
  DivFollowsCounter
  KeepsRequesting
  TicksAtTheSelectedRate
