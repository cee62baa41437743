SPECIFICATION MCSpec
CONSTANTS
  MaxCycles = 4
  Followed <- TrackedAddrs
INVARIANTS TypeOK TestsHold TablesAgree ArithmeticIsExact PopUndoesPush
PROPERTY ImplementsControl
CHECK_DEADLOCK FALSE
