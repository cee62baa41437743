SPECIFICATION Spec
CONSTANTS
  PCs <- MCPCs
  MaxCalls = 3
  MaxAbove = 1
  Keys = {"UP", "A"}
  GB_CYCLES_PER_S = 3
  SECOND = 2
  MaxClock = 3
CHECK_DEADLOCK FALSE
INVARIANTS
  TypeOK
  TimerLagsBehind
  HeardButForTwo
  PadFollowsTheKeys
  PausesDoNotCount
  NeverAhead
PROPERTIES
  FramesCatchUp
