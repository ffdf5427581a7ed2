SPECIFICATION FairSpec
CONSTANTS
  Replica = {r1, r2}
  Decision = {d1, d2, d3}
  MaxAttempts = 2
INVARIANTS
  ChainVerifies
  InCallOrder
  RootNamesOnePrefix
PROPERTIES
  IsSharedLog
  EveryCallAnswered
CHECK_DEADLOCK FALSE
