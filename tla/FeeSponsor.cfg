SPECIFICATION Spec
CONSTANTS
  Worker = {w1, w2}
  Account = {"sponsor"}
  AccountOf <- OneAccount
  NoOne = NoOne
  MaxSlot = 2
  MaxCalls = 3
  MaxAttempts = 2
  MaxSubmitAttempts = 2
SYMMETRY Replicas
INVARIANTS
  GrantedOnceUntilRewind
  PendingNeverUnderReports
  AppliedAtMostOnce
CHECK_DEADLOCK FALSE
