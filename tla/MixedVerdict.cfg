SPECIFICATION Spec
CONSTANTS
  Count = 2
  Names = {n1}
  Archives = {v1}
  Faults = {"lost", "reject"}
INVARIANT RetryableErrorKeepsJob
CHECK_DEADLOCK FALSE
