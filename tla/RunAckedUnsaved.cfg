SPECIFICATION Spec
CONSTANTS
  Deliveries = {"run", "runByOther"}
  EventOf <- Events
  Config <- TheConfig
  SaveMayFail = TRUE
  Whole = Whole
INVARIANT AckMeansSaved
