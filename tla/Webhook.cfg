SPECIFICATION Spec
CONSTANTS
  Deliveries = {"package", "release", "releaseAgain", "malformed"}
  EventOf <- Events
  Config <- TheConfig
  SaveMayFail = TRUE
  Whole = Whole
INVARIANTS TypeOK AckedJobsSaved
