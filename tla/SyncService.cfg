SPECIFICATION FairService
CONSTANTS
  Absent = Absent  Junk = Junk  Cleanup = Cleanup  NoEntry = NoEntry
  Jobs <- TheJobs
  Files <- TheFiles
  FileOf <- OwnFile
  Rank <- Lexical
  Children <- OneArtifact
  Strays = {}
  QueueCap = 1
  SoftDelete = FALSE
  Faults = {"save", "unlink"}
  Deliveries = {"package", "run"}
  EventOf <- Events
  Config <- TheConfig
  Whole = Whole
INVARIANT PromisesOnDisk
PROPERTY PromisesKept
