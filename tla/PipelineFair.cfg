SPECIFICATION FairSpec
CONSTANTS
  d = d  a = a  b = b  p = p  q = q
  fd = fd  fp = fp  fq = fq  fa = fa  fb = fb  fs = fs
  Absent = Absent  Junk = Junk  Cleanup = Cleanup  NoEntry = NoEntry
  Rank <- Order
  Jobs = {d, a, b}
  Files = {fd, fa, fb}
  FileOf <- OwnFiles
  Children <- Discovered
  Strays = {}
  QueueCap = 1
  SoftDelete = TRUE
  Faults = {"save", "unlink"}
INVARIANTS UnfinishedJobsPersist DiscoverComplete SettledJobsKept
PROPERTIES LedgerKept EveryFileDispatched RecoversWhenTroubleEnds
