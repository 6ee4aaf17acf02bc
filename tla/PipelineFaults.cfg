SPECIFICATION Spec
CONSTANTS
  d = d  a = a  b = b  p = p  q = q
  fd = fd  fp = fp  fq = fq  fa = fa  fb = fb  fs = fs
  Absent = Absent  Junk = Junk  Cleanup = Cleanup  NoEntry = NoEntry
  Rank <- Order
  Jobs = {d, a, b}
  Files = {fd, fa}
  FileOf <- TwoPatterns
  Children <- Discovered
  Strays = {fa}
  QueueCap = 1
  SoftDelete = TRUE
  Faults = {"read", "save", "move", "unlink", "expire"}
INVARIANTS TypeOK InFlightExact NoDuplicateDispatch PipelineFilesPresent LostOnlyIfExposed
PROPERTIES RemovalOnlyAfterVerdict
