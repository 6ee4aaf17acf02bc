SPECIFICATION Spec
CONSTANTS
  d = d  a = a  b = b  p = p  q = q
  fd = fd  fp = fp  fq = fq  fa = fa  fb = fb  fs = fs
  Absent = Absent  Junk = Junk  Cleanup = Cleanup  NoEntry = NoEntry
  Rank <- Order
  Jobs = {p, q}
  Files = {fp, fq}
  FileOf <- OwnFiles
  Children <- NoneDiscovered
  Strays = {}
  QueueCap = 2
  SoftDelete = FALSE
  Faults = {}
INVARIANT NeverSendsOnClosed
