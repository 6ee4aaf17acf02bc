SPECIFICATION FairSpec
CONSTANTS
  Count = 2
  Names = {n1, n2}
  Archives = {v1, v2}
  Faults = {"link", "gone", "copy", "torn", "client", "list", "lost", "operation", "reject", "unlink"}
INVARIANTS TypeOK DoneMeansDelivered DoneLeavesNoDownload OnlyCutsLeaveDownloads
PROPERTIES DeliversWhenTroubleEnds DeliversAsPromised
CHECK_DEADLOCK FALSE
