SPECIFICATION FairSpec
CONSTANTS
  MaxPublished = 2
  MaxUnreadable = 1
  Versions = {"multi", "single", "arms", "odd", "blank", "signature"}
  Tagless = {"signature"}
  Content <- TheContent
  Config <- TheConfig
  Repacked <- AllRepacked
  OsArch <- Architectures
  Filters <- AnyOrAmd64
  DefaultPlatform = "linux/amd64"
  NoPlatform = NoPlatform
  NoDigest = NoDigest
  NoVersion = NoVersion
  Faults = {"link", "tar", "decode", "client", "lost", "reject", "tag", "unlink"}
INVARIANTS TypeOK FinallyCurrent IndexesWhole NothingUnwanted SubTagsFollow
PROPERTIES Converges
CHECK_DEADLOCK FALSE
