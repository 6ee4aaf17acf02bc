SPECIFICATION Spec
CONSTANTS
  MaxPublished = 1
  MaxUnreadable = 0
  Versions = {"multi"}
  Tagless = {}
  Content <- TheContent
  Config <- TheConfig
  Repacked <- AllRepacked
  OsArch <- Architectures
  Filters <- AnyOrAmd64
  DefaultPlatform = "linux/amd64"
  NoPlatform = NoPlatform
  NoDigest = NoDigest
  NoVersion = NoVersion
  Faults = {"json"}
INVARIANT OnlyOneWithoutIndex
CHECK_DEADLOCK FALSE
