SPECIFICATION FairSpec
CONSTANTS
  Names = {n1, n2}
  Host = n1
  Keys = {k1, k2}
  HostKeys = {k1, k2}
  NoKey = NoKey
  NoName = NoName
  LastHost = 3
INVARIANTS
  FilesAgree
  PeersAreDistinct
PROPERTIES
  IdentityIsKept
  ForeignSurvives
  ServiceRecovers
