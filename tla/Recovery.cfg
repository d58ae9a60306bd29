SPECIFICATION FairSpec
CONSTANTS
  Peers = {p1, p2}
  NoPeer = NoPeer
  Addrs <- AllAddrs
  Places <- SomeoneRoams
  Usable <- UsableAddrs
  MaxCandidates = 2
  NextModulus = 2
  SlowCycles = TRUE
  MaxEvents = 2
PROPERTIES
  GivenUpOnlyIfSilent
  Recovers
  NeverShutOut
