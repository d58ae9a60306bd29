SPECIFICATION Spec
CONSTANTS
  Peers = {p1, p2}
  NoPeer = NoPeer
  Addrs <- AllAddrs
  Places <- SomeoneRoams
  Usable <- UsableAddrs
  MaxCandidates = 2
  NextModulus = 2
  SlowCycles = FALSE
  MaxEvents = 2
PROPERTY SessionsArePreserved
