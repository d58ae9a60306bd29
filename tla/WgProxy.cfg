\* Two callers move two peers between two endpoints while the proxy closes.
SPECIFICATION FairSpec
CONSTANTS
  Peers = {p1, p2}
  Addrs = {a1, a2}
  Callers = {c1, c2}
  NoPeer = NoPeer
  NoAddr = NoAddr
  Free = Free
INVARIANTS
  MapsAreInverse
  SendsToOwnEndpoint
  RelayHasSocket
  CloseIsComplete
PROPERTIES
  NeverRebound
  CloseTerminates
  CallsReturn
