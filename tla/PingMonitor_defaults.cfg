\* The default interval and timeout: one second each, in half seconds.
SPECIFICATION FairSpec
CONSTANTS
  Peers = {p1}
  NoPeer = NoPeer
  Second = 2
  Interval = 2
  Timeout = 2
  PeerTimeout <- GlobalTimeout
  FixedRetries = 1
  RefreshInterval = 10
  MaxInFlight = 2
PROPERTIES
  DeadPeerIsNoticed
