\* Interval 2s and timeout 1s, in half seconds; refresh after 10s.
SPECIFICATION FairSpec
CONSTANTS
  Peers = {p1}
  NoPeer = NoPeer
  Second = 2
  Interval = 4
  Timeout = 2
  PeerTimeout <- GlobalTimeout
  FixedRetries = 1
  RefreshInterval = 10
  MaxInFlight = 2
INVARIANTS
  HandoverIsExact
PROPERTIES
  DeadPeerIsNoticed
  DeadPeerIsHandedOver
  LivePeerRecovers
