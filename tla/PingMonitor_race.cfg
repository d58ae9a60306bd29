\* Replies that race the recording of a ping and the timeout check.
SPECIFICATION Spec
CONSTANTS
  Peers = {p1}
  NoPeer = NoPeer
  Second = 2
  Interval = 4
  Timeout = 2
  PeerTimeout <- GlobalTimeout
  FixedRetries = 1
  RefreshInterval = 10
  MaxInFlight = 2
PROPERTIES
  FailureMeansSilence
