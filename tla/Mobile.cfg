SPECIFICATION FairSpec
CONSTANTS
  None = None
  Current = Current
  Stale = Stale
  Peers = {p1}
  Protocol = "dualstack"
  Underlays <- MCUnderlays
  Sessions = {s1}
  MaxStops = 1
INVARIANTS
  UnderlayIsApplied
  NothingOutlivesStop
  LiveResultsAreCurrent
  StaleStateIsFlagged
PROPERTIES
  EndpointConverges
  StopReturns
