SPECIFICATION FairSpec
CONSTANTS
  Callers = {c1, c2}
  Nobody = Nobody
  Iterations = 3
  PeerQueueSize = 2
  NumPeers = 2
INVARIANTS NoUseAfterCleanup NoWorkerOutlivesItsRun
PROPERTIES CloseReturns CancelledRunReturns RefreshIsPublished
CHECK_DEADLOCK FALSE
