\* More peers than slots, so that the channel overflows.
SPECIFICATION FairSpec
CONSTANTS
  Peers = {p1, p2, p3}
  Callers = {c1, c2}
  QueueSize = 2
  NoPeer = NoPeer
  Free = Free
INVARIANTS OneLookupPerPeer PendingIsExact
PROPERTIES WaitIsSound LostTriggersAreCovered ImplementsOneLookup QueuedIsServed ActiveIsReleased
