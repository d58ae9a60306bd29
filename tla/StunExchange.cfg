\* Two callers, two servers, a NAT that remaps once or more, packets that pile up.
SPECIFICATION FairSpec
CONSTANTS
  Callers = {c1, c2}
  Txns = {t1, t2}
  NumServers = 2
  Mappings = {m1, m2}
  MaxPackets = 1
  NoTxn = NoTxn
  NoMapping = NoMapping
  Free = Free
INVARIANTS AnswerIsCurrent RegistryIsExact
PROPERTY ResolveReturns
