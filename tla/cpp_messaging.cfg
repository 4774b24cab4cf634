CONSTANTS
  a1 = a1  a2 = a2  tick = tick  tock = tock  lost = lost  c1 = c1  c2 = c2  acc = acc  n1 = n1  n2 = n2
  NoValue = NoValue  NoQueue = NoQueue  NoConn = NoConn  NoThread = NoThread
  Peers <- MCPeers
  TriggerIds <- MCTriggerIds
  Nanomsgs = {n1, n2}
  Asios = {acc}
  ServiceThreads = {s1, s2}
  Connections = {c1, c2}
  Owner <- MCOwner
  Setups <- MCSetups
  BufferMax = 2
  Targets <- SomeTargets
  Table = {tick}
  Subscribed <- MCSubscribed
SPECIFICATION FairSpec
INVARIANTS TypeOK ExactlyOnce SourceOrder BufferBound StopBound ConnectionsServed
PROPERTIES HandlersFinish
CHECK_DEADLOCK FALSE
