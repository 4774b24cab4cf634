CONSTANTS
  a1 = a1  a2 = a2  tick = tick  tock = tock  lost = lost  c1 = c1  c2 = c2  acc = acc  n1 = n1  n2 = n2
  NoValue = NoValue  NoQueue = NoQueue  NoConn = NoConn  NoThread = NoThread
  Peers <- MCPeers
  TriggerIds <- MCTriggerIds
  Nanomsgs = {n1}
  Asios = {}
  ServiceThreads = {}
  Connections = {}
  Owner <- MCOwner
  Setups <- SingleSetup
  BufferMax = 2
  Targets <- OneTarget
  Table = {tick}
  Subscribed <- MCSubscribed
SPECIFICATION FairSpec
PROPERTIES QueuedIsTaken
CHECK_DEADLOCK FALSE
