CONSTANTS
  Threads = {t1, t2}
  ExternalIds = {x}
  InternalIds = {y}
  Deployed = {here}
  Remote = {there}
  Modes = {TRUE, FALSE}
  Sockets = {0, 1}
  BufferMax = 1
  Retries = 2
  MaxCalls = 3
  Value = Value
  NoValue = NoValue
  NoEndpoint = NoEndpoint
SPECIFICATION Spec
INVARIANTS TypeOK LossBound SocketsApart
PROPERTIES PollNeverReads GivesUpWhenFull
CHECK_DEADLOCK FALSE
