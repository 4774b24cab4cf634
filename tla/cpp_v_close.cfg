CONSTANTS
  Threads = {t1}
  ExternalIds = {x}
  InternalIds = {y}
  Deployed = {here}
  Remote = {there}
  Modes = {TRUE, FALSE}
  Sockets = {0, 1}
  BufferMax = 1
  Retries = 2
  MaxCalls = 2
  Value = Value
  NoValue = NoValue
  NoEndpoint = NoEndpoint
SPECIFICATION Spec
PROPERTIES ClosedIsRemoved
CHECK_DEADLOCK FALSE
