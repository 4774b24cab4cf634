CONSTANTS
  NoValue = NoValue
  Values = {v1, v2}
  MaxSizes = {0, 1, 2}
  Attachable = {"NullEvent", "SocketData"}
  Subscribers = {s1}
  MaxHistory = 4
  MaxAttached = 2
SPECIFICATION Spec
INVARIANTS TypeOK ContainerIsFifo Bounded ScalarLosesNothing SubscribersMatch
PROPERTIES ImplementsFifo
CHECK_DEADLOCK FALSE
