CONSTANTS
  w1 = w1  w2 = w2  w3 = w3  l1 = l1  l2 = l2  q1 = q1  q2 = q2  q3 = q3
  m1 = m1  m2 = m2  m3 = m3  m4 = m4
  Main = Main  Console = Console  NoMsg = NoMsg
  Workers = {w1}
  Listeners = {l1, l2}
  External = {l1, l2}
  Multithreaded = FALSE
  Queues = {q1, q2}
  Group <- SingleGroup
  Msgs <- MCMsgs
  Route <- MCRoute
  Sends <- NetSends
  InitSends <- OneMessage
  FinalSends <- Silent
  CloseSends <- MCCloseSends
  NetMsgs = {m2}
  Outcomes = {"result"}
  StopModes = {"FinishAll"}
SPECIFICATION FairSpec
INVARIANTS NoLostWakeup DrainedAtEnd
PROPERTIES ImplementsQuiescence StopTakesEffect
CHECK_DEADLOCK FALSE
