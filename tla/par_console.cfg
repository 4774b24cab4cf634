CONSTANTS
  w1 = w1  w2 = w2  w3 = w3  l1 = l1  l2 = l2  q1 = q1  q2 = q2  q3 = q3
  m1 = m1  m2 = m2  m3 = m3  m4 = m4
  Main = Main  Console = Console  NoMsg = NoMsg
  Workers = {w1, w2}
  Listeners = {}
  External = {}
  Multithreaded = TRUE
  Queues = {q1, q2}
  Group <- PeerGroups
  Msgs <- MCMsgs
  Route <- MCRoute
  Sends <- BriefSends
  InitSends <- OneMessage
  FinalSends <- Farewell
  CloseSends <- NoCloseSends
  NetMsgs = {}
  Outcomes = {"result"}
  StopModes = {"FinishOne", "FinishAll"}
SPECIFICATION FairSpec
INVARIANTS CountersAgree NoLostWakeup LastWorkerSignals FinishOneBound
PROPERTIES StopTakesEffect
CHECK_DEADLOCK FALSE
