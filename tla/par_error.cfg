CONSTANTS
  w1 = w1  w2 = w2  w3 = w3  l1 = l1  l2 = l2  q1 = q1  q2 = q2  q3 = q3
  m1 = m1  m2 = m2  m3 = m3  m4 = m4
  Main = Main  Console = Console  NoMsg = NoMsg
  Workers = {w1, w2}
  Listeners = {l1}
  External = {}
  Multithreaded = TRUE
  Queues = {q1, q2}
  Group <- PeerGroups
  Msgs <- MCMsgs
  Route <- MCRoute
  Sends <- MCSends
  InitSends <- OneMessage
  FinalSends <- Silent
  CloseSends <- NoCloseSends
  NetMsgs = {}
  Outcomes = {"result", "error", "exception"}
  StopModes = {"FinishAll"}
SPECIFICATION Spec
INVARIANTS CountersAgree
CHECK_DEADLOCK FALSE
