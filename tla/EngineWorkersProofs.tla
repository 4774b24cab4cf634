------------------------- MODULE EngineWorkersProofs -------------------------
(***************************************************************************)
(* What holds of EngineWorkers for every number of workers, queues and     *)
(* listeners, and every program.                                           *)
(***************************************************************************)
EXTENDS EngineWorkers, TLAPS

-----------------------------------------------------------------------------
(***************************************************************************)
(* Type correctness.  A step moves the program counter of its own thread   *)
(* only, so the threads of the other kinds keep theirs.                    *)
(***************************************************************************)

OthersKeepOut(t) == \A s \in Senders \ {t} : out'[s] = out[s]

\* A worker that moves to a label of the workers' code keeps ControlOK.
LEMMA WorkerGoto ==
  ASSUME ControlOK, NEW w \in Workers, NEW l \in WorkerPC \ Posting,
         pc' = [pc EXCEPT ![w] = l], OthersKeepOut(w)
  PROVE  ControlOK'
BY ThreadAssumption DEF ControlOK, Threads, Senders, PCs, OthersKeepOut

\* A listener that moves to a label of the listeners' code keeps ControlOK.
LEMMA ListenerGoto ==
  ASSUME ControlOK, NEW t \in Listeners, NEW l \in ListenerPC \ Posting,
         pc' = [pc EXCEPT ![t] = l], OthersKeepOut(t)
  PROVE  ControlOK'
BY ThreadAssumption DEF ControlOK, Threads, Senders, PCs, OthersKeepOut

\* The main thread, moving to a label of its own code, keeps ControlOK.
LEMMA MainGoto ==
  ASSUME ControlOK, NEW l \in MainPC \ Posting, pc' = [pc EXCEPT ![Main] = l],
         OthersKeepOut(Main)
  PROVE  ControlOK'
BY ThreadAssumption DEF ControlOK, Threads, Senders, PCs, OthersKeepOut

\* The console, moving to a label of its own code, keeps ControlOK.
LEMMA ConsoleGoto ==
  ASSUME ControlOK, NEW l \in ConsolePC, pc' = [pc EXCEPT ![Console] = l],
         out' = out
  PROVE  ControlOK'
BY ThreadAssumption DEF ControlOK, Threads, Senders, PCs

\* The labels of enqueue belong to every thread that sends; within enqueue a
\* thread keeps the message it is posting at the head of its list.
LEMMA SenderGoto ==
  ASSUME ControlOK, NEW t \in Senders, NEW l \in Sending,
         pc' = [pc EXCEPT ![t] = l], OthersKeepOut(t),
         l \in Posting => out'[t] # <<>>
  PROVE  ControlOK'
<1>1. l \in WorkerPC /\ l \in ListenerPC /\ l \in MainPC
  BY DEF WorkerPC, ListenerPC, MainPC
<1> QED
  BY <1>1, ThreadAssumption
  DEF ControlOK, Threads, Senders, PCs, OthersKeepOut

\* Every queue has exactly one owner.
LEMMA OwnerIsWorker ==
  ASSUME NEW q \in Queues
  PROVE  Owner(q) \in Workers /\ q \in Managed(Owner(q))
BY QueueAssumption DEF Owner

\* The steps of enqueue preserve TypeOK, whoever takes them.
LEMMA SendTypeOK ==
  ASSUME TypeOK, NEW t \in Senders, Send(t)
  PROVE  TypeOK'
<1> USE DEF TypeOK
<1>0. /\ Posting \subseteq Sending /\ "send" \in Sending \ Posting
      /\ {"clearOutOfWork", "isEmpty", "takeMap", "putMap", "notify"} = Posting
  BY DEF Sending, Posting
<1>1. CASE Enqueue(t)
  <2>1. ControlOK'
    BY <1>0, <1>1, SenderGoto DEF Enqueue, Goto, OthersKeepOut, localVars
  <2>2. Head(out[t]) \in Msgs /\ Route[Head(out[t])] \in Queues
    BY <1>1, MessageAssumption DEF Enqueue, DataOK
  <2>3. queue' \in [Queues -> Seq(Msgs)]
    BY <1>1, <2>2 DEF Enqueue, DataOK
  <2> QED
    BY <1>1, <2>1, <2>3 DEF Enqueue, DataOK, signalVars, counterVars, flagVars,
       netVars, localVars, initVars, histVars
<1>2. CASE ClearOutOfWork(t)
  <2>1. ControlOK'
    BY <1>0, <1>2, SenderGoto DEF ClearOutOfWork, Goto, OthersKeepOut, localVars,
       ControlOK
  <2> QED
    BY <1>2, <2>1 DEF ClearOutOfWork, DataOK, queueVars, signalVars, counterVars,
       netVars, localVars, initVars, histVars
<1>3. CASE IsEmptyMVar(t)
  <2>1. out[t] \in Seq(Msgs) /\ out[t] # <<>>
    BY <1>0, <1>3 DEF IsEmptyMVar, ControlOK, DataOK
  <2>2. out' = out \/ out' = [out EXCEPT ![t] = Tail(out[t])]
    BY <1>3 DEF IsEmptyMVar
  <2>3. out' \in [Senders -> Seq(Msgs)] /\ OthersKeepOut(t)
    <3>1. Tail(out[t]) \in Seq(Msgs)
      BY <2>1
    <3> QED
      BY <2>2, <3>1 DEF DataOK, OthersKeepOut
  <2>4. ControlOK'
    BY <1>0, <1>3, <2>1, <2>3, SenderGoto DEF IsEmptyMVar, Goto
  <2> QED
    BY <1>3, <2>3, <2>4 DEF IsEmptyMVar, DataOK, queueVars, signalVars,
       counterVars, flagVars, netVars, initVars, histVars
<1>4. CASE TakeMap(t)
  <2>1. ControlOK'
    BY <1>0, <1>4, SenderGoto DEF TakeMap, Goto, OthersKeepOut, localVars,
       ControlOK
  <2> QED
    BY <1>4, <2>1 DEF TakeMap, DataOK, MVar, signalVars, counterVars,
       flagVars, netVars, localVars, initVars, histVars
<1>5. CASE PutMap(t)
  <2>1. ControlOK'
    BY <1>0, <1>5, SenderGoto DEF PutMap, Goto, OthersKeepOut, localVars,
       ControlOK
  <2> QED
    BY <1>5, <2>1 DEF PutMap, DataOK, MVar, signalVars, counterVars,
       flagVars, netVars, localVars, initVars, histVars
<1>6. CASE NotifyMessage(t)
  <2>1. out[t] \in Seq(Msgs) /\ out[t] # <<>>
    BY <1>0, <1>6 DEF NotifyMessage, ControlOK, DataOK
  <2>2. out' \in [Senders -> Seq(Msgs)] /\ OthersKeepOut(t)
    BY <1>6, <2>1 DEF NotifyMessage, DataOK, OthersKeepOut
  <2>3. ControlOK'
    BY <1>0, <1>6, <2>2, SenderGoto DEF NotifyMessage, Goto
  <2> QED
    BY <1>6, <2>2, <2>3 DEF NotifyMessage, DataOK, queueVars, counterVars,
       flagVars, netVars, initVars, histVars
<1> QED
  BY <1>1, <1>2, <1>3, <1>4, <1>5, <1>6 DEF Send

\* The steps of notifyWorkers preserve TypeOK, whoever takes them.
LEMMA NotifyTypeOK ==
  ASSUME TypeOK, NEW t \in Notifiers, NotifyWorkers(t)
  PROVE  TypeOK'
<1> USE DEF TypeOK
<1>0. /\ {"waking", "waitForMessage"} \subseteq WorkerPC \ Posting
      /\ {"waking", "done"} \subseteq ConsolePC
  BY DEF WorkerPC, ConsolePC, Posting
<1>1. (t \in Workers /\ t # Console) \/ t = Console
  BY ThreadAssumption DEF Notifiers
<1>2. CASE TakeReady(t)
  <2>1. ControlOK'
    BY <1>0, <1>1, <1>2, WorkerGoto, ConsoleGoto DEF TakeReady, Goto, OthersKeepOut
  <2> QED
    BY <1>2, <2>1 DEF TakeReady, DataOK, MVar, queueVars, counterVars, flagVars,
       netVars, initVars, histVars
<1>3. CASE WakeOne(t)
  <2>1. ControlOK'
    BY <1>3 DEF WakeOne, ControlOK
  <2>2. sv' \in [Workers -> BOOLEAN] /\ todo' \in [Notifiers -> SUBSET Workers]
    BY <1>3 DEF WakeOne, DataOK
  <2> QED
    BY <1>3, <2>1, <2>2 DEF WakeOne, DataOK, queueVars, counterVars, flagVars,
       netVars, initVars, histVars
<1>4. CASE PutReady(t)
  <2>1. ControlOK'
    BY <1>0, <1>1, <1>4, WorkerGoto, ConsoleGoto
    DEF PutReady, Goto, OthersKeepOut, localVars
  <2> QED
    BY <1>4, <2>1 DEF PutReady, DataOK, MVar, queueVars, counterVars, flagVars,
       netVars, localVars, initVars, histVars
<1> QED
  BY <1>2, <1>3, <1>4 DEF NotifyWorkers

\* The steps of the main thread preserve TypeOK.
LEMMA MainTypeOK ==
  ASSUME TypeOK, MainStep
  PROVE  TypeOK'
<1> USE DEF TypeOK
<1>0. /\ {"send", "fork", "configWorkers", "configReady", "waitForEngine",
          "runMessages", "returned"} \subseteq MainPC \ Posting
      /\ "incLive" \in WorkerPC \ Posting
      /\ Main \in Senders
  BY DEF MainPC, WorkerPC, Sending, Posting, Senders
<1>1. CASE Initialize
  <2>1. PICK ms \in InitSends : out' = [out EXCEPT ![Main] = ms]
    BY <1>1 DEF Initialize
  <2>2. out' \in [Senders -> Seq(Msgs)] /\ OthersKeepOut(Main)
    BY <2>1, MessageAssumption DEF DataOK, OthersKeepOut
  <2>3. ControlOK'
    BY <1>0, <1>1, <2>2, MainGoto DEF Initialize, Goto
  <2>4. status0' \in {"result", "error"}
    BY <1>1, MessageAssumption DEF Initialize
  <2> QED
    BY <1>1, <2>2, <2>3, <2>4 DEF Initialize, DataOK, queueVars, signalVars,
       counterVars, flagVars, netVars, histVars
<1>2. CASE Initialized
  <2>1. ControlOK'
    BY <1>0, <1>2, MainGoto DEF Initialized, Goto, OthersKeepOut, localVars
  <2> QED
    BY <1>2, <2>1 DEF Initialized, DataOK, queueVars, signalVars,
       counterVars, flagVars, netVars, localVars, initVars, histVars
<1>3. ASSUME NEW w \in Workers, ForkWorker(w)
      PROVE  TypeOK'
  <2>1. ControlOK'
    BY <1>0, <1>3, WorkerGoto DEF ForkWorker, Goto, OthersKeepOut, localVars
  <2> QED
    BY <1>3, <2>1 DEF ForkWorker, DataOK, queueVars, signalVars,
       counterVars, flagVars, netVars, localVars, initVars, histVars
<1>4. CASE Forked
  <2>1. ControlOK'
    BY <1>0, <1>4, MainGoto DEF Forked, Goto, OthersKeepOut, localVars
  <2> QED
    BY <1>4, <2>1 DEF Forked, DataOK, queueVars, signalVars,
       counterVars, flagVars, netVars, localVars, initVars, histVars
<1>5. CASE ConfigWorkerMap
  <2>1. ControlOK'
    BY <1>0, <1>5, MainGoto DEF ConfigWorkerMap, Goto, OthersKeepOut, localVars
  <2> QED
    BY <1>5, <2>1 DEF ConfigWorkerMap, DataOK, MVar, queueVars, signalVars,
       counterVars, flagVars, netVars, localVars, initVars, histVars
<1>6. CASE ConfigReadyMap
  <2>1. ControlOK'
    BY <1>0, <1>6, ThreadAssumption
    DEF ConfigReadyMap, ControlOK, Threads, Senders, PCs, localVars
  <2> QED
    BY <1>6, <2>1 DEF ConfigReadyMap, DataOK, MVar, queueVars,
       counterVars, flagVars, netVars, localVars, initVars, histVars
<1>7. CASE Return
  <2>1. ControlOK'
    BY <1>0, <1>7, MainGoto DEF Return, Goto, OthersKeepOut, localVars
  <2> QED
    BY <1>7, <2>1 DEF Return, DataOK, queueVars, signalVars,
       counterVars, flagVars, netVars, localVars, initVars, histVars
<1> QED
  BY <1>0, <1>1, <1>2, <1>3, <1>4, <1>5, <1>6, <1>7, SendTypeOK DEF MainStep

\* What a close leaves for its thread to send are messages.
LEMMA CloseTypeOK ==
  ASSUME TypeOK, NEW t \in Senders, NEW l \in Listeners, CloseEndpoint(t, l)
  PROVE  /\ out' \in [Senders -> Seq(Msgs)] /\ OthersKeepOut(t)
         /\ pc' = [pc EXCEPT ![t] = "send"] /\ open' \subseteq Listeners
<1>1. PICK ms \in CloseSends[l] : out' = [out EXCEPT ![t] = ms]
  BY DEF CloseEndpoint
<1>2. ms \in Seq(Msgs)
  BY MessageAssumption
<1> QED
  BY <1>1, <1>2 DEF CloseEndpoint, Goto, OthersKeepOut, TypeOK, DataOK

\* The steps of a worker's own loop preserve TypeOK.
LEMMA WorkerTypeOK ==
  ASSUME TypeOK, NEW w \in Workers, WorkerStep(w)
  PROVE  TypeOK'
<1> USE DEF TypeOK
<1>0. /\ {"send", "incLive", "incAwake", "dequeue", "readTerminate", "readNetwork",
          "readOutOfWork", "decAwake", "readQueued", "readAwake", "setOutOfWork",
          "notifyWorkers", "waitForMessage", "readSV", "wakeup", "error",
          "decLive", "readLive", "cleanupEngine", "signal", "dead", "crashed"}
           \subseteq WorkerPC \ Posting
      /\ w \in Senders /\ w \in Notifiers
  BY DEF WorkerPC, Sending, Posting, Senders, Notifiers
<1>a. \A c \in {"afterOne", "afterAll", "shutdown"} : Nothing(c) \in Seen
  BY DEF Nothing, Seen, Terminate
<1>b. seen[w] \in Seen /\ seen[w].check \in {"afterOne", "afterAll", "shutdown"}
  BY DEF DataOK, Seen
<1>1. CASE IncLive(w)
  <2>1. ControlOK'
    BY <1>0, <1>b, <1>1, WorkerGoto DEF IncLive, Goto, OthersKeepOut, localVars
  <2> QED
    BY <1>1, <2>1 DEF IncLive, DataOK, queueVars, signalVars,
       counterVars, flagVars, netVars, localVars, initVars, histVars
<1>2. CASE IncAwake(w)
  <2>1. ControlOK'
    BY <1>0, <1>b, <1>2, WorkerGoto DEF IncAwake, Goto, OthersKeepOut, localVars
  <2>2. seen' \in [Workers -> Seen]
    BY <1>a, <1>b, <1>2 DEF IncAwake, DataOK 
  <2> QED
    BY <1>2, <2>1, <2>2 DEF IncAwake, DataOK, queueVars, signalVars,
       counterVars, flagVars, netVars, localVars, initVars, histVars
<1>3. CASE Dequeue(w)
  <2>1. PICK i \in DOMAIN Group[w] :
          /\ queue[Group[w][i]] # <<>>
          /\ queue' = [queue EXCEPT ![Group[w][i]] = Tail(@)]
          /\ current' = [current EXCEPT ![w] = Head(queue[Group[w][i]])]
          /\ \E ms \in Sends[Head(queue[Group[w][i]])] : out' = [out EXCEPT ![w] = ms]
    BY <1>3 DEF Dequeue
  <2>2. Group[w][i] \in Queues
    BY QueueAssumption
  <2>3. /\ Head(queue[Group[w][i]]) \in Msgs
        /\ Tail(queue[Group[w][i]]) \in Seq(Msgs)
    BY <2>1, <2>2 DEF DataOK
  <2>4. Sends[Head(queue[Group[w][i]])] \subseteq Seq(Msgs)
    BY <2>3, MessageAssumption
  <2>5. queue' \in [Queues -> Seq(Msgs)]
    BY <2>1, <2>2, <2>3 DEF DataOK
  <2>6. current' \in [Workers -> Msgs \cup {NoMsg}]
    BY <2>1, <2>3 DEF DataOK
  <2>7. out' \in [Senders -> Seq(Msgs)] /\ OthersKeepOut(w)
    BY <2>1, <2>4 DEF DataOK, OthersKeepOut
  <2>8. extra' \in [Workers -> Nat]
    BY <1>3 DEF Dequeue, DataOK
  <2>9. ControlOK'
    BY <1>0, <1>3, <2>7, WorkerGoto DEF Dequeue, Goto
  <2> QED
    BY <1>3, <2>5, <2>6, <2>7, <2>8, <2>9 DEF Dequeue, DataOK, signalVars,
       counterVars, flagVars, netVars, initVars
<1>4. CASE DequeueNothing(w)
  <2>1. ControlOK'
    BY <1>0, <1>b, <1>4, WorkerGoto DEF DequeueNothing, Goto, OthersKeepOut, localVars
  <2>2. seen' \in [Workers -> Seen]
    BY <1>a, <1>b, <1>4 DEF DequeueNothing, DataOK 
  <2> QED
    BY <1>4, <2>1, <2>2 DEF DequeueNothing, DataOK, queueVars, signalVars,
       counterVars, flagVars, netVars, localVars, initVars, histVars
<1>5. CASE Processed(w)
  <2>1. ControlOK'
    BY <1>0, <1>b, <1>5, WorkerGoto DEF Processed, Goto, OthersKeepOut, localVars
  <2>2. seen' \in [Workers -> Seen]
    BY <1>a, <1>b, <1>5 DEF Processed, DataOK 
  <2> QED
    BY <1>5, <2>1, <2>2 DEF Processed, DataOK, queueVars, signalVars,
       counterVars, flagVars, netVars, localVars, initVars, histVars
<1>6. CASE Crash(w)
  <2>1. out' \in [Senders -> Seq(Msgs)] /\ OthersKeepOut(w)
    <3>1. <<>> \in Seq(Msgs)
      OBVIOUS
    <3> QED
      BY <1>6, <3>1 DEF Crash, DataOK, OthersKeepOut
  <2>2. ControlOK'
    BY <1>0, <1>6, <2>1, WorkerGoto DEF Crash, Goto
  <2> QED
    BY <1>6, <2>1, <2>2 DEF Crash, DataOK, queueVars, signalVars,
       counterVars, flagVars, netVars, initVars, histVars
<1>7. CASE ReadTerminate(w)
  <2>1. ControlOK'
    BY <1>0, <1>b, <1>7, WorkerGoto DEF ReadTerminate, Goto, OthersKeepOut, localVars
  <2>2. seen' \in [Workers -> Seen]
    BY <1>a, <1>b, <1>7 DEF ReadTerminate, DataOK, Seen, flagVars
  <2> QED
    BY <1>7, <2>1, <2>2 DEF ReadTerminate, DataOK, queueVars, signalVars,
       counterVars, flagVars, netVars, localVars, initVars, histVars
<1>8. CASE ReadNetwork(w)
  <2>1. ControlOK'
    BY <1>0, <1>b, <1>8, WorkerGoto DEF ReadNetwork, Goto, OthersKeepOut, localVars
  <2>2. seen' \in [Workers -> Seen]
    BY <1>a, <1>b, <1>8 DEF ReadNetwork, DataOK, Seen
  <2> QED
    BY <1>8, <2>1, <2>2 DEF ReadNetwork, DataOK, queueVars, signalVars,
       counterVars, flagVars, netVars, localVars, initVars, histVars
<1>9. CASE ReadOutOfWork(w)
  <2>1. ControlOK'
    BY <1>0, <1>b, <1>9, WorkerGoto DEF ReadOutOfWork, Goto, OthersKeepOut, localVars
  <2> QED
    BY <1>9, <2>1 DEF ReadOutOfWork, DataOK, queueVars, signalVars,
       counterVars, flagVars, netVars, localVars, initVars, histVars
<1>10. CASE DecAwake(w)
  <2>1. ControlOK'
    BY <1>0, <1>b, <1>10, WorkerGoto DEF DecAwake, Goto, OthersKeepOut, localVars
  <2>2. seen' \in [Workers -> Seen]
    BY <1>a, <1>b, <1>10 DEF DecAwake, DataOK 
  <2> QED
    BY <1>10, <2>1, <2>2 DEF DecAwake, DataOK, queueVars, signalVars,
       counterVars, flagVars, netVars, localVars, initVars, histVars
<1>11. CASE ReadQueued(w)
  <2>1. ControlOK'
    BY <1>0, <1>b, <1>11, WorkerGoto DEF ReadQueued, Goto, OthersKeepOut, localVars
  <2>2. seen' \in [Workers -> Seen]
    <3>1. NoneQueued \in BOOLEAN
      BY DEF NoneQueued
    <3> QED
      BY <1>b, <1>11, <3>1 DEF ReadQueued, DataOK, Seen
  <2> QED
    BY <1>11, <2>1, <2>2 DEF ReadQueued, DataOK, queueVars, signalVars,
       counterVars, flagVars, netVars, localVars, initVars, histVars
<1>12. CASE ReadAwake(w)
  <2>1. ControlOK'
    BY <1>0, <1>b, <1>12, WorkerGoto DEF ReadAwake, Goto, OthersKeepOut, localVars
  <2> QED
    BY <1>12, <2>1 DEF ReadAwake, DataOK, queueVars, signalVars,
       counterVars, flagVars, netVars, localVars, initVars, histVars
<1>13. CASE SetOutOfWork(w)
  <2>1. ControlOK'
    BY <1>0, <1>b, <1>13, WorkerGoto DEF SetOutOfWork, Goto, OthersKeepOut, localVars
  <2> QED
    BY <1>13, <2>1 DEF SetOutOfWork, DataOK, queueVars, signalVars,
       counterVars, flagVars, netVars, localVars, initVars, histVars
<1>14. CASE WaitForMessage(w)
  <2>1. ControlOK'
    BY <1>0, <1>b, <1>14, WorkerGoto DEF WaitForMessage, Goto, OthersKeepOut, localVars
  <2> QED
    BY <1>14, <2>1 DEF WaitForMessage, DataOK, queueVars, signalVars,
       counterVars, flagVars, netVars, localVars, initVars, histVars
<1>15. CASE ReadSV(w)
  <2>1. ControlOK'
    BY <1>0, <1>b, <1>15, WorkerGoto DEF ReadSV, Goto, OthersKeepOut, localVars
  <2> QED
    BY <1>15, <2>1 DEF ReadSV, DataOK, queueVars, signalVars,
       counterVars, flagVars, netVars, localVars, initVars, histVars
<1>16. CASE Wakeup(w)
  <2>1. ControlOK'
    BY <1>0, <1>b, <1>16, WorkerGoto DEF Wakeup, Goto, OthersKeepOut, localVars
  <2> QED
    BY <1>16, <2>1 DEF Wakeup, DataOK, queueVars, signalVars,
       counterVars, flagVars, netVars, localVars, initVars, histVars
<1>17. CASE DieWithError(w)
  <2>1. ControlOK'
    BY <1>0, <1>b, <1>17, WorkerGoto DEF DieWithError, Goto, OthersKeepOut, localVars
  <2> QED
    BY <1>17, <2>1 DEF DieWithError, DataOK, queueVars, signalVars,
       counterVars, flagVars, netVars, localVars, initVars, histVars
<1>18. CASE DecLive(w)
  <2>1. ControlOK'
    BY <1>0, <1>b, <1>18, WorkerGoto DEF DecLive, Goto, OthersKeepOut, localVars
  <2> QED
    BY <1>18, <2>1 DEF DecLive, DataOK, queueVars, signalVars,
       counterVars, flagVars, netVars, localVars, initVars, histVars
<1>19. CASE ReadLive(w)
  <2>1. out' \in [Senders -> Seq(Msgs)] /\ OthersKeepOut(w)
    BY <1>19, MessageAssumption DEF ReadLive, DataOK, OthersKeepOut
  <2>2. ControlOK'
    BY <1>0, <1>19, <2>1, WorkerGoto DEF ReadLive, Goto
  <2> QED
    BY <1>19, <2>1, <2>2 DEF ReadLive, DataOK, queueVars, signalVars,
       counterVars, flagVars, netVars, initVars, histVars
<1>20. CASE Finalized(w)
  <2>1. ControlOK'
    BY <1>0, <1>b, <1>20, WorkerGoto DEF Finalized, Goto, OthersKeepOut, localVars
  <2> QED
    BY <1>20, <2>1 DEF Finalized, DataOK, queueVars, signalVars,
       counterVars, flagVars, netVars, localVars, initVars, histVars
<1>21. CASE CleanupEngine(w)
  <2>1. \/ open = {} /\ pc' = [pc EXCEPT ![w] = "signal"] /\ UNCHANGED <<open, out>>
        \/ \E l \in Listeners : CloseEndpoint(w, l)
    BY <1>21 DEF CleanupEngine, Goto, DataOK
  <2>2. CASE open = {} /\ pc' = [pc EXCEPT ![w] = "signal"] /\ UNCHANGED <<open, out>>
    <3>1. ControlOK'
      BY <1>0, <2>2, WorkerGoto DEF OthersKeepOut
    <3> QED
      BY <1>21, <2>2, <3>1 DEF CleanupEngine, DataOK, queueVars, signalVars,
         counterVars, flagVars, initVars, histVars
  <2>3. ASSUME NEW l \in Listeners, CloseEndpoint(w, l) PROVE TypeOK'
    <3>1. /\ out' \in [Senders -> Seq(Msgs)] /\ OthersKeepOut(w)
          /\ pc' = [pc EXCEPT ![w] = "send"] /\ open' \subseteq Listeners
      BY <1>0, <2>3, CloseTypeOK
    <3>2. ControlOK'
      BY <1>0, <3>1, WorkerGoto
    <3> QED
      BY <1>21, <3>1, <3>2 DEF CleanupEngine, DataOK, queueVars, signalVars,
         counterVars, flagVars, initVars, histVars
  <2> QED
    BY <2>1, <2>2, <2>3
<1>22. CASE Signal(w)
  <2>1. ControlOK'
    BY <1>0, <1>b, <1>22, WorkerGoto DEF Signal, Goto, OthersKeepOut, localVars
  <2> QED
    BY <1>22, <2>1 DEF Signal, DataOK, queueVars, signalVars,
       counterVars, flagVars, netVars, localVars, initVars, histVars
<1> QED
  BY <1>0, <1>1, <1>2, <1>3, <1>4, <1>5, <1>6, <1>7, <1>8, <1>9,
     <1>10, <1>11, <1>12, <1>13, <1>14, <1>15, <1>16, <1>17, <1>18, <1>19, <1>20, <1>21, <1>22,
     SendTypeOK, NotifyTypeOK DEF WorkerStep

\* The steps of a listener preserve TypeOK.
LEMMA ListenerTypeOK ==
  ASSUME TypeOK, NEW l \in Listeners, ListenerStep(l)
  PROVE  TypeOK'
<1> USE DEF TypeOK
<1>0. {"send", "listen", "stopped"} \subseteq ListenerPC \ Posting /\ l \in Senders
  BY DEF ListenerPC, Sending, Posting, Senders
<1>1. CASE Receive(l)
  <2>1. PICK m \in wire : wire' = wire \ {m} /\ out' = [out EXCEPT ![l] = <<m>>]
    BY <1>1 DEF Receive
  <2>2. <<m>> \in Seq(Msgs)
    BY MessageAssumption DEF DataOK
  <2>3. out' \in [Senders -> Seq(Msgs)] /\ OthersKeepOut(l)
    BY <2>1, <2>2 DEF DataOK, OthersKeepOut
  <2>4. ControlOK'
    BY <1>0, <1>1, <2>3, ListenerGoto DEF Receive, Goto
  <2> QED
    BY <1>1, <2>1, <2>3, <2>4 DEF Receive, DataOK, queueVars, signalVars,
       counterVars, flagVars, initVars, histVars
<1>2. CASE Received(l)
  <2>1. ControlOK'
    BY <1>0, <1>2, ListenerGoto DEF Received, Goto, OthersKeepOut, localVars
  <2> QED
    BY <1>2, <2>1 DEF Received, DataOK, queueVars, signalVars,
       counterVars, flagVars, netVars, localVars, initVars, histVars
<1>3. CASE EndpointError(l)
  <2>1. CASE CloseEndpoint(l, l)
    <3>1. /\ out' \in [Senders -> Seq(Msgs)] /\ OthersKeepOut(l)
          /\ pc' = [pc EXCEPT ![l] = "send"] /\ open' \subseteq Listeners
      BY <1>0, <2>1, CloseTypeOK
    <3>2. ControlOK'
      BY <1>0, <3>1, ListenerGoto
    <3> QED
      BY <1>3, <3>1, <3>2 DEF EndpointError, DataOK, queueVars, signalVars,
         counterVars, flagVars, initVars, histVars
  <2>2. CASE Goto(l, "stopped") /\ UNCHANGED <<open, out>>
    <3>1. ControlOK'
      BY <1>0, <2>2, ListenerGoto DEF Goto, OthersKeepOut
    <3> QED
      BY <1>3, <2>2, <3>1 DEF EndpointError, DataOK, queueVars, signalVars,
         counterVars, flagVars, initVars, histVars
  <2> QED
    BY <1>3, <2>1, <2>2 DEF EndpointError
<1>4. CASE EndPointClosed(l)
  <2>1. ControlOK'
    BY <1>0, <1>4, ListenerGoto DEF EndPointClosed, Goto, OthersKeepOut, localVars
  <2> QED
    BY <1>4, <2>1 DEF EndPointClosed, DataOK, queueVars, signalVars,
       counterVars, flagVars, netVars, localVars, initVars, histVars
<1> QED
  BY <1>0, <1>1, <1>2, <1>3, <1>4, SendTypeOK DEF ListenerStep

\* The steps of the console preserve TypeOK.
LEMMA ConsoleTypeOK ==
  ASSUME TypeOK, ConsoleStep
  PROVE  TypeOK'
<1> USE DEF TypeOK
<1>1. CASE TerminateEngine
  <2>1. ControlOK'
    BY <1>1, ConsoleGoto DEF TerminateEngine, Goto, ConsolePC, localVars
  <2>2. terminateV' \in Terminate
    BY <1>1, MessageAssumption DEF TerminateEngine, Terminate
  <2> QED
    BY <1>1, <2>1, <2>2 DEF TerminateEngine, DataOK, queueVars, signalVars,
       counterVars, netVars, localVars, initVars, histVars
<1> QED
  BY <1>1, NotifyTypeOK DEF ConsoleStep, Notifiers

\* Type correctness, for every engine configuration and every program: each
\* variable keeps its type, each thread stays within its own code, and a thread
\* inside enqueue always has the message it is posting.
THEOREM TypeCorrect == Spec => []TypeOK
<1>1. Init => TypeOK
  <2> SUFFICES ASSUME Init PROVE TypeOK
    OBVIOUS
  <2>1. ControlOK
    BY ThreadAssumption
    DEF Init, ControlOK, Threads, Senders, PCs, WorkerPC, MainPC, ListenerPC,
        ConsolePC, Sending, Posting
  <2>2. DataOK
    <3>1. <<>> \in Seq(Msgs) /\ Nothing("afterOne") \in Seen
      BY DEF Nothing, Seen, Terminate
    <3>2. sv \in [Workers -> BOOLEAN] /\ waitV \in BOOLEAN /\ outOfWorkV \in BOOLEAN
      BY DEF Init
    <3>3. /\ queue \in [Queues -> Seq(Msgs)]
          /\ out \in [Senders -> Seq(Msgs)]
          /\ seen \in [Workers -> Seen]
      BY <3>1 DEF Init
    <3>4. /\ current \in [Workers -> Msgs \cup {NoMsg}]
          /\ todo \in [Notifiers -> SUBSET Workers]
          /\ extra \in [Workers -> Nat]
      BY DEF Init
    <3>5. /\ workerMap \in MVar /\ readyMap \in MVar /\ terminateV \in Terminate
          /\ awakeWorkersV \in Int /\ liveWorkersV \in Int
          /\ open \in SUBSET Listeners /\ wire \in SUBSET NetMsgs
          /\ status0 \in {"result", "error"}
      BY DEF Init, MVar, Terminate
    <3> QED
      BY <3>2, <3>3, <3>4, <3>5 DEF DataOK
  <2> QED
    BY <2>1, <2>2 DEF TypeOK
<1>2. TypeOK /\ [Next]_vars => TypeOK'
  <2> SUFFICES ASSUME TypeOK, [Next]_vars PROVE TypeOK'
    OBVIOUS
  <2>1. CASE Next
    BY <2>1, MainTypeOK, WorkerTypeOK, ListenerTypeOK, ConsoleTypeOK DEF Next
  <2>2. CASE UNCHANGED vars
    BY <2>2 DEF vars, queueVars, signalVars, counterVars, flagVars, netVars,
       localVars, initVars, histVars, TypeOK, ControlOK, DataOK
  <2> QED
    BY <2>1, <2>2
<1> QED
  BY <1>1, <1>2, PTL DEF Spec

-----------------------------------------------------------------------------
(***************************************************************************)
(* Locality: what a step leaves alone.                                     *)
(***************************************************************************)

\* The state of the threads other than t is untouched.
Local(t) ==
  /\ \A s \in Threads \ {t} : pc'[s] = pc[s]
  /\ \A s \in Senders \ {t} : out'[s] = out[s]
  /\ \A s \in Notifiers \ {t} : todo'[s] = todo[s]
  /\ \A w \in Workers \ {t} : seen'[w] = seen[w] /\ extra'[w] = extra[w]

\* A step of enqueue is local to the thread that takes it.
LEMMA SendLocal ==
  ASSUME TypeOK, NEW t \in Senders, Send(t)
  PROVE  Local(t) /\ terminateV' = terminateV /\ seen' = seen /\ extra' = extra
                  /\ todo' = todo /\ readyMap' = readyMap
BY DEF TypeOK, ControlOK, DataOK, Local, Send, Enqueue, ClearOutOfWork, IsEmptyMVar,
   TakeMap, PutMap, NotifyMessage, Goto, queueVars, signalVars, counterVars,
   flagVars, netVars, localVars, initVars, histVars

\* A step of notifyWorkers is local to the thread that takes it.
LEMMA NotifyLocal ==
  ASSUME TypeOK, NEW t \in Notifiers, NotifyWorkers(t)
  PROVE  Local(t) /\ terminateV' = terminateV /\ seen' = seen /\ extra' = extra
                  /\ out' = out /\ queue' = queue /\ workerMap' = workerMap
BY DEF TypeOK, ControlOK, DataOK, Local, NotifyWorkers, TakeReady, WakeOne, PutReady,
   Goto, queueVars, signalVars, counterVars, flagVars, netVars, localVars, initVars,
   histVars

\* A step of a worker is local to it.
LEMMA WorkerLocal ==
  ASSUME TypeOK, NEW w \in Workers, WorkerStep(w)
  PROVE  Local(w) /\ terminateV' = terminateV
<1>1. w \in Senders /\ w \in Notifiers
  BY DEF Senders, Notifiers
<1>2. CASE Send(w)
  BY <1>1, <1>2, SendLocal
<1>3. CASE NotifyWorkers(w)
  BY <1>1, <1>3, NotifyLocal
<1>4. CASE IncLive(w) \/ IncAwake(w) \/ Dequeue(w) \/ DequeueNothing(w)
  BY <1>4 DEF TypeOK, ControlOK, DataOK, Local, IncLive, IncAwake, Dequeue,
     DequeueNothing, Goto, queueVars, signalVars, counterVars, flagVars, netVars,
     localVars, initVars, histVars
<1>5. CASE Processed(w) \/ Crash(w) \/ ReadTerminate(w) \/ ReadNetwork(w)
             \/ ReadOutOfWork(w) \/ DecAwake(w)
  BY <1>5 DEF TypeOK, ControlOK, DataOK, Local, Processed, Crash, ReadTerminate,
     ReadNetwork, ReadOutOfWork, DecAwake, Goto, queueVars, signalVars, counterVars,
     flagVars, netVars, localVars, initVars, histVars
<1>6. CASE ReadQueued(w) \/ ReadAwake(w) \/ SetOutOfWork(w) \/ WaitForMessage(w)
             \/ ReadSV(w) \/ Wakeup(w)
  BY <1>6 DEF TypeOK, ControlOK, DataOK, Local, ReadQueued, ReadAwake, SetOutOfWork,
     WaitForMessage, ReadSV, Wakeup, Goto, queueVars, signalVars, counterVars,
     flagVars, netVars, localVars, initVars, histVars
<1>7. CASE DieWithError(w) \/ DecLive(w) \/ ReadLive(w) \/ Finalized(w)
             \/ CleanupEngine(w) \/ Signal(w)
  BY <1>7 DEF TypeOK, ControlOK, DataOK, Local, DieWithError, DecLive, ReadLive,
     Finalized, CleanupEngine, CloseEndpoint, Signal, Goto, queueVars, signalVars, counterVars,
     flagVars, netVars, localVars, initVars, histVars
<1> QED
  BY <1>2, <1>3, <1>4, <1>5, <1>6, <1>7 DEF WorkerStep

\* A step of a listener is local to it.
LEMMA ListenerLocal ==
  ASSUME TypeOK, NEW l \in Listeners, ListenerStep(l)
  PROVE  /\ Local(l) /\ terminateV' = terminateV
         /\ seen' = seen /\ extra' = extra /\ todo' = todo
<1>1. l \in Senders
  BY DEF Senders
<1>2. CASE Send(l)
  BY <1>1, <1>2, SendLocal
<1>3. CASE Receive(l) \/ Received(l) \/ EndpointError(l) \/ EndPointClosed(l)
  BY <1>3 DEF TypeOK, ControlOK, DataOK, Local, Receive, Received, EndpointError, CloseEndpoint,
     EndPointClosed, Goto, queueVars, signalVars, counterVars, flagVars, netVars,
     localVars, initVars, histVars
<1> QED
  BY <1>2, <1>3 DEF ListenerStep

\* A step of the main thread is local to it, but for the workers it starts.
LEMMA MainLocal ==
  ASSUME TypeOK, MainStep
  PROVE  /\ \A w \in Workers : \/ pc'[w] = pc[w]
                               \/ pc[w] = "unborn" /\ pc'[w] = "incLive"
         /\ \A t \in Threads \ (Workers \cup {Main}) : pc'[t] = pc[t]
         /\ \A s \in Senders \ {Main} : out'[s] = out[s]
         /\ terminateV' = terminateV /\ seen' = seen /\ extra' = extra /\ todo' = todo
<1>1. Main \in Senders
  BY DEF Senders
<1>2. CASE Send(Main)
  <2>1. \A w \in Workers : w \in Threads \ {Main}
    BY ThreadAssumption DEF Threads
  <2> QED
    BY <1>1, <1>2, <2>1, SendLocal DEF Local
<1>3. ASSUME NEW w \in Workers, ForkWorker(w)
      PROVE  /\ \A v \in Workers : pc'[v] = pc[v] \/ (pc[v] = "unborn" /\ pc'[v] = "incLive")
             /\ \A t \in Threads \ (Workers \cup {Main}) : pc'[t] = pc[t]
             /\ out' = out /\ terminateV' = terminateV /\ seen' = seen
             /\ extra' = extra /\ todo' = todo
  <2>1. pc[w] = "unborn" /\ pc' = [pc EXCEPT ![w] = "incLive"]
    BY <1>3 DEF ForkWorker, Goto
  <2>2. UNCHANGED <<out, terminateV, seen, extra, todo>>
    BY <1>3 DEF ForkWorker, flagVars, localVars, histVars
  <2>3. \A t \in Threads : pc'[t] = IF t = w THEN "incLive" ELSE pc[t]
    BY <2>1 DEF TypeOK, ControlOK
  <2>4. \A v \in Workers : v \in Threads
    BY DEF Threads
  <2>5. \A v \in Workers : pc'[v] = pc[v] \/ (pc[v] = "unborn" /\ pc'[v] = "incLive")
    BY <2>1, <2>3, <2>4
  <2>6. \A t \in Threads \ (Workers \cup {Main}) : pc'[t] = pc[t]
    BY <2>3
  <2> QED
    BY <2>2, <2>5, <2>6
<1>4. CASE Initialized \/ Forked \/ ConfigWorkerMap \/ Return
  <2>1. /\ \E l \in MainPC : pc' = [pc EXCEPT ![Main] = l]
        /\ UNCHANGED <<out, terminateV, seen, extra, todo>>
    <3>1. {"fork", "configWorkers", "configReady", "returned"} \subseteq MainPC
      BY DEF MainPC
    <3>2. CASE Initialized
      BY <3>1, <3>2 DEF Initialized, Goto, flagVars, localVars, histVars
    <3>3. CASE Forked
      BY <3>1, <3>3 DEF Forked, Goto, flagVars, localVars, histVars
    <3>4. CASE ConfigWorkerMap
      BY <3>1, <3>4 DEF ConfigWorkerMap, Goto, flagVars, localVars, histVars
    <3>5. CASE Return
      BY <3>1, <3>5 DEF Return, Goto, flagVars, localVars, histVars
    <3> QED
      BY <1>4, <3>2, <3>3, <3>4, <3>5
  <2> QED
    BY <2>1, ThreadAssumption DEF TypeOK, ControlOK, Threads
<1>6. CASE Initialize
  BY <1>6, ThreadAssumption DEF TypeOK, ControlOK, DataOK, Initialize, Goto, Threads,
     flagVars, histVars
<1>5. CASE ConfigReadyMap
  BY <1>5, ThreadAssumption DEF TypeOK, ControlOK, ConfigReadyMap, Threads, flagVars,
     localVars, histVars
<1> QED
  BY <1>2, <1>3, <1>4, <1>5, <1>6 DEF MainStep

\* A step of the console is local to it.
LEMMA ConsoleLocal ==
  ASSUME TypeOK, ConsoleStep
  PROVE  /\ Local(Console) /\ seen' = seen /\ extra' = extra /\ out' = out
         /\ queue' = queue /\ workerMap' = workerMap
<1>1. CASE TerminateEngine
  BY <1>1, ThreadAssumption DEF TypeOK, ControlOK, Local, TerminateEngine, Goto,
     Threads, queueVars, localVars, histVars
<1> QED
  BY <1>1, NotifyLocal DEF ConsoleStep, Notifiers

-----------------------------------------------------------------------------
(***************************************************************************)
(* FinishOneBound.  The invariant says where a worker can be that took a   *)
(* message after FinishOne was set: it is handling it, or it is on its way *)
(* out, or it is evaluating terminate and has not yet read terminateV or   *)
(* has read FinishOne there.                                               *)
(***************************************************************************)
TookLast(w) ==
  \/ pc[w] \in Sending \cup
       {"error", "decLive", "readLive", "cleanupEngine", "signal", "dead", "crashed"}
  \/ pc[w] = "readTerminate" /\ seen[w].check = "afterOne"
  \/ /\ pc[w] \in {"readNetwork", "readOutOfWork"}
     /\ seen[w].check = "afterOne" /\ seen[w].term = "FinishOne"

FinishOneInv ==
  /\ pc[Console] = "console" => terminateV = "Off"
  /\ \A w \in Workers :
       extra[w] # 0 => extra[w] = 1 /\ terminateV = "FinishOne" /\ TookLast(w)

\* A worker that took its message after FinishOne never goes back for another.
LEMMA FinishOneWorker ==
  ASSUME TypeOK, FinishOneInv, NEW w \in Workers, WorkerStep(w), extra'[w] # 0
  PROVE  extra'[w] = 1 /\ terminateV' = "FinishOne" /\ TookLast(w)'
<1>1. terminateV' = terminateV
  BY WorkerLocal
<1>2. w \in Threads /\ w \in Senders /\ w \in Notifiers
  BY DEF Threads, Senders, Notifiers
<1>3. pc \in [Threads -> PCs] /\ seen \in [Workers -> Seen] /\ extra \in [Workers -> Nat]
  BY DEF TypeOK, ControlOK, DataOK
<1>4. CASE Dequeue(w)
  <2>1. extra[w] = 0
    BY <1>4 DEF Dequeue, FinishOneInv, TookLast, Sending, Posting
  <2>2. terminateV = "FinishOne" /\ extra'[w] = 1
    <3>1. extra' = IF terminateV = "FinishOne" THEN [extra EXCEPT ![w] = @ + 1] ELSE extra
      BY <1>4 DEF Dequeue
    <3> QED
      BY <2>1, <3>1, <1>3
  <2>3. pc'[w] = "send"
    BY <1>2, <1>3, <1>4 DEF Dequeue, Goto
  <2> QED
    BY <1>1, <2>2, <2>3 DEF TookLast, Sending
<1>5. CASE ~ Dequeue(w)
  <2>1. extra' = extra
    BY <1>2, <1>5, SendLocal, NotifyLocal DEF WorkerStep, IncLive, IncAwake,
       DequeueNothing, Processed, Crash, ReadTerminate, ReadNetwork, ReadOutOfWork,
       DecAwake, ReadQueued, ReadAwake, SetOutOfWork, WaitForMessage, ReadSV, Wakeup,
       DieWithError, DecLive, ReadLive, Finalized, CleanupEngine, CloseEndpoint, Signal, histVars
  <2>2. extra[w] = 1 /\ terminateV = "FinishOne" /\ TookLast(w)
    BY <2>1 DEF FinishOneInv
  <2>3. CASE Send(w)
    <3>1. pc'[w] \in Sending
      BY <1>2, <1>3, <2>3 DEF Send, Enqueue, ClearOutOfWork, IsEmptyMVar, TakeMap,
         PutMap, NotifyMessage, Goto, Sending, Posting
    <3> QED
      BY <1>1, <2>1, <2>2, <3>1 DEF TookLast
  <2>4. CASE Processed(w) \/ Crash(w)
    BY <1>1, <1>2, <1>3, <2>1, <2>2, <2>4
       DEF Processed, Crash, Goto, TookLast, Nothing
  <2>5. CASE ReadTerminate(w)
    BY <1>1, <1>2, <1>3, <2>1, <2>2, <2>5
       DEF ReadTerminate, Goto, TookLast, Sending, Posting, Seen
  <2>6. CASE ReadNetwork(w)
    BY <1>1, <1>2, <1>3, <2>1, <2>2, <2>6
       DEF ReadNetwork, Goto, TookLast, Sending, Posting, Seen
  <2>7. CASE ReadOutOfWork(w)
    <3>1. seen[w].check = "afterOne" /\ seen[w].term = "FinishOne"
      BY <2>2, <2>7 DEF ReadOutOfWork, TookLast, Sending, Posting
    <3>2. Stops(w)
      BY <3>1 DEF Stops, waitForNetwork, isFinishOne
    <3> QED
      BY <1>1, <1>2, <1>3, <2>1, <2>2, <2>7, <3>2 DEF ReadOutOfWork, Goto, TookLast
  <2>8. CASE ReadLive(w) \/ Finalized(w) \/ CleanupEngine(w) \/ Signal(w)
             \/ DecLive(w) \/ DieWithError(w)
    BY <1>1, <1>2, <1>3, <2>1, <2>2, <2>8
       DEF ReadLive, Finalized, CleanupEngine, CloseEndpoint, Signal, DecLive, DieWithError, Goto,
           TookLast, Sending
  <2>9. ~ (IncLive(w) \/ IncAwake(w) \/ DequeueNothing(w) \/ DecAwake(w)
            \/ ReadQueued(w) \/ ReadAwake(w) \/ SetOutOfWork(w) \/ NotifyWorkers(w)
            \/ WaitForMessage(w) \/ ReadSV(w) \/ Wakeup(w))
    BY <2>2 DEF TookLast, Sending, Posting, IncLive, IncAwake, DequeueNothing, DecAwake,
       ReadQueued, ReadAwake, SetOutOfWork, NotifyWorkers, TakeReady, WakeOne, PutReady,
       WaitForMessage, ReadSV, Wakeup
  <2> QED
    BY <1>5, <2>3, <2>4, <2>5, <2>6, <2>7, <2>8, <2>9 DEF WorkerStep
<1> QED
  BY <1>4, <1>5

\* FinishOne lets every worker take at most one more message.
THEOREM FinishOneHolds == Spec => []FinishOneBound
<1>1. Init => FinishOneInv
  BY ThreadAssumption DEF Init, FinishOneInv
<1>2. TypeOK /\ FinishOneInv /\ [Next]_vars => FinishOneInv'
  <2> SUFFICES ASSUME TypeOK, FinishOneInv, [Next]_vars PROVE FinishOneInv'
    OBVIOUS
  <2>0. Main # Console /\ Console \in Threads /\ Console \notin Workers /\ Main \notin Workers
    BY ThreadAssumption DEF Threads
  <2>1. CASE MainStep
    <3>1. terminateV' = terminateV /\ seen' = seen /\ extra' = extra
          /\ pc'[Console] = pc[Console]
      BY <2>0, <2>1, MainLocal
    <3>2. ASSUME NEW w \in Workers, TookLast(w) PROVE TookLast(w)'
      <4>1. pc'[w] = pc[w]
        BY <2>1, <3>2, MainLocal DEF TookLast, Sending, Posting
      <4> QED
        BY <3>1, <3>2, <4>1 DEF TookLast
    <3> QED
      BY <3>1, <3>2 DEF FinishOneInv
  <2>2. ASSUME NEW w \in Workers, WorkerStep(w) PROVE FinishOneInv'
    <3>1. Local(w) /\ terminateV' = terminateV
      BY <2>2, WorkerLocal
    <3>2. pc'[Console] = pc[Console]
      BY <2>0, <3>1 DEF Local
    <3>3. ASSUME NEW v \in Workers, extra'[v] # 0
          PROVE  extra'[v] = 1 /\ terminateV' = "FinishOne" /\ TookLast(v)'
      <4>1. CASE v = w
        BY <2>2, <3>3, <4>1, FinishOneWorker
      <4>2. CASE v # w
        <5>1. v \in Threads
          BY DEF Threads
        <5>2. pc'[v] = pc[v] /\ seen'[v] = seen[v] /\ extra'[v] = extra[v]
          BY <3>1, <4>2, <5>1 DEF Local
        <5> QED
          BY <3>1, <3>3, <5>2 DEF FinishOneInv, TookLast
      <4> QED
        BY <4>1, <4>2
    <3> QED
      BY <3>1, <3>2, <3>3 DEF FinishOneInv
  <2>3. ASSUME NEW l \in Listeners, ListenerStep(l) PROVE FinishOneInv'
    <3>1. Local(l) /\ terminateV' = terminateV /\ seen' = seen /\ extra' = extra
      BY <2>3, ListenerLocal
    <3>2. \A t \in Workers \cup {Console} : pc'[t] = pc[t]
      BY <3>1, ThreadAssumption DEF Local, Threads
    <3> QED
      BY <3>1, <3>2 DEF FinishOneInv, TookLast
  <2>4. CASE ConsoleStep
    <3>1. Local(Console) /\ seen' = seen /\ extra' = extra
      BY <2>4, ConsoleLocal
    <3>2. \A w \in Workers : pc'[w] = pc[w]
      BY <2>0, <3>1 DEF Local, Threads
    <3>3. CASE TerminateEngine
      <4>1. \A w \in Workers : extra'[w] = 0
        BY <3>1, <3>3 DEF TerminateEngine, FinishOneInv
      <4>2. pc'[Console] = "notifyWorkers"
        BY <2>0, <3>3 DEF TerminateEngine, Goto, TypeOK, ControlOK
      <4> QED
        BY <4>1, <4>2 DEF FinishOneInv
    <3>4. CASE NotifyWorkers(Console)
      <4>1. terminateV' = terminateV
        BY <3>4, NotifyLocal DEF Notifiers
      <4>2. pc'[Console] # "console"
        BY <2>0, <3>4 DEF NotifyWorkers, TakeReady, WakeOne, PutReady, Goto, TypeOK, ControlOK
      <4> QED
        BY <3>1, <3>2, <4>1, <4>2 DEF FinishOneInv, TookLast
    <3> QED
      BY <2>4, <3>3, <3>4 DEF ConsoleStep
  <2>5. CASE UNCHANGED vars
    BY <2>5 DEF FinishOneInv, TookLast, vars, flagVars, localVars, histVars
  <2> QED
    BY <2>1, <2>2, <2>3, <2>4, <2>5 DEF Next
<1>3. TypeOK /\ FinishOneInv => FinishOneBound
  BY DEF TypeOK, DataOK, FinishOneInv, FinishOneBound
<1> QED
  BY <1>1, <1>2, <1>3, TypeCorrect, PTL DEF Spec

-----------------------------------------------------------------------------
(***************************************************************************)
(* NoLostWakeup.  From the moment a worker finds its queues empty until    *)
(* its MSampleVar is read, a message in one of its queues is matched by a  *)
(* full MSampleVar or by a thread that will fill it.  A sender that finds  *)
(* the worker map taken skips the notify; whether it may is SkipIsSafe.    *)
(* With one worker it may, because the holder of the map is posting to the *)
(* same worker; with two workers and no listener it may, because the       *)
(* holder is the other worker itself, which is awake.                      *)
(***************************************************************************)
Unaware(w) ==
  \/ pc[w] \in {"decAwake", "readQueued", "readAwake", "setOutOfWork",
                "notifyWorkers", "waking", "waitForMessage", "readSV"}
  \/ /\ pc[w] \in {"readTerminate", "readNetwork", "readOutOfWork"}
     /\ seen[w].check # "afterOne"

Covered(w) ==
  (\E q \in Managed(w) : queue[q] # <<>>) =>
    sv[w] \/ \E t \in Threads : WillWake(t, w)

WakeupInv ==
  /\ workerMap = "taken" => \E t \in Senders : pc[t] = "putMap"
  /\ \A w \in Workers : Unaware(w) => workerMap # "empty" /\ Covered(w)

\* A sender that would skip the notify of a worker that has seen its queues empty
\* leaves that to somebody else.
SkipIsSafe ==
  \A t \in Senders, w \in Workers :
    /\ pc[t] = "isEmpty" /\ workerMap = "taken"
    /\ Owner(Route[Head(out[t])]) = w /\ Unaware(w)
    => \E s \in Threads \ {t} : WillWake(s, w)

OneWorker == \E w \in Workers : Workers = {w}

TwoWorkersAlone == Listeners = {} /\ \E v, w \in Workers : Workers = {v, w}

\* With one worker, every message is for it.
LEMMA OwnerOfAny ==
  ASSUME OneWorker, NEW w \in Workers, NEW m \in Msgs
  PROVE  Owner(Route[m]) = w
BY MessageAssumption, OwnerIsWorker DEF OneWorker

\* With one worker, whoever is posting will wake it.
LEMMA PostingWakes ==
  ASSUME TypeOK, OneWorker, NEW w \in Workers, NEW t \in Senders, pc[t] \in Posting
  PROVE  WillWake(t, w) /\ Owner(Route[Head(out[t])]) = w
<1>1. Head(out[t]) \in Msgs
  BY DEF TypeOK, ControlOK, DataOK
<1> QED
  BY <1>1, OwnerOfAny DEF WillWake

\* Outside enqueue, a worker holds no map and leaves the worker map alone.
LEMMA WorkerElse ==
  ASSUME NEW w \in Workers, WorkerStep(w), ~ Send(w)
  PROVE  pc[w] \notin Posting /\ workerMap' = workerMap
BY DEF WorkerStep, NotifyWorkers, TakeReady, WakeOne, PutReady, IncLive, IncAwake,
   Dequeue, DequeueNothing, Processed, Crash, ReadTerminate, ReadNetwork, ReadOutOfWork,
   DecAwake, ReadQueued, ReadAwake, SetOutOfWork, WaitForMessage, ReadSV, Wakeup,
   DieWithError, DecLive, ReadLive, Finalized, CleanupEngine, CloseEndpoint, Signal, Posting, queueVars

\* Outside enqueue, a listener touches neither queues nor MSampleVars.
LEMMA ListenerElse ==
  ASSUME NEW l \in Listeners, ListenerStep(l), ~ Send(l)
  PROVE  pc[l] \notin Posting /\ UNCHANGED <<queue, workerMap, sv>>
BY DEF ListenerStep, Receive, Received, EndpointError, CloseEndpoint, EndPointClosed, Posting,
   queueVars, signalVars

\* Outside enqueue, the main thread at most puts the worker map in place.
LEMMA MainElse ==
  ASSUME MainStep, ~ Send(Main)
  PROVE  /\ pc[Main] \notin Posting
         /\ workerMap' = workerMap \/ workerMap' = "full"
         /\ UNCHANGED <<queue, sv>>
BY DEF MainStep, Initialize, Initialized, ForkWorker, Forked, ConfigWorkerMap,
   ConfigReadyMap, Return, Posting, queueVars, signalVars

\* Whoever holds the worker map is inside enqueue and keeps it until PutMap.
LEMMA MapHolder ==
  ASSUME TypeOK, WakeupInv, Next
  PROVE  workerMap' = "taken" => \E t \in Senders : pc'[t] = "putMap"
<1> SUFFICES ASSUME workerMap' = "taken" PROVE \E t \in Senders : pc'[t] = "putMap"
  OBVIOUS
<1>0. \A t \in Senders : t \in Threads
  BY DEF Senders, Threads
<1>1. ASSUME NEW t \in Senders, Send(t) PROVE \E s \in Senders : pc'[s] = "putMap"
  <2>1. CASE TakeMap(t)
    BY <1>0, <2>1 DEF TakeMap, Goto, TypeOK, ControlOK
  <2>2. CASE ~ TakeMap(t)
    <3>1. workerMap = "taken" /\ pc[t] # "putMap"
      BY <1>1, <2>2 DEF Send, Enqueue, ClearOutOfWork, IsEmptyMVar, PutMap,
         NotifyMessage, queueVars
    <3>2. PICK s \in Senders : pc[s] = "putMap"
      BY <3>1 DEF WakeupInv
    <3>3. pc'[s] = "putMap"
      BY <1>0, <1>1, <3>1, <3>2, SendLocal DEF Local
    <3> QED
      BY <3>3
  <2> QED
    BY <2>1, <2>2
<1>2. ASSUME NEW w \in Workers, WorkerStep(w), ~ Send(w)
      PROVE  \E s \in Senders : pc'[s] = "putMap"
  <2>1. PICK s \in Senders : pc[s] = "putMap"
    BY <1>2, WorkerElse DEF WakeupInv
  <2>2. s # w
    BY <1>2, <2>1, WorkerElse DEF Posting
  <2> QED
    BY <1>0, <1>2, <2>1, <2>2, WorkerLocal DEF Local
<1>3. ASSUME NEW l \in Listeners, ListenerStep(l), ~ Send(l)
      PROVE  \E s \in Senders : pc'[s] = "putMap"
  <2>1. PICK s \in Senders : pc[s] = "putMap"
    BY <1>3, ListenerElse DEF WakeupInv
  <2>2. s # l
    BY <1>3, <2>1, ListenerElse DEF Posting
  <2> QED
    BY <1>0, <1>3, <2>1, <2>2, ListenerLocal DEF Local
<1>4. CASE MainStep /\ ~ Send(Main)
  <2>1. PICK s \in Senders : pc[s] = "putMap"
    BY <1>4, MainElse DEF WakeupInv
  <2>2. s # Main
    BY <1>4, <2>1, MainElse DEF Posting
  <2>3. pc'[s] = pc[s]
    BY <1>0, <1>4, <2>1, <2>2, MainLocal
  <2> QED
    BY <2>1, <2>3
<1>5. CASE ConsoleStep
  <2>1. PICK s \in Senders : pc[s] = "putMap"
    BY <1>5, ConsoleLocal DEF WakeupInv
  <2>2. s # Console
    BY ThreadAssumption DEF Senders
  <2> QED
    BY <1>0, <1>5, <2>1, <2>2, ConsoleLocal DEF Local
<1> QED
  BY <1>1, <1>2, <1>3, <1>4, <1>5 DEF Next, Senders

\* A step of a thread that was not going to wake w uncovers nothing, as long
\* as it adds nothing to the queues of w and leaves its MSampleVar alone.
LEMMA StillCovered ==
  ASSUME TypeOK, NEW t \in Threads, NEW w \in Workers, Local(t),
         \A q \in Managed(w) : queue'[q] # <<>> => queue[q] # <<>>, sv'[w] = sv[w],
         Covered(w), ~ WillWake(t, w)
  PROVE  Covered(w)'
<1>1. ASSUME NEW s \in Threads, WillWake(s, w) PROVE WillWake(s, w)'
  <2>1. s # t /\ pc'[s] = pc[s]
    BY <1>1 DEF Local
  <2>2. s \in Senders => out'[s] = out[s]
    BY <2>1 DEF Local
  <2>3. s \in Notifiers => todo'[s] = todo[s]
    BY <2>1 DEF Local
  <2> QED
    BY <1>1, <2>1, <2>2, <2>3 DEF WillWake
<1> QED
  BY <1>1 DEF Covered

\* A step of enqueue leaves every worker that has seen its queues empty covered.
LEMMA SendCovers ==
  ASSUME TypeOK, SkipIsSafe, WakeupInv, NEW t \in Senders, Send(t),
         NEW w \in Workers, Unaware(w)'
  PROVE  workerMap' # "empty" /\ Covered(w)'
<1>1. t \in Threads /\ w \in Threads
  BY DEF Senders, Threads
<1>2. /\ pc[t] \in Sending /\ pc'[t] \in Sending /\ out[t] \in Seq(Msgs) /\ out[t] # <<>>
      /\ Local(t)
  <2>1. pc'[t] \in Sending /\ pc[t] \in Sending /\ out[t] # <<>>
    BY <1>1 DEF TypeOK, ControlOK, Send, Enqueue, ClearOutOfWork, IsEmptyMVar, TakeMap,
       PutMap, NotifyMessage, Goto, Sending, Posting
  <2> QED
    BY <2>1, SendLocal DEF TypeOK, DataOK
<1>3. t # w
  BY <1>2 DEF Unaware, Sending, Posting
<1>4. Unaware(w)
  BY <1>1, <1>3, SendLocal DEF Local, Unaware
<1>5. workerMap # "empty" /\ workerMap' # "empty" /\ Covered(w)
  BY <1>4 DEF WakeupInv, Send, Enqueue, ClearOutOfWork, IsEmptyMVar, TakeMap, PutMap,
     NotifyMessage, queueVars
<1> DEFINE m == Head(out[t])
<1>6. m \in Msgs /\ Route[m] \in Queues
  BY <1>2, MessageAssumption
<1>7. CASE Owner(Route[m]) # w
  <2>1. \A q \in Managed(w) : q \in Queues /\ q # Route[m]
    <3>1. \A q \in Managed(w) : q \in Queues
      BY QueueAssumption DEF Managed
    <3> QED
      BY <1>6, <1>7, <3>1, OwnerIsWorker, QueueAssumption
  <2>2. \A q \in Managed(w) : queue'[q] = queue[q]
    BY <2>1 DEF Send, Enqueue, ClearOutOfWork, IsEmptyMVar, TakeMap, PutMap, NotifyMessage,
       queueVars, TypeOK, DataOK
  <2>3. sv'[w] = sv[w]
    BY <1>7 DEF Send, Enqueue, ClearOutOfWork, IsEmptyMVar, TakeMap, PutMap, NotifyMessage,
       signalVars, TypeOK, DataOK
  <2>4. ~ WillWake(t, w)
    BY <1>2, <1>7 DEF WillWake, Sending, Posting
  <2> QED
    BY <1>1, <1>2, <1>5, <2>2, <2>3, <2>4, StillCovered
<1>8. CASE Owner(Route[m]) = w
  <2>1. CASE NotifyMessage(t)
    <3>1. sv'[w] = TRUE
      BY <1>8, <2>1 DEF NotifyMessage, TypeOK, DataOK
    <3> QED
      BY <1>5, <3>1 DEF Covered
  <2>2. CASE IsEmptyMVar(t) /\ workerMap # "full"
    <3>1. PICK s \in Threads \ {t} : WillWake(s, w)
      BY <1>4, <1>5, <1>8, <2>2 DEF SkipIsSafe, IsEmptyMVar, TypeOK, DataOK, MVar
    <3>2. /\ pc'[s] = pc[s] /\ (s \in Senders => out'[s] = out[s])
          /\ (s \in Notifiers => todo'[s] = todo[s])
      BY <1>2, <3>1 DEF Local
    <3>3. WillWake(s, w)'
      BY <3>1, <3>2 DEF WillWake
    <3> QED
      BY <1>5, <3>3 DEF Covered
  <2>3. CASE \/ Enqueue(t) \/ ClearOutOfWork(t) \/ TakeMap(t) \/ PutMap(t)
             \/ IsEmptyMVar(t) /\ workerMap = "full"
    <3>1. pc'[t] \in Posting /\ out' = out
      BY <1>1, <2>3 DEF Enqueue, ClearOutOfWork, TakeMap, PutMap, IsEmptyMVar, Goto, Posting,
         localVars, TypeOK, ControlOK
    <3>2. WillWake(t, w)'
      BY <1>8, <3>1 DEF WillWake
    <3> QED
      BY <1>1, <1>5, <3>2 DEF Covered
  <2> QED
    BY <2>1, <2>2, <2>3 DEF Send
<1> QED
  BY <1>5, <1>7, <1>8

\* So does a step of notifyWorkers.
LEMMA NotifyCovers ==
  ASSUME TypeOK, WakeupInv, NEW t \in Notifiers, NotifyWorkers(t),
         NEW w \in Workers, Unaware(w)'
  PROVE  workerMap' # "empty" /\ Covered(w)'
<1>1. t \in Threads /\ w \in Threads
  BY DEF Notifiers, Threads
<1>2. Local(t) /\ seen' = seen /\ queue' = queue /\ workerMap' = workerMap
  BY NotifyLocal
<1>3. Unaware(w)
  <2>1. CASE t = w
    BY <2>1 DEF NotifyWorkers, TakeReady, WakeOne, PutReady, Unaware
  <2>2. CASE t # w
    BY <1>1, <1>2, <2>2 DEF Local, Unaware
  <2> QED
    BY <2>1, <2>2
<1>4. workerMap' # "empty" /\ Covered(w)
  BY <1>2, <1>3 DEF WakeupInv
<1>5. CASE TakeReady(t)
  <2>1. WillWake(t, w)'
    BY <1>1, <1>5 DEF TakeReady, Goto, WillWake, TypeOK, ControlOK, DataOK
  <2> QED
    BY <1>1, <1>4, <2>1 DEF Covered
<1>6. CASE WakeOne(t)
  <2>1. PICK v \in todo[t] : /\ sv' = [sv EXCEPT ![v] = TRUE]
                             /\ todo' = [todo EXCEPT ![t] = @ \ {v}]
    BY <1>6 DEF WakeOne
  <2>2. pc' = pc /\ pc[t] = "waking" /\ todo \in [Notifiers -> SUBSET Workers]
        /\ sv \in [Workers -> BOOLEAN]
    BY <1>6 DEF WakeOne, TypeOK, DataOK
  <2>3. CASE v = w
    BY <1>4, <2>1, <2>2, <2>3 DEF Covered
  <2>4. CASE v # w /\ w \in todo[t]
    <3>1. WillWake(t, w)'
      BY <2>1, <2>2, <2>4 DEF WillWake
    <3> QED
      BY <1>1, <1>4, <3>1 DEF Covered
  <2>5. CASE v # w /\ w \notin todo[t]
    <3>1. ~ WillWake(t, w) /\ sv'[w] = sv[w]
      BY <2>1, <2>2, <2>5 DEF WillWake, Posting
    <3> QED
      BY <1>1, <1>2, <1>4, <3>1, StillCovered
  <2> QED
    BY <2>3, <2>4, <2>5
<1>7. CASE PutReady(t)
  <2>1. ~ WillWake(t, w) /\ sv' = sv
    BY <1>7 DEF PutReady, WillWake, Posting
  <2> QED
    BY <1>1, <1>2, <1>4, <2>1, StillCovered
<1> QED
  BY <1>5, <1>6, <1>7 DEF NotifyWorkers

\* So does any other step of a worker.
LEMMA WorkerCovers ==
  ASSUME TypeOK, SkipIsSafe, WakeupInv, NEW w \in Workers, WorkerStep(w),
         Unaware(w)'
  PROVE  workerMap' # "empty" /\ Covered(w)'
<1>1. w \in Threads /\ w \in Senders /\ w \in Notifiers
  BY DEF Senders, Notifiers, Threads
<1>2. CASE Send(w)
  BY <1>1, <1>2, SendCovers
<1>3. CASE NotifyWorkers(w)
  BY <1>1, <1>3, NotifyCovers
<1>4. CASE DequeueNothing(w)
  <2>1. workerMap' = "full" /\ \A q \in Managed(w) : queue'[q] = <<>>
    BY <1>4 DEF DequeueNothing, queueVars
  <2> QED
    BY <2>1 DEF Covered
<1>5. CASE ReadTerminate(w) \/ ReadNetwork(w) \/ ReadOutOfWork(w) \/ DecAwake(w)
             \/ ReadQueued(w) \/ ReadAwake(w) \/ SetOutOfWork(w) \/ WaitForMessage(w)
  <2>1. UNCHANGED <<queue, workerMap, sv>>
    BY <1>5 DEF ReadTerminate, ReadNetwork, ReadOutOfWork, DecAwake, ReadQueued,
       ReadAwake, SetOutOfWork, WaitForMessage, queueVars, signalVars
  <2>2. ~ WillWake(w, w)
    BY <1>5 DEF ReadTerminate, ReadNetwork, ReadOutOfWork, DecAwake, ReadQueued,
       ReadAwake, SetOutOfWork, WaitForMessage, WillWake, Posting
  <2>3. Unaware(w)
    <3>1. CASE ReadTerminate(w) \/ ReadNetwork(w) \/ ReadOutOfWork(w)
      BY <1>1, <3>1 DEF ReadTerminate, ReadNetwork, ReadOutOfWork, Goto, Unaware,
         localVars, TypeOK, ControlOK, DataOK, Seen
    <3>2. CASE DecAwake(w) \/ ReadQueued(w) \/ ReadAwake(w) \/ SetOutOfWork(w)
                 \/ WaitForMessage(w)
      BY <3>2 DEF DecAwake, ReadQueued, ReadAwake, SetOutOfWork, WaitForMessage, Unaware
    <3> QED
      BY <1>5, <3>1, <3>2
  <2>4. workerMap # "empty" /\ Covered(w)
    BY <2>3 DEF WakeupInv
  <2> QED
    BY <1>1, <2>1, <2>2, <2>4, StillCovered, WorkerLocal
<1>6. CASE IncLive(w) \/ IncAwake(w) \/ Dequeue(w) \/ Processed(w) \/ Crash(w)
  <2>1. ~ Unaware(w)'
    BY <1>1, <1>6 DEF IncLive, IncAwake, Dequeue, Processed, Crash, Goto, Unaware,
       Nothing, TypeOK, ControlOK, DataOK
  <2> QED
    BY <2>1
<1>7. CASE ReadSV(w) \/ Wakeup(w) \/ DieWithError(w) \/ DecLive(w) \/ ReadLive(w)
             \/ Finalized(w) \/ CleanupEngine(w) \/ Signal(w)
  <2>1. ~ Unaware(w)'
    BY <1>1, <1>7 DEF ReadSV, Wakeup, DieWithError, DecLive, ReadLive, Finalized,
       CleanupEngine, CloseEndpoint, Signal, Goto, Unaware, TypeOK, ControlOK
  <2> QED
    BY <2>1
<1> QED
  BY <1>2, <1>3, <1>4, <1>5, <1>6, <1>7 DEF WorkerStep

\* And so do the steps of the other workers.
LEMMA OthersCover ==
  ASSUME TypeOK, SkipIsSafe, WakeupInv, NEW v \in Workers, WorkerStep(v),
         NEW w \in Workers, w # v, Unaware(w)'
  PROVE  workerMap' # "empty" /\ Covered(w)'
<1>1. v \in Threads /\ v \in Senders /\ v \in Notifiers /\ w \in Threads
  BY DEF Senders, Notifiers, Threads
<1>2. CASE Send(v)
  BY <1>1, <1>2, SendCovers
<1>3. CASE NotifyWorkers(v)
  BY <1>1, <1>3, NotifyCovers
<1>4. CASE ~ Send(v) /\ ~ NotifyWorkers(v)
  <2>1. Unaware(w)
    BY <1>1, WorkerLocal DEF Local, Unaware
  <2>2. workerMap' = workerMap /\ workerMap # "empty" /\ Covered(w)
    BY <1>4, <2>1, WorkerElse DEF WakeupInv
  <2>3. ~ WillWake(v, w)
    BY <1>4 DEF WorkerStep, IncLive, IncAwake, Dequeue, DequeueNothing, Processed, Crash,
       ReadTerminate, ReadNetwork, ReadOutOfWork, DecAwake, ReadQueued, ReadAwake,
       SetOutOfWork, WaitForMessage, ReadSV, Wakeup, DieWithError, DecLive, ReadLive,
       Finalized, CleanupEngine, CloseEndpoint, Signal, WillWake, Posting
  <2>4. sv'[w] = sv[w]
    BY <1>4 DEF WorkerStep, IncLive, IncAwake, Dequeue, DequeueNothing, Processed, Crash,
       ReadTerminate, ReadNetwork, ReadOutOfWork, DecAwake, ReadQueued, ReadAwake,
       SetOutOfWork, WaitForMessage, ReadSV, Wakeup, DieWithError, DecLive, ReadLive,
       Finalized, CleanupEngine, CloseEndpoint, Signal, signalVars, TypeOK, DataOK
  <2>5. \A q \in Managed(w) : queue'[q] # <<>> => queue[q] # <<>>
    <3>1. CASE Dequeue(v)
      <4>1. PICK i \in DOMAIN Group[v] : queue' = [queue EXCEPT ![Group[v][i]] = Tail(@)]
        BY <3>1 DEF Dequeue
      <4>2. Group[v][i] \in Managed(v)
        BY DEF Managed
      <4>3. Managed(v) \cap Managed(w) = {}
        BY QueueAssumption
      <4> QED
        BY <4>1, <4>2, <4>3 DEF TypeOK, DataOK
    <3>2. CASE ~ Dequeue(v)
      <4>1. queue' = queue
        BY <1>4, <3>2 DEF WorkerStep, IncLive, IncAwake, DequeueNothing, Processed, Crash,
           ReadTerminate, ReadNetwork, ReadOutOfWork, DecAwake, ReadQueued, ReadAwake,
           SetOutOfWork, WaitForMessage, ReadSV, Wakeup, DieWithError, DecLive, ReadLive,
           Finalized, CleanupEngine, CloseEndpoint, Signal, queueVars
      <4> QED
        BY <4>1
    <3> QED
      BY <3>1, <3>2
  <2> QED
    BY <1>1, <2>2, <2>3, <2>4, <2>5, WorkerLocal, StillCovered
<1> QED
  BY <1>2, <1>3, <1>4

LEMMA WakeupInit == Init => WakeupInv
BY DEF Init, WakeupInv, Unaware, Threads

\* Every step keeps the invariant, as long as a sender skips no notify that nobody
\* else makes up for.
LEMMA WakeupStep ==
  ASSUME TypeOK, SkipIsSafe, WakeupInv, [Next]_vars
  PROVE  WakeupInv'
<1>1. CASE Next
  <2>1. workerMap' = "taken" => \E t \in Senders : pc'[t] = "putMap"
    BY <1>1, MapHolder
  <2>2. ASSUME NEW w \in Workers, Unaware(w)'
        PROVE  workerMap' # "empty" /\ Covered(w)'
    <3>0. w \in Threads
      BY DEF Threads
    <3>1. CASE \E t \in Senders : Send(t)
      BY <2>2, <3>1, SendCovers
    <3>2. ASSUME NEW v \in Workers, WorkerStep(v)
          PROVE  workerMap' # "empty" /\ Covered(w)'
      BY <2>2, <3>2, WorkerCovers, OthersCover
    <3>3. ASSUME NEW l \in Listeners, ListenerStep(l), ~ Send(l)
          PROVE  workerMap' # "empty" /\ Covered(w)'
      <4>1. l \in Threads /\ w # l /\ l \notin Notifiers
        BY ThreadAssumption DEF Threads, Notifiers
      <4>2. Local(l) /\ seen' = seen /\ UNCHANGED <<queue, workerMap, sv>>
        BY <3>3, ListenerLocal, ListenerElse
      <4>3. Unaware(w)
        BY <2>2, <3>0, <4>1, <4>2 DEF Local, Unaware
      <4>4. ~ WillWake(l, w)
        BY <3>3, <4>1, ListenerElse DEF WillWake
      <4> QED
        BY <4>1, <4>2, <4>3, <4>4, StillCovered DEF WakeupInv
    <3>4. CASE MainStep /\ ~ Send(Main)
      <4>1. pc'[w] = pc[w] /\ seen' = seen /\ Unaware(w)
        BY <2>2, <3>4, MainLocal DEF Unaware
      <4>2. workerMap' # "empty" /\ Covered(w) /\ UNCHANGED <<queue, sv>>
        BY <3>4, <4>1, MainElse DEF WakeupInv
      <4>3. ASSUME NEW t \in Threads, WillWake(t, w) PROVE WillWake(t, w)'
        <5>1. t # Main
          BY <3>4, <4>3, MainElse, ThreadAssumption DEF WillWake, Notifiers
        <5>2. pc'[t] = pc[t]
          <6>1. CASE t \in Workers
            <7>1. pc[t] # "unborn"
              BY <4>3 DEF WillWake, Posting
            <7> QED
              BY <3>4, <6>1, <7>1, MainLocal
          <6>2. CASE t \notin Workers
            BY <3>4, <5>1, <6>2, MainLocal
          <6> QED
            BY <6>1, <6>2
        <5>3. (t \in Senders => out'[t] = out[t]) /\ todo' = todo
          BY <3>4, <5>1, MainLocal
        <5> QED
          BY <4>3, <5>2, <5>3 DEF WillWake
      <4> QED
        BY <4>2, <4>3 DEF Covered
    <3>5. CASE TerminateEngine
      <4>1. Console \in Threads /\ w # Console /\ Console \notin Senders
        BY ThreadAssumption DEF Threads, Senders
      <4>2. Local(Console) /\ seen' = seen /\ UNCHANGED <<queue, workerMap, sv>>
        BY <3>5, ConsoleLocal DEF ConsoleStep, TerminateEngine, signalVars
      <4>3. Unaware(w)
        BY <2>2, <3>0, <4>1, <4>2 DEF Local, Unaware
      <4>4. ~ WillWake(Console, w)
        BY <3>5, <4>1 DEF WillWake, TerminateEngine
      <4> QED
        BY <4>1, <4>2, <4>3, <4>4, StillCovered DEF WakeupInv
    <3>6. CASE NotifyWorkers(Console)
      BY <2>2, <3>6, NotifyCovers DEF Notifiers
    <3> QED
      BY <1>1, <3>1, <3>2, <3>3, <3>4, <3>5, <3>6 DEF Next, ConsoleStep, Senders
  <2> QED
    BY <2>1, <2>2 DEF WakeupInv
<1>2. CASE UNCHANGED vars
  BY <1>2 DEF WakeupInv, Unaware, Covered, WillWake, vars, queueVars, signalVars,
     localVars
<1> QED
  BY <1>1, <1>2

LEMMA WakeupSuffices == WakeupInv => NoLostWakeup
BY DEF WakeupInv, Unaware, Covered, NoLostWakeup

\* With one worker, the holder of the worker map will wake it.
LEMMA OneWorkerSkips == ASSUME TypeOK, WakeupInv, OneWorker PROVE SkipIsSafe
<1> SUFFICES ASSUME NEW t \in Senders, NEW w \in Workers,
                    pc[t] = "isEmpty", workerMap = "taken"
             PROVE  \E s \in Threads \ {t} : WillWake(s, w)
  BY DEF SkipIsSafe
<1>1. PICK s \in Senders : pc[s] = "putMap"
  BY DEF WakeupInv
<1>2. s # t /\ s \in Threads /\ WillWake(s, w)
  BY <1>1, PostingWakes DEF Senders, Threads, Posting
<1> QED
  BY <1>2

\* An engine with one worker, whatever its queues, messages, listeners and
\* handlers, never leaves it blocked on its MSampleVar with a message waiting
\* and nobody on the way to wake it.
THEOREM OneWorkerNoLostWakeup ==
  ASSUME OneWorker
  PROVE  Spec => []NoLostWakeup
<1>1. TypeOK /\ WakeupInv /\ [Next]_vars => WakeupInv'
  BY OneWorkerSkips, WakeupStep
<1> QED
  BY <1>1, WakeupInit, WakeupSuffices, TypeCorrect, PTL DEF Spec

\* The worker map is put in place after the main thread's last message, and nobody
\* gets past the lookup before it is there.
MapInPlace ==
  /\ workerMap = "empty" => \A t \in Senders : pc[t] \notin {"takeMap", "putMap", "notify"}
  /\ pc[Main] \in Sending \cup {"initialize", "fork", "configWorkers"} => workerMap = "empty"

LEMMA MapInPlaceInit == Init => MapInPlace
BY ThreadAssumption DEF Init, MapInPlace, Senders, Threads, Sending, Posting

LEMMA MapInPlaceStep == ASSUME TypeOK, MapInPlace, [Next]_vars PROVE MapInPlace'
<1>0. /\ Main \in Senders /\ \A t \in Senders : t \in Threads
      /\ Main \notin Workers \cup Listeners \cup {Console}
      /\ \A t \in Senders : pc[t] \in PCs
  BY ThreadAssumption DEF Senders, Threads, TypeOK, ControlOK
<1>1. ASSUME NEW t \in Senders, Send(t) PROVE MapInPlace'
  <2>1. Local(t)
    BY <1>1, SendLocal
  <2>2. \A s \in Senders : s # t => pc'[s] = pc[s]
    BY <1>0, <2>1 DEF Local
  <2>3. pc[t] \in Sending /\ pc'[t] \in Sending
    BY <1>0, <1>1 DEF TypeOK, ControlOK, Send, Enqueue, ClearOutOfWork, IsEmptyMVar, TakeMap,
       PutMap, NotifyMessage, Goto, Sending, Posting
  <2>4. CASE workerMap = "empty"
    <3>1. pc'[t] \in {"clearOutOfWork", "isEmpty", "send"} /\ workerMap' = workerMap
      BY <1>0, <1>1, <2>4 DEF MapInPlace, TypeOK, ControlOK, Send, Enqueue, ClearOutOfWork,
         IsEmptyMVar, TakeMap, PutMap, NotifyMessage, Goto, queueVars
    <3> QED
      BY <2>2, <2>4, <3>1 DEF MapInPlace
  <2>5. CASE workerMap # "empty"
    <3>1. workerMap' # "empty"
      BY <1>1, <2>5 DEF Send, Enqueue, ClearOutOfWork, IsEmptyMVar, TakeMap, PutMap,
         NotifyMessage, queueVars
    <3>2. t # Main /\ pc'[Main] = pc[Main]
      BY <1>0, <2>2, <2>3, <2>5 DEF MapInPlace
    <3> QED
      BY <2>5, <3>1, <3>2 DEF MapInPlace
  <2> QED
    BY <2>4, <2>5
<1>2. ASSUME NEW t \in Threads \ {Main}, Local(t), workerMap' = workerMap,
             t \in Senders => pc'[t] \notin {"takeMap", "putMap", "notify"}
      PROVE  MapInPlace'
  <2>1. \A s \in Senders : s # t => pc'[s] = pc[s]
    BY <1>0, <1>2 DEF Local
  <2>2. pc'[Main] = pc[Main]
    BY <1>0, <1>2, <2>1
  <2> QED
    BY <1>2, <2>1, <2>2 DEF MapInPlace
<1>3. ASSUME NEW w \in Workers, WorkerStep(w), ~ Send(w) PROVE MapInPlace'
  <2>1. w \in Threads \ {Main} /\ Local(w) /\ workerMap' = workerMap
    BY <1>0, <1>3, WorkerLocal, WorkerElse DEF Threads
  <2>2. pc'[w] \notin {"takeMap", "putMap", "notify"}
    BY <1>3, <2>1 DEF WorkerStep, NotifyWorkers, TakeReady, WakeOne, PutReady, IncLive,
       IncAwake, Dequeue, DequeueNothing, Processed, Crash, ReadTerminate, ReadNetwork,
       ReadOutOfWork, DecAwake, ReadQueued, ReadAwake, SetOutOfWork, WaitForMessage, ReadSV,
       Wakeup, DieWithError, DecLive, ReadLive, Finalized, CleanupEngine, CloseEndpoint, Signal, Goto,
       TypeOK, ControlOK
  <2> QED
    BY <1>2, <2>1, <2>2
<1>4. ASSUME NEW l \in Listeners, ListenerStep(l), ~ Send(l) PROVE MapInPlace'
  <2>1. l \in Threads \ {Main} /\ Local(l) /\ workerMap' = workerMap
    BY <1>0, <1>4, ListenerLocal, ListenerElse DEF Threads
  <2>2. pc'[l] \notin {"takeMap", "putMap", "notify"}
    BY <1>4, <2>1 DEF ListenerStep, Receive, Received, EndpointError, CloseEndpoint, EndPointClosed, Goto,
       TypeOK, ControlOK
  <2> QED
    BY <1>2, <2>1, <2>2
<1>5. CASE MainStep /\ ~ Send(Main)
  <2>1. \A s \in Senders \ {Main} :
          pc'[s] = pc[s] \/ (pc[s] = "unborn" /\ pc'[s] = "incLive")
    BY <1>0, <1>5, MainLocal
  <2>2. pc'[Main] \notin {"takeMap", "putMap", "notify"}
    BY <1>0, <1>5, MainElse DEF MainStep, Initialize, Initialized, ForkWorker, Forked,
       ConfigWorkerMap, ConfigReadyMap, Return, Goto, TypeOK, ControlOK, Posting
  <2>3. CASE ConfigWorkerMap
    BY <1>0, <2>3 DEF ConfigWorkerMap, Goto, MapInPlace, Sending, Posting, TypeOK, ControlOK
  <2>4. CASE ~ ConfigWorkerMap
    <3>1. workerMap' = workerMap
      BY <1>5, <2>4 DEF MainStep, Initialize, Initialized, ForkWorker, Forked,
         ConfigReadyMap, Return, queueVars
    <3>2. pc'[Main] \in Sending \cup {"initialize", "fork", "configWorkers"}
            => pc[Main] \in Sending \cup {"initialize", "fork", "configWorkers"}
      BY <1>0, <1>5, <2>4 DEF MainStep, Initialize, Initialized, ForkWorker, Forked,
         ConfigReadyMap, Return, Goto, Sending, Posting, TypeOK, ControlOK
    <3> QED
      BY <2>1, <2>2, <3>1, <3>2 DEF MapInPlace
  <2> QED
    BY <2>3, <2>4
<1>6. CASE ConsoleStep
  <2>1. Local(Console) /\ workerMap' = workerMap
    BY <1>6, ConsoleLocal
  <2>2. Console \in Threads \ {Main} /\ Console \notin Senders
    BY ThreadAssumption DEF Threads, Senders
  <2> QED
    BY <1>2, <2>1, <2>2
<1>7. CASE UNCHANGED vars
  BY <1>7 DEF MapInPlace, vars, queueVars
<1> QED
  BY <1>1, <1>3, <1>4, <1>5, <1>6, <1>7 DEF Next, Senders

\* With two workers and nobody else to send, the holder of the worker map is the
\* worker that the message is for, which is not asleep.
LEMMA TwoWorkersSkip ==
  ASSUME TypeOK, WakeupInv, MapInPlace, TwoWorkersAlone PROVE SkipIsSafe
<1> SUFFICES ASSUME NEW t \in Senders, NEW w \in Workers,
                    pc[t] = "isEmpty", workerMap = "taken", Unaware(w)
             PROVE  FALSE
  BY DEF SkipIsSafe
<1>1. PICK s \in Senders : pc[s] = "putMap"
  BY DEF WakeupInv
<1>2. s # Main /\ t # Main
  BY <1>1 DEF MapInPlace, Sending, Posting
<1>3. s \in Workers /\ t \in Workers /\ s # t
  BY <1>1, <1>2 DEF Senders, TwoWorkersAlone
<1>4. w # s /\ w # t
  BY <1>1 DEF Unaware
<1> QED
  BY <1>3, <1>4 DEF TwoWorkersAlone

\* Nor does an engine with two workers and no listener, whatever its queues,
\* messages and handlers; with a third sender it may.
THEOREM TwoWorkersNoLostWakeup ==
  ASSUME TwoWorkersAlone
  PROVE  Spec => []NoLostWakeup
<1>1. TypeOK /\ WakeupInv /\ MapInPlace /\ [Next]_vars => WakeupInv' /\ MapInPlace'
  BY TwoWorkersSkip, WakeupStep, MapInPlaceStep
<1>2. Init => WakeupInv /\ MapInPlace
  BY WakeupInit, MapInPlaceInit
<1> QED
  BY <1>1, <1>2, WakeupSuffices, TypeCorrect, PTL DEF Spec
=============================================================================
