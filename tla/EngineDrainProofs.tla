-------------------------- MODULE EngineDrainProofs --------------------------
(***************************************************************************)
(* What an engine with one worker leaves behind: nothing but the messages  *)
(* that are sent in closing it.  With one worker the separate reads of     *)
(* terminate and isShutdownTime cannot be overtaken by another worker, and *)
(* what they conclude still holds when it is used.  From this follow       *)
(* DrainedAtEnd and FinishAllDrains, and that the engine implements        *)
(* Quiescence.                                                             *)
(***************************************************************************)
EXTENDS EngineCountersProofs

-----------------------------------------------------------------------------
(***************************************************************************)
(* The inductive invariant.                                                *)
(***************************************************************************)

\* Nothing comes in from the network any more, but that it has been closed.
Closed == open = {} /\ \A l \in Listeners : SaysLast(l)

\* No request to stop excuses messages that are left behind.
Calm == terminateV = "Off" \/ (terminateV = "FinishAll" /\ Listeners = {})

Drained(w) == Closed /\ OnlyLastWords /\ current[w] = NoMsg

Beginning == pc[Main] \in Sending \cup {"initialize"}

\* The main thread has nothing to send once the worker has started.
Began(w) ==
  /\ Beginning => pc[w] = "unborn"
  /\ ~ Beginning => out[Main] = <<>>

\* A worker that has not entered the loop has concluded nothing.
Fresh(w) == pc[w] \in {"unborn", "incLive", "incAwake"} => ~ outOfWorkV

\* Before cleanupEngine an endpoint is closed by its own listener only, so a
\* network that was found done has nobody in the middle of a delivery: what a
\* closed listener may still have to send are the notifications of its close.
NetworkIsDone(w) ==
  /\ \/ Finalizing(w) \/ pc[w] \in {"cleanupEngine", "signal", "dead"}
     \/ \A l \in Listeners \ open : SaysLast(l)
  /\ seen[w].net => Closed

AsRequested(w) ==
  /\ pc[Console] = "console" => terminateV = "Off"
  /\ seen[w].term \in {"Off", terminateV}

\* Outside the handler of a message only last words are sent.
SendsLast(w) == current[w] = NoMsg => SaysLast(w)

\* What the worker has read of the queues is still true when it uses it, but
\* for last words.
FoundNone(w) ==
  /\ pc[w] \in {"readAwake", "setOutOfWork"} /\ seen[w].none
     /\ (seen[w].net \/ Listeners = {}) => Drained(w)
  /\ Listeners = {}
     /\ \/ pc[w] = "decAwake"
        \/ /\ pc[w] \in {"readTerminate", "readNetwork", "readOutOfWork"}
           /\ seen[w].check # "afterOne"
     => NoneQueued

\* outOfWorkV is true of the queues until the handler of a last word adds a
\* message to them, and is then cleared by the next step of that worker.
SaysOutOfWork(w) ==
  /\ pc[w] = "setOutOfWork" => seen[w].none /\ (seen[w].net \/ seen[w].term # "Off")
  /\ outOfWorkV /\ Calm => Closed /\ (OnlyLastWords \/ pc[w] = "clearOutOfWork")

LeavesNothing(w) ==
  /\ waitV => pc[w] = "dead"
  /\ \/ Finalizing(w) \/ waitV
     \/ pc[w] \in {"decLive", "readLive", "cleanupEngine", "signal"}
     => (Calm => Drained(w))

DrainInv ==
  \A w \in Workers :
    /\ Began(w) /\ Fresh(w) /\ NetworkIsDone(w) /\ AsRequested(w) /\ SendsLast(w)
    /\ FoundNone(w) /\ SaysOutOfWork(w) /\ LeavesNothing(w)

-----------------------------------------------------------------------------
(***************************************************************************)
(* Last words.                                                             *)
(***************************************************************************)

\* The lists that a close or the finalization sends are made of last words.
LEMMA LastLists ==
  ASSUME NEW ms \in Seq(Msgs),
         ms \in FinalSends \/ \E l \in Listeners : ms \in CloseSends[l]
  PROVE  ms \in Seq(LastWords)
<1>1. ms \in FinalSends \cup UNION {CloseSends[l] : l \in Listeners}
  OBVIOUS
<1>2. \A i \in 1..Len(ms) : ms[i] \in LastWords
  BY <1>1 DEF LastWords
<1> QED
  BY <1>2

\* Having nothing to send is saying last words only, and so are empty queues.
LEMMA NothingIsLast ==
  /\ \A t : out[t] = <<>> => SaysLast(t)
  /\ NoneQueued => OnlyLastWords
<1>1. PICK none : none = <<>>
  OBVIOUS
<1>2. none \in Seq(LastWords)
  BY <1>1
<1>3. \A t : out[t] = none => SaysLast(t)
  BY <1>2 DEF SaysLast
<1>4. (\A q \in Queues : queue[q] = none) => OnlyLastWords
  BY <1>2 DEF OnlyLastWords
<1> QED
  BY <1>1, <1>3, <1>4 DEF NoneQueued

\* What is left of a list of such messages is one.
LEMMA ShorterList ==
  ASSUME NEW S, NEW ms \in Seq(S), ms # <<>>
  PROVE  Tail(ms) \in Seq(S)
OBVIOUS

\* The same of the next state.
LEMMA NothingToSend == ASSUME NEW t, out'[t] = <<>> PROVE SaysLast(t)'
<1>1. PICK none : none = <<>>
  OBVIOUS
<1>2. none \in Seq(LastWords)
  BY <1>1
<1> QED
  BY <1>1, <1>2 DEF SaysLast

\* A step of enqueue takes from the list of its thread, and adds to the queues
\* what is at its head.
LEMMA SendLast ==
  ASSUME TypeOK, NEW t \in Senders, Send(t)
  PROVE  /\ SaysLast(t) => SaysLast(t)' /\ (OnlyLastWords => OnlyLastWords')
         /\ UNCHANGED <<current, open, waitV, terminateV>> /\ (outOfWorkV' => outOfWorkV)
         /\ \/ UNCHANGED queue
            \/ Enqueue(t)
<1>1. CASE Enqueue(t)
  <2>1. out' = out /\ UNCHANGED <<current, open, waitV, terminateV, outOfWorkV>>
    BY <1>1 DEF Enqueue, localVars, netVars, flagVars
  <2>2. ASSUME SaysLast(t), OnlyLastWords PROVE OnlyLastWords'
    <3>1. Head(out[t]) \in LastWords
      BY <1>1, <2>2 DEF Enqueue, SaysLast
    <3>2. PICK m : m = Head(out[t])
      OBVIOUS
    <3>3. PICK r : r = Route[m]
      OBVIOUS
    <3>4. queue' = [queue EXCEPT ![r] = Append(@, m)]
      BY <1>1, <3>2, <3>3 DEF Enqueue
    <3>5. m \in LastWords
      BY <3>1, <3>2
    <3> QED
      BY <2>2, <3>4, <3>5 DEF OnlyLastWords, TypeOK, DataOK
  <2> QED
    BY <1>1, <2>1, <2>2 DEF SaysLast
<1>2. CASE ~ Enqueue(t)
  <2>1. UNCHANGED <<queue, current, open, waitV, terminateV>> /\ (outOfWorkV' => outOfWorkV)
    BY <1>2 DEF Send, ClearOutOfWork, IsEmptyMVar, TakeMap, PutMap, NotifyMessage,
       queueVars, flagVars, netVars, localVars
  <2>2. out[t] # <<>>
    BY <1>2 DEF Send, ClearOutOfWork, IsEmptyMVar, TakeMap, PutMap, NotifyMessage,
       TypeOK, ControlOK, Posting
  <2>3. out'[t] = out[t] \/ out'[t] = Tail(out[t])
    BY <1>2 DEF Send, ClearOutOfWork, IsEmptyMVar, TakeMap, PutMap, NotifyMessage,
       localVars, TypeOK, DataOK
  <2>4. SaysLast(t) => SaysLast(t)'
    BY <2>2, <2>3, ShorterList DEF SaysLast
  <2>5. OnlyLastWords => OnlyLastWords'
    BY <2>1 DEF OnlyLastWords
  <2> QED
    BY <2>1, <2>4, <2>5
<1> QED
  BY <1>1, <1>2

\* What a close leaves for its thread to send are last words.
LEMMA CloseLast ==
  ASSUME TypeOK, NEW t \in Senders, NEW l \in Listeners, CloseEndpoint(t, l)
  PROVE  SaysLast(t)'
<1>1. PICK ms \in CloseSends[l] : out' = [out EXCEPT ![t] = ms]
  BY DEF CloseEndpoint
<1>2. ms \in Seq(Msgs)
  BY MessageAssumption
<1>3. ms \in Seq(LastWords)
  BY <1>2, LastLists
<1> QED
  BY <1>1, <1>3 DEF SaysLast, TypeOK, DataOK

-----------------------------------------------------------------------------
(***************************************************************************)
(* The threads other than the worker.                                      *)
(***************************************************************************)

\* What the steps of the other threads leave alone in a worker.
KeepsWorker(w) ==
  /\ current'[w] = current[w] /\ seen'[w] = seen[w] /\ out'[w] = out[w]
  /\ waitV' = waitV

\* The main thread may start the worker, but does nothing else to it.
LEMMA MainKeeps ==
  ASSUME TypeOK, MainStep, NEW w \in Workers
  PROVE  KeepsWorker(w) /\ UNCHANGED <<open, terminateV>>
<1>1. w \in Senders \ {Main}
  BY ThreadAssumption DEF Senders
<1>2. UNCHANGED <<current, waitV, open>>
  BY DEF MainStep, Initialize, Initialized, ForkWorker, Forked, ConfigWorkerMap,
     ConfigReadyMap, Return, Send, Enqueue, ClearOutOfWork, IsEmptyMVar, TakeMap,
     PutMap, NotifyMessage, localVars, flagVars, netVars
<1> QED
  BY <1>1, <1>2, MainLocal DEF KeepsWorker

\* While the main thread sends, the worker is unborn, and its invariant says
\* nothing of the queues; afterwards it does not touch them.
LEMMA MainDrain ==
  ASSUME TypeOK, DrainInv, MainStep, NEW w \in Workers
  PROVE  /\ Began(w)' /\ Fresh(w)' /\ NetworkIsDone(w)' /\ AsRequested(w)'
         /\ SendsLast(w)' /\ FoundNone(w)' /\ SaysOutOfWork(w)' /\ LeavesNothing(w)'
<1>0. /\ KeepsWorker(w) /\ UNCHANGED <<open, terminateV>>
      /\ pc'[w] = pc[w] \/ (pc[w] = "unborn" /\ pc'[w] = "incLive")
      /\ pc'[Console] = pc[Console] /\ \A l \in Listeners : out'[l] = out[l]
  <2>1. Console \in Threads \ (Workers \cup {Main})
        /\ \A l \in Listeners : l \in Senders \ {Main}
    BY ThreadAssumption DEF Threads, Senders
  <2> QED
    BY <2>1, MainKeeps, MainLocal
<1>1. Main \in Threads /\ w # Main /\ Main \in Senders /\ w \in Threads /\ pc \in [Threads -> PCs]
  BY ThreadAssumption DEF Threads, Senders, TypeOK, ControlOK
<1>2. /\ Began(w) /\ Fresh(w) /\ NetworkIsDone(w) /\ AsRequested(w) /\ SendsLast(w)
      /\ FoundNone(w) /\ SaysOutOfWork(w) /\ LeavesNothing(w)
  BY DEF DrainInv
<1>3. (Closed' <=> Closed) /\ (\A l \in Listeners : SaysLast(l)' <=> SaysLast(l))
      /\ (SaysLast(w)' <=> SaysLast(w))
  BY <1>0 DEF Closed, SaysLast, KeepsWorker
<1>4. NetworkIsDone(w)' /\ AsRequested(w)' /\ SendsLast(w)'
  BY <1>0, <1>2, <1>3
  DEF NetworkIsDone, AsRequested, SendsLast, KeepsWorker, Finalizing, Sending, Posting
<1>5. CASE Send(Main) \/ Initialize
  <2>1. Beginning /\ Beginning'
    BY <1>1, <1>5 DEF Send, Enqueue, ClearOutOfWork, IsEmptyMVar, TakeMap, PutMap,
       NotifyMessage, Initialize, Goto, Beginning, Sending, Posting
  <2>2. pc[w] = "unborn" /\ ~ outOfWorkV /\ ~ waitV
    BY <1>2, <2>1 DEF Began, Fresh, LeavesNothing
  <2>3. pc'[w] = "unborn"
    BY <1>1, <1>5, <2>2 DEF Send, Enqueue, ClearOutOfWork, IsEmptyMVar, TakeMap, PutMap,
       NotifyMessage, Initialize, Goto
  <2>4. ~ outOfWorkV' /\ ~ waitV'
    BY <1>5, <2>2 DEF Send, Enqueue, ClearOutOfWork, IsEmptyMVar, TakeMap, PutMap,
       NotifyMessage, Initialize, flagVars
  <2> QED
    BY <1>4, <2>1, <2>3, <2>4 DEF Began, Fresh, FoundNone, SaysOutOfWork, LeavesNothing,
       Finalizing, Sending, Posting
<1>6. CASE ~ (Send(Main) \/ Initialize)
  <2>1. UNCHANGED <<queue, outOfWorkV, out>>
    BY <1>6 DEF MainStep, Initialized, ForkWorker, Forked, ConfigWorkerMap,
       ConfigReadyMap, Return, queueVars, flagVars, localVars
  <2>2. \/ ~ Beginning' /\ out[Main] = <<>>
        \/ pc'[Main] = pc[Main] /\ pc'[w] = pc[w]
    <3>1. CASE Initialized
      BY <1>1, <3>1 DEF Initialized, Goto, Beginning, Sending, Posting
    <3>2. CASE Forked \/ ConfigWorkerMap \/ Return \/ ConfigReadyMap
      <4>1. ~ Beginning /\ ~ Beginning'
        BY <1>1, <3>2 DEF Forked, ConfigWorkerMap, Return, ConfigReadyMap,
           Goto, Beginning, Sending, Posting
      <4> QED
        BY <1>2, <4>1 DEF Began
    <3>3. ASSUME NEW v \in Workers, ForkWorker(v)
          PROVE  ~ Beginning' /\ out[Main] = <<>>
      <4>1. v # Main /\ pc[Main] = "fork" /\ pc' = [pc EXCEPT ![v] = "incLive"]
        BY <3>3, ThreadAssumption DEF ForkWorker, Goto
      <4> QED
        BY <1>1, <1>2, <4>1 DEF Began, Beginning, Sending, Posting
    <3> QED
      BY <1>6, <3>1, <3>2, <3>3 DEF MainStep
  <2>3. (Drained(w)' <=> Drained(w)) /\ (OnlyLastWords' <=> OnlyLastWords)
        /\ (NoneQueued' <=> NoneQueued)
    BY <1>0, <1>3, <2>1 DEF Drained, OnlyLastWords, NoneQueued, KeepsWorker
  <2>4. Began(w)' /\ Fresh(w)'
    BY <1>0, <1>2, <2>1, <2>2 DEF Began, Beginning, Fresh
  <2>5. FoundNone(w)' /\ SaysOutOfWork(w)'
    BY <1>0, <1>2, <1>3, <2>1, <2>3 DEF FoundNone, SaysOutOfWork, KeepsWorker, Calm
  <2>6. LeavesNothing(w)'
    BY <1>0, <1>2, <2>3 DEF LeavesNothing, KeepsWorker, Calm, Finalizing, Sending, Posting
  <2> QED
    BY <1>4, <2>4, <2>5, <2>6
<1> QED
  BY <1>5, <1>6

\* A step of a listener: with a closed endpoint it says last words at most; if
\* its endpoint is open the network is not done.
LEMMA ListenerSays ==
  ASSUME TypeOK, NEW l \in Listeners, ListenerStep(l)
  PROVE  /\ UNCHANGED <<current, waitV>> /\ (outOfWorkV' => outOfWorkV)
         /\ open' = open \/ (l \in open /\ open' = open \ {l})
         /\ l \notin open' => (l \in open \/ SaysLast(l) => SaysLast(l)')
         /\ l \notin open /\ SaysLast(l) /\ OnlyLastWords => OnlyLastWords'
         /\ ~ Send(l) => queue' = queue
<1>1. l \in Senders /\ l \in Threads /\ pc \in [Threads -> PCs]
  BY DEF Senders, Threads, TypeOK, ControlOK
<1>2. CASE Send(l)
  BY <1>1, <1>2, SendLast
<1>3. CASE ~ Send(l)
  <2>1. /\ UNCHANGED <<queue, current, waitV, outOfWorkV>>
        /\ open' = open \/ (l \in open /\ open' = open \ {l})
    BY <1>3 DEF ListenerStep, Receive, Received, EndpointError, CloseEndpoint,
       EndPointClosed, queueVars, localVars, flagVars, netVars
  <2>2. l \notin open' => (l \in open \/ SaysLast(l) => SaysLast(l)')
    <3>1. CASE Receive(l) \/ Received(l) \/ EndPointClosed(l)
      BY <3>1 DEF Receive, Received, EndPointClosed, localVars, netVars, SaysLast
    <3>2. CASE EndpointError(l)
      <4>1. CASE CloseEndpoint(l, l)
        BY <1>1, <4>1, CloseLast
      <4>2. CASE ~ CloseEndpoint(l, l)
        BY <3>2, <4>2 DEF EndpointError, SaysLast
      <4> QED
        BY <4>1, <4>2
    <3> QED
      BY <1>3, <3>1, <3>2 DEF ListenerStep
  <2>3. OnlyLastWords => OnlyLastWords'
    BY <2>1 DEF OnlyLastWords
  <2> QED
    BY <2>1, <2>2, <2>3
<1> QED
  BY <1>2, <1>3

\* A listener that may still deliver keeps the network from being done, and
\* then the invariant promises nothing of the queues.
LEMMA ListenerDrain ==
  ASSUME TypeOK, DrainInv, NEW l \in Listeners, ListenerStep(l), NEW w \in Workers
  PROVE  /\ Began(w)' /\ Fresh(w)' /\ NetworkIsDone(w)' /\ AsRequested(w)'
         /\ SendsLast(w)' /\ FoundNone(w)' /\ SaysOutOfWork(w)' /\ LeavesNothing(w)'
<1>0. /\ l \in Threads /\ l \in Senders /\ w \in Threads \ {l} /\ w \in Senders \ {l}
      /\ Main \in Threads \ {l} /\ Main \in Senders \ {l} /\ Console \in Threads \ {l}
      /\ \A k \in Listeners : k \in Senders
      /\ pc \in [Threads -> PCs] /\ open \subseteq Listeners
  BY ThreadAssumption DEF Threads, Senders, TypeOK, ControlOK, DataOK
<1>1. /\ UNCHANGED <<current, waitV>> /\ (outOfWorkV' => outOfWorkV)
      /\ open' = open \/ (l \in open /\ open' = open \ {l})
      /\ l \notin open' => (l \in open \/ SaysLast(l) => SaysLast(l)')
      /\ l \notin open /\ SaysLast(l) /\ OnlyLastWords => OnlyLastWords'
  BY ListenerSays
<1>2. /\ KeepsWorker(w) /\ terminateV' = terminateV
      /\ pc'[w] = pc[w] /\ pc'[Main] = pc[Main] /\ pc'[Console] = pc[Console]
      /\ out'[Main] = out[Main] /\ \A k \in Listeners \ {l} : out'[k] = out[k]
  BY <1>0, <1>1, ListenerLocal DEF KeepsWorker, Local
<1>3. /\ Began(w) /\ Fresh(w) /\ NetworkIsDone(w) /\ AsRequested(w) /\ SendsLast(w)
      /\ FoundNone(w) /\ SaysOutOfWork(w) /\ LeavesNothing(w)
  BY DEF DrainInv
<1>4. \A k \in Listeners \ {l} : SaysLast(k)' <=> SaysLast(k)
  BY <1>2 DEF SaysLast
<1>5. Closed => Closed' /\ (OnlyLastWords => OnlyLastWords')
  BY <1>0, <1>1, <1>4 DEF Closed
<1>6. Drained(w) => Drained(w)'
  BY <1>2, <1>5 DEF Drained, KeepsWorker
<1>7. Listeners # {}
  OBVIOUS
<1>8. \/ Finalizing(w)' \/ pc'[w] \in {"cleanupEngine", "signal", "dead"}
      \/ \A k \in Listeners \ open' : SaysLast(k)'
  <2>1. CASE Finalizing(w) \/ pc[w] \in {"cleanupEngine", "signal", "dead"}
    BY <1>2, <2>1 DEF Finalizing, KeepsWorker
  <2>2. CASE \A k \in Listeners \ open : SaysLast(k)
    BY <1>1, <1>4, <2>2
  <2> QED
    BY <1>3, <2>1, <2>2 DEF NetworkIsDone
<1>9. NetworkIsDone(w)'
  BY <1>2, <1>3, <1>5, <1>8 DEF NetworkIsDone, KeepsWorker
<1>10. Began(w)' /\ Fresh(w)' /\ AsRequested(w)' /\ SendsLast(w)'
  BY <1>1, <1>2, <1>3 DEF Began, Beginning, Fresh, AsRequested, SendsLast, SaysLast, KeepsWorker
<1>11. FoundNone(w)' /\ SaysOutOfWork(w)'
  BY <1>1, <1>2, <1>3, <1>5, <1>6, <1>7 DEF FoundNone, SaysOutOfWork, KeepsWorker, Calm
<1>12. LeavesNothing(w)'
  BY <1>1, <1>2, <1>3, <1>6 DEF LeavesNothing, KeepsWorker, Calm, Finalizing
<1> QED
  BY <1>9, <1>10, <1>11, <1>12

\* A request to stop is made once; it keeps what was concluded before it.
LEMMA ConsoleDrain ==
  ASSUME TypeOK, DrainInv, ConsoleStep, NEW w \in Workers
  PROVE  /\ Began(w)' /\ Fresh(w)' /\ NetworkIsDone(w)' /\ AsRequested(w)'
         /\ SendsLast(w)' /\ FoundNone(w)' /\ SaysOutOfWork(w)' /\ LeavesNothing(w)'
<1>0. /\ Console \in Threads /\ w \in Threads \ {Console} /\ Main \in Threads \ {Console}
      /\ pc \in [Threads -> PCs]
  BY ThreadAssumption DEF Threads, TypeOK, ControlOK
<1>1. UNCHANGED <<queue, current, waitV, outOfWorkV, open, out>>
  <2>1. UNCHANGED <<queue, current, waitV, outOfWorkV, open>>
    BY DEF ConsoleStep, TerminateEngine, NotifyWorkers, TakeReady, WakeOne, PutReady,
       queueVars, localVars, flagVars, netVars
  <2> QED
    BY <2>1, ConsoleLocal
<1>2. KeepsWorker(w) /\ pc'[w] = pc[w] /\ pc'[Main] = pc[Main]
  BY <1>0, <1>1, ConsoleLocal DEF KeepsWorker, Local
<1>3. /\ Began(w) /\ Fresh(w) /\ NetworkIsDone(w) /\ AsRequested(w) /\ SendsLast(w)
      /\ FoundNone(w) /\ SaysOutOfWork(w) /\ LeavesNothing(w)
  BY DEF DrainInv
<1>4. /\ pc'[Console] # "console"
      /\ terminateV' = terminateV \/ terminateV = "Off"
  <2>1. CASE TerminateEngine
    BY <1>0, <1>3, <2>1 DEF TerminateEngine, AsRequested, Goto
  <2>2. CASE NotifyWorkers(Console)
    BY <1>0, <2>2 DEF NotifyWorkers, TakeReady, WakeOne, PutReady, Goto, flagVars
  <2> QED
    BY <2>1, <2>2 DEF ConsoleStep
<1>5. /\ (Closed' <=> Closed) /\ (Drained(w)' <=> Drained(w)) /\ (NoneQueued' <=> NoneQueued)
      /\ (OnlyLastWords' <=> OnlyLastWords) /\ (\A s : SaysLast(s)' <=> SaysLast(s))
  BY <1>1, <1>2 DEF Closed, Drained, NoneQueued, OnlyLastWords, SaysLast, KeepsWorker
<1>6. Calm' => Calm
  BY <1>4 DEF Calm
<1>7. Began(w)' /\ Fresh(w)' /\ SendsLast(w)' /\ NetworkIsDone(w)'
  BY <1>1, <1>2, <1>3, <1>5
  DEF Began, Beginning, Fresh, NetworkIsDone, SendsLast, KeepsWorker, Finalizing
<1>8. AsRequested(w)'
  BY <1>2, <1>3, <1>4 DEF AsRequested, KeepsWorker
<1>9. FoundNone(w)' /\ SaysOutOfWork(w)'
  BY <1>1, <1>2, <1>3, <1>5, <1>6 DEF FoundNone, SaysOutOfWork, KeepsWorker
<1>10. LeavesNothing(w)'
  BY <1>1, <1>2, <1>3, <1>5, <1>6 DEF LeavesNothing, KeepsWorker, Finalizing
<1> QED
  BY <1>7, <1>8, <1>9, <1>10

-----------------------------------------------------------------------------
(***************************************************************************)
(* The worker.                                                             *)
(***************************************************************************)

\* What a step of the worker leaves alone in the others.
LEMMA WorkerKeeps ==
  ASSUME TypeOK, NEW w \in Workers, WorkerStep(w)
  PROVE  /\ pc'[Main] = pc[Main] /\ pc'[Console] = pc[Console]
         /\ \A l \in Listeners : pc'[l] = pc[l] /\ out'[l] = out[l]
         /\ out'[Main] = out[Main]
         /\ terminateV' = terminateV /\ open' \subseteq open
         /\ ~ CleanupEngine(w) => open' = open
<1>1. /\ Main \in Threads \ {w} /\ Console \in Threads \ {w}
      /\ \A l \in Listeners : l \in Threads \ {w} /\ l \in Senders \ {w}
      /\ Main \in Senders \ {w}
  BY ThreadAssumption DEF Threads, Senders
<1>2. open' \subseteq open /\ (~ CleanupEngine(w) => open' = open)
  BY DEF WorkerStep, Send, Enqueue, ClearOutOfWork, IsEmptyMVar, TakeMap, PutMap,
     NotifyMessage, NotifyWorkers, TakeReady, WakeOne, PutReady, IncLive, IncAwake, Dequeue,
     DequeueNothing, Processed, Crash, ReadTerminate, ReadNetwork, ReadOutOfWork, DecAwake,
     ReadQueued, ReadAwake, SetOutOfWork, WaitForMessage, ReadSV, Wakeup, DieWithError,
     DecLive, ReadLive, Finalized, CleanupEngine, CloseEndpoint, Signal, netVars
<1> QED
  BY <1>1, <1>2, WorkerLocal DEF Local

\* Taking a message starts its handler.
LEMMA TakesMessage ==
  ASSUME TypeOK, NEW w \in Workers, Dequeue(w)
  PROVE  current'[w] # NoMsg /\ pc[w] = "dequeue" /\ pc'[w] = "send" /\ waitV' = waitV
<1>0. w \in Threads /\ NoMsg \notin Msgs
      /\ current \in [Workers -> Msgs \cup {NoMsg}] /\ pc \in [Threads -> PCs]
  BY MessageAssumption DEF Threads, TypeOK, ControlOK, DataOK
<1>1. PICK i \in DOMAIN Group[w] :
        /\ queue[Group[w][i]] # <<>>
        /\ current' = [current EXCEPT ![w] = Head(queue[Group[w][i]])]
  BY DEF Dequeue
<1>2. Group[w][i] \in Queues
  BY QueueAssumption
<1>3. current'[w] # NoMsg
  BY <1>0, <1>1, <1>2 DEF TypeOK, DataOK
<1> QED
  BY <1>0, <1>3 DEF Dequeue, Goto, flagVars

\* A drained worker stays drained until it takes a last word.
LEMMA StaysDrained ==
  ASSUME TypeOK, NEW w \in Workers, WorkerStep(w), SendsLast(w), Drained(w), ~ Dequeue(w)
  PROVE  Drained(w)'
<1>1. Closed'
  BY WorkerKeeps DEF Drained, Closed, SaysLast
<1>2. ~ Processed(w) /\ ~ Crash(w)
  BY DEF Processed, Crash, Drained
<1>3. CASE Send(w)
  <2>1. w \in Senders /\ SaysLast(w) /\ OnlyLastWords
    BY DEF Senders, SendsLast, Drained
  <2>2. OnlyLastWords' /\ current' = current
    BY <1>3, <2>1, SendLast
  <2> QED
    BY <1>1, <2>2 DEF Drained
<1>4. CASE ~ Send(w)
  <2>1. UNCHANGED <<queue, current>>
    BY <1>2, <1>4 DEF WorkerStep, NotifyWorkers, TakeReady, WakeOne, PutReady, IncLive,
       IncAwake, DequeueNothing, ReadTerminate, ReadNetwork, ReadOutOfWork, DecAwake,
       ReadQueued, ReadAwake, SetOutOfWork, WaitForMessage, ReadSV, Wakeup, DieWithError,
       DecLive, ReadLive, Finalized, CleanupEngine, Signal, queueVars, localVars
  <2> QED
    BY <1>1, <2>1 DEF Drained, OnlyLastWords
<1> QED
  BY <1>3, <1>4

\* Outside a handler the worker sends what finalization and closing leave it.
LEMMA WorkerSends ==
  ASSUME TypeOK, NEW w \in Workers, SendsLast(w), WorkerStep(w)
  PROVE  SendsLast(w)'
<1>0. /\ w \in Senders
      /\ current \in [Workers -> Msgs \cup {NoMsg}] /\ out \in [Senders -> Seq(Msgs)]
  BY DEF Senders, TypeOK, DataOK
<1>1. CASE Send(w)
  BY <1>0, <1>1, SendLast DEF SendsLast
<1>2. CASE Dequeue(w)
  BY <1>2, TakesMessage DEF SendsLast
<1>3. CASE Processed(w) \/ Crash(w)
  <2>1. out'[w] = <<>>
    BY <1>0, <1>3 DEF Processed, Crash
  <2> QED
    BY <2>1, NothingToSend DEF SendsLast
<1>4. CASE ReadLive(w)
  <2>1. ASSUME NEW ms \in FinalSends, out' = [out EXCEPT ![w] = ms] PROVE SaysLast(w)'
    <3>1. ms \in Seq(Msgs)
      BY MessageAssumption
    <3>2. ms \in Seq(LastWords)
      BY <3>1, LastLists
    <3> QED
      BY <1>0, <2>1, <3>2 DEF SaysLast
  <2>2. current' = current
    BY <1>4 DEF ReadLive
  <2>3. CASE out' = out
    BY <2>2, <2>3 DEF SendsLast, SaysLast
  <2> QED
    BY <1>4, <2>1, <2>3 DEF ReadLive, SendsLast
<1>5. CASE CleanupEngine(w)
  <2>1. current' = current /\ open \subseteq Listeners
    BY <1>5 DEF CleanupEngine, TypeOK, DataOK
  <2>2. CASE out' = out
    BY <2>1, <2>2 DEF SendsLast, SaysLast
  <2>3. CASE out' # out
    <3>1. PICK l \in Listeners : CloseEndpoint(w, l)
      BY <1>5, <2>1, <2>3 DEF CleanupEngine
    <3> QED
      BY <1>0, <3>1, CloseLast DEF SendsLast
  <2> QED
    BY <2>2, <2>3
<1>6. CASE ~ (\/ Send(w) \/ Dequeue(w) \/ Processed(w) \/ Crash(w) \/ ReadLive(w)
              \/ CleanupEngine(w))
  <2>1. UNCHANGED <<current, out>>
    BY <1>6 DEF WorkerStep, NotifyWorkers, TakeReady, WakeOne, PutReady, IncLive, IncAwake,
       DequeueNothing, ReadTerminate, ReadNetwork, ReadOutOfWork, DecAwake, ReadQueued,
       ReadAwake, SetOutOfWork, WaitForMessage, ReadSV, Wakeup, DieWithError, DecLive,
       Finalized, Signal, localVars
  <2> QED
    BY <2>1 DEF SendsLast, SaysLast
<1> QED
  BY <1>1, <1>2, <1>3, <1>4, <1>5, <1>6

\* How a step of the worker changes what it has read.
LEMMA WorkerSees ==
  ASSUME TypeOK, NEW w \in Workers, WorkerStep(w)
  PROVE  \/ UNCHANGED seen
         \/ ~ seen'[w].none /\ ~ seen'[w].net /\ seen'[w].term = "Off"
            /\ (pc'[w] = "readTerminate" /\ \/ DequeueNothing(w)
                                            \/ DecAwake(w)
                                            \/ seen'[w].check = "afterOne")
         \/ ReadTerminate(w) /\ seen'[w].net = seen[w].net /\ seen'[w].none = seen[w].none
            /\ seen'[w].term = terminateV /\ seen'[w].check = seen[w].check
         \/ ReadNetwork(w) /\ seen'[w].net = (open = {}) /\ seen'[w].none = seen[w].none
            /\ seen'[w].term = seen[w].term /\ seen'[w].check = seen[w].check
         \/ ReadQueued(w) /\ seen'[w].net = seen[w].net /\ seen'[w].none = NoneQueued
            /\ seen'[w].term = seen[w].term /\ seen'[w].check = seen[w].check
<1>0. w \in Threads /\ pc \in [Threads -> PCs] /\ seen \in [Workers -> Seen]
  BY DEF Threads, TypeOK, ControlOK, DataOK
<1>1. CASE ReadTerminate(w) \/ ReadNetwork(w) \/ ReadQueued(w)
  BY <1>0, <1>1 DEF ReadTerminate, ReadNetwork, ReadQueued, Seen
<1>2. CASE IncAwake(w) \/ Processed(w)
  BY <1>0, <1>2 DEF IncAwake, Processed, Nothing, Goto
<1>3. CASE DequeueNothing(w) \/ DecAwake(w)
  BY <1>0, <1>3 DEF DequeueNothing, DecAwake, Nothing, Goto
<1>4. CASE ~ (\/ ReadTerminate(w) \/ ReadNetwork(w) \/ ReadQueued(w) \/ IncAwake(w)
              \/ Processed(w) \/ DequeueNothing(w) \/ DecAwake(w))
  BY <1>4 DEF WorkerStep, Send, Enqueue, ClearOutOfWork, IsEmptyMVar, TakeMap, PutMap,
     NotifyMessage, NotifyWorkers, TakeReady, WakeOne, PutReady, IncLive, Dequeue, Crash,
     ReadOutOfWork, ReadAwake, SetOutOfWork, WaitForMessage, ReadSV, Wakeup, DieWithError,
     DecLive, ReadLive, Finalized, CleanupEngine, CloseEndpoint, Signal, localVars
<1> QED
  BY <1>1, <1>2, <1>3, <1>4

\* The worker finalizes until it goes on to close the endpoints.
LEMMA FinalizingStep ==
  ASSUME TypeOK, NEW w \in Workers, WorkerStep(w), Finalizing(w)
  PROVE  \/ Finalizing(w)' /\ Send(w)
         \/ pc'[w] = "cleanupEngine"
<1>0. w \in Threads /\ pc \in [Threads -> PCs]
  BY DEF Threads, TypeOK, ControlOK
<1>1. CASE Send(w)
  <2>1. pc'[w] \in Sending /\ current' = current
    BY <1>0, <1>1 DEF Send, Enqueue, ClearOutOfWork, IsEmptyMVar, TakeMap, PutMap,
       NotifyMessage, Goto, Sending, Posting, localVars
  <2> QED
    BY <1>1, <2>1 DEF Finalizing
<1>2. CASE ~ Send(w)
  <2>1. Finalized(w)
    BY <1>2 DEF WorkerStep, NotifyWorkers, TakeReady, WakeOne, PutReady, IncLive, IncAwake,
       Dequeue, DequeueNothing, Processed, Crash, ReadTerminate, ReadNetwork,
       ReadOutOfWork, DecAwake, ReadQueued, ReadAwake, SetOutOfWork, WaitForMessage,
       ReadSV, Wakeup, DieWithError, DecLive, ReadLive, CleanupEngine, Signal, Finalizing,
       Sending, Posting
  <2> QED
    BY <1>0, <2>1 DEF Finalized, Goto
<1> QED
  BY <1>1, <1>2

\* The parts of the invariant that are not about the queues.
LEMMA WorkerElsewhere ==
  ASSUME TypeOK, Idle, NEW w \in Workers, WorkerStep(w),
         Began(w), Fresh(w), NetworkIsDone(w), AsRequested(w)
  PROVE  Began(w)' /\ Fresh(w)' /\ NetworkIsDone(w)' /\ AsRequested(w)'
<1>0. w \in Threads /\ pc \in [Threads -> PCs] /\ seen \in [Workers -> Seen]
  BY DEF Threads, TypeOK, ControlOK, DataOK
<1>1. pc[w] # "unborn" /\ pc[w] # "dead"
  BY DEF WorkerStep, Send, Enqueue, ClearOutOfWork, IsEmptyMVar, TakeMap, PutMap,
     NotifyMessage, NotifyWorkers, TakeReady, WakeOne, PutReady, IncLive, IncAwake, Dequeue,
     DequeueNothing, Processed, Crash, ReadTerminate, ReadNetwork, ReadOutOfWork, DecAwake,
     ReadQueued, ReadAwake, SetOutOfWork, WaitForMessage, ReadSV, Wakeup, DieWithError,
     DecLive, ReadLive, Finalized, CleanupEngine, CloseEndpoint, Signal
<1>2. Began(w)'
  BY <1>1, WorkerKeeps DEF Began, Beginning
<1>3. pc'[w] \notin {"unborn", "incLive", "incAwake"} \/ (IncLive(w) /\ UNCHANGED outOfWorkV)
  <2>1. CASE Send(w) \/ NotifyWorkers(w)
    <3>1. pc'[w] \in Sending \cup {"waking", "done", "waitForMessage"}
      BY <1>0, <2>1 DEF Send, Enqueue, ClearOutOfWork, IsEmptyMVar, TakeMap, PutMap,
         NotifyMessage, NotifyWorkers, TakeReady, WakeOne, PutReady, Goto, Sending, Posting
    <3> QED
      BY <3>1 DEF Sending, Posting
  <2>2. CASE ~ (Send(w) \/ NotifyWorkers(w))
    BY <1>0, <2>2 DEF WorkerStep, IncLive, IncAwake, Dequeue,
       DequeueNothing, Processed, Crash, ReadTerminate, ReadNetwork, ReadOutOfWork, DecAwake,
       ReadQueued, ReadAwake, SetOutOfWork, WaitForMessage, ReadSV, Wakeup, DieWithError,
       DecLive, ReadLive, Finalized, CleanupEngine, CloseEndpoint, Signal, Goto, localVars, flagVars
  <2> QED
    BY <2>1, <2>2
<1>4. Fresh(w)'
  BY <1>3 DEF Fresh, IncLive
<1>5. AsRequested(w)'
  BY WorkerSees, WorkerKeeps DEF AsRequested
<1>6. Closed => Closed'
  BY WorkerKeeps DEF Closed, SaysLast
<1>7. \A l \in Listeners : SaysLast(l)' <=> SaysLast(l)
  BY WorkerKeeps DEF SaysLast
<1>8. \/ Finalizing(w)' \/ pc'[w] \in {"cleanupEngine", "signal", "dead"}
      \/ \A l \in Listeners \ open' : SaysLast(l)'
  <2>1. CASE CleanupEngine(w)
    <3>1. current[w] = NoMsg /\ current' = current /\ pc'[w] \in {"signal", "send"}
      BY <1>0, <2>1 DEF CleanupEngine, CloseEndpoint, Goto, Idle, Sending, Posting
    <3> QED
      BY <3>1 DEF Finalizing, Sending
  <2>2. CASE Finalizing(w) /\ ~ CleanupEngine(w)
    BY <1>0, <2>2, FinalizingStep DEF Finalizing
  <2>3. CASE pc[w] = "signal"
    <3>1. Signal(w)
      BY <2>3 DEF WorkerStep, Send, Enqueue, ClearOutOfWork, IsEmptyMVar, TakeMap, PutMap,
         NotifyMessage, NotifyWorkers, TakeReady, WakeOne, PutReady, IncLive, IncAwake,
         Dequeue, DequeueNothing, Processed, Crash, ReadTerminate, ReadNetwork,
         ReadOutOfWork, DecAwake, ReadQueued, ReadAwake, SetOutOfWork, WaitForMessage,
         ReadSV, Wakeup, DieWithError, DecLive, ReadLive, Finalized, CleanupEngine
    <3> QED
      BY <1>0, <3>1 DEF Signal, Goto
  <2>4. CASE ~ CleanupEngine(w) /\ ~ Finalizing(w) /\ pc[w] # "signal"
    <3>1. pc[w] # "cleanupEngine"
      BY <2>4 DEF WorkerStep, Send, Enqueue, ClearOutOfWork, IsEmptyMVar, TakeMap, PutMap,
         NotifyMessage, NotifyWorkers, TakeReady, WakeOne, PutReady, IncLive, IncAwake,
         Dequeue, DequeueNothing, Processed, Crash, ReadTerminate, ReadNetwork,
         ReadOutOfWork, DecAwake, ReadQueued, ReadAwake, SetOutOfWork, WaitForMessage,
         ReadSV, Wakeup, DieWithError, DecLive, ReadLive, Finalized, Signal
    <3>2. \A l \in Listeners \ open : SaysLast(l)
      BY <1>1, <2>4, <3>1 DEF NetworkIsDone
    <3> QED
      BY <1>7, <2>4, <3>2, WorkerKeeps
  <2> QED
    BY <2>1, <2>2, <2>3, <2>4
<1>9. seen'[w].net => Closed'
  <2>1. CASE ReadNetwork(w)
    <3>1. \A l \in Listeners \ open : SaysLast(l)
      BY <2>1 DEF ReadNetwork, NetworkIsDone, Finalizing, Sending, Posting
    <3>2. seen'[w].net = (open = {})
      BY <1>0, <2>1 DEF ReadNetwork, Seen
    <3> QED
      BY <1>6, <3>1, <3>2 DEF Closed
  <2>2. CASE ~ ReadNetwork(w)
    BY <1>6, <2>2, WorkerSees DEF NetworkIsDone
  <2> QED
    BY <2>1, <2>2
<1> QED
  BY <1>2, <1>4, <1>5, <1>8, <1>9 DEF NetworkIsDone

\* The only way to setOutOfWork.
LEMMA ComesFromReadAwake ==
  ASSUME TypeOK, NEW w \in Workers, WorkerStep(w), pc'[w] = "setOutOfWork"
  PROVE  ReadAwake(w)
<1>0. w \in Threads /\ pc \in [Threads -> PCs]
  BY DEF Threads, TypeOK, ControlOK
<1>1. CASE Send(w) \/ NotifyWorkers(w)
  <2>1. pc'[w] \in Sending \cup {"waking", "done", "waitForMessage", "notifyWorkers"}
    BY <1>0, <1>1 DEF Send, Enqueue, ClearOutOfWork, IsEmptyMVar, TakeMap, PutMap,
       NotifyMessage, NotifyWorkers, TakeReady, WakeOne, PutReady, Goto, Sending, Posting
  <2> QED
    BY <2>1 DEF Sending, Posting
<1>2. CASE ~ (Send(w) \/ NotifyWorkers(w))
  BY <1>0, <1>2 DEF WorkerStep, IncLive, IncAwake, Dequeue, DequeueNothing,
     Processed, Crash, ReadTerminate, ReadNetwork, ReadOutOfWork, DecAwake, ReadQueued,
     SetOutOfWork, WaitForMessage, ReadSV, Wakeup, DieWithError, DecLive, ReadLive,
     Finalized, CleanupEngine, CloseEndpoint, Signal, Goto
<1> QED
  BY <1>1, <1>2

\* With one worker, its group is every queue.
LEMMA OwnGroup ==
  ASSUME OneWorker, NEW w \in Workers, \A q \in Managed(w) : queue[q] = <<>>
  PROVE  NoneQueued
BY QueueAssumption DEF OneWorker, NoneQueued

\* What the worker reads of its queues is still true at its next step, since
\* nobody else may add a message.
LEMMA WorkerFinds ==
  ASSUME TypeOK, Idle, OneWorker, NEW w \in Workers, WorkerStep(w),
         NetworkIsDone(w), SendsLast(w), FoundNone(w)
  PROVE  FoundNone(w)'
<1>0. /\ w \in Threads /\ pc \in [Threads -> PCs] /\ seen \in [Workers -> Seen]
      /\ open \subseteq Listeners
  BY DEF Threads, TypeOK, ControlOK, DataOK
<1>1. pc'[w] = "readAwake" => ReadQueued(w)
  <2>1. CASE Send(w) \/ NotifyWorkers(w)
    <3>1. pc'[w] \in Sending \cup {"waking", "done", "waitForMessage"}
      BY <1>0, <2>1 DEF Send, Enqueue, ClearOutOfWork, IsEmptyMVar, TakeMap, PutMap,
         NotifyMessage, NotifyWorkers, TakeReady, WakeOne, PutReady, Goto, Sending, Posting
    <3> QED
      BY <3>1 DEF Sending, Posting
  <2>2. CASE ~ (Send(w) \/ NotifyWorkers(w))
    BY <1>0, <2>2 DEF WorkerStep, IncLive, IncAwake, Dequeue, DequeueNothing,
       Processed, Crash, ReadTerminate, ReadNetwork, ReadOutOfWork, DecAwake, ReadAwake,
       SetOutOfWork, WaitForMessage, ReadSV, Wakeup, DieWithError, DecLive, ReadLive,
       Finalized, CleanupEngine, CloseEndpoint, Signal, Goto
  <2> QED
    BY <2>1, <2>2
<1>2. ASSUME pc'[w] \in {"readAwake", "setOutOfWork"},
             seen'[w].none, seen'[w].net \/ Listeners = {}
      PROVE  Drained(w)'
  <2>1. CASE ReadQueued(w)
    <3>1. NoneQueued /\ (seen[w].net \/ Listeners = {})
      BY <1>0, <1>2, <2>1 DEF ReadQueued, Seen
    <3>2. Closed /\ OnlyLastWords
      BY <1>0, <3>1, NothingIsLast DEF NetworkIsDone, Closed
    <3>3. current[w] = NoMsg /\ ~ Dequeue(w)
      BY <2>1 DEF ReadQueued, Idle, Sending, Posting, Dequeue
    <3>4. Drained(w)
      BY <3>2, <3>3 DEF Drained
    <3> QED
      BY <3>3, <3>4, StaysDrained
  <2>2. CASE ReadAwake(w)
    <3>1. pc[w] = "readAwake" /\ ~ Dequeue(w) /\ seen' = seen
      BY <2>2 DEF ReadAwake, Dequeue, localVars
    <3>2. Drained(w)
      BY <1>2, <3>1 DEF FoundNone
    <3> QED
      BY <3>1, <3>2, StaysDrained
  <2> QED
    BY <1>1, <1>2, <2>1, <2>2, ComesFromReadAwake
<1>3. ASSUME Listeners = {},
             \/ pc'[w] = "decAwake"
             \/ /\ pc'[w] \in {"readTerminate", "readNetwork", "readOutOfWork"}
                /\ seen'[w].check # "afterOne"
      PROVE  NoneQueued'
  <2>1. CASE DequeueNothing(w)
    <3>1. NoneQueued
      BY <2>1, OwnGroup DEF DequeueNothing
    <3> QED
      BY <2>1, <3>1 DEF DequeueNothing, NoneQueued, queueVars
  <2>2. CASE ReadTerminate(w) \/ ReadNetwork(w) \/ ReadOutOfWork(w) \/ DecAwake(w)
    <3>1. queue' = queue
      BY <2>2 DEF ReadTerminate, ReadNetwork, ReadOutOfWork, DecAwake, queueVars
    <3>2. \/ pc[w] = "decAwake"
          \/ /\ pc[w] \in {"readTerminate", "readNetwork", "readOutOfWork"}
             /\ seen[w].check # "afterOne"
      BY <1>0, <1>3, <2>2 DEF ReadTerminate, ReadNetwork, ReadOutOfWork, DecAwake, Goto,
         Seen, localVars
    <3> QED
      BY <1>3, <3>1, <3>2 DEF FoundNone, NoneQueued
  <2>3. CASE ~ (\/ DequeueNothing(w) \/ ReadTerminate(w) \/ ReadNetwork(w)
                \/ ReadOutOfWork(w) \/ DecAwake(w))
    <3>1. CASE Send(w) \/ NotifyWorkers(w)
      <4>1. pc'[w] \in Sending \cup {"waking", "done", "waitForMessage"}
        BY <1>0, <3>1 DEF Send, Enqueue, ClearOutOfWork, IsEmptyMVar, TakeMap, PutMap,
           NotifyMessage, NotifyWorkers, TakeReady, WakeOne, PutReady, Goto, Sending, Posting
      <4> QED
        BY <1>3, <4>1 DEF Sending, Posting
    <3>2. CASE ~ (Send(w) \/ NotifyWorkers(w))
      BY <1>0, <1>3, <2>3, <3>2 DEF WorkerStep, IncLive, IncAwake, Dequeue,
         Processed, Crash, ReadQueued, ReadAwake, SetOutOfWork,
         WaitForMessage, ReadSV, Wakeup, DieWithError, DecLive, ReadLive, Finalized,
         CleanupEngine, CloseEndpoint, Signal, Goto, Nothing
    <3> QED
      BY <3>1, <3>2
  <2> QED
    BY <2>1, <2>2, <2>3
<1> QED
  BY <1>2, <1>3 DEF FoundNone

\* The worker tells the others to stop only when it has found the engine
\* drained, or because of a request that allows it.
LEMMA WorkerSays ==
  ASSUME TypeOK, NEW w \in Workers, WorkerStep(w),
         AsRequested(w), SendsLast(w), FoundNone(w), SaysOutOfWork(w)
  PROVE  SaysOutOfWork(w)'
<1>0. w \in Threads /\ pc \in [Threads -> PCs]
  BY DEF Threads, TypeOK, ControlOK
<1>1. pc'[w] = "setOutOfWork" => ReadAwake(w)
  BY ComesFromReadAwake
<1>2. ASSUME pc'[w] = "setOutOfWork"
      PROVE  seen'[w].none /\ (seen'[w].net \/ seen'[w].term # "Off")
  BY <1>0, <1>1, <1>2 DEF ReadAwake, IsShutdownTime, isAnyTerminate, Goto, localVars
<1>3. ASSUME outOfWorkV', Calm'
      PROVE  Closed' /\ (OnlyLastWords' \/ pc'[w] = "clearOutOfWork")
  <2>1. Calm
    BY <1>3, WorkerKeeps DEF Calm
  <2>2. CASE SetOutOfWork(w)
    <3>1. Drained(w) /\ ~ Dequeue(w)
      BY <2>1, <2>2
      DEF SetOutOfWork, SaysOutOfWork, AsRequested, Calm, FoundNone, Dequeue
    <3> QED
      BY <3>1, StaysDrained DEF Drained
  <2>3. CASE ~ SetOutOfWork(w)
    <3>1. outOfWorkV /\ ~ ClearOutOfWork(w)
      BY <1>3, <2>3 DEF WorkerStep, Send, Enqueue, ClearOutOfWork, IsEmptyMVar, TakeMap,
         PutMap, NotifyMessage, NotifyWorkers, TakeReady, WakeOne, PutReady, IncLive,
         IncAwake, Dequeue, DequeueNothing, Processed, Crash, ReadTerminate, ReadNetwork,
         ReadOutOfWork, DecAwake, ReadQueued, ReadAwake, WaitForMessage, ReadSV, Wakeup,
         DieWithError, DecLive, ReadLive, Finalized, CleanupEngine, Signal, flagVars
    <3>2. pc[w] # "clearOutOfWork"
      BY <3>1 DEF WorkerStep, Send, Enqueue, IsEmptyMVar, TakeMap,
         PutMap, NotifyMessage, NotifyWorkers, TakeReady, WakeOne, PutReady, IncLive,
         IncAwake, Dequeue, DequeueNothing, Processed, Crash, ReadTerminate, ReadNetwork,
         ReadOutOfWork, DecAwake, ReadQueued, ReadAwake, SetOutOfWork, WaitForMessage,
         ReadSV, Wakeup, DieWithError, DecLive, ReadLive, Finalized, CleanupEngine, Signal
    <3>3. Closed /\ OnlyLastWords
      BY <2>1, <3>1, <3>2 DEF SaysOutOfWork
    <3>4. Closed'
      BY <3>3, WorkerKeeps DEF Closed, SaysLast
    <3>5. CASE Enqueue(w)
      BY <1>0, <3>4, <3>5 DEF Enqueue, Goto
    <3>6. CASE Dequeue(w)
      <4>1. PICK i \in DOMAIN Group[w] :
              /\ queue[Group[w][i]] # <<>>
              /\ queue' = [queue EXCEPT ![Group[w][i]] = Tail(@)]
        BY <3>6 DEF Dequeue
      <4>2. PICK q \in Queues : q = Group[w][i]
        BY QueueAssumption
      <4>3. queue[q] \in Seq(LastWords) /\ queue[q] # <<>>
        BY <3>3, <4>1, <4>2 DEF OnlyLastWords
      <4>4. Tail(queue[q]) \in Seq(LastWords)
        BY <4>3, ShorterList
      <4>5. queue' = [queue EXCEPT ![q] = Tail(queue[q])]
        BY <4>1, <4>2
      <4> QED
        BY <3>3, <3>4, <4>4, <4>5 DEF OnlyLastWords, TypeOK, DataOK
    <3>7. CASE ~ Enqueue(w) /\ ~ Dequeue(w)
      <4>1. queue' = queue
        BY <3>7 DEF WorkerStep, Send, ClearOutOfWork, IsEmptyMVar, TakeMap,
           PutMap, NotifyMessage, NotifyWorkers, TakeReady, WakeOne, PutReady, IncLive,
           IncAwake, DequeueNothing, Processed, Crash, ReadTerminate, ReadNetwork,
           ReadOutOfWork, DecAwake, ReadQueued, ReadAwake, SetOutOfWork, WaitForMessage,
           ReadSV, Wakeup, DieWithError, DecLive, ReadLive, Finalized, CleanupEngine,
           Signal, queueVars
      <4> QED
        BY <3>3, <3>4, <4>1 DEF OnlyLastWords
    <3> QED
      BY <3>5, <3>6, <3>7
  <2> QED
    BY <2>2, <2>3
<1> QED
  BY <1>2, <1>3 DEF SaysOutOfWork

\* A worker that leaves the loop calmly leaves nothing behind.
LEMMA WorkerLeaves ==
  ASSUME TypeOK, Idle, NEW w \in Workers, WorkerStep(w), AsRequested(w),
         NetworkIsDone(w), SendsLast(w), FoundNone(w), SaysOutOfWork(w), LeavesNothing(w)
  PROVE  LeavesNothing(w)'
<1>0. /\ w \in Threads /\ w \in Senders /\ pc \in [Threads -> PCs] /\ seen \in [Workers -> Seen]
      /\ open \subseteq Listeners /\ terminateV \in Terminate
      /\ current \in [Workers -> Msgs \cup {NoMsg}] /\ NoMsg \notin Msgs
  BY MessageAssumption DEF Threads, Senders, TypeOK, ControlOK, DataOK
<1> DEFINE Leaving == \/ Finalizing(w) \/ waitV
                      \/ pc[w] \in {"decLive", "readLive", "cleanupEngine", "signal"}
<1> DEFINE LeavingNow == \/ Finalizing(w)' \/ waitV'
                         \/ pc'[w] \in {"decLive", "readLive", "cleanupEngine", "signal"}
<1>1. ~ waitV /\ (waitV' => Signal(w) /\ pc'[w] = "dead")
  <2>1. pc[w] # "dead"
    BY DEF WorkerStep, Send, Enqueue, ClearOutOfWork, IsEmptyMVar, TakeMap, PutMap,
       NotifyMessage, NotifyWorkers, TakeReady, WakeOne, PutReady, IncLive, IncAwake,
       Dequeue, DequeueNothing, Processed, Crash, ReadTerminate, ReadNetwork,
       ReadOutOfWork, DecAwake, ReadQueued, ReadAwake, SetOutOfWork, WaitForMessage,
       ReadSV, Wakeup, DieWithError, DecLive, ReadLive, Finalized, CleanupEngine, CloseEndpoint, Signal
  <2>2. ~ waitV
    BY <2>1 DEF LeavesNothing
  <2>3. waitV' => Signal(w)
    BY <2>2 DEF WorkerStep, Send, Enqueue, ClearOutOfWork, IsEmptyMVar, TakeMap, PutMap,
       NotifyMessage, NotifyWorkers, TakeReady, WakeOne, PutReady, IncLive, IncAwake,
       Dequeue, DequeueNothing, Processed, Crash, ReadTerminate, ReadNetwork,
       ReadOutOfWork, DecAwake, ReadQueued, ReadAwake, SetOutOfWork, WaitForMessage,
       ReadSV, Wakeup, DieWithError, DecLive, ReadLive, Finalized, CleanupEngine, CloseEndpoint, flagVars
  <2> QED
    BY <1>0, <2>2, <2>3 DEF Signal, Goto
<1>2. ASSUME LeavingNow, ~ ReadOutOfWork(w) PROVE Leaving
  <2>1. CASE waitV'
    BY <1>1, <2>1 DEF Signal
  <2>2. CASE Send(w)
    <3>1. pc[w] \in Sending /\ pc'[w] \in Sending /\ UNCHANGED <<current, waitV>>
      BY <1>0, <2>2 DEF Send, Enqueue, ClearOutOfWork, IsEmptyMVar, TakeMap, PutMap,
         NotifyMessage, Goto, Sending, Posting, localVars, flagVars
    <3> QED
      BY <1>1, <1>2, <3>1 DEF Finalizing, Sending, Posting
  <2>3. CASE NotifyWorkers(w)
    <3>1. pc'[w] \in {"waking", "done", "waitForMessage"} /\ UNCHANGED waitV
      BY <1>0, <2>3 DEF NotifyWorkers, TakeReady, WakeOne, PutReady, Goto, flagVars
    <3> QED
      BY <1>1, <1>2, <3>1 DEF Finalizing, Sending, Posting
  <2>4. CASE Dequeue(w)
    BY <1>1, <1>2, <2>4, TakesMessage DEF Finalizing
  <2>5. CASE ~ (waitV' \/ Send(w) \/ NotifyWorkers(w) \/ Dequeue(w))
    BY <1>0, <1>2, <2>5 DEF WorkerStep, IncLive, IncAwake,
       DequeueNothing, Processed, Crash, ReadTerminate, ReadNetwork,
       ReadOutOfWork, DecAwake, ReadQueued, ReadAwake, SetOutOfWork, WaitForMessage,
       ReadSV, Wakeup, DieWithError, DecLive, ReadLive, Finalized, CleanupEngine, CloseEndpoint, Signal,
       Goto, Finalizing, Sending, Posting
  <2> QED
    BY <2>1, <2>2, <2>3, <2>4, <2>5
<1>3. ASSUME LeavingNow, ReadOutOfWork(w), Calm PROVE Drained(w)
  <2>1. Stops(w)
    BY <1>0, <1>1, <1>3 DEF ReadOutOfWork, Goto, Finalizing, Sending, Posting, Signal
  <2>2. CASE outOfWorkV
    BY <1>3, <2>2 DEF SaysOutOfWork, Drained, ReadOutOfWork, Idle, Sending, Posting
  <2>3. CASE ~ outOfWorkV
    <3>1. seen[w].check # "afterOne" /\ seen[w].term # "Off" /\ Listeners = {}
      BY <1>3, <2>1, <2>3 DEF Stops, waitForNetwork, isFinishOne, isAnyTerminate, AsRequested,
         Calm
    <3>2. NoneQueued
      BY <1>3, <3>1 DEF ReadOutOfWork, FoundNone
    <3>3. Closed
      BY <1>0, <3>1 DEF Closed
    <3>4. current[w] = NoMsg
      BY <1>3 DEF ReadOutOfWork, Idle, Sending, Posting
    <3> QED
      BY <3>2, <3>3, <3>4, NothingIsLast DEF Drained
  <2> QED
    BY <2>2, <2>3
<1>4. ASSUME LeavingNow, Calm' PROVE Drained(w)'
  <2>1. Calm
    BY <1>4, WorkerKeeps DEF Calm
  <2>2. Drained(w)
    BY <1>2, <1>3, <1>4, <2>1 DEF LeavesNothing
  <2>3. ~ Dequeue(w)
    BY <1>1, <1>4, TakesMessage DEF Finalizing
  <2> QED
    BY <2>2, <2>3, StaysDrained
<1> QED
  BY <1>1, <1>4 DEF LeavesNothing

-----------------------------------------------------------------------------
(***************************************************************************)
(* The theorems.                                                           *)
(***************************************************************************)

\* DrainInv holds of every engine with one worker.
LEMMA DrainHolds ==
  ASSUME OneWorker
  PROVE  Spec => []DrainInv
<1>1. Init => DrainInv
  <2> SUFFICES ASSUME Init, NEW w \in Workers
               PROVE  /\ Began(w) /\ Fresh(w) /\ NetworkIsDone(w) /\ AsRequested(w)
                      /\ SendsLast(w) /\ FoundNone(w) /\ SaysOutOfWork(w)
                      /\ LeavesNothing(w)
    BY DEF DrainInv
  <2>1. pc[w] = "unborn" /\ Beginning /\ open = Listeners
    BY ThreadAssumption DEF Init, Threads, Beginning
  <2>2. /\ ~ seen[w].none /\ ~ seen[w].net /\ seen[w].term = "Off"
        /\ current[w] = NoMsg /\ out[w] = <<>>
        /\ ~ outOfWorkV /\ ~ waitV /\ terminateV = "Off"
    BY DEF Init, Nothing, Senders
  <2>3. SaysLast(w)
    BY <2>2, NothingIsLast
  <2> QED
    BY <2>1, <2>2, <2>3 DEF Began, Fresh, NetworkIsDone, AsRequested, SendsLast, FoundNone,
       SaysOutOfWork, LeavesNothing, Finalizing, Sending, Posting
<1>2. TypeOK /\ CounterInv /\ DrainInv /\ [Next]_vars => DrainInv'
  <2> SUFFICES ASSUME TypeOK, CounterInv, DrainInv, [Next]_vars, NEW w \in Workers
               PROVE  /\ Began(w)' /\ Fresh(w)' /\ NetworkIsDone(w)' /\ AsRequested(w)'
                      /\ SendsLast(w)' /\ FoundNone(w)' /\ SaysOutOfWork(w)'
                      /\ LeavesNothing(w)'
    BY DEF DrainInv
  <2>1. CASE WorkerStep(w)
    <3>1. /\ Began(w) /\ Fresh(w) /\ NetworkIsDone(w) /\ AsRequested(w) /\ SendsLast(w)
          /\ FoundNone(w) /\ SaysOutOfWork(w) /\ LeavesNothing(w) /\ Idle
      BY DEF DrainInv, CounterInv
    <3>2. Began(w)' /\ Fresh(w)' /\ NetworkIsDone(w)' /\ AsRequested(w)'
      BY <2>1, <3>1, WorkerElsewhere
    <3>3. SendsLast(w)'
      BY <2>1, <3>1, WorkerSends
    <3>4. FoundNone(w)'
      BY <2>1, <3>1, WorkerFinds
    <3>5. SaysOutOfWork(w)'
      BY <2>1, <3>1, WorkerSays
    <3>6. LeavesNothing(w)'
      BY <2>1, <3>1, WorkerLeaves
    <3> QED
      BY <3>2, <3>3, <3>4, <3>5, <3>6
  <2>2. CASE MainStep
    BY <2>2, MainDrain
  <2>3. CASE ConsoleStep
    BY <2>3, ConsoleDrain
  <2>4. CASE \E l \in Listeners : ListenerStep(l)
    BY <2>4, ListenerDrain
  <2>5. CASE UNCHANGED vars
    BY <2>5 DEF DrainInv, Began, Beginning, Fresh, NetworkIsDone, AsRequested, SendsLast,
       FoundNone, SaysOutOfWork, LeavesNothing, Finalizing, Drained, Closed, Calm, NoneQueued,
       OnlyLastWords, SaysLast, vars, queueVars, flagVars, netVars, localVars
  <2>6. \A v \in Workers : WorkerStep(v) => WorkerStep(w)
    BY DEF OneWorker
  <2> QED
    BY <2>1, <2>2, <2>3, <2>4, <2>5, <2>6 DEF Next
<1> QED
  BY <1>1, <1>2, TypeCorrect, CountersHold, PTL DEF Spec

\* An engine with one worker that signals its end without having been asked to
\* stop has handled every message that its listeners received and its handlers
\* sent, whenever that was: what may be left are messages of the kinds that
\* finalization and the notifications of closed endpoints send.
THEOREM OneWorkerDrains ==
  ASSUME OneWorker
  PROVE  Spec => []DrainedAtEnd
<1>1. DrainInv => DrainedAtEnd
  BY ThreadAssumption DEF DrainInv, LeavesNothing, Calm, Drained, DrainedAtEnd
<1> QED
  BY <1>1, DrainHolds, PTL

\* FinishAll drains the queues of an engine with one worker and no listeners, but
\* for what finalization sends.
THEOREM OneWorkerFinishesAll ==
  ASSUME OneWorker, Listeners = {}
  PROVE  Spec => []FinishAllDrains
<1>1. DrainInv => FinishAllDrains
  BY ThreadAssumption DEF DrainInv, LeavesNothing, Calm, Drained, FinishAllDrains
<1> QED
  BY <1>1, DrainHolds, PTL

-----------------------------------------------------------------------------
(***************************************************************************)
(* The engine implements Quiescence.  A step either changes none of what   *)
(* the abstract loop sees, or is one of its actions.                       *)
(***************************************************************************)

Retired == [w \in Workers |-> Left(w)]

\* s may still send: it is in Active.
MaySend(s) == s \in open \/ pc[s] = "initialize" \/ ~ SaysLast(s)

\* If the same workers have left and the same sources may send, the abstract
\* loop sees no difference between the two states.
LEMMA SeesNothing ==
  ASSUME \A w \in Workers : Left(w)' <=> Left(w),
         \A s \in Listeners \cup {Main} : MaySend(s)' <=> MaySend(s)
  PROVE  Retired' = Retired /\ Active' = Active
<1>1. Retired' = Retired
  BY DEF Retired, Left, Finalizing
<1>2. Active' = Active
  BY DEF Active, MaySend
<1> QED
  BY <1>1, <1>2

\* One source less.
LEMMA SeesWithdrawal ==
  ASSUME \A w \in Workers : Left(w)' <=> Left(w),
         NEW s \in Listeners \cup {Main}, ~ MaySend(s)',
         \A r \in (Listeners \cup {Main}) \ {s} : MaySend(r)' <=> MaySend(r),
         UNCHANGED <<queue, current, terminateV>>
  PROVE  Abstract!Next
<1>1. Retired' = Retired
  BY DEF Retired, Left, Finalizing
<1>2. Active' = Active \ {s}
  BY DEF Active, MaySend
<1>3. Abstract!Withdraw(s)
  BY <1>1, <1>2 DEF Abstract!Withdraw, Retired
<1> QED
  BY <1>3 DEF Abstract!Next

\* Adding a message is Post: for a source that may send, for a handler, and for
\* those that say last words.
LEMMA SeesPost ==
  ASSUME TypeOK, NEW t \in Senders, Enqueue(t),
         \A w \in Workers : Left(w)' <=> Left(w),
         \A s \in Listeners \cup {Main} : MaySend(s)' <=> MaySend(s),
         Active # {} \/ (\E w \in Workers : current[w] # NoMsg) \/ SaysLast(t)
  PROVE  Abstract!Next
<1>1. Head(out[t]) \in Msgs /\ (SaysLast(t) => Head(out[t]) \in LastWords)
  BY DEF Enqueue, TypeOK, DataOK, SaysLast
<1>2. /\ queue' = [queue EXCEPT ![Route[Head(out[t])]] = Append(@, Head(out[t]))]
      /\ UNCHANGED <<current, terminateV>>
  BY DEF Enqueue, flagVars, localVars
<1>3. Abstract!Post(Head(out[t]))
  BY <1>1, <1>2, SeesNothing DEF Abstract!Post, Retired
<1> QED
  BY <1>1, <1>3 DEF Abstract!Next

\* A step of a source, which sends or comes nearer to its end.
LEMMA SourceImplements ==
  ASSUME TypeOK, NEW s \in Listeners \cup {Main}, NEW t \in Senders,
         \A w \in Workers : Left(w)' <=> Left(w),
         \A r \in (Listeners \cup {Main}) \ {s} : MaySend(r)' <=> MaySend(r),
         UNCHANGED <<current, terminateV>>,
         MaySend(s)' => MaySend(s),
         queue' = queue \/ (t = s /\ Enqueue(t) /\ (MaySend(s)' <=> MaySend(s)))
  PROVE  Abstract!Next \/ UNCHANGED <<queue, current, Retired, Active, terminateV>>
<1>1. CASE queue' = queue /\ ~ MaySend(s)'
  BY <1>1, SeesWithdrawal
<1>2. CASE queue' = queue /\ MaySend(s)'
  BY <1>2, SeesNothing
<1>3. CASE t = s /\ Enqueue(t) /\ (MaySend(s)' <=> MaySend(s))
  <2>1. Active # {} \/ SaysLast(t)
    BY <1>3 DEF Active
  <2> QED
    BY <1>3, <2>1, SeesPost
<1> QED
  BY <1>1, <1>2, <1>3

\* The main thread sends while it runs the initialization, then withdraws.
LEMMA MainImplements ==
  ASSUME TypeOK, MainStep
  PROVE  Abstract!Next \/ UNCHANGED <<queue, current, Retired, Active, terminateV>>
<1>0. /\ Main \in Threads /\ Main \in Senders /\ Main \notin Workers /\ pc \in [Threads -> PCs]
      /\ \A l \in Listeners : l \in Threads \ (Workers \cup {Main}) /\ l \in Senders \ {Main}
      /\ Main \notin open /\ Main \notin Listeners
  BY ThreadAssumption DEF Threads, Senders, TypeOK, ControlOK, DataOK
<1>1. /\ UNCHANGED <<current, open, terminateV>>
      /\ \A l \in Listeners : pc'[l] = pc[l] /\ out'[l] = out[l]
      /\ \A w \in Workers : pc'[w] = pc[w] \/ (pc[w] = "unborn" /\ pc'[w] = "incLive")
  <2>1. UNCHANGED <<current, open>>
    BY DEF MainStep, Initialize, Initialized, ForkWorker, Forked, ConfigWorkerMap,
       ConfigReadyMap, Return, Send, Enqueue, ClearOutOfWork, IsEmptyMVar, TakeMap,
       PutMap, NotifyMessage, localVars, netVars
  <2> QED
    BY <1>0, <2>1, MainLocal
<1>2. \A w \in Workers : Left(w)' <=> Left(w)
  BY <1>1 DEF Left, Finalizing, Sending, Posting
<1>3. \A l \in Listeners : MaySend(l)' <=> MaySend(l)
  BY <1>1 DEF MaySend, SaysLast
<1>4. CASE Initialize
  <2>1. MaySend(Main) /\ queue' = queue
    BY <1>4 DEF Initialize, MaySend, queueVars
  <2> QED
    BY <1>0, <1>1, <1>2, <1>3, <2>1, SourceImplements
<1>5. CASE Send(Main)
  <2>1. pc[Main] # "initialize" /\ pc'[Main] # "initialize"
    BY <1>0, <1>5 DEF Send, Enqueue, ClearOutOfWork, IsEmptyMVar, TakeMap, PutMap,
       NotifyMessage, Goto
  <2>2. MaySend(Main)' => MaySend(Main)
    BY <1>0, <1>1, <1>5, <2>1, SendLast DEF MaySend
  <2>3. Enqueue(Main) => (MaySend(Main)' <=> MaySend(Main))
    BY <1>1, <2>1 DEF Enqueue, localVars, MaySend, SaysLast
  <2>4. queue' = queue \/ Enqueue(Main)
    BY <1>0, <1>5, SendLast
  <2> QED
    BY <1>0, <1>1, <1>2, <1>3, <2>2, <2>3, <2>4, SourceImplements
<1>6. CASE ~ Send(Main) /\ ~ Initialize
  <2>1. UNCHANGED <<queue, out>>
    BY <1>6 DEF MainStep, Initialized, ForkWorker, Forked, ConfigWorkerMap,
       ConfigReadyMap, Return, queueVars, localVars
  <2>2. pc'[Main] # "initialize"
    <3>1. CASE Initialized \/ Forked \/ ConfigWorkerMap \/ Return \/ ConfigReadyMap
      BY <1>0, <3>1 DEF Initialized, Forked, ConfigWorkerMap, Return, ConfigReadyMap, Goto
    <3>2. ASSUME NEW v \in Workers, ForkWorker(v) PROVE pc'[Main] # "initialize"
      BY <1>0, <3>2 DEF ForkWorker, Goto
    <3> QED
      BY <1>6, <3>1, <3>2 DEF MainStep
  <2>3. MaySend(Main)' => MaySend(Main)
    BY <1>1, <2>1, <2>2 DEF MaySend, SaysLast
  <2> QED
    BY <1>0, <1>1, <1>2, <1>3, <2>1, <2>3, SourceImplements
<1> QED
  BY <1>4, <1>5, <1>6

\* A listener is a source until it has delivered what it received and its
\* endpoint is closed.
LEMMA ListenerImplements ==
  ASSUME TypeOK, NEW l \in Listeners, ListenerStep(l)
  PROVE  Abstract!Next \/ UNCHANGED <<queue, current, Retired, Active, terminateV>>
<1>0. /\ l \in Threads /\ l \in Senders /\ l \notin Workers /\ pc \in [Threads -> PCs]
      /\ \A w \in Workers : w \in Threads \ {l}
      /\ \A s \in (Listeners \cup {Main}) \ {l} : s \in Threads \ {l} /\ s \in Senders \ {l}
      /\ open \subseteq Listeners /\ pc[l] # "initialize" /\ l \in Listeners \cup {Main}
  BY ThreadAssumption DEF Threads, Senders, TypeOK, ControlOK, DataOK, ListenerPC, Sending, Posting
<1>1. /\ UNCHANGED <<current, terminateV>>
      /\ open' = open \/ (l \in open /\ open' = open \ {l})
      /\ l \notin open' => (l \in open \/ SaysLast(l) => SaysLast(l)')
      /\ \A s \in (Listeners \cup {Main}) \ {l} : pc'[s] = pc[s] /\ out'[s] = out[s]
      /\ \A w \in Workers : pc'[w] = pc[w]
  BY <1>0, ListenerSays, ListenerLocal DEF Local
<1>2. \A w \in Workers : Left(w)' <=> Left(w)
  BY <1>1 DEF Left, Finalizing
<1>3. \A s \in (Listeners \cup {Main}) \ {l} : MaySend(s)' <=> MaySend(s)
  BY <1>1 DEF MaySend, SaysLast
<1>4. pc'[l] # "initialize"
  BY <1>0 DEF ListenerStep, Receive, Received, EndpointError, CloseEndpoint, EndPointClosed,
     Send, Enqueue, ClearOutOfWork, IsEmptyMVar, TakeMap, PutMap, NotifyMessage, Goto
<1>5. MaySend(l)' => MaySend(l)
  BY <1>0, <1>1, <1>4 DEF MaySend
<1>6. Enqueue(l) => (MaySend(l)' <=> MaySend(l))
  BY <1>0, <1>4 DEF Enqueue, localVars, netVars, MaySend, SaysLast
<1>7. queue' = queue \/ Enqueue(l)
  BY <1>0, ListenerSays, SendLast
<1> QED
  BY <1>0, <1>1, <1>2, <1>3, <1>5, <1>6, <1>7, SourceImplements

\* Handling a message is Take and Complete, however it ends.
LEMMA HandlingImplements ==
  ASSUME TypeOK, Idle, NEW w \in Workers, WorkerStep(w),
         Dequeue(w) \/ Processed(w) \/ Crash(w),
         \A v \in Workers \ {w} : Left(v)' <=> Left(v),
         \A s \in Listeners \cup {Main} : MaySend(s)' <=> MaySend(s)
  PROVE  Abstract!Next
<1>0. /\ w \in Threads /\ pc \in [Threads -> PCs] /\ NoMsg \notin Msgs
      /\ current \in [Workers -> Msgs \cup {NoMsg}]
  BY MessageAssumption DEF Threads, TypeOK, ControlOK, DataOK
<1>1. Active' = Active
  BY DEF Active, MaySend
<1>2. CASE Dequeue(w)
  <2>1. PICK i \in DOMAIN Group[w] :
          /\ queue[Group[w][i]] # <<>>
          /\ queue' = [queue EXCEPT ![Group[w][i]] = Tail(@)]
          /\ current' = [current EXCEPT ![w] = Head(queue[Group[w][i]])]
    BY <1>2 DEF Dequeue
  <2>2. Group[w][i] \in Queues
    BY QueueAssumption
  <2>3. current'[w] # NoMsg
    BY <1>0, <2>1, <2>2 DEF TypeOK, DataOK
  <2>4. pc[w] = "dequeue" /\ pc'[w] = "send" /\ terminateV' = terminateV
    BY <1>0, <1>2 DEF Dequeue, Goto, flagVars
  <2>5. ~ Left(w) /\ ~ Left(w)' /\ current[w] = NoMsg
    BY <2>3, <2>4 DEF Left, Finalizing, Idle, Sending, Posting
  <2>6. Retired' = Retired
    BY <2>5 DEF Retired, Left, Finalizing
  <2>7. Abstract!Take(w, Group[w][i])
    BY <1>1, <2>1, <2>4, <2>5, <2>6 DEF Abstract!Take, Retired
  <2> QED
    BY <2>7 DEF Abstract!Next
<1>3. CASE Processed(w) \/ Crash(w)
  <2>1. /\ pc[w] = "send" /\ current[w] # NoMsg /\ current' = [current EXCEPT ![w] = NoMsg]
        /\ pc'[w] \in {"readTerminate", "error", "crashed"}
        /\ UNCHANGED <<queue, terminateV>>
    BY <1>0, <1>3 DEF Processed, Crash, Goto, queueVars, flagVars
  <2>2. Left(w) \in BOOLEAN /\ Left(w)' \in BOOLEAN /\ ~ Left(w)
    BY <2>1 DEF Left, Finalizing
  <2>3. Retired' \in {Retired, [Retired EXCEPT ![w] = TRUE]}
    <3>1. CASE Left(w)'
      BY <2>2, <3>1 DEF Retired, Left, Finalizing
    <3>2. CASE ~ Left(w)'
      BY <2>2, <3>2 DEF Retired, Left, Finalizing
    <3> QED
      BY <3>1, <3>2
  <2>4. Abstract!Complete(w)
    BY <1>1, <2>1, <2>3 DEF Abstract!Complete, Retired
  <2> QED
    BY <2>4 DEF Abstract!Next
<1> QED
  BY <1>2, <1>3

\* A worker retires because it was asked to, or because the engine is drained.
LEMMA RetiringImplements ==
  ASSUME TypeOK, Idle, OneWorker, NEW w \in Workers, ReadOutOfWork(w), Stops(w),
         Began(w), AsRequested(w), SaysOutOfWork(w), Left(w)',
         \A s \in Listeners \cup {Main} : MaySend(s)' <=> MaySend(s)
  PROVE  Abstract!Next
<1>1. Active' = Active /\ UNCHANGED <<queue, current, terminateV>>
  BY DEF Active, MaySend, ReadOutOfWork, queueVars, localVars, flagVars
<1>2. current[w] = NoMsg /\ \A v \in Workers : v = w
  BY DEF ReadOutOfWork, Idle, Sending, Posting, OneWorker
<1>3. Retired' = [Retired EXCEPT ![w] = TRUE]
  BY <1>2 DEF Retired, Left, Finalizing
<1>4. CASE terminateV # "Off"
  <2>1. Abstract!Retire(w)
    BY <1>1, <1>2, <1>3, <1>4 DEF Abstract!Retire, Retired
  <2> QED
    BY <2>1 DEF Abstract!Next
<1>5. CASE terminateV = "Off"
  <2>1. Closed /\ OnlyLastWords
    BY <1>5 DEF Stops, isFinishOne, isAnyTerminate, AsRequested, SaysOutOfWork, Calm,
       ReadOutOfWork
  <2>2. Active = {}
    <3>1. SaysLast(Main) /\ pc[Main] # "initialize"
      BY NothingIsLast DEF Began, Beginning, ReadOutOfWork
    <3>2. \A l \in Listeners : pc[l] # "initialize"
      BY DEF TypeOK, ControlOK, ListenerPC, Sending, Posting
    <3> QED
      BY <2>1, <3>1, <3>2 DEF Closed, Active
  <2>3. Abstract!OutOfWork
    BY <1>2, <2>1, <2>2 DEF Abstract!OutOfWork, OnlyLastWords
  <2>4. Abstract!Retire(w)
    BY <1>1, <1>2, <1>3, <2>3 DEF Abstract!Retire, Retired
  <2> QED
    BY <2>4 DEF Abstract!Next
<1> QED
  BY <1>4, <1>5

\* A step of the worker is an action of the abstract loop or none.
LEMMA WorkerImplements ==
  ASSUME TypeOK, CounterInv, DrainInv, OneWorker, status0 = "result",
         NEW w \in Workers, WorkerStep(w)
  PROVE  Abstract!Next \/ UNCHANGED <<queue, current, Retired, Active, terminateV>>
<1>0. /\ w \in Threads /\ w \in Senders /\ pc \in [Threads -> PCs] /\ open \subseteq Listeners
      /\ Idle /\ Began(w) /\ AsRequested(w) /\ SaysOutOfWork(w) /\ SendsLast(w)
      /\ \A v \in Workers : v = w
  BY DEF Threads, Senders, TypeOK, ControlOK, DataOK, CounterInv, DrainInv, OneWorker
<1>1. terminateV' = terminateV
      /\ \A s \in Listeners \cup {Main} : pc'[s] = pc[s] /\ out'[s] = out[s]
  BY WorkerKeeps
<1>2. CASE CleanupEngine(w)
  <2>1. UNCHANGED <<queue, current>> /\ current[w] = NoMsg /\ pc'[w] \in {"signal", "send"}
    BY <1>0, <1>2 DEF CleanupEngine, CloseEndpoint, Goto, Idle, Sending, Posting, queueVars
  <2>2. \A v \in Workers : Left(v)' <=> Left(v)
    BY <1>0, <1>2, <2>1 DEF CleanupEngine, Left, Finalizing, Sending
  <2>3. CASE open' = open
    BY <1>1, <2>1, <2>2, <2>3, SeesNothing DEF MaySend, SaysLast
  <2>4. CASE open' # open
    <3>1. PICK l \in Listeners : l \in open /\ open' = open \ {l}
      BY <1>0, <1>2, <2>4 DEF CleanupEngine, CloseEndpoint
    <3>2. \A s \in (Listeners \cup {Main}) \ {l} : MaySend(s)' <=> MaySend(s)
      BY <1>1, <3>1 DEF MaySend, SaysLast
    <3>3. MaySend(l) /\ l \in Listeners \cup {Main}
      BY <3>1 DEF MaySend
    <3> QED
      BY <1>0, <1>1, <2>1, <2>2, <3>2, <3>3, SourceImplements
  <2> QED
    BY <2>3, <2>4
<1>3. CASE ~ CleanupEngine(w)
  <2>1. \A s \in Listeners \cup {Main} : MaySend(s)' <=> MaySend(s)
    BY <1>1, <1>3, WorkerKeeps DEF MaySend, SaysLast
  <2>2. CASE Send(w)
    <3>1. pc[w] \in Sending /\ pc'[w] \in Sending /\ current' = current
      BY <1>0, <2>2 DEF Send, Enqueue, ClearOutOfWork, IsEmptyMVar, TakeMap, PutMap,
         NotifyMessage, Goto, Sending, Posting, localVars
    <3>2. \A v \in Workers : Left(v)' <=> Left(v)
      BY <1>0, <3>1 DEF Left, Finalizing, Sending, Posting
    <3>3. CASE Enqueue(w)
      <4>1. current[w] # NoMsg \/ SaysLast(w)
        BY <1>0 DEF SendsLast
      <4> QED
        BY <1>0, <2>1, <3>2, <3>3, <4>1, SeesPost
    <3>4. CASE ~ Enqueue(w)
      <4>1. queue' = queue
        BY <2>2, <3>4 DEF Send, ClearOutOfWork, IsEmptyMVar, TakeMap, PutMap, NotifyMessage,
           queueVars
      <4> QED
        BY <1>1, <2>1, <3>1, <3>2, <4>1, SeesNothing
    <3> QED
      BY <3>3, <3>4
  <2>3. CASE Dequeue(w) \/ Processed(w) \/ Crash(w)
    BY <1>0, <2>1, <2>3, HandlingImplements
  <2>4. CASE ReadOutOfWork(w) /\ Stops(w)
    <3>1. Left(w)'
      BY <1>0, <2>4 DEF ReadOutOfWork, Goto, Left
    <3> QED
      BY <1>0, <2>1, <2>4, <3>1, RetiringImplements
  <2>5. CASE ~ (\/ Send(w) \/ Dequeue(w) \/ Processed(w) \/ Crash(w)
                \/ (ReadOutOfWork(w) /\ Stops(w)))
    <3>1. UNCHANGED <<queue, current>>
      BY <1>3, <2>5 DEF WorkerStep, NotifyWorkers, TakeReady, WakeOne, PutReady, IncLive,
         IncAwake, DequeueNothing, ReadTerminate, ReadNetwork, ReadOutOfWork, DecAwake,
         ReadQueued, ReadAwake, SetOutOfWork, WaitForMessage, ReadSV, Wakeup, DieWithError,
         DecLive, ReadLive, Finalized, Signal, queueVars, localVars
    <3>2. current[w] = NoMsg \/ pc[w] \in Sending
      BY <1>0 DEF Idle
    <3>3. Left(w)' <=> Left(w)
      <4>1. CASE NotifyWorkers(w)
        <5>1. /\ pc[w] \in {"notifyWorkers", "waking"}
              /\ pc'[w] \in {"waking", "done", "waitForMessage"}
          BY <1>0, <4>1 DEF NotifyWorkers, TakeReady, WakeOne, PutReady, Goto
        <5> QED
          BY <5>1 DEF Left, Finalizing, Sending, Posting
      <4>2. CASE ReadOutOfWork(w) /\ ~ Stops(w)
        BY <1>0, <4>2 DEF ReadOutOfWork, Goto, Left, Finalizing, Sending, Posting
      <4>3. CASE IncAwake(w)
        BY <1>0, <4>3 DEF IncAwake, Goto, Left, Finalizing, Sending, Posting
      <4>4. CASE ReadLive(w) \/ Finalized(w) \/ Signal(w) \/ DecLive(w) \/ DieWithError(w)
        BY <1>0, <3>1, <3>2, <4>4 DEF ReadLive, Finalized, Signal, DecLive, DieWithError, Goto,
           Left, Finalizing, Sending, Posting
      <4>5. CASE ~ (\/ NotifyWorkers(w) \/ ReadOutOfWork(w) \/ IncAwake(w) \/ ReadLive(w)
                    \/ Finalized(w) \/ Signal(w) \/ DecLive(w) \/ DieWithError(w))
        BY <1>0, <1>3, <2>5, <4>5 DEF WorkerStep, IncLive, DequeueNothing, ReadTerminate,
           ReadNetwork, DecAwake, ReadQueued, ReadAwake, SetOutOfWork, WaitForMessage,
           ReadSV, Wakeup, Goto, Left, Finalizing, Sending, Posting
      <4> QED
        BY <2>5, <4>1, <4>2, <4>3, <4>4, <4>5
    <3> QED
      BY <1>0, <1>1, <2>1, <3>1, <3>3, SeesNothing
  <2> QED
    BY <2>2, <2>3, <2>4, <2>5
<1> QED
  BY <1>2, <1>3

\* The console asks to stop.
LEMMA ConsoleImplements ==
  ASSUME TypeOK, ConsoleStep
  PROVE  Abstract!Next \/ UNCHANGED <<queue, current, Retired, Active, terminateV>>
<1>1. /\ UNCHANGED <<queue, current, open>>
      /\ \A t \in Workers \cup Listeners \cup {Main} : pc'[t] = pc[t] /\ out'[t] = out[t]
  <2>1. UNCHANGED <<queue, current, open>>
    BY DEF ConsoleStep, TerminateEngine, NotifyWorkers, TakeReady, WakeOne, PutReady,
       queueVars, localVars, netVars
  <2> QED
    BY <2>1, ConsoleLocal, ThreadAssumption DEF Local, Threads
<1>2. Retired' = Retired /\ Active' = Active
  BY <1>1, SeesNothing DEF Left, Finalizing, MaySend, SaysLast
<1>3. CASE TerminateEngine
  <2>1. Abstract!AskToStop
    BY <1>1, <1>2, <1>3, MessageAssumption DEF TerminateEngine, Abstract!AskToStop, Retired
  <2> QED
    BY <2>1 DEF Abstract!Next
<1>4. CASE NotifyWorkers(Console)
  <2>1. terminateV' = terminateV
    BY <1>4 DEF NotifyWorkers, TakeReady, WakeOne, PutReady, flagVars
  <2> QED
    BY <1>1, <1>2, <2>1
<1> QED
  BY <1>3, <1>4 DEF ConsoleStep

\* The program was initialized without an error.
ProgramStarted == status0 = "result"

\* An engine with one worker whose initialization succeeds implements the
\* abstract loop, for any number of listeners and queues: every message waits
\* and is taken in order, and the worker retires only on request, by failing, or
\* with no work left and none to come but the notifications of closed endpoints
\* and what finalization sends.
THEOREM OneWorkerImplementsQuiescence ==
  ASSUME OneWorker, "error" \notin Outcomes
  PROVE  Spec => ImplementsQuiescence
<1>1. Init => Abstract!Init
  <2> SUFFICES ASSUME Init PROVE Abstract!Init
    OBVIOUS
  <2>1. /\ \A w \in Workers : pc[w] = "unborn" /\ ~ Left(w)
        /\ \A l \in Listeners : l \in open
        /\ pc[Main] = "initialize"
    BY ThreadAssumption DEF Init, Threads, Left, Finalizing, Sending, Posting
  <2>2. Active = Listeners \cup {Main}
    BY <2>1 DEF Active
  <2>3. Retired = [w \in Workers |-> FALSE]
    BY <2>1 DEF Retired, Left
  <2> QED
    BY <2>2, <2>3 DEF Init, Abstract!Init, Retired
<1>2. Init => ProgramStarted
  BY DEF Init, ProgramStarted
<1>3. ProgramStarted /\ [Next]_vars => ProgramStarted'
  <2> SUFFICES ASSUME status0 = "result", [Next]_vars PROVE status0' = "result"
    BY DEF ProgramStarted
  <2>1. CASE Initialize
    BY <2>1, MessageAssumption DEF Initialize
  <2>2. CASE MainStep /\ ~ Initialize
    BY <2>2 DEF MainStep, Initialized, ForkWorker, Forked, ConfigWorkerMap, ConfigReadyMap,
       Return, Send, Enqueue, ClearOutOfWork, IsEmptyMVar, TakeMap, PutMap, NotifyMessage,
       initVars
  <2>3. ASSUME NEW w \in Workers, WorkerStep(w) PROVE status0' = "result"
    BY <2>3 DEF WorkerStep, NotifyWorkers, TakeReady, WakeOne, PutReady, IncLive, IncAwake,
       DequeueNothing, ReadTerminate, ReadNetwork, ReadOutOfWork, DecAwake, ReadQueued,
       ReadAwake, SetOutOfWork, WaitForMessage, ReadSV, Wakeup, DieWithError, DecLive,
       ReadLive, Finalized, CleanupEngine, CloseEndpoint, Signal, Dequeue, Processed, Crash, Send,
       Enqueue, ClearOutOfWork, IsEmptyMVar, TakeMap, PutMap, NotifyMessage, initVars
  <2>4. CASE ConsoleStep \/ \E l \in Listeners : ListenerStep(l)
    BY <2>4 DEF ConsoleStep, TerminateEngine, NotifyWorkers, TakeReady, WakeOne, PutReady,
       ListenerStep, Receive, Received, EndpointError, CloseEndpoint, EndPointClosed, Send, Enqueue,
       ClearOutOfWork, IsEmptyMVar, TakeMap, PutMap, NotifyMessage, initVars
  <2>5. CASE UNCHANGED vars
    BY <2>5 DEF vars, initVars
  <2> QED
    BY <2>1, <2>2, <2>3, <2>4, <2>5 DEF Next
<1>4. TypeOK /\ CounterInv /\ DrainInv /\ ProgramStarted /\ [Next]_vars
        => [Abstract!Next]_Abstract!vars
  <2> SUFFICES ASSUME TypeOK, CounterInv, DrainInv, status0 = "result", [Next]_vars
               PROVE  Abstract!Next \/ UNCHANGED Abstract!vars
    BY DEF ProgramStarted
  <2>1. CASE UNCHANGED vars
    BY <2>1 DEF vars, queueVars, flagVars, netVars, localVars, Abstract!vars, Active, Left,
       Finalizing, SaysLast
  <2>2. CASE Next
    <3>1. Abstract!Next \/ UNCHANGED <<queue, current, Retired, Active, terminateV>>
      BY <2>2, MainImplements, WorkerImplements, ListenerImplements, ConsoleImplements
      DEF Next
    <3> QED
      BY <3>1 DEF Abstract!vars, Retired
  <2> QED
    BY <2>1, <2>2
<1> QED
  BY <1>1, <1>2, <1>3, <1>4, TypeCorrect, CountersHold, DrainHolds, PTL
  DEF Spec, ImplementsQuiescence, Abstract!Spec
=============================================================================
