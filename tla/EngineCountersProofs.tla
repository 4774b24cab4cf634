------------------------ MODULE EngineCountersProofs ------------------------
(***************************************************************************)
(* The counters of EngineWorkers, and what rests on them: liveWorkersV and *)
(* awakeWorkersV are exact, so the last worker to die knows that it is the *)
(* last and cleans up; one worker on its own drains its queues.            *)
(***************************************************************************)
EXTENDS EngineWorkersProofs, FiniteSetTheorems

-----------------------------------------------------------------------------
(***************************************************************************)
(* Counting.  A step of one worker changes a count by what it does to that *)
(* worker's own membership.                                                *)
(***************************************************************************)

LiveSet  == {w \in Workers : CountedLive(w)}
AwakeSet == {w \in Workers : CountedAwake(w)}

\* A handler's message is forgotten before the worker leaves enqueue for good:
\* this is what tells a handler that sends from the atExit trigger that sends.
Idle == \A w \in Workers : current[w] # NoMsg => pc[w] \in Sending

CounterInv == Idle /\ CountersAgree

\* A set of workers that gains w grows by one.
LEMMA OneMore ==
  ASSUME NEW S \in SUBSET Workers, NEW T \in SUBSET Workers, NEW w \in Workers,
         w \notin S, w \in T, \A v \in Workers \ {w} : v \in S <=> v \in T
  PROVE  Cardinality(T) = Cardinality(S) + 1
<1>1. IsFiniteSet(S)
  BY ThreadAssumption, FS_Subset
<1>2. T = S \cup {w}
  OBVIOUS
<1> QED
  BY <1>1, <1>2, FS_AddElement

\* A set of workers that loses w shrinks by one.
LEMMA OneLess ==
  ASSUME NEW S \in SUBSET Workers, NEW T \in SUBSET Workers, NEW w \in Workers,
         w \in S, w \notin T, \A v \in Workers \ {w} : v \in S <=> v \in T
  PROVE  Cardinality(T) = Cardinality(S) - 1
<1>1. IsFiniteSet(S)
  BY ThreadAssumption, FS_Subset
<1>2. T = S \ {w}
  OBVIOUS
<1> QED
  BY <1>1, <1>2, FS_RemoveElement

\* A set of workers that neither gains nor loses w stays as it is.
LEMMA AsMany ==
  ASSUME NEW S \in SUBSET Workers, NEW T \in SUBSET Workers, NEW w \in Workers,
         w \in S <=> w \in T, \A v \in Workers \ {w} : v \in S <=> v \in T
  PROVE  Cardinality(T) = Cardinality(S)
<1>1. S = T
  OBVIOUS
<1> QED
  BY <1>1

\* A step of w changes its own handler's message only.
LEMMA CurrentLocal ==
  ASSUME TypeOK, NEW w \in Workers, WorkerStep(w)
  PROVE  \A v \in Workers \ {w} : current'[v] = current[v]
<1>1. CASE Dequeue(w)
  BY <1>1 DEF Dequeue, TypeOK, DataOK
<1>2. CASE Processed(w) \/ Crash(w)
  BY <1>2 DEF Processed, Crash, TypeOK, DataOK
<1>3. CASE ~ (Dequeue(w) \/ Processed(w) \/ Crash(w))
  BY <1>3 DEF WorkerStep, Send, Enqueue, ClearOutOfWork, IsEmptyMVar, TakeMap, PutMap,
     NotifyMessage, NotifyWorkers, TakeReady, WakeOne, PutReady, IncLive, IncAwake,
     DequeueNothing, ReadTerminate, ReadNetwork, ReadOutOfWork, DecAwake, ReadQueued,
     ReadAwake, SetOutOfWork, WaitForMessage, ReadSV, Wakeup, DieWithError, DecLive,
     ReadLive, Finalized, CleanupEngine, CloseEndpoint, Signal, localVars
<1> QED
  BY <1>1, <1>2, <1>3

\* A step of w counts or discounts nobody but w.
LEMMA OthersCounted ==
  ASSUME TypeOK, NEW w \in Workers, WorkerStep(w)
  PROVE  \A v \in Workers \ {w} :
           /\ v \in LiveSet <=> v \in LiveSet'
           /\ v \in AwakeSet <=> v \in AwakeSet'
<1> SUFFICES ASSUME NEW v \in Workers \ {w}
             PROVE  /\ v \in LiveSet <=> v \in LiveSet'
                    /\ v \in AwakeSet <=> v \in AwakeSet'
  OBVIOUS
<1>1. v \in Threads \ {w}
  BY DEF Threads
<1>2. pc'[v] = pc[v] /\ seen'[v] = seen[v] /\ current'[v] = current[v]
  BY <1>1, WorkerLocal, CurrentLocal DEF Local
<1> QED
  BY <1>2 DEF LiveSet, AwakeSet, CountedLive, CountedAwake, Finalizing, Asleep

-----------------------------------------------------------------------------
(***************************************************************************)
(* CountersAgree, one group of actions after the other.                    *)
(***************************************************************************)

\* A step that counts w in both states or in neither keeps the counters exact
\* if it leaves them alone.
LEMMA SameCounts ==
  ASSUME TypeOK, CounterInv, NEW w \in Workers, WorkerStep(w), UNCHANGED counterVars,
         CountedLive(w) <=> CountedLive(w)', CountedAwake(w) <=> CountedAwake(w)'
  PROVE  CountersAgree'
<1>1. /\ LiveSet \in SUBSET Workers /\ LiveSet' \in SUBSET Workers
      /\ AwakeSet \in SUBSET Workers /\ AwakeSet' \in SUBSET Workers
  BY DEF LiveSet, AwakeSet
<1>2. w \in LiveSet <=> w \in LiveSet'
  BY DEF LiveSet
<1>3. w \in AwakeSet <=> w \in AwakeSet'
  BY DEF AwakeSet
<1>4. Cardinality(LiveSet') = Cardinality(LiveSet)
  BY <1>1, <1>2, OthersCounted, AsMany
<1>5. Cardinality(AwakeSet') = Cardinality(AwakeSet)
  BY <1>1, <1>3, OthersCounted, AsMany
<1> QED
  BY <1>4, <1>5 DEF CounterInv, CountersAgree, LiveSet, AwakeSet, counterVars

\* Starting and dying: the steps that change liveWorkersV.
LEMMA LiveCounts ==
  ASSUME TypeOK, CounterInv, NEW w \in Workers, WorkerStep(w),
         IncLive(w) \/ DecLive(w) \/ DieWithError(w)
  PROVE  CountersAgree'
<1>0. w \in Threads /\ pc \in [Threads -> PCs] /\ current[w] \in Msgs \cup {NoMsg}
  BY DEF Threads, TypeOK, ControlOK, DataOK
<1>1. /\ LiveSet \in SUBSET Workers /\ LiveSet' \in SUBSET Workers
      /\ AwakeSet \in SUBSET Workers /\ AwakeSet' \in SUBSET Workers
  BY DEF LiveSet, AwakeSet
<1>2. w \in AwakeSet <=> w \in AwakeSet'
  BY <1>0 DEF IncLive, DecLive, DieWithError, Goto, AwakeSet, CountedAwake, Asleep
<1>3. Cardinality(AwakeSet') = Cardinality(AwakeSet)
  BY <1>1, <1>2, OthersCounted, AsMany
<1>4. awakeWorkersV' = awakeWorkersV
  BY DEF IncLive, DecLive, DieWithError
<1>5. CASE IncLive(w)
  <2>1. w \notin LiveSet /\ w \in LiveSet' /\ liveWorkersV' = liveWorkersV + 1
    BY <1>0, <1>5 DEF IncLive, Goto, LiveSet, CountedLive, Finalizing, Sending, Posting
  <2>2. Cardinality(LiveSet') = Cardinality(LiveSet) + 1
    BY <1>1, <2>1, OthersCounted, OneMore
  <2> QED
    BY <1>3, <1>4, <2>1, <2>2 DEF CounterInv, CountersAgree, LiveSet, AwakeSet
<1>6. CASE DecLive(w) \/ DieWithError(w)
  <2>1. w \in LiveSet /\ w \notin LiveSet' /\ liveWorkersV' = liveWorkersV - 1
    BY <1>0, <1>6 DEF DecLive, DieWithError, Goto, LiveSet, CountedLive, Finalizing,
       Sending, Posting
  <2>2. Cardinality(LiveSet') = Cardinality(LiveSet) - 1
    BY <1>1, <2>1, OthersCounted, OneLess
  <2> QED
    BY <1>3, <1>4, <2>1, <2>2 DEF CounterInv, CountersAgree, LiveSet, AwakeSet
<1> QED
  BY <1>5, <1>6

\* Starting, going to sleep and waking up: the steps that change awakeWorkersV.
LEMMA AwakeCounts ==
  ASSUME TypeOK, CounterInv, NEW w \in Workers, WorkerStep(w),
         IncAwake(w) \/ DecAwake(w) \/ Wakeup(w)
  PROVE  CountersAgree'
<1>0. /\ w \in Threads /\ pc \in [Threads -> PCs] /\ seen \in [Workers -> Seen]
      /\ Nothing("afterOne").check = "afterOne" /\ Nothing("shutdown").check = "shutdown"
  BY DEF Threads, TypeOK, ControlOK, DataOK, Nothing
<1>1. /\ LiveSet \in SUBSET Workers /\ LiveSet' \in SUBSET Workers
      /\ AwakeSet \in SUBSET Workers /\ AwakeSet' \in SUBSET Workers
  BY DEF LiveSet, AwakeSet
<1>2. w \in LiveSet <=> w \in LiveSet'
  BY <1>0 DEF IncAwake, DecAwake, Wakeup, Goto, LiveSet, CountedLive, Finalizing,
     Sending, Posting
<1>3. Cardinality(LiveSet') = Cardinality(LiveSet)
  BY <1>1, <1>2, OthersCounted, AsMany
<1>4. liveWorkersV' = liveWorkersV
  BY DEF IncAwake, DecAwake, Wakeup
<1>5. CASE IncAwake(w) \/ Wakeup(w)
  <2>1. w \notin AwakeSet /\ awakeWorkersV' = awakeWorkersV + 1
    BY <1>0, <1>5 DEF IncAwake, Wakeup, AwakeSet, CountedAwake, Asleep
  <2>2. w \in AwakeSet'
    BY <1>0, <1>5 DEF IncAwake, Wakeup, Goto, AwakeSet, CountedAwake, Asleep
  <2>3. Cardinality(AwakeSet') = Cardinality(AwakeSet) + 1
    BY <1>1, <2>1, <2>2, OthersCounted, OneMore
  <2> QED
    BY <1>3, <1>4, <2>1, <2>3 DEF CounterInv, CountersAgree, LiveSet, AwakeSet
<1>6. CASE DecAwake(w)
  <2>1. w \in AwakeSet /\ awakeWorkersV' = awakeWorkersV - 1
    BY <1>0, <1>6 DEF DecAwake, AwakeSet, CountedAwake, Asleep
  <2>2. w \notin AwakeSet'
    BY <1>0, <1>6 DEF DecAwake, Goto, AwakeSet, CountedAwake, Asleep
  <2>3. Cardinality(AwakeSet') = Cardinality(AwakeSet) - 1
    BY <1>1, <2>1, <2>2, OthersCounted, OneLess
  <2> QED
    BY <1>3, <1>4, <2>1, <2>3 DEF CounterInv, CountersAgree, LiveSet, AwakeSet
<1> QED
  BY <1>5, <1>6

\* The other steps of a worker leave the counters alone and count it as before.
LEMMA OtherCounts ==
  ASSUME TypeOK, CounterInv, NEW w \in Workers, WorkerStep(w),
         ~ (IncLive(w) \/ DecLive(w) \/ DieWithError(w)
             \/ IncAwake(w) \/ DecAwake(w) \/ Wakeup(w))
  PROVE  /\ UNCHANGED counterVars
         /\ CountedLive(w) <=> CountedLive(w)'
         /\ CountedAwake(w) <=> CountedAwake(w)'
<1>0. /\ w \in Threads /\ pc \in [Threads -> PCs] /\ seen \in [Workers -> Seen]
      /\ current \in [Workers -> Msgs \cup {NoMsg}] /\ w \in Senders /\ w \in Notifiers
      /\ NoMsg \notin Msgs
      /\ \A c \in {"afterOne", "afterAll", "shutdown"} : Nothing(c).check = c
  BY MessageAssumption DEF Threads, Senders, Notifiers, TypeOK, ControlOK, DataOK, Nothing
<1> DEFINE Same == /\ UNCHANGED counterVars
                   /\ CountedLive(w) <=> CountedLive(w)'
                   /\ CountedAwake(w) <=> CountedAwake(w)'
<1> HIDE DEF Same
<1>1. CASE Send(w)
  <2>1. pc[w] \in Sending /\ pc'[w] \in Sending /\ UNCHANGED <<counterVars, current, seen>>
    BY <1>0, <1>1 DEF Send, Enqueue, ClearOutOfWork, IsEmptyMVar, TakeMap,
       PutMap, NotifyMessage, Goto, Sending, Posting, localVars
  <2> QED
    BY <2>1 DEF Same, CountedLive, CountedAwake, Finalizing, Asleep, Sending, Posting
<1>2. CASE NotifyWorkers(w)
  <2>1. /\ pc[w] \in {"notifyWorkers", "waking"}
        /\ pc'[w] \in {"waking", "waitForMessage"}
        /\ UNCHANGED <<counterVars, current, seen>>
    BY <1>0, <1>2, ThreadAssumption DEF NotifyWorkers, TakeReady, WakeOne, PutReady, Goto, localVars
  <2> QED
    BY <2>1 DEF Same, CountedLive, CountedAwake, Finalizing, Asleep, Sending, Posting
<1>3. CASE Dequeue(w)
  <2>1. PICK i \in DOMAIN Group[w] :
          /\ queue[Group[w][i]] # <<>>
          /\ current' = [current EXCEPT ![w] = Head(queue[Group[w][i]])]
    BY <1>3 DEF Dequeue
  <2>2. Group[w][i] \in Queues
    BY QueueAssumption
  <2>3. current'[w] # NoMsg
    BY <1>0, <2>1, <2>2 DEF TypeOK, DataOK
  <2>4. pc[w] = "dequeue" /\ pc'[w] = "send" /\ UNCHANGED counterVars
    BY <1>0, <1>3 DEF Dequeue, Goto
  <2> QED
    BY <2>3, <2>4 DEF Same, CountedLive, CountedAwake, Finalizing, Asleep, Sending, Posting
<1>4. CASE Processed(w) \/ Crash(w)
  <2>1. /\ pc[w] = "send" /\ current[w] # NoMsg /\ UNCHANGED counterVars
        /\ pc'[w] \in {"readTerminate", "error", "crashed"}
        /\ pc'[w] = "readTerminate" => seen'[w].check = "afterOne"
    BY <1>0, <1>4 DEF Processed, Crash, Goto
  <2> QED
    BY <2>1 DEF Same, CountedLive, CountedAwake, Finalizing, Asleep, Sending, Posting
<1>5. CASE DequeueNothing(w) \/ ReadTerminate(w) \/ ReadNetwork(w) \/ ReadOutOfWork(w)
  <2>1. /\ UNCHANGED <<counterVars, current>>
        /\ \/ pc[w] = "dequeue" /\ pc'[w] = "readTerminate" /\ seen'[w].check = "afterAll"
           \/ pc[w] = "readTerminate" /\ pc'[w] = "readNetwork" /\ seen'[w].check = seen[w].check
           \/ /\ pc[w] = "readNetwork"
              /\ pc'[w] = IF seen[w].check = "shutdown" THEN "readQueued" ELSE "readOutOfWork"
              /\ seen'[w].check = seen[w].check
           \/ pc[w] = "readOutOfWork" /\ pc'[w] \in {"decLive", "dequeue", "decAwake"}
    BY <1>0, <1>5 DEF DequeueNothing, ReadTerminate, ReadNetwork, ReadOutOfWork, Goto, Seen,
       localVars
  <2> QED
    BY <2>1 DEF Same, CountedLive, CountedAwake, Finalizing, Asleep, Sending, Posting
<1>6. CASE ReadQueued(w) \/ ReadAwake(w) \/ SetOutOfWork(w) \/ WaitForMessage(w) \/ ReadSV(w)
  <2>1. /\ UNCHANGED <<counterVars, current>>
        /\ pc[w] \in {"readQueued", "readAwake", "setOutOfWork", "waitForMessage", "readSV"}
        /\ pc'[w] \in {"readAwake", "setOutOfWork", "notifyWorkers", "waitForMessage",
                       "readSV", "wakeup"}
    BY <1>0, <1>6 DEF ReadQueued, ReadAwake, SetOutOfWork, WaitForMessage, ReadSV, Goto, localVars
  <2> QED
    BY <2>1 DEF Same, CountedLive, CountedAwake, Finalizing, Asleep, Sending, Posting
<1>7. CASE ReadLive(w) \/ Finalized(w) \/ CleanupEngine(w) \/ Signal(w)
  <2>1. /\ UNCHANGED <<counterVars, current>>
        /\ pc[w] \in {"readLive", "cleanupEngine", "signal"} \/ (pc[w] = "send" /\ current[w] = NoMsg)
        /\ \/ pc'[w] \in {"cleanupEngine", "signal", "dead"}
           \/ pc[w] \in {"readLive", "cleanupEngine"} /\ pc'[w] = "send"
    BY <1>0, <1>7 DEF ReadLive, Finalized, CleanupEngine, CloseEndpoint, Signal, Goto, localVars
  <2>2. pc[w] \in {"readLive", "cleanupEngine"} => current[w] = NoMsg
    BY DEF CounterInv, Idle, Sending, Posting
  <2> QED
    BY <2>1, <2>2 DEF Same, CountedLive, CountedAwake, Finalizing, Asleep, Sending, Posting
<1> QED
  BY <1>1, <1>2, <1>3, <1>4, <1>5, <1>6, <1>7 DEF WorkerStep, Same

\* A worker that handles a message stays inside enqueue until it forgets it.
LEMMA StaysIdle ==
  ASSUME TypeOK, Idle, NEW w \in Workers, WorkerStep(w)
  PROVE  Idle'
<1>0. /\ w \in Threads /\ pc \in [Threads -> PCs] /\ w \in Senders
      /\ current \in [Workers -> Msgs \cup {NoMsg}]
  BY DEF Threads, Senders, TypeOK, ControlOK, DataOK
<1>1. current'[w] # NoMsg => pc'[w] \in Sending
  <2>1. CASE Send(w)
    BY <1>0, <2>1 DEF Send, Enqueue, ClearOutOfWork, IsEmptyMVar, TakeMap,
       PutMap, NotifyMessage, Goto, Sending, Posting
  <2>2. CASE Dequeue(w)
    BY <1>0, <2>2 DEF Dequeue, Goto, Sending
  <2>3. CASE Processed(w) \/ Crash(w)
    BY <1>0, <2>3 DEF Processed, Crash
  <2>4. CASE ~ (Send(w) \/ Dequeue(w) \/ Processed(w) \/ Crash(w))
    <3>1. current' = current
      BY <2>4 DEF WorkerStep, NotifyWorkers, TakeReady, WakeOne, PutReady, IncLive, IncAwake,
         DequeueNothing, ReadTerminate, ReadNetwork, ReadOutOfWork, DecAwake, ReadQueued,
         ReadAwake, SetOutOfWork, WaitForMessage, ReadSV, Wakeup, DieWithError, DecLive,
         ReadLive, Finalized, CleanupEngine, CloseEndpoint, Signal, localVars
    <3>2. pc[w] \notin Sending \/ Finalized(w)
      BY <2>4 DEF WorkerStep, NotifyWorkers, TakeReady, WakeOne, PutReady, IncLive, IncAwake,
         DequeueNothing, ReadTerminate, ReadNetwork, ReadOutOfWork, DecAwake, ReadQueued,
         ReadAwake, SetOutOfWork, WaitForMessage, ReadSV, Wakeup, DieWithError, DecLive,
         ReadLive, CleanupEngine, CloseEndpoint, Signal, Sending, Posting
    <3>3. Finalized(w) => current[w] = NoMsg
      BY DEF Finalized
    <3> QED
      BY <3>1, <3>2, <3>3 DEF Idle
  <2> QED
    BY <2>1, <2>2, <2>3, <2>4
<1>2. ASSUME NEW v \in Workers \ {w}, current'[v] # NoMsg PROVE pc'[v] \in Sending
  <2>1. v \in Threads \ {w}
    BY DEF Threads
  <2>2. pc'[v] = pc[v] /\ current'[v] = current[v]
    BY <2>1, WorkerLocal, CurrentLocal DEF Local
  <2> QED
    BY <1>2, <2>2 DEF Idle
<1> QED
  BY <1>1, <1>2 DEF Idle

\* The steps of the other threads count nobody: the main thread, which starts
\* workers, starts them before either counter knows them.
LEMMA ElseCounts ==
  ASSUME TypeOK, CounterInv,
         \/ MainStep \/ ConsoleStep \/ (\E l \in Listeners : ListenerStep(l))
  PROVE  CounterInv'
<1>1. UNCHANGED <<counterVars, current, seen>>
  <2>1. CASE MainStep
    BY <2>1 DEF MainStep, Initialize, Initialized, ForkWorker, Forked, ConfigWorkerMap,
       ConfigReadyMap, Return, Send, Enqueue, ClearOutOfWork, IsEmptyMVar, TakeMap,
       PutMap, NotifyMessage, localVars
  <2>2. CASE ConsoleStep
    BY <2>2 DEF ConsoleStep, TerminateEngine, NotifyWorkers, TakeReady, WakeOne, PutReady,
       localVars
  <2>3. ASSUME NEW l \in Listeners, ListenerStep(l)
        PROVE  UNCHANGED <<counterVars, current, seen>>
    BY <2>3 DEF ListenerStep, Receive, Received, EndpointError, CloseEndpoint, EndPointClosed, Send,
       Enqueue, ClearOutOfWork, IsEmptyMVar, TakeMap, PutMap, NotifyMessage, localVars
  <2> QED
    BY <2>1, <2>2, <2>3
<1>2. \A w \in Workers : \/ pc'[w] = pc[w]
                         \/ pc[w] = "unborn" /\ pc'[w] = "incLive"
  <2>1. CASE MainStep
    BY <2>1, MainLocal
  <2>2. CASE ConsoleStep
    BY <2>2, ConsoleLocal, ThreadAssumption DEF Local, Threads
  <2>3. ASSUME NEW l \in Listeners, ListenerStep(l)
        PROVE  \A w \in Workers : pc'[w] = pc[w]
    BY <2>3, ListenerLocal, ThreadAssumption DEF Local, Threads
  <2> QED
    BY <2>1, <2>2, <2>3
<1>3. \A w \in Workers : /\ CountedLive(w) <=> CountedLive(w)'
                         /\ CountedAwake(w) <=> CountedAwake(w)'
  BY <1>1, <1>2 DEF CountedLive, CountedAwake, Finalizing, Asleep, Sending, Posting
<1>4. /\ {w \in Workers : CountedLive(w)} = {w \in Workers : CountedLive(w)'}
      /\ {w \in Workers : CountedAwake(w)} = {w \in Workers : CountedAwake(w)'}
  BY <1>3
<1>5. Idle'
  BY <1>1, <1>2 DEF CounterInv, Idle, Sending, Posting
<1> QED
  BY <1>1, <1>4, <1>5 DEF CounterInv, CountersAgree, counterVars

\* At every step of every thread liveWorkersV is the number of workers between
\* incLiveWorkers and decLiveWorkers, and awakeWorkersV the number of workers
\* that started and have not announced that they are about to block.
LEMMA CountersHold == Spec => []CounterInv
<1>1. Init => CounterInv
  <2> SUFFICES ASSUME Init PROVE CounterInv
    OBVIOUS
  <2>1. \A w \in Workers : pc[w] = "unborn" /\ current[w] = NoMsg
    BY ThreadAssumption DEF Init, Threads
  <2>2. LiveSet = {} /\ AwakeSet = {}
    BY <2>1 DEF LiveSet, AwakeSet, CountedLive, CountedAwake
  <2> QED
    BY <2>1, <2>2, FS_EmptySet DEF Init, CounterInv, Idle, CountersAgree, LiveSet, AwakeSet
<1>2. TypeOK /\ CounterInv /\ [Next]_vars => CounterInv'
  <2> SUFFICES ASSUME TypeOK, CounterInv, [Next]_vars PROVE CounterInv'
    OBVIOUS
  <2>1. ASSUME NEW w \in Workers, WorkerStep(w) PROVE CounterInv'
    BY <2>1, StaysIdle, LiveCounts, AwakeCounts, OtherCounts, SameCounts DEF CounterInv
  <2>2. CASE UNCHANGED vars
    BY <2>2 DEF CounterInv, Idle, CountersAgree, CountedLive, CountedAwake, Finalizing, Asleep,
       vars, counterVars, localVars
  <2> QED
    BY <2>1, <2>2, ElseCounts DEF Next
<1> QED
  BY <1>1, <1>2, TypeCorrect, PTL DEF Spec

\* The counters are exact in every state, for any number of workers and
\* listeners, whatever the handlers send and however they end.
THEOREM CountersExact == Spec => []CountersAgree
<1>1. CounterInv => CountersAgree
  BY DEF CounterInv
<1> QED
  BY <1>1, CountersHold, PTL

-----------------------------------------------------------------------------
(***************************************************************************)
(* LastWorkerSignals.  The worker that finds somebody else alive leaves    *)
(* the signal to it: by the counters there is one, and it is not dead.     *)
(***************************************************************************)
NoFailure ==
  /\ status0 = "result"
  /\ \A w \in Workers : pc[w] \notin {"error", "crashed"}
SomebodyLeft == waitV \/ \E w \in Workers : pc[w] # "dead"

\* If no handler fails, the engine is never left without workers and without
\* the signal of waitV, however many workers die at the same time.
THEOREM LastOneSignals ==
  ASSUME Outcomes = {"result"}
  PROVE  Spec => []LastWorkerSignals
<1>1. Init => NoFailure /\ SomebodyLeft
  BY ThreadAssumption DEF Init, NoFailure, SomebodyLeft, Threads
<1>2. TypeOK /\ NoFailure /\ [Next]_vars => NoFailure'
  <2> SUFFICES ASSUME TypeOK, NoFailure, [Next]_vars PROVE NoFailure'
    OBVIOUS
  <2>0. pc \in [Threads -> PCs] /\ Workers \subseteq Threads
    BY DEF TypeOK, ControlOK, Threads
  <2>1. CASE MainStep
    <3>1. status0' = "result"
      BY <2>1 DEF NoFailure, MainStep, Initialize, Initialized, ForkWorker, Forked,
         ConfigWorkerMap, ConfigReadyMap, Return, Send, Enqueue, ClearOutOfWork,
         IsEmptyMVar, TakeMap, PutMap, NotifyMessage, initVars
    <3> QED
      BY <2>1, <3>1, MainLocal DEF NoFailure
  <2>2. ASSUME NEW w \in Workers, WorkerStep(w) PROVE NoFailure'
    <3>1. status0' = status0
      BY <2>2 DEF WorkerStep, NotifyWorkers, TakeReady, WakeOne, PutReady, IncLive, IncAwake,
         DequeueNothing, ReadTerminate, ReadNetwork, ReadOutOfWork, DecAwake, ReadQueued,
         ReadAwake, SetOutOfWork, WaitForMessage, ReadSV, Wakeup, DieWithError, DecLive,
         ReadLive, Finalized, CleanupEngine, CloseEndpoint, Signal, Dequeue, Processed, Crash, Send,
         Enqueue, ClearOutOfWork, IsEmptyMVar, TakeMap, PutMap, NotifyMessage, initVars
    <3>2. pc'[w] \notin {"error", "crashed"}
      <4>1. CASE Send(w) \/ NotifyWorkers(w)
        BY <2>0, <2>2, <4>1 DEF NoFailure, NotifyWorkers, TakeReady, WakeOne, PutReady, Goto,
           Send, Enqueue, ClearOutOfWork, IsEmptyMVar, TakeMap, PutMap, NotifyMessage
      <4>2. CASE ~ (Send(w) \/ NotifyWorkers(w))
        BY <2>0, <2>2, <4>2 DEF NoFailure, WorkerStep, IncLive, IncAwake,
           DequeueNothing, ReadTerminate, ReadNetwork, ReadOutOfWork, DecAwake, ReadQueued,
           ReadAwake, SetOutOfWork, WaitForMessage, ReadSV, Wakeup, DieWithError, DecLive,
           ReadLive, Finalized, CleanupEngine, CloseEndpoint, Signal, Dequeue, Processed, Crash, Goto
      <4> QED
        BY <4>1, <4>2
    <3> QED
      BY <2>0, <2>2, <3>1, <3>2, WorkerLocal DEF NoFailure, Local
  <2>3. CASE ConsoleStep \/ \E l \in Listeners : ListenerStep(l)
    <3>1. status0' = status0
      BY <2>3 DEF ConsoleStep, TerminateEngine, NotifyWorkers, TakeReady, WakeOne, PutReady,
         ListenerStep, Receive, Received, EndpointError, CloseEndpoint, EndPointClosed, Send, Enqueue,
         ClearOutOfWork, IsEmptyMVar, TakeMap, PutMap, NotifyMessage, initVars
    <3>2. \A w \in Workers : pc'[w] = pc[w]
      BY <2>3, ConsoleLocal, ListenerLocal, ThreadAssumption DEF Local, Threads
    <3> QED
      BY <3>1, <3>2 DEF NoFailure
  <2>4. CASE UNCHANGED vars
    BY <2>4 DEF NoFailure, vars, initVars
  <2> QED
    BY <2>1, <2>2, <2>3, <2>4 DEF Next
<1>3. TypeOK /\ CounterInv /\ NoFailure /\ SomebodyLeft /\ [Next]_vars => SomebodyLeft'
  <2> SUFFICES ASSUME TypeOK, CounterInv, NoFailure, SomebodyLeft, [Next]_vars,
                      ~ SomebodyLeft'
               PROVE  FALSE
    OBVIOUS
  <2>0. pc \in [Threads -> PCs] /\ Workers \subseteq Threads
    BY DEF TypeOK, ControlOK, Threads
  <2>1. ~ waitV' /\ \A w \in Workers : pc'[w] = "dead"
    BY DEF SomebodyLeft
  <2>2. CASE MainStep \/ ConsoleStep \/ \E l \in Listeners : ListenerStep(l)
    <3>1. waitV' = waitV
      BY <2>2 DEF MainStep, Initialize, Initialized, ForkWorker, Forked, ConfigWorkerMap,
         ConfigReadyMap, Return, ConsoleStep, TerminateEngine, NotifyWorkers, TakeReady,
         WakeOne, PutReady, ListenerStep, Receive, Received, EndpointError, CloseEndpoint, EndPointClosed,
         Send, Enqueue, ClearOutOfWork, IsEmptyMVar, TakeMap, PutMap, NotifyMessage, flagVars
    <3>2. \A w \in Workers : \/ pc'[w] = pc[w]
                             \/ pc[w] = "unborn" /\ pc'[w] = "incLive"
      BY <2>2, MainLocal, ConsoleLocal, ListenerLocal, ThreadAssumption DEF Local, Threads
    <3> QED
      BY <2>1, <3>1, <3>2 DEF SomebodyLeft
  <2>3. ASSUME NEW w \in Workers, WorkerStep(w) PROVE FALSE
    <3>1. \A v \in Workers \ {w} : pc[v] = "dead"
      BY <2>0, <2>1, <2>3, WorkerLocal DEF Local
    <3>2. CASE ReadLive(w)
      <4>1. liveWorkersV # 0
        BY <2>0, <2>1, <3>2 DEF ReadLive, Goto
      <4>2. LiveSet # {}
        BY <4>1, FS_EmptySet DEF CounterInv, CountersAgree, LiveSet
      <4>3. PICK v \in Workers : CountedLive(v)
        BY <4>2 DEF LiveSet
      <4>4. v # w
        BY <3>2, <4>3 DEF ReadLive, CountedLive
      <4> QED
        BY <3>1, <4>3, <4>4 DEF CountedLive
    <3>3. CASE Signal(w)
      BY <2>1, <3>3 DEF Signal
    <3>4. CASE Send(w) \/ NotifyWorkers(w)
      BY <2>0, <2>1, <3>4 DEF NotifyWorkers, TakeReady, WakeOne, PutReady, Goto,
         Send, Enqueue, ClearOutOfWork, IsEmptyMVar, TakeMap, PutMap, NotifyMessage
    <3>5. CASE ~ (ReadLive(w) \/ Signal(w) \/ Send(w) \/ NotifyWorkers(w))
      BY <2>0, <2>1, <2>3, <3>5 DEF NoFailure, WorkerStep, IncLive, IncAwake, DequeueNothing,
         ReadTerminate, ReadNetwork, ReadOutOfWork, DecAwake, ReadQueued, ReadAwake,
         SetOutOfWork, WaitForMessage, ReadSV, Wakeup, DieWithError, DecLive, Finalized,
         CleanupEngine, CloseEndpoint, Dequeue, Processed, Crash, Goto
    <3> QED
      BY <2>3, <3>2, <3>3, <3>4, <3>5
  <2>4. CASE UNCHANGED vars
    BY <2>1, <2>4 DEF SomebodyLeft, vars, flagVars
  <2> QED
    BY <2>2, <2>3, <2>4 DEF Next
<1>4. NoFailure /\ SomebodyLeft => LastWorkerSignals
  BY DEF NoFailure, SomebodyLeft, LastWorkerSignals
<1> QED
  BY <1>1, <1>2, <1>3, <1>4, TypeCorrect, CountersHold, PTL DEF Spec
=============================================================================
