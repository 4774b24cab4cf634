---------------------------- MODULE EngineWorkers ----------------------------
(***************************************************************************)
(* The message loop of the Haskell engine (Language.K3.Runtime.Engine):    *)
(* worker threads that drain message queues, put themselves to sleep, are  *)
(* woken by senders, and together detect that the engine has run out of    *)
(* work.  Every access to an MVar is a step of its own, because that is    *)
(* the grain at which the threads of the engine interleave.                *)
(*                                                                         *)
(* Threads:  Main runs runEngine; each worker runs runMessages over its    *)
(* group of queues; each listener is the thread of a network endpoint; the *)
(* console is the external thread that may call terminateEngine.           *)
(***************************************************************************)
EXTENDS Naturals, Integers, Sequences, FiniteSets

CONSTANTS
  Workers,        \* worker threads
  Listeners,      \* network listener threads, each with a registered endpoint
  External,       \* the listeners whose endpoint is an external one
  Main,           \* the thread that calls runEngine
  Console,        \* the thread that may call terminateEngine
  Multithreaded,  \* TRUE: Multithreaded workers; FALSE: Uniprocess
  Queues,         \* queue identifiers
  Group,          \* Group[w]: the list of queues worker w manages
  Msgs,           \* messages (address, trigger and argument)
  NoMsg,          \* not a message
  Route,          \* Route[m]: the queue of message m
  Sends,          \* Sends[m]: the lists of messages handling m may send
  InitSends,      \* the lists of messages initialization may send
  FinalSends,     \* the lists of messages that finalization (atExit) and the
                  \* closing of the program's files may send
  CloseSends,     \* CloseSends[l]: the lists of messages that closing the
                  \* endpoint of l may send to its subscribers
  NetMsgs,        \* messages that arrive from the network, each at most once
  Outcomes,       \* what handling a message may come to
  StopModes       \* arguments the console may pass to terminateEngine

Managed(w) == {Group[w][i] : i \in DOMAIN Group[w]}

ASSUME ThreadAssumption ==
  /\ Workers # {} /\ IsFiniteSet(Workers)
  /\ IsFiniteSet(Listeners) /\ External \subseteq Listeners
  /\ Workers \cap Listeners = {}
  /\ Main \notin Workers \cup Listeners \cup {Console}
  /\ Console \notin Workers \cup Listeners
  /\ Multithreaded \in BOOLEAN
  /\ ~ Multithreaded => \E w \in Workers : Workers = {w}

ASSUME QueueAssumption ==
  /\ Group \in [Workers -> Seq(Queues)]
  /\ \A q \in Queues : \E w \in Workers : q \in Managed(w)
  /\ \A v, w \in Workers : v # w => Managed(v) \cap Managed(w) = {}

ASSUME MessageAssumption ==
  /\ NoMsg \notin Msgs
  /\ Route \in [Msgs -> Queues]
  /\ Sends \in [Msgs -> SUBSET Seq(Msgs)]
  /\ InitSends \subseteq Seq(Msgs)
  /\ FinalSends \subseteq Seq(Msgs)
  /\ CloseSends \in [Listeners -> SUBSET Seq(Msgs)]
  /\ NetMsgs \subseteq Msgs
  /\ Outcomes \subseteq {"result", "error", "exception"} /\ "result" \in Outcomes
  /\ StopModes \subseteq {"FinishOne", "FinishAll"}

\* attachNotifier reaches external endpoints only: an internal one never has a
\* subscriber to notify.
ASSUME SubscriberAssumption ==
  \A l \in Listeners \ External : CloseSends[l] \subseteq {<<>>}

VARIABLES
  \* queueConfig
  queue,          \* queueIdToQueue: the messages waiting in each queue
  workerMap,      \* the MVar workerIdToQueueIds: "empty", "full" or "taken"
  \* EngineControl
  terminateV,     \* "Off", "FinishOne" or "FinishAll"
  waitV,          \* has the engine been signalled as complete?
  readyMap,       \* the MVar messageReadyMap: "empty", "full" or "taken"
  sv,             \* sv[w]: is the MSampleVar of w full?
  awakeWorkersV,
  liveWorkersV,
  outOfWorkV,
  \* the network
  open,           \* registered listeners: networkDoneV counts them
  wire,           \* messages that may still arrive from the network
  \* thread-local state
  pc,             \* the next step of each thread
  out,            \* out[t]: messages thread t has still to send
  current,        \* current[w]: the message w is handling, or NoMsg
  seen,           \* seen[w]: what w has read so far of the check it is making
  todo,           \* todo[t]: workers thread t has still to wake in notifyWorkers
  status0,        \* status of the initialization result
  \* history
  extra           \* extra[w]: messages w took since FinishOne was set

queueVars   == <<queue, workerMap>>
signalVars  == <<readyMap, sv>>
counterVars == <<awakeWorkersV, liveWorkersV>>
flagVars    == <<terminateV, waitV, outOfWorkV>>
netVars     == <<open, wire>>
localVars   == <<out, current, seen, todo>>
initVars    == <<status0>>
histVars    == <<extra>>

vars == <<queueVars, signalVars, counterVars, flagVars, netVars, pc,
          localVars, initVars, histVars>>

-----------------------------------------------------------------------------

Threads   == Workers \cup Listeners \cup {Main, Console}
Senders   == Workers \cup Listeners \cup {Main}
Notifiers == Workers \cup {Console}

Terminate == {"Off", "FinishOne", "FinishAll"}
MVar      == {"empty", "full", "taken"}

\* The steps of one enqueue, after the message has been added to its queue.
Posting == {"clearOutOfWork", "isEmpty", "takeMap", "putMap", "notify"}
Sending == {"send"} \cup Posting

Owner(q) == CHOOSE w \in Workers : q \in Managed(w)

\* numQueuedMessages = 0.
NoneQueued == \A q \in Queues : queue[q] = <<>>

\* What a worker knows when it starts evaluating terminate or isShutdownTime.
Nothing(c) == [check |-> c, term |-> "Off", net |-> FALSE, none |-> FALSE]
Seen == [check : {"afterOne", "afterAll", "shutdown"}, term : Terminate,
         net : BOOLEAN, none : BOOLEAN]

\* waitForNetwork is FALSE in every configuration the engine builds.
waitForNetwork == FALSE

\* Fault: every request but FinishAll is taken for FinishOne.
isFinishOneInverted(t) == t # "FinishAll"

isAnyTerminate(t) == t # "Off"
isFinishOne(t)    == t = "FinishOne"

Goto(t, l) == pc' = [pc EXCEPT ![t] = l]

Init ==
  /\ queue = [q \in Queues |-> <<>>]
  /\ workerMap = "empty" /\ readyMap = "empty"
  /\ terminateV = "Off" /\ outOfWorkV = FALSE /\ waitV = FALSE
  /\ sv = [w \in Workers |-> FALSE]
  /\ awakeWorkersV = 0 /\ liveWorkersV = 0
  /\ open = Listeners /\ wire = NetMsgs
  /\ pc = [t \in Threads |-> CASE t = Main      -> "initialize"
                               [] t = Console   -> "console"
                               [] t \in Workers -> "unborn"
                               [] OTHER         -> "listen"]
  /\ out = [t \in Senders |-> <<>>]
  /\ current = [w \in Workers |-> NoMsg]
  /\ seen = [w \in Workers |-> Nothing("afterOne")]
  /\ todo = [t \in Notifiers |-> {}]
  /\ status0 = "result"
  /\ extra = [w \in Workers |-> 0]

-----------------------------------------------------------------------------
(***************************************************************************)
(* Faults: variants of the actions below, each with a plausible bug.  They *)
(* are part of no behaviour of Spec; substituting one for its action is    *)
(* how the sensitivity of the properties to the code is measured.          *)
(***************************************************************************)

\* The message is forgotten as soon as it is in its queue.
EnqueueForgets(t) ==
  /\ pc[t] = "send" /\ out[t] # <<>>
  /\ LET m == Head(out[t])
     IN  queue' = [queue EXCEPT ![Route[m]] = Append(@, m)]
  /\ out' = [out EXCEPT ![t] = Tail(@)]
  /\ Goto(t, "clearOutOfWork")
  /\ UNCHANGED <<workerMap, signalVars, counterVars, flagVars, netVars,
                 current, seen, todo, initVars, histVars>>

\* The message goes to the head of its queue.
EnqueueAtHead(t) ==
  /\ pc[t] = "send" /\ out[t] # <<>>
  /\ LET m == Head(out[t])
     IN  queue' = [queue EXCEPT ![Route[m]] = <<m>> \o @]
  /\ Goto(t, "clearOutOfWork")
  /\ UNCHANGED <<workerMap, signalVars, counterVars, flagVars, netVars,
                 localVars, initVars, histVars>>

\* Only the first queue of the group is looked at.
DequeueNothingEarly(w) ==
  /\ pc[w] = "dequeue" /\ workerMap = "full"
  /\ queue[Group[w][1]] = <<>>
  /\ Goto(w, "readTerminate")
  /\ seen' = [seen EXCEPT ![w] = Nothing("afterAll")]
  /\ UNCHANGED <<queueVars, signalVars, counterVars, flagVars, netVars,
                 out, current, todo, initVars, histVars>>

\* The network is taken to be done.
ReadNetworkIgnored(w) ==
  /\ pc[w] = "readNetwork"
  /\ seen' = [seen EXCEPT ![w].net = TRUE]
  /\ Goto(w, IF seen[w].check = "shutdown" THEN "readQueued" ELSE "readOutOfWork")
  /\ UNCHANGED <<queueVars, signalVars, counterVars, flagVars, netVars,
                 out, current, todo, initVars, histVars>>

\* FinishAll stops the worker after one message as well.
StopsAtOnce(w) ==
  \/ outOfWorkV /\ seen[w].net
  \/ ~ waitForNetwork /\ isAnyTerminate(seen[w].term)

\* terminate False and terminate True have been swapped.
StopsSwapped(w) ==
  LET asked == IF seen[w].check = "afterAll" THEN isFinishOne(seen[w].term)
                                             ELSE seen[w].term = "FinishAll"
  IN  \/ outOfWorkV /\ seen[w].net
      \/ ~ waitForNetwork /\ asked

\* The sleeping workers are not woken.
SetOutOfWorkSilently(w) ==
  /\ pc[w] = "setOutOfWork"
  /\ outOfWorkV' = TRUE
  /\ Goto(w, "waitForMessage")
  /\ UNCHANGED <<queueVars, signalVars, counterVars, terminateV, waitV,
                 netVars, localVars, initVars, histVars>>

\* The MSampleVar is emptied before it is waited for.
WaitForMessageAfresh(w) ==
  /\ pc[w] = "waitForMessage" /\ readyMap = "full"
  /\ sv' = [sv EXCEPT ![w] = FALSE]
  /\ Goto(w, "readSV")
  /\ UNCHANGED <<queueVars, readyMap, counterVars, flagVars, netVars,
                 localVars, initVars, histVars>>

\* incAwakeWorkers is missing after the wait.
WakeupUncounted(w) ==
  /\ pc[w] = "wakeup"
  /\ Goto(w, "dequeue")
  /\ UNCHANGED <<queueVars, signalVars, counterVars, flagVars, netVars,
                 localVars, initVars, histVars>>

\* decLiveWorkers is missing in the Error branch.
DieWithErrorUncounted(w) ==
  /\ pc[w] = "error"
  /\ Goto(w, "dead")
  /\ UNCHANGED <<queueVars, signalVars, counterVars, flagVars, netVars,
                 localVars, initVars, histVars>>

\* The count is compared as if it had not been decremented yet.
ReadLiveOffByOne(w) ==
  /\ pc[w] = "readLive"
  /\ IF liveWorkersV = 1
     THEN Goto(w, "send") /\ \E ms \in FinalSends : out' = [out EXCEPT ![w] = ms]
     ELSE Goto(w, "dead") /\ UNCHANGED out
  /\ UNCHANGED <<queueVars, signalVars, counterVars, flagVars, netVars,
                 current, seen, todo, initVars, histVars>>

\* The endpoints are waited for instead of closed.
CleanupEngineWaits(w) ==
  /\ pc[w] = "cleanupEngine" /\ open = {}
  /\ Goto(w, "signal")
  /\ UNCHANGED <<queueVars, signalVars, counterVars, flagVars, netVars,
                 localVars, initVars, histVars>>

\* The workers are not woken to see the request.
TerminateEngineSilently ==
  /\ pc[Console] = "console"
  /\ terminateV' \in StopModes
  /\ Goto(Console, "done")
  /\ UNCHANGED <<queueVars, signalVars, counterVars, waitV, outOfWorkV,
                 netVars, localVars, initVars, histVars>>

-----------------------------------------------------------------------------
(***************************************************************************)
(* enqueue: add the message to its queue, note that work has arrived, look *)
(* up the worker of the queue and write its MSampleVar.  The lookup first  *)
(* asks isEmptyMVar, which also holds while another sender has the map     *)
(* taken inside withMVar; then the notification is skipped.                *)
(***************************************************************************)
Enqueue(t) ==
  /\ pc[t] = "send" /\ out[t] # <<>>
  /\ LET m == Head(out[t])
     IN  queue' = [queue EXCEPT ![Route[m]] = Append(@, m)]
  /\ Goto(t, "clearOutOfWork")
  /\ UNCHANGED <<workerMap, signalVars, counterVars, flagVars, netVars,
                 localVars, initVars, histVars>>

ClearOutOfWork(t) ==
  /\ pc[t] = "clearOutOfWork"
  /\ outOfWorkV' = FALSE
  /\ Goto(t, "isEmpty")
  /\ UNCHANGED <<queueVars, signalVars, counterVars, terminateV, waitV,
                 netVars, localVars, initVars, histVars>>

IsEmptyMVar(t) ==
  /\ pc[t] = "isEmpty"
  /\ \/ /\ workerMap = "full"
        /\ Goto(t, "takeMap")
        /\ UNCHANGED out
     \/ /\ workerMap # "full"
        /\ out' = [out EXCEPT ![t] = Tail(@)]
        /\ Goto(t, "send")
  /\ UNCHANGED <<queueVars, signalVars, counterVars, flagVars, netVars,
                 current, seen, todo, initVars, histVars>>

TakeMap(t) ==
  /\ pc[t] = "takeMap" /\ workerMap = "full"
  /\ workerMap' = "taken"
  /\ Goto(t, "putMap")
  /\ UNCHANGED <<queue, signalVars, counterVars, flagVars, netVars,
                 localVars, initVars, histVars>>

PutMap(t) ==
  /\ pc[t] = "putMap"
  /\ workerMap' = "full"
  /\ Goto(t, "notify")
  /\ UNCHANGED <<queue, signalVars, counterVars, flagVars, netVars,
                 localVars, initVars, histVars>>

NotifyMessage(t) ==
  /\ pc[t] = "notify" /\ readyMap = "full"
  /\ sv' = [sv EXCEPT ![Owner(Route[Head(out[t])])] = TRUE]
  /\ out' = [out EXCEPT ![t] = Tail(@)]
  /\ Goto(t, "send")
  /\ UNCHANGED <<queueVars, readyMap, counterVars, flagVars, netVars,
                 current, seen, todo, initVars, histVars>>

Send(t) ==
  \/ Enqueue(t) \/ ClearOutOfWork(t) \/ IsEmptyMVar(t)
  \/ TakeMap(t) \/ PutMap(t) \/ NotifyMessage(t)

(***************************************************************************)
(* notifyWorkers: hold the map of MSampleVars while writing every one.     *)
(***************************************************************************)
TakeReady(t) ==
  /\ pc[t] = "notifyWorkers" /\ readyMap = "full"
  /\ readyMap' = "taken"
  /\ todo' = [todo EXCEPT ![t] = Workers]
  /\ Goto(t, "waking")
  /\ UNCHANGED <<queueVars, sv, counterVars, flagVars, netVars,
                 out, current, seen, initVars, histVars>>

WakeOne(t) ==
  /\ pc[t] = "waking"
  /\ \E w \in todo[t] :
       /\ sv' = [sv EXCEPT ![w] = TRUE]
       /\ todo' = [todo EXCEPT ![t] = @ \ {w}]
  /\ UNCHANGED <<queueVars, readyMap, counterVars, flagVars, netVars, pc,
                 out, current, seen, initVars, histVars>>

PutReady(t) ==
  /\ pc[t] = "waking" /\ todo[t] = {}
  /\ readyMap' = "full"
  /\ Goto(t, IF t = Console THEN "done" ELSE "waitForMessage")
  /\ UNCHANGED <<queueVars, sv, counterVars, flagVars, netVars,
                 localVars, initVars, histVars>>

NotifyWorkers(t) == TakeReady(t) \/ WakeOne(t) \/ PutReady(t)

-----------------------------------------------------------------------------
(***************************************************************************)
(* runEngine, on the main thread.                                          *)
(***************************************************************************)
Initialize ==
  /\ pc[Main] = "initialize"
  /\ \E ms \in InitSends : out' = [out EXCEPT ![Main] = ms]
  /\ status0' \in Outcomes \ {"exception"}
  /\ Goto(Main, "send")
  /\ UNCHANGED <<queueVars, signalVars, counterVars, flagVars, netVars,
                 current, seen, todo, histVars>>

Initialized ==
  /\ pc[Main] = "send" /\ out[Main] = <<>>
  /\ Goto(Main, IF Multithreaded THEN "fork" ELSE "configWorkers")
  /\ UNCHANGED <<queueVars, signalVars, counterVars, flagVars, netVars,
                 localVars, initVars, histVars>>

ForkWorker(w) ==
  /\ pc[Main] = "fork" /\ pc[w] = "unborn"
  /\ Goto(w, "incLive")
  /\ UNCHANGED <<queueVars, signalVars, counterVars, flagVars, netVars,
                 localVars, initVars, histVars>>

Forked ==
  /\ pc[Main] = "fork" /\ \A w \in Workers : pc[w] # "unborn"
  /\ Goto(Main, "configWorkers")
  /\ UNCHANGED <<queueVars, signalVars, counterVars, flagVars, netVars,
                 localVars, initVars, histVars>>

ConfigWorkerMap ==
  /\ pc[Main] = "configWorkers"
  /\ workerMap' = "full"
  /\ Goto(Main, "configReady")
  /\ UNCHANGED <<queue, signalVars, counterVars, flagVars, netVars,
                 localVars, initVars, histVars>>

\* In Uniprocess mode the main thread then goes on as the only worker.
ConfigReadyMap ==
  /\ pc[Main] = "configReady"
  /\ readyMap' = "full"
  /\ pc' = IF Multithreaded THEN [pc EXCEPT ![Main] = "waitForEngine"]
           ELSE [t \in Threads |->
                   CASE t = Main                            -> "runMessages"
                     [] t \in Workers /\ pc[t] = "unborn"   -> "incLive"
                     [] OTHER                               -> pc[t]]
  /\ UNCHANGED <<queueVars, sv, counterVars, flagVars, netVars,
                 localVars, initVars, histVars>>

Return ==
  /\ \/ pc[Main] = "waitForEngine" /\ waitV
     \/ pc[Main] = "runMessages" /\ \A w \in Workers : pc[w] = "dead"
  /\ Goto(Main, "returned")
  /\ UNCHANGED <<queueVars, signalVars, counterVars, flagVars, netVars,
                 localVars, initVars, histVars>>

MainStep ==
  \/ Initialize \/ Send(Main) \/ Initialized
  \/ (\E w \in Workers : ForkWorker(w)) \/ Forked
  \/ ConfigWorkerMap \/ ConfigReadyMap \/ Return

-----------------------------------------------------------------------------
(***************************************************************************)
(* runMessages: starting, and handling one message.                        *)
(***************************************************************************)
IncLive(w) ==
  /\ pc[w] = "incLive"
  /\ liveWorkersV' = liveWorkersV + 1
  /\ Goto(w, "incAwake")
  /\ UNCHANGED <<queueVars, signalVars, awakeWorkersV, flagVars, netVars,
                 localVars, initVars, histVars>>

\* The first pass of the loop branches on the status of the initialization.
IncAwake(w) ==
  /\ pc[w] = "incAwake"
  /\ awakeWorkersV' = awakeWorkersV + 1
  /\ \/ /\ status0 = "result"
        /\ Goto(w, "readTerminate")
        /\ seen' = [seen EXCEPT ![w] = Nothing("afterOne")]
     \/ /\ status0 = "error"
        /\ Goto(w, "error")
        /\ UNCHANGED seen
  /\ UNCHANGED <<queueVars, signalVars, liveWorkersV, flagVars, netVars,
                 out, current, todo, initVars, histVars>>

\* The first message of the first non-empty queue of the worker's group.
Dequeue(w) ==
  /\ pc[w] = "dequeue" /\ workerMap = "full"
  /\ \E i \in DOMAIN Group[w] :
       LET q == Group[w][i]
           m == Head(queue[q])
       IN  /\ queue[q] # <<>>
           /\ \A j \in 1..(i - 1) : queue[Group[w][j]] = <<>>
           /\ queue' = [queue EXCEPT ![q] = Tail(@)]
           /\ current' = [current EXCEPT ![w] = m]
           /\ \E ms \in Sends[m] : out' = [out EXCEPT ![w] = ms]
  /\ extra' = IF terminateV = "FinishOne" THEN [extra EXCEPT ![w] = @ + 1]
                                          ELSE extra
  /\ Goto(w, "send")
  /\ UNCHANGED <<workerMap, signalVars, counterVars, flagVars, netVars,
                 seen, todo, initVars>>

DequeueNothing(w) ==
  /\ pc[w] = "dequeue" /\ workerMap = "full"
  /\ \A q \in Managed(w) : queue[q] = <<>>
  /\ Goto(w, "readTerminate")
  /\ seen' = [seen EXCEPT ![w] = Nothing("afterAll")]
  /\ UNCHANGED <<queueVars, signalVars, counterVars, flagVars, netVars,
                 out, current, todo, initVars, histVars>>

\* The handler is done: the processor's status is a result or an error.
Processed(w) ==
  /\ pc[w] = "send" /\ out[w] = <<>> /\ current[w] # NoMsg
  /\ current' = [current EXCEPT ![w] = NoMsg]
  /\ \/ /\ "result" \in Outcomes
        /\ Goto(w, "readTerminate")
        /\ seen' = [seen EXCEPT ![w] = Nothing("afterOne")]
     \/ /\ "error" \in Outcomes
        /\ Goto(w, "error")
        /\ UNCHANGED seen
  /\ UNCHANGED <<queueVars, signalVars, counterVars, flagVars, netVars,
                 out, todo, initVars, histVars>>

\* The handler raises a Haskell exception (error in send, for one), which
\* ends the thread without any of the code that follows.
Crash(w) ==
  /\ pc[w] = "send" /\ current[w] # NoMsg /\ "exception" \in Outcomes
  /\ current' = [current EXCEPT ![w] = NoMsg]
  /\ out' = [out EXCEPT ![w] = <<>>]
  /\ Goto(w, "crashed")
  /\ UNCHANGED <<queueVars, signalVars, counterVars, flagVars, netVars,
                 seen, todo, initVars, histVars>>

(***************************************************************************)
(* terminate and eTerminate: three or four separate reads.                 *)
(***************************************************************************)
ReadTerminate(w) ==
  /\ pc[w] = "readTerminate"
  /\ seen' = [seen EXCEPT ![w].term = terminateV]
  /\ Goto(w, "readNetwork")
  /\ UNCHANGED <<queueVars, signalVars, counterVars, flagVars, netVars,
                 out, current, todo, initVars, histVars>>

ReadNetwork(w) ==
  /\ pc[w] = "readNetwork"
  /\ seen' = [seen EXCEPT ![w].net = (open = {})]
  /\ Goto(w, IF seen[w].check = "shutdown" THEN "readQueued" ELSE "readOutOfWork")
  /\ UNCHANGED <<queueVars, signalVars, counterVars, flagVars, netVars,
                 out, current, todo, initVars, histVars>>

\* The value of terminate, once w has read the last of its three variables.
Stops(w) ==
  LET asked == IF seen[w].check = "afterOne" THEN isFinishOne(seen[w].term)
                                             ELSE isAnyTerminate(seen[w].term)
  IN  \/ outOfWorkV /\ seen[w].net
      \/ ~ waitForNetwork /\ asked

ReadOutOfWork(w) ==
  /\ pc[w] = "readOutOfWork"
  /\ \/ Stops(w) /\ Goto(w, "decLive")
     \/ ~ Stops(w) /\ seen[w].check = "afterOne" /\ Goto(w, "dequeue")
     \/ ~ Stops(w) /\ seen[w].check = "afterAll" /\ Goto(w, "decAwake")
  /\ UNCHANGED <<queueVars, signalVars, counterVars, flagVars, netVars,
                 localVars, initVars, histVars>>

(***************************************************************************)
(* Out of messages: go to sleep, and shut the others down if nobody can    *)
(* produce work any more (isShutdownTime, shutdownWorkers).                *)
(***************************************************************************)
DecAwake(w) ==
  /\ pc[w] = "decAwake"
  /\ awakeWorkersV' = awakeWorkersV - 1
  /\ seen' = [seen EXCEPT ![w] = Nothing("shutdown")]
  /\ Goto(w, "readTerminate")
  /\ UNCHANGED <<queueVars, signalVars, liveWorkersV, flagVars, netVars,
                 out, current, todo, initVars, histVars>>

ReadQueued(w) ==
  /\ pc[w] = "readQueued"
  /\ seen' = [seen EXCEPT ![w].none = NoneQueued]
  /\ Goto(w, "readAwake")
  /\ UNCHANGED <<queueVars, signalVars, counterVars, flagVars, netVars,
                 out, current, todo, initVars, histVars>>

\* The value of isShutdownTime, once w has read the last of its variables.
IsShutdownTime(w) ==
  /\ \/ seen[w].net
     \/ ~ waitForNetwork /\ isAnyTerminate(seen[w].term)
  /\ awakeWorkersV = 0
  /\ seen[w].none

ReadAwake(w) ==
  /\ pc[w] = "readAwake"
  /\ Goto(w, IF IsShutdownTime(w) THEN "setOutOfWork" ELSE "waitForMessage")
  /\ UNCHANGED <<queueVars, signalVars, counterVars, flagVars, netVars,
                 localVars, initVars, histVars>>

SetOutOfWork(w) ==
  /\ pc[w] = "setOutOfWork"
  /\ outOfWorkV' = TRUE
  /\ Goto(w, "notifyWorkers")
  /\ UNCHANGED <<queueVars, signalVars, counterVars, terminateV, waitV,
                 netVars, localVars, initVars, histVars>>

WaitForMessage(w) ==
  /\ pc[w] = "waitForMessage" /\ readyMap = "full"
  /\ Goto(w, "readSV")
  /\ UNCHANGED <<queueVars, signalVars, counterVars, flagVars, netVars,
                 localVars, initVars, histVars>>

ReadSV(w) ==
  /\ pc[w] = "readSV" /\ sv[w]
  /\ sv' = [sv EXCEPT ![w] = FALSE]
  /\ Goto(w, "wakeup")
  /\ UNCHANGED <<queueVars, readyMap, counterVars, flagVars, netVars,
                 localVars, initVars, histVars>>

Wakeup(w) ==
  /\ pc[w] = "wakeup"
  /\ awakeWorkersV' = awakeWorkersV + 1
  /\ Goto(w, "dequeue")
  /\ UNCHANGED <<queueVars, signalVars, liveWorkersV, flagVars, netVars,
                 localVars, initVars, histVars>>

(***************************************************************************)
(* Dying: the Error branch just dies; otherwise the worker that reads a    *)
(* live count of 0 finalizes the program, closes the endpoints and signals *)
(* waitV.                                                                  *)
(***************************************************************************)
DieWithError(w) ==
  /\ pc[w] = "error"
  /\ liveWorkersV' = liveWorkersV - 1
  /\ Goto(w, "dead")
  /\ UNCHANGED <<queueVars, signalVars, awakeWorkersV, flagVars, netVars,
                 localVars, initVars, histVars>>

DecLive(w) ==
  /\ pc[w] = "decLive"
  /\ liveWorkersV' = liveWorkersV - 1
  /\ Goto(w, "readLive")
  /\ UNCHANGED <<queueVars, signalVars, awakeWorkersV, flagVars, netVars,
                 localVars, initVars, histVars>>

\* The last worker runs finalize, whose atExit trigger may send messages.
ReadLive(w) ==
  /\ pc[w] = "readLive"
  /\ \/ /\ liveWorkersV = 0
        /\ \E ms \in FinalSends : out' = [out EXCEPT ![w] = ms]
        /\ Goto(w, "send")
     \/ /\ liveWorkersV # 0
        /\ Goto(w, "dead")
        /\ UNCHANGED out
  /\ UNCHANGED <<queueVars, signalVars, counterVars, flagVars, netVars,
                 current, seen, todo, initVars, histVars>>

\* Finalization, or the notifications of a close, are over.
Finalized(w) ==
  /\ pc[w] = "send" /\ out[w] = <<>> /\ current[w] = NoMsg
  /\ Goto(w, "cleanupEngine")
  /\ UNCHANGED <<queueVars, signalVars, counterVars, flagVars, netVars,
                 localVars, initVars, histVars>>

\* genericClose: the endpoint is deregistered and removed, and only then are
\* its subscribers notified, by thread t.
CloseEndpoint(t, l) ==
  /\ open' = open \ {l}
  /\ \E ms \in CloseSends[l] : out' = [out EXCEPT ![t] = ms]
  /\ Goto(t, "send")

\* cleanupEngine closes every endpoint still registered, one at a time, the
\* internal ones first.
CleanupEngine(w) ==
  /\ pc[w] = "cleanupEngine"
  /\ \/ /\ open = {}
        /\ Goto(w, "signal")
        /\ UNCHANGED <<open, out>>
     \/ \E l \in open :
          /\ l \in External => open \subseteq External
          /\ CloseEndpoint(w, l)
  /\ UNCHANGED <<queueVars, signalVars, counterVars, flagVars, wire,
                 current, seen, todo, initVars, histVars>>

Signal(w) ==
  /\ pc[w] = "signal"
  /\ waitV' = TRUE
  /\ Goto(w, "dead")
  /\ UNCHANGED <<queueVars, signalVars, counterVars, terminateV, outOfWorkV,
                 netVars, localVars, initVars, histVars>>

WorkerStep(w) ==
  \/ IncLive(w) \/ IncAwake(w)
  \/ Dequeue(w) \/ DequeueNothing(w) \/ Send(w) \/ Processed(w) \/ Crash(w)
  \/ ReadTerminate(w) \/ ReadNetwork(w) \/ ReadOutOfWork(w)
  \/ DecAwake(w) \/ ReadQueued(w) \/ ReadAwake(w) \/ SetOutOfWork(w)
  \/ NotifyWorkers(w) \/ WaitForMessage(w) \/ ReadSV(w) \/ Wakeup(w)
  \/ DieWithError(w) \/ DecLive(w) \/ ReadLive(w)
  \/ Finalized(w) \/ CleanupEngine(w) \/ Signal(w)

-----------------------------------------------------------------------------
(***************************************************************************)
(* Listeners (runNEndpoint) and the console (terminateEngine).             *)
(***************************************************************************)
Receive(l) ==
  /\ pc[l] = "listen" /\ l \in open
  /\ \E m \in wire :
       /\ wire' = wire \ {m}
       /\ out' = [out EXCEPT ![l] = <<m>>]
  /\ Goto(l, "send")
  /\ UNCHANGED <<queueVars, signalVars, counterVars, flagVars, open,
                 current, seen, todo, initVars, histVars>>

Received(l) ==
  /\ pc[l] = "send" /\ out[l] = <<>>
  /\ Goto(l, "listen")
  /\ UNCHANGED <<queueVars, signalVars, counterVars, flagVars, netVars,
                 localVars, initVars, histVars>>

\* endpointError calls close, which finds external endpoints only; the listener
\* itself notifies the subscribers, and then ends.
EndpointError(l) ==
  /\ pc[l] = "listen" /\ l \in open
  /\ \/ l \in External /\ CloseEndpoint(l, l)
     \/ l \notin External /\ Goto(l, "stopped") /\ UNCHANGED <<open, out>>
  /\ UNCHANGED <<queueVars, signalVars, counterVars, flagVars, wire,
                 current, seen, todo, initVars, histVars>>

\* The end of a listener whose endpoint was closed, by itself or by a worker.
EndPointClosed(l) ==
  /\ pc[l] = "listen" /\ l \notin open
  /\ Goto(l, "stopped")
  /\ UNCHANGED <<queueVars, signalVars, counterVars, flagVars, netVars,
                 localVars, initVars, histVars>>

ListenerStep(l) ==
  Receive(l) \/ Send(l) \/ Received(l) \/ EndpointError(l) \/ EndPointClosed(l)

TerminateEngine ==
  /\ pc[Console] = "console"
  /\ terminateV' \in StopModes
  /\ Goto(Console, "notifyWorkers")
  /\ UNCHANGED <<queueVars, signalVars, counterVars, waitV, outOfWorkV,
                 netVars, localVars, initVars, histVars>>

ConsoleStep == TerminateEngine \/ NotifyWorkers(Console)

Next ==
  \/ MainStep
  \/ \E w \in Workers : WorkerStep(w)
  \/ \E l \in Listeners : ListenerStep(l)
  \/ ConsoleStep

Spec == Init /\ [][Next]_vars

\* Every runnable thread is eventually scheduled.  Receiving a message, an
\* endpoint error and the call of terminateEngine are up to the environment.
Fairness ==
  /\ WF_vars(MainStep)
  /\ \A w \in Workers : WF_vars(WorkerStep(w))
  /\ \A l \in Listeners : WF_vars(Send(l) \/ Received(l) \/ EndPointClosed(l))
  /\ WF_vars(NotifyWorkers(Console))

FairSpec == Spec /\ Fairness
-----------------------------------------------------------------------------
(***************************************************************************)
(* Properties.                                                             *)
(***************************************************************************)

\* Where each thread can be.
WorkerPC == Sending \cup
  {"unborn", "incLive", "incAwake", "dequeue", "readTerminate", "readNetwork",
   "readOutOfWork", "decAwake", "readQueued", "readAwake", "setOutOfWork",
   "notifyWorkers", "waking", "waitForMessage", "readSV", "wakeup", "error",
   "decLive", "readLive", "cleanupEngine", "signal", "dead", "crashed"}
MainPC == Sending \cup
  {"initialize", "fork", "configWorkers", "configReady", "waitForEngine",
   "runMessages", "returned"}
ListenerPC == Sending \cup {"listen", "stopped"}
ConsolePC  == {"console", "notifyWorkers", "waking", "done"}

PCs == WorkerPC \cup MainPC \cup ListenerPC \cup ConsolePC

ControlOK ==
  /\ pc \in [Threads -> PCs]
  /\ \A w \in Workers : pc[w] \in WorkerPC
  /\ \A l \in Listeners : pc[l] \in ListenerPC
  /\ pc[Main] \in MainPC
  /\ pc[Console] \in ConsolePC
  /\ \A t \in Senders : pc[t] \in Posting => out[t] # <<>>

DataOK ==
  /\ queue \in [Queues -> Seq(Msgs)]
  /\ workerMap \in MVar /\ readyMap \in MVar
  /\ terminateV \in Terminate /\ waitV \in BOOLEAN /\ outOfWorkV \in BOOLEAN
  /\ sv \in [Workers -> BOOLEAN]
  /\ awakeWorkersV \in Int /\ liveWorkersV \in Int
  /\ open \in SUBSET Listeners /\ wire \in SUBSET NetMsgs
  /\ out \in [Senders -> Seq(Msgs)]
  /\ current \in [Workers -> Msgs \cup {NoMsg}]
  /\ seen \in [Workers -> Seen]
  /\ todo \in [Notifiers -> SUBSET Workers]
  /\ status0 \in {"result", "error"}
  /\ extra \in [Workers -> Nat]

\* Every variable has its type, and every thread is at a step of its own code.
TypeOK == ControlOK /\ DataOK

\* w is past the end of its loop: it runs the program's atExit trigger.
Finalizing(w) == pc[w] \in Sending /\ current[w] = NoMsg
\* w has left the loop, or never entered it.
Left(w) == Finalizing(w) \/ pc[w] \in
  {"error", "decLive", "readLive", "cleanupEngine", "signal", "dead", "crashed"}
\* w has told the others that it is about to block.
Asleep(w) ==
  \/ pc[w] \in {"readQueued", "readAwake", "setOutOfWork", "notifyWorkers",
                "waking", "waitForMessage", "readSV", "wakeup"}
  \/ pc[w] \in {"readTerminate", "readNetwork"} /\ seen[w].check = "shutdown"

CountedLive(w) ==
  /\ pc[w] \notin {"unborn", "incLive", "readLive", "cleanupEngine", "signal", "dead"}
  /\ ~ Finalizing(w)
CountedAwake(w) ==
  /\ pc[w] \notin {"unborn", "incLive", "incAwake"}
  /\ ~ Asleep(w)

\* The counters are exact at every step of every thread: liveWorkersV counts
\* the workers between incLiveWorkers and decLiveWorkers; awakeWorkersV counts
\* the workers that started and are not about to block, the dead included.
CountersAgree ==
  /\ liveWorkersV  = Cardinality({w \in Workers : CountedLive(w)})
  /\ awakeWorkersV = Cardinality({w \in Workers : CountedAwake(w)})

\* t has added a message for w and has still to write the MSampleVar of w, or
\* is about to write them all.
WillWake(t, w) ==
  \/ t \in Senders /\ pc[t] \in Posting /\ Owner(Route[Head(out[t])]) = w
  \/ t \in Notifiers /\ pc[t] = "notifyWorkers"
  \/ t \in Notifiers /\ pc[t] = "waking" /\ w \in todo[t]

\* No wakeup is lost: while a worker is blocked on its MSampleVar and one of
\* its queues has a message, somebody is on the way to wake it (messageReadyMap:
\* "the worker's SV will be populated, unblocking the worker").
NoLostWakeup ==
  \A w \in Workers :
    /\ pc[w] = "readSV" /\ ~ sv[w]
    /\ \E q \in Managed(w) : queue[q] # <<>>
    => \E t \in Threads : WillWake(t, w)

\* Some worker always does the cleanup: the engine is not left without workers
\* and without the signal of waitV.
LastWorkerSignals ==
  (\A w \in Workers : pc[w] \in {"dead", "crashed"}) => waitV

\* FinishOne, "finish one message, then die": once the console has set it, a
\* worker takes at most one more message.
FinishOneBound == \A w \in Workers : extra[w] <= 1

\* The messages with which an engine ends: those of finalization and those
\* that tell subscribers of a closed endpoint.  They may be sent when the worker
\* that would take them has gone.
LastWords ==
  {m \in Msgs : \E ms \in FinalSends \cup UNION {CloseSends[l] : l \in Listeners} :
                 \E i \in DOMAIN ms : ms[i] = m}

OnlyLastWords == \A q \in Queues : queue[q] \in Seq(LastWords)

\* Without a request to stop, a signalled engine has no message left but those
\* that were sent in closing it.
DrainedAtEnd == waitV /\ terminateV = "Off" => OnlyLastWords

\* FinishAll, "drain all queues, then die": a signalled engine has none left but
\* those that were sent in closing it.
FinishAllDrains == waitV /\ terminateV = "FinishAll" => OnlyLastWords

\* terminateEngine works whatever the workers were doing when it was called:
\* every worker dies and the thread that started the engine returns.
StopTakesEffect ==
  terminateV # "Off" ~>
    pc[Main] = "returned" /\ \A w \in Workers : pc[w] = "dead"

\* An engine whose handlers send finitely many messages completes, and the
\* thread that started it returns.
Terminates == <>(pc[Main] = "returned")

\* Every message is eventually taken, unless the engine was asked to stop.
EveryMessageTaken ==
  \A q \in Queues : queue[q] # <<>> ~> (queue[q] = <<>> \/ terminateV # "Off")

\* outOfWorkV: "when all message queues are empty and all workers are waiting for
\* a message the local engine is out of work".  As a promise: an engine with
\* nothing left to do finds that out.
Quiet ==
  /\ NoneQueued /\ open = {}
  /\ \A w \in Workers : Left(w) \/ (pc[w] = "readSV" /\ ~ sv[w])
QuietIsOutOfWork == Quiet ~> (outOfWorkV \/ \A w \in Workers : Left(w))

-----------------------------------------------------------------------------
\* What t has still to send are last words at most.
SaysLast(t) == out[t] \in Seq(LastWords)

\* The engine implements Quiescence: an open listener is a source, and so is
\* one that is still delivering what it received; Main is one while it runs
\* the program's initialization.
Active ==
  {s \in Listeners \cup {Main} :
     s \in open \/ pc[s] = "initialize" \/ ~ SaysLast(s)}

Abstract == INSTANCE Quiescence
  WITH Sources   <- Listeners \cup {Main},
       Farewells <- LastWords,
       retired   <- [w \in Workers |-> Left(w)],
       active    <- Active,
       stopping  <- terminateV # "Off"

\* Every step of the loop is a step of the abstract loop or no step at all:
\* in particular no worker retires while there is work left, other than what an
\* endpoint that was closed has told its subscribers.
ImplementsQuiescence == Abstract!Spec
=============================================================================
