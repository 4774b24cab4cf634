--------------------------- MODULE ListenerRuntime ---------------------------
(***************************************************************************)
(* Listeners, message queues and the message loop of the C++ runtime       *)
(* (runtime/cpp/Listener.hpp, the execution loop of Engine.hpp and         *)
(* MessageProcessor.hpp).  Listener threads receive messages, pass them    *)
(* through the buffer of their endpoint into the engine's queues and       *)
(* signal the condition variable that the engine's thread waits on.        *)
(*                                                                         *)
(* A Nanomsg listener has one thread.  The handlers of an Asio listener    *)
(* run on the threads of the I/O service, one connection's at a time.      *)
(***************************************************************************)
EXTENDS EndpointBuffers, MessageQueues, FiniteSets

CONSTANTS
  Nanomsgs,        \* Nanomsg listeners, and their threads
  Asios,           \* Asio listeners
  ServiceThreads,  \* threads that run the I/O service
  Connections,     \* connections that Asio listeners may accept
  Owner,           \* the listener that accepts each connection
  Setups,          \* the choices for the listeners that were given valid arguments, for
                   \* those whose processor is internal, for the kind of queues, and
                   \* bounds: how many messages are received or sent
  BufferMax,       \* the maximum of the buffer specification
  Targets,         \* <<address, trigger>> of the messages there may be
  Table,           \* the triggers in the dispatch table
  Subscribed,      \* the targets subscribed to each listener's notifications
  NoConn, NoThread

Listeners == Nanomsgs \cup Asios
Threads   == Nanomsgs \cup ServiceThreads

Message(target, n) == [addr |-> target[1], id |-> target[2], val |-> n]
Messages == [addr : {x[1] : x \in Targets}, id : {x[2] : x \in Targets}, val : Nat]

ASSUME ListenerAssumption ==
  /\ Nanomsgs \cap (Asios \cup ServiceThreads) = {}
  /\ Connections \cap Listeners = {}
  /\ IsFiniteSet(Threads)
  /\ Owner \in [Connections -> Asios]
  /\ NoConn \notin Connections /\ NoThread \notin Threads /\ NoValue \notin Messages
  /\ Setups \subseteq [valid : SUBSET Listeners, internal : SUBSET Listeners,
                  kind : QueueKinds, bound : Nat]
  /\ BufferMax \in Int
  /\ Subscribed \in Seq(Targets)

VARIABLES
  queues,           \* the engine's MessageQueues
  setup,            \* a member of Setups
  buffer, holder,   \* the buffer of each listener's endpoint, and who locks it
  msgAvailable,     \* the flag of each ListenerControl
  terminated,       \* the flag of each Nanomsg listener
  connections,      \* the connection list of each Asio listener
  cstate,           \* what the I/O service has pending for each connection
  tpc,              \* where each thread is
  local,            \* its local variables
  wpc, wkey, wmsg,  \* the thread in runMessages
  crashed,          \* an exception left a thread, or a stack overflowed
  \* history
  serial,           \* messages so far; they are numbered
  got,              \* valid messages from each connection or Nanomsg socket
  taken,            \* messages the engine has dequeued
  late              \* messages a Nanomsg listener received after terminate()

listenerVars == <<setup, buffer, holder, msgAvailable, terminated>>
connVars     == <<connections, cstate>>
threadVars   == <<tpc, local>>
workerVars   == <<wpc, wkey, wmsg>>
historyVars  == <<serial, got, taken, late>>
vars == <<queues, listenerVars, connVars, threadVars, workerVars, crashed, historyVars>>

Sources  == Nanomsgs \cup Connections

Idle(l) == [lst |-> l, conn |-> NoConn, msg |-> NoValue, at |-> 1]

Init ==
  /\ setup \in Setups
  /\ queues = NewQueues(setup.kind)
  /\ buffer = [l \in Listeners |-> NewBuffer("ContainerEPBufferMT", BufferMax)]
  /\ holder = [l \in Listeners |-> NoThread]
  /\ msgAvailable = [l \in Listeners |-> FALSE]
  /\ terminated = [l \in Nanomsgs |-> FALSE]
  /\ connections = [l \in Asios |-> {}]
  /\ cstate = [c \in Connections |-> "none"]
  /\ tpc = [t \in Threads |-> IF t \in ServiceThreads THEN "run"
                           ELSE IF t \in setup.valid THEN "recv" ELSE "ended"]
  /\ local = [t \in Threads |-> Idle(t)]
  /\ wpc = "choose" /\ wkey = NoQueue /\ wmsg = NoValue
  /\ crashed = FALSE
  /\ serial = 0
  /\ got = [s \in Sources |-> <<>>]
  /\ taken = <<>>
  /\ late = [l \in Nanomsgs |-> 0]

-----------------------------------------------------------------------------
(* Notifications and processors *)

\* notifyEvent sends to the subscribers one after the other; this is one of them.
NotifyNext(t) ==
  /\ local[t].at <= Len(Subscribed) /\ serial < setup.bound
  /\ queues' = Enqueued(setup.kind, queues, Message(Subscribed[local[t].at], serial + 1))
  /\ serial' = serial + 1
  /\ local' = [local EXCEPT ![t].at = @ + 1]
  /\ UNCHANGED <<listenerVars, connVars, tpc, workerVars, crashed, got, taken, late>>

\* append, the result of which is ignored, by whoever may lock the buffer.
AppendValue(t) ==
  LET l == local[t].lst IN
  /\ tpc[t] = "append" /\ holder[l] = NoThread
  /\ buffer' = [buffer EXCEPT ![l] = Put(@, local[t].msg)]
  /\ tpc' = [tpc EXCEPT ![t] = "process"]
  /\ local' = [local EXCEPT ![t].msg = NoValue, ![t].at = 1]
  /\ UNCHANGED <<queues, setup, holder, msgAvailable, terminated, connVars,
                 workerVars, crashed, historyVars>>

\* InternalListenerProcessor: enqueue locks the buffer, ...
LockBuffer(t) ==
  LET l == local[t].lst IN
  /\ tpc[t] = "process" /\ l \in setup.internal /\ holder[l] = NoThread
  /\ holder' = [holder EXCEPT ![l] = t]
  /\ tpc' = [tpc EXCEPT ![t] = "transfer"]
  /\ UNCHANGED <<queues, setup, buffer, msgAvailable, terminated, connVars, local,
                 workerVars, crashed, historyVars>>

\* ... copies what it holds, one by one, into the queues, ...
TransferNext(t) ==
  LET l == local[t].lst IN
  /\ tpc[t] = "transfer" /\ local[t].at <= Len(buffer[l].contents)
  /\ queues' = Enqueued(setup.kind, queues, buffer[l].contents[local[t].at])
  /\ local' = [local EXCEPT ![t].at = @ + 1]
  /\ UNCHANGED <<listenerVars, connVars, tpc, workerVars, crashed, historyVars>>

\* Fault, used in no specification: the buffer is unlocked and not cleared.
UnlockOnly(t) ==
  LET l == local[t].lst IN
  /\ tpc[t] = "transfer" /\ local[t].at > Len(buffer[l].contents)
  /\ holder' = [holder EXCEPT ![l] = NoThread]
  /\ tpc' = [tpc EXCEPT ![t] = "signal"]
  /\ UNCHANGED <<queues, setup, buffer, msgAvailable, terminated, connVars, local,
                 workerVars, crashed, historyVars>>

\* Fault: the buffer is cleared and stays locked.
ClearOnly(t) ==
  LET l == local[t].lst IN
  /\ tpc[t] = "transfer" /\ local[t].at > Len(buffer[l].contents)
  /\ buffer' = [buffer EXCEPT ![l] = Drained(@)]
  /\ tpc' = [tpc EXCEPT ![t] = "signal"]
  /\ UNCHANGED <<queues, setup, holder, msgAvailable, terminated, connVars, local,
                 workerVars, crashed, historyVars>>

\* ... clears and unlocks it.
ClearBuffer(t) ==
  LET l == local[t].lst IN
  /\ tpc[t] = "transfer" /\ local[t].at > Len(buffer[l].contents)
  /\ buffer' = [buffer EXCEPT ![l] = Drained(@)]
  /\ holder' = [holder EXCEPT ![l] = NoThread]
  /\ tpc' = [tpc EXCEPT ![t] = "signal"]
  /\ UNCHANGED <<queues, setup, msgAvailable, terminated, connVars, local,
                 workerVars, crashed, historyVars>>

\* ExternalListenerProcessor: tell the subscribers; the buffer stays as it is.
TellSubscriber(t) ==
  tpc[t] = "process" /\ local[t].lst \notin setup.internal /\ NotifyNext(t)

ToldSubscribers(t) ==
  /\ tpc[t] = "process" /\ local[t].lst \notin setup.internal
  /\ local[t].at > Len(Subscribed)
  /\ tpc' = [tpc EXCEPT ![t] = "signal"]
  /\ UNCHANGED <<queues, listenerVars, connVars, local, workerVars, crashed, historyVars>>

\* messageAvailable: set the flag, which nothing resets or reads, under the mutex
\* and notify one waiter; then the thread is ready for the next message.
MessageAvailable(t) ==
  /\ tpc[t] = "signal"
  /\ msgAvailable' = [msgAvailable EXCEPT ![local[t].lst] = TRUE]
  /\ wpc' = IF wpc = "waiting" THEN "woken" ELSE wpc
  /\ tpc' = [tpc EXCEPT ![t] = IF t \in Nanomsgs THEN "recv" ELSE "run"]
  /\ local' = [local EXCEPT ![t] = Idle(t)]
  /\ cstate' = IF t \in Nanomsgs THEN cstate
               ELSE [cstate EXCEPT ![local[t].conn] = "reading"]
  /\ UNCHANGED <<queues, setup, buffer, holder, terminated, connections, wkey, wmsg,
                 crashed, historyVars>>

Process(t) ==
  \/ AppendValue(t) \/ LockBuffer(t) \/ TransferNext(t) \/ ClearBuffer(t)
  \/ TellSubscriber(t) \/ ToldSubscribers(t) \/ MessageAvailable(t)

-----------------------------------------------------------------------------
(* What arrives at thread t for listener l from source s.  unpack may find *)
(* a message, find none, or throw.                                         *)

Arrived(t, l, s) ==
  /\ serial < setup.bound
  /\ \E target \in Targets :
       LET m == Message(target, serial + 1) IN
       /\ got' = [got EXCEPT ![s] = Append(@, m)]
       /\ local' = [local EXCEPT ![t] = [lst |-> l, conn |-> IF s = l THEN NoConn ELSE s,
                                         msg |-> m, at |-> 1]]
  /\ serial' = serial + 1
  /\ tpc' = [tpc EXCEPT ![t] = "append"]

(* The thread of a Nanomsg listener *)

\* Fault, used in no specification: the flag is not tested.
TestNothing(l) ==
  /\ tpc[l] = "recv"
  /\ tpc' = [tpc EXCEPT ![l] = "receiving"]
  /\ UNCHANGED <<queues, listenerVars, connVars, local, workerVars, crashed, historyVars>>

\* The loop tests the flag, ...
Test(l) ==
  /\ tpc[l] = "recv"
  /\ tpc' = [tpc EXCEPT ![l] = IF terminated[l] THEN "ended" ELSE "receiving"]
  /\ UNCHANGED <<queues, listenerVars, connVars, local, workerVars, crashed, historyVars>>

\* ... and waits for a message.
Receive(l) ==
  /\ tpc[l] = "receiving"
  /\ Arrived(l, l, l)
  /\ late' = [late EXCEPT ![l] = IF terminated[l] THEN @ + 1 ELSE @]
  /\ UNCHANGED <<queues, listenerVars, connVars, workerVars, crashed, taken>>

ReceiveNothing(l) ==
  /\ tpc[l] = "receiving"
  /\ tpc' = [tpc EXCEPT ![l] = "recv"]
  /\ UNCHANGED <<queues, listenerVars, connVars, local, workerVars, crashed, historyVars>>

\* nn_recv fails: the listener terminates itself.
ReceiveError(l) ==
  /\ tpc[l] = "receiving"
  /\ terminated' = [terminated EXCEPT ![l] = TRUE]
  /\ tpc' = [tpc EXCEPT ![l] = "recv"]
  /\ UNCHANGED <<queues, setup, buffer, holder, msgAvailable, connVars, local,
                 workerVars, crashed, historyVars>>

\* Somebody calls terminate().
Terminate(l) ==
  /\ ~ terminated[l]
  /\ terminated' = [terminated EXCEPT ![l] = TRUE]
  /\ UNCHANGED <<queues, setup, buffer, holder, msgAvailable, connVars, threadVars,
                 workerVars, crashed, historyVars>>

-----------------------------------------------------------------------------
(* Asio listeners *)

\* acceptConnection posts an accept and calls itself, whatever comes of it.
PostAccept(c) ==
  /\ cstate[c] = "none" /\ Owner[c] \in setup.valid
  /\ cstate' = [cstate EXCEPT ![c] = "accepting"]
  /\ UNCHANGED <<queues, listenerVars, connections, threadVars, workerVars, crashed, historyVars>>

\* The recursion has no end but that of the stack.
OverflowStack ==
  /\ Asios \cap setup.valid # {} /\ \A c \in Connections : cstate[c] # "none"
  /\ crashed' = TRUE
  /\ UNCHANGED <<queues, listenerVars, connVars, threadVars, workerVars, historyVars>>

\* A service thread takes up the completion of an accept or a read.
Accepted(t, c) ==
  /\ tpc[t] = "run" /\ cstate[c] = "accepting"
  /\ cstate' = [cstate EXCEPT ![c] = "handled"]
  /\ local' = [local EXCEPT ![t] = [lst |-> Owner[c], conn |-> c, msg |-> NoValue, at |-> 1]]
  /\ tpc' = [tpc EXCEPT ![t] = "register"]
  /\ UNCHANGED <<queues, listenerVars, connections, workerVars, crashed, historyVars>>

AcceptFailed(t, c) ==
  /\ tpc[t] = "run" /\ cstate[c] = "accepting"
  /\ cstate' = [cstate EXCEPT ![c] = "failed"]
  /\ UNCHANGED <<queues, listenerVars, connections, threadVars, workerVars, crashed, historyVars>>

RegisterConnection(t) ==
  /\ tpc[t] = "register"
  /\ connections' = [connections EXCEPT ![local[t].lst] = @ \cup {local[t].conn}]
  /\ tpc' = [tpc EXCEPT ![t] = "announce"]
  /\ UNCHANGED <<queues, listenerVars, cstate, local, workerVars, crashed, historyVars>>

\* The subscribers of SocketAccept are told, then the first read is posted.
Announce(t) == tpc[t] = "announce" /\ NotifyNext(t)

ReceiveMessages(t) ==
  /\ tpc[t] = "announce" /\ local[t].at > Len(Subscribed)
  /\ cstate' = [cstate EXCEPT ![local[t].conn] = "reading"]
  /\ tpc' = [tpc EXCEPT ![t] = "run"]
  /\ local' = [local EXCEPT ![t] = Idle(t)]
  /\ UNCHANGED <<queues, listenerVars, connections, workerVars, crashed, historyVars>>

ReadMessage(t, c) ==
  /\ tpc[t] = "run" /\ cstate[c] = "reading"
  /\ Arrived(t, Owner[c], c)
  /\ cstate' = [cstate EXCEPT ![c] = "handled"]
  /\ UNCHANGED <<queues, listenerVars, connections, workerVars, crashed, taken, late>>

ReadError(t, c) ==
  /\ tpc[t] = "run" /\ cstate[c] = "reading"
  /\ cstate' = [cstate EXCEPT ![c] = "handled"]
  /\ local' = [local EXCEPT ![t] = [lst |-> Owner[c], conn |-> c, msg |-> NoValue, at |-> 1]]
  /\ tpc' = [tpc EXCEPT ![t] = "deregister"]
  /\ UNCHANGED <<queues, listenerVars, connections, workerVars, crashed, historyVars>>

\* Fault, used in no specification: the connection that failed stays in the list.
ForgetDeregister(t) ==
  /\ tpc[t] = "deregister"
  /\ cstate' = [cstate EXCEPT ![local[t].conn] = "failed"]
  /\ tpc' = [tpc EXCEPT ![t] = "run"]
  /\ local' = [local EXCEPT ![t] = Idle(t)]
  /\ UNCHANGED <<queues, listenerVars, connections, workerVars, crashed, historyVars>>

DeregisterConnection(t) ==
  /\ tpc[t] = "deregister"
  /\ connections' = [connections EXCEPT ![local[t].lst] = @ \ {local[t].conn}]
  /\ cstate' = [cstate EXCEPT ![local[t].conn] = "failed"]
  /\ tpc' = [tpc EXCEPT ![t] = "run"]
  /\ local' = [local EXCEPT ![t] = Idle(t)]
  /\ UNCHANGED <<queues, listenerVars, workerVars, crashed, historyVars>>

\* unpack throws: no thread catches it.
UnpackThrows ==
  /\ \/ \E l \in Nanomsgs : tpc[l] = "receiving"
     \/ \E t \in ServiceThreads, c \in Connections : tpc[t] = "run" /\ cstate[c] = "reading"
  /\ crashed' = TRUE
  /\ UNCHANGED <<queues, listenerVars, connVars, threadVars, workerVars, historyVars>>

-----------------------------------------------------------------------------
(* runMessages *)

\* Nothing sets terminateV and nothing registers a listener.
TerminateV      == FALSE
ListenerCounter == 0
WaitForNetwork  == FALSE
NetworkDone     == ListenerCounter # 0
CtrlTerminate   == (NetworkDone \/ ~ WaitForNetwork) /\ TerminateV

Done == IF CtrlTerminate THEN "returned" ELSE "wait"

\* dequeue chooses a queue, ...
ChooseQueue ==
  /\ wpc = "choose"
  /\ wkey' = NonEmptyQueue(setup.kind, queues)
  /\ wpc' = IF wkey' = NoQueue THEN Done ELSE "pop"
  /\ UNCHANGED <<queues, listenerVars, connVars, threadVars, wmsg, crashed, historyVars>>

\* ... and pops from it, if it is not empty then.
PopMessage ==
  /\ wpc = "pop" /\ queues[wkey] # <<>>
  /\ wmsg' = Head(queues[wkey])
  /\ queues' = Popped(queues, wkey)
  /\ taken' = Append(taken, wmsg')
  /\ wkey' = NoQueue
  /\ wpc' = "process"
  /\ UNCHANGED <<listenerVars, connVars, threadVars, crashed, serial, got, late>>

PopNothing ==
  /\ wpc = "pop" /\ queues[wkey] = <<>>
  /\ wkey' = NoQueue
  /\ wpc' = Done
  /\ UNCHANGED <<queues, listenerVars, connVars, threadVars, wmsg, crashed, historyVars>>

\* The trigger runs, and may send a message.
RunTrigger ==
  /\ wpc = "process" /\ wmsg.id \in Table
  /\ \/ UNCHANGED <<queues, serial>>
     \/ /\ serial < setup.bound
        /\ serial' = serial + 1
        /\ \E target \in Targets : queues' = Enqueued(setup.kind, queues, Message(target, serial'))
  /\ wmsg' = NoValue
  /\ wpc' = "choose"
  /\ UNCHANGED <<listenerVars, connVars, threadVars, wkey, crashed, got, taken, late>>

\* A trigger that is not in the table is an error, and runMessages returns.
UnknownTrigger ==
  /\ wpc = "process" /\ wmsg.id \notin Table
  /\ wmsg' = NoValue
  /\ wpc' = "returned"
  /\ UNCHANGED <<queues, listenerVars, connVars, threadVars, wkey, crashed, historyVars>>

\* waitForMessage waits while the predicate of runMessages holds.
WaitPredicate == TRUE

WaitForMessage ==
  /\ wpc \in {"wait", "woken"}
  /\ wpc' = IF WaitPredicate THEN "waiting" ELSE "choose"
  /\ UNCHANGED <<queues, listenerVars, connVars, threadVars, wkey, wmsg, crashed, historyVars>>

SpuriousWakeup ==
  /\ wpc = "waiting"
  /\ wpc' = "woken"
  /\ UNCHANGED <<queues, listenerVars, connVars, threadVars, wkey, wmsg, crashed, historyVars>>

RunMessages ==
  \/ ChooseQueue \/ PopMessage \/ PopNothing
  \/ RunTrigger \/ UnknownTrigger \/ WaitForMessage

-----------------------------------------------------------------------------
NanomsgStep(l) == Test(l) \/ Receive(l) \/ ReceiveNothing(l) \/ ReceiveError(l)

AsioStep(t) ==
  \/ \E c \in Connections :
       Accepted(t, c) \/ AcceptFailed(t, c) \/ ReadMessage(t, c) \/ ReadError(t, c)
  \/ RegisterConnection(t) \/ Announce(t) \/ ReceiveMessages(t) \/ DeregisterConnection(t)

Next ==
  /\ ~ crashed
  /\ \/ \E t \in Threads : Process(t)
     \/ \E l \in Nanomsgs : NanomsgStep(l) \/ Terminate(l)
     \/ \E t \in ServiceThreads : AsioStep(t)
     \/ \E c \in Connections : PostAccept(c)
     \/ OverflowStack
     \/ UnpackThrows
     \/ RunMessages
     \/ SpuriousWakeup

Spec == Init /\ [][Next]_vars

\* A thread that can take its next step takes it; what arrives, and whether
\* anything does, is up to the environment.
FairSpec ==
  /\ Spec
  /\ \A t \in Threads : WF_vars(~ crashed /\ Process(t))
  /\ \A l \in Nanomsgs : WF_vars(~ crashed /\ Test(l))
  /\ WF_vars(~ crashed /\ RunMessages)

-----------------------------------------------------------------------------
\* Every variable has its type, and a container has the queues it was made with.
TypeOK ==
  /\ queues \in [DOMAIN NewQueues(setup.kind) -> Seq(Messages)]
  /\ setup \in Setups
  /\ buffer \in [Listeners -> Buffers(Messages)]
  /\ holder \in [Listeners -> Threads \cup {NoThread}]
  /\ msgAvailable \in [Listeners -> BOOLEAN]
  /\ terminated \in [Nanomsgs -> BOOLEAN]
  /\ connections \in [Asios -> SUBSET Connections]
  /\ cstate \in [Connections -> {"none", "accepting", "handled", "reading", "failed"}]
  /\ tpc \in [Threads -> {"recv", "receiving", "ended", "run", "register", "announce",
                          "append", "process", "transfer", "signal", "deregister"}]
  /\ \A t \in Threads :
       /\ local[t].lst \in Listeners \cup ServiceThreads
       /\ local[t].conn \in Connections \cup {NoConn}
       /\ local[t].msg \in Messages \cup {NoValue}
       /\ local[t].at \in Nat
  /\ wpc \in {"choose", "pop", "process", "wait", "waiting", "woken", "returned"}
  /\ wkey \in DOMAIN queues \cup {NoQueue}
  /\ wmsg \in Messages \cup {NoValue}
  /\ crashed \in BOOLEAN
  /\ serial \in 0 .. setup.bound
  /\ got \in [Sources -> Seq(Messages)]
  /\ taken \in Seq(Messages)
  /\ late \in [Nanomsgs -> Nat]

ListenerOf(s) == IF s \in Nanomsgs THEN s ELSE Owner[s]

\* The indices of a listener's buffer that have not been copied to a queue.
Untransferred(l) ==
  IF holder[l] = NoThread THEN 1 .. Len(buffer[l].contents)
  ELSE local[holder[l]].at .. Len(buffer[l].contents)

Positions(s, m) == {i \in 1 .. Len(s) : s[i] = m}

\* Where a message is: with a thread, in a buffer, in a queue, or with the engine.
Holders(m)   == {t \in Threads : local[t].msg = m}
Unsent(l, m) == {i \in Untransferred(l) : buffer[l].contents[i] = m}
Slots(m)     == UNION {{<<l, i>> : i \in Unsent(l, m)} : l \in Listeners}
Queued(m)    == UNION {{<<k, i>> : i \in Positions(queues[k], m)} : k \in DOMAIN queues}

Places(m) ==
  Cardinality(Holders(m)) + Cardinality(Slots(m)) + Cardinality(Queued(m))
    + Cardinality(Positions(taken, m))

\* A message received by a listener with an internal processor, if the engine has
\* a queue for it, is in exactly one place until the engine takes it: none is lost
\* between append, which ignores its result, and enqueue, and none is copied twice
\* when several threads drain the same buffer.
ExactlyOnce ==
  \A s \in Sources : ListenerOf(s) \in setup.internal =>
    \A i \in 1 .. Len(got[s]) :
      ValidTarget(setup.kind, queues, got[s][i]) => Places(got[s][i]) = 1

\* Messages from one source for one queue go through it in the order in which
\* they were received, none twice and none before an earlier one, although any
\* service thread may handle any of them and carry over what another thread put
\* into the buffer.
SourceOrder ==
  \A k \in DOMAIN queues, s \in Sources : ListenerOf(s) \in setup.internal =>
    LET line     == taken \o queues[k]
        At(a)    == Positions(line, got[s][a])
        received == {a \in 1 .. Len(got[s]) : KeyOf(setup.kind, got[s][a]) = k}
    IN  \A a, b \in received :
          /\ \A i \in At(a), j \in At(b) : i < j <=> a < b
          /\ a < b /\ At(b) # {} => At(a) # {}

\* The threads between append and the end of enqueue.
Carrying(l) == {t \in Threads : local[t].lst = l /\ tpc[t] \in {"process", "transfer"}}

\* The buffer of an internal listener holds at most one value for each thread that
\* is carrying one over, so it does not fill up however many values arrive.
BufferBound ==
  \A l \in Listeners \cap setup.internal :
    Len(buffer[l].contents) <= Cardinality(Carrying(l))

\* After terminate() a Nanomsg listener receives at most the one message that it
\* may be waiting for.
StopBound == \A l \in Nanomsgs : late[l] <= 1

\* Where a handler of a registered connection can be.
Serving == {"announce", "append", "process", "transfer", "signal", "deregister"}

\* The list of a listener holds exactly the connections that are being served: a
\* read is pending, or one thread, and no other, runs a handler for it.
ConnectionsServed ==
  \A c \in Connections :
    LET handlers == {t \in ServiceThreads : local[t].conn = c} IN
    /\ Cardinality(handlers) = (IF cstate[c] = "handled" THEN 1 ELSE 0)
    /\ c \in connections[Owner[c]] <=>
         \/ cstate[c] = "reading"
         \/ \E t \in handlers : tpc[t] \in Serving

\* A thread that has received a message for an internal listener gets through the
\* processor and back to where it receives.
HandlersFinish ==
  \A t \in Threads :
    (tpc[t] = "append" /\ local[t].lst \in setup.internal)
      ~> (tpc[t] \in {"recv", "run"} \/ crashed)

\* A message in the queues is taken, or the loop has returned (the comment at
\* Engine.hpp:353-355).
QueuedIsTaken ==
  ~ AllEmpty(queues) ~> (AllEmpty(queues) \/ wpc = "returned" \/ crashed)
==============================================================================
