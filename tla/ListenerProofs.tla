---------------------------- MODULE ListenerProofs ----------------------------
(***************************************************************************)
(* What holds of the listeners of the C++ runtime for every number of      *)
(* listeners, connections, service threads and messages.                   *)
(***************************************************************************)
EXTENDS ListenerRuntime, FiniteSetTheorems, TLAPS

-----------------------------------------------------------------------------
(* A stopped listener *)

\* A listener that was stopped has received a message since only while it was
\* waiting for it, and it does not wait for another.
Stopped ==
  /\ late \in [Nanomsgs -> Nat]
  /\ DOMAIN tpc = Threads
  /\ \A l \in Nanomsgs :
       /\ late[l] <= 1
       /\ late[l] # 0 => terminated[l] /\ tpc[l] # "receiving"

LEMMA StoppedInit == Init => Stopped
BY DEF Init, Stopped, Threads

LEMMA StoppedStep == ASSUME Stopped, [Next]_vars PROVE Stopped'
<1> USE DEF Stopped
<1>0. Nanomsgs \subseteq Threads
  BY DEF Threads
<1>1. ASSUME NEW t \in Threads, Process(t) PROVE Stopped'
  <2>1. late' = late /\ terminated' = terminated
    BY <1>1 DEF Process, AppendValue, LockBuffer, TransferNext, ClearBuffer, TellSubscriber,
                ToldSubscribers, MessageAvailable, NotifyNext, listenerVars, historyVars
  <2>2. \/ tpc' = tpc
        \/ \E s \in {"process", "transfer", "signal", "recv", "run"} : tpc' = [tpc EXCEPT ![t] = s]
    BY <1>1 DEF Process, AppendValue, LockBuffer, TransferNext, ClearBuffer, TellSubscriber,
                ToldSubscribers, MessageAvailable, NotifyNext
  <2> QED
    BY <1>0, <2>1, <2>2
<1>2. ASSUME NEW l \in Nanomsgs, NanomsgStep(l) PROVE Stopped'
  <2>1. CASE Receive(l)
    BY <1>0, <2>1 DEF Receive, Arrived, listenerVars
  <2>2. CASE Test(l) \/ ReceiveNothing(l)
    BY <1>0, <2>2 DEF Test, ReceiveNothing, listenerVars, historyVars
  <2>3. CASE ReceiveError(l)
    BY <1>0, <2>3 DEF ReceiveError, historyVars
  <2> QED
    BY <1>2, <2>1, <2>2, <2>3 DEF NanomsgStep
<1>3. ASSUME NEW l \in Nanomsgs, Terminate(l) PROVE Stopped'
  BY <1>3 DEF Terminate, threadVars, historyVars
<1>4. ASSUME NEW t \in ServiceThreads, AsioStep(t) PROVE Stopped'
  <2>1. t \notin Nanomsgs
    BY ListenerAssumption
  <2>2. late' = late /\ terminated' = terminated
    BY <1>4 DEF AsioStep, Accepted, AcceptFailed, ReadMessage, ReadError, RegisterConnection,
                Announce, NotifyNext, ReceiveMessages, DeregisterConnection, Arrived,
                listenerVars, historyVars
  <2>3. tpc' = tpc \/ \E s : tpc' = [tpc EXCEPT ![t] = s]
    BY <1>4 DEF AsioStep, Accepted, AcceptFailed, ReadMessage, ReadError, RegisterConnection,
                Announce, NotifyNext, ReceiveMessages, DeregisterConnection, Arrived, threadVars
  <2> QED
    BY <1>0, <2>1, <2>2, <2>3
<1>5. CASE \/ \E c \in Connections : PostAccept(c)
           \/ OverflowStack \/ UnpackThrows \/ RunMessages \/ SpuriousWakeup
  BY <1>5 DEF PostAccept, OverflowStack, UnpackThrows, RunMessages, SpuriousWakeup, ChooseQueue,
              PopMessage, PopNothing, RunTrigger, UnknownTrigger, WaitForMessage,
              listenerVars, threadVars, historyVars
<1>6. CASE UNCHANGED vars
  BY <1>6 DEF vars, listenerVars, threadVars, historyVars
<1> QED
  BY <1>1, <1>2, <1>3, <1>4, <1>5, <1>6 DEF Next

\* However many listeners there are, and whenever one is stopped, by a caller or
\* by a failure of its own, it receives at most one message more.
THEOREM StopIsBounded == Spec => []StopBound
<1>1. Stopped => StopBound
  BY DEF Stopped, StopBound
<1> QED
  BY <1>1, StoppedInit, StoppedStep, PTL DEF Spec

-----------------------------------------------------------------------------
(* Types *)

\* A set of naturals that has an element has a least one: of the intervals that
\* end at its elements, one contains no other.
LEMMA LeastIndex ==
  ASSUME NEW S \in SUBSET (Nat \ {0}), S # {}
  PROVE  \E i \in S : \A j \in S : i <= j
<1> DEFINE T == {1 .. i : i \in S}
<1>1. T \subseteq FiniteSubsetsOf(Nat)
  BY FS_Interval DEF FiniteSubsetsOf
<1>2. PICK x \in T : \A y \in T : ~ (<<y, x>> \in StrictSubsetOrdering(Nat))
  <2>1. T # {}
    OBVIOUS
  <2>2. IsWellFoundedOn(StrictSubsetOrdering(Nat), FiniteSubsetsOf(Nat))
    BY FS_StrictSubsetOrderingWellFounded
  <2> HIDE DEF T
  <2> QED
    BY <1>1, <2>1, <2>2, WFMin
<1>3. PICK i \in S : x = 1 .. i
  OBVIOUS
<1>4. ASSUME NEW j \in S, ~ (i <= j) PROVE FALSE
  <2>1. 1 .. j \in T
    OBVIOUS
  <2>2. /\ 1 .. j \in SUBSET Nat
        /\ x \in SUBSET Nat
        /\ 1 .. j \subseteq x
        /\ i \in x /\ i \notin 1 .. j
    BY <1>3, <1>4
  <2>3. <<1 .. j, x>> \in StrictSubsetOrdering(Nat)
    BY <2>2 DEF StrictSubsetOrdering
  <2> QED
    BY <1>2, <2>1, <2>3
<1> QED
  BY <1>4

LEMMA KeysAreCounted == ASSUME NEW kind \in QueueKinds PROVE Len(Keys(kind)) \in Nat
<1> DEFINE n == Len(TriggerIds)
<1>1. n \in Nat /\ Len(Peers) \in Nat
  BY QueueAssumption
<1>2. Len(Peers) * n \in Nat
  BY <1>1
<1>3. CASE kind = "MultiTriggerQueue"
  <2>1. Len(Keys(kind)) = Len(Peers) * n
    BY <1>2, <1>3 DEF Keys
  <2> QED
    BY <1>2, <2>1
<1>4. CASE kind = "SinglePeerQueue"
  BY <1>4 DEF Keys
<1>5. CASE kind = "MultiPeerQueue"
  BY <1>1, <1>5 DEF Keys
<1> QED
  BY <1>3, <1>4, <1>5 DEF QueueKinds

\* The queue that dequeue chooses is one of the container's.
LEMMA ChosenIsKey ==
  ASSUME NEW kind \in QueueKinds, NEW qs
  PROVE  NonEmptyQueue(kind, qs) \in {NoQueue} \cup DOMAIN NewQueues(kind)
<1> DEFINE suits == {i \in 1 .. Len(Keys(kind)) :
                       (qs[Keys(kind)[i]] = <<>>) = (kind # "SinglePeerQueue")}
<1>1. CASE suits = {}
  BY <1>1 DEF NonEmptyQueue
<1>2. CASE suits # {}
  <2>1. suits \in SUBSET (Nat \ {0})
    BY KeysAreCounted
  <2>2. \E i \in suits : \A j \in suits : i <= j
    BY <1>2, <2>1, LeastIndex
  <2>3. (CHOOSE i \in suits : \A j \in suits : i <= j) \in suits
    BY <2>2
  <2> DEFINE first == CHOOSE i \in suits : \A j \in suits : i <= j
  <2>4. NonEmptyQueue(kind, qs) = Keys(kind)[first]
    BY <1>2 DEF NonEmptyQueue
  <2>5. first \in 1 .. Len(Keys(kind))
    BY <2>3
  <2> HIDE DEF first
  <2> QED
    BY <2>4, <2>5 DEF NewQueues
<1> QED
  BY <1>1, <1>2

Locals == [lst  : Listeners \cup ServiceThreads, conn : Connections \cup {NoConn},
           msg  : Messages \cup {NoValue},       at   : Nat \ {0}]

\* TypeOK, and what the threads rely on: the next index starts at one, a thread in
\* a processor has a listener, one about to append a message, one about to register
\* a connection, and the loop pops from a queue there is.
Typed ==
  /\ TypeOK
  /\ local \in [Threads -> Locals]
  /\ \A t \in Threads : tpc[t] = "append" => local[t].msg \in Messages
  /\ \A t \in Threads : tpc[t] \in {"append", "process", "transfer"} => local[t].lst \in Listeners
  /\ \A t \in Threads : tpc[t] = "register" => local[t].conn \in Connections
  /\ wpc = "pop" => wkey \in DOMAIN queues

LEMMA SetupFields ==
  ASSUME setup \in Setups
  PROVE  /\ setup.valid \subseteq Listeners /\ setup.internal \subseteq Listeners
         /\ setup.kind \in QueueKinds /\ setup.bound \in Nat
BY ListenerAssumption

LEMMA MessageType ==
  ASSUME NEW target \in Targets, NEW n \in Nat
  PROVE  Message(target, n) \in Messages
BY DEF Message, Messages

LEMMA NewQueuesType ==
  ASSUME NEW kind, NEW M
  PROVE  NewQueues(kind) \in [DOMAIN NewQueues(kind) -> Seq(M)]
BY DEF NewQueues

LEMMA EnqueuedType ==
  ASSUME NEW D, NEW M, NEW qs \in [D -> Seq(M)], NEW m \in M, NEW kind
  PROVE  Enqueued(kind, qs, m) \in [D -> Seq(M)]
BY DEF Enqueued, ValidTarget

LEMMA PoppedType ==
  ASSUME NEW D, NEW M, NEW qs \in [D -> Seq(M)], NEW k \in D, qs[k] # <<>>
  PROVE  Popped(qs, k) \in [D -> Seq(M)] /\ Head(qs[k]) \in M
BY DEF Popped

LEMMA BufferTypes ==
  ASSUME NEW V, NEW b \in Buffers(V)
  PROVE  Drained(b) \in Buffers(V) /\ \A v \in V : Put(b, v) \in Buffers(V)
<1>1. b.contents \in Seq(V)
  BY DEF Buffers
<1>2. \A s \in Seq(V) : [b EXCEPT !.contents = s] \in Buffers(V)
  BY DEF Buffers
<1>3. <<>> \in Seq(V) /\ \A v \in V : Append(b.contents, v) \in Seq(V)
  BY <1>1
<1> QED
  BY <1>2, <1>3 DEF Drained, Put

LEMMA TypedInit == Init => Typed
<1> SUFFICES ASSUME Init PROVE Typed
  OBVIOUS
<1>1. queues \in [DOMAIN NewQueues(setup.kind) -> Seq(Messages)]
  BY NewQueuesType DEF Init
<1>2. NewBuffer("ContainerEPBufferMT", BufferMax) \in Buffers(Messages)
  BY ListenerAssumption DEF NewBuffer, Buffers, Containers
<1>3. Threads \subseteq Listeners \cup ServiceThreads
  BY DEF Threads, Listeners
<1>4. local \in [Threads -> Locals]
  BY <1>3 DEF Init, Idle, Locals
<1>5. setup \in Setups /\ setup.bound \in Nat
  BY SetupFields DEF Init
<1>6. /\ buffer \in [Listeners -> Buffers(Messages)]
      /\ holder \in [Listeners -> Threads \cup {NoThread}]
      /\ msgAvailable \in [Listeners -> BOOLEAN]
      /\ terminated \in [Nanomsgs -> BOOLEAN]
  BY <1>2 DEF Init
<1>7. /\ connections \in [Asios -> SUBSET Connections]
      /\ cstate \in [Connections -> {"none", "accepting", "handled", "reading", "failed"}]
      /\ got \in [Sources -> Seq(Messages)] /\ taken \in Seq(Messages)
      /\ late \in [Nanomsgs -> Nat]
  BY DEF Init
<1>8. /\ tpc \in [Threads -> {"recv", "receiving", "ended", "run"}]
      /\ wpc = "choose" /\ wkey = NoQueue /\ wmsg = NoValue /\ crashed = FALSE /\ serial = 0
  BY DEF Init
<1>9. \A t \in Threads :
        /\ local[t].lst \in Listeners \cup ServiceThreads
        /\ local[t].conn \in Connections \cup {NoConn}
        /\ local[t].msg \in Messages \cup {NoValue}
        /\ local[t].at \in Nat
  BY <1>4 DEF Locals
<1>10. /\ tpc \in [Threads -> {"recv", "receiving", "ended", "run", "register", "announce",
                           "append", "process", "transfer", "signal", "deregister"}]
       /\ serial \in 0 .. setup.bound /\ wkey \in DOMAIN queues \cup {NoQueue}
  BY <1>5, <1>8
<1>11. TypeOK
  BY <1>1, <1>5, <1>6, <1>7, <1>8, <1>9, <1>10 DEF TypeOK
<1> QED
  BY <1>4, <1>8, <1>11 DEF Typed

\* What a step does to a thread's variables.
LEMMA LocalTypes ==
  ASSUME local \in [Threads -> Locals], NEW t \in Threads
  PROVE  /\ local[t].at + 1 \in Nat \ {0}
         /\ [local EXCEPT ![t].at = @ + 1] \in [Threads -> Locals]
         /\ [local EXCEPT ![t].msg = NoValue, ![t].at = 1] \in [Threads -> Locals]
<1>1. /\ local[t] \in Locals /\ local[t].at \in Nat /\ local[t].at + 1 \in Nat \ {0}
  BY DEF Locals
<1>2. [local[t] EXCEPT !.at = local[t].at + 1] \in Locals
  BY <1>1 DEF Locals
<1>3. [[local[t] EXCEPT !.msg = NoValue] EXCEPT !.at = 1] \in Locals
  <2> DEFINE r == [local[t] EXCEPT !.msg = NoValue]
  <2>1. r \in Locals
    BY <1>1 DEF Locals
  <2> HIDE DEF r
  <2>2. [r EXCEPT !.at = 1] \in Locals
    BY <2>1 DEF Locals
  <2> QED
    BY <2>2 DEF r
<1>4. [local EXCEPT ![t].at = @ + 1] = [local EXCEPT ![t] = [local[t] EXCEPT !.at = local[t].at + 1]]
  OBVIOUS
<1>5. [local EXCEPT ![t].msg = NoValue, ![t].at = 1]
        = [local EXCEPT ![t] = [[local[t] EXCEPT !.msg = NoValue] EXCEPT !.at = 1]]
  OBVIOUS
<1> QED
  BY <1>1, <1>2, <1>3, <1>4, <1>5

\* Appending and telling leave alone whose message it is.
LEMMA SameOwner ==
  ASSUME local \in [Threads -> Locals], NEW t \in Threads,
         \/ local' = [local EXCEPT ![t].at = @ + 1]
         \/ local' = [local EXCEPT ![t].msg = NoValue, ![t].at = 1]
  PROVE  \A u \in Threads : local'[u].lst = local[u].lst /\ local'[u].conn = local[u].conn
<1>1. CASE local' = [local EXCEPT ![t].at = @ + 1]
  BY <1>1 DEF Locals
<1>2. CASE local' = [local EXCEPT ![t].msg = NoValue, ![t].at = 1]
  <2> DEFINE r == [local[t] EXCEPT !.msg = NoValue]
  <2>1. r.lst = local[t].lst /\ r.conn = local[t].conn /\ r \in Locals
    BY DEF Locals
  <2> HIDE DEF r
  <2>2. [r EXCEPT !.at = 1].lst = r.lst /\ [r EXCEPT !.at = 1].conn = r.conn
    BY <2>1 DEF Locals
  <2>3. local' = [local EXCEPT ![t] = [r EXCEPT !.at = 1]]
    BY <1>2 DEF r
  <2> QED
    BY <2>1, <2>2, <2>3
<1> QED
  BY <1>1, <1>2

\* Telling a subscriber.
LEMMA TypedNotify == ASSUME Typed, NEW t \in Threads, NotifyNext(t) PROVE Typed'
<1>1. /\ local[t] \in Locals /\ setup \in Setups /\ setup.bound \in Nat
      /\ queues \in [DOMAIN NewQueues(setup.kind) -> Seq(Messages)]
      /\ serial \in Nat
  BY SetupFields DEF Typed, TypeOK
<1>2. Subscribed[local[t].at] \in Targets
  BY <1>1, ListenerAssumption DEF NotifyNext, Locals
<1>3. queues' \in [DOMAIN NewQueues(setup.kind) -> Seq(Messages)]
  <2>1. Message(Subscribed[local[t].at], serial + 1) \in Messages
    BY <1>1, <1>2, MessageType
  <2> QED
    BY <1>1, <2>1, EnqueuedType DEF NotifyNext
<1>4. local' \in [Threads -> Locals]
  BY LocalTypes DEF NotifyNext, Typed
<1>5. serial' \in 0 .. setup.bound
  BY <1>1 DEF NotifyNext, Typed, TypeOK
<1> QED
  BY <1>1, <1>3, <1>4, <1>5 DEF NotifyNext, Typed, TypeOK, Locals, listenerVars, connVars, workerVars

\* A step of a processor.
LEMMA TypedProcess == ASSUME Typed, NEW t \in Threads, Process(t) PROVE Typed'
<1> DEFINE l == local[t].lst
<1>1. /\ local[t] \in Locals /\ setup \in Setups /\ setup.bound \in Nat
      /\ queues \in [DOMAIN NewQueues(setup.kind) -> Seq(Messages)]
  BY SetupFields DEF Typed, TypeOK
<1>2. CASE AppendValue(t)
  <2>1. buffer' \in [Listeners -> Buffers(Messages)]
    BY <1>2, BufferTypes DEF AppendValue, Typed, TypeOK
  <2>2. local' \in [Threads -> Locals]
    BY <1>2, LocalTypes DEF AppendValue, Typed
  <2> QED
    BY <1>2, <2>1, <2>2 DEF AppendValue, Typed, TypeOK, Locals, connVars, workerVars, historyVars
<1>3. CASE LockBuffer(t)
  BY <1>3 DEF LockBuffer, Typed, TypeOK, connVars, workerVars, historyVars
<1>4. CASE TransferNext(t)
  <2>1. queues' \in [DOMAIN NewQueues(setup.kind) -> Seq(Messages)]
    <3>1. l \in Listeners
      BY <1>4 DEF TransferNext, Typed
    <3>2. buffer[l].contents \in Seq(Messages)
      BY <3>1 DEF Typed, TypeOK, Buffers
    <3>3. buffer[l].contents[local[t].at] \in Messages
      BY <1>1, <1>4, <3>2 DEF TransferNext, Locals
    <3> QED
      BY <1>1, <1>4, <3>3, EnqueuedType DEF TransferNext
  <2>2. local' \in [Threads -> Locals]
    BY <1>4, LocalTypes DEF TransferNext, Typed
  <2> QED
    BY <1>4, <2>1, <2>2 DEF TransferNext, Typed, TypeOK, Locals, listenerVars, connVars,
                            workerVars, historyVars
<1>5. CASE ClearBuffer(t)
  <2>1. buffer' \in [Listeners -> Buffers(Messages)]
    BY <1>5, BufferTypes DEF ClearBuffer, Typed, TypeOK
  <2> QED
    BY <1>5, <2>1 DEF ClearBuffer, Typed, TypeOK, connVars, workerVars, historyVars
<1>6. CASE ToldSubscribers(t)
  BY <1>6 DEF ToldSubscribers, Typed, TypeOK, listenerVars, connVars, workerVars, historyVars
<1>7. CASE MessageAvailable(t)
  <2>1. t \in Listeners \cup ServiceThreads
    BY DEF Threads, Listeners
  <2>2. local' \in [Threads -> Locals]
    BY <1>7, <2>1 DEF MessageAvailable, Typed, Locals, Idle
  <2> QED
    BY <1>7, <2>2 DEF MessageAvailable, Typed, TypeOK, Locals, historyVars
<1>8. CASE TellSubscriber(t)
  BY <1>8, TypedNotify DEF TellSubscriber
<1> QED
  BY <1>2, <1>3, <1>4, <1>5, <1>6, <1>7, <1>8 DEF Process

\* Something arrives.
LEMMA ArrivedTypes ==
  ASSUME Typed, NEW t \in Threads, NEW l \in Listeners, NEW s \in Sources,
         s = l \/ s \in Connections, Arrived(t, l, s)
  PROVE  /\ got' \in [Sources -> Seq(Messages)]
         /\ local' \in [Threads -> Locals]
         /\ local'[t].msg \in Messages /\ local'[t].lst = l
         /\ \A u \in Threads \ {t} : local'[u] = local[u]
         /\ serial' \in 0 .. setup.bound
         /\ tpc' = [tpc EXCEPT ![t] = "append"]
<1>1. serial \in Nat /\ setup.bound \in Nat
  BY SetupFields DEF Typed, TypeOK
<1>2. PICK target \in Targets :
        LET m == Message(target, serial + 1) IN
        /\ got' = [got EXCEPT ![s] = Append(@, m)]
        /\ local' = [local EXCEPT ![t] = [lst |-> l, conn |-> IF s = l THEN NoConn ELSE s,
                                          msg |-> m, at |-> 1]]
  BY DEF Arrived
<1> DEFINE m == Message(target, serial + 1)
<1>3. m \in Messages
  BY <1>1, MessageType
<1> HIDE DEF m
<1>4. got' \in [Sources -> Seq(Messages)]
  BY <1>2, <1>3 DEF m, Typed, TypeOK
<1>5. [lst |-> l, conn |-> IF s = l THEN NoConn ELSE s, msg |-> m, at |-> 1] \in Locals
  BY <1>3 DEF Locals
<1>6. local' = [local EXCEPT ![t] = [lst |-> l, conn |-> IF s = l THEN NoConn ELSE s,
                                     msg |-> m, at |-> 1]]
  BY <1>2 DEF m
<1>7. local \in [Threads -> Locals]
  BY DEF Typed
<1>8. serial' \in 0 .. setup.bound /\ tpc' = [tpc EXCEPT ![t] = "append"]
  BY <1>1 DEF Arrived
<1> QED
  BY <1>3, <1>4, <1>5, <1>6, <1>7, <1>8

LEMMA TypedNanomsg == ASSUME Typed, NEW l \in Nanomsgs, NanomsgStep(l) PROVE Typed'
<1>1. l \in Threads /\ l \in Listeners /\ l \in Sources
  BY DEF Threads, Listeners, Sources
<1>2. CASE Receive(l)
  <2>1. /\ got' \in [Sources -> Seq(Messages)]
        /\ local' \in [Threads -> Locals]
        /\ local'[l].msg \in Messages /\ local'[l].lst = l
        /\ \A u \in Threads \ {l} : local'[u] = local[u]
        /\ serial' \in 0 .. setup.bound
        /\ tpc' = [tpc EXCEPT ![l] = "append"]
    BY <1>1, <1>2, ArrivedTypes DEF Receive
  <2> QED
    BY <1>1, <1>2, <2>1 DEF Receive, Typed, TypeOK, Locals, listenerVars, connVars, workerVars
<1>3. CASE Test(l) \/ ReceiveNothing(l) \/ ReceiveError(l)
  BY <1>1, <1>3 DEF Test, ReceiveNothing, ReceiveError, Typed, TypeOK, listenerVars, connVars,
                    workerVars, historyVars
<1> QED
  BY <1>2, <1>3 DEF NanomsgStep

LEMMA TypedAsio == ASSUME Typed, NEW t \in ServiceThreads, AsioStep(t) PROVE Typed'
<1>1. t \in Threads /\ t \in Listeners \cup ServiceThreads
  BY DEF Threads
<1>2. \A c \in Connections : Owner[c] \in Listeners /\ c \in Sources
  BY ListenerAssumption DEF Listeners, Sources
<1>3. \A c \in Connections :
        [lst |-> Owner[c], conn |-> c, msg |-> NoValue, at |-> 1] \in Locals
  BY <1>2 DEF Locals
<1>4. Idle(t) \in Locals
  BY <1>1 DEF Idle, Locals
<1>5. ASSUME NEW c \in Connections, Accepted(t, c) \/ ReadError(t, c) PROVE Typed'
  <2>1. /\ local' = [local EXCEPT ![t] = [lst |-> Owner[c], conn |-> c, msg |-> NoValue, at |-> 1]]
        /\ \E s \in {"register", "deregister"} : tpc' = [tpc EXCEPT ![t] = s]
        /\ cstate' = [cstate EXCEPT ![c] = "handled"]
    BY <1>5 DEF Accepted, ReadError
  <2>2. local' \in [Threads -> Locals] /\ local'[t].conn = c
    BY <1>1, <1>3, <2>1 DEF Typed
  <2>3. UNCHANGED <<queues, setup, buffer, holder, msgAvailable, terminated, connections, wpc, wkey,
                    wmsg, crashed, serial, got, taken, late>>
    BY <1>5 DEF Accepted, ReadError, listenerVars, workerVars, historyVars
  <2> QED
    BY <1>1, <2>1, <2>2, <2>3 DEF Typed, TypeOK, Locals
<1>6. ASSUME NEW c \in Connections, AcceptFailed(t, c) PROVE Typed'
  BY <1>6 DEF AcceptFailed, Typed, TypeOK, listenerVars, threadVars, workerVars, historyVars
<1>7. ASSUME NEW c \in Connections, ReadMessage(t, c) PROVE Typed'
  <2>1. /\ got' \in [Sources -> Seq(Messages)]
        /\ local' \in [Threads -> Locals]
        /\ local'[t].msg \in Messages /\ local'[t].lst \in Listeners
        /\ \A u \in Threads \ {t} : local'[u] = local[u]
        /\ serial' \in 0 .. setup.bound
        /\ tpc' = [tpc EXCEPT ![t] = "append"]
    BY <1>1, <1>2, <1>7, ArrivedTypes DEF ReadMessage
  <2> QED
    BY <1>1, <1>7, <2>1 DEF ReadMessage, Typed, TypeOK, Locals, listenerVars, workerVars
<1>8. CASE RegisterConnection(t)
  <2>1. local[t].conn \in Connections
    BY <1>1, <1>8 DEF RegisterConnection, Typed
  <2>2. connections' \in [Asios -> SUBSET Connections]
    BY <1>8, <2>1 DEF RegisterConnection, Typed, TypeOK
  <2> QED
    BY <1>1, <1>8, <2>2 DEF RegisterConnection, Typed, TypeOK, listenerVars, workerVars, historyVars
<1>9. CASE Announce(t)
  BY <1>1, <1>9, TypedNotify DEF Announce
<1>10. CASE ReceiveMessages(t)
  <2>1. local' \in [Threads -> Locals]
    BY <1>4, <1>10 DEF ReceiveMessages, Typed
  <2> QED
    BY <1>1, <1>10, <2>1 DEF ReceiveMessages, Typed, TypeOK, Locals, listenerVars, workerVars,
                             historyVars
<1>11. CASE DeregisterConnection(t)
  <2>1. local' \in [Threads -> Locals]
    BY <1>4, <1>11 DEF DeregisterConnection, Typed
  <2>2. connections' \in [Asios -> SUBSET Connections]
    BY <1>11 DEF DeregisterConnection, Typed, TypeOK
  <2> QED
    BY <1>1, <1>11, <2>1, <2>2 DEF DeregisterConnection, Typed, TypeOK, Locals, listenerVars,
                                   workerVars, historyVars
<1> QED
  BY <1>5, <1>6, <1>7, <1>8, <1>9, <1>10, <1>11 DEF AsioStep

LEMMA TypedLoop == ASSUME Typed, RunMessages \/ SpuriousWakeup PROVE Typed'
<1>1. /\ setup.kind \in QueueKinds /\ setup.bound \in Nat /\ serial \in Nat
      /\ queues \in [DOMAIN NewQueues(setup.kind) -> Seq(Messages)]
  BY SetupFields DEF Typed, TypeOK
<1>2. CASE ChooseQueue
  <2>1. wkey' \in {NoQueue} \cup DOMAIN queues
    BY <1>1, <1>2, ChosenIsKey DEF ChooseQueue
  <2>2. wpc' \in {"returned", "wait", "pop"} /\ (wpc' = "pop" => wkey' # NoQueue)
    BY <1>2 DEF ChooseQueue, Done
  <2> QED
    BY <1>2, <2>1, <2>2 DEF ChooseQueue, Typed, TypeOK, listenerVars, connVars, threadVars,
                            historyVars
<1>3. CASE PopMessage
  <2>1. wkey \in DOMAIN NewQueues(setup.kind)
    BY <1>1, <1>3 DEF PopMessage, Typed
  <2>2. /\ queues' \in [DOMAIN NewQueues(setup.kind) -> Seq(Messages)]
        /\ wmsg' \in Messages
    BY <1>1, <1>3, <2>1, PoppedType DEF PopMessage
  <2>3. taken' \in Seq(Messages)
    BY <1>3, <2>2 DEF PopMessage, Typed, TypeOK
  <2> QED
    BY <1>3, <2>2, <2>3 DEF PopMessage, Typed, TypeOK, listenerVars, connVars, threadVars
<1>4. CASE PopNothing
  BY <1>4 DEF PopNothing, Done, Typed, TypeOK, listenerVars, connVars, threadVars, historyVars
<1>5. CASE RunTrigger
  <2>1. /\ queues' \in [DOMAIN NewQueues(setup.kind) -> Seq(Messages)]
        /\ serial' \in 0 .. setup.bound
    <3>1. CASE UNCHANGED <<queues, serial>>
      BY <3>1, <1>1 DEF Typed, TypeOK
    <3>2. CASE /\ serial < setup.bound
               /\ serial' = serial + 1
               /\ \E target \in Targets :
                    queues' = Enqueued(setup.kind, queues, Message(target, serial'))
      <4>1. serial' \in Nat /\ serial' \in 0 .. setup.bound
        BY <1>1, <3>2
      <4>2. PICK target \in Targets :
              queues' = Enqueued(setup.kind, queues, Message(target, serial'))
        BY <3>2
      <4>3. Message(target, serial') \in Messages
        BY <4>1, MessageType
      <4> QED
        BY <1>1, <4>1, <4>2, <4>3, EnqueuedType
    <3> QED
      BY <1>5, <3>1, <3>2 DEF RunTrigger
  <2> QED
    BY <1>5, <2>1 DEF RunTrigger, Typed, TypeOK, listenerVars, connVars, threadVars
<1>6. CASE UnknownTrigger \/ WaitForMessage \/ SpuriousWakeup
  BY <1>6 DEF UnknownTrigger, WaitForMessage, SpuriousWakeup, Typed, TypeOK, listenerVars,
              connVars, threadVars, historyVars
<1> QED
  BY <1>2, <1>3, <1>4, <1>5, <1>6 DEF RunMessages

LEMMA TypedStep == ASSUME Typed, [Next]_vars PROVE Typed'
<1>1. CASE UNCHANGED vars
  BY <1>1 DEF Typed, TypeOK, vars, listenerVars, connVars, threadVars, workerVars, historyVars
<1>2. ASSUME NEW l \in Nanomsgs, Terminate(l) PROVE Typed'
  BY <1>2 DEF Terminate, Typed, TypeOK, connVars, threadVars, workerVars, historyVars
<1>3. ASSUME NEW c \in Connections, PostAccept(c) PROVE Typed'
  BY <1>3 DEF PostAccept, Typed, TypeOK, listenerVars, threadVars, workerVars, historyVars
<1>4. CASE OverflowStack \/ UnpackThrows
  BY <1>4 DEF OverflowStack, UnpackThrows, Typed, TypeOK, listenerVars, connVars, threadVars,
              workerVars, historyVars
<1> QED
  BY <1>1, <1>2, <1>3, <1>4, TypedProcess, TypedNanomsg, TypedAsio, TypedLoop DEF Next

\* Every variable keeps its type: in particular a container never grows a queue, and
\* the loop pops only from queues the container has, for any deployment, any number
\* of listeners, connections and threads, and any order of their steps.
THEOREM ListenerTypes == Spec => []TypeOK
<1>1. Typed => TypeOK
  BY DEF Typed
<1> QED
  BY <1>1, TypedInit, TypedStep, PTL DEF Spec

-----------------------------------------------------------------------------
(* The buffer of an internal listener *)

CarryInv == Typed /\ BufferBound

LEMMA CarryingIsFinite == ASSUME NEW l PROVE IsFiniteSet(Carrying(l))
BY ListenerAssumption, FS_Subset DEF Carrying

\* Whoever is carrying a value over goes on with it.
Carriers ==
  \A t \in Threads : tpc[t] \in {"process", "transfer"} /\ local[t].lst \in setup.internal =>
    tpc'[t] \in {"process", "transfer"} /\ local'[t].lst = local[t].lst

LEMMA SameCarriers ==
  ASSUME BufferBound, Carriers, UNCHANGED <<setup, buffer>>
  PROVE  BufferBound'
<1> SUFFICES ASSUME NEW l \in Listeners \cap setup.internal
             PROVE  Len(buffer[l].contents) <= Cardinality(Carrying(l)')
  BY DEF BufferBound
<1>1. Carrying(l) \subseteq Carrying(l)'
  BY DEF Carriers, Carrying
<1>2. IsFiniteSet(Carrying(l)')
  BY ListenerAssumption, FS_Subset DEF Carrying
<1>3. Cardinality(Carrying(l)) <= Cardinality(Carrying(l)')
  BY <1>1, <1>2, FS_Subset
<1>4. Cardinality(Carrying(l)) \in Nat /\ Cardinality(Carrying(l)') \in Nat
  BY <1>2, CarryingIsFinite, FS_CardinalityType
<1>5. Len(buffer[l].contents) <= Cardinality(Carrying(l))
  BY DEF BufferBound
<1> QED
  BY <1>3, <1>4, <1>5

LEMMA CarryAppend ==
  ASSUME CarryInv, NEW t \in Threads, AppendValue(t) PROVE BufferBound'
<1> DEFINE l == local[t].lst
<1>1. /\ local \in [Threads -> Locals] /\ l \in Listeners
      /\ local' \in [Threads -> Locals]
      /\ \A u \in Threads : local'[u].lst = local[u].lst
  <2>1. local \in [Threads -> Locals] /\ l \in Listeners
    BY DEF CarryInv, Typed, AppendValue
  <2>2. local' = [local EXCEPT ![t].msg = NoValue, ![t].at = 1]
    BY DEF AppendValue
  <2>3. local' \in [Threads -> Locals]
    BY <2>1, <2>2, LocalTypes
  <2>4. \A u \in Threads : local'[u].lst = local[u].lst
    BY <2>1, <2>2, SameOwner
  <2> QED
    BY <2>1, <2>3, <2>4
<1>2. /\ tpc' = [tpc EXCEPT ![t] = "process"] /\ tpc[t] = "append" /\ DOMAIN tpc = Threads
      /\ setup' = setup
      /\ buffer' = [buffer EXCEPT ![l] = Put(@, local[t].msg)]
  BY DEF AppendValue, CarryInv, Typed, TypeOK
<1> SUFFICES ASSUME NEW k \in Listeners \cap setup.internal
             PROVE  Len(buffer'[k].contents) <= Cardinality(Carrying(k)')
  BY <1>2 DEF BufferBound
<1>3. Len(buffer[k].contents) <= Cardinality(Carrying(k))
  BY DEF CarryInv, BufferBound
<1>4. IsFiniteSet(Carrying(k)) /\ Cardinality(Carrying(k)) \in Nat
  BY CarryingIsFinite, FS_CardinalityType
<1>5. buffer[k] \in Buffers(Messages)
  BY DEF CarryInv, Typed, TypeOK
<1>6. CASE k = l
  <2>1. Carrying(k)' = Carrying(k) \cup {t} /\ t \notin Carrying(k)
    BY <1>1, <1>2, <1>6 DEF Carrying
  <2>2. Cardinality(Carrying(k)') = Cardinality(Carrying(k)) + 1
    BY <2>1, <1>4, FS_AddElement
  <2>3. buffer'[k] = Put(buffer[k], local[t].msg)
    BY <1>2, <1>6 DEF CarryInv, Typed, TypeOK
  <2>4. local[t].msg \in Messages
    BY <1>2 DEF CarryInv, Typed
  <2>5. buffer[k].contents \in Seq(Messages)
    BY <1>5 DEF Buffers
  <2>6. Len(buffer'[k].contents) <= Len(buffer[k].contents) + 1
    <3>1. CASE Full(buffer[k])
      BY <2>3, <2>5, <3>1 DEF Put
    <3>2. CASE ~ Full(buffer[k])
      <4>1. buffer'[k].contents = Append(buffer[k].contents, local[t].msg)
        BY <2>3, <1>5, <3>2 DEF Put, Buffers
      <4> QED
        BY <2>4, <2>5, <4>1
    <3> QED
      BY <3>1, <3>2
  <2>7. Len(buffer[k].contents) \in Nat /\ Len(buffer'[k].contents) \in Nat
    <3>1. buffer'[k] \in Buffers(Messages)
      BY <1>5, <2>3, <2>4, BufferTypes
    <3> QED
      BY <2>5, <3>1 DEF Buffers
  <2> QED
    BY <1>3, <1>4, <2>2, <2>6, <2>7
<1>7. CASE k # l
  <2>1. Carrying(k)' = Carrying(k)
    BY <1>1, <1>2, <1>7 DEF Carrying
  <2>2. buffer'[k] = buffer[k]
    BY <1>2, <1>7 DEF CarryInv, Typed, TypeOK
  <2> QED
    BY <1>3, <2>1, <2>2
<1> QED
  BY <1>6, <1>7

LEMMA CarryClear ==
  ASSUME CarryInv, NEW t \in Threads, ClearBuffer(t) PROVE BufferBound'
<1> DEFINE l == local[t].lst
<1>1. /\ l \in Listeners /\ setup' = setup /\ local' = local
      /\ tpc' = [tpc EXCEPT ![t] = "signal"] /\ DOMAIN tpc = Threads
      /\ buffer' = [buffer EXCEPT ![l] = Drained(@)]
  BY DEF ClearBuffer, CarryInv, Typed, TypeOK
<1> SUFFICES ASSUME NEW k \in Listeners \cap setup.internal
             PROVE  Len(buffer'[k].contents) <= Cardinality(Carrying(k)')
  BY <1>1 DEF BufferBound
<1>2. IsFiniteSet(Carrying(k)')
  BY ListenerAssumption, FS_Subset DEF Carrying
<1>3. Cardinality(Carrying(k)') \in Nat
  BY <1>2, FS_CardinalityType
<1>4. buffer[k] \in Buffers(Messages) /\ DOMAIN buffer = Listeners
  BY DEF CarryInv, Typed, TypeOK
<1>5. CASE k = l
  <2>1. buffer'[k] = Drained(buffer[k])
    BY <1>1, <1>4, <1>5
  <2>2. buffer'[k].contents = <<>>
    BY <1>4, <2>1 DEF Drained, Buffers
  <2> QED
    BY <1>3, <2>2
<1>6. CASE k # l
  <2>1. Carrying(k)' = Carrying(k)
    BY <1>1, <1>6 DEF Carrying
  <2>2. buffer'[k] = buffer[k]
    BY <1>1, <1>4, <1>6
  <2> QED
    BY <2>1, <2>2 DEF CarryInv, BufferBound
<1> QED
  BY <1>5, <1>6

LEMMA CarryInit == Init => CarryInv
<1> SUFFICES ASSUME Init PROVE BufferBound
  BY TypedInit DEF CarryInv
<1> SUFFICES ASSUME NEW l \in Listeners PROVE Len(buffer[l].contents) <= Cardinality(Carrying(l))
  BY DEF BufferBound
<1>1. buffer[l].contents = <<>>
  BY DEF Init, NewBuffer
<1>2. Cardinality(Carrying(l)) \in Nat
  BY CarryingIsFinite, FS_CardinalityType
<1> QED
  BY <1>1, <1>2

LEMMA CarryStep == ASSUME CarryInv, [Next]_vars PROVE CarryInv'
<1> SUFFICES BufferBound'
  BY TypedStep DEF CarryInv
<1>1. BufferBound /\ DOMAIN tpc = Threads /\ local \in [Threads -> Locals]
  BY DEF CarryInv, Typed, TypeOK
<1>2. ASSUME NEW t \in Threads, Process(t) PROVE BufferBound'
  <2>1. CASE AppendValue(t)
    BY <2>1, CarryAppend
  <2>2. CASE ClearBuffer(t)
    BY <2>2, CarryClear
  <2>3. CASE LockBuffer(t)
    BY <2>3, <1>1, SameCarriers DEF LockBuffer, Carriers
  <2>4. CASE TransferNext(t)
    <3>1. \A u \in Threads : local'[u].lst = local[u].lst
      BY <2>4, <1>1 DEF TransferNext, Locals
    <3> QED
      BY <2>4, <3>1, <1>1, SameCarriers DEF TransferNext, Carriers, listenerVars
  <2>5. CASE TellSubscriber(t)
    <3>1. \A u \in Threads : local'[u].lst = local[u].lst
      BY <2>5, <1>1 DEF TellSubscriber, NotifyNext, Locals
    <3> QED
      BY <2>5, <3>1, <1>1, SameCarriers DEF TellSubscriber, NotifyNext, Carriers, listenerVars
  <2>6. CASE ToldSubscribers(t)
    BY <2>6, <1>1, SameCarriers DEF ToldSubscribers, Carriers, listenerVars
  <2>7. CASE MessageAvailable(t)
    BY <2>7, <1>1, SameCarriers DEF MessageAvailable, Carriers
  <2> QED
    BY <1>2, <2>1, <2>2, <2>3, <2>4, <2>5, <2>6, <2>7 DEF Process
<1>3. ASSUME NEW t \in Threads, tpc[t] \notin {"process", "transfer"},
             \A u \in Threads \ {t} : tpc'[u] = tpc[u] /\ local'[u] = local[u],
             UNCHANGED <<setup, buffer>>
      PROVE  BufferBound'
  BY <1>1, <1>3, SameCarriers DEF Carriers
<1>4. ASSUME NEW l \in Nanomsgs, NanomsgStep(l) PROVE BufferBound'
  <2>1. l \in Threads
    BY DEF Threads
  <2>2. /\ tpc[l] \notin {"process", "transfer"} /\ UNCHANGED <<setup, buffer>>
        /\ \A u \in Threads \ {l} : tpc'[u] = tpc[u] /\ local'[u] = local[u]
    BY <1>1, <1>4 DEF NanomsgStep, Test, Receive, ReceiveNothing, ReceiveError, Arrived, listenerVars
  <2> QED
    BY <1>3, <2>1, <2>2
<1>5. ASSUME NEW t \in ServiceThreads, AsioStep(t) PROVE BufferBound'
  <2>1. t \in Threads
    BY DEF Threads
  <2>2. CASE Announce(t)
    <3>1. \A u \in Threads : local'[u].lst = local[u].lst
      BY <2>2, <1>1 DEF Announce, NotifyNext, Locals
    <3> QED
      BY <2>2, <3>1, <1>1, SameCarriers DEF Announce, NotifyNext, Carriers, listenerVars
  <2>3. CASE ~ Announce(t)
    <3>1. /\ tpc[t] \notin {"process", "transfer"} /\ UNCHANGED <<setup, buffer>>
          /\ \A u \in Threads \ {t} : tpc'[u] = tpc[u] /\ local'[u] = local[u]
      BY <1>1, <1>5, <2>3 DEF AsioStep, Accepted, AcceptFailed, ReadMessage, ReadError,
           RegisterConnection, ReceiveMessages, DeregisterConnection, Arrived, listenerVars,
           threadVars
    <3> QED
      BY <1>3, <2>1, <3>1
  <2> QED
    BY <2>2, <2>3
<1>6. CASE \/ \E l \in Nanomsgs : Terminate(l)
           \/ \E c \in Connections : PostAccept(c)
           \/ OverflowStack \/ UnpackThrows \/ RunMessages \/ SpuriousWakeup \/ UNCHANGED vars
  <2>1. UNCHANGED <<setup, buffer, tpc, local>>
    BY <1>6 DEF Terminate, PostAccept, OverflowStack, UnpackThrows, RunMessages, SpuriousWakeup,
         ChooseQueue, PopMessage, PopNothing, RunTrigger, UnknownTrigger, WaitForMessage, vars,
         listenerVars, threadVars
  <2> QED
    BY <1>1, <2>1, SameCarriers DEF Carriers
<1> QED
  BY <1>2, <1>4, <1>5, <1>6 DEF Next

\* However many connections and threads share the buffer of an internal listener,
\* it never holds more values than there are threads between append and the end of
\* enqueue: each transfer clears what all of them have put in.
THEOREM BuffersStaySmall == Spec => []BufferBound
<1>1. CarryInv => BufferBound
  BY DEF CarryInv
<1> QED
  BY <1>1, CarryInit, CarryStep, PTL DEF Spec

-----------------------------------------------------------------------------
(* The list of connections *)

\* A service thread that runs a handler has that connection's to itself, and what
\* is in a listener's list has a read pending or such a thread behind it.
Served ==
  /\ \A t \in ServiceThreads :
       /\ tpc[t] \in Serving \cup {"run", "register"}
       /\ tpc[t] = "run" <=> local[t].conn = NoConn
       /\ tpc[t] # "run" => /\ local[t].conn \in Connections
                            /\ local[t].lst = Owner[local[t].conn]
                            /\ cstate[local[t].conn] = "handled"
  /\ \A t, u \in ServiceThreads : local[t].conn = local[u].conn /\ tpc[t] # "run" => t = u
  /\ \A c \in Connections :
       /\ cstate[c] = "handled" => \E t \in ServiceThreads : local[t].conn = c
       /\ c \in connections[Owner[c]] <=>
            cstate[c] = "reading" \/ \E t \in ServiceThreads : local[t].conn = c /\ tpc[t] \in Serving

ServedInv == Typed /\ Served

\* A handler that goes on with the connection it has disturbs nothing.
LEMMA ServedFrame ==
  ASSUME Served, UNCHANGED <<connections, cstate>>,
         \A t \in ServiceThreads :
           /\ local'[t].conn = local[t].conn /\ local'[t].lst = local[t].lst
           /\ tpc'[t] = tpc[t] \/ (tpc[t] \in Serving /\ tpc'[t] \in Serving)
  PROVE  Served'
<1>1. "run" \notin Serving /\ "register" \notin Serving
  BY DEF Serving
<1>2. \A t \in ServiceThreads : /\ tpc'[t] = "run" <=> tpc[t] = "run"
                                /\ tpc'[t] = "register" <=> tpc[t] = "register"
                                /\ tpc'[t] \in Serving <=> tpc[t] \in Serving
  BY <1>1
<1> QED
  BY <1>2 DEF Served

\* A thread takes up, or gives up, a connection.
LEMMA ServedHandOver ==
  ASSUME ServedInv, NEW t \in ServiceThreads, NEW c \in Connections,
         NEW p \in Serving \cup {"run", "register"}, NEW s,
         \A u \in ServiceThreads \ {t} : tpc'[u] = tpc[u] /\ local'[u] = local[u],
         tpc'[t] = p,
         tpc[t] = "run" => cstate[c] # "handled",
         tpc[t] # "run" => local[t].conn = c,
         p = "run" => local'[t].conn = NoConn,
         p # "run" => local'[t].conn = c /\ local'[t].lst = Owner[c],
         cstate' = [cstate EXCEPT ![c] = s],
         (s = "handled") = (p # "run"),
         connections' = [connections EXCEPT ![Owner[c]] =
                           IF s = "reading" \/ p \in Serving THEN @ \cup {c} ELSE @ \ {c}]
  PROVE  Served'
<1>1. /\ c # NoConn /\ DOMAIN cstate = Connections /\ DOMAIN connections = Asios
      /\ \A d \in Connections : Owner[d] \in Asios
      /\ "run" \notin Serving /\ "register" \notin Serving
      /\ NoConn \notin Connections
  BY ListenerAssumption DEF ServedInv, Typed, TypeOK, Serving
<1>2. \A u \in ServiceThreads \ {t} : tpc[u] # "run" => local[u].conn # c
  BY DEF ServedInv, Served
<1>3. ASSUME NEW u \in ServiceThreads
      PROVE  /\ tpc'[u] \in Serving \cup {"run", "register"}
             /\ tpc'[u] = "run" <=> local'[u].conn = NoConn
             /\ tpc'[u] # "run" => /\ local'[u].conn \in Connections
                                   /\ local'[u].lst = Owner[local'[u].conn]
                                   /\ cstate'[local'[u].conn] = "handled"
  <2>1. CASE u = t
    BY <1>1, <2>1
  <2>2. CASE u # t
    <3>1. tpc'[u] = tpc[u] /\ local'[u] = local[u]
      BY <2>2
    <3>2. /\ tpc[u] \in Serving \cup {"run", "register"}
          /\ tpc[u] = "run" <=> local[u].conn = NoConn
          /\ tpc[u] # "run" => /\ local[u].conn \in Connections
                               /\ local[u].lst = Owner[local[u].conn]
                               /\ cstate[local[u].conn] = "handled"
      BY DEF ServedInv, Served
    <3>3. tpc[u] # "run" => cstate'[local[u].conn] = cstate[local[u].conn]
      BY <1>1, <1>2, <2>2, <3>2
    <3> QED
      BY <3>1, <3>2, <3>3
  <2> QED
    BY <2>1, <2>2
<1>4. ASSUME NEW u \in ServiceThreads, NEW v \in ServiceThreads,
             local'[u].conn = local'[v].conn, tpc'[u] # "run"
      PROVE  u = v
  <2>1. tpc'[v] # "run"
    BY <1>3, <1>4
  <2>2. CASE u # t /\ v # t
    BY <1>4, <2>2 DEF ServedInv, Served
  <2>3. CASE u = t /\ v # t
    BY <1>2, <1>4, <2>1, <2>3
  <2>4. CASE u # t /\ v = t
    BY <1>2, <1>4, <2>1, <2>4
  <2> QED
    BY <2>2, <2>3, <2>4
<1>5. ASSUME NEW d \in Connections
      PROVE  /\ cstate'[d] = "handled" => \E u \in ServiceThreads : local'[u].conn = d
             /\ d \in connections'[Owner[d]] <=>
                  \/ cstate'[d] = "reading"
                  \/ \E u \in ServiceThreads : local'[u].conn = d /\ tpc'[u] \in Serving
  <2>1. CASE d = c
    <3>1. cstate'[d] = s /\ (d \in connections'[Owner[d]] <=> (s = "reading" \/ p \in Serving))
      BY <1>1, <2>1
    <3>2. (\E u \in ServiceThreads : local'[u].conn = d /\ tpc'[u] \in Serving) <=> p \in Serving
      <4>1. ASSUME NEW u \in ServiceThreads \ {t}, tpc'[u] \in Serving PROVE local'[u].conn # d
        BY <1>1, <1>2, <2>1, <4>1
      <4>2. p \in Serving => local'[t].conn = d
        BY <1>1, <2>1
      <4> QED
        BY <4>1, <4>2
    <3>3. s = "handled" => local'[t].conn = d
      BY <2>1
    <3> QED
      BY <3>1, <3>2, <3>3
  <2>2. CASE d # c
    <3>1. cstate'[d] = cstate[d] /\ (d \in connections'[Owner[d]] <=> d \in connections[Owner[d]])
      BY <1>1, <2>2
    <3>2. local[t].conn # d
      BY <1>1, <2>2 DEF ServedInv, Served
    <3>3. local'[t].conn # d
      BY <1>1, <2>2
    <3>4. \A u \in ServiceThreads : local'[u].conn = d <=> local[u].conn = d
      BY <3>2, <3>3
    <3>5. \A u \in ServiceThreads : local[u].conn = d => tpc'[u] = tpc[u]
      BY <3>2
    <3> QED
      BY <3>1, <3>4, <3>5 DEF ServedInv, Served
  <2> QED
    BY <2>1, <2>2
<1> QED
  BY <1>3, <1>4, <1>5 DEF Served

LEMMA ServedInit == Init => ServedInv
<1> SUFFICES ASSUME Init PROVE Served
  BY TypedInit DEF ServedInv
<1>1. \A t \in ServiceThreads : tpc[t] = "run" /\ local[t].conn = NoConn
  BY DEF Init, Threads, Idle
<1>2. \A c \in Connections : cstate[c] = "none" /\ connections[Owner[c]] = {} /\ c # NoConn
  BY ListenerAssumption DEF Init
<1> QED
  BY <1>1, <1>2 DEF Served, Serving

\* What a thread that has a connection knows of it.
LEMMA ServedFacts ==
  ASSUME ServedInv, NEW t \in ServiceThreads, tpc[t] # "run"
  PROVE  /\ local[t].conn \in Connections /\ local[t].lst = Owner[local[t].conn]
         /\ cstate[local[t].conn] = "handled"
         /\ tpc[t] \in Serving => local[t].conn \in connections[Owner[local[t].conn]]
         /\ tpc[t] = "register" => local[t].conn \notin connections[Owner[local[t].conn]]
<1>1. "register" \notin Serving
  BY DEF Serving
<1> QED
  BY <1>1 DEF ServedInv, Served

LEMMA ServedTypes ==
  ASSUME ServedInv
  PROVE  /\ DOMAIN tpc = Threads /\ local \in [Threads -> Locals]
         /\ connections \in [Asios -> SUBSET Connections]
         /\ cstate \in [Connections -> {"none", "accepting", "handled", "reading", "failed"}]
         /\ \A c \in Connections : Owner[c] \in Asios /\ c # NoConn
         /\ ServiceThreads \subseteq Threads /\ Nanomsgs \cap ServiceThreads = {}
BY ListenerAssumption DEF ServedInv, Typed, TypeOK, Threads

\* A completion is taken up.
LEMMA ServedTaken ==
  ASSUME ServedInv, NEW t \in ServiceThreads, NEW c \in Connections,
         Accepted(t, c) \/ ReadMessage(t, c) \/ ReadError(t, c)
  PROVE  Served'
<1>0. /\ DOMAIN tpc = Threads /\ local \in [Threads -> Locals]
      /\ connections \in [Asios -> SUBSET Connections]
      /\ Owner[c] \in Asios /\ t \in Threads /\ ServiceThreads \subseteq Threads
      /\ c # Owner[c]
  BY ServedTypes, ListenerAssumption DEF Listeners
<1>1. PICK p \in {"register", "append", "deregister"} :
        /\ tpc' = [tpc EXCEPT ![t] = p]
        /\ p = "register" => cstate[c] = "accepting"
        /\ p # "register" => cstate[c] = "reading"
  BY DEF Accepted, ReadMessage, ReadError, Arrived
<1>2. tpc[t] = "run" /\ UNCHANGED connections /\ cstate' = [cstate EXCEPT ![c] = "handled"]
  BY DEF Accepted, ReadMessage, ReadError
<1>3. \E m : local' = [local EXCEPT ![t] = [lst |-> Owner[c], conn |-> c, msg |-> m, at |-> 1]]
  BY <1>0 DEF Accepted, ReadMessage, ReadError, Arrived
<1>4. /\ \A u \in ServiceThreads \ {t} : tpc'[u] = tpc[u] /\ local'[u] = local[u]
      /\ tpc'[t] = p /\ local'[t].conn = c /\ local'[t].lst = Owner[c]
  BY <1>0, <1>1, <1>3
<1>5. p \in Serving <=> p # "register"
  BY DEF Serving
<1>6. c \in connections[Owner[c]] <=> p # "register"
  BY <1>1, ServedTypes DEF ServedInv, Served
<1>7. connections' = [connections EXCEPT ![Owner[c]] =
                        IF "handled" = "reading" \/ p \in Serving THEN @ \cup {c} ELSE @ \ {c}]
  BY <1>0, <1>2, <1>5, <1>6
<1>8. p \in Serving \cup {"run", "register"} /\ p # "run" /\ cstate[c] # "handled"
  BY <1>1, <1>5
<1> QED
  BY <1>2, <1>4, <1>7, <1>8, ServedHandOver

\* A connection joins or leaves the list, or a read is posted for it.
LEMMA ServedGiven ==
  ASSUME ServedInv, NEW t \in ServiceThreads,
         \/ RegisterConnection(t) \/ DeregisterConnection(t)
         \/ ReceiveMessages(t) \/ MessageAvailable(t)
  PROVE  Served'
<1> DEFINE c == local[t].conn
<1>0. /\ DOMAIN tpc = Threads /\ local \in [Threads -> Locals]
      /\ connections \in [Asios -> SUBSET Connections]
      /\ cstate \in [Connections -> {"none", "accepting", "handled", "reading", "failed"}]
      /\ t \in Threads /\ ServiceThreads \subseteq Threads /\ t \notin Nanomsgs
  BY ServedTypes
<1>1. tpc[t] \in {"register", "deregister", "announce", "signal"}
  BY DEF RegisterConnection, DeregisterConnection, ReceiveMessages, MessageAvailable
<1>2. /\ c \in Connections /\ local[t].lst = Owner[c] /\ cstate[c] = "handled" /\ Owner[c] \in Asios
      /\ tpc[t] \in Serving => c \in connections[Owner[c]]
  BY <1>1, ServedFacts, ServedTypes
<1>3. Idle(t).conn = NoConn
  BY DEF Idle
<1>4. /\ {"deregister", "announce", "signal"} \subseteq Serving
      /\ "run" \notin Serving /\ "register" \notin Serving
  BY DEF Serving
<1> HIDE DEF c
<1>5. CASE RegisterConnection(t)
  <2>1. /\ \A u \in ServiceThreads \ {t} : tpc'[u] = tpc[u] /\ local'[u] = local[u]
        /\ tpc'[t] = "announce" /\ local' = local
        /\ cstate' = [cstate EXCEPT ![c] = "handled"]
    BY <1>0, <1>2, <1>5 DEF RegisterConnection
  <2>2. connections' = [connections EXCEPT ![Owner[c]] =
                          IF "handled" = "reading" \/ "announce" \in Serving THEN @ \cup {c}
                          ELSE @ \ {c}]
    BY <1>2, <1>4, <1>5 DEF RegisterConnection, c
  <2>3. local'[t].conn = c /\ local'[t].lst = Owner[c] /\ tpc[t] # "run"
    BY <1>1, <1>2, <2>1 DEF c
  <2> QED
    BY <1>2, <1>4, <2>1, <2>2, <2>3, ServedHandOver DEF c
<1>6. CASE DeregisterConnection(t)
  <2>1. /\ \A u \in ServiceThreads \ {t} : tpc'[u] = tpc[u] /\ local'[u] = local[u]
        /\ tpc'[t] = "run" /\ local'[t].conn = NoConn
        /\ cstate' = [cstate EXCEPT ![c] = "failed"]
    BY <1>0, <1>3, <1>6 DEF DeregisterConnection, c
  <2>2. connections' = [connections EXCEPT ![Owner[c]] =
                          IF "failed" = "reading" \/ "run" \in Serving THEN @ \cup {c} ELSE @ \ {c}]
    BY <1>2, <1>4, <1>6 DEF DeregisterConnection, c
  <2>3. tpc[t] # "run"
    BY <1>1
  <2> QED
    BY <1>2, <1>4, <2>1, <2>2, <2>3, ServedHandOver DEF c
<1>7. CASE ReceiveMessages(t) \/ MessageAvailable(t)
  <2>1. /\ \A u \in ServiceThreads \ {t} : tpc'[u] = tpc[u] /\ local'[u] = local[u]
        /\ tpc'[t] = "run" /\ local'[t].conn = NoConn
        /\ cstate' = [cstate EXCEPT ![c] = "reading"]
        /\ connections' = connections
        /\ tpc[t] \in {"announce", "signal"}
    BY <1>0, <1>3, <1>7 DEF ReceiveMessages, MessageAvailable, c
  <2>2. connections' = [connections EXCEPT ![Owner[c]] =
                          IF "reading" = "reading" \/ "run" \in Serving THEN @ \cup {c} ELSE @ \ {c}]
    BY <1>0, <1>2, <1>4, <2>1
  <2>3. tpc[t] # "run"
    BY <1>1
  <2> QED
    BY <1>2, <1>4, <2>1, <2>2, <2>3, ServedHandOver DEF c
<1> QED
  BY <1>5, <1>6, <1>7

\* An accept is posted, or fails.
LEMMA ServedPending ==
  ASSUME ServedInv, NEW c \in Connections, UNCHANGED <<connections, tpc, local>>,
         cstate[c] \in {"none", "accepting"},
         cstate' = [cstate EXCEPT ![c] = "accepting"] \/ cstate' = [cstate EXCEPT ![c] = "failed"]
  PROVE  Served'
<1>1. \A d \in Connections : (cstate'[d] = "handled" <=> cstate[d] = "handled")
                             /\ (cstate'[d] = "reading" <=> cstate[d] = "reading")
  BY ServedTypes
<1> QED
  BY <1>1 DEF ServedInv, Served

LEMMA ServedStep == ASSUME ServedInv, [Next]_vars PROVE ServedInv'
<1> SUFFICES Served'
  BY TypedStep DEF ServedInv
<1>1. /\ Served /\ DOMAIN tpc = Threads /\ local \in [Threads -> Locals]
      /\ ServiceThreads \subseteq Threads /\ Nanomsgs \cap ServiceThreads = {}
  BY ServedTypes DEF ServedInv
<1>2. {"process", "transfer", "signal", "append", "announce"} \subseteq Serving
  BY DEF Serving
<1>3. ASSUME NEW t \in Threads, NotifyNext(t) PROVE Served'
  <2>1. \A u \in Threads : local'[u].lst = local[u].lst /\ local'[u].conn = local[u].conn
    BY <1>1, <1>3, SameOwner DEF NotifyNext
  <2> QED
    BY <1>1, <1>3, <2>1, ServedFrame DEF NotifyNext, connVars
<1>4. ASSUME NEW t \in Threads, Process(t), ~ MessageAvailable(t) PROVE Served'
  <2>1. CASE AppendValue(t) \/ TransferNext(t)
    <3>1. \A u \in Threads : local'[u].lst = local[u].lst /\ local'[u].conn = local[u].conn
      BY <1>1, <2>1, SameOwner DEF AppendValue, TransferNext
    <3>2. /\ UNCHANGED connVars
          /\ tpc' = tpc \/ (tpc[t] = "append" /\ tpc' = [tpc EXCEPT ![t] = "process"])
      BY <2>1 DEF AppendValue, TransferNext
    <3>3. \A u \in ServiceThreads : tpc'[u] = tpc[u] \/ (tpc[u] \in Serving /\ tpc'[u] \in Serving)
      BY <1>1, <1>2, <3>2
    <3> QED
      BY <1>1, <3>1, <3>2, <3>3, ServedFrame DEF connVars
  <2>2. CASE LockBuffer(t) \/ ClearBuffer(t) \/ ToldSubscribers(t)
    <3>1. /\ UNCHANGED <<connVars, local>> /\ tpc[t] \in {"process", "transfer"}
          /\ \E s \in {"transfer", "signal"} : tpc' = [tpc EXCEPT ![t] = s]
      BY <2>2 DEF LockBuffer, ClearBuffer, ToldSubscribers
    <3>2. \A u \in ServiceThreads : tpc'[u] = tpc[u] \/ (tpc[u] \in Serving /\ tpc'[u] \in Serving)
      BY <1>1, <1>2, <3>1
    <3> QED
      BY <1>1, <3>1, <3>2, ServedFrame DEF connVars
  <2>3. CASE TellSubscriber(t)
    BY <1>3, <2>3 DEF TellSubscriber
  <2> QED
    BY <1>4, <2>1, <2>2, <2>3 DEF Process
<1>5. ASSUME NEW t \in Threads, MessageAvailable(t) PROVE Served'
  <2>1. CASE t \in ServiceThreads
    BY <1>5, <2>1, ServedGiven
  <2>2. CASE t \in Nanomsgs
    <3>1. /\ UNCHANGED <<connections, cstate>>
          /\ \A u \in ServiceThreads : tpc'[u] = tpc[u] /\ local'[u] = local[u]
      BY <1>1, <1>5, <2>2 DEF MessageAvailable
    <3> QED
      BY <1>1, <3>1, ServedFrame
  <2> QED
    BY <2>1, <2>2 DEF Threads
<1>6. ASSUME NEW l \in Nanomsgs, NanomsgStep(l) PROVE Served'
  <2>1. /\ UNCHANGED <<connections, cstate>>
        /\ \A u \in ServiceThreads : tpc'[u] = tpc[u] /\ local'[u] = local[u]
    BY <1>1, <1>6 DEF NanomsgStep, Test, Receive, ReceiveNothing, ReceiveError, Arrived, connVars
  <2> QED
    BY <1>1, <2>1, ServedFrame
<1>7. ASSUME NEW t \in ServiceThreads, AsioStep(t) PROVE Served'
  <2>1. ASSUME NEW c \in Connections, AcceptFailed(t, c) PROVE Served'
    BY <2>1, ServedPending DEF AcceptFailed, threadVars
  <2>2. CASE Announce(t)
    BY <1>1, <1>3, <2>2 DEF Announce
  <2> QED
    BY <1>7, <2>1, <2>2, ServedTaken, ServedGiven DEF AsioStep
<1>8. ASSUME NEW c \in Connections, PostAccept(c) PROVE Served'
  BY <1>8, ServedPending DEF PostAccept, threadVars
<1>9. CASE \/ \E l \in Nanomsgs : Terminate(l)
           \/ OverflowStack \/ UnpackThrows \/ RunMessages \/ SpuriousWakeup \/ UNCHANGED vars
  <2>1. UNCHANGED <<connections, cstate, tpc, local>>
    BY <1>9 DEF Terminate, OverflowStack, UnpackThrows, RunMessages, SpuriousWakeup, ChooseQueue,
         PopMessage, PopNothing, RunTrigger, UnknownTrigger, WaitForMessage, vars, connVars,
         threadVars
  <2> QED
    BY <1>1, <2>1, ServedFrame
<1> QED
  BY <1>4, <1>5, <1>6, <1>7, <1>8, <1>9 DEF Next

\* However many connections a listener accepts and however many threads serve them,
\* its list holds exactly those that have a read pending or one thread, and no other,
\* in a handler for them.
THEOREM ConnectionsAreServed == Spec => []ConnectionsServed
<1>1. ASSUME ServedInv PROVE ConnectionsServed
  <2> SUFFICES ASSUME NEW c \in Connections
      PROVE  LET handlers == {t \in ServiceThreads : local[t].conn = c} IN
             /\ Cardinality(handlers) = (IF cstate[c] = "handled" THEN 1 ELSE 0)
             /\ c \in connections[Owner[c]] <=>
                  cstate[c] = "reading" \/ \E t \in handlers : tpc[t] \in Serving
    BY DEF ConnectionsServed
  <2> DEFINE handlers == {t \in ServiceThreads : local[t].conn = c}
  <2>1. c # NoConn
    BY ListenerAssumption
  <2>2. CASE cstate[c] = "handled"
    <3>1. PICK t \in ServiceThreads : local[t].conn = c
      BY <1>1, <2>2 DEF ServedInv, Served
    <3>2. handlers = {t}
      BY <1>1, <2>1, <3>1 DEF ServedInv, Served
    <3>3. Cardinality(handlers) = 1
      BY <3>2, FS_Singleton
    <3> QED
      BY <1>1, <2>2, <3>3 DEF ServedInv, Served
  <2>3. CASE cstate[c] # "handled"
    <3>1. handlers = {}
      BY <1>1, <2>1, <2>3 DEF ServedInv, Served
    <3>2. Cardinality(handlers) = 0
      BY <3>1, FS_EmptySet
    <3> QED
      BY <1>1, <2>3, <3>2 DEF ServedInv, Served
  <2> QED
    BY <2>2, <2>3
<1> QED
  BY <1>1, ServedInit, ServedStep, PTL DEF Spec
===============================================================================
