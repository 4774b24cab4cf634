-------------------------- MODULE ListenerOrderProofs --------------------------
(***************************************************************************)
(* What becomes of a message that an internal listener of the C++ runtime  *)
(* receives: none is lost on its way to the engine, none is copied twice   *)
(* and none overtakes an earlier one from the same source, for every       *)
(* number of listeners, connections, service threads and messages.         *)
(***************************************************************************)
EXTENDS ListenerProofs

-----------------------------------------------------------------------------
(* Whose message a thread has *)

\* Between append and the end of enqueue.
Occupied == {"append", "process", "transfer"}

\* The source that a thread handles a message of.
SourceOf(t) == IF t \in Nanomsgs THEN t ELSE local[t].conn

\* The thread of a Nanomsg listener works for that listener only.
Own ==
  \A l \in Nanomsgs :
    /\ local[l].lst = l
    /\ tpc[l] \in {"recv", "receiving", "ended", "append", "process", "transfer", "signal"}

\* A message is with the thread that is about to append it; whoever has locked a
\* buffer is carrying it over, and begins at its first value.
Locking ==
  /\ \A t \in Threads :
       /\ local[t].msg # NoValue <=> tpc[t] = "append"
       /\ tpc[t] = "transfer" => local[t].lst \in setup.internal /\ holder[local[t].lst] = t
       /\ tpc[t] = "process" /\ local[t].lst \in setup.internal => local[t].at = 1
  /\ \A l \in Listeners :
       /\ holder[l] # NoThread => tpc[holder[l]] = "transfer" /\ local[holder[l]].lst = l
       /\ buffer[l].class = "ContainerEPBufferMT" /\ buffer[l].max = BufferMax

HandlerInv == ServedInv /\ Own /\ Locking

LEMMA ThreadFacts ==
  ASSUME ServedInv
  PROVE  /\ DOMAIN tpc = Threads /\ DOMAIN holder = Listeners /\ DOMAIN buffer = Listeners
         /\ local \in [Threads -> Locals]
         /\ Nanomsgs \subseteq Threads /\ ServiceThreads \subseteq Threads
         /\ Nanomsgs \subseteq Listeners /\ Asios \subseteq Listeners
         /\ Nanomsgs \cap ServiceThreads = {} /\ Nanomsgs \cap Connections = {}
         /\ \A c \in Connections : Owner[c] \in Asios /\ c \notin Listeners
         /\ NoValue \notin Messages /\ NoThread \notin Threads /\ NoConn \notin Connections
BY ListenerAssumption DEF ServedInv, Typed, TypeOK, Threads, Listeners

\* A thread that has a message handles it for one source, and for the listener
\* of that source; no two threads handle messages of the same source.
LEMMA SourceFacts ==
  ASSUME ServedInv, Own, NEW t \in Threads, tpc[t] \in Occupied
  PROVE  /\ SourceOf(t) \in Sources /\ local[t].lst = ListenerOf(SourceOf(t))
         /\ local[t].lst \in Listeners
         /\ \A u \in Threads : tpc[u] \in Occupied /\ SourceOf(u) = SourceOf(t) => u = t
<1>1. CASE t \in Nanomsgs
  <2>1. SourceOf(t) = t /\ t \in Sources /\ ListenerOf(t) = t
    BY <1>1 DEF SourceOf, Sources, ListenerOf
  <2>2. ASSUME NEW u \in Threads, tpc[u] \in Occupied, SourceOf(u) = t PROVE u = t
    <3>1. CASE u \in Nanomsgs
      BY <2>2, <3>1 DEF SourceOf
    <3>2. CASE u \notin Nanomsgs
      <4>1. u \in ServiceThreads /\ tpc[u] # "run"
        BY <2>2, <3>2 DEF Threads, Occupied
      <4>2. local[u].conn \in Connections
        BY <4>1, ServedFacts
      <4> QED
        BY <1>1, <2>2, <3>2, <4>2, ThreadFacts DEF SourceOf
    <3> QED
      BY <3>1, <3>2
  <2> QED
    BY <1>1, <2>1, <2>2, ThreadFacts DEF Own
<1>2. CASE t \notin Nanomsgs
  <2>1. t \in ServiceThreads /\ tpc[t] # "run"
    BY <1>2 DEF Threads, Occupied
  <2>2. local[t].conn \in Connections /\ local[t].lst = Owner[local[t].conn]
    BY <2>1, ServedFacts
  <2>3. SourceOf(t) = local[t].conn /\ local[t].conn \notin Nanomsgs
    BY <1>2, <2>2, ThreadFacts DEF SourceOf
  <2>4. ASSUME NEW u \in Threads, tpc[u] \in Occupied, SourceOf(u) = SourceOf(t) PROVE u = t
    <3>1. u \notin Nanomsgs
      BY <2>3, <2>4 DEF SourceOf
    <3>2. u \in ServiceThreads /\ tpc[u] # "run"
      BY <2>4, <3>1 DEF Threads, Occupied
    <3>3. local[u].conn = local[t].conn
      BY <2>3, <2>4, <3>1 DEF SourceOf
    <3> QED
      BY <2>1, <3>2, <3>3 DEF ServedInv, Served
  <2> QED
    BY <2>2, <2>3, <2>4, ThreadFacts DEF ListenerOf, Sources
<1> QED
  BY <1>1, <1>2

LEMMA OwnInit == Init => Own
<1>1. Nanomsgs \subseteq Threads /\ Nanomsgs \cap ServiceThreads = {}
  BY ListenerAssumption DEF Threads
<1> QED
  BY <1>1 DEF Init, Own, Idle

LEMMA OwnStep == ASSUME ServedInv, Own, [Next]_vars PROVE Own'
<1>0. /\ DOMAIN tpc = Threads /\ local \in [Threads -> Locals] /\ Nanomsgs \subseteq Threads
      /\ Nanomsgs \cap ServiceThreads = {}
  BY ThreadFacts
<1>1. ASSUME NEW t \in Threads, Process(t) PROVE Own'
  <2>1. \A u \in Threads : local'[u].lst = local[u].lst \/ (u = t /\ local'[u].lst = t)
    <3>1. CASE AppendValue(t) \/ TransferNext(t) \/ TellSubscriber(t)
      BY <3>1, <1>0, SameOwner DEF AppendValue, TransferNext, TellSubscriber, NotifyNext
    <3>2. CASE LockBuffer(t) \/ ClearBuffer(t) \/ ToldSubscribers(t)
      BY <3>2 DEF LockBuffer, ClearBuffer, ToldSubscribers
    <3>3. CASE MessageAvailable(t)
      BY <3>3, <1>0 DEF MessageAvailable, Idle
    <3> QED
      BY <1>1, <3>1, <3>2, <3>3 DEF Process
  <2>2. \/ tpc' = tpc
        \/ \E s \in {"process", "transfer", "signal", "recv"} : tpc' = [tpc EXCEPT ![t] = s]
        \/ t \notin Nanomsgs /\ tpc' = [tpc EXCEPT ![t] = "run"]
    BY <1>1 DEF Process, AppendValue, LockBuffer, TransferNext, ClearBuffer, TellSubscriber,
                ToldSubscribers, MessageAvailable, NotifyNext
  <2> QED
    BY <1>0, <2>1, <2>2 DEF Own
<1>2. ASSUME NEW l \in Nanomsgs, NanomsgStep(l) PROVE Own'
  <2>1. CASE Receive(l)
    <3>1. /\ \E m : local' = [local EXCEPT ![l] = [lst |-> l, conn |-> NoConn, msg |-> m, at |-> 1]]
          /\ tpc' = [tpc EXCEPT ![l] = "append"]
      BY <2>1 DEF Receive, Arrived
    <3> QED
      BY <1>0, <3>1 DEF Own
  <2>2. CASE Test(l) \/ ReceiveNothing(l) \/ ReceiveError(l)
    BY <1>0, <2>2 DEF Test, ReceiveNothing, ReceiveError, Own
  <2> QED
    BY <1>2, <2>1, <2>2 DEF NanomsgStep
<1>3. ASSUME NEW t \in ServiceThreads, AsioStep(t) PROVE Own'
  <2>1. \A u \in Threads \ {t} : local'[u] = local[u] /\ tpc'[u] = tpc[u]
    BY <1>0, <1>3 DEF AsioStep, Accepted, AcceptFailed, ReadMessage, ReadError, RegisterConnection,
         Announce, NotifyNext, ReceiveMessages, DeregisterConnection, Arrived, threadVars
  <2> QED
    BY <1>0, <2>1 DEF Own
<1>4. CASE \/ \E l \in Nanomsgs : Terminate(l)
           \/ \E c \in Connections : PostAccept(c)
           \/ OverflowStack \/ UnpackThrows \/ RunMessages \/ SpuriousWakeup \/ UNCHANGED vars
  BY <1>4 DEF Own, Terminate, PostAccept, OverflowStack, UnpackThrows, RunMessages, SpuriousWakeup,
       ChooseQueue, PopMessage, PopNothing, RunTrigger, UnknownTrigger, WaitForMessage, vars,
       threadVars
<1> QED
  BY <1>1, <1>2, <1>3, <1>4 DEF Next
-----------------------------------------------------------------------------
(* The kinds of steps *)

\* No thread takes a message up or hands it on, and whoever has one for an
\* internal listener stays where it is.
Calm ==
  \A u \in Threads :
    /\ local'[u].msg = local[u].msg
    /\ tpc'[u] = "append" <=> tpc[u] = "append"
    /\ tpc'[u] \in Occupied => tpc'[u] = tpc[u] /\ local'[u].lst = local[u].lst
    /\ tpc[u] \in Occupied /\ local[u].lst \in setup.internal =>
         tpc'[u] = tpc[u] /\ local'[u] = local[u]

\* Nothing happens to any message.
Quiet == Calm /\ UNCHANGED <<queues, setup, buffer, holder, serial, got, taken>>

\* A new message is sent, by a trigger or to a subscriber.
Sent ==
  /\ Calm /\ UNCHANGED <<setup, buffer, holder, got, taken>>
  /\ serial' = serial + 1
  /\ \E m \in Messages : m.val = serial + 1 /\ queues' = Enqueued(setup.kind, queues, m)

\* A new message arrives from s, whose last one has been dealt with, at t.
Came(t, s) ==
  /\ UNCHANGED <<queues, setup, buffer, holder, taken>>
  /\ serial' = serial + 1
  /\ tpc[t] \notin Occupied /\ \A u \in Threads : tpc[u] \in Occupied => SourceOf(u) # s
  /\ \E m \in Messages :
       m.val = serial + 1 /\ got' = [got EXCEPT ![s] = Append(@, m)] /\ local'[t].msg = m
  /\ local'[t].lst = ListenerOf(s) /\ SourceOf(t)' = s /\ tpc'[t] = "append"
  /\ \A u \in Threads \ {t} : tpc'[u] = tpc[u] /\ local'[u] = local[u]

Carried(t) == AppendValue(t) \/ LockBuffer(t) \/ TransferNext(t) \/ ClearBuffer(t)

\* A step of a thread without a message, which gets none.
LEMMA CalmThread ==
  ASSUME HandlerInv, NEW t \in Threads,
         \A u \in Threads \ {t} : tpc'[u] = tpc[u] /\ local'[u] = local[u],
         tpc[t] \notin Occupied \/ (tpc[t] # "append" /\ local[t].lst \notin setup.internal),
         tpc'[t] \notin Occupied \/ (tpc'[t] = tpc[t] /\ local'[t].lst = local[t].lst),
         local'[t].msg = NoValue
  PROVE  Calm
<1>1. tpc[t] # "append" /\ local[t].msg = NoValue /\ tpc'[t] # "append"
  BY DEF HandlerInv, Locking, Occupied
<1> QED
  BY <1>1 DEF Calm

LEMMA CalmNotify ==
  ASSUME HandlerInv, NEW t \in Threads, NotifyNext(t),
         tpc[t] \notin Occupied \/ (tpc[t] # "append" /\ local[t].lst \notin setup.internal)
  PROVE  Sent
<1>1. /\ local \in [Threads -> Locals] /\ Typed /\ tpc[t] # "append"
      /\ local' = [local EXCEPT ![t].at = @ + 1]
  BY ThreadFacts DEF HandlerInv, ServedInv, Occupied, NotifyNext
<1>2. local'[t].msg = local[t].msg /\ local'[t].lst = local[t].lst
  BY <1>1 DEF Locals
<1>3. Calm
  <2>1. \A u \in Threads \ {t} : tpc'[u] = tpc[u] /\ local'[u] = local[u]
    BY <1>1 DEF NotifyNext
  <2>2. local'[t].msg = NoValue /\ tpc'[t] = tpc[t]
    BY <1>1, <1>2 DEF HandlerInv, Locking, NotifyNext
  <2> QED
    BY <1>2, <2>1, <2>2, CalmThread
<1>4. serial \in Nat /\ local[t].at \in Nat \ {0}
  BY <1>1, SetupFields DEF Typed, TypeOK, Locals
<1>5. Subscribed[local[t].at] \in Targets
  BY <1>4, ListenerAssumption DEF NotifyNext
<1> DEFINE m == Message(Subscribed[local[t].at], serial + 1)
<1>6. m \in Messages /\ m.val = serial + 1
  <2>1. m \in Messages
    BY <1>4, <1>5, MessageType
  <2> QED
    BY <2>1 DEF Message
<1> QED
  BY <1>3, <1>6 DEF Sent, NotifyNext, listenerVars

LEMMA ProcessKinds ==
  ASSUME HandlerInv, NEW t \in Threads, Process(t) PROVE Carried(t) \/ Sent \/ Quiet
<1>1. CASE TellSubscriber(t)
  <2>1. tpc[t] = "process" /\ local[t].lst \notin setup.internal /\ NotifyNext(t)
    BY <1>1 DEF TellSubscriber
  <2> QED
    BY <2>1, CalmNotify
<1>2. CASE ToldSubscribers(t)
  <2>1. /\ \A u \in Threads \ {t} : tpc'[u] = tpc[u] /\ local'[u] = local[u]
        /\ tpc[t] = "process" /\ local[t].lst \notin setup.internal
        /\ tpc'[t] = "signal" /\ local' = local
    BY <1>2, ThreadFacts DEF ToldSubscribers, HandlerInv
  <2>2. local'[t].msg = NoValue
    BY <2>1 DEF HandlerInv, Locking
  <2>3. Calm
    BY <2>1, <2>2, CalmThread DEF Occupied
  <2> QED
    BY <1>2, <2>3 DEF Quiet, ToldSubscribers, listenerVars, historyVars
<1>3. CASE MessageAvailable(t)
  <2>1. /\ \A u \in Threads \ {t} : tpc'[u] = tpc[u] /\ local'[u] = local[u]
        /\ tpc[t] = "signal" /\ tpc'[t] \in {"recv", "run"} /\ local'[t].msg = NoValue
    BY <1>3, ThreadFacts DEF MessageAvailable, HandlerInv, Idle
  <2>2. Calm
    BY <2>1, CalmThread DEF Occupied
  <2> QED
    BY <1>3, <2>2 DEF Quiet, MessageAvailable, historyVars
<1> QED
  BY <1>1, <1>2, <1>3 DEF Process, Carried

\* What a message that arrives finds.
LEMMA ArrivedKind ==
  ASSUME HandlerInv, NEW t \in Threads, NEW s \in Sources, Arrived(t, ListenerOf(s), s),
         tpc[t] \notin Occupied,
         \A u \in Threads : tpc[u] \in Occupied => SourceOf(u) # s,
         IF t \in Nanomsgs THEN s = t ELSE s \in Connections,
         UNCHANGED <<queues, setup, buffer, holder, taken>>
  PROVE  Came(t, s)
<1> DEFINE l == ListenerOf(s)
<1>1. Typed /\ DOMAIN tpc = Threads /\ DOMAIN local = Threads
  BY ThreadFacts DEF HandlerInv, ServedInv
<1>2. s \in Connections => s # l
  BY ThreadFacts DEF ListenerOf, HandlerInv
<1>3. serial \in Nat
  BY <1>1, SetupFields DEF Typed, TypeOK
<1>4. PICK target \in Targets :
        LET m == Message(target, serial + 1) IN
        /\ got' = [got EXCEPT ![s] = Append(@, m)]
        /\ local' = [local EXCEPT ![t] = [lst |-> l, conn |-> IF s = l THEN NoConn ELSE s,
                                          msg |-> m, at |-> 1]]
  BY DEF Arrived
<1> DEFINE m == Message(target, serial + 1)
<1>5. m \in Messages /\ m.val = serial + 1
  <2>1. m \in Messages
    BY <1>3, MessageType
  <2> QED
    BY <2>1 DEF Message
<1>6. /\ got' = [got EXCEPT ![s] = Append(@, m)]
      /\ local' = [local EXCEPT ![t] = [lst |-> l, conn |-> IF s = l THEN NoConn ELSE s,
                                        msg |-> m, at |-> 1]]
  BY <1>4
<1> HIDE DEF m, l
<1>7. /\ local'[t].msg = m /\ local'[t].lst = l
      /\ local'[t].conn = (IF s = l THEN NoConn ELSE s)
      /\ \A u \in Threads \ {t} : local'[u] = local[u]
  BY <1>1, <1>6
<1>8. SourceOf(t)' = s
  BY <1>2, <1>7 DEF SourceOf
<1>9. tpc' = [tpc EXCEPT ![t] = "append"] /\ serial' = serial + 1
  BY DEF Arrived
<1> QED
  BY <1>1, <1>5, <1>6, <1>7, <1>8, <1>9 DEF Came, l

LEMMA NanomsgKinds ==
  ASSUME HandlerInv, NEW l \in Nanomsgs, NanomsgStep(l) PROVE Quiet \/ Came(l, l)
<1>0. l \in Threads /\ l \in Sources /\ ListenerOf(l) = l
  BY DEF Threads, Sources, ListenerOf
<1>1. CASE Receive(l)
  <2>1. tpc[l] \notin Occupied
    BY <1>1 DEF Receive, Occupied
  <2>2. ASSUME NEW u \in Threads, tpc[u] \in Occupied, SourceOf(u) = l PROVE FALSE
    <3>1. u # l
      BY <2>1, <2>2
    <3>2. u \in ServiceThreads /\ tpc[u] # "run" /\ local[u].conn = l
      BY <2>2, <3>1 DEF SourceOf, Threads, Occupied
    <3> QED
      BY <3>2, ServedFacts, ThreadFacts DEF HandlerInv
  <2> QED
    BY <1>0, <1>1, <2>1, <2>2, ArrivedKind DEF Receive, listenerVars
<1>2. CASE Test(l) \/ ReceiveNothing(l) \/ ReceiveError(l)
  <2>1. /\ \A u \in Threads \ {l} : tpc'[u] = tpc[u] /\ local'[u] = local[u]
        /\ tpc[l] \in {"recv", "receiving"} /\ tpc'[l] \in {"recv", "receiving", "ended"}
        /\ local' = local
    BY <1>0, <1>2, ThreadFacts DEF Test, ReceiveNothing, ReceiveError, HandlerInv
  <2>2. local'[l].msg = NoValue
    BY <1>0, <2>1 DEF HandlerInv, Locking
  <2>3. Calm
    BY <1>0, <2>1, <2>2, CalmThread DEF Occupied
  <2> QED
    BY <1>2, <2>3 DEF Quiet, Test, ReceiveNothing, ReceiveError, listenerVars, historyVars
<1> QED
  BY <1>1, <1>2 DEF NanomsgStep

LEMMA AsioKinds ==
  ASSUME HandlerInv, NEW t \in ServiceThreads, AsioStep(t)
  PROVE  Quiet \/ Sent \/ \E s \in Sources : Came(t, s)
<1>0. t \in Threads /\ t \notin Nanomsgs
  BY ThreadFacts DEF HandlerInv
<1>1. ASSUME NEW c \in Connections, ReadMessage(t, c) PROVE Came(t, c)
  <2>1. tpc[t] \notin Occupied
    BY <1>1 DEF ReadMessage, Occupied
  <2>2. c \in Sources /\ ListenerOf(c) = Owner[c] /\ c \notin Nanomsgs
    BY ThreadFacts DEF Sources, ListenerOf, HandlerInv
  <2>3. ASSUME NEW u \in Threads, tpc[u] \in Occupied, SourceOf(u) = c PROVE FALSE
    <3>1. u \in ServiceThreads /\ tpc[u] # "run" /\ local[u].conn = c
      BY <2>2, <2>3 DEF SourceOf, Threads, Occupied
    <3>2. cstate[c] = "handled"
      BY <3>1, ServedFacts DEF HandlerInv
    <3> QED
      BY <1>1, <3>2 DEF ReadMessage
  <2> QED
    BY <1>0, <1>1, <2>1, <2>2, <2>3, ArrivedKind DEF ReadMessage, listenerVars
<1>2. CASE Announce(t)
  <2>1. tpc[t] = "announce" /\ NotifyNext(t)
    BY <1>2 DEF Announce
  <2> QED
    BY <1>0, <2>1, CalmNotify DEF Occupied
<1>3. CASE \/ \E c \in Connections : Accepted(t, c) \/ AcceptFailed(t, c) \/ ReadError(t, c)
           \/ RegisterConnection(t) \/ ReceiveMessages(t) \/ DeregisterConnection(t)
  <2>1. /\ \A u \in Threads \ {t} : tpc'[u] = tpc[u] /\ local'[u] = local[u]
        /\ tpc[t] \in {"run", "register", "announce", "deregister"}
        /\ tpc'[t] \in {"run", "register", "announce", "deregister"}
        /\ local'[t].msg = NoValue \/ local' = local
    BY <1>0, <1>3, ThreadFacts DEF Accepted, AcceptFailed, ReadError, RegisterConnection,
         ReceiveMessages, DeregisterConnection, threadVars, HandlerInv, Idle
  <2>2. local'[t].msg = NoValue
    BY <1>0, <2>1 DEF HandlerInv, Locking
  <2>3. Calm
    BY <1>0, <2>1, <2>2, CalmThread DEF Occupied
  <2> QED
    BY <1>3, <2>3 DEF Quiet, Accepted, AcceptFailed, ReadError, RegisterConnection,
         ReceiveMessages, DeregisterConnection, listenerVars, historyVars
<1> QED
  BY <1>1, <1>2, <1>3 DEF AsioStep, Sources

LEMMA StepKinds ==
  ASSUME HandlerInv, [Next]_vars
  PROVE  \/ Quiet \/ Sent \/ PopMessage
         \/ \E t \in Threads : Carried(t)
         \/ \E t \in Threads, s \in Sources : Came(t, s)
<1>1. ASSUME UNCHANGED <<tpc, local>> PROVE Calm
  BY <1>1 DEF Calm
<1>2. ASSUME RunTrigger PROVE Quiet \/ Sent
  <2>1. Calm /\ UNCHANGED <<setup, buffer, holder, got, taken>>
    BY <1>1, <1>2 DEF RunTrigger, threadVars, listenerVars
  <2>2. CASE UNCHANGED <<queues, serial>>
    BY <2>1, <2>2 DEF Quiet
  <2>3. CASE \E target \in Targets :
               serial' = serial + 1 /\ queues' = Enqueued(setup.kind, queues, Message(target, serial'))
    <3>1. PICK target \in Targets :
            serial' = serial + 1 /\ queues' = Enqueued(setup.kind, queues, Message(target, serial'))
      BY <2>3
    <3>2. serial \in Nat
      BY SetupFields DEF HandlerInv, ServedInv, Typed, TypeOK
    <3>3. Message(target, serial + 1) \in Messages /\ Message(target, serial + 1).val = serial + 1
      <4>1. Message(target, serial + 1) \in Messages
        BY <3>2, MessageType
      <4> QED
        BY <4>1 DEF Message
    <3> QED
      BY <2>1, <3>1, <3>3 DEF Sent
  <2> QED
    BY <1>2, <2>2, <2>3 DEF RunTrigger
<1>3. CASE \/ \E l \in Nanomsgs : Terminate(l)
           \/ \E c \in Connections : PostAccept(c)
           \/ OverflowStack \/ UnpackThrows \/ ChooseQueue \/ PopNothing \/ UnknownTrigger
           \/ WaitForMessage \/ SpuriousWakeup \/ UNCHANGED vars
  BY <1>1, <1>3 DEF Quiet, Terminate, PostAccept, OverflowStack, UnpackThrows, ChooseQueue,
       PopNothing, UnknownTrigger, WaitForMessage, SpuriousWakeup, vars, listenerVars, threadVars,
       historyVars
<1> QED
  <2>1. \A l \in Nanomsgs : l \in Threads /\ l \in Sources
    BY DEF Threads, Sources
  <2>2. ServiceThreads \subseteq Threads
    BY DEF Threads
  <2> QED
    BY <1>2, <1>3, <2>1, <2>2, ProcessKinds, NanomsgKinds, AsioKinds DEF Next, RunMessages
-----------------------------------------------------------------------------
(* Locks and messages in hand *)

\* What append and a copy leave a thread with.
LEMMA AppendedLocal ==
  ASSUME HandlerInv, NEW t \in Threads, AppendValue(t)
  PROVE  /\ local'[t].msg = NoValue /\ local'[t].at = 1 /\ local'[t].lst = local[t].lst
         /\ local'[t].conn = local[t].conn
         /\ \A u \in Threads \ {t} : local'[u] = local[u] /\ tpc'[u] = tpc[u]
         /\ tpc[t] = "append" /\ tpc'[t] = "process"
<1> DEFINE r == [local[t] EXCEPT !.msg = NoValue]
<1>1. local \in [Threads -> Locals] /\ DOMAIN tpc = Threads
  BY ThreadFacts DEF HandlerInv
<1>2. r \in Locals /\ r.msg = NoValue /\ r.lst = local[t].lst /\ r.conn = local[t].conn
  BY <1>1 DEF Locals
<1>3. local' = [local EXCEPT ![t] = [r EXCEPT !.at = 1]]
  BY DEF AppendValue
<1> HIDE DEF r
<1>4. /\ [r EXCEPT !.at = 1].msg = r.msg /\ [r EXCEPT !.at = 1].at = 1
      /\ [r EXCEPT !.at = 1].lst = r.lst /\ [r EXCEPT !.at = 1].conn = r.conn
  BY <1>2 DEF Locals
<1> QED
  BY <1>1, <1>2, <1>3, <1>4 DEF AppendValue

LEMMA CopiedLocal ==
  ASSUME HandlerInv, NEW t \in Threads, TransferNext(t)
  PROVE  /\ local'[t].msg = local[t].msg /\ local'[t].at = local[t].at + 1
         /\ local'[t].lst = local[t].lst /\ local'[t].conn = local[t].conn
         /\ \A u \in Threads \ {t} : local'[u] = local[u]
BY ThreadFacts DEF HandlerInv, TransferNext, Locals

LEMMA BufferFields ==
  ASSUME NEW V, NEW b \in Buffers(V)
  PROVE  /\ Drained(b).class = b.class /\ Drained(b).max = b.max /\ Drained(b).contents = <<>>
         /\ \A v : Put(b, v).class = b.class /\ Put(b, v).max = b.max
         /\ \A v : Full(b) => Put(b, v) = b
         /\ \A v : ~ Full(b) => Put(b, v).contents = Append(b.contents, v)
BY DEF Buffers, Drained, Put

LEMMA LockingInit == Init => Locking
<1> SUFFICES ASSUME Init PROVE Locking
  OBVIOUS
<1>1. \A t \in Threads : tpc[t] \in {"run", "recv", "ended"} /\ local[t].msg = NoValue
  BY DEF Init, Idle
<1>2. \A l \in Listeners : /\ holder[l] = NoThread /\ buffer[l].class = "ContainerEPBufferMT"
                           /\ buffer[l].max = BufferMax
  BY DEF Init, NewBuffer
<1> QED
  BY <1>1, <1>2 DEF Locking

LEMMA LockingCalm ==
  ASSUME HandlerInv, Calm, UNCHANGED <<setup, buffer, holder>> PROVE Locking'
<1>1. /\ Locking /\ \A l \in Listeners : holder[l] \in Threads \cup {NoThread}
  BY DEF HandlerInv, ServedInv, Typed, TypeOK
<1>2. ASSUME NEW t \in Threads
      PROVE  /\ local'[t].msg # NoValue <=> tpc'[t] = "append"
             /\ tpc'[t] = "transfer" =>
                  local'[t].lst \in setup.internal /\ holder[local'[t].lst] = t
             /\ tpc'[t] = "process" /\ local'[t].lst \in setup.internal => local'[t].at = 1
  BY <1>1 DEF Locking, Calm, Occupied
<1>3. ASSUME NEW l \in Listeners, holder[l] # NoThread
      PROVE  tpc'[holder[l]] = "transfer" /\ local'[holder[l]].lst = l
  <2>1. holder[l] \in Threads /\ tpc[holder[l]] = "transfer" /\ local[holder[l]].lst = l
    BY <1>1, <1>3 DEF Locking
  <2>2. local[holder[l]].lst \in setup.internal
    BY <1>1, <2>1 DEF Locking
  <2> QED
    BY <2>1, <2>2 DEF Calm, Occupied
<1> QED
  BY <1>1, <1>2, <1>3 DEF Locking

LEMMA LockingCarried == ASSUME HandlerInv, NEW t \in Threads, Carried(t) PROVE Locking'
<1> DEFINE l == local[t].lst
<1>0. /\ Locking /\ DOMAIN tpc = Threads /\ DOMAIN holder = Listeners /\ DOMAIN buffer = Listeners
      /\ NoThread \notin Threads
      /\ \A k \in Listeners : buffer[k] \in Buffers(Messages) /\ holder[k] \in Threads \cup {NoThread}
  BY ThreadFacts DEF HandlerInv, ServedInv, Typed, TypeOK
<1>1. CASE AppendValue(t)
  <2>1. /\ local'[t].msg = NoValue /\ local'[t].at = 1 /\ local'[t].lst = local[t].lst
        /\ \A u \in Threads \ {t} : local'[u] = local[u] /\ tpc'[u] = tpc[u]
        /\ tpc[t] = "append" /\ tpc'[t] = "process"
    BY <1>1, AppendedLocal
  <2>2. /\ UNCHANGED <<setup, holder>>
        /\ buffer' = [buffer EXCEPT ![l] = Put(buffer[l], local[t].msg)]
    BY <1>1 DEF AppendValue
  <2>3. \A k \in Listeners : buffer'[k].class = buffer[k].class /\ buffer'[k].max = buffer[k].max
    BY <1>0, <2>2, BufferFields
  <2> QED
    <3>1. ASSUME NEW u \in Threads
          PROVE  /\ local'[u].msg # NoValue <=> tpc'[u] = "append"
                 /\ tpc'[u] = "transfer" => local'[u].lst \in setup.internal /\ holder[local'[u].lst] = u
                 /\ tpc'[u] = "process" /\ local'[u].lst \in setup.internal => local'[u].at = 1
      BY <1>0, <2>1 DEF Locking
    <3>2. ASSUME NEW k \in Listeners, holder[k] # NoThread
          PROVE  tpc'[holder[k]] = "transfer" /\ local'[holder[k]].lst = k
      <4>1. holder[k] \in Threads /\ holder[k] # t
        BY <1>0, <2>1, <3>2 DEF Locking
      <4> QED
        BY <1>0, <2>1, <3>2, <4>1 DEF Locking
    <3> QED
      BY <1>0, <2>2, <2>3, <3>1, <3>2 DEF Locking
<1>2. CASE TransferNext(t)
  <2>1. /\ local'[t].msg = local[t].msg /\ local'[t].lst = local[t].lst
        /\ \A u \in Threads \ {t} : local'[u] = local[u]
    BY <1>2, CopiedLocal
  <2>2. UNCHANGED <<setup, holder, buffer, tpc>> /\ tpc[t] = "transfer"
    BY <1>2 DEF TransferNext, listenerVars
  <2>3. \A u \in Threads : local'[u].msg = local[u].msg /\ local'[u].lst = local[u].lst
    BY <2>1
  <2>4. \A u \in Threads : tpc[u] = "process" => local'[u] = local[u]
    BY <2>1, <2>2
  <2>5. \A k \in Listeners : holder[k] # NoThread => holder[k] \in Threads
    BY <1>0
  <2> QED
    BY <1>0, <2>2, <2>3, <2>4, <2>5 DEF Locking
<1>3. CASE LockBuffer(t)
  <2>1. /\ UNCHANGED <<setup, buffer, local>> /\ tpc[t] = "process" /\ l \in setup.internal
        /\ holder[l] = NoThread /\ holder' = [holder EXCEPT ![l] = t]
        /\ tpc' = [tpc EXCEPT ![t] = "transfer"] /\ l \in Listeners
    BY <1>3 DEF LockBuffer, HandlerInv, ServedInv, Typed
  <2> QED
    BY <1>0, <2>1 DEF Locking
<1>4. CASE ClearBuffer(t)
  <2>1. /\ UNCHANGED <<setup, local>> /\ tpc[t] = "transfer"
        /\ holder' = [holder EXCEPT ![l] = NoThread]
        /\ buffer' = [buffer EXCEPT ![l] = Drained(buffer[l])]
        /\ tpc' = [tpc EXCEPT ![t] = "signal"] /\ l \in Listeners
    BY <1>4 DEF ClearBuffer, HandlerInv, ServedInv, Typed
  <2>2. \A k \in Listeners : buffer'[k].class = buffer[k].class /\ buffer'[k].max = buffer[k].max
    BY <1>0, <2>1, BufferFields
  <2>3. ASSUME NEW u \in Threads
        PROVE  /\ local[u].msg # NoValue <=> tpc'[u] = "append"
               /\ tpc'[u] = "transfer" => local[u].lst \in setup.internal /\ holder'[local[u].lst] = u
               /\ tpc'[u] = "process" /\ local[u].lst \in setup.internal => local[u].at = 1
    BY <1>0, <2>1 DEF Locking
  <2>4. ASSUME NEW k \in Listeners, holder'[k] # NoThread
        PROVE  tpc'[holder'[k]] = "transfer" /\ local[holder'[k]].lst = k
    <3>1. k # l /\ holder'[k] = holder[k]
      BY <1>0, <2>1, <2>4
    <3>2. tpc[holder[k]] = "transfer" /\ local[holder[k]].lst = k
      BY <1>0, <2>4, <3>1 DEF Locking
    <3>3. holder[k] # t
      BY <3>1, <3>2
    <3> QED
      BY <1>0, <2>1, <3>1, <3>2, <3>3
  <2> QED
    BY <1>0, <2>1, <2>2, <2>3, <2>4 DEF Locking
<1> QED
  BY <1>1, <1>2, <1>3, <1>4 DEF Carried

LEMMA LockingCame ==
  ASSUME HandlerInv, NEW t \in Threads, NEW s \in Sources, Came(t, s) PROVE Locking'
<1>1. /\ UNCHANGED <<setup, buffer, holder>> /\ tpc[t] \notin Occupied
      /\ local'[t].msg \in Messages /\ tpc'[t] = "append"
      /\ \A u \in Threads \ {t} : tpc'[u] = tpc[u] /\ local'[u] = local[u]
  BY DEF Came
<1>2. /\ Locking /\ NoValue \notin Messages
      /\ \A k \in Listeners : holder[k] \in Threads \cup {NoThread}
  BY ThreadFacts DEF HandlerInv, ServedInv, Typed, TypeOK
<1>3. ASSUME NEW u \in Threads
      PROVE  /\ local'[u].msg # NoValue <=> tpc'[u] = "append"
             /\ tpc'[u] = "transfer" => local'[u].lst \in setup.internal /\ holder[local'[u].lst] = u
             /\ tpc'[u] = "process" /\ local'[u].lst \in setup.internal => local'[u].at = 1
  BY <1>1, <1>2 DEF Locking
<1>4. ASSUME NEW k \in Listeners, holder[k] # NoThread
      PROVE  tpc'[holder[k]] = "transfer" /\ local'[holder[k]].lst = k
  <2>1. holder[k] \in Threads /\ holder[k] # t
    BY <1>1, <1>2, <1>4 DEF Locking, Occupied
  <2> QED
    BY <1>1, <1>2, <1>4, <2>1 DEF Locking
<1> QED
  BY <1>1, <1>2, <1>3, <1>4 DEF Locking

LEMMA HandlerInit == Init => HandlerInv
BY ServedInit, OwnInit, LockingInit DEF HandlerInv

LEMMA HandlerStep == ASSUME HandlerInv, [Next]_vars PROVE HandlerInv'
<1>1. CASE PopMessage
  <2>1. UNCHANGED <<setup, buffer, holder, tpc, local>>
    BY <1>1 DEF PopMessage, listenerVars, threadVars
  <2>2. Calm
    BY <2>1 DEF Calm
  <2> QED
    BY <2>1, <2>2, LockingCalm, ServedStep, OwnStep DEF HandlerInv
<1>2. CASE Quiet \/ Sent
  BY <1>2, LockingCalm, ServedStep, OwnStep DEF HandlerInv, Quiet, Sent
<1> QED
  BY <1>1, <1>2, StepKinds, LockingCarried, LockingCame, ServedStep, OwnStep DEF HandlerInv
-----------------------------------------------------------------------------
(* Numbers: a message that is new is nowhere else *)

\* The messages there may have been so far.
Old == {m \in Messages : m.val <= serial}

Numbered ==
  /\ \A k \in DOMAIN queues :
       queues[k] \in Seq(Old) /\ \A i \in 1 .. Len(queues[k]) : KeyOf(setup.kind, queues[k][i]) = k
  /\ \A l \in Listeners : buffer[l].contents \in Seq(Old)
  /\ \A t \in Threads : local[t].msg \in Old \cup {NoValue}
  /\ \A s \in Sources : got[s] \in Seq(Old)
  /\ taken \in Seq(Old)
  /\ \A s, r \in Sources : \A i \in 1 .. Len(got[s]), j \in 1 .. Len(got[r]) :
       got[s][i] = got[r][j] => s = r /\ i = j

NumberedInv == HandlerInv /\ Numbered

LEMMA OldGrows ==
  ASSUME HandlerInv, serial' \in {serial, serial + 1}
  PROVE  /\ Old \subseteq Old' /\ Seq(Old) \subseteq Seq(Old')
         /\ \A m \in Messages : m.val = serial + 1 => m \notin Old /\ (serial' = m.val => m \in Old')
<1>1. serial \in Nat /\ serial' \in Nat
  BY SetupFields DEF HandlerInv, ServedInv, Typed, TypeOK
<1>2. \A m \in Messages : m.val \in Nat
  BY DEF Messages
<1>3. Old \subseteq Old'
  BY <1>1, <1>2 DEF Old
<1>4. Seq(Old) \subseteq Seq(Old')
  BY <1>3
<1> QED
  BY <1>1, <1>2, <1>3, <1>4 DEF Old

\* What enqueue does to each queue.
LEMMA EnqueuedAt ==
  ASSUME NEW kind, NEW qs, NEW m
  PROVE  /\ DOMAIN Enqueued(kind, qs, m) = DOMAIN qs
         /\ \A k \in DOMAIN qs :
              Enqueued(kind, qs, m)[k] = IF KeyOf(kind, m) = k THEN Append(qs[k], m) ELSE qs[k]
<1>1. CASE ValidTarget(kind, qs, m)
  <2>1. Enqueued(kind, qs, m) = [qs EXCEPT ![KeyOf(kind, m)] = Append(qs[KeyOf(kind, m)], m)]
    BY <1>1 DEF Enqueued
  <2>2. KeyOf(kind, m) \in DOMAIN qs
    BY <1>1 DEF ValidTarget
  <2> QED
    BY <2>1, <2>2
<1>2. CASE ~ ValidTarget(kind, qs, m)
  BY <1>2 DEF Enqueued, ValidTarget
<1> QED
  BY <1>1, <1>2

LEMMA EnqueuedKeys ==
  ASSUME NEW V, NEW kind, NEW qs, NEW m \in V,
         \A k \in DOMAIN qs : /\ qs[k] \in Seq(V)
                              /\ \A i \in 1 .. Len(qs[k]) : KeyOf(kind, qs[k][i]) = k
  PROVE  \A k \in DOMAIN qs :
           LET q == Enqueued(kind, qs, m)[k]
           IN  q \in Seq(V) /\ \A i \in 1 .. Len(q) : KeyOf(kind, q[i]) = k
<1> SUFFICES ASSUME NEW k \in DOMAIN qs
             PROVE  LET q == Enqueued(kind, qs, m)[k]
                    IN  q \in Seq(V) /\ \A i \in 1 .. Len(q) : KeyOf(kind, q[i]) = k
  OBVIOUS
<1>1. CASE KeyOf(kind, m) = k
  <2> DEFINE q == Append(qs[k], m)
  <2>1. q \in Seq(V) /\ Len(q) = Len(qs[k]) + 1 /\ Len(qs[k]) \in Nat
    OBVIOUS
  <2>2. \A i \in 1 .. Len(q) : q[i] = IF i <= Len(qs[k]) THEN qs[k][i] ELSE m
    BY <2>1
  <2>3. \A i \in 1 .. Len(q) : i <= Len(qs[k]) => i \in 1 .. Len(qs[k])
    BY <2>1
  <2> HIDE DEF q
  <2>4. \A i \in 1 .. Len(q) : KeyOf(kind, q[i]) = k
    BY <1>1, <2>2, <2>3
  <2>5. Enqueued(kind, qs, m)[k] = q
    BY <1>1, EnqueuedAt DEF q
  <2> QED
    BY <2>1, <2>4, <2>5
<1>2. CASE KeyOf(kind, m) # k
  BY <1>2, EnqueuedAt
<1> QED
  BY <1>1, <1>2

LEMMA NumberedInit == Init => Numbered
<1> SUFFICES ASSUME Init PROVE Numbered
  OBVIOUS
<1>1. \A k \in DOMAIN queues : queues[k] = <<>>
  BY DEF Init, NewQueues
<1>2. \A l \in Listeners : buffer[l].contents = <<>>
  BY DEF Init, NewBuffer
<1>3. taken = <<>> /\ \A s \in Sources : got[s] = <<>>
  BY DEF Init
<1>4. \A t \in Threads : local[t].msg = NoValue
  BY DEF Init, Idle
<1>5. <<>> \in Seq(Old) /\ 1 .. Len(<<>>) = {}
  OBVIOUS
<1>6. \A s \in Sources : got[s] \in Seq(Old) /\ 1 .. Len(got[s]) = {}
  BY <1>3, <1>5
<1>7. \A k \in DOMAIN queues : queues[k] \in Seq(Old) /\ 1 .. Len(queues[k]) = {}
  BY <1>1, <1>5
<1> QED
  BY <1>2, <1>3, <1>4, <1>5, <1>6, <1>7 DEF Numbered

LEMMA NumberedSent == ASSUME NumberedInv, Sent PROVE Numbered'
<1>0. Numbered /\ HandlerInv /\ serial' = serial + 1
  BY DEF NumberedInv, Sent
<1>1. PICK m \in Messages : m.val = serial + 1 /\ queues' = Enqueued(setup.kind, queues, m)
  BY DEF Sent
<1>2. Old \subseteq Old' /\ Seq(Old) \subseteq Seq(Old') /\ m \in Old'
  BY <1>0, <1>1, OldGrows
<1>3. UNCHANGED <<setup, buffer, got, taken>> /\ \A t \in Threads : local'[t].msg = local[t].msg
  BY DEF Sent, Calm
<1>4. DOMAIN queues' = DOMAIN queues
  BY <1>1, EnqueuedAt
<1>5. \A k \in DOMAIN queues' :
        queues'[k] \in Seq(Old') /\ \A i \in 1 .. Len(queues'[k]) : KeyOf(setup.kind, queues'[k][i]) = k
  <2>1. \A k \in DOMAIN queues : /\ queues[k] \in Seq(Old')
                                 /\ \A i \in 1 .. Len(queues[k]) : KeyOf(setup.kind, queues[k][i]) = k
    BY <1>0, <1>2 DEF Numbered
  <2> QED
    BY <1>1, <1>2, <1>4, <2>1, EnqueuedKeys
<1> QED
  BY <1>0, <1>2, <1>3, <1>5 DEF Numbered

LEMMA NumberedCame ==
  ASSUME NumberedInv, NEW t \in Threads, NEW s \in Sources, Came(t, s) PROVE Numbered'
<1>0. Numbered /\ HandlerInv /\ serial' = serial + 1 /\ DOMAIN got = Sources
  BY DEF NumberedInv, Came, HandlerInv, ServedInv, Typed, TypeOK
<1>1. PICK m \in Messages :
        m.val = serial + 1 /\ got' = [got EXCEPT ![s] = Append(got[s], m)] /\ local'[t].msg = m
  BY DEF Came
<1>2. Old \subseteq Old' /\ Seq(Old) \subseteq Seq(Old') /\ m \in Old' /\ m \notin Old
  BY <1>0, <1>1, OldGrows
<1>3. /\ UNCHANGED <<queues, setup, buffer, taken>>
      /\ \A u \in Threads \ {t} : local'[u] = local[u]
  BY DEF Came
<1>4. \A r \in Sources : got'[r] = IF r = s THEN Append(got[r], m) ELSE got[r]
  BY <1>0, <1>1
<1>5. ASSUME NEW r \in Sources PROVE got'[r] \in Seq(Old')
  <2>1. got[r] \in Seq(Old')
    BY <1>0, <1>2 DEF Numbered
  <2>2. Append(got[r], m) \in Seq(Old')
    BY <1>2, <2>1
  <2> QED
    BY <1>4, <2>1, <2>2
<1>6. ASSUME NEW r \in Sources, NEW q \in Sources, NEW i \in 1 .. Len(got'[r]),
             NEW j \in 1 .. Len(got'[q]), got'[r][i] = got'[q][j]
      PROVE  r = q /\ i = j
  <2>1. ASSUME NEW p \in Sources, NEW a \in 1 .. Len(got'[p])
        PROVE  \/ p = s /\ a = Len(got[s]) + 1 /\ got'[p][a] = m
               \/ a \in 1 .. Len(got[p]) /\ got'[p][a] = got[p][a] /\ got[p][a] # m
    <3>1. got[p] \in Seq(Old)
      BY <1>0 DEF Numbered
    <3>2. \A b \in 1 .. Len(got[p]) : got[p][b] # m
      BY <1>2, <3>1
    <3>3. CASE p = s
      <4>1. got'[p] = Append(got[p], m)
        BY <1>4, <3>3
      <4>2. a \in 1 .. Len(got[p]) + 1 /\ (a = Len(got[p]) + 1 => got'[p][a] = m)
        BY <3>1, <4>1
      <4>3. a \in 1 .. Len(got[p]) => got'[p][a] = got[p][a]
        BY <3>1, <4>1
      <4>4. a \in 1 .. Len(got[p]) \/ a = Len(got[p]) + 1
        BY <3>1, <4>2
      <4> QED
        BY <3>2, <3>3, <4>2, <4>3, <4>4
    <3>4. CASE p # s
      BY <1>4, <3>2, <3>4
    <3> QED
      BY <3>3, <3>4
  <2>2. \/ r = s /\ i = Len(got[s]) + 1 /\ got'[r][i] = m
        \/ i \in 1 .. Len(got[r]) /\ got'[r][i] = got[r][i] /\ got[r][i] # m
    BY <2>1
  <2>3. \/ q = s /\ j = Len(got[s]) + 1 /\ got'[q][j] = m
        \/ j \in 1 .. Len(got[q]) /\ got'[q][j] = got[q][j] /\ got[q][j] # m
    BY <2>1
  <2>4. i \in 1 .. Len(got[r]) /\ j \in 1 .. Len(got[q]) /\ got[r][i] = got[q][j] => r = q /\ i = j
    BY <1>0 DEF Numbered
  <2> QED
    BY <1>6, <2>2, <2>3, <2>4
<1>7. \A u \in Threads : local'[u].msg \in Old' \cup {NoValue}
  BY <1>0, <1>1, <1>2, <1>3 DEF Numbered
<1> QED
  BY <1>0, <1>2, <1>3, <1>5, <1>6, <1>7 DEF Numbered

LEMMA NumberedCarried ==
  ASSUME NumberedInv, NEW t \in Threads, Carried(t) PROVE Numbered'
<1> DEFINE l == local[t].lst
<1>0. Numbered /\ HandlerInv /\ DOMAIN buffer = Listeners
  BY ThreadFacts DEF NumberedInv, HandlerInv
<1>1. UNCHANGED <<setup, serial, got, taken>> /\ Old' = Old
  <2>1. UNCHANGED <<setup, serial, got, taken>>
    BY DEF Carried, AppendValue, LockBuffer, TransferNext, ClearBuffer, listenerVars, historyVars
  <2> QED
    BY <2>1 DEF Old
<1>2. CASE AppendValue(t)
  <2>1. local'[t].msg = NoValue /\ (\A u \in Threads \ {t} : local'[u] = local[u]) /\ tpc[t] = "append"
    BY <1>0, <1>2, AppendedLocal
  <2>2. queues' = queues /\ buffer' = [buffer EXCEPT ![l] = Put(buffer[l], local[t].msg)]
    BY <1>2 DEF AppendValue
  <2>3. local[t].msg \in Old
    BY <1>0, <2>1 DEF Numbered, HandlerInv, Locking
  <2>4. \A k \in Listeners : buffer'[k].contents \in Seq(Old)
    <3>1. \A k \in Listeners :
            buffer[k] \in Buffers(Messages) /\ buffer[k].contents \in Seq(Old)
      BY <1>0 DEF Numbered, HandlerInv, ServedInv, Typed, TypeOK
    <3>2. l \in Listeners
      BY <1>2 DEF AppendValue, NumberedInv, HandlerInv, ServedInv, Typed
    <3>3. Put(buffer[l], local[t].msg).contents
            \in {buffer[l].contents, Append(buffer[l].contents, local[t].msg)}
      BY <3>1, <3>2, BufferFields
    <3>4. Append(buffer[l].contents, local[t].msg) \in Seq(Old)
      BY <2>3, <3>1, <3>2
    <3> QED
      BY <1>0, <2>2, <3>1, <3>3, <3>4
  <2> QED
    BY <1>0, <1>1, <2>1, <2>2, <2>4 DEF Numbered
<1>3. CASE LockBuffer(t)
  BY <1>0, <1>1, <1>3 DEF LockBuffer, Numbered
<1>4. CASE TransferNext(t)
  <2>1. \A u \in Threads : local'[u].msg = local[u].msg
    BY <1>0, <1>4, CopiedLocal
  <2> DEFINE m == buffer[l].contents[local[t].at]
  <2>2. queues' = Enqueued(setup.kind, queues, m) /\ buffer' = buffer
    BY <1>4 DEF TransferNext, listenerVars
  <2>3. m \in Old
    <3>1. l \in Listeners /\ local[t].at \in Nat \ {0} /\ local[t].at <= Len(buffer[l].contents)
      BY <1>4, ThreadFacts DEF TransferNext, NumberedInv, HandlerInv, ServedInv, Typed, Locals
    <3>2. buffer[l].contents \in Seq(Old)
      BY <1>0, <3>1 DEF Numbered
    <3> QED
      BY <3>1, <3>2
  <2>4. DOMAIN queues' = DOMAIN queues
    BY <2>2, EnqueuedAt
  <2> HIDE DEF m
  <2>5. \A k \in DOMAIN queues :
          queues'[k] \in Seq(Old) /\ \A i \in 1 .. Len(queues'[k]) : KeyOf(setup.kind, queues'[k][i]) = k
    <3>1. \A k \in DOMAIN queues : /\ queues[k] \in Seq(Old)
                                   /\ \A i \in 1 .. Len(queues[k]) : KeyOf(setup.kind, queues[k][i]) = k
      BY <1>0 DEF Numbered
    <3> QED
      BY <2>2, <2>3, <3>1, EnqueuedKeys
  <2> QED
    BY <1>0, <1>1, <2>1, <2>2, <2>4, <2>5 DEF Numbered
<1>5. CASE ClearBuffer(t)
  <2>1. UNCHANGED <<queues, local>> /\ buffer' = [buffer EXCEPT ![l] = Drained(buffer[l])]
    BY <1>5 DEF ClearBuffer
  <2>2. \A k \in Listeners : buffer[k] \in Buffers(Messages)
    BY <1>0 DEF HandlerInv, ServedInv, Typed, TypeOK
  <2>3. \A k \in Listeners : buffer'[k].contents = <<>> \/ buffer'[k] = buffer[k]
    BY <1>0, <2>1, <2>2, BufferFields
  <2>4. <<>> \in Seq(Old) /\ \A k \in Listeners : buffer[k].contents \in Seq(Old)
    BY <1>0 DEF Numbered
  <2>5. \A k \in Listeners : buffer'[k].contents \in Seq(Old)
    BY <2>3, <2>4
  <2> QED
    BY <1>0, <1>1, <2>1, <2>5 DEF Numbered
<1> QED
  BY <1>2, <1>3, <1>4, <1>5 DEF Carried

LEMMA NumberedPop == ASSUME NumberedInv, PopMessage PROVE Numbered'
<1>0. /\ Numbered /\ wkey \in DOMAIN queues /\ queues[wkey] # <<>>
      /\ UNCHANGED <<setup, buffer, local, serial, got>> /\ Old' = Old
      /\ queues' = [queues EXCEPT ![wkey] = Tail(queues[wkey])]
      /\ taken' = Append(taken, Head(queues[wkey]))
  BY DEF NumberedInv, HandlerInv, ServedInv, Typed, PopMessage, listenerVars, threadVars, Popped, Old
<1>1. queues[wkey] \in Seq(Old) /\ taken \in Seq(Old)
  BY <1>0 DEF Numbered
<1>2. Tail(queues[wkey]) \in Seq(Old) /\ Head(queues[wkey]) \in Old
  BY <1>0, <1>1
<1>3. taken' \in Seq(Old)
  BY <1>0, <1>1, <1>2
<1>4. \A i \in 1 .. Len(Tail(queues[wkey])) :
        i + 1 \in 1 .. Len(queues[wkey]) /\ Tail(queues[wkey])[i] = queues[wkey][i + 1]
  BY <1>0, <1>1
<1>5. \A i \in 1 .. Len(Tail(queues[wkey])) : KeyOf(setup.kind, Tail(queues[wkey])[i]) = wkey
  BY <1>0, <1>4 DEF Numbered
<1>6. DOMAIN queues' = DOMAIN queues
  BY <1>0
<1>7. \A k \in DOMAIN queues :
        queues'[k] \in Seq(Old) /\ \A i \in 1 .. Len(queues'[k]) : KeyOf(setup.kind, queues'[k][i]) = k
  BY <1>0, <1>2, <1>5 DEF Numbered
<1> QED
  BY <1>0, <1>3, <1>6, <1>7 DEF Numbered

LEMMA NumberedStep == ASSUME NumberedInv, [Next]_vars PROVE NumberedInv'
<1>1. CASE Quiet
  <2>1. Numbered /\ UNCHANGED <<queues, setup, buffer, got, taken>> /\ Old' = Old
    BY <1>1 DEF NumberedInv, Quiet, Old
  <2>2. \A t \in Threads : local'[t].msg = local[t].msg
    BY <1>1 DEF Quiet, Calm
  <2>3. Numbered'
    BY <2>1, <2>2 DEF Numbered
  <2> QED
    BY <2>3, HandlerStep DEF NumberedInv
<1>2. CASE \E t \in Threads, s \in Sources : Came(t, s)
  BY <1>2, NumberedCame, HandlerStep DEF NumberedInv
<1>3. CASE Sent \/ PopMessage \/ \E t \in Threads : Carried(t)
  BY <1>3, NumberedSent, NumberedCarried, NumberedPop, HandlerStep DEF NumberedInv
<1> QED
  BY <1>1, <1>2, <1>3, StepKinds DEF NumberedInv
-----------------------------------------------------------------------------
(* Positions in a sequence *)

LEMMA PositionsAppend ==
  ASSUME NEW V, NEW s \in Seq(V), NEW x \in V, NEW m
  PROVE  /\ x # m => Positions(Append(s, x), m) = Positions(s, m)
         /\ x = m => Positions(Append(s, x), m) = Positions(s, m) \cup {Len(s) + 1}
         /\ Positions(s, m) \subseteq 1 .. Len(s) /\ Len(s) \in Nat
<1> DEFINE r == Append(s, x)
<1>1. /\ Len(s) \in Nat /\ Len(r) = Len(s) + 1 /\ r[Len(s) + 1] = x
      /\ \A i \in 1 .. Len(s) : r[i] = s[i]
  OBVIOUS
<1> HIDE DEF r
<1>2. 1 .. Len(r) = (1 .. Len(s)) \cup {Len(s) + 1} /\ Len(s) + 1 \notin 1 .. Len(s)
  BY <1>1
<1> QED
  BY <1>1, <1>2 DEF Positions, r

LEMMA PositionsTail ==
  ASSUME NEW V, NEW s \in Seq(V), s # <<>>, NEW m
  PROVE  /\ \A i \in Positions(Tail(s), m) : i \in Nat /\ i + 1 \in Positions(s, m)
         /\ \A i \in Positions(s, m) : i \in Nat /\ (i # 1 => i - 1 \in Positions(Tail(s), m))
         /\ 1 \in Positions(s, m) <=> Head(s) = m
<1>1. /\ Len(s) \in Nat /\ Len(s) # 0 /\ Len(Tail(s)) = Len(s) - 1 /\ Head(s) = s[1]
      /\ \A i \in 1 .. Len(Tail(s)) : Tail(s)[i] = s[i + 1]
  OBVIOUS
<1>2. ASSUME NEW i \in Positions(s, m), i # 1 PROVE i - 1 \in Positions(Tail(s), m)
  <2>1. i \in 1 .. Len(s) /\ s[i] = m
    BY DEF Positions
  <2>2. i - 1 \in 1 .. Len(Tail(s)) /\ (i - 1) + 1 = i
    BY <1>1, <1>2, <2>1
  <2>3. Tail(s)[i - 1] = s[i]
    BY <1>1, <2>2
  <2> QED
    BY <2>1, <2>2, <2>3 DEF Positions
<1>3. ASSUME NEW i \in Positions(Tail(s), m) PROVE i \in Nat /\ i + 1 \in Positions(s, m)
  BY <1>1 DEF Positions
<1>4. 1 \in Positions(s, m) <=> Head(s) = m
  BY <1>1 DEF Positions
<1>5. \A i \in Positions(s, m) : i \in Nat
  BY <1>1 DEF Positions
<1> QED
  BY <1>2, <1>3, <1>4, <1>5

LEMMA PositionsNone ==
  ASSUME NEW V, NEW s \in Seq(V), NEW m, m \notin V PROVE Positions(s, m) = {}
BY DEF Positions

-----------------------------------------------------------------------------
(* A message is in one place *)

Inner == {s \in Sources : ListenerOf(s) \in setup.internal}

Single(A) == \E p : A = {p}

OnlyIn(A, B, C, D) == Single(A) /\ B = {} /\ C = {} /\ D = {}

InOne(A, B, C, D) ==
  OnlyIn(A, B, C, D) \/ OnlyIn(B, A, C, D) \/ OnlyIn(C, A, B, D) \/ OnlyIn(D, A, B, C)

\* Some thread is between append and the end of enqueue with a message from s.
Busy(s) == \E t \in Threads : SourceOf(t) = s /\ tpc[t] \in Occupied

\* Only the last message from s can be on its way, with a thread that handles
\* it or in the buffer of the listener; one that has a queue is in one place.
Followed(s, i) ==
  LET m == got[s][i]
      l == ListenerOf(s)
      k == KeyOf(setup.kind, m)
  IN  /\ \A t \in Holders(m) : SourceOf(t) = s
      /\ \A j \in Listeners : Unsent(j, m) # {} => j = l
      /\ Holders(m) # {} \/ Unsent(l, m) # {} => i = Len(got[s]) /\ Busy(s)
      /\ k \in DOMAIN queues =>
           InOne(Holders(m), Unsent(l, m), Positions(queues[k], m), Positions(taken, m))

\* m goes through queue k before n does.
Before(k, m, n) ==
  /\ \A i \in Positions(taken, m), j \in Positions(taken, n) : i < j
  /\ \A i \in Positions(queues[k], m), j \in Positions(queues[k], n) : i < j
  /\ Positions(queues[k], m) = {} \/ Positions(taken, n) = {}

InOrder(s) ==
  \A a, b \in 1 .. Len(got[s]) :
    LET k == KeyOf(setup.kind, got[s][a]) IN
    a < b /\ KeyOf(setup.kind, got[s][b]) = k /\ k \in DOMAIN queues =>
      Before(k, got[s][a], got[s][b])

FollowedInv ==
  /\ NumberedInv /\ BufferBound
  /\ \A s \in Inner : InOrder(s) /\ \A i \in 1 .. Len(got[s]) : Followed(s, i)

\* The buffers have room for a message of each thread.
RoomForAll == BufferMax <= 0 \/ Cardinality(ServiceThreads) <= BufferMax

\* So none is full when a thread appends to it.
LEMMA NeverFull ==
  ASSUME RoomForAll, HandlerInv, BufferBound, NEW t \in Threads, tpc[t] = "append",
         local[t].lst \in setup.internal
  PROVE  ~ Full(buffer[local[t].lst])
<1> DEFINE l == local[t].lst
<1>1. /\ l \in Listeners /\ Typed /\ BufferMax \in Int
      /\ \A u \in Threads : tpc[u] \in Occupied =>
           local[u].lst = ListenerOf(SourceOf(u)) /\ SourceOf(u) \in Sources
      /\ tpc[t] \in Occupied
  BY SourceFacts, ListenerAssumption DEF HandlerInv, ServedInv, Occupied
<1>2. /\ buffer[l].class \in Containers /\ buffer[l].max = BufferMax
      /\ Len(buffer[l].contents) \in Nat
  BY <1>1 DEF HandlerInv, Locking, Typed, TypeOK, Buffers, Containers
<1>3. Len(buffer[l].contents) <= Cardinality(Carrying(l)) /\ IsFiniteSet(Carrying(l))
  BY <1>1, CarryingIsFinite DEF BufferBound
<1>4. Carrying(l) \subseteq Threads \ {t} /\ \A u \in Carrying(l) : tpc[u] \in Occupied /\ local[u].lst = l
  BY DEF Carrying, Occupied
<1>5. CASE l \in Nanomsgs
  <2>1. ASSUME NEW u \in Threads, tpc[u] \in Occupied, local[u].lst = l PROVE u = l
    <3>1. CASE u \in Nanomsgs
      BY <2>1, <3>1 DEF HandlerInv, Own
    <3>2. CASE u \notin Nanomsgs
      <4>1. u \in ServiceThreads /\ tpc[u] # "run"
        BY <2>1, <3>2 DEF Threads, Occupied
      <4>2. local[u].lst \in Asios
        BY <4>1, ServedFacts, ThreadFacts DEF HandlerInv
      <4> QED
        BY <1>5, <2>1, <4>2, ListenerAssumption
    <3> QED
      BY <3>1, <3>2
  <2>2. Carrying(l) = {}
    BY <1>1, <1>4, <2>1
  <2>3. Len(buffer[l].contents) = 0
    BY <1>2, <1>3, <2>2, FS_EmptySet
  <2> QED
    BY <1>2, <2>3 DEF Full, IsContainer
<1>6. CASE l \notin Nanomsgs
  <2>1. ASSUME NEW u \in Threads, tpc[u] \in Occupied, local[u].lst = l PROVE u \in ServiceThreads
    BY <1>6, <2>1 DEF Threads, HandlerInv, Own
  <2>2. Carrying(l) \subseteq ServiceThreads \ {t} /\ t \in ServiceThreads
    BY <1>1, <1>4, <2>1
  <2>3. IsFiniteSet(ServiceThreads)
    BY ListenerAssumption, FS_Subset DEF Threads
  <2>4. /\ Cardinality(ServiceThreads \ {t}) = Cardinality(ServiceThreads) - 1
        /\ IsFiniteSet(ServiceThreads \ {t}) /\ Cardinality(ServiceThreads) \in Nat
    BY <2>2, <2>3, FS_RemoveElement, FS_CardinalityType
  <2>5. Cardinality(Carrying(l)) <= Cardinality(ServiceThreads) - 1 /\ Cardinality(Carrying(l)) \in Nat
    BY <1>3, <2>2, <2>4, FS_Subset, FS_CardinalityType
  <2>6. BufferMax <= 0 \/ Len(buffer[l].contents) < BufferMax
    BY <1>1, <1>2, <1>3, <2>4, <2>5 DEF RoomForAll
  <2> QED
    BY <1>1, <1>2, <2>6 DEF Full, IsContainer
<1> QED
  BY <1>5, <1>6
\* A message that stays where it is.
LEMMA FollowedKept ==
  ASSUME NEW s \in Inner, NEW i \in 1 .. Len(got[s]), Followed(s, i),
         UNCHANGED setup, DOMAIN queues' = DOMAIN queues,
         NEW m, m = got[s][i], got'[s][i] = m,
         Holders(m)' = Holders(m),
         \A j \in Listeners : Unsent(j, m)' = Unsent(j, m),
         \A k \in DOMAIN queues : Positions(queues'[k], m) = Positions(queues[k], m),
         Positions(taken', m) = Positions(taken, m),
         \A t \in Holders(m) : SourceOf(t)' = SourceOf(t),
         Holders(m) # {} \/ Unsent(ListenerOf(s), m) # {} =>
           Len(got'[s]) = Len(got[s]) /\ Busy(s)'
  PROVE  Followed(s, i)'
<1> DEFINE l == ListenerOf(s)
           k == KeyOf(setup.kind, m)
<1>1. /\ \A t \in Holders(m) : SourceOf(t) = s
      /\ \A j \in Listeners : Unsent(j, m) # {} => j = l
      /\ Holders(m) # {} \/ Unsent(l, m) # {} => i = Len(got[s]) /\ Busy(s)
      /\ k \in DOMAIN queues =>
           InOne(Holders(m), Unsent(l, m), Positions(queues[k], m), Positions(taken, m))
  BY DEF Followed
<1>2. l \in Listeners
  BY SetupFields, ListenerAssumption DEF Inner, Sources, ListenerOf, Listeners
<1> SUFFICES /\ \A t \in Holders(m)' : SourceOf(t)' = s
             /\ \A j \in Listeners : Unsent(j, m)' # {} => j = l
             /\ Holders(m)' # {} \/ Unsent(l, m)' # {} => i = Len(got'[s]) /\ Busy(s)'
             /\ k \in DOMAIN queues =>
                  InOne(Holders(m)', Unsent(l, m)', Positions(queues'[k], m), Positions(taken', m))
  BY DEF Followed, ListenerOf
<1> HIDE DEF l, k
<1> QED
  BY <1>1, <1>2 DEF l

LEMMA OrderGoal ==
  ASSUME NEW s \in Inner, UNCHANGED setup, got'[s] = got[s], DOMAIN queues' = DOMAIN queues,
         \A a, b \in 1 .. Len(got[s]) : \A k \in DOMAIN queues :
           a < b /\ KeyOf(setup.kind, got[s][a]) = k /\ KeyOf(setup.kind, got[s][b]) = k =>
             Before(k, got[s][a], got[s][b])'
  PROVE  InOrder(s)'
BY DEF InOrder, Before

\* The order of messages when one is queued that none of them follows.
LEMMA OrderKept ==
  ASSUME NEW s \in Inner, InOrder(s), UNCHANGED <<setup, taken>>, got'[s] = got[s],
         Len(got[s]) \in Nat, NEW V, \A k \in DOMAIN queues : queues[k] \in Seq(V),
         NEW x \in V, queues' = Enqueued(setup.kind, queues, x),
         \A a \in 1 .. Len(got[s]) : got[s][a] = x => a = Len(got[s])
  PROVE  InOrder(s)'
<1>1. SUFFICES ASSUME NEW a \in 1 .. Len(got[s]), NEW b \in 1 .. Len(got[s]), NEW k \in DOMAIN queues,
                      a < b, KeyOf(setup.kind, got[s][a]) = k, KeyOf(setup.kind, got[s][b]) = k
               PROVE  Before(k, got[s][a], got[s][b])'
  <2>1. DOMAIN queues' = DOMAIN queues
    BY EnqueuedAt
  <2> QED
    BY <2>1, OrderGoal
<1> DEFINE m == got[s][a]
           n == got[s][b]
<1>2. Before(k, m, n)
  BY <1>1 DEF InOrder
<1>3. x # m
  BY <1>1
<1> HIDE DEF m, n
<1>4. queues'[k] = IF KeyOf(setup.kind, x) = k THEN Append(queues[k], x) ELSE queues[k]
  BY EnqueuedAt
<1>5. Positions(queues'[k], m) = Positions(queues[k], m)
  BY <1>3, <1>4, PositionsAppend
<1>6. /\ Positions(queues[k], m) \subseteq 1 .. Len(queues[k]) /\ Len(queues[k]) \in Nat
      /\ Positions(queues'[k], n) \subseteq Positions(queues[k], n) \cup {Len(queues[k]) + 1}
  <2>1. queues[k] \in Seq(V)
    OBVIOUS
  <2>2. /\ Positions(queues[k], m) \subseteq 1 .. Len(queues[k]) /\ Len(queues[k]) \in Nat
        /\ Positions(Append(queues[k], x), n) \subseteq Positions(queues[k], n) \cup {Len(queues[k]) + 1}
    BY <2>1, PositionsAppend
  <2> QED
    BY <1>4, <2>2
<1>7. Positions(taken', m) = Positions(taken, m) /\ Positions(taken', n) = Positions(taken, n)
  OBVIOUS
<1>8. \A i \in Positions(queues[k], m), j \in Positions(queues'[k], n) : i < j
  BY <1>2, <1>6 DEF Before
<1>9. Before(k, m, n)'
  BY <1>2, <1>5, <1>7, <1>8 DEF Before, m, n
<1> QED
  BY <1>9 DEF m, n

LEMMA InnerFacts ==
  ASSUME NumberedInv, NEW s \in Inner
  PROVE  /\ s \in Sources /\ ListenerOf(s) \in Listeners /\ ListenerOf(s) \in setup.internal
         /\ got[s] \in Seq(Old) /\ Len(got[s]) \in Nat
         /\ \A i \in 1 .. Len(got[s]) : got[s][i] \in Old /\ got[s][i] \in Messages
<1>1. setup.internal \subseteq Listeners
  BY SetupFields DEF NumberedInv, HandlerInv, ServedInv, Typed, TypeOK
<1>2. got[s] \in Seq(Old) /\ Old \subseteq Messages
  BY DEF NumberedInv, Numbered, Inner, Old
<1> QED
  BY <1>1, <1>2 DEF Inner

\* A calm step leaves messages that are with threads and in buffers there.
LEMMA CalmPlaces ==
  ASSUME HandlerInv, Calm, UNCHANGED <<setup, buffer, holder>>
  PROVE  /\ \A m : Holders(m)' = Holders(m)
         /\ \A m : \A j \in Listeners : Unsent(j, m)' = Unsent(j, m)
         /\ \A s \in Inner : Busy(s) => Busy(s)'
         /\ \A s \in Inner : \A t \in Threads :
              tpc[t] \in Occupied /\ SourceOf(t) = s => SourceOf(t)' = s
<1>1. \A m : Holders(m)' = Holders(m)
  BY DEF Holders, Calm
<1>2. ASSUME NEW j \in Listeners PROVE Untransferred(j)' = Untransferred(j)
  <2>1. CASE holder[j] = NoThread
    BY <2>1 DEF Untransferred
  <2>2. CASE holder[j] # NoThread
    <3>1. holder[j] \in Threads /\ tpc[holder[j]] = "transfer"
      BY <2>2 DEF HandlerInv, ServedInv, Typed, TypeOK, Locking
    <3>2. local[holder[j]].lst \in setup.internal
      BY <3>1 DEF HandlerInv, Locking
    <3>3. local'[holder[j]] = local[holder[j]]
      BY <3>1, <3>2 DEF Calm, Occupied
    <3> QED
      BY <3>3 DEF Untransferred
  <2> QED
    BY <2>1, <2>2
<1>3. \A m : \A j \in Listeners : Unsent(j, m)' = Unsent(j, m)
  BY <1>2 DEF Unsent
<1>4. ASSUME NEW s \in Inner, NEW t \in Threads, tpc[t] \in Occupied, SourceOf(t) = s
      PROVE  local'[t] = local[t] /\ tpc'[t] = tpc[t]
  <2>1. local[t].lst \in setup.internal
    BY <1>4, SourceFacts DEF HandlerInv, Inner
  <2> QED
    BY <1>4, <2>1 DEF Calm
<1>5. \A s \in Inner : Busy(s) => Busy(s)'
  BY <1>4 DEF Busy, SourceOf
<1> QED
  BY <1>1, <1>3, <1>4, <1>5 DEF SourceOf

\* Messages received keep their places in the queues when a new one is put there.
LEMMA OldKept ==
  ASSUME NumberedInv,
         \/ UNCHANGED queues
         \/ \E x \in Messages : x.val = serial + 1 /\ queues' = Enqueued(setup.kind, queues, x)
  PROVE  /\ DOMAIN queues' = DOMAIN queues
         /\ \A m \in Old : \A k \in DOMAIN queues : Positions(queues'[k], m) = Positions(queues[k], m)
<1>1. CASE UNCHANGED queues
  BY <1>1
<1>2. ASSUME NEW x \in Messages, x.val = serial + 1, queues' = Enqueued(setup.kind, queues, x)
      PROVE  /\ DOMAIN queues' = DOMAIN queues
             /\ \A m \in Old : \A k \in DOMAIN queues :
                  Positions(queues'[k], m) = Positions(queues[k], m)
  <2>1. serial \in Nat
    BY SetupFields DEF NumberedInv, HandlerInv, ServedInv, Typed, TypeOK
  <2>2. x \notin Old
    BY <1>2, <2>1 DEF Old
  <2>3. \A k \in DOMAIN queues : queues[k] \in Seq(Messages)
    BY DEF NumberedInv, HandlerInv, ServedInv, Typed, TypeOK
  <2> QED
    BY <1>2, <2>2, <2>3, EnqueuedAt, PositionsAppend
<1> QED
  BY <1>1, <1>2

\* The order of messages that stay in the queues and with the engine.
LEMMA OrderSame ==
  ASSUME NEW s \in Inner, InOrder(s), UNCHANGED <<setup, taken>>, DOMAIN queues' = DOMAIN queues,
         got'[s] = got[s],
         \A a \in 1 .. Len(got[s]) : \A k \in DOMAIN queues :
           Positions(queues'[k], got[s][a]) = Positions(queues[k], got[s][a])
  PROVE  InOrder(s)'
<1>1. SUFFICES ASSUME NEW a \in 1 .. Len(got[s]), NEW b \in 1 .. Len(got[s]), NEW k \in DOMAIN queues,
                      a < b, KeyOf(setup.kind, got[s][a]) = k, KeyOf(setup.kind, got[s][b]) = k
               PROVE  Before(k, got[s][a], got[s][b])'
  BY OrderGoal
<1> DEFINE m == got[s][a]
           n == got[s][b]
<1>2. Before(k, m, n)
  BY <1>1 DEF InOrder
<1>3. /\ Positions(queues'[k], m) = Positions(queues[k], m)
      /\ Positions(queues'[k], n) = Positions(queues[k], n)
  OBVIOUS
<1>4. m' = m /\ n' = n
  OBVIOUS
<1> HIDE DEF m, n
<1>5. Before(k, m, n)'
  BY <1>2, <1>3, <1>4 DEF Before
<1> QED
  BY <1>5 DEF m, n

\* Steps that leave all messages where they are, but for one that is new.
LEMMA FollowedCalm ==
  ASSUME FollowedInv, Calm, UNCHANGED <<setup, buffer, holder, got, taken>>,
         \/ UNCHANGED queues
         \/ \E x \in Messages : x.val = serial + 1 /\ queues' = Enqueued(setup.kind, queues, x),
         NEW s \in Inner
  PROVE  InOrder(s)' /\ \A i \in 1 .. Len(got[s]) : Followed(s, i)'
<1>1. NumberedInv /\ HandlerInv /\ InOrder(s) /\ \A i \in 1 .. Len(got[s]) : Followed(s, i)
  BY DEF FollowedInv, NumberedInv
<1>2. /\ DOMAIN queues' = DOMAIN queues
      /\ \A m \in Old : \A k \in DOMAIN queues : Positions(queues'[k], m) = Positions(queues[k], m)
  BY <1>1, OldKept
<1>3. /\ \A m : Holders(m)' = Holders(m)
      /\ \A m : \A j \in Listeners : Unsent(j, m)' = Unsent(j, m)
      /\ Busy(s) => Busy(s)'
      /\ \A t \in Threads : tpc[t] \in Occupied /\ SourceOf(t) = s => SourceOf(t)' = s
  BY <1>1, CalmPlaces
<1>4. \A i \in 1 .. Len(got[s]) : got[s][i] \in Old /\ got[s][i] \in Messages
  BY <1>1, InnerFacts
<1>5. InOrder(s)'
  BY <1>1, <1>2, <1>4, OrderSame
<1>6. ASSUME NEW i \in 1 .. Len(got[s]) PROVE Followed(s, i)'
  <2> DEFINE m == got[s][i]
  <2>1. m \in Old /\ m \in Messages /\ NoValue \notin Messages
    BY <1>1, <1>4, ThreadFacts DEF HandlerInv
  <2>2. \A t \in Holders(m) : t \in Threads /\ tpc[t] \in Occupied
    BY <1>1, <2>1 DEF Holders, HandlerInv, Locking, Occupied
  <2>3. \A t \in Holders(m) : SourceOf(t) = s
    BY <1>1 DEF Followed
  <2>4. Holders(m) # {} \/ Unsent(ListenerOf(s), m) # {} => Busy(s)
    BY <1>1 DEF Followed
  <2>5. Followed(s, i)
    BY <1>1
  <2>6. \A k \in DOMAIN queues : Positions(queues'[k], m) = Positions(queues[k], m)
    BY <1>2, <2>1
  <2> HIDE DEF m
  <2> QED
    BY <1>2, <1>3, <2>2, <2>3, <2>4, <2>5, <2>6, FollowedKept DEF m
<1> QED
  BY <1>5, <1>6
-----------------------------------------------------------------------------
(* The steps that carry a message over *)

LEMMA UnsentAt ==
  ASSUME NEW l \in Listeners, holder[l] = NoThread, NEW m
  PROVE  Unsent(l, m) = Positions(buffer[l].contents, m)
BY DEF Unsent, Untransferred, Positions

\* The buffers that a step does not touch, nor the thread that has locked them.
LEMMA UnsentKept ==
  ASSUME NEW j \in Listeners, holder'[j] = holder[j], buffer'[j] = buffer[j],
         holder[j] # NoThread => local'[holder[j]] = local[holder[j]], NEW m
  PROVE  Unsent(j, m)' = Unsent(j, m)
BY DEF Unsent, Untransferred

\* What FollowedInv says of a message.
LEMMA FollowedFacts ==
  ASSUME FollowedInv, NEW s \in Inner, NEW i \in 1 .. Len(got[s]), NEW m, m = got[s][i]
  PROVE  /\ m \in Old /\ m \in Messages /\ m # NoValue /\ Followed(s, i)
         /\ s \in Sources /\ ListenerOf(s) \in Listeners /\ ListenerOf(s) \in setup.internal
         /\ \A t \in Holders(m) : t \in Threads /\ tpc[t] = "append" /\ SourceOf(t) = s
         /\ \A t \in Threads : local[t].msg = m => t \in Holders(m)
         /\ \A j \in Listeners : Unsent(j, m) # {} => j = ListenerOf(s)
         /\ Holders(m) # {} \/ Unsent(ListenerOf(s), m) # {} => i = Len(got[s]) /\ Busy(s)
<1>1. NumberedInv /\ HandlerInv /\ Followed(s, i)
  BY DEF FollowedInv, NumberedInv
<1>2. m \in Old /\ m \in Messages /\ m # NoValue
  BY <1>1, InnerFacts, ThreadFacts DEF HandlerInv
<1>3. \A t \in Holders(m) : t \in Threads /\ tpc[t] = "append"
  BY <1>1, <1>2 DEF Holders, HandlerInv, Locking
<1>4. \A t \in Threads : local[t].msg = m => t \in Holders(m)
  BY DEF Holders
<1> QED
  BY <1>1, <1>2, <1>3, <1>4, InnerFacts DEF Followed

LEMMA BusyKept ==
  ASSUME NEW s \in Inner, Busy(s), NEW t \in Threads,
         \A u \in Threads \ {t} : tpc'[u] = tpc[u] /\ local'[u] = local[u],
         local'[t].conn = local[t].conn,
         SourceOf(t) = s => tpc'[t] \in Occupied
  PROVE  Busy(s)'
BY DEF Busy, SourceOf

LEMMA FollowedLock ==
  ASSUME FollowedInv, NEW t \in Threads, LockBuffer(t), NEW s \in Inner
  PROVE  InOrder(s)' /\ \A i \in 1 .. Len(got[s]) : Followed(s, i)'
<1> PICK l : l = local[t].lst
  OBVIOUS
<1>1. /\ HandlerInv /\ NumberedInv /\ InOrder(s) /\ l \in Listeners
      /\ DOMAIN tpc = Threads /\ DOMAIN holder = Listeners /\ NoThread \notin Threads
  BY ThreadFacts DEF FollowedInv, NumberedInv, HandlerInv, LockBuffer, ServedInv, Typed
<1>2. /\ UNCHANGED <<setup, buffer, queues, taken, got, local>>
      /\ tpc[t] = "process" /\ l \in setup.internal /\ holder[l] = NoThread
      /\ holder' = [holder EXCEPT ![l] = t] /\ tpc' = [tpc EXCEPT ![t] = "transfer"]
  BY DEF LockBuffer, historyVars
<1>3. local[t].at = 1
  BY <1>1, <1>2 DEF HandlerInv, Locking
<1>4. \A m : \A j \in Listeners : Unsent(j, m)' = Unsent(j, m)
  BY <1>1, <1>2, <1>3 DEF Unsent, Untransferred
<1>5. InOrder(s)'
  BY <1>1, <1>2, OrderSame
<1>6. ASSUME NEW i \in 1 .. Len(got[s]), NEW m, m = got[s][i] PROVE Followed(s, i)'
  <2>1. /\ Followed(s, i)
        /\ Holders(m) # {} \/ Unsent(ListenerOf(s), m) # {} => Busy(s)
    BY <1>6, FollowedFacts
  <2>2. Busy(s) => Busy(s)'
    BY <1>1, <1>2, BusyKept DEF Occupied
  <2>3. Holders(m)' = Holders(m)
    BY <1>2 DEF Holders
  <2>4. \A u \in Holders(m) : SourceOf(u)' = SourceOf(u)
    BY <1>2 DEF SourceOf
  <2> QED
    BY <1>2, <1>4, <1>6, <2>1, <2>2, <2>3, <2>4, FollowedKept
<1> QED
  BY <1>5, <1>6

LEMMA FollowedClear ==
  ASSUME FollowedInv, NEW t \in Threads, ClearBuffer(t), NEW s \in Inner
  PROVE  InOrder(s)' /\ \A i \in 1 .. Len(got[s]) : Followed(s, i)'
<1> PICK l : l = local[t].lst
  OBVIOUS
<1>1. /\ HandlerInv /\ NumberedInv /\ InOrder(s) /\ l \in Listeners
      /\ DOMAIN tpc = Threads /\ DOMAIN holder = Listeners /\ DOMAIN buffer = Listeners
      /\ NoThread \notin Threads /\ buffer[l] \in Buffers(Messages) /\ local[t].at \in Nat \ {0}
  BY ThreadFacts DEF FollowedInv, NumberedInv, HandlerInv, ClearBuffer, ServedInv, Typed, TypeOK,
                     Locals
<1>2. /\ UNCHANGED <<setup, queues, taken, got, local>>
      /\ tpc[t] = "transfer" /\ local[t].at > Len(buffer[l].contents)
      /\ holder' = [holder EXCEPT ![l] = NoThread] /\ tpc' = [tpc EXCEPT ![t] = "signal"]
      /\ buffer' = [buffer EXCEPT ![l] = Drained(buffer[l])]
  BY DEF ClearBuffer, historyVars
<1>3. holder[l] = t /\ t # NoThread
  BY <1>1, <1>2 DEF HandlerInv, Locking
<1>4. \A m : Unsent(l, m) = {} /\ Unsent(l, m)' = {}
  <2>1. Untransferred(l) = {}
    <3>1. Len(buffer[l].contents) \in Nat
      BY <1>1 DEF Buffers
    <3> QED
      BY <1>1, <1>2, <1>3, <3>1 DEF Untransferred
  <2>2. buffer'[l].contents = <<>> /\ holder'[l] = NoThread
    BY <1>1, <1>2, BufferFields
  <2>3. 1 .. Len(<<>>) = {}
    OBVIOUS
  <2>4. Untransferred(l)' = {}
    <3>1. Untransferred(l)' = 1 .. Len(buffer'[l].contents)
      BY <2>2 DEF Untransferred
    <3> QED
      BY <2>2, <2>3, <3>1
  <2> QED
    BY <2>1, <2>4 DEF Unsent
<1>5. \A m : \A j \in Listeners : Unsent(j, m)' = Unsent(j, m)
  <2>1. \A j \in Listeners \ {l} : holder'[j] = holder[j] /\ buffer'[j] = buffer[j]
    BY <1>1, <1>2
  <2> QED
    BY <1>2, <1>4, <2>1, UnsentKept
<1>6. InOrder(s)'
  BY <1>1, <1>2, OrderSame
<1>7. ASSUME NEW i \in 1 .. Len(got[s]), NEW m, m = got[s][i] PROVE Followed(s, i)'
  <2>1. /\ Followed(s, i)
        /\ Holders(m) # {} \/ Unsent(ListenerOf(s), m) # {} => Busy(s)
        /\ \A u \in Holders(m) : u \in Threads /\ tpc[u] = "append" /\ SourceOf(u) = s
    BY <1>7, FollowedFacts
  <2>2. Holders(m)' = Holders(m)
    BY <1>2 DEF Holders
  <2>3. \A u \in Holders(m) : SourceOf(u)' = SourceOf(u)
    BY <1>2 DEF SourceOf
  <2>4. ASSUME Holders(m) # {} \/ Unsent(ListenerOf(s), m) # {} PROVE SourceOf(t) # s
    <3>1. ASSUME SourceOf(t) = s PROVE FALSE
      <4>1. tpc[t] \in Occupied
        BY <1>2 DEF Occupied
      <4>2. l = ListenerOf(s) /\ \A u \in Threads : tpc[u] \in Occupied /\ SourceOf(u) = s => u = t
        BY <1>1, <3>1, <4>1, SourceFacts DEF HandlerInv
      <4>3. \A u \in Holders(m) : tpc[u] \in Occupied
        BY <2>1 DEF Occupied
      <4>4. Holders(m) = {}
        BY <1>2, <2>1, <4>2, <4>3
      <4> QED
        BY <1>4, <2>4, <4>2, <4>4
    <3> QED
      BY <3>1
  <2>5. Holders(m) # {} \/ Unsent(ListenerOf(s), m) # {} => Busy(s)'
    <3>1. ASSUME Busy(s), SourceOf(t) # s PROVE Busy(s)'
      BY <1>1, <1>2, <3>1, BusyKept
    <3> QED
      BY <2>1, <2>4, <3>1
  <2> QED
    BY <1>2, <1>5, <1>7, <2>1, <2>2, <2>3, <2>5, FollowedKept
<1> QED
  BY <1>6, <1>7

LEMMA FollowedAppend ==
  ASSUME RoomForAll, FollowedInv, NEW t \in Threads, AppendValue(t), NEW s \in Inner
  PROVE  InOrder(s)' /\ \A i \in 1 .. Len(got[s]) : Followed(s, i)'
<1> PICK l, x : l = local[t].lst /\ x = local[t].msg
  OBVIOUS
<1>1. /\ HandlerInv /\ NumberedInv /\ InOrder(s) /\ l \in Listeners
      /\ DOMAIN tpc = Threads /\ DOMAIN buffer = Listeners
      /\ buffer[l] \in Buffers(Messages) /\ buffer[l].contents \in Seq(Old)
  BY ThreadFacts DEF FollowedInv, NumberedInv, Numbered, HandlerInv, AppendValue, ServedInv, Typed,
                     TypeOK
<1>2. /\ UNCHANGED <<setup, queues, taken, got, holder>>
      /\ tpc[t] = "append" /\ holder[l] = NoThread
      /\ buffer' = [buffer EXCEPT ![l] = Put(buffer[l], local[t].msg)]
  BY DEF AppendValue, historyVars
<1>3. /\ local'[t].msg = NoValue /\ local'[t].lst = local[t].lst /\ local'[t].conn = local[t].conn
      /\ \A u \in Threads \ {t} : local'[u] = local[u] /\ tpc'[u] = tpc[u]
      /\ tpc'[t] = "process"
  BY <1>1, AppendedLocal
<1>4. x \in Old /\ x \in Messages /\ x # NoValue
  BY <1>1, <1>2 DEF HandlerInv, Locking, NumberedInv, Numbered, Old
<1>5. ASSUME NEW m, NEW j \in Listeners, j # l PROVE Unsent(j, m)' = Unsent(j, m)
  <2>1. holder[j] # NoThread => local'[holder[j]] = local[holder[j]]
    <3>1. ASSUME holder[j] # NoThread
          PROVE  holder[j] \in Threads /\ tpc[holder[j]] = "transfer"
      BY <1>1, <3>1 DEF HandlerInv, Locking, ServedInv, Typed, TypeOK
    <3> QED
      BY <1>2, <1>3, <3>1
  <2> QED
    BY <1>1, <1>2, <1>5, <2>1, UnsentKept
<1>6. \A m : /\ Unsent(l, m) = Positions(buffer[l].contents, m)
             /\ Unsent(l, m)' = Positions(Put(buffer[l], x).contents, m)
  <2>1. buffer'[l] = Put(buffer[l], x) /\ holder'[l] = NoThread
    BY <1>1, <1>2
  <2>2. \A m : Unsent(l, m)' = Positions(buffer'[l].contents, m)
    BY <2>1 DEF Unsent, Untransferred, Positions
  <2> QED
    BY <1>1, <1>2, <2>1, <2>2, UnsentAt
<1>7. InOrder(s)'
  BY <1>1, <1>2, OrderSame
<1>8. Busy(s) => Busy(s)'
  BY <1>3, BusyKept DEF Occupied
<1>9. \A u \in Threads : SourceOf(u)' = SourceOf(u)
  BY <1>3 DEF SourceOf
<1>10. ASSUME NEW i \in 1 .. Len(got[s]), NEW m, m = got[s][i] PROVE Followed(s, i)'
  <2>1. /\ m \in Old /\ m # NoValue /\ Followed(s, i)
        /\ Holders(m) # {} \/ Unsent(ListenerOf(s), m) # {} => i = Len(got[s]) /\ Busy(s)
        /\ \A u \in Holders(m) : u \in Threads /\ tpc[u] = "append" /\ SourceOf(u) = s
        /\ \A j \in Listeners : Unsent(j, m) # {} => j = ListenerOf(s)
        /\ ListenerOf(s) \in setup.internal
    BY <1>10, FollowedFacts
  <2>2. CASE m # x
    <3>1. Holders(m)' = Holders(m)
      BY <1>3, <2>1, <2>2 DEF Holders
    <3>2. Unsent(l, m)' = Unsent(l, m)
      <4>1. CASE Full(buffer[l])
        BY <1>1, <1>6, <4>1, BufferFields
      <4>2. CASE ~ Full(buffer[l])
        <5>1. Put(buffer[l], x).contents = Append(buffer[l].contents, x)
          BY <1>1, <4>2, BufferFields
        <5> QED
          BY <1>1, <1>4, <1>6, <2>2, <5>1, PositionsAppend
      <4> QED
        BY <4>1, <4>2
    <3>3. \A j \in Listeners : Unsent(j, m)' = Unsent(j, m)
      BY <1>5, <3>2
    <3>4. \A u \in Holders(m) : SourceOf(u)' = SourceOf(u)
      BY <1>9, <2>1
    <3> QED
      BY <1>2, <1>8, <1>10, <2>1, <3>1, <3>3, <3>4, FollowedKept
  <2>3. CASE m = x
    <3>1. t \in Holders(m) /\ Holders(m)' = Holders(m) \ {t}
      BY <1>3, <2>1, <2>3 DEF Holders
    <3>2. SourceOf(t) = s /\ i = Len(got[s]) /\ Busy(s)'
      BY <1>8, <2>1, <3>1
    <3>3. l = ListenerOf(s)
      <4>1. tpc[t] \in Occupied
        BY <1>2 DEF Occupied
      <4> QED
        BY <1>1, <3>2, <4>1, SourceFacts DEF HandlerInv
    <3>4. ~ Full(buffer[l])
      BY <1>1, <1>2, <2>1, <3>3, NeverFull DEF FollowedInv
    <3>5. Unsent(l, m)' = Unsent(l, m) \cup {Len(buffer[l].contents) + 1}
      <4>1. Put(buffer[l], x).contents = Append(buffer[l].contents, x)
        BY <1>1, <3>4, BufferFields
      <4> QED
        BY <1>1, <1>4, <1>6, <2>3, <4>1, PositionsAppend
    <3> DEFINE k == KeyOf(setup.kind, m)
    <3>6. ASSUME k \in DOMAIN queues
          PROVE  InOne(Holders(m)', Unsent(l, m)', Positions(queues[k], m), Positions(taken, m))
      <4>1. InOne(Holders(m), Unsent(l, m), Positions(queues[k], m), Positions(taken, m))
        BY <1>10, <2>1, <3>3, <3>6 DEF Followed
      <4>2. /\ Holders(m) = {t} /\ Unsent(l, m) = {} /\ Positions(queues[k], m) = {}
            /\ Positions(taken, m) = {}
        BY <3>1, <4>1 DEF InOne, OnlyIn, Single
      <4> QED
        BY <3>1, <3>5, <4>2 DEF InOne, OnlyIn, Single
    <3>7. \A u \in Holders(m)' : SourceOf(u)' = s
      BY <1>9, <2>1, <3>1
    <3>8. \A j \in Listeners : Unsent(j, m)' # {} => j = ListenerOf(s)
      BY <1>5, <2>1, <3>3
    <3>9. /\ got'[s] = got[s] /\ m' = m /\ queues' = queues /\ setup' = setup /\ taken' = taken
          /\ ListenerOf(s)' = ListenerOf(s)
      BY <1>2 DEF ListenerOf
    <3> QED
      BY <1>10, <3>2, <3>3, <3>6, <3>7, <3>8, <3>9 DEF Followed
  <2> QED
    BY <2>2, <2>3
<1> QED
  BY <1>7, <1>10

LEMMA FollowedTransfer ==
  ASSUME FollowedInv, NEW t \in Threads, TransferNext(t), NEW s \in Inner
  PROVE  InOrder(s)' /\ \A i \in 1 .. Len(got[s]) : Followed(s, i)'
<1> PICK l, x, n : /\ l = local[t].lst /\ n = local[t].at
                   /\ x = buffer[local[t].lst].contents[local[t].at]
  OBVIOUS
<1>1. /\ HandlerInv /\ NumberedInv /\ InOrder(s) /\ l \in Listeners /\ n \in Nat \ {0}
      /\ NoThread \notin Threads /\ buffer[l].contents \in Seq(Old)
      /\ \A k \in DOMAIN queues : queues[k] \in Seq(Old)
  BY ThreadFacts DEF FollowedInv, NumberedInv, Numbered, HandlerInv, TransferNext, ServedInv, Typed,
                     Locals
<1>2. /\ UNCHANGED <<setup, taken, got, holder, buffer, tpc>>
      /\ tpc[t] = "transfer" /\ n <= Len(buffer[l].contents)
      /\ queues' = Enqueued(setup.kind, queues, x)
  BY DEF TransferNext, historyVars, listenerVars
<1>3. /\ local'[t].at = n + 1
      /\ \A u \in Threads : local'[u].msg = local[u].msg /\ local'[u].conn = local[u].conn
      /\ \A u \in Threads \ {t} : local'[u] = local[u]
  BY <1>1, CopiedLocal
<1>4. holder[l] = t /\ t # NoThread /\ \A j \in Listeners \ {l} : holder[j] # t
  BY <1>1, <1>2 DEF HandlerInv, Locking
<1>5. ASSUME NEW m, NEW j \in Listeners, j # l PROVE Unsent(j, m)' = Unsent(j, m)
  <2>1. holder[j] # NoThread => holder[j] \in Threads \ {t}
    BY <1>1, <1>4, <1>5 DEF HandlerInv, ServedInv, Typed, TypeOK
  <2> QED
    BY <1>2, <1>3, <1>5, <2>1, UnsentKept
<1>6. /\ x \in Old /\ n \in Untransferred(l) /\ buffer[l].contents[n] = x
      /\ Untransferred(l)' = Untransferred(l) \ {n}
  <2>1. Len(buffer[l].contents) \in Nat /\ x \in Old
    BY <1>1, <1>2
  <2>2. /\ Untransferred(l) = n .. Len(buffer[l].contents)
        /\ Untransferred(l)' = (n + 1) .. Len(buffer[l].contents)
    BY <1>2, <1>3, <1>4 DEF Untransferred
  <2> QED
    BY <1>1, <1>2, <2>1, <2>2
<1>7. \A m : /\ m # x => Unsent(l, m)' = Unsent(l, m)
             /\ m = x => n \in Unsent(l, m) /\ Unsent(l, m)' = Unsent(l, m) \ {n}
  BY <1>2, <1>6 DEF Unsent
<1>8. Busy(s) => Busy(s)'
  BY <1>2, <1>3, BusyKept DEF Occupied
<1>9. \A u \in Threads : SourceOf(u)' = SourceOf(u)
  BY <1>3 DEF SourceOf
<1>10. \A m : Holders(m)' = Holders(m)
  BY <1>3 DEF Holders
<1>11. /\ DOMAIN queues' = DOMAIN queues
       /\ \A k \in DOMAIN queues :
            queues'[k] = IF KeyOf(setup.kind, x) = k THEN Append(queues[k], x) ELSE queues[k]
  BY <1>2, EnqueuedAt
<1>12. InOrder(s)'
  <2>1. ASSUME NEW a \in 1 .. Len(got[s]), got[s][a] = x PROVE a = Len(got[s])
    <3>1. \A j \in Listeners : Unsent(j, x) # {} => j = ListenerOf(s)
      BY <2>1, FollowedFacts
    <3>2. Unsent(ListenerOf(s), x) # {} => a = Len(got[s])
      BY <2>1, FollowedFacts
    <3> QED
      BY <1>1, <1>7, <3>1, <3>2
  <2>2. Len(got[s]) \in Nat
    BY <1>1, InnerFacts
  <2> QED
    BY <1>1, <1>2, <1>6, <2>1, <2>2, OrderKept
<1>13. ASSUME NEW i \in 1 .. Len(got[s]), NEW m, m = got[s][i] PROVE Followed(s, i)'
  <2>1. /\ m \in Old /\ Followed(s, i)
        /\ Holders(m) # {} \/ Unsent(ListenerOf(s), m) # {} => i = Len(got[s]) /\ Busy(s)
        /\ \A u \in Holders(m) : u \in Threads /\ SourceOf(u) = s
        /\ \A j \in Listeners : Unsent(j, m) # {} => j = ListenerOf(s)
    BY <1>13, FollowedFacts
  <2>2. CASE m # x
    <3>1. \A j \in Listeners : Unsent(j, m)' = Unsent(j, m)
      BY <1>5, <1>7, <2>2
    <3>2. \A u \in Holders(m) : SourceOf(u)' = SourceOf(u)
      BY <1>9, <2>1
    <3>3. \A k \in DOMAIN queues : Positions(queues'[k], m) = Positions(queues[k], m)
      <4>1. \A k \in DOMAIN queues :
              Positions(Append(queues[k], x), m) = Positions(queues[k], m)
        BY <1>1, <1>6, <2>2, PositionsAppend
      <4> QED
        BY <1>11, <4>1
    <3> QED
      BY <1>2, <1>8, <1>10, <1>11, <1>13, <2>1, <3>1, <3>2, <3>3, FollowedKept
  <2>3. CASE m = x
    <3>1. l = ListenerOf(s) /\ i = Len(got[s]) /\ Busy(s)'
      <4>1. Unsent(l, m) # {}
        BY <1>7, <2>3
      <4> QED
        BY <1>1, <1>8, <2>1, <4>1
    <3> DEFINE k == KeyOf(setup.kind, m)
    <3>2. ASSUME k \in DOMAIN queues
          PROVE  InOne(Holders(m)', Unsent(l, m)', Positions(queues'[k], m), Positions(taken, m))
      <4>1. InOne(Holders(m), Unsent(l, m), Positions(queues[k], m), Positions(taken, m))
        BY <1>13, <2>1, <3>1, <3>2 DEF Followed
      <4>2. n \in Unsent(l, m) /\ Unsent(l, m)' = Unsent(l, m) \ {n}
        BY <1>7, <2>3
      <4>3. /\ Holders(m) = {} /\ Unsent(l, m) = {n} /\ Positions(queues[k], m) = {}
            /\ Positions(taken, m) = {}
        BY <4>1, <4>2 DEF InOne, OnlyIn, Single
      <4>4. Positions(queues'[k], m) = {Len(queues[k]) + 1}
        <5>1. queues[k] \in Seq(Old) /\ queues'[k] = Append(queues[k], x)
          BY <1>1, <1>11, <2>3, <3>2
        <5> HIDE DEF k
        <5>2. Positions(Append(queues[k], x), x) = Positions(queues[k], x) \cup {Len(queues[k]) + 1}
          BY <1>6, <5>1, PositionsAppend
        <5> QED
          BY <2>3, <4>3, <5>1, <5>2
      <4> QED
        BY <1>10, <4>2, <4>3, <4>4 DEF InOne, OnlyIn, Single
    <3>3. \A u \in Holders(m)' : SourceOf(u)' = s
      BY <1>9, <1>10, <2>1
    <3>4. \A j \in Listeners : Unsent(j, m)' # {} => j = ListenerOf(s)
      BY <1>5, <2>1, <3>1
    <3>5. /\ got'[s] = got[s] /\ setup' = setup /\ taken' = taken
          /\ ListenerOf(s)' = ListenerOf(s) /\ DOMAIN queues' = DOMAIN queues
      BY <1>2, <1>11 DEF ListenerOf
    <3> QED
      BY <1>13, <3>1, <3>2, <3>3, <3>4, <3>5 DEF Followed
  <2> QED
    BY <2>2, <2>3
<1> QED
  BY <1>12, <1>13

\* A message that arrives is behind all others from its source: they are in the
\* queues or gone, since its source was not being served.
LEMMA FollowedCame ==
  ASSUME FollowedInv, NEW t \in Threads, NEW r \in Sources, Came(t, r), NEW s \in Inner
  PROVE  InOrder(s)' /\ \A i \in 1 .. Len(got'[s]) : Followed(s, i)'
<1>1. /\ HandlerInv /\ NumberedInv /\ Numbered /\ InOrder(s) /\ DOMAIN got = Sources
      /\ s \in Sources /\ got[s] \in Seq(Old) /\ Len(got[s]) \in Nat
  BY InnerFacts DEF FollowedInv, NumberedInv, HandlerInv, ServedInv, Typed, TypeOK
<1>2. /\ UNCHANGED <<queues, setup, buffer, holder, taken>>
      /\ tpc[t] \notin Occupied /\ (\A u \in Threads : tpc[u] \in Occupied => SourceOf(u) # r)
      /\ local'[t].lst = ListenerOf(r) /\ SourceOf(t)' = r /\ tpc'[t] = "append"
      /\ \A u \in Threads \ {t} : tpc'[u] = tpc[u] /\ local'[u] = local[u]
  BY DEF Came
<1>3. PICK x \in Messages :
        x.val = serial + 1 /\ got' = [got EXCEPT ![r] = Append(got[r], x)] /\ local'[t].msg = x
  BY DEF Came
<1>4. x \notin Old
  <2>1. serial' \in {serial, serial + 1}
    BY DEF Came
  <2> QED
    BY <1>1, <1>3, <2>1, OldGrows
<1>5. local[t].msg = NoValue
  BY <1>1, <1>2 DEF HandlerInv, Locking, Occupied
<1>6. \A m : \A j \in Listeners : Unsent(j, m)' = Unsent(j, m)
  <2>1. ASSUME NEW j \in Listeners, holder[j] # NoThread PROVE holder[j] \in Threads \ {t}
    BY <1>1, <1>2, <2>1 DEF HandlerInv, Locking, Occupied, ServedInv, Typed, TypeOK
  <2> QED
    BY <1>2, <2>1, UnsentKept
<1>7. ASSUME NEW i \in 1 .. Len(got[s]), NEW m, m = got[s][i], got'[s][i] = m PROVE Followed(s, i)'
  <2>1. /\ m \in Old /\ m # NoValue /\ Followed(s, i)
        /\ Holders(m) # {} \/ Unsent(ListenerOf(s), m) # {} => Busy(s)
        /\ \A u \in Holders(m) : u \in Threads /\ tpc[u] = "append" /\ SourceOf(u) = s
    BY <1>7, FollowedFacts
  <2>2. Holders(m)' = Holders(m)
    BY <1>2, <1>3, <1>4, <1>5, <2>1 DEF Holders
  <2>3. \A u \in Holders(m) : SourceOf(u)' = SourceOf(u)
    BY <1>2, <2>1 DEF SourceOf, Occupied
  <2>4. Busy(s) => Len(got'[s]) = Len(got[s]) /\ Busy(s)'
    <3>1. ASSUME Busy(s) PROVE s # r
      BY <1>2, <3>1 DEF Busy
    <3>2. s # r => got'[s] = got[s]
      BY <1>1, <1>3
    <3>3. Busy(s) => Busy(s)'
      BY <1>2 DEF Busy, SourceOf
    <3> QED
      BY <3>1, <3>2, <3>3
  <2> QED
    BY <1>2, <1>6, <1>7, <2>1, <2>2, <2>3, <2>4, FollowedKept
<1>8. CASE s # r
  <2>1. got'[s] = got[s]
    BY <1>1, <1>3, <1>8
  <2>2. InOrder(s)'
    BY <1>1, <1>2, <2>1, OrderSame
  <2> QED
    BY <1>7, <2>1, <2>2
<1>9. CASE s = r
  <2> PICK n : n = Len(got[s]) + 1
    OBVIOUS
  <2>1. /\ got'[s] = Append(got[s], x) /\ Len(got'[s]) = n /\ got'[s][n] = x
        /\ \A i \in 1 .. Len(got[s]) : got'[s][i] = got[s][i]
    BY <1>1, <1>3, <1>9
  <2>2. /\ Positions(taken, x) = {} /\ \A k \in DOMAIN queues : Positions(queues[k], x) = {}
        /\ \A j \in Listeners : Unsent(j, x) = {}
    <3>1. \A j \in Listeners : Positions(buffer[j].contents, x) = {}
      BY <1>1, <1>4, PositionsNone DEF Numbered
    <3>2. ASSUME NEW j \in Listeners PROVE Unsent(j, x) = {}
      <4>1. CASE holder[j] = NoThread
        BY <3>1, <4>1, UnsentAt
      <4>2. CASE holder[j] # NoThread
        <5>1. local[holder[j]].at \in Nat \ {0} /\ Len(buffer[j].contents) \in Nat
          <6>1. holder[j] \in Threads
            BY <1>1, <4>2 DEF HandlerInv, ServedInv, Typed, TypeOK
          <6>2. buffer[j].contents \in Seq(Old)
            BY <1>1 DEF Numbered
          <6> QED
            BY <1>1, <6>1, <6>2, ThreadFacts DEF HandlerInv, Locals
        <5>2. Untransferred(j) \subseteq 1 .. Len(buffer[j].contents)
          BY <4>2, <5>1 DEF Untransferred
        <5> QED
          BY <3>1, <5>2 DEF Unsent, Positions
      <4> QED
        BY <4>1, <4>2
    <3> QED
      BY <1>1, <1>4, <3>2, PositionsNone DEF Numbered
  <2>3. Holders(x)' = {t}
    <3>1. \A u \in Threads : local[u].msg \in Old \cup {NoValue}
      BY <1>1 DEF Numbered
    <3>2. x # NoValue
      BY <1>1, ThreadFacts DEF HandlerInv
    <3> QED
      BY <1>2, <1>3, <1>4, <3>1, <3>2 DEF Holders
  <2>4. Followed(s, n)'
    <3>1. Busy(s)'
      BY <1>2, <1>9 DEF Busy, Occupied
    <3> DEFINE k == KeyOf(setup.kind, x)
               l == ListenerOf(s)
    <3>2. k \in DOMAIN queues =>
            InOne(Holders(x)', Unsent(l, x)', Positions(queues[k], x), Positions(taken, x))
      <4>1. l \in Listeners
        BY <1>1, InnerFacts
      <4> QED
        BY <1>6, <2>2, <2>3, <4>1 DEF InOne, OnlyIn, Single
    <3>3. \A j \in Listeners : Unsent(j, x)' = {}
      BY <1>6, <2>2
    <3>4. ListenerOf(s)' = l
      BY DEF ListenerOf
    <3>5. \A u \in Holders(x)' : SourceOf(u)' = s
      BY <1>2, <1>9, <2>3
    <3>6. Unsent(l, x)' = {} \/ l \in Listeners
      BY <1>1, InnerFacts
    <3> QED
      BY <1>2, <2>1, <3>1, <3>2, <3>3, <3>4, <3>5, <3>6 DEF Followed
  <2>5. InOrder(s)'
    <3>1. SUFFICES ASSUME NEW a \in 1 .. Len(got'[s]), NEW b \in 1 .. Len(got'[s]),
                          NEW k \in DOMAIN queues, a < b,
                          KeyOf(setup.kind, got'[s][a]) = k, KeyOf(setup.kind, got'[s][b]) = k
                   PROVE  Before(k, got'[s][a], got'[s][b])
      BY <1>2 DEF InOrder, Before
    <3>2. CASE b = n
      BY <2>1, <2>2, <3>2 DEF Before
    <3>3. CASE b # n
      <4>1. a \in 1 .. Len(got[s]) /\ b \in 1 .. Len(got[s])
        BY <1>1, <2>1, <3>1, <3>3
      <4>2. got'[s][a] = got[s][a] /\ got'[s][b] = got[s][b]
        BY <2>1, <4>1
      <4> QED
        BY <1>1, <3>1, <4>1, <4>2 DEF InOrder
    <3> QED
      BY <3>2, <3>3
  <2>6. \A i \in 1 .. Len(got'[s]) : i = n \/ i \in 1 .. Len(got[s])
    BY <1>1, <2>1
  <2> QED
    BY <1>7, <2>1, <2>4, <2>5, <2>6
<1> QED
  BY <1>8, <1>9

\* A message that is taken leaves its queue at the front.
LEMMA FollowedPop ==
  ASSUME FollowedInv, PopMessage, NEW s \in Inner
  PROVE  InOrder(s)' /\ \A i \in 1 .. Len(got[s]) : Followed(s, i)'
<1> PICK q, y : q = wkey /\ y = Head(queues[wkey])
  OBVIOUS
<1>1. /\ HandlerInv /\ NumberedInv /\ Numbered /\ InOrder(s) /\ s \in Sources
      /\ q \in DOMAIN queues /\ queues[q] # <<>> /\ Len(got[s]) \in Nat
  BY InnerFacts DEF FollowedInv, NumberedInv, HandlerInv, ServedInv, Typed, PopMessage
<1>2. /\ UNCHANGED <<setup, buffer, holder, got, tpc, local>>
      /\ queues' = [queues EXCEPT ![q] = Tail(queues[q])] /\ taken' = Append(taken, y)
  BY DEF PopMessage, listenerVars, threadVars, Popped
<1>3. /\ taken \in Seq(Old) /\ Len(taken) \in Nat /\ queues[q] \in Seq(Old) /\ y \in Old
      /\ KeyOf(setup.kind, y) = q
  <2>1. taken \in Seq(Old) /\ queues[q] \in Seq(Old)
    BY <1>1 DEF Numbered
  <2>2. y = queues[q][1] /\ 1 \in 1 .. Len(queues[q]) /\ Len(taken) \in Nat
    BY <1>1, <2>1
  <2> QED
    BY <1>1, <2>1, <2>2 DEF Numbered
<1>4. /\ DOMAIN queues' = DOMAIN queues /\ queues'[q] = Tail(queues[q])
      /\ \A k \in DOMAIN queues \ {q} : queues'[k] = queues[k]
  BY <1>1, <1>2
<1>5. \A m : /\ \A i \in Positions(queues'[q], m) : i \in Nat /\ i + 1 \in Positions(queues[q], m)
             /\ \A i \in Positions(queues[q], m) :
                  i \in Nat /\ (i # 1 => i - 1 \in Positions(queues'[q], m))
             /\ 1 \in Positions(queues[q], m) <=> y = m
  BY <1>1, <1>3, <1>4, PositionsTail
<1>6. \A m : /\ y # m => Positions(taken', m) = Positions(taken, m)
             /\ y = m => Positions(taken', m) = Positions(taken, m) \cup {Len(taken) + 1}
             /\ Positions(taken, m) \subseteq 1 .. Len(taken)
  BY <1>2, <1>3, PositionsAppend
<1>7. \A m : /\ Holders(m)' = Holders(m)
             /\ \A j \in Listeners : Unsent(j, m)' = Unsent(j, m)
             /\ \A t \in Threads : SourceOf(t)' = SourceOf(t)
             /\ Busy(s)' = Busy(s)
  BY <1>2 DEF Holders, Unsent, Untransferred, SourceOf, Busy
<1>8. ASSUME NEW i \in 1 .. Len(got[s]), NEW m, m = got[s][i] PROVE Followed(s, i)'
  <2>1. /\ Followed(s, i) /\ ListenerOf(s) \in Listeners
        /\ \A u \in Holders(m) : u \in Threads
    BY <1>8, FollowedFacts
  <2> PICK k, l : k = KeyOf(setup.kind, m) /\ l = ListenerOf(s)
    OBVIOUS
  <2>2. /\ k \in DOMAIN queues =>
             InOne(Holders(m), Unsent(l, m), Positions(queues[k], m), Positions(taken, m))
        /\ \A t \in Holders(m) : SourceOf(t) = s
        /\ \A j \in Listeners : Unsent(j, m) # {} => j = l
        /\ Holders(m) # {} \/ Unsent(l, m) # {} => i = Len(got[s]) /\ Busy(s)
    BY <1>8, <2>1 DEF Followed
  <2>3. ASSUME k \in DOMAIN queues
        PROVE  InOne(Holders(m), Unsent(l, m), Positions(queues'[k], m), Positions(taken', m))
    <3>1. CASE k # q
      <4>1. y # m
        BY <1>3, <3>1
      <4> QED
        BY <1>4, <1>6, <2>2, <2>3, <3>1, <4>1
    <3>2. CASE k = q /\ y = m
      <4>1. /\ Holders(m) = {} /\ Unsent(l, m) = {} /\ Positions(taken, m) = {}
            /\ Positions(queues[q], m) = {1}
        BY <1>5, <2>2, <2>3, <3>2 DEF InOne, OnlyIn, Single
      <4>2. Positions(queues'[q], m) = {}
        <5>1. \A p \in Positions(queues'[q], m) : p \in Nat /\ p + 1 = 1
          BY <1>5, <4>1
        <5>2. \A p \in Positions(queues'[q], m) : p \in 1 .. Len(queues'[q])
          BY DEF Positions
        <5> QED
          BY <5>1, <5>2
      <4>3. Positions(taken', m) = {Len(taken) + 1}
        BY <1>6, <3>2, <4>1
      <4> QED
        BY <3>2, <4>1, <4>2, <4>3 DEF InOne, OnlyIn, Single
    <3>3. CASE k = q /\ y # m
      <4>1. Positions(taken', m) = Positions(taken, m)
        BY <1>6, <3>3
      <4>2. Positions(queues[q], m) = {} => Positions(queues'[q], m) = {}
        BY <1>5
      <4>3. ASSUME NEW p, Positions(queues[q], m) = {p} PROVE Positions(queues'[q], m) = {p - 1}
        <5>1. p \in Nat /\ p # 1 /\ p - 1 \in Positions(queues'[q], m)
          BY <1>5, <3>3, <4>3
        <5>2. \A o \in Positions(queues'[q], m) : o \in Nat /\ o + 1 = p
          BY <1>5, <4>3
        <5>3. \A o \in Positions(queues'[q], m) : o = p - 1
          BY <5>1, <5>2
        <5> QED
          BY <5>1, <5>3
      <4>4. Single(Positions(queues[q], m)) => Single(Positions(queues'[q], m))
        BY <4>3 DEF Single
      <4> QED
        BY <2>2, <2>3, <3>3, <4>1, <4>2, <4>4 DEF InOne, OnlyIn
    <3> QED
      BY <3>1, <3>2, <3>3
  <2>4. /\ \A t \in Holders(m)' : SourceOf(t)' = s
        /\ \A j \in Listeners : Unsent(j, m)' # {} => j = l
        /\ Holders(m)' # {} \/ Unsent(l, m)' # {} => i = Len(got[s]) /\ Busy(s)'
        /\ k \in DOMAIN queues =>
             InOne(Holders(m)', Unsent(l, m)', Positions(queues'[k], m), Positions(taken', m))
    BY <1>7, <2>1, <2>2, <2>3
  <2>5. /\ got'[s][i] = m /\ got'[s] = got[s] /\ KeyOf(setup.kind, m)' = k /\ ListenerOf(s)' = l
        /\ DOMAIN queues' = DOMAIN queues
    BY <1>2, <1>4, <1>8 DEF ListenerOf
  <2> QED
    BY <2>4, <2>5 DEF Followed
<1>9. InOrder(s)'
  <2> SUFFICES ASSUME NEW a \in 1 .. Len(got[s]), NEW b \in 1 .. Len(got[s]),
                      NEW k \in DOMAIN queues, a < b,
                      KeyOf(setup.kind, got[s][a]) = k, KeyOf(setup.kind, got[s][b]) = k
               PROVE  Before(k, got[s][a], got[s][b])'
    BY <1>2, <1>4, OrderGoal
  <2> PICK m, n : m = got[s][a] /\ n = got[s][b]
    OBVIOUS
  <2>1. Before(k, m, n)
    BY <1>1 DEF InOrder
  <2>2. m # n
    BY <1>1 DEF Numbered
  <2>3. (y = m \/ y = n) => k = q
    BY <1>3
  <2>4. \A i \in Positions(taken', m), j \in Positions(taken', n) : i < j
    <3>1. CASE y = m
      <4>1. Positions(queues[k], m) # {}
        BY <1>5, <2>3, <3>1
      <4>2. Positions(taken, n) = {}
        BY <2>1, <4>1 DEF Before
      <4> QED
        BY <1>6, <2>2, <3>1, <4>2
    <3>2. CASE y = n
      <4>1. Positions(taken', m) \subseteq 1 .. Len(taken)
        BY <1>6, <2>2, <3>2
      <4>2. Positions(taken', n) = Positions(taken, n) \cup {Len(taken) + 1}
        BY <1>6, <3>2
      <4>3. Positions(taken', m) = Positions(taken, m)
        BY <1>6, <2>2, <3>2
      <4> QED
        BY <1>3, <2>1, <4>1, <4>2, <4>3 DEF Before
    <3>3. CASE y # m /\ y # n
      BY <1>6, <2>1, <3>3 DEF Before
    <3> QED
      BY <3>1, <3>2, <3>3
  <2>5. \A i \in Positions(queues'[k], m), j \in Positions(queues'[k], n) : i < j
    <3>1. CASE k = q
      <4>1. ASSUME NEW i \in Positions(queues'[q], m), NEW j \in Positions(queues'[q], n)
            PROVE  i < j
        <5>1. i + 1 \in Positions(queues[q], m) /\ j + 1 \in Positions(queues[q], n)
          BY <1>5
        <5>2. i + 1 < j + 1
          BY <2>1, <3>1, <5>1 DEF Before
        <5>3. i \in Nat /\ j \in Nat
          BY <1>5
        <5> QED
          BY <5>2, <5>3
      <4> QED
        BY <3>1, <4>1
    <3>2. CASE k # q
      BY <1>4, <2>1, <3>2 DEF Before
    <3> QED
      BY <3>1, <3>2
  <2>6. Positions(queues'[k], m) = {} \/ Positions(taken', n) = {}
    <3>1. Positions(queues[k], m) = {} => Positions(queues'[k], m) = {}
      BY <1>4, <1>5
    <3>2. CASE y = n
      <4>1. 1 \in Positions(queues[k], n)
        BY <1>5, <2>3, <3>2
      <4>2. \A i \in Positions(queues[k], m) : i < 1
        BY <2>1, <4>1 DEF Before
      <4>3. \A i \in Positions(queues[k], m) : ~ (i < 1)
        BY DEF Positions
      <4> QED
        BY <3>1, <4>2, <4>3
    <3>3. CASE y # n
      BY <1>6, <2>1, <3>1, <3>3 DEF Before
    <3> QED
      BY <3>2, <3>3
  <2>7. Before(k, m, n)'
    BY <2>4, <2>5, <2>6 DEF Before
  <2>8. got'[s][a] = m /\ got'[s][b] = n
    BY <1>2
  <2> QED
    BY <2>7, <2>8 DEF Before
<1> QED
  BY <1>8, <1>9

LEMMA FollowedInit == Init => FollowedInv
<1> SUFFICES ASSUME Init PROVE FollowedInv
  OBVIOUS
<1>1. NumberedInv /\ BufferBound
  BY HandlerInit, NumberedInit, CarryInit DEF NumberedInv, CarryInv
<1>2. \A s \in Inner : 1 .. Len(got[s]) = {}
  <2>1. \A s \in Inner : got[s] = <<>>
    BY DEF Init, Inner
  <2>2. 1 .. Len(<<>>) = {}
    OBVIOUS
  <2> QED
    BY <2>1, <2>2
<1>3. \A s \in Inner : InOrder(s) /\ \A i \in 1 .. Len(got[s]) : Followed(s, i)
  BY <1>2 DEF InOrder
<1> QED
  BY <1>1, <1>3 DEF FollowedInv

LEMMA FollowedStep == ASSUME RoomForAll, FollowedInv, [Next]_vars PROVE FollowedInv'
<1>1. NumberedInv' /\ BufferBound'
  <2>1. HandlerInv /\ NumberedInv /\ CarryInv
    BY DEF FollowedInv, NumberedInv, HandlerInv, ServedInv, CarryInv
  <2> QED
    BY <2>1, NumberedStep, CarryStep DEF CarryInv
<1>2. \/ Quiet \/ Sent \/ PopMessage
      \/ \E t \in Threads : Carried(t)
      \/ \E t \in Threads, s \in Sources : Came(t, s)
  BY StepKinds DEF FollowedInv, NumberedInv
<1>3. ASSUME NEW s \in Inner
      PROVE  InOrder(s)' /\ \A i \in 1 .. Len(got'[s]) : Followed(s, i)'
  <2>1. CASE Quiet
    BY <2>1, FollowedCalm DEF Quiet
  <2>2. CASE Sent
    BY <2>2, FollowedCalm DEF Sent
  <2>3. CASE PopMessage
    BY <2>3, FollowedPop DEF PopMessage
  <2>4. ASSUME NEW t \in Threads, Carried(t)
        PROVE  InOrder(s)' /\ \A i \in 1 .. Len(got'[s]) : Followed(s, i)'
    <3>1. got' = got
      BY <2>4 DEF Carried, AppendValue, LockBuffer, TransferNext, ClearBuffer, historyVars
    <3> QED
      BY <2>4, <3>1, FollowedAppend, FollowedLock, FollowedTransfer, FollowedClear DEF Carried
  <2>5. CASE \E t \in Threads, r \in Sources : Came(t, r)
    BY <2>5, FollowedCame
  <2> QED
    BY <1>2, <2>1, <2>2, <2>3, <2>4, <2>5
<1>4. Inner' = Inner
  <2>1. setup' = setup
    BY <1>2 DEF Quiet, Sent, PopMessage, Came, Carried, AppendValue, LockBuffer, TransferNext,
                ClearBuffer, listenerVars
  <2> QED
    BY <2>1 DEF Inner, ListenerOf
<1> QED
  BY <1>1, <1>3, <1>4 DEF FollowedInv

LEMMA FollowedHolds == ASSUME RoomForAll PROVE Spec => []FollowedInv
BY FollowedInit, FollowedStep, PTL DEF Spec

-----------------------------------------------------------------------------
(* What becomes of a message *)

LEMMA CardinalityOfOne ==
  ASSUME NEW A, Single(A) PROVE Cardinality(A) = 1
BY FS_Singleton DEF Single

\* If the engine has a queue for it, a message received by a listener with an
\* internal processor is in exactly one place, however many listeners,
\* connections and threads there are, provided that the buffers have room for
\* one message of each service thread.
THEOREM ReceivedExactlyOnce == ASSUME RoomForAll PROVE Spec => []ExactlyOnce
<1>1. FollowedInv => ExactlyOnce
  <2> SUFFICES ASSUME FollowedInv, NEW s \in Sources, ListenerOf(s) \in setup.internal,
                      NEW i \in 1 .. Len(got[s]), ValidTarget(setup.kind, queues, got[s][i])
               PROVE  Places(got[s][i]) = 1
    BY DEF ExactlyOnce
  <2> PICK m, l, k : m = got[s][i] /\ l = ListenerOf(s) /\ k = KeyOf(setup.kind, got[s][i])
    OBVIOUS
  <2>1. s \in Inner /\ k \in DOMAIN queues /\ Numbered
    BY DEF Inner, ValidTarget, FollowedInv, NumberedInv
  <2>2. Followed(s, i) /\ l \in Listeners /\ \A j \in Listeners : Unsent(j, m) # {} => j = l
    BY <2>1, FollowedFacts
  <2>3. InOne(Holders(m), Unsent(l, m), Positions(queues[k], m), Positions(taken, m))
    BY <2>1, <2>2 DEF Followed
  <2>4. \A x : x \in Slots(m) <=> \E p \in Unsent(l, m) : x = <<l, p>>
    BY <2>2 DEF Slots
  <2>5. \A x : x \in Queued(m) <=> \E p \in Positions(queues[k], m) : x = <<k, p>>
    <3>1. \A j \in DOMAIN queues : Positions(queues[j], m) # {} => j = k
      BY <2>1 DEF Numbered, Positions
    <3> QED
      BY <2>1, <3>1 DEF Queued
  <2>6. InOne(Holders(m), Slots(m), Queued(m), Positions(taken, m))
    <3>1. /\ Single(Unsent(l, m)) => Single(Slots(m))
          /\ Unsent(l, m) = {} => Slots(m) = {}
      <4>1. ASSUME NEW o, Unsent(l, m) = {o} PROVE Slots(m) = {<<l, o>>}
        BY <2>4, <4>1
      <4> QED
        BY <2>4, <4>1 DEF Single
    <3>2. /\ Single(Positions(queues[k], m)) => Single(Queued(m))
          /\ Positions(queues[k], m) = {} => Queued(m) = {}
      <4> PICK A : A = Positions(queues[k], m)
        OBVIOUS
      <4>1. \A x : x \in Queued(m) <=> \E p \in A : x = <<k, p>>
        BY <2>5
      <4>2. ASSUME NEW o, A = {o} PROVE Queued(m) = {<<k, o>>}
        BY <4>1, <4>2
      <4> QED
        BY <4>1, <4>2 DEF Single
    <3> QED
      BY <2>3, <3>1, <3>2 DEF InOne, OnlyIn
  <2>7. Places(m) = 1
    <3>1. ASSUME NEW A, NEW B, NEW C, NEW D, OnlyIn(A, B, C, D)
          PROVE  /\ Cardinality(A) = 1 /\ Cardinality(B) = 0 /\ Cardinality(C) = 0
                 /\ Cardinality(D) = 0
      BY <3>1, CardinalityOfOne, FS_EmptySet DEF OnlyIn
    <3> QED
      BY <2>6, <3>1 DEF InOne, Places
  <2> QED
    BY <2>7
<1> QED
  BY <1>1, FollowedHolds, PTL

LEMMA PositionsConcat ==
  ASSUME NEW V, NEW s \in Seq(V), NEW r \in Seq(V), NEW m
  PROVE  /\ Len(s) \in Nat /\ Positions(s, m) \subseteq 1 .. Len(s)
         /\ Positions(s \o r, m) = Positions(s, m) \cup {Len(s) + p : p \in Positions(r, m)}
<1> PICK q : q = s \o r
  OBVIOUS
<1>1. Len(s) \in Nat /\ Len(r) \in Nat /\ Len(q) = Len(s) + Len(r)
  OBVIOUS
<1>2. /\ \A i \in 1 .. Len(s) : q[i] = s[i]
      /\ \A i \in 1 .. Len(r) : q[Len(s) + i] = r[i]
  OBVIOUS
<1>3. /\ \A i \in 1 .. Len(q) : i \in 1 .. Len(s) \/ \E p \in 1 .. Len(r) : i = Len(s) + p
      /\ \A i \in 1 .. Len(s) : i \in 1 .. Len(q)
      /\ \A p \in 1 .. Len(r) : Len(s) + p \in 1 .. Len(q)
  <2>1. ASSUME NEW i \in 1 .. Len(q), i \notin 1 .. Len(s) PROVE \E p \in 1 .. Len(r) : i = Len(s) + p
    <3>1. i - Len(s) \in 1 .. Len(r) /\ i = Len(s) + (i - Len(s))
      BY <1>1, <2>1
    <3> QED
      BY <3>1
  <2> QED
    BY <1>1, <2>1
<1>4. Positions(q, m) = Positions(s, m) \cup {Len(s) + p : p \in Positions(r, m)}
  <2>1. ASSUME NEW i \in Positions(q, m)
        PROVE  i \in Positions(s, m) \cup {Len(s) + p : p \in Positions(r, m)}
    <3>1. i \in 1 .. Len(q) /\ q[i] = m
      BY DEF Positions
    <3>2. CASE i \in 1 .. Len(s)
      BY <1>2, <3>1, <3>2 DEF Positions
    <3>3. ASSUME NEW p \in 1 .. Len(r), i = Len(s) + p PROVE p \in Positions(r, m)
      BY <1>2, <3>1, <3>3 DEF Positions
    <3> QED
      BY <1>3, <3>1, <3>2, <3>3
  <2>2. \A i \in Positions(s, m) : i \in Positions(q, m)
    BY <1>2, <1>3 DEF Positions
  <2>3. \A p \in Positions(r, m) : Len(s) + p \in Positions(q, m)
    BY <1>2, <1>3 DEF Positions
  <2> QED
    BY <2>1, <2>2, <2>3
<1> QED
  BY <1>1, <1>4 DEF Positions

\* The messages of a source that the engine has a queue for go through that queue
\* in the order in which they were received, without a gap, under the same
\* condition.
THEOREM SourcesInOrder == ASSUME RoomForAll PROVE Spec => []SourceOrder
<1>1. FollowedInv => SourceOrder
  <2> SUFFICES ASSUME FollowedInv, NEW k \in DOMAIN queues, NEW s \in Sources,
                      ListenerOf(s) \in setup.internal,
                      NEW a \in 1 .. Len(got[s]), KeyOf(setup.kind, got[s][a]) = k,
                      NEW b \in 1 .. Len(got[s]), KeyOf(setup.kind, got[s][b]) = k
               PROVE  LET line == taken \o queues[k]
                          At(c) == Positions(line, got[s][c])
                      IN  /\ \A i \in At(a), j \in At(b) : i < j <=> a < b
                          /\ a < b /\ At(b) # {} => At(a) # {}
    BY DEF SourceOrder
  <2> DEFINE At(c) == Positions(taken \o queues[k], got[s][c])
  <2>1. s \in Inner /\ Numbered /\ InOrder(s) /\ Len(got[s]) \in Nat
    BY InnerFacts DEF Inner, FollowedInv, NumberedInv
  <2>2. ASSUME NEW c
        PROVE  /\ Len(taken) \in Nat /\ Positions(taken, got[s][c]) \subseteq 1 .. Len(taken)
               /\ Positions(queues[k], got[s][c]) \subseteq Nat \ {0}
               /\ \A i : i \in At(c) <=>
                         \/ i \in Positions(taken, got[s][c])
                         \/ \E p \in Positions(queues[k], got[s][c]) : i = Len(taken) + p
    <3>1. taken \in Seq(Old) /\ queues[k] \in Seq(Old)
      BY <2>1 DEF Numbered
    <3>2. Positions(queues[k], got[s][c]) \subseteq Nat \ {0}
      BY <3>1 DEF Positions
    <3> QED
      BY <3>1, <3>2, PositionsConcat
  <2> HIDE DEF At
  <2>3. ASSUME NEW c \in 1 .. Len(got[s]), NEW d \in 1 .. Len(got[s]), c < d,
               KeyOf(setup.kind, got[s][c]) = k, KeyOf(setup.kind, got[s][d]) = k,
               NEW i \in At(c), NEW j \in At(d)
        PROVE  i < j
    <3>1. Before(k, got[s][c], got[s][d])
      BY <2>1, <2>3 DEF InOrder
    <3>2. CASE i \in Positions(taken, got[s][c]) /\ j \in Positions(taken, got[s][d])
      BY <3>1, <3>2 DEF Before
    <3>3. CASE \E p \in Positions(queues[k], got[s][c]) : i = Len(taken) + p
      <4>1. PICK p \in Positions(queues[k], got[s][c]) : i = Len(taken) + p
        BY <3>3
      <4>2. PICK o \in Positions(queues[k], got[s][d]) : j = Len(taken) + o
        BY <2>2, <3>1, <4>1 DEF Before
      <4>3. p < o
        BY <3>1 DEF Before
      <4>4. p \in Nat /\ o \in Nat /\ Len(taken) \in Nat
        BY <2>2
      <4> QED
        BY <4>1, <4>2, <4>3, <4>4
    <3>4. CASE i \in Positions(taken, got[s][c]) /\ j \notin Positions(taken, got[s][d])
      <4>1. PICK o \in Positions(queues[k], got[s][d]) : j = Len(taken) + o
        BY <2>2, <3>4
      <4> QED
        BY <2>2, <3>4, <4>1
    <3> QED
      BY <2>2, <3>2, <3>3, <3>4
  <2>4. ASSUME NEW c \in 1 .. Len(got[s]), KeyOf(setup.kind, got[s][c]) = k
        PROVE  /\ \A i, j \in At(c) : i = j /\ i \in Nat
               /\ c < Len(got[s]) => At(c) # {}
    <3> PICK m, l : m = got[s][c] /\ l = ListenerOf(s)
      OBVIOUS
    <3>1. /\ InOne(Holders(m), Unsent(l, m), Positions(queues[k], m), Positions(taken, m))
          /\ Holders(m) # {} \/ Unsent(l, m) # {} => c = Len(got[s])
      BY <2>1, <2>4 DEF FollowedInv, Followed
    <3>2. /\ \A i : i \in At(c) <=> \/ i \in Positions(taken, m)
                                    \/ \E p \in Positions(queues[k], m) : i = Len(taken) + p
          /\ Positions(taken, m) \subseteq Nat /\ Len(taken) \in Nat
          /\ Positions(queues[k], m) \subseteq Nat
      <4>1. /\ Len(taken) \in Nat /\ Positions(taken, got[s][c]) \subseteq 1 .. Len(taken)
            /\ Positions(queues[k], got[s][c]) \subseteq Nat \ {0}
            /\ \A i : i \in At(c) <=>
                      \/ i \in Positions(taken, got[s][c])
                      \/ \E p \in Positions(queues[k], got[s][c]) : i = Len(taken) + p
        BY <2>2
      <4>2. 1 .. Len(taken) \subseteq Nat
        OBVIOUS
      <4> QED
        BY <4>1, <4>2
    <3>3. \A i \in At(c) : i \in Nat
      BY <3>2
    <3>4. ASSUME NEW i \in At(c), NEW j \in At(c) PROVE i = j
      BY <3>1, <3>2 DEF InOne, OnlyIn, Single
    <3>5. c < Len(got[s]) => At(c) # {}
      <4>1. ASSUME Holders(m) = {}, Unsent(l, m) = {} PROVE At(c) # {}
        BY <3>1, <3>2, <4>1 DEF InOne, OnlyIn, Single
      <4> QED
        BY <2>1, <3>1, <4>1
    <3> QED
      BY <3>3, <3>4, <3>5
  <2>5. ASSUME NEW i \in At(a), NEW j \in At(b) PROVE i < j <=> a < b
    <3>1. i \in Nat /\ j \in Nat
      BY <2>4
    <3>2. a < b => i < j
      BY <2>3
    <3>3. b < a => j < i
      BY <2>3
    <3>4. a = b => i = j
      BY <2>4
    <3> QED
      BY <2>1, <3>1, <3>2, <3>3, <3>4
  <2>6. a < b => At(a) # {}
    BY <2>1, <2>4
  <2> QED
    BY <2>5, <2>6 DEF At
<1> QED
  BY <1>1, FollowedHolds, PTL
================================================================================
