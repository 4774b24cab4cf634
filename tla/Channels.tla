------------------------------ MODULE Channels ------------------------------
(***************************************************************************)
(* Endpoints, handles, sockets and connections of the C++ runtime under    *)
(* concurrent calls of the Engine's channel methods and of send            *)
(* (runtime/cpp/Engine.hpp, Endpoint.hpp, IOHandle.hpp, and the Nanomsg    *)
(* half of Network.hpp).  What one lock protects is one step.              *)
(***************************************************************************)
EXTENDS EndpointBuffers, FiniteSets

CONSTANTS
  Threads,
  ExternalIds,   \* identifiers of channels without the prefix "__"
  InternalIds,   \* and with it
  Deployed,      \* the addresses in the system environment
  Remote,        \* other addresses; each stands for its connectionId as well
  Modes,         \* simulation: what the engine may be constructed with
  Sockets,       \* the descriptors nanomsg has
  BufferMax,     \* the maximum of the default buffer specification
  Retries,       \* connectionRetries
  MaxCalls,      \* bound: calls made in all
  Value, NoEndpoint

Ids       == ExternalIds \cup InternalIds
NoSocket  == -1

ASSUME ChannelAssumption ==
  /\ ExternalIds \cap (InternalIds \cup Remote) = {}
  /\ InternalIds \cap Remote = {} /\ Deployed \cap Remote = {}
  /\ IsFiniteSet(Threads) /\ Threads # {}
  /\ Modes \subseteq BOOLEAN
  /\ Sockets \subseteq Nat
  /\ BufferMax \in Int /\ Retries \in Nat \ {0, 1} /\ MaxCalls \in Nat

VARIABLES
  simulation,     \* the argument of the constructor
  queued,         \* messages put into the engine's queues, for each address
  internalEndpoints, externalEndpoints,      \* EndpointState
  internalConnections, externalConnections,  \* ConnectionState: address to handle
  owner,          \* who opened each descriptor in use; 0 if it is free
  pc, call,       \* where each thread is, and its local variables
  crashed,        \* a null pointer was dereferenced
  \* history
  calls,          \* calls made
  handles,        \* handles created; they are numbered
  returned,       \* sends to each remote address that returned normally
  written,        \* endpoints that doWrite was called on
  overtaken,      \* threads polling an endpoint that another has read meanwhile
  closedTwice     \* close() was called on a handle that was closed before

endpointVars   == <<internalEndpoints, externalEndpoints>>
connectionVars == <<internalConnections, externalConnections>>
historyVars    == <<written, overtaken, closedTwice>>
vars == <<simulation, queued, endpointVars, connectionVars, owner, pc, call, crashed,
          calls, handles, returned, historyVars>>

Idle == [op |-> "none", id |-> NoEndpoint, try |-> 0, ep |-> NoEndpoint]

Init ==
  /\ simulation \in Modes
  /\ queued = [a \in Deployed \cup Remote |-> 0]
  /\ internalEndpoints = <<>> /\ externalEndpoints = <<>>
  /\ internalConnections = <<>> /\ externalConnections = <<>>
  /\ owner = [s \in Sockets |-> 0]
  /\ pc = [t \in Threads |-> "idle"]
  /\ call = [t \in Threads |-> Idle]
  /\ crashed = FALSE
  /\ calls = 0 /\ handles = 0
  /\ returned = [a \in Remote |-> 0]
  /\ written = {} /\ overtaken = {}
  /\ closedTwice = FALSE

-----------------------------------------------------------------------------
(* Handles.  `good' is the state of the stream; closing a socket leaves it  *)
(* as it is, and leaves the handle with the number of its socket.           *)

Handle(kind, s, dead) ==
  [kind |-> kind, socket |-> s, good |-> TRUE, closed |-> dead, num |-> handles + 1]

\* Standard output, standard error and a file to write to are one kind.
Streams == {"stdin", "filein", "output"}
Inputs  == {"stdin", "filein"}
Outputs == {"output", "connection"}

HandleHasRead(h)  == h.kind \in Inputs /\ h.good
HandleHasWrite(h) == h.kind \in Outputs /\ h.good

\* The first read of a stream takes all there is, after which it is not good any
\* more; what unpack makes of it may be a value or nothing.  An output stream or
\* a socket gives nothing.
Reads(h)     == IF h.kind \in Inputs THEN {Value, NoValue} ELSE {NoValue}
AfterRead(h) == [h EXCEPT !.good = @ /\ h.kind \notin Inputs]

AfterClose(h) == [h EXCEPT !.closed = TRUE, !.good = @ /\ h.kind \notin Streams]

\* nn_socket: any descriptor that is free, or none when all are in use.
NewSocket ==
  IF \E s \in Sockets : owner[s] = 0 THEN {s \in Sockets : owner[s] = 0} ELSE {NoSocket}

Took(s) == IF s = NoSocket THEN owner ELSE [owner EXCEPT ![s] = handles + 1]

\* NConnection: one that cannot connect closes its socket, so that the descriptor
\* is free again, and keeps the number.
Connected ==
  UNION {{[handle |-> Handle("connection", s, FALSE), owner |-> Took(s)],
          [handle |-> Handle("connection", s, TRUE), owner |-> owner]} : s \in NewSocket}

\* Fault, used in no specification: an endpoint that cannot bind closes its socket
\* and keeps the number.
BoundOrClosed ==
  UNION {{[handle |-> Handle("listener", s, FALSE), owner |-> Took(s)],
          [handle |-> Handle("listener", s, FALSE), owner |-> owner]} : s \in NewSocket}

\* NEndpoint: one that cannot bind forgets the number, and the socket stays open.
Bound ==
  UNION {{[handle |-> Handle("listener", s, FALSE), owner |-> Took(s)],
          [handle |-> Handle("listener", NoSocket, FALSE), owner |-> Took(s)]} : s \in NewSocket}

\* The handles of a kind that may be made, with the descriptors after it.
NewHandles(kind) ==
  CASE kind = "connection" -> Connected
    [] kind = "listener"   -> Bound
    [] OTHER -> {[handle |-> Handle(kind, NoSocket, FALSE), owner |-> owner]}

\* An endpoint has a buffer, but for standard input.
BufferOf(kind) ==
  IF kind = "stdin" THEN NoEndpoint
  ELSE IF kind \in Streams THEN NewBuffer("ScalarEPBufferST", 0)
  ELSE NewBuffer("ContainerEPBufferMT", BufferMax)

NewEndpoint(h) == [handle |-> h, buffer |-> BufferOf(h.kind)]

-----------------------------------------------------------------------------
(* EndpointState *)

External(id) == id \in ExternalIds

Endpoints(id) == IF External(id) THEN externalEndpoints ELSE internalEndpoints

Updated(m, id, ep) == [i \in DOMAIN m \cup {id} |-> IF i = id THEN ep ELSE m[i]]
Without(m, id)     == [i \in DOMAIN m \ {id} |-> m[i]]

SetEndpoint(id, ep) ==
  IF External(id)
  THEN /\ externalEndpoints' = Updated(externalEndpoints, id, ep)
       /\ UNCHANGED internalEndpoints
  ELSE /\ internalEndpoints' = Updated(internalEndpoints, id, ep)
       /\ UNCHANGED externalEndpoints

\* Fault, used in no specification: a second endpoint of the same name replaces
\* the first.
ReplaceEndpoint(id, ep) == SetEndpoint(id, ep)

\* Fault: every endpoint goes to the external map.
AddExternal(id, ep) ==
  /\ externalEndpoints' = Updated(externalEndpoints, id, ep)
  /\ UNCHANGED internalEndpoints

\* A duplicate is logged and dropped, with its handle and any socket it has.
AddEndpoint(id, ep) ==
  IF id \in DOMAIN Endpoints(id) THEN UNCHANGED endpointVars ELSE SetEndpoint(id, ep)

\* removeEndpoint looks in the map of the other kind.
RemoveEndpoint(id) ==
  IF External(id)
  THEN /\ internalEndpoints' = Without(internalEndpoints, id)
       /\ UNCHANGED externalEndpoints
  ELSE /\ externalEndpoints' = Without(externalEndpoints, id)
       /\ UNCHANGED internalEndpoints

-----------------------------------------------------------------------------
(* Channel methods *)

Goto(t, to, c) == pc' = [pc EXCEPT ![t] = to] /\ call' = [call EXCEPT ![t] = c]
Return(t)      == Goto(t, "idle", Idle)

Begin(t, to, op, id, ep) ==
  /\ pc[t] = "idle" /\ calls < MaxCalls
  /\ calls' = calls + 1
  /\ Goto(t, to, [op |-> op, id |-> id, try |-> 0, ep |-> ep])

\* openBuiltin, openFile, openSocket and their internal forms: make the handle.
\* Modes other than reading and writing throw and leave no trace.
Open(t, id) ==
  \E kind \in Streams \cup {"connection", "listener"} : \E made \in NewHandles(kind) :
    /\ Begin(t, "add", "open", id, NewEndpoint(made.handle))
    /\ owner' = made.owner
    /\ handles' = handles + 1
    /\ UNCHANGED <<simulation, queued, endpointVars, connectionVars, crashed, returned, historyVars>>

\* genericOpen*: add the endpoint.  For send, that was one try.
Add(t) ==
  /\ pc[t] = "add"
  /\ AddEndpoint(call[t].id, call[t].ep)
  /\ IF call[t].op = "send" /\ call[t].try + 1 < Retries
     THEN Goto(t, "get",
               [op |-> "send", id |-> call[t].id, try |-> call[t].try + 1, ep |-> NoEndpoint])
     ELSE Return(t)
  /\ UNCHANGED <<simulation, queued, connectionVars, owner, crashed, calls, handles, returned,
                 historyVars>>

\* close, hasRead, doRead, hasWrite, doWrite first look the endpoint up.
Methods == {"close", "hasRead", "doRead", "hasWrite", "doWrite"}

Look(t, id) ==
  /\ \E op \in Methods : Begin(t, "get", op, id, NoEndpoint)
  /\ UNCHANGED <<simulation, queued, endpointVars, connectionVars, owner, crashed, handles,
                 returned, historyVars>>

\* All but close and send dereference the pointer that they get.
Get(t) ==
  /\ pc[t] = "get"
  /\ IF call[t].id \in DOMAIN Endpoints(call[t].id)
     THEN Goto(t, call[t].op, call[t]) /\ UNCHANGED crashed
     ELSE CASE call[t].op = "send"  -> Goto(t, "open", call[t]) /\ UNCHANGED crashed
            [] call[t].op = "close" -> Goto(t, "remove", call[t]) /\ UNCHANGED crashed
            [] OTHER                -> crashed' = TRUE /\ UNCHANGED <<pc, call>>
  /\ UNCHANGED <<simulation, queued, endpointVars, connectionVars, owner, calls, handles,
                 returned, historyVars>>

At(t, method) == pc[t] = method /\ call[t].id \in DOMAIN Endpoints(call[t].id)

Ep(t) == Endpoints(call[t].id)[call[t].id]

\* Fault, used in no specification: the buffer alone decides.
HasReadUnasked(t) ==
  /\ At(t, "hasRead")
  /\ Goto(t, "hasBuffered", call[t])
  /\ UNCHANGED <<simulation, queued, endpointVars, connectionVars, owner, crashed, calls, handles,
                 returned, historyVars>>

\* Endpoint::hasRead asks the handle ...
HasReadHandle(t) ==
  /\ At(t, "hasRead")
  /\ IF HandleHasRead(Ep(t).handle) THEN Goto(t, "hasBuffered", call[t]) ELSE Return(t)
  /\ UNCHANGED <<simulation, queued, endpointVars, connectionVars, owner, crashed, calls, handles,
                 returned, historyVars>>

\* ... and then the buffer, under no lock over both.  Standard input has no buffer.
HasBuffered(t) ==
  /\ At(t, "hasBuffered")
  /\ crashed' = (Ep(t).buffer = NoEndpoint)
  /\ overtaken' = overtaken \ {t}
  /\ Return(t)
  /\ UNCHANGED <<simulation, queued, endpointVars, connectionVars, owner, calls, handles,
                 returned, written, closedTwice>>

\* hasWrite is two reads as well; for a connection the first is always true.
HasWrite(ep) == HandleHasWrite(ep.handle) /\ ~ Full(ep.buffer)

DoHasWrite(t) ==
  /\ At(t, "hasWrite")
  /\ Return(t)
  /\ UNCHANGED <<simulation, queued, endpointVars, connectionVars, owner, crashed, calls, handles,
                 returned, historyVars>>

\* doRead refreshes the buffer from the handle.
DoRead(t) ==
  /\ At(t, "doRead")
  /\ IF Ep(t).buffer = NoEndpoint
     THEN crashed' = TRUE /\ UNCHANGED endpointVars
     ELSE /\ UNCHANGED crashed
          /\ \E v \in Reads(Ep(t).handle) :
               SetEndpoint(call[t].id,
                 [Ep(t) EXCEPT !.buffer = Refreshed(@, v), !.handle = AfterRead(@)])
  /\ overtaken' = overtaken \cup
       {u \in Threads : pc[u] = "hasBuffered" /\ call[u].id = call[t].id}
  /\ Return(t)
  /\ UNCHANGED <<simulation, queued, connectionVars, owner, calls, handles, returned, written,
                 closedTwice>>

\* doWrite appends to the buffer, whatever the handle is for, and ignores the result.
DoWrite(t) ==
  /\ At(t, "doWrite")
  /\ IF Ep(t).buffer = NoEndpoint
     THEN crashed' = TRUE /\ UNCHANGED endpointVars
     ELSE /\ UNCHANGED crashed
          /\ SetEndpoint(call[t].id, [Ep(t) EXCEPT !.buffer = Put(@, Value)])
  /\ written' = written \cup {call[t].id}
  /\ Return(t)
  /\ UNCHANGED <<simulation, queued, connectionVars, owner, calls, handles, returned,
                 overtaken, closedTwice>>

\* nn_close of a descriptor that is not in use is an error, which is logged.
Released(s) == IF s = NoSocket THEN owner ELSE [owner EXCEPT ![s] = 0]

\* genericClose: close the handle, remove the endpoint, tell the subscribers.
CloseHandle(t) ==
  /\ At(t, "close")
  /\ LET h == Ep(t).handle IN
     /\ owner' = Released(h.socket)
     /\ closedTwice' = (closedTwice \/ h.closed)
     /\ SetEndpoint(call[t].id, [Ep(t) EXCEPT !.handle = AfterClose(@)])
  /\ Goto(t, "remove", call[t])
  /\ UNCHANGED <<simulation, queued, connectionVars, crashed, calls, handles, returned,
                 written, overtaken>>

Remove(t) ==
  /\ pc[t] = "remove"
  /\ RemoveEndpoint(call[t].id)
  /\ Return(t)
  /\ UNCHANGED <<simulation, queued, connectionVars, owner, crashed, calls, handles, returned,
                 historyVars>>

-----------------------------------------------------------------------------
(* send *)

\* hasInternalConnections: the map is there unless the engine is a simulation.
Simulation == ~ simulation

\* A message for a deployed peer, and in network mode every message, goes to the
\* queues, which drop it when there is none for its address.
ShortCircuit(t, a) ==
  /\ pc[t] = "idle" /\ calls < MaxCalls
  /\ a \in Deployed \/ Simulation
  /\ calls' = calls + 1
  /\ queued' = IF a \in Deployed THEN [queued EXCEPT ![a] = @ + 1] ELSE queued
  /\ returned' = IF a \in Remote THEN [returned EXCEPT ![a] = @ + 1] ELSE returned
  /\ UNCHANGED <<simulation, endpointVars, connectionVars, owner, pc, call, crashed, handles,
                 historyVars>>

\* The others go to a connection, by its identifier.
Send(t, a) ==
  /\ a \notin Deployed /\ ~ Simulation
  /\ Begin(t, "get", "send", a, NoEndpoint)
  /\ UNCHANGED <<simulation, queued, endpointVars, connectionVars, owner, crashed, handles,
                 returned, historyVars>>

\* Fault, used in no specification: whether there is room is not asked.
TryUnchecked(t) ==
  /\ At(t, "send")
  /\ Goto(t, "append", call[t])
  /\ UNCHANGED <<simulation, queued, endpointVars, connectionVars, owner, crashed, calls, handles,
                 returned, historyVars>>

\* hasWrite is asked first ...
TrySend(t) ==
  /\ At(t, "send")
  /\ Goto(t, IF HasWrite(Ep(t)) THEN "append" ELSE "open", call[t])
  /\ UNCHANGED <<simulation, queued, endpointVars, connectionVars, owner, crashed, calls, handles,
                 returned, historyVars>>

\* ... and then doWrite called, which says nothing of what happened.
AppendSent(t) ==
  /\ At(t, "append")
  /\ SetEndpoint(call[t].id, [Ep(t) EXCEPT !.buffer = Put(@, Value)])
  /\ returned' = [returned EXCEPT ![call[t].id] = @ + 1]
  /\ Return(t)
  /\ UNCHANGED <<simulation, queued, connectionVars, owner, crashed, calls, handles, historyVars>>

\* openSocketInternal makes another connection, whether or not there is one.
Reopen(t) ==
  /\ pc[t] = "open"
  /\ \E made \in NewHandles("connection") :
       /\ Goto(t, "add", [call[t] EXCEPT !.ep = NewEndpoint(made.handle)])
       /\ owner' = made.owner
  /\ handles' = handles + 1
  /\ UNCHANGED <<simulation, queued, endpointVars, connectionVars, crashed, calls, returned,
                 historyVars>>

-----------------------------------------------------------------------------
(* ConnectionState.  In a simulation there is no internal map to use. *)

Connections(internal) == IF internal THEN internalConnections ELSE externalConnections

Connect(internal, m) ==
  IF internal THEN internalConnections' = m /\ UNCHANGED externalConnections
  ELSE externalConnections' = m /\ UNCHANGED internalConnections

\* mapForAddress looks into the external map only after it has found the address
\* in the internal one, so it never says external.
MapForAddress(a) == IF a \in DOMAIN internalConnections THEN {TRUE} ELSE {}

\* A call by thread t that uses the internal map if int holds.
UseMaps(t, int) ==
  /\ pc[t] = "idle" /\ calls < MaxCalls
  /\ calls' = calls + 1
  /\ crashed' = (int /\ simulation)
  /\ UNCHANGED <<simulation, queued, endpointVars, pc, call, returned, historyVars>>

\* A second connection to an address is dropped, and its socket stays open.
AddConnection(t, a, internal) ==
  /\ UseMaps(t, internal)
  /\ \E made \in NewHandles("connection") :
       /\ owner' = made.owner
       /\ IF (internal /\ simulation) \/ a \in DOMAIN Connections(internal)
          THEN UNCHANGED connectionVars
          ELSE Connect(internal, Updated(Connections(internal), a, made.handle))
  /\ handles' = handles + 1

\* removeConnection(addr)
RemoveConnection(t, a) ==
  /\ UseMaps(t, TRUE)
  /\ UNCHANGED <<owner, handles>>
  /\ IF simulation \/ MapForAddress(a) = {} THEN UNCHANGED connectionVars
     ELSE \E int \in MapForAddress(a) : Connect(int, Without(Connections(int), a))

\* removeConnection(addr, internal)
RemoveConnectionFrom(t, a, internal) ==
  /\ UseMaps(t, internal)
  /\ UNCHANGED <<owner, handles>>
  /\ IF internal /\ simulation THEN UNCHANGED connectionVars
     ELSE Connect(internal, Without(Connections(internal), a))

\* clearConnections()
ClearConnections(t) ==
  /\ UseMaps(t, TRUE)
  /\ UNCHANGED <<owner, handles>>
  /\ IF simulation THEN UNCHANGED connectionVars
     ELSE internalConnections' = <<>> /\ externalConnections' = <<>>

\* clearConnections(internal)
ClearConnectionsOf(t, internal) ==
  /\ UseMaps(t, internal)
  /\ UNCHANGED <<owner, handles>>
  /\ IF internal /\ simulation THEN UNCHANGED connectionVars ELSE Connect(internal, <<>>)

\* getConnection, with or without a map, and numConnections.
AskConnections(t, internal) ==
  /\ UseMaps(t, internal)
  /\ UNCHANGED <<owner, handles, connectionVars>>

-----------------------------------------------------------------------------
Step(t) ==
  \/ Add(t) \/ Get(t) \/ HasReadHandle(t) \/ HasBuffered(t) \/ DoHasWrite(t) \/ DoRead(t) \/ DoWrite(t)
  \/ CloseHandle(t) \/ Remove(t) \/ TrySend(t) \/ AppendSent(t) \/ Reopen(t)

ConnectionCall(t) ==
  \/ \E a \in Remote, internal \in BOOLEAN :
       AddConnection(t, a, internal) \/ RemoveConnectionFrom(t, a, internal)
  \/ \E a \in Remote : RemoveConnection(t, a)
  \/ ClearConnections(t)
  \/ \E internal \in BOOLEAN : ClearConnectionsOf(t, internal) \/ AskConnections(t, internal)

Next ==
  /\ ~ crashed
  /\ \E t \in Threads :
       \/ Step(t)
       \/ \E id \in Ids : Open(t, id) \/ Look(t, id)
       \/ \E a \in Deployed \cup Remote : ShortCircuit(t, a) \/ Send(t, a)
       \/ ConnectionCall(t)

Spec == Init /\ [][Next]_vars

-----------------------------------------------------------------------------
HandleType ==
  [kind : Streams \cup {"connection", "listener"}, socket : Sockets \cup {NoSocket},
   good : BOOLEAN, closed : BOOLEAN, num : Nat \ {0}]

EndpointType == [handle : HandleType, buffer : Buffers({Value}) \cup {NoEndpoint}]

CallType ==
  [op : Methods \cup {"none", "open", "send"}, id : Ids \cup Remote \cup {NoEndpoint},
   try : 0 .. Retries, ep : EndpointType \cup {NoEndpoint}]

\* Every variable has its type, and an endpoint is in the map for its identifier.
TypeOK ==
  /\ simulation \in BOOLEAN
  /\ queued \in [Deployed \cup Remote -> Nat]
  /\ DOMAIN internalEndpoints \subseteq InternalIds \cup Remote
  /\ DOMAIN externalEndpoints \subseteq ExternalIds
  /\ \A id \in DOMAIN internalEndpoints : internalEndpoints[id] \in EndpointType
  /\ \A id \in DOMAIN externalEndpoints : externalEndpoints[id] \in EndpointType
  /\ \A int \in BOOLEAN :
       /\ DOMAIN Connections(int) \subseteq Remote
       /\ \A a \in DOMAIN Connections(int) : Connections(int)[a] \in HandleType
  /\ owner \in [Sockets -> Nat]
  /\ pc \in [Threads -> {"idle", "add", "get", "remove", "open", "append", "send",
                          "hasBuffered"} \cup Methods]
  /\ call \in [Threads -> CallType]
  /\ crashed \in BOOLEAN /\ closedTwice \in BOOLEAN
  /\ calls \in 0 .. MaxCalls /\ handles \in Nat
  /\ returned \in [Remote -> Nat]
  /\ written \subseteq Ids /\ overtaken \subseteq Threads

\* In a simulation, where send goes to connections: the buffer of a connection is
\* never flushed, so it fills up for good.  A send that returned put its message
\* there, or lost it because the buffer filled up between hasWrite and doWrite; that
\* happens to at most one send for each thread but the one that took the last place.
\* In network mode every send to a remote peer returns and its message is dropped.
LossBound ==
  ~ Simulation =>
    \A a \in Remote :
      returned[a] > 0 =>
        /\ a \in DOMAIN internalEndpoints
        /\ returned[a] - Len(internalEndpoints[a].buffer.contents) < Cardinality(Threads)

\* hasRead answers true for an endpoint that nothing was written to only when another
\* thread has read the endpoint between the two questions: no buffer is filled when a
\* channel is opened, and a read takes the whole stream.  Who polls alone before
\* reading never reads.
PollNeverReads ==
  [][\A t \in Threads :
       (pc[t] = "hasBuffered" /\ pc'[t] = "idle" /\ ~ crashed' /\ ~ Empty(Ep(t).buffer)) =>
         call[t].id \in written \/ t \in overtaken]_vars

\* A handle that was not closed has its socket to itself, as long as no handle is
\* closed twice: descriptors are used again, and close does not forget its own.
SocketsApart ==
  ~ closedTwice =>
    /\ \A id \in DOMAIN internalEndpoints \cup DOMAIN externalEndpoints :
         LET h == Endpoints(id)[id].handle IN
         h.socket # NoSocket /\ ~ h.closed => owner[h.socket] = h.num
    /\ \A int \in BOOLEAN : \A a \in DOMAIN Connections(int) :
         LET h == Connections(int)[a] IN
         h.socket # NoSocket /\ ~ h.closed => owner[h.socket] = h.num

\* A send to a remote peer gives up only when the connection's buffer is full:
\* the first try opens the connection, the next one finds it.
GivesUpWhenFull ==
  [][\A t \in Threads :
       (call[t].op = "send" /\ pc[t] = "add" /\ pc'[t] = "idle") =>
         Full(internalEndpoints'[call[t].id].buffer)]_vars

\* close removes the endpoint (the comment at Engine.hpp:544).
ClosedIsRemoved ==
  [][\A t \in Threads :
       (pc[t] = "remove" /\ pc'[t] = "idle") => call[t].id \notin DOMAIN Endpoints(call[t].id)']_vars
==============================================================================
