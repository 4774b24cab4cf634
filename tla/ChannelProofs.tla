---------------------------- MODULE ChannelProofs ----------------------------
(***************************************************************************)
(* What holds of the channels for every number of threads, sockets and     *)
(* tries, and every set of identifiers.                                    *)
(***************************************************************************)
EXTENDS Channels, FiniteSetTheorems, TLAPS

-----------------------------------------------------------------------------
(* Types *)

\* An endpoint as it is when it is added.
Fresh(ep) == ep \in EndpointType /\ ep.buffer = BufferOf(ep.handle.kind)

\* What a thread at p may have in its call record.
CallFits(p, c) ==
  \/ p = "idle"
  \/ p = "add" /\ c.op = "open" /\ c.id \in Ids /\ Fresh(c.ep)
  \/ p \in {"get", "remove", c.op} /\ c.op \in Methods /\ c.id \in Ids
  \/ p = "hasBuffered" /\ c.op = "hasRead" /\ c.id \in Ids
  \/ p \in {"get", "send", "append", "open"} /\ c.op = "send" /\ c.id \in Remote
  \/ /\ p = "add" /\ c.op = "send" /\ c.id \in Remote
     /\ Fresh(c.ep) /\ c.ep.handle.kind = "connection" /\ c.ep.handle.good

CallsFit == \A t \in Threads : CallFits(pc[t], call[t])

Counters ==
  {"idle", "add", "get", "remove", "open", "append", "send", "hasBuffered"} \cup Methods

LEMMA PutTyped ==
  ASSUME NEW b \in Buffers({Value})
  PROVE  /\ Put(b, Value) \in Buffers({Value})
         /\ Put(b, Value).class = b.class /\ Put(b, Value).max = b.max
         /\ Put(b, Value).contents = IF Full(b) THEN b.contents ELSE Append(b.contents, Value)
<1>1. b.contents \in Seq({Value}) /\ Append(b.contents, Value) \in Seq({Value})
  BY DEF Buffers
<1> QED
  BY <1>1 DEF Buffers, Put

LEMMA RefreshedTyped ==
  ASSUME NEW b \in Buffers({Value}), NEW v \in {Value, NoValue}
  PROVE  Refreshed(b, v) \in Buffers({Value})
<1>1. b.contents \in Seq({Value}) /\ <<Value>> \in Seq({Value})
  BY DEF Buffers
<1> DEFINE rest == IF Empty(b) THEN b ELSE [b EXCEPT !.contents = Tail(@)]
<1>2. rest \in Buffers({Value})
  <2>1. CASE Empty(b)
    BY <2>1
  <2>2. CASE ~ Empty(b)
    <3>1. Tail(b.contents) \in Seq({Value})
      BY <1>1, <2>2 DEF Empty
    <3> QED
      BY <2>2, <3>1 DEF Buffers
  <2> QED
    BY <2>1, <2>2
<1>3. v # NoValue => Put(rest, v) \in Buffers({Value})
  BY <1>2, PutTyped
<1>4. v # NoValue => [b EXCEPT !.contents = <<v>>] \in Buffers({Value})
  BY <1>1 DEF Buffers
<1> QED
  BY <1>2, <1>3, <1>4 DEF Refreshed

Kinds == Streams \cup {"connection", "listener"}

\* A handle is new: it is numbered next, and its socket, if it has one and is open,
\* was free.
LEMMA HandleMade ==
  ASSUME NEW kind \in Kinds, handles \in Nat, owner \in [Sockets -> Nat],
         NEW made \in NewHandles(kind)
  PROVE  /\ made.handle \in HandleType /\ made.handle.kind = kind /\ made.handle.good
         /\ made.owner \in [Sockets -> Nat]
         /\ made.handle.num = handles + 1
         /\ \A s \in Sockets : owner[s] # 0 => made.owner[s] = owner[s]
         /\ made.handle.socket # NoSocket /\ ~ made.handle.closed
              => made.owner[made.handle.socket] = handles + 1
<1>1. NewSocket \subseteq Sockets \cup {NoSocket} /\ \A s \in NewSocket : s # NoSocket => owner[s] = 0
  BY DEF NewSocket
<1>2. NoSocket \notin Sockets
  BY ChannelAssumption DEF NoSocket
<1>3. \A s \in NewSocket :
        /\ Took(s) \in [Sockets -> Nat]
        /\ s # NoSocket => Took(s)[s] = handles + 1
        /\ \A r \in Sockets : owner[r] # 0 => Took(s)[r] = owner[r]
  BY <1>1 DEF Took
<1> DEFINE MadeOf(s, dead) ==
             /\ made.handle \in HandleType /\ made.handle.kind = kind /\ made.handle.good
             /\ made.handle.num = handles + 1 /\ made.handle.socket = s
             /\ made.handle.closed = dead
<1>4. CASE kind = "connection"
  <2>1. PICK s \in NewSocket :
          \/ made = [handle |-> Handle("connection", s, FALSE), owner |-> Took(s)]
          \/ made = [handle |-> Handle("connection", s, TRUE), owner |-> owner]
    BY <1>4 DEF NewHandles, Connected
  <2>2. CASE made = [handle |-> Handle("connection", s, FALSE), owner |-> Took(s)]
    <3>1. MadeOf(s, FALSE) /\ made.owner = Took(s)
      BY <1>1, <1>4, <2>2 DEF Handle, HandleType, Kinds
    <3> QED
      BY <1>3, <3>1
  <2>3. CASE made = [handle |-> Handle("connection", s, TRUE), owner |-> owner]
    <3>1. MadeOf(s, TRUE) /\ made.owner = owner
      BY <1>1, <1>4, <2>3 DEF Handle, HandleType, Kinds
    <3> QED
      BY <1>3, <3>1
  <2> QED
    BY <2>1, <2>2, <2>3
<1>5. CASE kind = "listener"
  <2>1. PICK s \in NewSocket :
          \/ made = [handle |-> Handle("listener", s, FALSE), owner |-> Took(s)]
          \/ made = [handle |-> Handle("listener", NoSocket, FALSE), owner |-> Took(s)]
    BY <1>5 DEF NewHandles, Bound
  <2>2. CASE made = [handle |-> Handle("listener", s, FALSE), owner |-> Took(s)]
    <3>1. MadeOf(s, FALSE) /\ made.owner = Took(s)
      BY <1>1, <1>5, <2>2 DEF Handle, HandleType, Kinds
    <3> QED
      BY <1>3, <3>1
  <2>3. CASE made = [handle |-> Handle("listener", NoSocket, FALSE), owner |-> Took(s)]
    <3>1. MadeOf(NoSocket, FALSE) /\ made.owner = Took(s)
      BY <1>1, <1>5, <2>3 DEF Handle, HandleType, Kinds
    <3> QED
      BY <1>3, <3>1
  <2> QED
    BY <2>1, <2>2, <2>3
<1>6. CASE kind \notin {"connection", "listener"}
  <2>1. made = [handle |-> Handle(kind, NoSocket, FALSE), owner |-> owner]
    BY <1>6 DEF NewHandles
  <2>2. MadeOf(NoSocket, FALSE) /\ made.owner = owner
    BY <2>1 DEF Handle, HandleType, Kinds
  <2> QED
    BY <2>2
<1> QED
  BY <1>4, <1>5, <1>6

LEMMA NewEndpointFresh ==
  ASSUME NEW h \in HandleType
  PROVE  Fresh(NewEndpoint(h)) /\ NewEndpoint(h).handle = h
<1>1. <<>> \in Seq({Value})
  OBVIOUS
<1> QED
  BY <1>1, ChannelAssumption
  DEF NewEndpoint, Fresh, BufferOf, NewBuffer, EndpointType, Buffers, Scalars, Containers

\* The parts of TypeOK.
EndpointsTyped ==
  /\ DOMAIN internalEndpoints \subseteq InternalIds \cup Remote
  /\ DOMAIN externalEndpoints \subseteq ExternalIds
  /\ \A id \in DOMAIN internalEndpoints : internalEndpoints[id] \in EndpointType
  /\ \A id \in DOMAIN externalEndpoints : externalEndpoints[id] \in EndpointType

ConnectionsTyped ==
  /\ DOMAIN internalConnections \subseteq Remote
  /\ DOMAIN externalConnections \subseteq Remote
  /\ \A a \in DOMAIN internalConnections : internalConnections[a] \in HandleType
  /\ \A a \in DOMAIN externalConnections : externalConnections[a] \in HandleType

CallsTyped == pc \in [Threads -> Counters] /\ call \in [Threads -> CallType]

CountsTyped ==
  /\ simulation \in BOOLEAN /\ crashed \in BOOLEAN /\ closedTwice \in BOOLEAN
  /\ queued \in [Deployed \cup Remote -> Nat] /\ returned \in [Remote -> Nat]
  /\ owner \in [Sockets -> Nat] /\ calls \in 0 .. MaxCalls /\ handles \in Nat
  /\ written \subseteq Ids /\ overtaken \subseteq Threads

Parts == EndpointsTyped /\ ConnectionsTyped /\ CallsTyped /\ CountsTyped

Typed == Parts /\ CallsFit

LEMMA TypeParts == TypeOK <=> Parts
BY DEF TypeOK, Parts, EndpointsTyped, ConnectionsTyped, CallsTyped, CountsTyped, Connections, Counters

LEMMA SetTyped ==
  ASSUME EndpointsTyped, NEW id \in Ids \cup Remote, NEW ep \in EndpointType, SetEndpoint(id, ep)
  PROVE  EndpointsTyped'
BY DEF EndpointsTyped, SetEndpoint, Updated, External, Ids

LEMMA AddTyped ==
  ASSUME EndpointsTyped, NEW id \in Ids \cup Remote, NEW ep \in EndpointType, AddEndpoint(id, ep)
  PROVE  EndpointsTyped'
<1>1. CASE id \in DOMAIN Endpoints(id)
  BY <1>1 DEF EndpointsTyped, AddEndpoint, endpointVars
<1> QED
  BY <1>1, SetTyped DEF AddEndpoint

LEMMA RemoveTyped ==
  ASSUME EndpointsTyped, NEW id, RemoveEndpoint(id)
  PROVE  EndpointsTyped'
BY DEF EndpointsTyped, RemoveEndpoint, Without

\* What a call finds is an endpoint.
LEMMA EpTyped ==
  ASSUME EndpointsTyped, NEW t \in Threads, call[t].id \in DOMAIN Endpoints(call[t].id)
  PROVE  /\ Ep(t) \in EndpointType
         /\ Ep(t).handle \in HandleType
         /\ Ep(t).buffer # NoEndpoint => Ep(t).buffer \in Buffers({Value})
BY DEF EndpointsTyped, Ep, Endpoints, EndpointType

LEMMA GotoKeeps ==
  ASSUME Typed, NEW t \in Threads, NEW to \in Counters, NEW c \in CallType,
         CallFits(to, c), Goto(t, to, c)
  PROVE  CallsTyped' /\ CallsFit'
<1>1. /\ pc' = [pc EXCEPT ![t] = to] /\ call' = [call EXCEPT ![t] = c]
      /\ pc \in [Threads -> Counters] /\ call \in [Threads -> CallType]
  BY DEF Goto, Typed, Parts, CallsTyped
<1>2. CallsTyped'
  BY <1>1 DEF CallsTyped
<1>3. \A u \in Threads : pc'[u] = (IF u = t THEN to ELSE pc[u])
                         /\ call'[u] = (IF u = t THEN c ELSE call[u])
  BY <1>1
<1>4. ASSUME NEW u \in Threads PROVE CallFits(pc'[u], call'[u])
  BY <1>3 DEF Typed, CallsFit
<1> QED
  BY <1>2, <1>4 DEF CallsFit

LEMMA ReturnKeeps ==
  ASSUME Typed, NEW t \in Threads, Return(t)
  PROVE  CallsTyped' /\ CallsFit'
<1>1. Idle \in CallType /\ CallFits("idle", Idle) /\ "idle" \in Counters
  BY ChannelAssumption DEF Idle, CallType, CallFits, Counters
<1> QED
  BY <1>1, GotoKeeps DEF Return

LEMMA BeginKeeps ==
  ASSUME Typed, NEW t \in Threads, NEW to \in Counters,
         NEW op \in Methods \cup {"open", "send"}, NEW id \in Ids \cup Remote,
         NEW ep \in EndpointType \cup {NoEndpoint},
         CallFits(to, [op |-> op, id |-> id, try |-> 0, ep |-> ep]), Begin(t, to, op, id, ep)
  PROVE  CallsTyped' /\ CallsFit' /\ calls' \in 0 .. MaxCalls
<1>1. [op |-> op, id |-> id, try |-> 0, ep |-> ep] \in CallType
  BY ChannelAssumption DEF CallType
<1>2. calls' \in 0 .. MaxCalls
  BY ChannelAssumption DEF Begin, Typed, Parts, CountsTyped
<1> QED
  BY <1>1, <1>2, GotoKeeps DEF Begin, Typed, Parts

LEMMA OpenTyped == ASSUME Typed, NEW t \in Threads, NEW id \in Ids, Open(t, id) PROVE Typed'
<1>1. PICK kind \in Kinds : \E made \in NewHandles(kind) :
        /\ Begin(t, "add", "open", id, NewEndpoint(made.handle))
        /\ owner' = made.owner
  BY DEF Open, Kinds
<1>2. PICK made \in NewHandles(kind) :
        /\ Begin(t, "add", "open", id, NewEndpoint(made.handle))
        /\ owner' = made.owner
  BY <1>1
<1>3. made.handle \in HandleType /\ owner' \in [Sockets -> Nat]
  BY <1>2, HandleMade DEF Typed, Parts, CountsTyped
<1>4. Fresh(NewEndpoint(made.handle)) /\ NewEndpoint(made.handle) \in EndpointType
  BY <1>3, NewEndpointFresh DEF Fresh
<1> DEFINE c == [op |-> "open", id |-> id, try |-> 0, ep |-> NewEndpoint(made.handle)]
<1>5. CallFits("add", c)
  BY <1>4 DEF CallFits
<1>6. CallsTyped' /\ CallsFit' /\ calls' \in 0 .. MaxCalls
  BY <1>2, <1>4, <1>5, BeginKeeps DEF Counters
<1>7. CountsTyped' /\ EndpointsTyped' /\ ConnectionsTyped'
  BY <1>3, <1>6
  DEF Open, Typed, Parts, CountsTyped, EndpointsTyped, ConnectionsTyped, endpointVars,
      connectionVars, historyVars
<1> QED
  BY <1>6, <1>7 DEF Typed, Parts

LEMMA AddStepTyped == ASSUME Typed, NEW t \in Threads, Add(t) PROVE Typed'
<1>1. pc[t] = "add" /\ CallFits(pc[t], call[t]) /\ call[t] \in CallType
  BY DEF Add, Typed, Parts, CallsTyped, CallsFit
<1>2. /\ call[t].id \in Ids \cup Remote /\ call[t].ep \in EndpointType
      /\ call[t].op = "send" => call[t].id \in Remote
  BY <1>1 DEF CallFits, Fresh, Methods
<1>3. EndpointsTyped'
  BY <1>2, AddTyped DEF Add, Typed, Parts
<1>4. CallsTyped' /\ CallsFit'
  <2>1. CASE call[t].op = "send" /\ call[t].try + 1 < Retries
    <3> DEFINE c == [op |-> "send", id |-> call[t].id, try |-> call[t].try + 1, ep |-> NoEndpoint]
    <3>1. call[t].try + 1 \in 0 .. Retries
      BY <1>1, <2>1, ChannelAssumption DEF CallType
    <3>2. c \in CallType /\ CallFits("get", c)
      BY <1>2, <2>1, <3>1 DEF CallType, CallFits
    <3>3. Goto(t, "get", c)
      BY <2>1 DEF Add
    <3> QED
      BY <3>2, <3>3, GotoKeeps DEF Counters
  <2>2. CASE ~ (call[t].op = "send" /\ call[t].try + 1 < Retries)
    BY <2>2, ReturnKeeps DEF Add
  <2> QED
    BY <2>1, <2>2
<1>5. CountsTyped' /\ ConnectionsTyped'
  BY <1>2 DEF Add, Typed, Parts, CountsTyped, ConnectionsTyped, connectionVars, historyVars
<1> QED
  BY <1>3, <1>4, <1>5 DEF Typed, Parts

LEMMA LookTyped == ASSUME Typed, NEW t \in Threads, NEW id \in Ids, Look(t, id) PROVE Typed'
<1>1. PICK op \in Methods : Begin(t, "get", op, id, NoEndpoint)
  BY DEF Look
<1>2. CallFits("get", [op |-> op, id |-> id, try |-> 0, ep |-> NoEndpoint])
  BY DEF CallFits
<1>3. CallsTyped' /\ CallsFit' /\ calls' \in 0 .. MaxCalls
  BY <1>1, <1>2, BeginKeeps DEF Counters
<1> QED
  BY <1>3
  DEF Look, Typed, Parts, CountsTyped, EndpointsTyped, ConnectionsTyped, endpointVars,
      connectionVars, historyVars

LEMMA GetTyped == ASSUME Typed, NEW t \in Threads, Get(t) PROVE Typed'
<1>1. pc[t] = "get" /\ CallFits(pc[t], call[t]) /\ call[t] \in CallType
  BY DEF Get, Typed, Parts, CallsTyped, CallsFit
<1>2. \/ call[t].op \in Methods /\ call[t].id \in Ids
      \/ call[t].op = "send" /\ call[t].id \in Remote
  BY <1>1 DEF CallFits
<1>3. CASE \E to \in {call[t].op, "open", "remove"} :
             Goto(t, to, call[t]) /\ CallFits(to, call[t]) /\ UNCHANGED crashed
  <2>1. \A to \in {call[t].op, "open", "remove"} : to \in Counters
    BY <1>2 DEF Counters
  <2>2. CallsTyped' /\ CallsFit' /\ crashed' = crashed
    BY <1>1, <1>3, <2>1, GotoKeeps
  <2> QED
    BY <2>2
    DEF Get, Typed, Parts, CountsTyped, EndpointsTyped, ConnectionsTyped, endpointVars,
        connectionVars, historyVars
<1>4. CASE crashed' = TRUE /\ UNCHANGED <<pc, call>>
  BY <1>4
  DEF Get, Typed, Parts, CountsTyped, CallsTyped, CallsFit, EndpointsTyped, ConnectionsTyped,
      endpointVars, connectionVars, historyVars
<1>5. \/ Goto(t, call[t].op, call[t]) /\ UNCHANGED crashed
      \/ call[t].op = "send" /\ Goto(t, "open", call[t]) /\ UNCHANGED crashed
      \/ call[t].op = "close" /\ Goto(t, "remove", call[t]) /\ UNCHANGED crashed
      \/ crashed' = TRUE /\ UNCHANGED <<pc, call>>
  BY DEF Get
<1>6. /\ CallFits(call[t].op, call[t])
      /\ call[t].op = "send" => CallFits("open", call[t])
      /\ call[t].op = "close" => CallFits("remove", call[t])
  BY <1>2 DEF CallFits, Methods
<1> QED
  BY <1>3, <1>4, <1>5, <1>6

\* Where a thread is says what it called and for which kind of channel.
LEMMA WhoseCall ==
  ASSUME Typed, NEW t \in Threads
  PROVE  /\ call[t] \in CallType
         /\ pc[t] \in Methods => call[t].op = pc[t]
         /\ pc[t] \in Methods \cup {"remove", "hasBuffered"} => call[t].id \in Ids
         /\ pc[t] = "hasBuffered" => call[t].op = "hasRead"
         /\ pc[t] \in {"send", "append", "open"} => call[t].op = "send" /\ call[t].id \in Remote
BY DEF Typed, Parts, CallsTyped, CallsFit, CallFits, Methods

\* A call of a method that changes neither map, or sets the endpoint that it found.
LEMMA MethodTyped ==
  ASSUME Typed, NEW t \in Threads, CallsTyped', CallsFit', CountsTyped',
         UNCHANGED connectionVars,
         \/ UNCHANGED endpointVars
         \/ \E ep \in EndpointType : SetEndpoint(call[t].id, ep) /\ call[t].id \in Ids \cup Remote
  PROVE  Typed'
<1>1. ConnectionsTyped'
  BY DEF Typed, Parts, ConnectionsTyped, connectionVars
<1>2. EndpointsTyped'
  <2>1. CASE UNCHANGED endpointVars
    BY <2>1 DEF Typed, Parts, EndpointsTyped, endpointVars
  <2>2. CASE \E ep \in EndpointType :
               SetEndpoint(call[t].id, ep) /\ call[t].id \in Ids \cup Remote
    BY <2>2, SetTyped DEF Typed, Parts
  <2> QED
    BY <2>1, <2>2
<1> QED
  BY <1>1, <1>2 DEF Typed, Parts

LEMMA DoHasTyped ==
  ASSUME Typed, NEW t \in Threads, HasReadHandle(t) \/ HasBuffered(t) \/ DoHasWrite(t)
  PROVE  Typed'
<1>1. CallsTyped' /\ CallsFit'
  <2>1. CASE Return(t)
    BY <2>1, ReturnKeeps
  <2>2. CASE HasReadHandle(t) /\ Goto(t, "hasBuffered", call[t])
    <3>1. call[t] \in CallType /\ CallFits("hasBuffered", call[t])
      BY <2>2, WhoseCall DEF HasReadHandle, At, Methods, CallFits
    <3> QED
      BY <2>2, <3>1, GotoKeeps DEF Counters
  <2> QED
    BY <2>1, <2>2 DEF HasReadHandle, HasBuffered, DoHasWrite
<1>2. CountsTyped'
  BY DEF HasReadHandle, HasBuffered, DoHasWrite, historyVars, Typed, Parts, CountsTyped
<1> QED
  BY <1>1, <1>2, MethodTyped DEF HasReadHandle, HasBuffered, DoHasWrite

\* The two parts of an endpoint may be replaced by others of their types.
LEMMA ReplacePart ==
  ASSUME NEW ep \in EndpointType, NEW b \in Buffers({Value}), NEW h \in HandleType
  PROVE  /\ [ep EXCEPT !.buffer = b] \in EndpointType
         /\ [ep EXCEPT !.handle = h] \in EndpointType
         /\ [ep EXCEPT !.buffer = b, !.handle = h] \in EndpointType
BY DEF EndpointType

LEMMA HandleAfter ==
  ASSUME NEW h \in HandleType
  PROVE  AfterRead(h) \in HandleType /\ AfterClose(h) \in HandleType
BY DEF HandleType, AfterRead, AfterClose

LEMMA DoReadTyped == ASSUME Typed, NEW t \in Threads, DoRead(t) PROVE Typed'
<1>1. call[t].id \in Ids
  BY WhoseCall DEF DoRead, At, Methods
<1>2. CallsTyped' /\ CallsFit'
  BY ReturnKeeps DEF DoRead
<1>3. CASE Ep(t).buffer = NoEndpoint
  <2>1. CountsTyped'
    BY <1>3 DEF DoRead, historyVars, Typed, Parts, CountsTyped
  <2> QED
    BY <1>2, <1>3, <2>1, MethodTyped DEF DoRead
<1>4. CASE Ep(t).buffer # NoEndpoint
  <2>1. CountsTyped'
    BY <1>4 DEF DoRead, historyVars, Typed, Parts, CountsTyped
  <2>2. PICK v \in {Value, NoValue} :
          SetEndpoint(call[t].id,
            [Ep(t) EXCEPT !.buffer = Refreshed(@, v), !.handle = AfterRead(@)])
    BY <1>4 DEF DoRead, Reads
  <2>3. /\ Ep(t) \in EndpointType /\ Refreshed(Ep(t).buffer, v) \in Buffers({Value})
        /\ AfterRead(Ep(t).handle) \in HandleType
    BY <1>4, EpTyped, RefreshedTyped, HandleAfter DEF DoRead, At, Typed, Parts
  <2> QED
    BY <1>1, <1>2, <2>1, <2>2, <2>3, MethodTyped, ReplacePart DEF DoRead
<1> QED
  BY <1>3, <1>4

LEMMA AppendedTyped ==
  ASSUME NEW ep \in EndpointType, ep.buffer \in Buffers({Value})
  PROVE  [ep EXCEPT !.buffer = Put(@, Value)] \in EndpointType
BY PutTyped DEF EndpointType

LEMMA DoWriteTyped == ASSUME Typed, NEW t \in Threads, DoWrite(t) PROVE Typed'
<1>1. call[t].id \in Ids
  BY WhoseCall DEF DoWrite, At, Methods
<1>2. CallsTyped' /\ CallsFit'
  BY ReturnKeeps DEF DoWrite
<1>3. CountsTyped'
  BY <1>1 DEF DoWrite, Typed, Parts, CountsTyped
<1>4. CASE Ep(t).buffer = NoEndpoint
  BY <1>2, <1>3, <1>4, MethodTyped DEF DoWrite
<1>5. CASE Ep(t).buffer # NoEndpoint
  <2>1. Ep(t) \in EndpointType /\ Put(Ep(t).buffer, Value) \in Buffers({Value})
    BY <1>5, EpTyped, PutTyped DEF DoWrite, At, Typed, Parts
  <2>2. [Ep(t) EXCEPT !.buffer = Put(@, Value)] \in EndpointType
    BY <2>1 DEF EndpointType
  <2>3. SetEndpoint(call[t].id, [Ep(t) EXCEPT !.buffer = Put(@, Value)])
    BY <1>5 DEF DoWrite
  <2> QED
    BY <1>1, <1>2, <1>3, <2>2, <2>3, MethodTyped DEF DoWrite
<1> QED
  BY <1>4, <1>5

LEMMA CloseTyped == ASSUME Typed, NEW t \in Threads, CloseHandle(t) \/ Remove(t) PROVE Typed'
<1>1. CASE CloseHandle(t)
  <2>1. pc[t] = "close" /\ call[t].id \in Ids /\ call[t].op \in Methods /\ call[t] \in CallType
    BY <1>1, WhoseCall DEF CloseHandle, At, Methods
  <2>2. CallsTyped' /\ CallsFit'
    BY <1>1, <2>1, GotoKeeps DEF CloseHandle, CallFits, Counters
  <2>3. Ep(t) \in EndpointType /\ Ep(t).handle \in HandleType
    BY <1>1, EpTyped DEF CloseHandle, At, Typed, Parts
  <2>4. Released(Ep(t).handle.socket) \in [Sockets -> Nat]
    BY <2>3 DEF Released, Typed, Parts, CountsTyped
  <2>5. CountsTyped'
    BY <1>1, <2>3, <2>4 DEF CloseHandle, Typed, Parts, CountsTyped, HandleType
  <2>6. [Ep(t) EXCEPT !.handle = AfterClose(@)] \in EndpointType
    BY <2>3, HandleAfter DEF EndpointType
  <2> QED
    BY <1>1, <2>1, <2>2, <2>5, <2>6, MethodTyped DEF CloseHandle
<1>2. CASE Remove(t)
  <2>1. CallsTyped' /\ CallsFit'
    BY <1>2, ReturnKeeps DEF Remove
  <2>2. EndpointsTyped'
    BY <1>2, RemoveTyped DEF Remove, Typed, Parts
  <2>3. CountsTyped' /\ ConnectionsTyped'
    BY <1>2 DEF Remove, historyVars, connectionVars, Typed, Parts, CountsTyped, ConnectionsTyped
  <2> QED
    BY <2>1, <2>2, <2>3 DEF Typed, Parts
<1> QED
  BY <1>1, <1>2

LEMMA SendTyped ==
  ASSUME Typed, NEW t \in Threads, NEW a \in Deployed \cup Remote, ShortCircuit(t, a) \/ Send(t, a)
  PROVE  Typed'
<1>1. CASE ShortCircuit(t, a)
  <2>1. calls' \in 0 .. MaxCalls /\ queued' \in [Deployed \cup Remote -> Nat]
    BY <1>1, ChannelAssumption DEF ShortCircuit, Typed, Parts, CountsTyped
  <2>2. CallsTyped' /\ CallsFit'
    BY <1>1 DEF ShortCircuit, Typed, Parts, CallsTyped, CallsFit
  <2>3. CountsTyped'
    BY <1>1, <2>1 DEF ShortCircuit, historyVars, Typed, Parts, CountsTyped
  <2> QED
    BY <1>1, <2>2, <2>3, MethodTyped DEF ShortCircuit
<1>2. CASE Send(t, a)
  <2>1. a \in Remote /\ CallFits("get", [op |-> "send", id |-> a, try |-> 0, ep |-> NoEndpoint])
    BY <1>2 DEF Send, CallFits
  <2>2. CallsTyped' /\ CallsFit' /\ calls' \in 0 .. MaxCalls
    BY <1>2, <2>1, BeginKeeps DEF Send, Counters
  <2>3. CountsTyped'
    BY <1>2, <2>2 DEF Send, historyVars, Typed, Parts, CountsTyped
  <2> QED
    BY <1>2, <2>2, <2>3, MethodTyped DEF Send
<1> QED
  BY <1>1, <1>2

\* The endpoint of a remote address, if it has one, is a connection with the
\* default buffer: only send opens it and only send appends to it.
RemoteFits ==
  \A a \in Remote \cap DOMAIN internalEndpoints :
    LET ep == internalEndpoints[a] IN
    /\ ep.handle.kind = "connection" /\ ep.handle.good
    /\ ep.buffer \in Buffers({Value})
    /\ ep.buffer.class = "ContainerEPBufferMT" /\ ep.buffer.max = BufferMax

Kept(a) ==
  /\ a \in DOMAIN internalEndpoints' <=> a \in DOMAIN internalEndpoints
  /\ a \in DOMAIN internalEndpoints => internalEndpoints'[a] = internalEndpoints[a]

LEMMA RemoteIsInternal ==
  ASSUME NEW a \in Remote
  PROVE  ~ External(a) /\ Endpoints(a) = internalEndpoints /\ a \notin Ids
BY ChannelAssumption DEF External, Endpoints, Ids

LEMMA SetKeeps ==
  ASSUME NEW id \in Ids, NEW a \in Remote,
         \/ UNCHANGED internalEndpoints
         \/ \E ep : SetEndpoint(id, ep) \/ AddEndpoint(id, ep)
         \/ RemoveEndpoint(id)
  PROVE  Kept(a)
<1>1. a # id
  BY RemoteIsInternal
<1>2. a \notin ExternalIds
  BY ChannelAssumption
<1> QED
  BY <1>1, <1>2
  DEF Kept, SetEndpoint, AddEndpoint, RemoveEndpoint, endpointVars, Updated, Without

\* What a step may do to the endpoint of a remote address.
LEMMA RemoteCases ==
  ASSUME Typed, [Next]_vars, NEW a \in Remote
  PROVE  \/ Kept(a)
         \/ \E t \in Threads :
              /\ Add(t) /\ call[t].op = "send" /\ call[t].id = a
              /\ a \notin DOMAIN internalEndpoints
              /\ a \in DOMAIN internalEndpoints' /\ internalEndpoints'[a] = call[t].ep
         \/ \E t \in Threads :
              /\ AppendSent(t) /\ call[t].id = a
              /\ a \in DOMAIN internalEndpoints /\ a \in DOMAIN internalEndpoints'
              /\ internalEndpoints'[a] = [internalEndpoints[a] EXCEPT !.buffer = Put(@, Value)]
<1>1. UNCHANGED internalEndpoints => Kept(a)
  BY DEF Kept
<1>2. ASSUME NEW t \in Threads, Add(t)
      PROVE  \/ Kept(a)
             \/ /\ call[t].op = "send" /\ call[t].id = a
                /\ a \notin DOMAIN internalEndpoints
                /\ a \in DOMAIN internalEndpoints' /\ internalEndpoints'[a] = call[t].ep
  <2>1. /\ AddEndpoint(call[t].id, call[t].ep) /\ CallFits("add", call[t])
    BY <1>2 DEF Add, Typed, CallsFit
  <2>2. CASE call[t].id \in Ids
    BY <2>1, <2>2, SetKeeps
  <2>3. CASE call[t].op = "send" /\ call[t].id \in Remote
    BY <2>1, <2>3, RemoteIsInternal
    DEF Kept, AddEndpoint, SetEndpoint, endpointVars, Updated
  <2> QED
    BY <2>1, <2>2, <2>3 DEF CallFits, Methods
<1>3. ASSUME NEW t \in Threads, AppendSent(t)
      PROVE  \/ Kept(a)
             \/ /\ call[t].id = a
                /\ a \in DOMAIN internalEndpoints /\ a \in DOMAIN internalEndpoints'
                /\ internalEndpoints'[a] = [internalEndpoints[a] EXCEPT !.buffer = Put(@, Value)]
  <2>1. call[t].id \in Remote
    BY <1>3, WhoseCall DEF AppendSent, At
  <2> QED
    BY <1>3, <2>1, RemoteIsInternal DEF AppendSent, At, Ep, Kept, SetEndpoint, Updated
<1>4. ASSUME NEW t \in Threads, DoRead(t) \/ DoWrite(t) \/ CloseHandle(t) \/ Remove(t)
      PROVE  Kept(a)
  <2>1. call[t].id \in Ids
    BY <1>4, WhoseCall DEF DoRead, DoWrite, CloseHandle, Remove, At, Methods
  <2>2. \/ UNCHANGED internalEndpoints
        \/ \E ep : SetEndpoint(call[t].id, ep)
        \/ RemoveEndpoint(call[t].id)
    BY <1>4 DEF DoRead, DoWrite, CloseHandle, Remove, endpointVars
  <2> QED
    BY <2>1, <2>2, SetKeeps
<1>5. ASSUME NEW t \in Threads,
             Get(t) \/ HasReadHandle(t) \/ HasBuffered(t) \/ DoHasWrite(t) \/ TrySend(t) \/ Reopen(t)
      PROVE  Kept(a)
  BY <1>1, <1>5 DEF Get, HasReadHandle, HasBuffered, DoHasWrite, TrySend, Reopen, endpointVars
<1>6. ASSUME NEW t \in Threads, NEW id \in Ids, Open(t, id) \/ Look(t, id) PROVE Kept(a)
  BY <1>1, <1>6 DEF Open, Look, endpointVars
<1>7. ASSUME NEW t \in Threads, NEW b \in Deployed \cup Remote, ShortCircuit(t, b) \/ Send(t, b)
      PROVE  Kept(a)
  BY <1>1, <1>7 DEF ShortCircuit, Send, endpointVars
<1>8. ASSUME NEW t \in Threads, ConnectionCall(t) PROVE Kept(a)
  BY <1>1, <1>8
  DEF ConnectionCall, UseMaps, AddConnection, RemoveConnection, RemoveConnectionFrom,
      ClearConnections, ClearConnectionsOf, AskConnections, endpointVars
<1>9. CASE UNCHANGED vars
  BY <1>1, <1>9 DEF vars, endpointVars
<1> QED
  BY <1>2, <1>3, <1>4, <1>5, <1>6, <1>7, <1>8, <1>9 DEF Next, Step

LEMMA RemoteFitsStep == ASSUME Typed, RemoteFits, [Next]_vars PROVE RemoteFits'
<1> DEFINE Fit(ep) ==
             /\ ep.handle.kind = "connection" /\ ep.handle.good
             /\ ep.buffer \in Buffers({Value})
             /\ ep.buffer.class = "ContainerEPBufferMT" /\ ep.buffer.max = BufferMax
<1> SUFFICES ASSUME NEW a \in Remote, a \in DOMAIN internalEndpoints'
             PROVE  Fit(internalEndpoints'[a])
  BY DEF RemoteFits
<1>1. CASE Kept(a)
  BY <1>1 DEF Kept, RemoteFits
<1>2. ASSUME NEW t \in Threads, Add(t), call[t].op = "send", internalEndpoints'[a] = call[t].ep
      PROVE  Fit(internalEndpoints'[a])
  <2>1. Fresh(call[t].ep) /\ call[t].ep.handle.kind = "connection" /\ call[t].ep.handle.good
    BY <1>2 DEF Add, Typed, CallsFit, CallFits, Methods
  <2>2. call[t].ep.buffer = NewBuffer("ContainerEPBufferMT", BufferMax)
    BY <2>1 DEF Fresh, BufferOf, Streams
  <2>3. <<>> \in Seq({Value})
    OBVIOUS
  <2>4. NewBuffer("ContainerEPBufferMT", BufferMax) \in Buffers({Value})
    BY <2>3, ChannelAssumption DEF NewBuffer, Buffers, Containers
  <2> QED
    BY <1>2, <2>1, <2>2, <2>4 DEF NewBuffer
<1>3. ASSUME a \in DOMAIN internalEndpoints,
             internalEndpoints'[a] = [internalEndpoints[a] EXCEPT !.buffer = Put(@, Value)]
      PROVE  Fit(internalEndpoints'[a])
  <2>1. Fit(internalEndpoints[a]) /\ internalEndpoints[a] \in EndpointType
    BY <1>3 DEF RemoteFits, Typed, Parts, EndpointsTyped
  <2>2. /\ internalEndpoints'[a].buffer = Put(internalEndpoints[a].buffer, Value)
        /\ internalEndpoints'[a].handle = internalEndpoints[a].handle
    BY <1>3, <2>1 DEF EndpointType
  <2> QED
    BY <2>1, <2>2, PutTyped
<1> QED
  BY <1>1, <1>2, <1>3, RemoteCases

LEMMA TryTyped ==
  ASSUME Typed, RemoteFits, NEW t \in Threads, TrySend(t) \/ AppendSent(t) \/ Reopen(t)
  PROVE  Typed'
<1>1. CASE TrySend(t)
  <2>1. call[t].op = "send" /\ call[t].id \in Remote /\ call[t] \in CallType
    BY <1>1, WhoseCall DEF TrySend, At
  <2>2. CallFits("append", call[t]) /\ CallFits("open", call[t])
    BY <2>1 DEF CallFits
  <2>3. Goto(t, "append", call[t]) \/ Goto(t, "open", call[t])
    BY <1>1 DEF TrySend
  <2>4. CallsTyped' /\ CallsFit'
    BY <2>1, <2>2, <2>3, GotoKeeps DEF Counters
  <2>5. CountsTyped'
    BY <1>1 DEF TrySend, historyVars, Typed, Parts, CountsTyped
  <2> QED
    BY <1>1, <2>4, <2>5, MethodTyped DEF TrySend
<1>2. CASE AppendSent(t)
  <2>1. call[t].id \in Remote
    BY <1>2, WhoseCall DEF AppendSent, At
  <2>2. CallsTyped' /\ CallsFit'
    BY <1>2, ReturnKeeps DEF AppendSent
  <2>3. CountsTyped'
    BY <1>2, <2>1 DEF AppendSent, historyVars, Typed, Parts, CountsTyped
  <2>4. Ep(t) \in EndpointType /\ Ep(t).buffer \in Buffers({Value})
    BY <1>2, <2>1, EpTyped, RemoteIsInternal DEF AppendSent, At, Ep, RemoteFits, Typed, Parts
  <2> QED
    BY <1>2, <2>1, <2>2, <2>3, <2>4, AppendedTyped, MethodTyped DEF AppendSent
<1>3. CASE Reopen(t)
  <2>1. call[t].op = "send" /\ call[t].id \in Remote /\ call[t] \in CallType
    BY <1>3, WhoseCall DEF Reopen
  <2>2. PICK made \in NewHandles("connection") :
          /\ Goto(t, "add", [call[t] EXCEPT !.ep = NewEndpoint(made.handle)])
          /\ owner' = made.owner
    BY <1>3 DEF Reopen
  <2>3. /\ made.handle \in HandleType /\ owner' \in [Sockets -> Nat]
        /\ made.handle.kind = "connection" /\ made.handle.good
    BY <2>2, HandleMade DEF Typed, Parts, CountsTyped, Kinds
  <2>4. /\ Fresh(NewEndpoint(made.handle)) /\ NewEndpoint(made.handle).handle = made.handle
        /\ NewEndpoint(made.handle) \in EndpointType
    BY <2>3, NewEndpointFresh DEF Fresh
  <2> DEFINE c == [call[t] EXCEPT !.ep = NewEndpoint(made.handle)]
  <2>5. c \in CallType /\ c.op = "send" /\ c.id \in Remote /\ c.ep = NewEndpoint(made.handle)
    BY <2>1, <2>4 DEF CallType
  <2>6. CallFits("add", c)
    BY <2>3, <2>4, <2>5 DEF CallFits
  <2>7. CallsTyped' /\ CallsFit'
    BY <2>2, <2>5, <2>6, GotoKeeps DEF Counters
  <2>8. CountsTyped'
    BY <1>3, <2>3 DEF Reopen, historyVars, Typed, Parts, CountsTyped
  <2> QED
    BY <1>3, <2>7, <2>8, MethodTyped DEF Reopen
<1> QED
  BY <1>1, <1>2, <1>3

LEMMA ConnectTyped ==
  ASSUME ConnectionsTyped, NEW int \in BOOLEAN,
         \/ \E a \in Remote, h \in HandleType : Connect(int, Updated(Connections(int), a, h))
         \/ \E a \in Remote : Connect(int, Without(Connections(int), a))
         \/ Connect(int, <<>>)
         \/ UNCHANGED connectionVars
  PROVE  ConnectionsTyped'
<1>1. DOMAIN <<>> = {}
  OBVIOUS
<1>2. CASE \E a \in Remote, h \in HandleType : Connect(int, Updated(Connections(int), a, h))
  BY <1>2 DEF ConnectionsTyped, Connect, Connections, Updated
<1>3. CASE \E a \in Remote : Connect(int, Without(Connections(int), a))
  BY <1>3 DEF ConnectionsTyped, Connect, Connections, Without
<1>4. CASE Connect(int, <<>>)
  BY <1>1, <1>4 DEF ConnectionsTyped, Connect
<1>5. CASE UNCHANGED connectionVars
  BY <1>5 DEF ConnectionsTyped, connectionVars
<1> QED
  BY <1>2, <1>3, <1>4, <1>5

LEMMA UseMapsTyped ==
  ASSUME Typed, NEW t \in Threads, NEW int \in BOOLEAN, UseMaps(t, int),
         owner' \in [Sockets -> Nat], handles' \in Nat, ConnectionsTyped'
  PROVE  Typed'
<1>1. calls' \in 0 .. MaxCalls
  BY ChannelAssumption DEF UseMaps, Typed, Parts, CountsTyped
<1>2. crashed' \in BOOLEAN
  BY DEF UseMaps
<1>3. CountsTyped'
  BY <1>1, <1>2 DEF UseMaps, historyVars, Typed, Parts, CountsTyped
<1>4. EndpointsTyped' /\ CallsTyped' /\ CallsFit'
  BY DEF UseMaps, endpointVars, Typed, Parts, EndpointsTyped, CallsTyped, CallsFit
<1> QED
  BY <1>3, <1>4 DEF Typed, Parts

LEMMA ConnectionCallTyped ==
  ASSUME Typed, NEW t \in Threads, ConnectionCall(t)
  PROVE  Typed'
<1>1. ConnectionsTyped /\ owner \in [Sockets -> Nat] /\ handles \in Nat
  BY DEF Typed, Parts, CountsTyped
<1>2. ASSUME NEW a \in Remote, NEW int \in BOOLEAN, AddConnection(t, a, int) PROVE Typed'
  <2>1. PICK made \in NewHandles("connection") :
          /\ owner' = made.owner
          /\ \/ UNCHANGED connectionVars
             \/ Connect(int, Updated(Connections(int), a, made.handle))
    BY <1>2 DEF AddConnection
  <2>2. made.handle \in HandleType /\ owner' \in [Sockets -> Nat]
    BY <1>1, <2>1, HandleMade DEF Kinds
  <2>3. ConnectionsTyped'
    BY <1>1, <2>1, <2>2, ConnectTyped
  <2> QED
    BY <1>1, <1>2, <2>2, <2>3, UseMapsTyped DEF AddConnection
<1>3. ASSUME NEW a \in Remote, RemoveConnection(t, a) PROVE Typed'
  <2>1. UNCHANGED connectionVars \/ Connect(TRUE, Without(Connections(TRUE), a))
    BY <1>3 DEF RemoveConnection, MapForAddress
  <2>2. ConnectionsTyped'
    BY <1>1, <2>1, ConnectTyped
  <2> QED
    BY <1>1, <1>3, <2>2, UseMapsTyped DEF RemoveConnection
<1>4. ASSUME NEW a \in Remote, NEW int \in BOOLEAN, RemoveConnectionFrom(t, a, int) PROVE Typed'
  <2>1. UNCHANGED connectionVars \/ Connect(int, Without(Connections(int), a))
    BY <1>4 DEF RemoveConnectionFrom
  <2>2. ConnectionsTyped'
    BY <1>1, <2>1, ConnectTyped
  <2> QED
    BY <1>1, <1>4, <2>2, UseMapsTyped DEF RemoveConnectionFrom
<1>5. CASE ClearConnections(t)
  <2>1. DOMAIN <<>> = {}
    OBVIOUS
  <2>2. ConnectionsTyped'
    BY <1>1, <1>5, <2>1 DEF ClearConnections, ConnectionsTyped, connectionVars
  <2> QED
    BY <1>1, <1>5, <2>2, UseMapsTyped DEF ClearConnections
<1>6. ASSUME NEW int \in BOOLEAN, ClearConnectionsOf(t, int) \/ AskConnections(t, int)
      PROVE  Typed'
  <2>1. UNCHANGED connectionVars \/ Connect(int, <<>>)
    BY <1>6 DEF ClearConnectionsOf, AskConnections
  <2>2. ConnectionsTyped'
    BY <1>1, <2>1, ConnectTyped
  <2> QED
    BY <1>1, <1>6, <2>2, UseMapsTyped DEF ClearConnectionsOf, AskConnections
<1> QED
  BY <1>2, <1>3, <1>4, <1>5, <1>6 DEF ConnectionCall

LEMMA TypedInit == Init => Typed /\ RemoteFits
<1> SUFFICES ASSUME Init PROVE Typed /\ RemoteFits
  OBVIOUS
<1>1. DOMAIN <<>> = {}
  OBVIOUS
<1>2. EndpointsTyped /\ ConnectionsTyped
  BY <1>1 DEF Init, EndpointsTyped, ConnectionsTyped
<1>3. Idle \in CallType
  BY ChannelAssumption DEF Idle, CallType
<1>4. CallsTyped /\ CallsFit
  BY <1>3 DEF Init, CallsTyped, CallsFit, CallFits, Counters
<1>5. CountsTyped
  <2>1. /\ queued \in [Deployed \cup Remote -> Nat] /\ returned \in [Remote -> Nat]
        /\ owner \in [Sockets -> Nat] /\ calls \in 0 .. MaxCalls /\ handles \in Nat
    BY ChannelAssumption DEF Init
  <2>2. simulation \in BOOLEAN
    BY ChannelAssumption DEF Init
  <2> QED
    BY <2>1, <2>2 DEF Init, CountsTyped
<1> QED
  BY <1>1, <1>2, <1>4, <1>5 DEF Init, RemoteFits, Typed, Parts

LEMMA TypedStep == ASSUME Typed, RemoteFits, [Next]_vars PROVE Typed'
<1>1. ASSUME NEW t \in Threads, Step(t) PROVE Typed'
  BY <1>1, AddStepTyped, GetTyped, DoHasTyped, DoReadTyped, DoWriteTyped, CloseTyped, TryTyped
  DEF Step
<1>2. ASSUME NEW t \in Threads, NEW id \in Ids, Open(t, id) \/ Look(t, id) PROVE Typed'
  BY <1>2, OpenTyped, LookTyped
<1>3. ASSUME NEW t \in Threads, NEW a \in Deployed \cup Remote, ShortCircuit(t, a) \/ Send(t, a)
      PROVE  Typed'
  BY <1>3, SendTyped
<1>4. ASSUME NEW t \in Threads, ConnectionCall(t) PROVE Typed'
  BY <1>4, ConnectionCallTyped
<1>5. CASE UNCHANGED vars
  BY <1>5
  DEF vars, endpointVars, connectionVars, historyVars, Typed, Parts, EndpointsTyped,
      ConnectionsTyped, CallsTyped, CallsFit, CountsTyped
<1> QED
  BY <1>1, <1>2, <1>3, <1>4, <1>5 DEF Next

LEMMA AlwaysTyped == Spec => [](Typed /\ RemoteFits)
BY TypedInit, TypedStep, RemoteFitsStep, PTL DEF Spec

\* Every variable keeps its type, and every endpoint is in the map for its kind,
\* for any number of threads, sockets and tries.
THEOREM ChannelTypes == Spec => []TypeOK
<1>1. Typed => TypeOK
  BY TypeParts DEF Typed
<1> QED
  BY AlwaysTyped, <1>1, PTL

-----------------------------------------------------------------------------
(* How much a connection loses *)

\* Sends that have asked whether there is room, and have still to append.
Late(a) == {t \in Threads : pc[t] = "append" /\ call[t].id = a}

\* While there is room, what was sent is there; once there is not, each send that
\* was lost is of a thread that is not late any more.
Counted ==
  \A a \in Remote :
    /\ a \notin DOMAIN internalEndpoints => returned[a] = 0
    /\ a \in DOMAIN internalEndpoints =>
         LET b == internalEndpoints[a].buffer IN
         /\ ~ Full(b) => returned[a] = Len(b.contents)
         /\ Full(b) =>
              returned[a] - Len(b.contents) + Cardinality(Late(a)) < Cardinality(Threads)

LEMMA LateFinite ==
  ASSUME NEW a
  PROVE  /\ IsFiniteSet(Late(a)) /\ Cardinality(Late(a)) \in Nat
         /\ Cardinality(Threads) \in Nat /\ Cardinality(Threads) > 0
<1>1. Late(a) \in SUBSET Threads
  BY DEF Late
<1>2. IsFiniteSet(Threads) /\ Threads # {}
  BY ChannelAssumption
<1>3. Cardinality(Threads) \in Nat /\ Cardinality(Threads) # 0
  BY <1>2, FS_CardinalityType, FS_EmptySet
<1> QED
  BY <1>1, <1>2, <1>3, FS_Subset, FS_CardinalityType

\* Only TrySend makes a thread late, and only AppendSent ends that.
LEMMA LateGoto ==
  ASSUME Typed, NEW t \in Threads, NEW to, NEW c, NEW a, Goto(t, to, c),
         pc[t] = "append" => call[t].id # a, to = "append" => c.id # a
  PROVE  Late(a)' = Late(a)
<1>1. \A u \in Threads : pc'[u] = (IF u = t THEN to ELSE pc[u])
                         /\ call'[u] = (IF u = t THEN c ELSE call[u])
  BY DEF Goto, Typed, Parts, CallsTyped
<1> QED
  BY <1>1 DEF Late

LEMMA LateCases ==
  ASSUME Typed, RemoteFits, [Next]_vars, ~ Simulation, NEW a \in Remote
  PROVE  \/ \E t \in Threads :
              /\ AppendSent(t) /\ call[t].id = a
              /\ returned'[a] = returned[a] + 1
              /\ t \in Late(a) /\ Late(a)' = Late(a) \ {t}
         \/ /\ returned'[a] = returned[a]
            /\ a \in DOMAIN internalEndpoints /\ Full(internalEndpoints[a].buffer)
                 => Late(a)' = Late(a)
<1> DEFINE Stays == returned'[a] = returned[a] /\ Late(a)' = Late(a)
<1>1. ASSUME NEW t \in Threads, AppendSent(t), call[t].id = a
      PROVE  /\ returned'[a] = returned[a] + 1
             /\ t \in Late(a) /\ Late(a)' = Late(a) \ {t}
  <2>1. returned'[a] = returned[a] + 1
    BY <1>1 DEF AppendSent, Typed, Parts, CountsTyped
  <2>2. t \in Late(a)
    BY <1>1 DEF AppendSent, At, Late
  <2>3. \A u \in Threads : pc'[u] = (IF u = t THEN "idle" ELSE pc[u])
                           /\ (u # t => call'[u] = call[u])
    BY <1>1 DEF AppendSent, Return, Goto, Typed, Parts, CallsTyped
  <2> QED
    BY <2>1, <2>2, <2>3 DEF Late
<1>2. ASSUME NEW t \in Threads, AppendSent(t), call[t].id # a PROVE Stays
  <2>1. Late(a)' = Late(a)
    BY <1>2, LateGoto DEF AppendSent, Return
  <2> QED
    BY <1>2, <2>1 DEF AppendSent, Typed, Parts, CountsTyped
<1>3. ASSUME NEW t \in Threads, TrySend(t)
      PROVE  /\ returned'[a] = returned[a]
             /\ a \in DOMAIN internalEndpoints /\ Full(internalEndpoints[a].buffer)
                  => Late(a)' = Late(a)
  <2>1. returned' = returned /\ pc[t] = "send"
    BY <1>3 DEF TrySend, At
  <2>2. CASE call[t].id = a /\ a \in DOMAIN internalEndpoints /\ Full(internalEndpoints[a].buffer)
    <3>1. ~ HasWrite(Ep(t))
      BY <2>2, RemoteIsInternal DEF HasWrite, Ep
    <3>2. Goto(t, "open", call[t])
      BY <1>3, <3>1 DEF TrySend
    <3> QED
      BY <2>1, <3>2, LateGoto
  <2>3. CASE call[t].id # a
    <3>1. Goto(t, "open", call[t]) \/ Goto(t, "append", call[t])
      BY <1>3 DEF TrySend
    <3> QED
      BY <2>1, <2>3, <3>1, LateGoto
  <2> QED
    BY <2>1, <2>2, <2>3
<1>4. ASSUME NEW t \in Threads,
             \/ Add(t) \/ HasReadHandle(t) \/ HasBuffered(t) \/ DoHasWrite(t) \/ DoRead(t)
             \/ DoWrite(t) \/ CloseHandle(t) \/ Remove(t) \/ Reopen(t)
      PROVE  Stays
  <2>1. returned' = returned /\ pc[t] # "append"
    BY <1>4
    DEF Add, HasReadHandle, HasBuffered, DoHasWrite, DoRead, DoWrite, CloseHandle, Remove, Reopen,
        At
  <2>2. CASE Return(t)
    BY <2>1, <2>2, LateGoto DEF Return
  <2>3. ASSUME NEW to \in {"get", "remove", "add", "hasBuffered"}, NEW c, Goto(t, to, c)
        PROVE  Stays
    BY <2>1, <2>3, LateGoto
  <2>4. CASE CloseHandle(t)
    BY <2>3, <2>4 DEF CloseHandle
  <2>5. CASE Reopen(t)
    BY <2>3, <2>5 DEF Reopen
  <2>6. CASE Add(t)
    BY <2>2, <2>3, <2>6 DEF Add
  <2>7. CASE HasReadHandle(t)
    BY <2>2, <2>3, <2>7 DEF HasReadHandle
  <2> QED
    BY <1>4, <2>2, <2>4, <2>5, <2>6, <2>7 DEF HasBuffered, DoHasWrite, DoRead, DoWrite, Remove
<1>5. ASSUME NEW t \in Threads, Get(t) PROVE Stays
  <2>1. returned' = returned /\ pc[t] = "get" /\ call[t].op # "append"
    BY <1>5 DEF Get, Typed, CallsFit, CallFits, Methods
  <2>2. \/ UNCHANGED <<pc, call>>
        \/ \E to \in {call[t].op, "open", "remove"} : Goto(t, to, call[t])
    BY <1>5 DEF Get
  <2>3. CASE UNCHANGED <<pc, call>>
    BY <2>1, <2>3 DEF Late
  <2>4. CASE \E to \in {call[t].op, "open", "remove"} : Goto(t, to, call[t])
    BY <2>1, <2>4, LateGoto
  <2> QED
    BY <2>2, <2>3, <2>4
<1>6. ASSUME NEW t \in Threads, NEW id \in Ids, Open(t, id) \/ Look(t, id) PROVE Stays
  <2>1. ASSUME NEW to \in {"add", "get"}, NEW op, NEW ep, Begin(t, to, op, id, ep), returned' = returned
        PROVE  Stays
    BY <2>1, LateGoto DEF Begin
  <2>2. CASE Open(t, id)
    BY <2>1, <2>2 DEF Open
  <2>3. CASE Look(t, id)
    BY <2>1, <2>3 DEF Look
  <2> QED
    BY <1>6, <2>2, <2>3
<1>7. ASSUME NEW t \in Threads, NEW b \in Deployed \cup Remote, Send(t, b) PROVE Stays
  <2>1. /\ returned' = returned /\ pc[t] = "idle"
        /\ \E c : Goto(t, "get", c)
    BY <1>7 DEF Send, Begin
  <2> QED
    BY <2>1, LateGoto
<1>8. ASSUME NEW t \in Threads,
             ConnectionCall(t) \/ \E b \in Deployed \cup Remote : ShortCircuit(t, b)
      PROVE  Stays
  BY <1>8, ChannelAssumption
  DEF ConnectionCall, UseMaps, AddConnection, RemoveConnection, RemoveConnectionFrom,
      ClearConnections, ClearConnectionsOf, AskConnections, ShortCircuit, Late
<1>9. CASE UNCHANGED vars
  BY <1>9 DEF vars, Late
<1> QED
  BY <1>1, <1>2, <1>3, <1>4, <1>5, <1>6, <1>7, <1>8, <1>9 DEF Next, Step

LEMMA OneMoreOneLess ==
  ASSUME NEW r \in Nat, NEW l \in Nat, NEW c \in Nat, NEW n \in Nat, r - l + c < n
  PROVE  (r + 1) - l + (c - 1) < n
OBVIOUS

LEMMA NothingLost ==
  ASSUME NEW l \in Nat, NEW c \in Int, NEW n \in Nat, c < n
  PROVE  l - l + c < n
OBVIOUS

LEMMA SameSimulation == [Next]_vars => simulation' = simulation
BY DEF Next, Step, Add, Get, HasReadHandle, HasBuffered, DoHasWrite, DoRead, DoWrite, CloseHandle,
       Remove, TrySend, AppendSent, Reopen, Open, Look, ShortCircuit, Send, ConnectionCall, UseMaps,
       AddConnection, RemoveConnection, RemoveConnectionFrom, ClearConnections, ClearConnectionsOf,
       AskConnections, vars

LEMMA CountedStep ==
  ASSUME Typed, RemoteFits, Counted, ~ Simulation, [Next]_vars
  PROVE  Counted'
<1> SUFFICES ASSUME NEW a \in Remote
             PROVE  /\ a \notin DOMAIN internalEndpoints' => returned'[a] = 0
                    /\ a \in DOMAIN internalEndpoints' =>
                         LET b == internalEndpoints'[a].buffer IN
                         /\ ~ Full(b) => returned'[a] = Len(b.contents)
                         /\ Full(b) => returned'[a] - Len(b.contents) + Cardinality(Late(a)')
                                         < Cardinality(Threads)
  BY DEF Counted
<1>1. returned[a] \in Nat
  BY DEF Typed, Parts, CountsTyped
<1>2. CASE Kept(a) /\ returned'[a] = returned[a]
           /\ (a \in DOMAIN internalEndpoints /\ Full(internalEndpoints[a].buffer)
                 => Late(a)' = Late(a))
  BY <1>2 DEF Counted, Kept
<1>3. ASSUME NEW t \in Threads, Add(t), call[t].op = "send", a \notin DOMAIN internalEndpoints,
             a \in DOMAIN internalEndpoints', internalEndpoints'[a] = call[t].ep,
             returned'[a] = returned[a]
      PROVE  /\ ~ Full(internalEndpoints'[a].buffer)
             /\ returned'[a] = 0 /\ Len(internalEndpoints'[a].buffer.contents) = 0
  <2>1. Fresh(call[t].ep) /\ call[t].ep.handle.kind = "connection"
    BY <1>3 DEF Add, Typed, CallsFit, CallFits, Methods
  <2>2. call[t].ep.buffer = NewBuffer("ContainerEPBufferMT", BufferMax)
    BY <2>1 DEF Fresh, BufferOf, Streams
  <2>3. Len(<<>>) = 0
    OBVIOUS
  <2>4. returned[a] = 0
    BY <1>3 DEF Counted
  <2> QED
    BY <1>3, <2>2, <2>3, <2>4, ChannelAssumption DEF NewBuffer, Full, IsContainer, Containers
<1>4. ASSUME NEW t \in Threads, AppendSent(t), call[t].id = a,
             returned'[a] = returned[a] + 1, t \in Late(a), Late(a)' = Late(a) \ {t}
      PROVE  /\ a \in DOMAIN internalEndpoints'
             /\ LET b == internalEndpoints'[a].buffer IN
                /\ ~ Full(b) => returned'[a] = Len(b.contents)
                /\ Full(b) => returned'[a] - Len(b.contents) + Cardinality(Late(a)')
                                < Cardinality(Threads)
  <2> DEFINE old == internalEndpoints[a].buffer
             new == internalEndpoints'[a].buffer
  <2>1. /\ a \in DOMAIN internalEndpoints /\ a \in DOMAIN internalEndpoints'
        /\ internalEndpoints'[a] = [internalEndpoints[a] EXCEPT !.buffer = Put(@, Value)]
    BY <1>4, RemoteIsInternal DEF AppendSent, At, Ep, SetEndpoint, Updated
  <2>2. old \in Buffers({Value}) /\ internalEndpoints[a] \in EndpointType
    BY <2>1 DEF RemoteFits, Typed, Parts, EndpointsTyped
  <2>3. new = Put(old, Value)
    BY <2>1, <2>2 DEF EndpointType
  <2>4. old.contents \in Seq({Value}) /\ Len(old.contents) \in Nat
    BY <2>2 DEF Buffers
  <2>5. /\ Late(a)' \in SUBSET Threads /\ t \notin Late(a)' /\ IsFiniteSet(Late(a)')
        /\ Cardinality(Late(a)') = Cardinality(Late(a)) - 1
    <3>1. /\ IsFiniteSet(Late(a) \ {t})
          /\ Cardinality(Late(a) \ {t}) = Cardinality(Late(a)) - 1
      BY <1>4, LateFinite, FS_RemoveElement
    <3>2. Late(a) \ {t} \subseteq Threads
      BY DEF Late
    <3> QED
      BY <1>4, <3>1, <3>2
  <2>6. Cardinality(Late(a)') < Cardinality(Threads)
    <3>1. /\ Cardinality(Late(a)') <= Cardinality(Threads)
          /\ Cardinality(Threads) = Cardinality(Late(a)') => Threads = Late(a)'
      BY <2>5, ChannelAssumption, FS_Subset
    <3> QED
      BY <2>5, <3>1, LateFinite
  <2>7. /\ Cardinality(Late(a)) \in Nat /\ Cardinality(Threads) \in Nat
        /\ Cardinality(Late(a)') = Cardinality(Late(a)) - 1
        /\ returned'[a] = returned[a] + 1
    BY <1>4, <2>5, LateFinite
  <2>8. CASE Full(old)
    <3>1. new = old
      BY <2>3, <2>8 DEF Put
    <3>2. returned[a] - Len(old.contents) + Cardinality(Late(a)) < Cardinality(Threads)
      BY <2>1, <2>8 DEF Counted
    <3>3. returned'[a] - Len(old.contents) + Cardinality(Late(a)') < Cardinality(Threads)
      BY <1>1, <2>4, <2>7, <3>2, OneMoreOneLess
    <3> QED
      BY <2>1, <2>8, <3>1, <3>3
  <2>9. CASE ~ Full(old)
    <3>1. new.contents = Append(old.contents, Value)
      BY <2>2, <2>3, <2>9, PutTyped
    <3>2. Len(new.contents) = Len(old.contents) + 1
      BY <2>4, <3>1
    <3>3. returned[a] = Len(old.contents)
      BY <2>1, <2>9 DEF Counted
    <3>4. Len(new.contents) \in Nat /\ returned'[a] = Len(new.contents)
      BY <2>4, <2>7, <3>2, <3>3
    <3>5. returned'[a] - Len(new.contents) + Cardinality(Late(a)') < Cardinality(Threads)
      BY <2>6, <2>7, <3>4, NothingLost
    <3> QED
      BY <2>1, <3>4, <3>5
  <2> QED
    BY <2>8, <2>9
<1>5. ASSUME NEW t \in Threads, AppendSent(t), call[t].id = a
      PROVE  returned'[a] # returned[a]
  BY <1>1, <1>5 DEF AppendSent, Typed, Parts, CountsTyped
<1> QED
  BY <1>2, <1>3, <1>4, <1>5, LateCases, RemoteCases

\* In an engine constructed as a simulation, the only one whose send goes to
\* connections, the sends that returned and whose message is nowhere are fewer than
\* the threads, for any number of threads, addresses and messages.
THEOREM LossIsBounded == Spec => []LossBound
<1>1. Init => Counted
  <2>1. DOMAIN <<>> = {}
    OBVIOUS
  <2> QED
    BY <2>1 DEF Init, Counted
<1> DEFINE Bounded == ~ Simulation => Counted
<1>2. Typed /\ RemoteFits /\ Bounded /\ [Next]_vars => Bounded'
  BY CountedStep, SameSimulation DEF Simulation
<1>3. ASSUME Typed, RemoteFits, Bounded PROVE LossBound
  <2> SUFFICES ASSUME NEW a \in Remote, returned[a] > 0, Counted
               PROVE  /\ a \in DOMAIN internalEndpoints
                      /\ returned[a] - Len(internalEndpoints[a].buffer.contents)
                           < Cardinality(Threads)
    BY <1>3 DEF LossBound
  <2>1. a \in DOMAIN internalEndpoints
    BY DEF Counted
  <2>2. returned[a] \in Nat /\ Len(internalEndpoints[a].buffer.contents) \in Nat
    BY <1>3, <2>1 DEF RemoteFits, Buffers, Typed, Parts, CountsTyped
  <2> QED
    BY <1>3, <2>1, <2>2, LateFinite DEF Counted
<1> QED
  BY AlwaysTyped, <1>1, <1>2, <1>3, PTL DEF Spec

-----------------------------------------------------------------------------
(* When a send gives up *)

\* From its second try on a send has a connection; it opens another only when the
\* buffer of that one is full.
Retried ==
  \A t \in Threads :
    pc[t] # "idle" /\ call[t].op = "send" /\ call[t].try > 0 =>
      /\ call[t].id \in DOMAIN internalEndpoints
      /\ pc[t] \in {"open", "add"} => Full(internalEndpoints[call[t].id].buffer)

\* A connection stays, and once its buffer is full it stays full.
LEMMA FullStays ==
  ASSUME Typed, RemoteFits, [Next]_vars, NEW a \in Remote, a \in DOMAIN internalEndpoints
  PROVE  /\ a \in DOMAIN internalEndpoints'
         /\ Full(internalEndpoints[a].buffer) => Full(internalEndpoints'[a].buffer)
<1>1. CASE Kept(a)
  BY <1>1 DEF Kept
<1>2. CASE /\ a \in DOMAIN internalEndpoints'
           /\ internalEndpoints'[a] = [internalEndpoints[a] EXCEPT !.buffer = Put(@, Value)]
  <2>1. internalEndpoints[a] \in EndpointType
    BY DEF Typed, Parts, EndpointsTyped
  <2>2. internalEndpoints'[a].buffer = Put(internalEndpoints[a].buffer, Value)
    BY <1>2, <2>1 DEF EndpointType
  <2> QED
    BY <1>2, <2>2 DEF Put
<1> QED
  BY <1>1, <1>2, RemoteCases

\* Only the thread that moves has to be looked at.
LEMMA RetriedGoto ==
  ASSUME Typed, RemoteFits, Retried, [Next]_vars, NEW t \in Threads, NEW to, NEW c, Goto(t, to, c),
         to # "idle" /\ c.op = "send" /\ c.try > 0 =>
           /\ c.id \in DOMAIN internalEndpoints'
           /\ to \in {"open", "add"} => Full(internalEndpoints'[c.id].buffer)
  PROVE  Retried'
<1> SUFFICES ASSUME NEW u \in Threads, pc'[u] # "idle", call'[u].op = "send", call'[u].try > 0
             PROVE  /\ call'[u].id \in DOMAIN internalEndpoints'
                    /\ pc'[u] \in {"open", "add"} => Full(internalEndpoints'[call'[u].id].buffer)
  BY DEF Retried
<1>1. /\ pc'[u] = (IF u = t THEN to ELSE pc[u])
      /\ call'[u] = (IF u = t THEN c ELSE call[u])
  BY DEF Goto, Typed, Parts, CallsTyped
<1>2. CASE u = t
  BY <1>1, <1>2
<1>3. CASE u # t
  <2>1. call[u].id \in Remote
    BY <1>1, <1>3 DEF Typed, CallsFit, CallFits, Methods
  <2>2. /\ call[u].id \in DOMAIN internalEndpoints
        /\ pc[u] \in {"open", "add"} => Full(internalEndpoints[call[u].id].buffer)
    BY <1>1, <1>3 DEF Retried
  <2> QED
    BY <1>1, <1>3, <2>1, <2>2, FullStays
<1> QED
  BY <1>2, <1>3

LEMMA RetriedSame ==
  ASSUME Typed, RemoteFits, Retried, [Next]_vars, UNCHANGED <<pc, call>>
  PROVE  Retried'
<1> SUFFICES ASSUME NEW u \in Threads, pc[u] # "idle", call[u].op = "send", call[u].try > 0
             PROVE  /\ call[u].id \in DOMAIN internalEndpoints'
                    /\ pc[u] \in {"open", "add"} => Full(internalEndpoints'[call[u].id].buffer)
  BY DEF Retried
<1>1. call[u].id \in Remote
  BY DEF Typed, CallsFit, CallFits, Methods
<1> QED
  BY <1>1, FullStays DEF Retried

LEMMA RetriedReturn ==
  ASSUME Typed, RemoteFits, Retried, [Next]_vars, NEW t \in Threads, Return(t)
  PROVE  Retried'
BY RetriedGoto DEF Return

LEMMA RetriedSend ==
  ASSUME Typed, RemoteFits, Retried, [Next]_vars, NEW t \in Threads,
         Get(t) \/ TrySend(t) \/ Reopen(t) \/ Add(t)
  PROVE  Retried'
<1>1. CASE Get(t)
  <2>1. pc[t] = "get" /\ CallFits("get", call[t])
    BY <1>1 DEF Get, Typed, CallsFit
  <2>2. CASE call[t].op = "send"
    <3>1. call[t].id \in Remote
      BY <2>1, <2>2 DEF CallFits, Methods
    <3>2. call[t].try > 0 =>
            call[t].id \in DOMAIN internalEndpoints /\ call[t].id \in DOMAIN internalEndpoints'
      BY <2>1, <2>2, <3>1, FullStays DEF Retried
    <3>3. IF call[t].id \in DOMAIN internalEndpoints THEN Goto(t, "send", call[t])
          ELSE Goto(t, "open", call[t])
      BY <1>1, <2>2, <3>1, RemoteIsInternal DEF Get
    <3> QED
      BY <3>2, <3>3, RetriedGoto
  <2>3. CASE call[t].op # "send"
    <3>1. UNCHANGED <<pc, call>> \/ \E to : Goto(t, to, call[t])
      BY <1>1 DEF Get
    <3> QED
      BY <2>3, <3>1, RetriedGoto, RetriedSame
  <2> QED
    BY <2>2, <2>3
<1>2. CASE TrySend(t)
  <2>1. /\ call[t].id \in Remote /\ call[t].op = "send"
        /\ call[t].id \in DOMAIN internalEndpoints
    BY <1>2, WhoseCall, RemoteIsInternal DEF TrySend, At
  <2>2. /\ HasWrite(Ep(t)) => Goto(t, "append", call[t])
        /\ ~ HasWrite(Ep(t)) => Goto(t, "open", call[t])
    BY <1>2 DEF TrySend
  <2>3. ~ HasWrite(Ep(t)) => Full(internalEndpoints[call[t].id].buffer)
    BY <2>1, RemoteIsInternal DEF HasWrite, HandleHasWrite, Outputs, Ep, RemoteFits
  <2>4. /\ call[t].id \in DOMAIN internalEndpoints'
        /\ ~ HasWrite(Ep(t)) => Full(internalEndpoints'[call[t].id].buffer)
    BY <2>1, <2>3, FullStays
  <2> QED
    BY <2>2, <2>4, RetriedGoto
<1>3. CASE Reopen(t)
  <2>1. pc[t] = "open" /\ call[t].id \in Remote /\ call[t].op = "send" /\ call[t] \in CallType
    BY <1>3, WhoseCall DEF Reopen
  <2>2. call[t].try > 0 =>
          /\ call[t].id \in DOMAIN internalEndpoints'
          /\ Full(internalEndpoints'[call[t].id].buffer)
    BY <2>1, FullStays DEF Retried
  <2>3. PICK ep : Goto(t, "add", [call[t] EXCEPT !.ep = ep])
    BY <1>3 DEF Reopen
  <2>4. /\ [call[t] EXCEPT !.ep = ep].id = call[t].id
        /\ [call[t] EXCEPT !.ep = ep].try = call[t].try
    BY <2>1 DEF CallType
  <2> QED
    BY <2>2, <2>3, <2>4, RetriedGoto
<1>4. CASE Add(t)
  <2>1. CASE Return(t)
    BY <2>1, RetriedReturn
  <2>2. CASE ~ Return(t)
    <3> DEFINE c == [op |-> "send", id |-> call[t].id, try |-> call[t].try + 1, ep |-> NoEndpoint]
    <3>1. Goto(t, "get", c) /\ call[t].op = "send" /\ pc[t] = "add"
      BY <1>4, <2>2 DEF Add
    <3>2. call[t].id \in Remote
      BY <3>1 DEF Typed, CallsFit, CallFits, Methods
    <3>3. call[t].id \in DOMAIN internalEndpoints'
      BY <1>4, <3>2, RemoteIsInternal DEF Add, AddEndpoint, SetEndpoint, Updated, endpointVars
    <3> QED
      BY <3>1, <3>3, RetriedGoto
  <2> QED
    BY <2>1, <2>2
<1> QED
  BY <1>1, <1>2, <1>3, <1>4

LEMMA RetriedStep == ASSUME Typed, RemoteFits, Retried, [Next]_vars PROVE Retried'
<1>1. ASSUME NEW t \in Threads,
             \/ HasBuffered(t) \/ DoHasWrite(t) \/ DoRead(t) \/ DoWrite(t) \/ Remove(t)
             \/ AppendSent(t)
      PROVE  Retried'
  BY <1>1, RetriedReturn DEF HasBuffered, DoHasWrite, DoRead, DoWrite, Remove, AppendSent
<1>2. ASSUME NEW t \in Threads, CloseHandle(t) PROVE Retried'
  <2>1. call[t].op = "close" /\ Goto(t, "remove", call[t])
    BY <1>2, WhoseCall DEF CloseHandle, At, Methods
  <2> QED
    BY <2>1, RetriedGoto
<1>8. ASSUME NEW t \in Threads, HasReadHandle(t) PROVE Retried'
  <2>1. call[t].op = "hasRead"
    BY <1>8, WhoseCall DEF HasReadHandle, At, Methods
  <2>2. Return(t) \/ Goto(t, "hasBuffered", call[t])
    BY <1>8 DEF HasReadHandle
  <2> QED
    BY <2>1, <2>2, RetriedGoto, RetriedReturn
<1>3. ASSUME NEW t \in Threads, NEW to, NEW op, NEW id, NEW ep, Begin(t, to, op, id, ep)
      PROVE  Retried'
  BY <1>3, RetriedGoto DEF Begin
<1>4. ASSUME NEW t \in Threads, NEW id \in Ids, Open(t, id) \/ Look(t, id) PROVE Retried'
  BY <1>3, <1>4 DEF Open, Look
<1>5. ASSUME NEW t \in Threads, NEW a \in Deployed \cup Remote, Send(t, a) PROVE Retried'
  BY <1>3, <1>5 DEF Send
<1>6. ASSUME NEW t \in Threads,
             ConnectionCall(t) \/ \E a \in Deployed \cup Remote : ShortCircuit(t, a)
      PROVE  Retried'
  BY <1>6, RetriedSame
  DEF ConnectionCall, UseMaps, AddConnection, RemoveConnection, RemoveConnectionFrom,
      ClearConnections, ClearConnectionsOf, AskConnections, ShortCircuit
<1>7. CASE UNCHANGED vars
  BY <1>7, RetriedSame DEF vars
<1> QED
  BY <1>1, <1>2, <1>4, <1>5, <1>6, <1>7, <1>8, RetriedSend DEF Next, Step

\* A thread that leaves "add" for "idle" has added an endpoint, and one that leaves
\* "hasBuffered" has looked into the buffer.
LEMMA WhoReturns ==
  ASSUME Typed, [Next]_vars, NEW t \in Threads, pc[t] \in {"add", "hasBuffered"}, pc'[t] = "idle"
  PROVE  /\ pc[t] = "add" => Add(t)
         /\ pc[t] = "hasBuffered" => HasBuffered(t) /\ crashed' = (Ep(t).buffer = NoEndpoint)
<1>1. ASSUME NEW u \in Threads, NEW to, NEW c, Goto(u, to, c) PROVE u = t
  BY <1>1 DEF Goto, Typed, Parts, CallsTyped
<1>2. ASSUME NEW u \in Threads, Step(u) PROVE Add(t) \/ HasBuffered(t)
  <2>1. CASE Add(u)
    BY <1>1, <2>1 DEF Add, Return
  <2>2. CASE HasBuffered(u)
    BY <1>1, <2>2 DEF HasBuffered, Return
  <2>3. CASE ~ Add(u) /\ ~ HasBuffered(u)
    <3>1. pc[u] \notin {"add", "hasBuffered"}
      <4>1. ASSUME Get(u) PROVE pc[u] = "get"
        BY <4>1 DEF Get
      <4> QED
        BY <1>2, <2>3, <4>1
        DEF Step, HasReadHandle, DoHasWrite, DoRead, DoWrite, CloseHandle, Remove, TrySend,
            AppendSent, Reopen, At
    <3>2. UNCHANGED pc \/ \E to, c : Goto(u, to, c)
      BY <1>2, <2>3
      DEF Step, Get, HasReadHandle, DoHasWrite, DoRead, DoWrite, CloseHandle, Remove, TrySend,
          AppendSent, Reopen, Return
    <3> QED
      BY <1>1, <3>1, <3>2
  <2> QED
    BY <2>1, <2>2, <2>3
<1>3. ASSUME NEW u \in Threads, NEW to, NEW op, NEW id, NEW ep, Begin(u, to, op, id, ep) PROVE FALSE
  BY <1>1, <1>3 DEF Begin
<1>4. ASSUME NEW u \in Threads, NEW id \in Ids, Open(u, id) \/ Look(u, id) PROVE FALSE
  BY <1>3, <1>4 DEF Open, Look
<1>5. ASSUME NEW u \in Threads, NEW a \in Deployed \cup Remote, Send(u, a) PROVE FALSE
  BY <1>3, <1>5 DEF Send
<1>6. ASSUME NEW u \in Threads,
             ConnectionCall(u) \/ \E a \in Deployed \cup Remote : ShortCircuit(u, a)
      PROVE  FALSE
  BY <1>6
  DEF ConnectionCall, UseMaps, AddConnection, RemoveConnection, RemoveConnectionFrom,
      ClearConnections, ClearConnectionsOf, AskConnections, ShortCircuit
<1>7. Add(t) \/ HasBuffered(t)
  BY <1>2, <1>4, <1>5, <1>6 DEF Next, vars
<1> QED
  BY <1>7 DEF Add, HasBuffered, At

\* A send gives up only when the connection's buffer is full, however many threads
\* send and close, and whether or not it can connect.
THEOREM SendGivesUpWhenFull == Spec => GivesUpWhenFull
<1>1. Init => Retried
  BY DEF Init, Retried
<1>2. Typed /\ RemoteFits /\ Retried /\ [Next]_vars => Retried'
  BY RetriedStep
<1>3. ASSUME Typed, RemoteFits, Retried, [Next]_vars, NEW t \in Threads,
             call[t].op = "send", pc[t] = "add", pc'[t] = "idle"
      PROVE  Full(internalEndpoints'[call[t].id].buffer)
  <2>1. Add(t)
    BY <1>3, WhoReturns
  <2>2. call[t].id \in Remote /\ call[t].try \in Nat
    BY <1>3 DEF Typed, CallsFit, CallFits, Methods, Parts, CallsTyped, CallType
  <2>3. call[t].try + 1 >= Retries
    <3>1. CASE call[t].try + 1 < Retries
      BY <1>3, <2>1, <3>1 DEF Add, Goto, Typed, Parts, CallsTyped
    <3> QED
      BY <2>2, <3>1, ChannelAssumption
  <2>4. call[t].try > 0
    BY <2>2, <2>3, ChannelAssumption
  <2>5. call[t].id \in DOMAIN internalEndpoints /\ Full(internalEndpoints[call[t].id].buffer)
    BY <1>3, <2>4 DEF Retried
  <2> QED
    BY <1>3, <2>2, <2>5, FullStays
<1>4. Typed /\ RemoteFits /\ Retried /\ [Next]_vars =>
        [\A t \in Threads :
           (call[t].op = "send" /\ pc[t] = "add" /\ pc'[t] = "idle") =>
             Full(internalEndpoints'[call[t].id].buffer)]_vars
  BY <1>3
<1> QED
  BY AlwaysTyped, <1>1, <1>2, <1>4, PTL DEF Spec, GivesUpWhenFull

-----------------------------------------------------------------------------
(* When a poll says that there is something to read *)

\* hasRead would be false of the endpoint.
Silent(ep) == ep.buffer = NoEndpoint \/ Empty(ep.buffer) \/ ~ HandleHasRead(ep.handle)

\* A read leaves no stream that can still be read, so only doWrite makes an
\* endpoint speak.
SilentUntilWritten ==
  /\ \A id \in DOMAIN internalEndpoints : Silent(internalEndpoints[id]) \/ id \in written
  /\ \A id \in DOMAIN externalEndpoints : Silent(externalEndpoints[id]) \/ id \in written

LEMMA SilentKept ==
  ASSUME SilentUntilWritten, written \subseteq written', NEW id,
         \/ UNCHANGED endpointVars
         \/ RemoveEndpoint(id)
         \/ \E ep : (SetEndpoint(id, ep) \/ AddEndpoint(id, ep)) /\ (Silent(ep) \/ id \in written')
  PROVE  SilentUntilWritten'
<1>1. CASE UNCHANGED endpointVars
  BY <1>1 DEF SilentUntilWritten, endpointVars
<1>2. CASE RemoveEndpoint(id)
  BY <1>2 DEF SilentUntilWritten, RemoveEndpoint, Without
<1>3. ASSUME NEW ep, SetEndpoint(id, ep), Silent(ep) \/ id \in written' PROVE SilentUntilWritten'
  BY <1>3 DEF SilentUntilWritten, SetEndpoint, Updated
<1> QED
  BY <1>1, <1>2, <1>3 DEF AddEndpoint

LEMMA WrittenGrows == [Next]_vars => written \subseteq written'
BY DEF Next, Step, Add, Get, HasReadHandle, HasBuffered, DoHasWrite, DoRead, DoWrite, CloseHandle,
       Remove, TrySend, AppendSent, Reopen, Open, Look, ShortCircuit, Send, ConnectionCall, UseMaps,
       AddConnection, RemoveConnection, RemoveConnectionFrom, ClearConnections,
       ClearConnectionsOf, AskConnections, historyVars, vars

\* Whatever a new endpoint is for, there is nothing in its buffer.
LEMMA FreshIsSilent == ASSUME NEW ep, Fresh(ep) PROVE Silent(ep)
BY DEF Fresh, Silent, BufferOf, NewBuffer, Empty

\* Nothing can be read from what has been read or closed, nor from a connection.
LEMMA SilentAfter ==
  ASSUME NEW ep \in EndpointType, NEW b
  PROVE  /\ Silent([ep EXCEPT !.buffer = b, !.handle = AfterRead(@)])
         /\ Silent([ep EXCEPT !.handle = AfterClose(@)])
         /\ ep.handle.kind = "connection" => Silent([ep EXCEPT !.buffer = b])
BY DEF Silent, EndpointType, HandleType, AfterRead, AfterClose, HandleHasRead, Inputs, Streams

LEMMA SilentStep ==
  ASSUME Typed, RemoteFits, SilentUntilWritten, [Next]_vars
  PROVE  SilentUntilWritten'
<1>1. written \subseteq written'
  BY WrittenGrows
<1>2. ASSUME NEW t \in Threads, Add(t) PROVE SilentUntilWritten'
  <2>1. Fresh(call[t].ep)
    BY <1>2 DEF Add, Typed, CallsFit, CallFits, Methods
  <2> QED
    BY <1>1, <1>2, <2>1, FreshIsSilent, SilentKept DEF Add
<1>3. ASSUME NEW t \in Threads, DoRead(t) PROVE SilentUntilWritten'
  <2>1. Ep(t) \in EndpointType
    BY <1>3, EpTyped DEF DoRead, At, Typed, Parts
  <2>2. \/ UNCHANGED endpointVars
        \/ \E b : SetEndpoint(call[t].id, [Ep(t) EXCEPT !.buffer = b, !.handle = AfterRead(@)])
    BY <1>3 DEF DoRead
  <2> QED
    BY <1>1, <2>1, <2>2, SilentAfter, SilentKept
<1>4. ASSUME NEW t \in Threads, DoWrite(t) PROVE SilentUntilWritten'
  <2>1. call[t].id \in written'
    BY <1>4 DEF DoWrite
  <2>2. UNCHANGED endpointVars \/ \E ep : SetEndpoint(call[t].id, ep)
    BY <1>4 DEF DoWrite
  <2> QED
    BY <1>1, <2>1, <2>2, SilentKept
<1>5. ASSUME NEW t \in Threads, CloseHandle(t) PROVE SilentUntilWritten'
  <2>1. Ep(t) \in EndpointType
    BY <1>5, EpTyped DEF CloseHandle, At, Typed, Parts
  <2>2. SetEndpoint(call[t].id, [Ep(t) EXCEPT !.handle = AfterClose(@)])
    BY <1>5 DEF CloseHandle
  <2> QED
    BY <1>1, <2>1, <2>2, SilentAfter, SilentKept
<1>6. ASSUME NEW t \in Threads, Remove(t) PROVE SilentUntilWritten'
  BY <1>1, <1>6, SilentKept DEF Remove
<1>7. ASSUME NEW t \in Threads, AppendSent(t) PROVE SilentUntilWritten'
  <2>1. call[t].id \in Remote
    BY <1>7, WhoseCall DEF AppendSent, At
  <2>2. Ep(t) \in EndpointType /\ Ep(t).handle.kind = "connection"
    BY <1>7, <2>1, EpTyped, RemoteIsInternal DEF AppendSent, At, Ep, RemoteFits, Typed, Parts
  <2>3. SetEndpoint(call[t].id, [Ep(t) EXCEPT !.buffer = Put(@, Value)])
    BY <1>7 DEF AppendSent
  <2> QED
    BY <1>1, <2>2, <2>3, SilentAfter, SilentKept
<1>8. UNCHANGED endpointVars => SilentUntilWritten'
  BY <1>1, SilentKept
<1>9. ASSUME NEW t \in Threads,
             Get(t) \/ HasReadHandle(t) \/ HasBuffered(t) \/ DoHasWrite(t) \/ TrySend(t) \/ Reopen(t)
      PROVE  SilentUntilWritten'
  BY <1>8, <1>9 DEF Get, HasReadHandle, HasBuffered, DoHasWrite, TrySend, Reopen
<1>10. ASSUME NEW t \in Threads, \/ \E id \in Ids : Open(t, id) \/ Look(t, id)
                                 \/ \E a \in Deployed \cup Remote : ShortCircuit(t, a) \/ Send(t, a)
       PROVE  SilentUntilWritten'
  BY <1>8, <1>10 DEF Open, Look, ShortCircuit, Send
<1>11. ASSUME NEW t \in Threads, ConnectionCall(t) PROVE SilentUntilWritten'
  BY <1>8, <1>11
  DEF ConnectionCall, UseMaps, AddConnection, RemoveConnection, RemoveConnectionFrom,
      ClearConnections, ClearConnectionsOf, AskConnections
<1>12. CASE UNCHANGED vars
  BY <1>8, <1>12 DEF vars
<1> QED
  BY <1>2, <1>3, <1>4, <1>5, <1>6, <1>7, <1>9, <1>10, <1>11, <1>12 DEF Next, Step

\* There is nothing in the endpoint's buffer, or no buffer.
Void(b)    == b = NoEndpoint \/ Empty(b)
VoidAt(id) == id \in DOMAIN Endpoints(id) => Void(Endpoints(id)[id].buffer)

\* A stream that can be read was not read before, so a thread that has seen one has
\* an empty buffer to look into, unless another thread read the stream meanwhile.
PollSafe ==
  \A t \in Threads, id \in Ids :
    pc[t] = "hasBuffered" /\ call[t].id = id =>
      id \in written \/ t \in overtaken \/ VoidAt(id)

LEMMA VoidKept ==
  ASSUME NEW id, VoidAt(id), NEW at,
         \/ UNCHANGED endpointVars
         \/ RemoveEndpoint(at)
         \/ \E ep : (SetEndpoint(at, ep) \/ AddEndpoint(at, ep)) /\ (at # id \/ Void(ep.buffer))
  PROVE  VoidAt(id)'
<1>1. CASE UNCHANGED endpointVars
  BY <1>1 DEF VoidAt, Endpoints, endpointVars
<1>2. CASE RemoveEndpoint(at)
  BY <1>2 DEF VoidAt, Endpoints, RemoveEndpoint, Without
<1>3. ASSUME NEW ep, SetEndpoint(at, ep), at # id \/ Void(ep.buffer) PROVE VoidAt(id)'
  BY <1>3 DEF VoidAt, Endpoints, SetEndpoint, Updated, External
<1> QED
  BY <1>1, <1>2, <1>3 DEF AddEndpoint

\* A step of t disturbs nobody who polls an endpoint that stays as empty as it was.
LEMMA PollKept ==
  ASSUME Typed, PollSafe, [Next]_vars, NEW t \in Threads, NEW to, NEW c, Goto(t, to, c),
         to = "hasBuffered" => c.id \in written' \/ VoidAt(c.id)',
         overtaken \subseteq overtaken' \cup {t},
         \A u \in Threads, id \in Ids :
           pc[u] = "hasBuffered" /\ call[u].id = id /\ VoidAt(id) =>
             id \in written' \/ u \in overtaken' \/ VoidAt(id)'
  PROVE  PollSafe'
<1>1. \A u \in Threads : pc'[u] = (IF u = t THEN to ELSE pc[u])
                         /\ call'[u] = (IF u = t THEN c ELSE call[u])
  BY DEF Goto, Typed, Parts, CallsTyped
<1> SUFFICES ASSUME NEW u \in Threads, NEW id \in Ids, pc'[u] = "hasBuffered", call'[u].id = id
             PROVE  id \in written' \/ u \in overtaken' \/ VoidAt(id)'
  BY DEF PollSafe
<1>2. CASE u = t
  <2>1. c.id = id /\ to = "hasBuffered"
    BY <1>1, <1>2
  <2> QED
    BY <2>1
<1>3. CASE u # t
  <2>1. pc[u] = "hasBuffered" /\ call[u].id = id
    BY <1>1, <1>3
  <2>2. id \in written \/ u \in overtaken \/ VoidAt(id)
    BY <2>1 DEF PollSafe
  <2> QED
    BY <1>3, <2>1, <2>2, WrittenGrows
<1> QED
  BY <1>2, <1>3

\* Calls and endpoints as they are: nobody's poll is disturbed.
LEMMA PollSame ==
  ASSUME PollSafe, [Next]_vars, UNCHANGED <<pc, call, endpointVars>>, overtaken' = overtaken
  PROVE  PollSafe'
<1>1. ASSUME NEW id, VoidAt(id) PROVE VoidAt(id)'
  BY <1>1, VoidKept
<1> QED
  BY <1>1, WrittenGrows DEF PollSafe

LEMMA PollStep == ASSUME Typed, SilentUntilWritten, PollSafe, [Next]_vars PROVE PollSafe'
<1>1. ASSUME UNCHANGED endpointVars, NEW id, VoidAt(id) PROVE VoidAt(id)'
  BY <1>1, VoidKept
<1>2. ASSUME NEW t \in Threads, NEW to, NEW c, Goto(t, to, c), to # "hasBuffered",
             UNCHANGED endpointVars, overtaken \subseteq overtaken' \cup {t}
      PROVE  PollSafe'
  BY <1>1, <1>2, PollKept
<1>3. ASSUME NEW t \in Threads, HasReadHandle(t) PROVE PollSafe'
  <2>1. UNCHANGED endpointVars /\ overtaken' = overtaken
    BY <1>3 DEF HasReadHandle, historyVars
  <2>2. CASE HandleHasRead(Ep(t).handle)
    <3>1. PICK c : c = call[t]
      OBVIOUS
    <3>2. Goto(t, "hasBuffered", c)
      BY <1>3, <2>2, <3>1 DEF HasReadHandle
    <3>3. c.id \in written \/ VoidAt(c.id)
      BY <1>3, <2>2, <3>1
      DEF HasReadHandle, At, Ep, Endpoints, Silent, SilentUntilWritten, VoidAt, Void
    <3>4. c.id \in written' \/ VoidAt(c.id)'
      BY <1>1, <2>1, <3>3, WrittenGrows
    <3> QED
      BY <1>1, <2>1, <3>2, <3>4, PollKept
  <2>3. CASE ~ HandleHasRead(Ep(t).handle)
    BY <1>2, <1>3, <2>1, <2>3 DEF HasReadHandle, Return
  <2> QED
    BY <2>2, <2>3
<1>4. ASSUME NEW t \in Threads, HasBuffered(t) PROVE PollSafe'
  BY <1>2, <1>4 DEF HasBuffered, Return
<1>5. ASSUME NEW t \in Threads, NEW to, NEW c, Goto(t, to, c), to # "hasBuffered",
             overtaken \subseteq overtaken' \cup {t},
             NEW at, \/ UNCHANGED endpointVars
                     \/ RemoveEndpoint(at)
                     \/ \E ep : SetEndpoint(at, ep) \/ AddEndpoint(at, ep),
             \A u \in Threads : pc[u] = "hasBuffered" /\ call[u].id = at =>
               at \in written' \/ u \in overtaken' \/ (VoidAt(at) => VoidAt(at)')
      PROVE  PollSafe'
  <2>1. ASSUME NEW u \in Threads, NEW id \in Ids, pc[u] = "hasBuffered", call[u].id = id, VoidAt(id)
        PROVE  id \in written' \/ u \in overtaken' \/ VoidAt(id)'
    <3>1. CASE id = at
      BY <1>5, <2>1, <3>1
    <3>2. CASE id # at
      BY <1>5, <2>1, <3>2, VoidKept
    <3> QED
      BY <3>1, <3>2
  <2> QED
    BY <1>5, <2>1, PollKept
<1>6. ASSUME NEW t \in Threads, Add(t) PROVE PollSafe'
  <2>1. PICK at, ep : at = call[t].id /\ ep = call[t].ep
    OBVIOUS
  <2>2. Fresh(ep)
    BY <1>6, <2>1 DEF Add, Typed, CallsFit, CallFits, Methods
  <2>3. Void(ep.buffer)
    BY <2>2 DEF Fresh, BufferOf, NewBuffer, Empty, Void
  <2>4. AddEndpoint(at, ep) /\ overtaken' = overtaken
    BY <1>6, <2>1 DEF Add, historyVars
  <2>5. VoidAt(at) => VoidAt(at)'
    BY <2>3, <2>4, VoidKept
  <2>6. \E to \in {"get", "idle"} : \E c : Goto(t, to, c)
    BY <1>6 DEF Add, Return
  <2> QED
    BY <1>5, <2>4, <2>5, <2>6
<1>7. ASSUME NEW t \in Threads, DoRead(t) PROVE PollSafe'
  <2>1. PICK at : at = call[t].id
    OBVIOUS
  <2>2. \A u \in Threads : pc[u] = "hasBuffered" /\ call[u].id = at => u \in overtaken'
    BY <1>7, <2>1 DEF DoRead
  <2>3. /\ UNCHANGED endpointVars \/ \E ep : SetEndpoint(at, ep)
        /\ overtaken \subseteq overtaken' /\ Goto(t, "idle", Idle)
    BY <1>7, <2>1 DEF DoRead, Return
  <2> QED
    BY <1>5, <2>2, <2>3
<1>8. ASSUME NEW t \in Threads, DoWrite(t) PROVE PollSafe'
  <2>1. PICK at : at = call[t].id
    OBVIOUS
  <2>2. at \in written'
    BY <1>8, <2>1 DEF DoWrite
  <2>3. /\ UNCHANGED endpointVars \/ \E ep : SetEndpoint(at, ep)
        /\ overtaken' = overtaken /\ Goto(t, "idle", Idle)
    BY <1>8, <2>1 DEF DoWrite, Return
  <2> QED
    BY <1>5, <2>2, <2>3
<1>9. ASSUME NEW t \in Threads, CloseHandle(t) PROVE PollSafe'
  <2>1. PICK at, c, ep : at = call[t].id /\ c = call[t] /\ ep = Ep(t)
    OBVIOUS
  <2>2. ep \in EndpointType /\ at \in DOMAIN Endpoints(at) /\ ep = Endpoints(at)[at]
    BY <1>9, <2>1, EpTyped DEF CloseHandle, At, Typed, Parts, Ep
  <2>3. /\ SetEndpoint(at, [ep EXCEPT !.handle = AfterClose(@)])
        /\ overtaken' = overtaken /\ Goto(t, "remove", c)
    BY <1>9, <2>1 DEF CloseHandle
  <2>4. [ep EXCEPT !.handle = AfterClose(@)].buffer = ep.buffer
    BY <2>2 DEF EndpointType
  <2>5. VoidAt(at) => Void(ep.buffer)
    BY <2>2 DEF VoidAt
  <2>6. VoidAt(at) => VoidAt(at)'
    BY <2>3, <2>4, <2>5, VoidKept
  <2> QED
    BY <1>5, <2>3, <2>6
<1>10. ASSUME NEW t \in Threads, Remove(t) PROVE PollSafe'
  <2>1. PICK at : at = call[t].id
    OBVIOUS
  <2>2. RemoveEndpoint(at) /\ overtaken' = overtaken /\ Goto(t, "idle", Idle)
    BY <1>10, <2>1 DEF Remove, Return, historyVars
  <2>3. VoidAt(at) => VoidAt(at)'
    BY <2>2, VoidKept
  <2> QED
    BY <1>5, <2>2, <2>3
<1>11. ASSUME NEW t \in Threads, AppendSent(t) PROVE PollSafe'
  <2>1. PICK at : at = call[t].id
    OBVIOUS
  <2>2. /\ \E ep : SetEndpoint(at, ep)
        /\ overtaken' = overtaken /\ Goto(t, "idle", Idle)
    BY <1>11, <2>1 DEF AppendSent, Return, historyVars
  <2>3. at \notin Ids
    BY <1>11, <2>1, WhoseCall, RemoteIsInternal DEF AppendSent, At
  <2>4. \A u \in Threads : pc[u] = "hasBuffered" => call[u].id # at
    BY <2>3, WhoseCall
  <2> QED
    BY <1>5, <2>2, <2>4
<1>12. ASSUME NEW t \in Threads, Get(t) PROVE PollSafe'
  <2>1. UNCHANGED endpointVars /\ overtaken' = overtaken /\ call[t].op # "hasBuffered"
    BY <1>12 DEF Get, historyVars, Typed, CallsFit, CallFits, Methods
  <2>2. \/ UNCHANGED <<pc, call>>
        \/ \E to \in {call[t].op, "open", "remove"} : Goto(t, to, call[t])
    BY <1>12 DEF Get
  <2> QED
    BY <1>2, <2>1, <2>2, PollSame
<1>13. ASSUME NEW t \in Threads, DoHasWrite(t) \/ TrySend(t) \/ Reopen(t) PROVE PollSafe'
  <2>1. UNCHANGED endpointVars /\ overtaken' = overtaken
    BY <1>13 DEF DoHasWrite, TrySend, Reopen, historyVars
  <2>2. \E to \in {"idle", "append", "open", "add"} : \E c : Goto(t, to, c)
    BY <1>13 DEF DoHasWrite, TrySend, Reopen, Return
  <2> QED
    BY <1>2, <2>1, <2>2
<1>14. ASSUME NEW t \in Threads, \/ \E id \in Ids : Open(t, id) \/ Look(t, id)
                                 \/ \E a \in Deployed \cup Remote : Send(t, a)
       PROVE  PollSafe'
  <2>1. UNCHANGED endpointVars /\ overtaken' = overtaken
    BY <1>14 DEF Open, Look, Send, historyVars
  <2>2. \E to \in {"add", "get"} : \E c : Goto(t, to, c)
    BY <1>14 DEF Open, Look, Send, Begin
  <2> QED
    BY <1>2, <2>1, <2>2
<1>15. ASSUME NEW t \in Threads,
              ConnectionCall(t) \/ \E a \in Deployed \cup Remote : ShortCircuit(t, a)
       PROVE  PollSafe'
  <2>1. UNCHANGED <<pc, call, endpointVars>> /\ overtaken' = overtaken
    BY <1>15
    DEF ConnectionCall, UseMaps, AddConnection, RemoveConnection, RemoveConnectionFrom,
        ClearConnections, ClearConnectionsOf, AskConnections, ShortCircuit, historyVars
  <2> QED
    BY <2>1, PollSame
<1>16. CASE UNCHANGED vars
  BY <1>16, PollSame DEF vars, historyVars
<1> QED
  BY <1>3, <1>4, <1>6, <1>7, <1>8, <1>9, <1>10, <1>11, <1>12, <1>13, <1>14, <1>15, <1>16
  DEF Next, Step

\* A poll says yes of an endpoint that nothing was written to only when another
\* thread has read the endpoint between the poll's two questions, whatever streams
\* are opened, read and closed.
THEOREM PollsAreInVain == Spec => PollNeverReads
<1>1. Init => SilentUntilWritten /\ PollSafe
  <2>1. DOMAIN <<>> = {}
    OBVIOUS
  <2> QED
    BY <2>1 DEF Init, SilentUntilWritten, PollSafe
<1>2. Typed /\ RemoteFits /\ SilentUntilWritten /\ [Next]_vars => SilentUntilWritten'
  BY SilentStep
<1>3. Typed /\ SilentUntilWritten /\ PollSafe /\ [Next]_vars => PollSafe'
  BY PollStep
<1>4. ASSUME Typed, PollSafe, [Next]_vars, NEW t \in Threads, pc[t] = "hasBuffered",
             pc'[t] = "idle", ~ crashed', ~ Empty(Ep(t).buffer)
      PROVE  call[t].id \in written \/ t \in overtaken
  <2>1. HasBuffered(t) /\ crashed' = (Ep(t).buffer = NoEndpoint)
    BY <1>4, WhoReturns
  <2>2. call[t].id \in DOMAIN Endpoints(call[t].id)
    BY <2>1 DEF HasBuffered, At
  <2>3. ~ VoidAt(call[t].id) /\ call[t].id \in Ids
    BY <1>4, <2>1, <2>2, WhoseCall DEF VoidAt, Void, Ep
  <2> QED
    BY <1>4, <2>3 DEF PollSafe
<1>5. Typed /\ PollSafe /\ [Next]_vars =>
        [\A t \in Threads :
           (pc[t] = "hasBuffered" /\ pc'[t] = "idle" /\ ~ crashed' /\ ~ Empty(Ep(t).buffer)) =>
             call[t].id \in written \/ t \in overtaken]_vars
  BY <1>4
<1> QED
  BY AlwaysTyped, <1>1, <1>2, <1>3, <1>5, PTL DEF Spec, PollNeverReads
-----------------------------------------------------------------------------
(* Who has which socket *)

\* The places where a handle may be: the two maps of endpoints, the two maps of
\* connections, and the call of a thread that has yet to add its endpoint.
HoldsAt(k, i, h) ==
  \/ k = "internal" /\ i \in DOMAIN internalEndpoints /\ h = internalEndpoints[i].handle
  \/ k = "external" /\ i \in DOMAIN externalEndpoints /\ h = externalEndpoints[i].handle
  \/ k = "internalConnection" /\ i \in DOMAIN internalConnections /\ h = internalConnections[i]
  \/ k = "externalConnection" /\ i \in DOMAIN externalConnections /\ h = externalConnections[i]
  \/ k = "call" /\ i \in Threads /\ pc[i] = "add" /\ h = call[i].ep.handle

OpenSocket(h) == h.socket # NoSocket /\ ~ h.closed

\* Every handle is in one place, and as long as none was closed twice its socket,
\* if it is open, is its own.
OwnSocket ==
  /\ \A k, i, h : HoldsAt(k, i, h) => h.num <= handles
  /\ \A k, i, h, l, j, g :
       HoldsAt(k, i, h) /\ HoldsAt(l, j, g) /\ h.num = g.num => k = l /\ i = j
  /\ ~ closedTwice => \A k, i, h : HoldsAt(k, i, h) /\ OpenSocket(h) => owner[h.socket] = h.num

LEMMA HeldTyped ==
  ASSUME Typed, NEW k, NEW i, NEW h, HoldsAt(k, i, h)
  PROVE  h \in HandleType /\ h.num \in Nat \ {0} /\ (OpenSocket(h) => h.socket \in Sockets)
<1>1. h \in HandleType
  <2>1. CASE k = "internal" \/ k = "external"
    BY <2>1 DEF HoldsAt, Typed, Parts, EndpointsTyped, EndpointType
  <2>2. CASE k = "internalConnection" \/ k = "externalConnection"
    BY <2>2 DEF HoldsAt, Typed, Parts, ConnectionsTyped
  <2>3. CASE k = "call"
    BY <2>3 DEF HoldsAt, Typed, CallsFit, CallFits, Fresh, Methods, EndpointType
  <2> QED
    BY <2>1, <2>2, <2>3 DEF HoldsAt
<1> QED
  BY <1>1 DEF HandleType, OpenSocket

\* Handles stay where they are, or go; sockets of the open ones stay theirs.
LEMMA StaysOwn ==
  ASSUME OwnSocket, handles' = handles, closedTwice => closedTwice',
         \A k, i, h : HoldsAt(k, i, h)' =>
           \E g : /\ HoldsAt(k, i, g)
                  /\ h.num = g.num /\ h.socket = g.socket /\ (g.closed => h.closed)
                  /\ ~ closedTwice' /\ OpenSocket(h) => owner'[h.socket] = owner[h.socket]
  PROVE  OwnSocket'
<1>1. \A k, i, h : HoldsAt(k, i, h)' => h.num <= handles'
  BY DEF OwnSocket
<1>2. \A k, i, h, l, j, g :
        HoldsAt(k, i, h)' /\ HoldsAt(l, j, g)' /\ h.num = g.num => k = l /\ i = j
  BY DEF OwnSocket
<1>3. ASSUME ~ closedTwice', NEW k, NEW i, NEW h, HoldsAt(k, i, h)', OpenSocket(h)
      PROVE  owner'[h.socket] = h.num
  <2>1. PICK g : /\ HoldsAt(k, i, g)
                 /\ h.num = g.num /\ h.socket = g.socket /\ (g.closed => h.closed)
                 /\ owner'[h.socket] = owner[h.socket]
    BY <1>3
  <2>2. OpenSocket(g) /\ ~ closedTwice
    BY <1>3, <2>1 DEF OpenSocket
  <2> QED
    BY <2>1, <2>2 DEF OwnSocket
<1> QED
  BY <1>1, <1>2, <1>3 DEF OwnSocket

\* A handle is made, and put in a place of its own or dropped.
LEMMA MadeOwn ==
  ASSUME Typed, OwnSocket, handles' = handles + 1, UNCHANGED closedTwice, NEW k0, NEW i0, NEW h0,
         h0.num = handles + 1, OpenSocket(h0) => owner'[h0.socket] = handles + 1,
         \A s \in Sockets : owner[s] # 0 => owner'[s] = owner[s],
         \A k, i, h : HoldsAt(k, i, h)' => HoldsAt(k, i, h) \/ (k = k0 /\ i = i0 /\ h = h0)
  PROVE  OwnSocket'
<1>1. handles \in Nat
  BY DEF Typed, Parts, CountsTyped
<1>2. \A k, i, h : HoldsAt(k, i, h) => h.num \in Nat \ {0} /\ h.num <= handles
  BY HeldTyped DEF OwnSocket
<1>3. \A k, i, h : HoldsAt(k, i, h)' => h.num <= handles'
  BY <1>1, <1>2
<1>4. \A k, i, h, l, j, g :
        HoldsAt(k, i, h)' /\ HoldsAt(l, j, g)' /\ h.num = g.num => k = l /\ i = j
  <2> SUFFICES ASSUME NEW k, NEW i, NEW h, NEW l, NEW j, NEW g,
                      HoldsAt(k, i, h)', HoldsAt(l, j, g)', h.num = g.num
               PROVE  k = l /\ i = j
    OBVIOUS
  <2>1. CASE HoldsAt(k, i, h) /\ HoldsAt(l, j, g)
    BY <2>1 DEF OwnSocket
  <2>2. ASSUME NEW k1, NEW i1, NEW h1, HoldsAt(k1, i1, h1) PROVE h1.num # h0.num
    BY <1>1, <1>2, <2>2
  <2> QED
    BY <2>1, <2>2
<1>5. ASSUME ~ closedTwice', NEW k, NEW i, NEW h, HoldsAt(k, i, h)', OpenSocket(h)
      PROVE  owner'[h.socket] = h.num
  <2>1. CASE HoldsAt(k, i, h)
    <3>1. owner[h.socket] = h.num /\ h.num # 0 /\ h.socket \in Sockets
      BY <1>5, <2>1, HeldTyped DEF OwnSocket
    <3> QED
      BY <3>1
  <2>2. CASE h = h0
    BY <1>5, <2>2
  <2> QED
    BY <1>5, <2>1, <2>2
<1> QED
  BY <1>3, <1>4, <1>5 DEF OwnSocket

\* A thread that goes elsewhere than to "add" holds nothing, and the others what
\* they held.
LEMMA HeldByOthers ==
  ASSUME Typed, NEW t \in Threads, NEW to, NEW c, Goto(t, to, c), to # "add",
         NEW i, NEW h, HoldsAt("call", i, h)'
  PROVE  HoldsAt("call", i, h) /\ i # t
<1>1. /\ i \in Threads /\ pc'[i] = "add" /\ h = call'[i].ep.handle
  BY DEF HoldsAt
<1>2. /\ pc'[i] = (IF i = t THEN to ELSE pc[i])
      /\ call'[i] = (IF i = t THEN c ELSE call[i])
  BY <1>1 DEF Goto, Typed, Parts, CallsTyped
<1> QED
  BY <1>1, <1>2 DEF HoldsAt

\* What an update does to the handles in a map.
LEMMA HeldInMaps ==
  ASSUME NEW id, NEW ep, NEW k, NEW i, NEW h, HoldsAt(k, i, h)', k # "call",
         UNCHANGED connectionVars,
         UNCHANGED endpointVars \/ RemoveEndpoint(id) \/ SetEndpoint(id, ep) \/ AddEndpoint(id, ep)
  PROVE  \/ HoldsAt(k, i, h)
         \/ /\ ~ UNCHANGED endpointVars /\ ~ RemoveEndpoint(id)
            /\ k = (IF External(id) THEN "external" ELSE "internal") /\ i = id /\ h = ep.handle
<1>1. CASE UNCHANGED endpointVars
  BY <1>1 DEF HoldsAt, endpointVars, connectionVars
<1>2. CASE RemoveEndpoint(id)
  BY <1>2 DEF HoldsAt, RemoveEndpoint, Without, connectionVars
<1>3. CASE ~ UNCHANGED endpointVars /\ ~ RemoveEndpoint(id) /\ SetEndpoint(id, ep)
  <2>1. CASE External(id)
    BY <1>3, <2>1 DEF HoldsAt, SetEndpoint, Updated, connectionVars
  <2>2. CASE ~ External(id)
    BY <1>3, <2>2 DEF HoldsAt, SetEndpoint, Updated, connectionVars
  <2> QED
    BY <2>1, <2>2
<1> QED
  BY <1>1, <1>2, <1>3 DEF AddEndpoint

\* A handle goes from a call to one of the maps.
LEMMA AddOwn == ASSUME Typed, OwnSocket, NEW t \in Threads, Add(t) PROVE OwnSocket'
<1> DEFINE id == call[t].id
           ep == call[t].ep
<1>1. /\ handles' = handles /\ closedTwice' = closedTwice /\ owner' = owner
      /\ UNCHANGED connectionVars /\ AddEndpoint(id, ep)
  BY DEF Add, historyVars
<1>2. HoldsAt("call", t, ep.handle)
  BY DEF Add, HoldsAt
<1>3. \E to, c : Goto(t, to, c) /\ to # "add"
  BY DEF Add, Return
<1>4. ASSUME NEW k, NEW i, NEW h, HoldsAt(k, i, h)'
      PROVE  /\ ~ (k = "call" /\ i = t)
             /\ \/ HoldsAt(k, i, h)
                \/ /\ k = (IF External(id) THEN "external" ELSE "internal") /\ i = id
                   /\ HoldsAt("call", t, h)
  <2>1. CASE k = "call"
    BY <1>3, <1>4, <2>1, HeldByOthers
  <2>2. CASE k # "call"
    <3>1. \/ HoldsAt(k, i, h)
          \/ k = (IF External(id) THEN "external" ELSE "internal") /\ i = id /\ h = ep.handle
      BY <1>1, <1>4, <2>2, HeldInMaps
    <3> QED
      BY <1>2, <2>2, <3>1
  <2> QED
    BY <2>1, <2>2
<1>5. PICK k0, i0 : k0 = (IF External(id) THEN "external" ELSE "internal") /\ i0 = id
  OBVIOUS
<1>6. \A k, i, h : HoldsAt(k, i, h)' =>
        /\ ~ (k = "call" /\ i = t)
        /\ HoldsAt(k, i, h) \/ (k = k0 /\ i = i0 /\ HoldsAt("call", t, h))
  BY <1>4, <1>5
<1>7. \A k, i, h : HoldsAt(k, i, h)' => h.num <= handles'
  BY <1>1, <1>6 DEF OwnSocket
<1>8. \A k, i, h, l, j, g :
        HoldsAt(k, i, h)' /\ HoldsAt(l, j, g)' /\ h.num = g.num => k = l /\ i = j
  BY <1>6 DEF OwnSocket
<1>9. ~ closedTwice' =>
        \A k, i, h : HoldsAt(k, i, h)' /\ OpenSocket(h) => owner'[h.socket] = h.num
  BY <1>1, <1>6 DEF OwnSocket
<1> QED
  BY <1>7, <1>8, <1>9 DEF OwnSocket

\* A step that opens and closes nothing, and at most sets an endpoint whose handle
\* has the same socket.
LEMMA SetOwn ==
  ASSUME Typed, OwnSocket, NEW t \in Threads, NEW to, NEW c, Goto(t, to, c), to # "add",
         UNCHANGED <<handles, closedTwice, owner, connectionVars>>, NEW id, NEW ep,
         \/ UNCHANGED endpointVars
         \/ RemoveEndpoint(id)
         \/ /\ SetEndpoint(id, ep) /\ id \in DOMAIN Endpoints(id)
            /\ LET h == Endpoints(id)[id].handle IN
               ep.handle.num = h.num /\ ep.handle.socket = h.socket /\ ep.handle.closed = h.closed
  PROVE  OwnSocket'
<1> SUFFICES ASSUME NEW k, NEW i, NEW h, HoldsAt(k, i, h)'
             PROVE  \E g : HoldsAt(k, i, g) /\ h.num = g.num /\ h.socket = g.socket
                           /\ (g.closed => h.closed)
  BY StaysOwn
<1>1. CASE k = "call"
  BY <1>1, HeldByOthers
<1>2. CASE k # "call" /\ HoldsAt(k, i, h)
  BY <1>2
<1>3. CASE k # "call" /\ ~ HoldsAt(k, i, h)
  <2>1. /\ ~ UNCHANGED endpointVars /\ ~ RemoveEndpoint(id)
        /\ k = (IF External(id) THEN "external" ELSE "internal") /\ i = id /\ h = ep.handle
    BY <1>3, HeldInMaps DEF connectionVars
  <2>2. HoldsAt(k, i, Endpoints(id)[id].handle)
    BY <2>1 DEF HoldsAt, Endpoints
  <2> QED
    BY <2>1, <2>2
<1> QED
  BY <1>1, <1>2, <1>3

LEMMA CloseOwn == ASSUME Typed, OwnSocket, NEW t \in Threads, CloseHandle(t) PROVE OwnSocket'
<1> DEFINE id == call[t].id
           old == Ep(t).handle
<1>1. /\ handles' = handles /\ UNCHANGED connectionVars
      /\ owner' = Released(old.socket)
      /\ closedTwice' = (closedTwice \/ old.closed)
      /\ Goto(t, "remove", call[t])
  BY DEF CloseHandle
<1>2. id \in DOMAIN Endpoints(id) /\ Ep(t) = Endpoints(id)[id] /\ Ep(t) \in EndpointType
  BY EpTyped DEF CloseHandle, At, Ep, Typed, Parts
<1>3. PICK new : /\ SetEndpoint(id, new)
                 /\ new.handle.num = old.num /\ new.handle.socket = old.socket
                 /\ new.handle.closed
  <2>1. SetEndpoint(id, [Ep(t) EXCEPT !.handle = AfterClose(@)])
    BY DEF CloseHandle
  <2>2. LET h == [Ep(t) EXCEPT !.handle = AfterClose(@)].handle IN
        h.num = old.num /\ h.socket = old.socket /\ h.closed
    BY <1>2 DEF EndpointType, HandleType, AfterClose
  <2> QED
    BY <2>1, <2>2
<1>4. HoldsAt(IF External(id) THEN "external" ELSE "internal", id, old)
  BY <1>2 DEF HoldsAt, Endpoints
<1>5. ASSUME NEW k, NEW i, NEW h, HoldsAt(k, i, h)'
      PROVE  \E g : /\ HoldsAt(k, i, g)
                    /\ h.num = g.num /\ h.socket = g.socket /\ (g.closed => h.closed)
                    /\ ~ closedTwice' /\ OpenSocket(h) => owner'[h.socket] = owner[h.socket]
  <2>1. CASE HoldsAt(k, i, h)
    <3>1. ASSUME ~ closedTwice', OpenSocket(h) PROVE owner'[h.socket] = owner[h.socket]
      <4>1. ~ closedTwice /\ ~ old.closed
        BY <1>1, <3>1
      <4>2. CASE h.socket # old.socket
        BY <1>1, <4>2 DEF Released, Typed, Parts, CountsTyped
      <4>3. CASE h.socket = old.socket
        <5>1. owner[h.socket] = h.num /\ owner[old.socket] = old.num
          BY <1>4, <2>1, <3>1, <4>1, <4>3 DEF OwnSocket, OpenSocket
        <5>2. k = (IF External(id) THEN "external" ELSE "internal") /\ i = id
          BY <1>4, <2>1, <4>3, <5>1 DEF OwnSocket
        <5>3. h = new.handle
          <6>1. CASE External(id)
            BY <1>3, <1>5, <5>2, <6>1 DEF HoldsAt, SetEndpoint, Updated
          <6>2. CASE ~ External(id)
            BY <1>3, <1>5, <5>2, <6>2 DEF HoldsAt, SetEndpoint, Updated
          <6> QED
            BY <6>1, <6>2
        <5> QED
          BY <1>3, <3>1, <5>3 DEF OpenSocket
      <4> QED
        BY <4>2, <4>3
    <3> QED
      BY <2>1, <3>1
  <2>2. CASE ~ HoldsAt(k, i, h)
    <3>1. k # "call"
      BY <1>1, <1>5, <2>2, HeldByOthers
    <3>2. k = (IF External(id) THEN "external" ELSE "internal") /\ i = id /\ h = new.handle
      BY <1>1, <1>3, <1>5, <2>2, <3>1, HeldInMaps
    <3> QED
      BY <1>3, <1>4, <3>2 DEF OpenSocket
  <2> QED
    BY <2>1, <2>2
<1> QED
  BY <1>1, <1>5, StaysOwn

\* Reading and closing aside, a method leaves the sockets alone.
LEMMA MethodOwn ==
  ASSUME Typed, RemoteFits, OwnSocket, NEW t \in Threads,
         \/ Get(t) \/ HasReadHandle(t) \/ HasBuffered(t) \/ DoHasWrite(t) \/ DoRead(t)
         \/ DoWrite(t) \/ Remove(t) \/ TrySend(t) \/ AppendSent(t)
  PROVE  OwnSocket'
<1>1. UNCHANGED <<handles, closedTwice, owner, connectionVars>>
  BY DEF Get, HasReadHandle, HasBuffered, DoHasWrite, DoRead, DoWrite, Remove, TrySend, AppendSent,
         historyVars
<1>2. CASE Get(t)
  <2>1. pc[t] = "get" /\ call[t].op # "add" /\ UNCHANGED endpointVars
    BY <1>2 DEF Get, Typed, CallsFit, CallFits, Methods
  <2>2. \/ UNCHANGED <<pc, call>>
        \/ \E to \in {call[t].op, "open", "remove"} : Goto(t, to, call[t])
    BY <1>2 DEF Get
  <2>3. CASE UNCHANGED <<pc, call>>
    <3>1. \A k, i, h : HoldsAt(k, i, h)' => HoldsAt(k, i, h)
      BY <1>1, <2>1, <2>3 DEF HoldsAt, endpointVars, connectionVars
    <3> QED
      BY <1>1, <3>1, StaysOwn
  <2>4. CASE \E to \in {call[t].op, "open", "remove"} : Goto(t, to, call[t])
    BY <1>1, <2>1, <2>4, SetOwn
  <2> QED
    BY <2>2, <2>3, <2>4
<1>3. CASE TrySend(t)
  <2>1. UNCHANGED endpointVars /\ \E to \in {"append", "open"} : Goto(t, to, call[t])
    BY <1>3 DEF TrySend
  <2> QED
    BY <1>1, <2>1, SetOwn
<1>4. CASE HasReadHandle(t) \/ HasBuffered(t) \/ DoHasWrite(t) \/ Remove(t)
  <2>1. Goto(t, "idle", Idle) \/ Goto(t, "hasBuffered", call[t])
    BY <1>4 DEF HasReadHandle, HasBuffered, DoHasWrite, Remove, Return
  <2>2. UNCHANGED endpointVars \/ RemoveEndpoint(call[t].id)
    BY <1>4 DEF HasReadHandle, HasBuffered, DoHasWrite, Remove
  <2> QED
    BY <1>1, <2>1, <2>2, SetOwn
<1>5. CASE DoRead(t) \/ DoWrite(t) \/ AppendSent(t)
  <2>1. /\ Goto(t, "idle", Idle)
        /\ call[t].id \in DOMAIN Endpoints(call[t].id)
    BY <1>5 DEF DoRead, DoWrite, AppendSent, Return, At
  <2>2. Ep(t) \in EndpointType /\ Ep(t) = Endpoints(call[t].id)[call[t].id]
    BY <2>1, EpTyped DEF Ep, Typed, Parts
  <2>3. \/ UNCHANGED endpointVars
        \/ \E b : SetEndpoint(call[t].id, [Ep(t) EXCEPT !.buffer = b, !.handle = AfterRead(@)])
        \/ \E b : SetEndpoint(call[t].id, [Ep(t) EXCEPT !.buffer = b])
    BY <1>5 DEF DoRead, DoWrite, AppendSent
  <2>4. CASE UNCHANGED endpointVars
    BY <1>1, <2>1, <2>4, SetOwn
  <2>5. ASSUME NEW ep, SetEndpoint(call[t].id, ep), ep.handle.num = Ep(t).handle.num,
               ep.handle.socket = Ep(t).handle.socket, ep.handle.closed = Ep(t).handle.closed
        PROVE  OwnSocket'
    BY <1>1, <2>1, <2>2, <2>5, SetOwn
  <2>6. ASSUME NEW b
        PROVE  LET h == Ep(t).handle
                   r == [Ep(t) EXCEPT !.buffer = b, !.handle = AfterRead(@)].handle
                   w == [Ep(t) EXCEPT !.buffer = b].handle
               IN  /\ r.num = h.num /\ r.socket = h.socket /\ r.closed = h.closed
                   /\ w.num = h.num /\ w.socket = h.socket /\ w.closed = h.closed
    BY <2>2 DEF EndpointType, HandleType, AfterRead
  <2> QED
    BY <2>3, <2>4, <2>5, <2>6
<1> QED
  BY <1>2, <1>3, <1>4, <1>5

\* Opening, by a call of open or by a try of send.
LEMMA OpenOwn ==
  ASSUME Typed, OwnSocket, NEW t \in Threads, (\E id \in Ids : Open(t, id)) \/ Reopen(t)
  PROVE  OwnSocket'
<1>1. \E kind \in Kinds : \E made \in NewHandles(kind) : \E c :
        Goto(t, "add", c) /\ c.ep.handle = made.handle /\ owner' = made.owner
  <2>1. ASSUME NEW id \in Ids, Open(t, id)
        PROVE  \E kind \in Kinds : \E made \in NewHandles(kind) : \E c :
                 Goto(t, "add", c) /\ c.ep.handle = made.handle /\ owner' = made.owner
    <3>1. PICK kind \in Kinds : \E made \in NewHandles(kind) :
            /\ Begin(t, "add", "open", id, NewEndpoint(made.handle)) /\ owner' = made.owner
      BY <2>1 DEF Open, Kinds
    <3>2. PICK made \in NewHandles(kind) :
            /\ Begin(t, "add", "open", id, NewEndpoint(made.handle)) /\ owner' = made.owner
      BY <3>1
    <3> DEFINE c == [op |-> "open", id |-> id, try |-> 0, ep |-> NewEndpoint(made.handle)]
    <3>3. Goto(t, "add", c) /\ c.ep.handle = made.handle
      BY <3>2 DEF Begin, NewEndpoint
    <3> QED
      BY <3>2, <3>3
  <2>2. ASSUME Reopen(t)
        PROVE  \E kind \in Kinds : \E made \in NewHandles(kind) : \E c :
                 Goto(t, "add", c) /\ c.ep.handle = made.handle /\ owner' = made.owner
    <3>1. PICK made \in NewHandles("connection") :
            /\ Goto(t, "add", [call[t] EXCEPT !.ep = NewEndpoint(made.handle)])
            /\ owner' = made.owner
      BY <2>2 DEF Reopen
    <3>2. [call[t] EXCEPT !.ep = NewEndpoint(made.handle)].ep.handle = made.handle
      BY WhoseCall DEF CallType, NewEndpoint
    <3>3. "connection" \in Kinds
      BY DEF Kinds
    <3> QED
      BY <3>1, <3>2, <3>3
  <2> QED
    BY <2>1, <2>2
<1>2. PICK kind \in Kinds : \E made \in NewHandles(kind) : \E c :
        Goto(t, "add", c) /\ c.ep.handle = made.handle /\ owner' = made.owner
  BY <1>1
<1>2a. PICK made \in NewHandles(kind) : \E c :
        Goto(t, "add", c) /\ c.ep.handle = made.handle /\ owner' = made.owner
  BY <1>2
<1>3. PICK c : Goto(t, "add", c) /\ c.ep.handle = made.handle /\ owner' = made.owner
  BY <1>2a
<1>4. /\ handles' = handles + 1 /\ closedTwice' = closedTwice
      /\ UNCHANGED endpointVars /\ UNCHANGED connectionVars
  BY DEF Open, Reopen, historyVars
<1>5. /\ made.handle.num = handles + 1
      /\ OpenSocket(made.handle) => owner'[made.handle.socket] = handles + 1
      /\ \A s \in Sockets : owner[s] # 0 => owner'[s] = owner[s]
  BY <1>3, HandleMade DEF OpenSocket, Typed, Parts, CountsTyped
<1>6. ASSUME NEW k, NEW i, NEW h, HoldsAt(k, i, h)'
      PROVE  HoldsAt(k, i, h) \/ (k = "call" /\ i = t /\ h = made.handle)
  <2>1. CASE k = "call"
    <3>1. /\ i \in Threads /\ pc'[i] = "add" /\ h = call'[i].ep.handle
      BY <1>6, <2>1 DEF HoldsAt
    <3>2. /\ pc'[i] = (IF i = t THEN "add" ELSE pc[i])
          /\ call'[i] = (IF i = t THEN c ELSE call[i])
      BY <1>3, <3>1 DEF Goto, Typed, Parts, CallsTyped
    <3> QED
      BY <1>3, <2>1, <3>1, <3>2 DEF HoldsAt
  <2>2. CASE k # "call"
    BY <1>4, <1>6, <2>2 DEF HoldsAt, endpointVars, connectionVars
  <2> QED
    BY <2>1, <2>2
<1> QED
  BY <1>4, <1>5, <1>6, MadeOwn

LEMMA ConnectionCallOwn ==
  ASSUME Typed, OwnSocket, NEW t \in Threads, ConnectionCall(t)
  PROVE  OwnSocket'
<1>1. UNCHANGED <<pc, call>> /\ UNCHANGED endpointVars /\ closedTwice' = closedTwice
  BY DEF ConnectionCall, UseMaps, AddConnection, RemoveConnection, RemoveConnectionFrom,
         ClearConnections, ClearConnectionsOf, AskConnections, historyVars
<1>2. ASSUME NEW a, NEW int \in BOOLEAN, NEW made \in NewHandles("connection"),
             owner' = made.owner, handles' = handles + 1,
             \/ UNCHANGED connectionVars
             \/ Connect(int, Updated(Connections(int), a, made.handle))
      PROVE  OwnSocket'
  <2>1. /\ made.handle.num = handles + 1
        /\ OpenSocket(made.handle) => owner'[made.handle.socket] = handles + 1
        /\ \A s \in Sockets : owner[s] # 0 => owner'[s] = owner[s]
    BY <1>2, HandleMade DEF OpenSocket, Typed, Parts, CountsTyped, Kinds
  <2>2. PICK k0 : k0 = IF int THEN "internalConnection" ELSE "externalConnection"
    OBVIOUS
  <2>3. ASSUME NEW k, NEW i, NEW h, HoldsAt(k, i, h)'
        PROVE  HoldsAt(k, i, h) \/ (k = k0 /\ i = a /\ h = made.handle)
    <3>1. CASE UNCHANGED connectionVars
      BY <1>1, <2>3, <3>1 DEF HoldsAt, endpointVars, connectionVars
    <3>2. CASE int /\ Connect(int, Updated(Connections(int), a, made.handle))
      BY <1>1, <2>2, <2>3, <3>2 DEF HoldsAt, endpointVars, Connect, Connections, Updated
    <3>3. CASE ~ int /\ Connect(int, Updated(Connections(int), a, made.handle))
      BY <1>1, <2>2, <2>3, <3>3 DEF HoldsAt, endpointVars, Connect, Connections, Updated
    <3> QED
      BY <1>2, <3>1, <3>2, <3>3
  <2> QED
    BY <1>1, <1>2, <2>1, <2>3, MadeOwn
<1>3. ASSUME owner' = owner, handles' = handles,
             \A k, i, h : HoldsAt(k, i, h)' => HoldsAt(k, i, h)
      PROVE  OwnSocket'
  BY <1>1, <1>3, StaysOwn
<1>4. ASSUME NEW a \in Remote, NEW int \in BOOLEAN, AddConnection(t, a, int) PROVE OwnSocket'
  BY <1>2, <1>4 DEF AddConnection
<1>5. ASSUME NEW int \in BOOLEAN,
             \/ UNCHANGED connectionVars
             \/ \E a : Connect(int, Without(Connections(int), a))
             \/ Connect(int, <<>>)
             \/ internalConnections' = <<>> /\ externalConnections' = <<>>
      PROVE  \A k, i, h : HoldsAt(k, i, h)' => HoldsAt(k, i, h)
  <2>1. DOMAIN <<>> = {}
    OBVIOUS
  <2>2. CASE UNCHANGED connectionVars
    BY <1>1, <2>2 DEF HoldsAt, endpointVars, connectionVars
  <2>3. ASSUME NEW a, Connect(int, Without(Connections(int), a))
        PROVE  \A k, i, h : HoldsAt(k, i, h)' => HoldsAt(k, i, h)
    <3>1. CASE int
      BY <1>1, <2>3, <3>1 DEF HoldsAt, endpointVars, Connect, Connections, Without
    <3>2. CASE ~ int
      BY <1>1, <2>3, <3>2 DEF HoldsAt, endpointVars, Connect, Connections, Without
    <3> QED
      BY <3>1, <3>2
  <2>4. CASE Connect(int, <<>>)
    BY <1>1, <2>1, <2>4 DEF HoldsAt, endpointVars, Connect
  <2>5. CASE internalConnections' = <<>> /\ externalConnections' = <<>>
    BY <1>1, <2>1, <2>5 DEF HoldsAt, endpointVars
  <2> QED
    BY <1>5, <2>2, <2>3, <2>4, <2>5
<1>6. ASSUME NEW a \in Remote, RemoveConnection(t, a) PROVE OwnSocket'
  <2>1. UNCHANGED connectionVars \/ Connect(TRUE, Without(Connections(TRUE), a))
    BY <1>6 DEF RemoveConnection, MapForAddress
  <2> QED
    BY <1>3, <1>5, <1>6, <2>1 DEF RemoveConnection
<1>7. ASSUME NEW a \in Remote, NEW int \in BOOLEAN, RemoveConnectionFrom(t, a, int) PROVE OwnSocket'
  <2>1. UNCHANGED connectionVars \/ Connect(int, Without(Connections(int), a))
    BY <1>7 DEF RemoveConnectionFrom
  <2> QED
    BY <1>3, <1>5, <1>7, <2>1 DEF RemoveConnectionFrom
<1>8. CASE ClearConnections(t)
  <2>1. \/ UNCHANGED connectionVars
        \/ internalConnections' = <<>> /\ externalConnections' = <<>>
    BY <1>8 DEF ClearConnections
  <2> QED
    BY <1>3, <1>5, <1>8, <2>1 DEF ClearConnections
<1>9. ASSUME NEW int \in BOOLEAN, ClearConnectionsOf(t, int) \/ AskConnections(t, int)
      PROVE  OwnSocket'
  <2>1. UNCHANGED connectionVars \/ Connect(int, <<>>)
    BY <1>9 DEF ClearConnectionsOf, AskConnections
  <2> QED
    BY <1>3, <1>5, <1>9, <2>1 DEF ClearConnectionsOf, AskConnections
<1> QED
  BY <1>4, <1>6, <1>7, <1>8, <1>9 DEF ConnectionCall

LEMMA OwnStep == ASSUME Typed, RemoteFits, OwnSocket, [Next]_vars PROVE OwnSocket'
<1>1. ASSUME NEW t \in Threads, Step(t) PROVE OwnSocket'
  BY <1>1, AddOwn, CloseOwn, MethodOwn, OpenOwn DEF Step
<1>2. ASSUME NEW t \in Threads, NEW id \in Ids, Open(t, id) PROVE OwnSocket'
  BY <1>2, OpenOwn
<1>3. ASSUME NEW t \in Threads, NEW op, NEW id, Begin(t, "get", op, id, NoEndpoint),
             UNCHANGED <<handles, closedTwice, owner, connectionVars>>, UNCHANGED endpointVars
      PROVE  OwnSocket'
  BY <1>3, SetOwn DEF Begin
<1>4. ASSUME NEW t \in Threads, NEW id \in Ids, Look(t, id) PROVE OwnSocket'
  BY <1>3, <1>4 DEF Look, historyVars
<1>5. ASSUME NEW t \in Threads, NEW a \in Deployed \cup Remote, Send(t, a) PROVE OwnSocket'
  BY <1>3, <1>5 DEF Send, historyVars
<1>6. ASSUME UNCHANGED <<pc, call, handles, closedTwice, owner, endpointVars, connectionVars>>
      PROVE  OwnSocket'
  <2>1. \A k, i, h : HoldsAt(k, i, h)' => HoldsAt(k, i, h)
    BY <1>6 DEF HoldsAt, endpointVars, connectionVars
  <2> QED
    BY <1>6, <2>1, StaysOwn
<1>7. ASSUME NEW t \in Threads, NEW a \in Deployed \cup Remote, ShortCircuit(t, a) PROVE OwnSocket'
  BY <1>6, <1>7 DEF ShortCircuit, historyVars
<1>8. CASE UNCHANGED vars
  BY <1>6, <1>8 DEF vars, historyVars
<1> QED
  BY <1>1, <1>2, <1>4, <1>5, <1>7, <1>8, ConnectionCallOwn DEF Next

\* Until a handle is closed twice, every open handle of the maps has its socket to
\* itself, however descriptors are used again, for any number of them.
THEOREM SocketsStayApart == Spec => []SocketsApart
<1>1. Init => OwnSocket
  <2>1. DOMAIN <<>> = {}
    OBVIOUS
  <2>2. Init => \A k, i, h : ~ HoldsAt(k, i, h)
    BY <2>1 DEF Init, HoldsAt
  <2> QED
    BY <2>2 DEF OwnSocket
<1>2. Typed /\ RemoteFits /\ OwnSocket /\ [Next]_vars => OwnSocket'
  BY OwnStep
<1>3. ASSUME Typed, OwnSocket PROVE SocketsApart
  <2>1. ASSUME NEW id \in DOMAIN internalEndpoints \cup DOMAIN externalEndpoints
        PROVE  HoldsAt(IF External(id) THEN "external" ELSE "internal", id, Endpoints(id)[id].handle)
    BY <1>3, ChannelAssumption DEF HoldsAt, Endpoints, External, Typed, Parts, EndpointsTyped
  <2>2. ASSUME NEW int \in BOOLEAN, NEW a \in DOMAIN Connections(int)
        PROVE  HoldsAt(IF int THEN "internalConnection" ELSE "externalConnection", a, Connections(int)[a])
    BY DEF HoldsAt, Connections
  <2>3. ASSUME ~ closedTwice, NEW k, NEW i, NEW h, HoldsAt(k, i, h), h.socket # NoSocket, ~ h.closed
        PROVE  owner[h.socket] = h.num
    BY <1>3, <2>3 DEF OwnSocket, OpenSocket
  <2> QED
    BY <2>1, <2>2, <2>3 DEF SocketsApart
<1> QED
  BY AlwaysTyped, <1>1, <1>2, <1>3, PTL DEF Spec
==============================================================================
