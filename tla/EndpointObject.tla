---------------------------- MODULE EndpointObject ----------------------------
(***************************************************************************)
(* One endpoint of the C++ runtime: a buffer, a handle and the             *)
(* notification bindings, under any sequence of the calls that its classes *)
(* offer.  What the handle returns is the environment's choice.            *)
(***************************************************************************)
EXTENDS EndpointBuffers, SequencesExt

CONSTANTS
  Values,       \* what is read, written and enqueued
  MaxSizes,     \* the maximum sizes a BufferSpec may name
  Attachable,   \* the notifications that are subscribed to
  Subscribers,  \* messages that may be attached to a notification
  MaxHistory,   \* bound: values accepted, and values delivered
  MaxAttached   \* bound: subscriptions to one notification

\* NullEvent stands for no notification.
Notifications == {"NullEvent", "FileData", "SocketData", "FileClose", "SocketClose", "SocketAccept"}

ASSUME ValueAssumption ==
  /\ NoValue \notin Values
  /\ Attachable \subseteq Notifications
  /\ MaxSizes \subseteq Int

VARIABLES
  buf,          \* buffer_
  isFile,       \* handle_->builtin() || handle_->file()
  subs,         \* eventSubscriptions: the list of subscribers of each notification
  told,         \* the subscribers the last notifyEvent sent to
  \* history
  accepted,     \* values that entered the buffer
  delivered,    \* values that a call took out of it or showed
  attached      \* who has asked for a notification and has not asked to stop

vars == <<buf, isFile, subs, told, accepted, delivered, attached>>

Init ==
  /\ \E c \in Scalars \cup Containers, m \in MaxSizes : buf = NewBuffer(c, m)
  /\ isFile \in BOOLEAN
  /\ subs = [nt \in Notifications |-> <<>>]
  /\ attached = [nt \in Notifications |-> {}]
  /\ told = <<>>
  /\ accepted = <<>> /\ delivered = <<>>

DataEvent == IF isFile THEN "FileData" ELSE "SocketData"

-----------------------------------------------------------------------------
(* Faults: variants with a plausible bug, used in no specification. *)

\* What a read finds replaces what the buffer holds, which is not shown.
DoReadOverwrites(v) ==
  /\ Len(accepted) < MaxHistory /\ v # NoValue
  /\ buf' = [buf EXCEPT !.contents = <<v>>]
  /\ accepted' = Append(accepted, v)
  /\ told' = subs[DataEvent]
  /\ UNCHANGED <<isFile, subs, delivered, attached>>

\* Only the first matching subscription is removed.
DetachFirst(nt, s) ==
  /\ subs' = [subs EXCEPT ![nt] = IF s \in ToSet(@) THEN ReplaceFirstSubSeq(<<>>, <<s>>, @) ELSE @]
  /\ attached' = [attached EXCEPT ![nt] = @ \ {s}]
  /\ UNCHANGED <<buf, isFile, told, accepted, delivered>>

-----------------------------------------------------------------------------
(* Endpoint::doWrite: the value is appended to the buffer and not flushed. *)
DoWrite(v) ==
  /\ Len(accepted) < MaxHistory
  /\ buf' = Put(buf, v)
  /\ accepted' = IF Full(buf) THEN accepted ELSE Append(accepted, v)
  /\ UNCHANGED <<isFile, subs, told, delivered, attached>>

\* A container refresh of the ST class leaves nt uninitialized when the handle
\* returned nothing.
Reported(v) ==
  IF v # NoValue THEN {DataEvent}
  ELSE IF buf.class = "ContainerEPBufferST" THEN Notifications
  ELSE {"NullEvent"}

(* Endpoint::doRead: refresh with what the handle returns, then notify. *)
DoRead(v) ==
  /\ Len(accepted) < MaxHistory /\ Len(delivered) < MaxHistory
  /\ buf' = Refreshed(buf, v)
  /\ delivered' = IF Empty(buf) THEN delivered ELSE Append(delivered, Oldest(buf))
  /\ accepted' = IF v = NoValue THEN accepted ELSE Append(accepted, v)
  /\ \E nt \in Reported(v) : told' = subs[nt]
  /\ UNCHANGED <<isFile, subs, attached>>

(* EndpointBuffer::enqueue, called by the processor of an internal listener. *)
Enqueue ==
  /\ Len(delivered) + Len(buf.contents) <= MaxHistory
  /\ delivered' = delivered \o buf.contents
  /\ buf' = Drained(buf)
  /\ UNCHANGED <<isFile, subs, told, accepted, attached>>

(* EndpointBuffer::flush. *)
Flush ==
  /\ Len(delivered) + Len(buf.contents) <= MaxHistory
  /\ delivered' = delivered \o Written(buf)
  /\ buf' = Flushed(buf)
  /\ UNCHANGED <<isFile, subs, told, accepted, attached>>

(* EndpointBindings. *)
AttachNotifier(nt, s) ==
  /\ Len(subs[nt]) < MaxAttached
  /\ subs' = [subs EXCEPT ![nt] = Append(@, s)]
  /\ attached' = [attached EXCEPT ![nt] = @ \cup {s}]
  /\ UNCHANGED <<buf, isFile, told, accepted, delivered>>

\* remove_if: every element equal to s goes, the others stay in their order, so
\* that the n-th one left is the kept one with n kept ones up to it.
Without(list, s) ==
  LET kept    == {i \in DOMAIN list : list[i] # s}
      Rank(i) == Cardinality({j \in kept : j <= i})
  IN  [n \in 1 .. Cardinality(kept) |-> list[CHOOSE i \in kept : Rank(i) = n]]

DetachNotifier(nt, s) ==
  /\ subs' = [subs EXCEPT ![nt] = Without(@, s)]
  /\ attached' = [attached EXCEPT ![nt] = @ \ {s}]
  /\ UNCHANGED <<buf, isFile, told, accepted, delivered>>

Next ==
  \/ \E v \in Values : DoWrite(v)
  \/ \E v \in Values \cup {NoValue} : DoRead(v)
  \/ Enqueue
  \/ Flush
  \/ \E nt \in Attachable, s \in Subscribers :
       \/ AttachNotifier(nt, s)
       \/ DetachNotifier(nt, s)

Spec == Init /\ [][Next]_vars

-----------------------------------------------------------------------------
DataTypeOK ==
  /\ buf \in Buffers(Values)
  /\ isFile \in BOOLEAN
  /\ accepted \in Seq(Values)
  /\ delivered \in Seq(Values)

BindingsTypeOK ==
  /\ subs \in [Notifications -> Seq(Subscribers)]
  /\ told \in Seq(Subscribers)
  /\ attached \in [Notifications -> SUBSET Subscribers]

\* Every variable has its type.
TypeOK == DataTypeOK /\ BindingsTypeOK

\* A container delivers each value it accepted exactly once, in order, whatever
\* mix of reads, writes, flushes and transfers to the queues there is: flush
\* takes a batch as large as the buffer and refresh pops before it appends.
ContainerIsFifo ==
  IsContainer(buf) => accepted = delivered \o buf.contents

\* A bounded buffer never holds more than its bound, although refresh ignores
\* the result of its append.
Bounded ==
  /\ ~ IsContainer(buf) => Len(buf.contents) <= 1
  /\ IsContainer(buf) /\ buf.max > 0 => Len(buf.contents) <= buf.max

\* A scalar buffer may deliver a value again and again, as flush does not empty
\* it and a refresh without input does not either, but no accepted value is
\* overwritten before it has been delivered.
ScalarLosesNothing ==
  ~ IsContainer(buf) => ToSet(accepted) \subseteq ToSet(delivered) \cup ToSet(buf.contents)

\* The lists of subscribers, duplicates and all, agree with who asked to be
\* told and has not been detached since.
SubscribersMatch ==
  \A nt \in Notifications : ToSet(subs[nt]) = attached[nt]

F == INSTANCE BoundedFifo WITH bound <- buf.max

\* A container implements the bounded queue: every call is one of its steps.
ImplementsFifo ==
  /\ IsContainer(buf) => F!Init
  /\ [][IsContainer(buf) => [F!Next]_<<accepted, delivered, buf.max>>]_vars
==============================================================================
