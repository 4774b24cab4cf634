--------------------------- MODULE EndpointBuffers ---------------------------
(***************************************************************************)
(* The four buffers of an endpoint in the C++ runtime                      *)
(* (runtime/cpp/Endpoint.hpp).  A buffer is a record: its class, the first *)
(* component of its BufferSpec and what it holds.  The MT classes hold a   *)
(* mutex throughout a call, so a call is one step; the ST classes are used *)
(* by one thread.  Otherwise the two scalar classes do the same, and so do *)
(* the two containers but for refresh.                                     *)
(***************************************************************************)
EXTENDS Integers, Sequences

CONSTANT NoValue  \* the null shared_ptr<Value>

Scalars    == {"ScalarEPBufferST", "ScalarEPBufferMT"}
Containers == {"ContainerEPBufferST", "ContainerEPBufferMT"}

Buffers(V) == [class : Scalars \cup Containers, max : Int, contents : Seq(V)]

NewBuffer(class, max) == [class |-> class, max |-> max, contents |-> <<>>]

IsContainer(b) == b.class \in Containers

Empty(b) == b.contents = <<>>

\* Fault: the maximum of a container is taken for the last index.
FullOffByOne(b) ==
  \/ ~ IsContainer(b) /\ ~ Empty(b)
  \/ IsContainer(b) /\ b.max > 0 /\ Len(b.contents) > b.max

\* A container is bounded only when the maximum is positive.
Full(b) ==
  \/ ~ IsContainer(b) /\ ~ Empty(b)
  \/ IsContainer(b) /\ b.max > 0 /\ Len(b.contents) = b.max

\* Fault, used in no specification: append does not look whether there is room.
PutAnyway(b, v) == [b EXCEPT !.contents = Append(@, v)]

\* append: the value is handed back when there is no room for it.
Put(b, v) == IF Full(b) THEN b ELSE [b EXCEPT !.contents = Append(@, v)]

\* enqueue hands everything over and leaves the buffer empty.
Drained(b) == [b EXCEPT !.contents = <<>>]

\* The batch is as large as the buffer: batchSize reads bufferMaxSize.
BatchSize(b) == IF b.max <= 0 THEN 1 ELSE b.max

BatchAvailable(b) == Len(b.contents) >= BatchSize(b)

\* What flush writes to the handle, and what it leaves: a scalar keeps its value.
Written(b) ==
  IF ~ IsContainer(b) THEN b.contents
  ELSE IF BatchAvailable(b) THEN SubSeq(b.contents, 1, BatchSize(b)) ELSE <<>>

Flushed(b) ==
  IF IsContainer(b) /\ BatchAvailable(b)
  THEN [b EXCEPT !.contents = SubSeq(@, BatchSize(b) + 1, Len(@))]
  ELSE b

\* refresh returns the oldest value, takes it out of a container only, and
\* then puts the value v read from the handle into the buffer, if there is one;
\* a scalar's value is overwritten.
Oldest(b) == IF Empty(b) THEN NoValue ELSE Head(b.contents)

\* Fault: the value read is put in first, so that a full buffer refuses it.
RefreshedPutFirst(b, v) ==
  LET full == IF v = NoValue THEN b ELSE Put(b, v)
  IN  IF IsContainer(b)
      THEN [full EXCEPT !.contents = IF b.contents = <<>> THEN @ ELSE Tail(@)]
      ELSE IF v = NoValue THEN b ELSE [b EXCEPT !.contents = <<v>>]

\* Fault: what the handle returns is put in without a look whether it is a value.
RefreshedUnchecked(b, v) ==
  IF IsContainer(b)
  THEN Put(IF Empty(b) THEN b ELSE [b EXCEPT !.contents = Tail(@)], v)
  ELSE [b EXCEPT !.contents = <<v>>]

Refreshed(b, v) ==
  IF IsContainer(b)
  THEN LET rest == IF Empty(b) THEN b ELSE [b EXCEPT !.contents = Tail(@)]
       IN  IF v = NoValue THEN rest ELSE Put(rest, v)
  ELSE IF v = NoValue THEN b ELSE [b EXCEPT !.contents = <<v>>]
==============================================================================
