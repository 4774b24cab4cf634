---------------------------- MODULE MessageQueues ----------------------------
(***************************************************************************)
(* The message queues of the C++ runtime (runtime/cpp/Queue.hpp): one      *)
(* queue, a queue per peer, or a queue per peer and trigger.  A container  *)
(* is a function from keys to sequences of entries; it has no lock, each   *)
(* of its queues is lock-free, so choosing a queue and popping from it are *)
(* two steps of the caller.                                                *)
(***************************************************************************)
EXTENDS Integers, Sequences

CONSTANTS
  Peers,       \* the deployed addresses, in the order of the map
  TriggerIds,  \* the names of the triggers, in the order of the map
  NoQueue      \* the null shared_ptr<Queue>

ASSUME QueueAssumption ==
  /\ Peers \in Seq({Peers[i] : i \in DOMAIN Peers}) /\ Peers # <<>>
  /\ TriggerIds \in Seq({TriggerIds[i] : i \in DOMAIN TriggerIds})

QueueKinds == {"SinglePeerQueue", "MultiPeerQueue", "MultiTriggerQueue"}

\* The keys of a container, in the order of the map.
Keys(kind) ==
  CASE kind = "SinglePeerQueue"   -> <<Peers[1]>>
    [] kind = "MultiPeerQueue"    -> Peers
    [] kind = "MultiTriggerQueue" ->
         LET n == Len(TriggerIds)
         IN  [i \in 1 .. Len(Peers) * n |->
                <<Peers[((i - 1) \div n) + 1], TriggerIds[((i - 1) % n) + 1]>>]

KeyOf(kind, m) == IF kind = "MultiTriggerQueue" THEN <<m.addr, m.id>> ELSE m.addr

NewQueues(kind) == [k \in {Keys(kind)[i] : i \in 1 .. Len(Keys(kind))} |-> <<>>]

ValidTarget(kind, qs, m) == KeyOf(kind, m) \in DOMAIN qs

\* Fault, used in no specification: the newest message goes first.
PushedInFront(kind, qs, m) ==
  IF ValidTarget(kind, qs, m) THEN [qs EXCEPT ![KeyOf(kind, m)] = <<m>> \o @] ELSE qs

\* Fault: the map grows a queue for every message.
EnqueuedAnywhere(kind, qs, m) ==
  [k \in DOMAIN qs \cup {KeyOf(kind, m)} |->
     (IF k \in DOMAIN qs THEN qs[k] ELSE <<>>) \o (IF k = KeyOf(kind, m) THEN <<m>> ELSE <<>>)]

\* enqueue: a message for an unknown target is logged and dropped.  A queue holds
\* what its key does not say of a message; dequeue puts the two together again.
Enqueued(kind, qs, m) ==
  IF ValidTarget(kind, qs, m) THEN [qs EXCEPT ![KeyOf(kind, m)] = Append(@, m)] ELSE qs

\* nonEmptyQueue of SinglePeerQueue looks at its queue.  Those of the other two
\* look for the first queue for which empty() holds.
NonEmptyQueue(kind, qs) ==
  LET suits == {i \in 1 .. Len(Keys(kind)) :
                  (qs[Keys(kind)[i]] = <<>>) = (kind # "SinglePeerQueue")}
  IN  IF suits = {} THEN NoQueue
      ELSE Keys(kind)[CHOOSE i \in suits : \A j \in suits : i <= j]

\* What pop leaves behind.
Popped(qs, k) == [qs EXCEPT ![k] = Tail(@)]

AllEmpty(qs) == \A k \in DOMAIN qs : qs[k] = <<>>
==============================================================================
