----------------------------- MODULE Quiescence -----------------------------
(***************************************************************************)
(* What a message loop promises, without its threads, counters and locks:  *)
(* messages wait in the queue they are routed to, in order; a worker       *)
(* handles one message of its own queues at a time; and workers retire     *)
(* only when they were asked to stop, when they failed, or when the whole  *)
(* engine is out of work.  Nobody is waited for who only says farewell: a  *)
(* source that has left and a program that has finished may still send     *)
(* farewells, and these need not be taken.                                 *)
(***************************************************************************)
EXTENDS Sequences

CONSTANTS Workers, Queues, Group, Msgs, NoMsg, Route,
          Sources,   \* who may send messages other than the workers
          Farewells  \* messages that say that somebody has left

VARIABLES
  queue,           \* the messages waiting in each queue
  current,         \* the message each worker is handling, or NoMsg
  retired,         \* has the worker stopped for good?
  active,          \* sources that may still send
  stopping         \* has somebody asked the engine to stop?

vars == <<queue, current, retired, active, stopping>>

OutOfWork ==
  /\ active = {}
  /\ \A q \in Queues : queue[q] \in Seq(Farewells)
  /\ \A w \in Workers : current[w] = NoMsg

Init ==
  /\ queue = [q \in Queues |-> <<>>]
  /\ current = [w \in Workers |-> NoMsg]
  /\ retired = [w \in Workers |-> FALSE]
  /\ active = Sources
  /\ stopping = FALSE

\* A source or the handler of a message sends m, or somebody says farewell.
Post(m) ==
  /\ \/ active # {}
     \/ \E w \in Workers : current[w] # NoMsg
     \/ m \in Farewells
  /\ queue' = [queue EXCEPT ![Route[m]] = Append(@, m)]
  /\ UNCHANGED <<current, retired, active, stopping>>

\* Sources leave for good.
Withdraw(s) ==
  /\ active' = active \ {s}
  /\ UNCHANGED <<queue, current, retired, stopping>>

Take(w, q) ==
  /\ ~ retired[w] /\ current[w] = NoMsg
  /\ queue[q] # <<>>
  /\ current' = [current EXCEPT ![w] = Head(queue[q])]
  /\ queue' = [queue EXCEPT ![q] = Tail(@)]
  /\ UNCHANGED <<retired, active, stopping>>

\* The message has been handled; the worker may fail in doing so.
Complete(w) ==
  /\ current[w] # NoMsg
  /\ current' = [current EXCEPT ![w] = NoMsg]
  /\ retired' \in {retired, [retired EXCEPT ![w] = TRUE]}
  /\ UNCHANGED <<queue, active, stopping>>

AskToStop ==
  /\ stopping' = TRUE
  /\ UNCHANGED <<queue, current, retired, active>>

Retire(w) ==
  /\ current[w] = NoMsg
  /\ stopping \/ OutOfWork
  /\ retired' = [retired EXCEPT ![w] = TRUE]
  /\ UNCHANGED <<queue, current, active, stopping>>

Next ==
  \/ \E m \in Msgs : Post(m)
  \/ \E s \in Sources : Withdraw(s)
  \/ \E w \in Workers :
       \/ \E i \in DOMAIN Group[w] : Take(w, Group[w][i])
       \/ Complete(w) \/ Retire(w)
  \/ AskToStop

Spec == Init /\ [][Next]_vars
=============================================================================
