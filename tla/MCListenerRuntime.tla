-------------------------- MODULE MCListenerRuntime --------------------------
(***************************************************************************)
(* Small instances of ListenerRuntime.                                     *)
(***************************************************************************)
EXTENDS ListenerRuntime, TLC

CONSTANTS a1, a2, tick, tock, lost, c1, c2, acc, n1, n2

\* Two peers are deployed.
MCPeers      == <<a1, a2>>
MCTriggerIds == <<tick, tock>>

MCOwner == [c \in Connections |-> acc]

\* An Asio listener of either sort, or two Nanomsg listeners.
Setup(v, i, k, n) == [valid |-> v, internal |-> i, kind |-> k, bound |-> n]
MCSetups == {Setup({acc}, {acc}, "SinglePeerQueue", 3),
             Setup({acc}, {}, "SinglePeerQueue", 2),
             Setup({n1, n2}, {n1, n2}, "MultiPeerQueue", 2),
             Setup({n1, n2}, {n1}, "MultiTriggerQueue", 2)}

\* One Nanomsg listener and one queue.
SingleSetup == {Setup({n1}, {n1}, "SinglePeerQueue", 2)}

\* A trigger that the program knows, and one that no dispatch table has.
OneTarget    == {<<a1, tick>>}
SomeTargets  == {<<a1, tick>>, <<a2, lost>>}
MCSubscribed == <<<<a1, tick>>>>
==============================================================================
