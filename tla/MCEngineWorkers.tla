--------------------------- MODULE MCEngineWorkers ---------------------------
(***************************************************************************)
(* Small instances of EngineWorkers.                                       *)
(***************************************************************************)
EXTENDS EngineWorkers, TLC

CONSTANTS w1, w2, w3, l1, l2, q1, q2, q3, m1, m2, m3, m4

\* The queue configurations peerQSingleW and peerQPeerW, for two peers and three.
SingleGroup == w1 :> <<q1, q2>>
PeerGroups  == w1 :> <<q1>> @@ w2 :> <<q2>>
ThreeGroups == PeerGroups @@ w3 :> <<q3>>

MCMsgs  == {m1, m2, m3, m4}
MCRoute == m1 :> q1 @@ m2 :> q2 @@ m3 :> q1 @@ m4 :> q2

\* A program of two peers, each of which sends to itself and to the other, up
\* to two messages from one handler, and stops sending after at most four hops.
MCSends == m1 :> {<<m3>>, <<m4, m3>>} @@ m2 :> {<<>>, <<m3, m3>>, <<m4, m1>>}
             @@ m3 :> {<<>>, <<m4>>} @@ m4 :> {<<>>}
MCInitSends == {<<>>, <<m1>>, <<m2, m1>>}

\* Three peers: the first sends to the third while the second sends to itself.
ThreeRoute == m1 :> q1 @@ m2 :> q2 @@ m3 :> q3 @@ m4 :> q2
ThreeSends == m1 :> {<<m3>>} @@ m2 :> {<<m4>>} @@ m3 :> {<<>>} @@ m4 :> {<<>>}
ThreeInitSends == {<<m1, m2>>}

\* Two peers that send once more each, possibly to the other.
BriefSends == m1 :> {<<m3>>, <<m4, m3>>} @@ m2 :> {<<>>, <<m4>>}
                @@ m3 :> {<<>>} @@ m4 :> {<<>>}

OneMessage == {<<m1>>}
Silent     == {<<>>}
Farewell   == {<<>>, <<m4>>}

\* Of two sources one has a subscriber, which m4 tells that it is closed.
NoCloseSends == [l \in Listeners |-> {<<>>}]
MCCloseSends == l1 :> {<<>>} @@ l2 :> {<<m4>>}

\* Two peers, to whom only a closed endpoint sends m4.
NetSends == m1 :> {<<>>} @@ m2 :> {<<m3>>} @@ m3 :> {<<>>} @@ m4 :> {<<m3>>}
=============================================================================
