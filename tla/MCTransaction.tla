--------------------------- MODULE MCTransaction ---------------------------
(* Scenarios for Transaction.  Peers are 1..3, transactions 11.., data      *)
(* messages 21.., anchors 31.., remote handles 41..; each scenario picks    *)
(* the addresses so that both outcomes of every comparison occur.           *)
EXTENDS Transaction, TLC

(* Three concurrent sends: 13 multicasts from peer 1 to 2 and, twice, to 3, *)
(* 12 from peer 2 to itself and 3, 11 is a unicast of peer 3 to itself.     *)
(* The addresses order the messages of 12 and 13 differently on 2 and 3.    *)
SendPeer == {1, 2, 3}
SendTx == {11, 12, 13}
SendData == {21, 22, 23, 24, 25, 26}
SendAnchor == {31, 32}
SendDest == 21 :> 2 @@ 22 :> 3 @@ 23 :> 2 @@ 24 :> 3 @@ 25 :> 3 @@ 26 :> 3
            @@ 31 :> 2 @@ 32 :> 3
SendTarget == [n \in SendData |-> IF SendDest[n] = 2 THEN 31 ELSE 32]
SendCarries == [n \in SendData |-> NULL]
SendOrigin == 11 :> 3 @@ 12 :> 2 @@ 13 :> 1
SendKind == [t \in SendTx |-> "send"]
SendSends == 11 :> {25} @@ 12 :> {22, 23} @@ 13 :> {21, 24, 26}
SendDestroys == [t \in SendTx |-> {}]
NoRemote == [r \in {} |-> NULL]
NoReleases == [p \in Peer |-> 0]
OneRelease == [p \in Peer |-> 2]

(* The unicast 13 completes before the unicast 11 begins, while 12, sent to  *)
(* both of their receivers, is still staging.                               *)
OrderPeer == {1, 2, 3, 4, 5}
OrderData == {21, 22, 23, 24}
OrderDest == 21 :> 2 @@ 22 :> 3 @@ 23 :> 2 @@ 24 :> 3 @@ 31 :> 2 @@ 32 :> 3
OrderTarget == [n \in OrderData |-> IF OrderDest[n] = 2 THEN 31 ELSE 32]
OrderCarries == [n \in OrderData |-> NULL]
OrderOrigin == 11 :> 4 @@ 12 :> 1 @@ 13 :> 5
OrderSends == 11 :> {22} @@ 12 :> {23, 24} @@ 13 :> {21}

(* Peer 1 destroys its node 31, of which peer 2 holds the handle 41.  Peer  *)
(* 2 concurrently sends to the node, and sends peer 3 a handle to it, 42.   *)
DestroyTx == {11, 12}
DestroyData == {21, 44}
DestroyAnchor == {31, 33}
DestroyRemote == {41, 42}
DestroyDest == 21 :> 3 @@ 44 :> 1 @@ 31 :> 1 @@ 33 :> 3
               @@ 41 :> 2 @@ 42 :> 3
DestroyNodeOf == 41 :> 31 @@ 42 :> 31
DestroyTarget == 21 :> 33 @@ 44 :> 31
DestroyCarries == 21 :> 42 @@ 44 :> NULL
DestroyOrigin == 11 :> 1 @@ 12 :> 2
DestroyKind == 11 :> "destroy" @@ 12 :> "send"
DestroySends == 11 :> {} @@ 12 :> {21, 44}
DestroyDestroys == 11 :> {31} @@ 12 :> {}

(* The same, with the owner dropping its own handle to the node, and up to  *)
(* two release notifications of the node before that.                       *)
ReleaseKind == 11 :> "destroy_release" @@ 12 :> "send"
OwnerReleases == [p \in Peer |-> IF p = 1 THEN 4 ELSE 0]

(* Peer 1 destroys its nodes 31 and 32 at once.  Peer 3 holds the handle 43 *)
(* to node 32, and peer 2 sends it a handle to node 31, 42.                 *)
PairAnchor == {31, 32, 33}
PairRemote == {41, 42, 43}
PairDest == 21 :> 3 @@ 44 :> 1 @@ 31 :> 1 @@ 32 :> 1 @@ 33 :> 3
            @@ 41 :> 2 @@ 42 :> 3 @@ 43 :> 3
PairNodeOf == 41 :> 31 @@ 42 :> 31 @@ 43 :> 32
PairDestroys == 11 :> {31, 32} @@ 12 :> {}

(* Peer 1 resets itself while messages from peers 2 and 3 to its node 31    *)
(* are in flight, and creates another node, 32, to which peer 3 sends.      *)
ResetTx == {11, 12, 13, 14}
ResetData == {21, 22, 23}
ResetAnchor == {31, 32}
ResetDest == 21 :> 1 @@ 22 :> 1 @@ 23 :> 1 @@ 31 :> 1 @@ 32 :> 1
ResetTarget == 21 :> 31 @@ 22 :> 31 @@ 23 :> 32
ResetCarries == [n \in ResetData |-> NULL]
ResetOrigin == 11 :> 3 @@ 12 :> 1 @@ 13 :> 2 @@ 14 :> 3
ResetKind == 11 :> "send" @@ 12 :> "reset" @@ 13 :> "send" @@ 14 :> "send"
ResetSends == 11 :> {21} @@ 12 :> {} @@ 13 :> {22} @@ 14 :> {23}
ResetDestroys == [t \in ResetTx |-> {}]

=============================================================================
