------------------------------- MODULE MCUser -------------------------------
(* Two peers, of one uid or of two, and three calls: one may free a user     *)
(* while another looks it up and the third holds a message.  Two messages    *)
(* exhaust the budget of a user, one the lower limit of a peer.              *)
EXTENDS User, TLC

MCLimit == {1, 2}

\* The values have no order and no role of their own.
Symmetry == Permutations(Call) \cup Permutations(Peer) \cup Permutations(Object)
=============================================================================
