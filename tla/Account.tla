------------------------------ MODULE Account ------------------------------
(* What the accounting of ipc/bus1/user.c promises: every peer belongs to    *)
(* the account of one uid, all peers of a uid share its budget, and a charge *)
(* is granted in one step, only if it fits both the peer's limit and the     *)
(* budget.  A charge may be refused at any time.                             *)
EXTENDS Integers, Functions

CONSTANTS Uid, Peer, Call, NULL,
          MaxUser,     \* the budget of an account
          Limit,       \* the limits a peer may set for itself
          Amount       \* the charges

VARIABLES owner,   \* peer -> its uid, NULL while it does not exist
          limit,   \* peer -> its own limit
          granted  \* call -> the charge it holds, with its peer

vars == <<owner, limit, granted>>

NoCharge == [peer |-> NULL, charge |-> 0]

\* The charges held on the peers of S
Used(S) ==
  SumFunction([c \in Call |-> IF granted[c].peer \in S THEN granted[c].charge ELSE 0])

Init ==
  /\ owner = [p \in Peer |-> NULL] /\ limit = [p \in Peer |-> 0]
  /\ granted = [c \in Call |-> NoCharge]

\* A limit below what is in use stops further charges and takes nothing back.
Open(p, uid) ==
  /\ owner[p] = NULL /\ owner' = [owner EXCEPT ![p] = uid]
  /\ limit' = [limit EXCEPT ![p] = MaxUser] /\ UNCHANGED granted

SetLimit(p, l) ==
  /\ owner[p] # NULL /\ limit' = [limit EXCEPT ![p] = l]
  /\ UNCHANGED <<owner, granted>>

Close(p) ==
  /\ owner[p] # NULL /\ \A c \in Call : granted[c].peer # p
  /\ owner' = [owner EXCEPT ![p] = NULL] /\ limit' = [limit EXCEPT ![p] = 0]
  /\ UNCHANGED granted

Grant(c, p, k) ==
  /\ granted[c] = NoCharge /\ owner[p] # NULL
  /\ Used({p}) + k <= limit[p]
  /\ Used({q \in Peer : owner[q] = owner[p]}) + k <= MaxUser
  /\ granted' = [granted EXCEPT ![c] = [peer |-> p, charge |-> k]]
  /\ UNCHANGED <<owner, limit>>

Return(c) ==
  /\ granted[c] # NoCharge /\ granted' = [granted EXCEPT ![c] = NoCharge]
  /\ UNCHANGED <<owner, limit>>

Next ==
  \/ \E p \in Peer :
       \/ \E uid \in Uid : Open(p, uid)
       \/ \E l \in Limit : SetLimit(p, l)
       \/ \E c \in Call, k \in Amount : Grant(c, p, k)
       \/ Close(p)
  \/ \E c \in Call : Return(c)

Spec == Init /\ [][Next]_vars
=============================================================================
