------------------------------- MODULE User -------------------------------
(* ipc/bus1/user.c: the objects that account for all peers of a uid, found  *)
(* and freed under RCU and bus1_user_lock, and the charges on the counters   *)
(* of a user and of a peer.  Every atomic operation is a step.               *)
(*                                                                           *)
(* The resource is the slice: a message is charged one in n_slices when it   *)
(* is built and keeps the charge until it is freed.  The charges of handles  *)
(* move from a message to a peer when it is received, and are the subject of *)
(* Handle.  Nothing charges the other two resources.                         *)
(*                                                                           *)
(* A call creates or frees a peer, or is a SEND that charges a destination   *)
(* and leaves a message behind, which holds the charge and a reference to    *)
(* the sender's user until it is freed.                                      *)
EXTENDS Integers, FiniteSets, Functions

CONSTANTS Uid, Object, Peer, Call, NULL,
          MaxUser,  \* bus1_user_max_slices
          Limit     \* the values of max_slices PEER_RESET may set

ASSUME UserAssumption ==
  /\ NULL \notin Object \cup Peer \cup Uid \cup Call
  /\ IsFiniteSet(Peer) /\ IsFiniteSet(Call)
  /\ MaxUser \in Nat /\ Limit \subseteq Nat

VARIABLES
  bus1_user_idr,  \* uid -> the object to be found, or NULL
  user,           \* object -> ref, uid and n_slices of its limits, n
  allocated,      \* objects that are not freed
  bus1_user_lock, \* the call that holds the mutex across steps, or NULL
  peer,           \* peer -> user, n_slices and max_slices of its limits
  call,           \* call -> where it is, and its local variables
  warned          \* bus1_user_limits_deinit() found a wrong counter

vars == <<bus1_user_idr, user, allocated, bus1_user_lock, peer, call, warned>>

Idle == [pc |-> "idle", uid |-> NULL, user |-> NULL, peer |-> NULL, by |-> NULL,
         charge |-> 0]

Live == {p \in Peer : peer[p].user # NULL}

UserState == [ref : Nat, uid : Uid \cup {NULL}, n : Int]
PeerState == [user : Object \cup {NULL}, n : Int, max : Nat]
CallState ==
  [pc : {"idle", "get", "slow", "new", "global", "local", "revert", "charged",
         "message", "discharge", "unref", "put", "free"},
   uid : Uid \cup {NULL}, user : Object \cup {NULL}, peer : Peer \cup {NULL},
   by : Peer \cup {NULL}, charge : Nat]

TypeOK ==
  /\ bus1_user_idr \in [Uid -> Object \cup {NULL}]
  /\ user \in [Object -> UserState]
  /\ allocated \subseteq Object
  /\ bus1_user_lock \in Call \cup {NULL}
  /\ peer \in [Peer -> PeerState]
  /\ call \in [Call -> CallState]
  /\ warned \in BOOLEAN

Init ==
  /\ bus1_user_idr = [i \in Uid |-> NULL]
  /\ user = [u \in Object |-> [ref |-> 0, uid |-> NULL, n |-> 0]]
  /\ allocated = {} /\ bus1_user_lock = NULL
  /\ peer = [p \in Peer |-> [user |-> NULL, n |-> 0, max |-> 0]]
  /\ call = [c \in Call |-> Idle]
  /\ warned = FALSE

\* The call goes on at pc.
Goto(c, pc) == call' = [call EXCEPT ![c].pc = pc]
Return(c) == call' = [call EXCEPT ![c] = Idle]

\* kref_get() and a decrement of the reference count
KrefGet(u) == user' = [user EXCEPT ![u].ref = @ + 1]
KrefDec(u) == user' = [user EXCEPT ![u].ref = @ - 1]

\* bus1_atomic_add_if_ge() subtracts a charge if the counter covers it.
Covers(v, charge) == v >= charge

---------------------------------------------------------------------------
(* bus1_user_ref_by_uid() and bus1_peer_new() *)

\* bus1_peer_new() of p begins; idr_find() inside rcu_read_lock().
RefByUid(c, p, uid) ==
  /\ call[c].pc = "idle" /\ p \notin Live
  /\ \A d \in Call : call[d].peer # p
  /\ call' = [call EXCEPT ![c] = [Idle EXCEPT !.pc = "get", !.uid = uid,
                !.peer = p, !.user = bus1_user_idr[uid]]]
  /\ UNCHANGED <<bus1_user_idr, user, allocated, bus1_user_lock, peer, warned>>

\* Faulty: the fast path takes a reference without looking at the count.
RefFastUnchecked(c) ==
  LET u == call[c].user
  IN  /\ call[c].pc = "get"
      /\ IF u # NULL
         THEN KrefGet(u) /\ Goto(c, "new")
         ELSE /\ call' = [call EXCEPT ![c].pc = "slow", ![c].user = NULL]
              /\ UNCHANGED user
      /\ UNCHANGED <<bus1_user_idr, allocated, bus1_user_lock, peer, warned>>

\* The fast path: kref_get_unless_zero() on the object that was found.
RefFast(c) ==
  LET u == call[c].user
  IN  /\ call[c].pc = "get"
      /\ IF u # NULL /\ user[u].ref > 0
         THEN KrefGet(u) /\ Goto(c, "new")
         ELSE /\ call' = [call EXCEPT ![c].pc = "slow", ![c].user = NULL]
              /\ UNCHANGED user
      /\ UNCHANGED <<bus1_user_idr, allocated, bus1_user_lock, peer, warned>>

\* bus1_user_new(): memory that kfree_rcu() got back is not handed out again
\* while a reader that found the old object is in its critical section.
UserNew(c, u) ==
  /\ u \notin allocated
  /\ \A d \in Call : call[d].pc = "get" => call[d].user # u
  /\ allocated' = allocated \cup {u}
  /\ user' = [user EXCEPT ![u] = [ref |-> 1, uid |-> call[c].uid, n |-> MaxUser]]
  /\ bus1_user_idr' = [bus1_user_idr EXCEPT ![call[c].uid] = u]
  /\ call' = [call EXCEPT ![c].pc = "new", ![c].user = u]

\* The slow path, under bus1_user_lock: look again, or create the object,
\* which may fail.
RefSlow(c) ==
  LET u == bus1_user_idr[call[c].uid]
  IN  /\ call[c].pc = "slow" /\ bus1_user_lock = NULL
      /\ \/ /\ u # NULL /\ KrefGet(u)
            /\ call' = [call EXCEPT ![c].pc = "new", ![c].user = u]
            /\ UNCHANGED <<bus1_user_idr, allocated>>
         \/ u = NULL /\ \E v \in Object : UserNew(c, v)
         \/ u = NULL /\ Return(c) /\ UNCHANGED <<bus1_user_idr, user, allocated>>
      /\ UNCHANGED <<bus1_user_lock, peer, warned>>

\* The rest of bus1_peer_new(): the peer takes over the reference and copies
\* the limits of the user, or its memory cannot be allocated.
PeerNew(c) ==
  /\ call[c].pc = "new"
  /\ \/ /\ peer' = [peer EXCEPT ![call[c].peer] =
                      [user |-> call[c].user, n |-> MaxUser, max |-> MaxUser]]
        /\ Return(c)
     \/ Goto(c, "unref") /\ UNCHANGED peer
  /\ UNCHANGED <<bus1_user_idr, user, allocated, bus1_user_lock, warned>>

---------------------------------------------------------------------------
(* Charges *)

\* bus1_factory_instantiate() by a SEND of peer s for the destination p.
Send(c, s, p) ==
  /\ call[c].pc = "idle" /\ s \in Live /\ p \in Live
  /\ call' = [call EXCEPT ![c] = [Idle EXCEPT !.pc = "global", !.peer = p,
                                    !.by = s, !.charge = 1]]
  /\ UNCHANGED <<bus1_user_idr, user, allocated, bus1_user_lock, peer, warned>>

\* bus1_user_charge(): the counter of the user.
ChargeGlobal(c) ==
  LET u == peer[call[c].peer].user  k == call[c].charge
  IN  /\ call[c].pc = "global"
      /\ IF Covers(user[u].n, k)
         THEN user' = [user EXCEPT ![u].n = @ - k] /\ Goto(c, "local")
         ELSE Return(c) /\ UNCHANGED user
      /\ UNCHANGED <<bus1_user_idr, allocated, bus1_user_lock, peer, warned>>

\* Faulty: a charge that fails locally is not given back to the user.
ChargeLocalNoRevert(c) ==
  LET p == call[c].peer  k == call[c].charge
  IN  /\ call[c].pc = "local"
      /\ IF Covers(peer[p].n, k)
         THEN peer' = [peer EXCEPT ![p].n = @ - k] /\ Goto(c, "charged")
         ELSE Return(c) /\ UNCHANGED peer
      /\ UNCHANGED <<bus1_user_idr, user, allocated, bus1_user_lock, warned>>

\* Faulty: the limit of the peer is not looked at.
ChargeLocalAlways(c) ==
  LET p == call[c].peer  k == call[c].charge
  IN  /\ call[c].pc = "local"
      /\ peer' = [peer EXCEPT ![p].n = @ - k] /\ Goto(c, "charged")
      /\ UNCHANGED <<bus1_user_idr, user, allocated, bus1_user_lock, warned>>

\* bus1_user_charge(): the counter of the peer.
ChargeLocal(c) ==
  LET p == call[c].peer  k == call[c].charge
  IN  /\ call[c].pc = "local"
      /\ IF Covers(peer[p].n, k)
         THEN peer' = [peer EXCEPT ![p].n = @ - k] /\ Goto(c, "charged")
         ELSE Goto(c, "revert") /\ UNCHANGED peer
      /\ UNCHANGED <<bus1_user_idr, user, allocated, bus1_user_lock, warned>>

\* The local charge failed: give the global one back.
ChargeRevert(c) ==
  LET u == peer[call[c].peer].user
  IN  /\ call[c].pc = "revert"
      /\ user' = [user EXCEPT ![u].n = @ + call[c].charge] /\ Return(c)
      /\ UNCHANGED <<bus1_user_idr, allocated, bus1_user_lock, peer, warned>>

\* The message refers to the user of its sender.
MessageUser(c) ==
  LET u == peer[call[c].by].user
  IN  /\ call[c].pc = "charged" /\ KrefGet(u)
      /\ call' = [call EXCEPT ![c].pc = "message", ![c].user = u, ![c].by = NULL]
      /\ UNCHANGED <<bus1_user_idr, allocated, bus1_user_lock, peer, warned>>

\* bus1_user_discharge() of a message that is freed, or right after the charge
\* when its handles cannot be charged or there is no memory for it: the counter
\* of the peer,
Discharge(c) ==
  LET p == call[c].peer
  IN  /\ call[c].pc \in {"charged", "message"}
      /\ peer' = [peer EXCEPT ![p].n = @ + call[c].charge] /\ Goto(c, "discharge")
      /\ UNCHANGED <<bus1_user_idr, user, allocated, bus1_user_lock, warned>>

\* and then that of its user.
DischargeGlobal(c) ==
  LET u == peer[call[c].peer].user
  IN  /\ call[c].pc = "discharge"
      /\ user' = [user EXCEPT ![u].n = @ + call[c].charge]
      /\ IF call[c].user = NULL THEN Return(c)
         ELSE call' = [call EXCEPT ![c] =
                         [Idle EXCEPT !.pc = "unref", !.user = call[c].user]]
      /\ UNCHANGED <<bus1_user_idr, allocated, bus1_user_lock, peer, warned>>

\* Faulty: the counter does not follow the limit.
SetMaxOnly(p, l) ==
  /\ p \in Live
  /\ peer' = [peer EXCEPT ![p].max = l]
  /\ UNCHANGED <<bus1_user_idr, user, allocated, bus1_user_lock, call, warned>>

\* PEER_RESET with a new limit: the counter moves along and may drop below 0.
SetLimit(p, l) ==
  /\ p \in Live
  /\ peer' = [peer EXCEPT ![p] = [user |-> @.user, n |-> @.n + l - @.max, max |-> l]]
  /\ UNCHANGED <<bus1_user_idr, user, allocated, bus1_user_lock, call, warned>>

---------------------------------------------------------------------------
(* bus1_peer_free() and bus1_user_unref() *)

\* bus1_peer_free(): bus1_active_drain() has waited for all calls on the peer,
\* bus1_peer_flush() has freed all messages, which are either queued or published
\* when their SEND is over; then bus1_user_limits_deinit() looks at n_slices.
PeerFree(c, p) ==
  /\ call[c].pc = "idle" /\ p \in Live
  /\ \A d \in Call : call[d].peer # p /\ call[d].by # p
  /\ warned' = (warned \/ peer[p].n # peer[p].max)
  /\ peer' = [peer EXCEPT ![p] = [user |-> NULL, n |-> 0, max |-> 0]]
  /\ call' = [call EXCEPT ![c] = [Idle EXCEPT !.pc = "unref", !.user = peer[p].user]]
  /\ UNCHANGED <<bus1_user_idr, user, allocated, bus1_user_lock>>

\* kref_put_mutex(): without the lock unless this may be the last reference.
Unref(c) ==
  LET u == call[c].user
  IN  /\ call[c].pc = "unref"
      /\ IF user[u].ref > 1 THEN KrefDec(u) /\ Return(c)
         ELSE Goto(c, "put") /\ UNCHANGED user
      /\ UNCHANGED <<bus1_user_idr, allocated, bus1_user_lock, peer, warned>>

\* Faulty: once the lock is taken the object is freed whatever the count.
PutAlways(c) ==
  LET u == call[c].user
  IN  /\ call[c].pc = "put" /\ bus1_user_lock = NULL /\ KrefDec(u)
      /\ bus1_user_lock' = c /\ Goto(c, "free")
      /\ UNCHANGED <<bus1_user_idr, allocated, peer, warned>>

\* kref_put_mutex() with the lock taken: the count may have risen since.
Put(c) ==
  LET u == call[c].user
  IN  /\ call[c].pc = "put" /\ bus1_user_lock = NULL /\ KrefDec(u)
      /\ IF user[u].ref = 1
         THEN bus1_user_lock' = c /\ Goto(c, "free")
         ELSE Return(c) /\ UNCHANGED bus1_user_lock
      /\ UNCHANGED <<bus1_user_idr, allocated, peer, warned>>

\* bus1_user_free(), and the caller drops the lock.
UserFree(c) ==
  LET u == call[c].user
  IN  /\ call[c].pc = "free"
      /\ bus1_user_idr' = [bus1_user_idr EXCEPT ![user[u].uid] = NULL]
      /\ warned' = (warned \/ user[u].n # MaxUser)
      /\ allocated' = allocated \ {u} /\ bus1_user_lock' = NULL /\ Return(c)
      /\ UNCHANGED <<user, peer>>

Next ==
  \/ \E c \in Call :
       \/ \E p \in Peer :
            \/ \E uid \in Uid : RefByUid(c, p, uid)
            \/ \E s \in Peer : Send(c, s, p)
            \/ PeerFree(c, p)
       \/ RefFast(c) \/ RefSlow(c) \/ PeerNew(c)
       \/ ChargeGlobal(c) \/ ChargeLocal(c) \/ ChargeRevert(c)
       \/ MessageUser(c) \/ Discharge(c) \/ DischargeGlobal(c)
       \/ Unref(c) \/ Put(c) \/ UserFree(c)
  \/ \E p \in Peer, l \in Limit : SetLimit(p, l)

Spec == Init /\ [][Next]_vars
---------------------------------------------------------------------------
(* Properties *)

\* Whether a call in state x owns a reference to u.
Owns(x, u) == x.user = u /\ x.pc \notin {"get", "free"}
Owning(u) == {c \in Call : Owns(call[c], u)}
PeersOf(u) == {p \in Peer : peer[p].user = u}

\* The count of an object is the number of peers, messages and calls that
\* refer to it, and a referenced object is not freed.
CountsOK ==
  \A u \in Object :
    /\ user[u].ref = Cardinality(PeersOf(u)) + Cardinality(Owning(u))
    /\ user[u].ref > 0 => u \in allocated

\* The tree finds exactly the objects that are not freed; one without
\* references is being freed by the holder of the lock.
IdrOK ==
  /\ \A u \in allocated :
       /\ user[u].uid \in Uid /\ bus1_user_idr[user[u].uid] = u
       /\ user[u].ref = 0 => /\ bus1_user_lock \in Call
                             /\ call[bus1_user_lock].pc = "free"
                             /\ call[bus1_user_lock].user = u
  /\ \A uid \in Uid : bus1_user_idr[uid] # NULL =>
       bus1_user_idr[uid] \in allocated /\ user[bus1_user_idr[uid]].uid = uid

\* The local variables of a call fit the place where it is; a peer that is
\* being created is known to no other call.
CallOK(x) ==
  /\ x.pc = "free" => x.user \in allocated /\ user[x.user].ref = 0
  /\ x.pc \in {"new", "unref", "put", "message"} => x.user \in Object
  /\ x.pc \in {"slow", "global", "local", "revert", "charged", "idle"} => x.user = NULL
  /\ x.pc \in {"get", "slow", "new"} => x.uid \in Uid /\ x.peer \in Peer \ Live
  /\ x.pc \in {"global", "local", "revert", "charged"} => x.by \in Live
  /\ x.pc \in {"global", "local", "revert", "charged", "message", "discharge"} =>
       x.peer \in Live

CallsOK ==
  \A c \in Call :
    /\ call[c].pc = "free" <=> bus1_user_lock = c
    /\ CallOK(call[c])
    /\ call[c].pc \in {"get", "slow", "new"} =>
         \A d \in Call \ {c} : call[d].peer # call[c].peer

\* The inductive invariant of the lifetime of user objects: a lookup under RCU
\* may race with the kref_put_mutex() of the last reference, but the count is
\* exact, the tree finds exactly what is not freed, and an object without
\* references is always the one the holder of bus1_user_lock is freeing.
UsersOK == TypeOK /\ CountsOK /\ IdrOK /\ CallsOK

\* All peers of a uid, and the messages their SENDs left behind, account on
\* one object, which is not freed: bus1_user_ref_by_uid() never creates a
\* second one beside an object that is still referenced, and never returns
\* one that another call is freeing.
OneUserPerUid ==
  \A u, v \in Object :
    /\ PeersOf(u) \cup Owning(u) # {} => u \in allocated
    /\ user[u].uid = user[v].uid /\ PeersOf(u) \cup Owning(u) # {}
       /\ PeersOf(v) \cup Owning(v) # {} => u = v

\* What a call in state x holds of the limit of p, and of that of the user u.
Local(x, p) ==
  IF x.pc \in {"charged", "message"} /\ x.peer = p THEN x.charge ELSE 0
Global(x, u) ==
  IF /\ x.pc \in {"local", "revert", "charged", "message", "discharge"}
     /\ peer[x.peer].user = u
  THEN x.charge ELSE 0

\* No charge is lost or counted twice on either counter, whatever charges,
\* reverts, discharges and changes of the limit overlap: what remains of a
\* limit and what calls and messages hold add up to it.  The counter of a user
\* never drops below 0; that of a peer may, when its limit is lowered.
Balanced ==
  /\ \A p \in Live :
       peer[p].n + SumFunction([c \in Call |-> Local(call[c], p)]) = peer[p].max
  /\ \A u \in allocated :
       /\ user[u].n + SumFunction([c \in Call |-> Global(call[c], u)]) = MaxUser
       /\ user[u].n >= 0

\* bus1_user_limits_deinit() finds n_slices back at its limit, in a peer that
\* is freed and in a user that is freed, although PEER_RESET moves the limit of
\* the peer under way and the user may outlive all of its peers.
NoWarn == ~warned

\* The two counters act as one account per uid: a charge that
\* bus1_user_charge() accepts fits both limits at the moment it is accepted.
A == INSTANCE Account WITH
       Amount <- {1},
       owner <- [p \in Peer |-> IF p \in Live THEN user[peer[p].user].uid ELSE NULL],
       limit <- [p \in Peer |-> peer[p].max],
       granted <- [c \in Call |->
                     IF call[c].pc \in {"charged", "message"}
                     THEN [peer |-> call[c].peer, charge |-> call[c].charge]
                     ELSE [peer |-> NULL, charge |-> 0]]
ImplementsAccount == A!Spec
=============================================================================
