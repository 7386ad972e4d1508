----------------------------- MODULE UserProofs -----------------------------
(* The lifetime of the user objects of ipc/bus1/user.c and the charges on    *)
(* them, for any number of uids, objects, peers and calls.                   *)
EXTENDS User, Sums, FiniteSetTheorems, TLAPS

USE ZenonT(30)

(* A step of one call changes the calls that own a reference to u by at      *)
(* most that call.                                                           *)
LEMMA OwningStep ==
  ASSUME TypeOK, NEW c \in Call, NEW x, NEW u \in Object,
         call' = [call EXCEPT ![c] = x]
  PROVE  /\ Cardinality(Owning(u)) \in Nat
         /\ Cardinality(Owning(u)') =
              Cardinality(Owning(u)) + (IF Owns(x, u) THEN 1 ELSE 0)
                                     - (IF Owns(call[c], u) THEN 1 ELSE 0)
<1>1. IsFiniteSet(Owning(u)) /\ (c \in Owning(u) <=> Owns(call[c], u))
  BY UserAssumption, FS_Subset DEF Owning
<1>2. Cardinality(Owning(u)) \in Nat
  BY <1>1, FS_CardinalityType
<1>3. \A d \in Call : call'[d] = IF d = c THEN x ELSE call[d]
  BY DEF TypeOK
<1>4. Owning(u)' = IF Owns(x, u) THEN Owning(u) \cup {c} ELSE Owning(u) \ {c}
  BY <1>3 DEF Owning, Owns
<1>5. /\ Cardinality(Owning(u) \cup {c}) =
           IF c \in Owning(u) THEN Cardinality(Owning(u)) ELSE Cardinality(Owning(u)) + 1
      /\ Cardinality(Owning(u) \ {c}) =
           IF c \in Owning(u) THEN Cardinality(Owning(u)) - 1 ELSE Cardinality(Owning(u))
  BY <1>1, FS_AddElement, FS_RemoveElement
<1> QED
  BY SMTT(30), <1>1, <1>2, <1>4, <1>5

(* A step that replaces one peer changes the peers of u by at most that one. *)
LEMMA PeersStep ==
  ASSUME TypeOK, NEW p \in Peer, NEW y, NEW u \in Object,
         peer' = [peer EXCEPT ![p] = y]
  PROVE  /\ Cardinality(PeersOf(u)) \in Nat
         /\ Cardinality(PeersOf(u)') =
              Cardinality(PeersOf(u)) + (IF y.user = u THEN 1 ELSE 0)
                                      - (IF peer[p].user = u THEN 1 ELSE 0)
<1>1. IsFiniteSet(PeersOf(u)) /\ (p \in PeersOf(u) <=> peer[p].user = u)
  BY UserAssumption, FS_Subset DEF PeersOf
<1>2. Cardinality(PeersOf(u)) \in Nat
  BY <1>1, FS_CardinalityType
<1>3. \A q \in Peer : peer'[q] = IF q = p THEN y ELSE peer[q]
  BY DEF TypeOK
<1>4. PeersOf(u)' = IF y.user = u THEN PeersOf(u) \cup {p} ELSE PeersOf(u) \ {p}
  BY <1>3 DEF PeersOf
<1>5. /\ Cardinality(PeersOf(u) \cup {p}) =
           IF p \in PeersOf(u) THEN Cardinality(PeersOf(u)) ELSE Cardinality(PeersOf(u)) + 1
      /\ Cardinality(PeersOf(u) \ {p}) =
           IF p \in PeersOf(u) THEN Cardinality(PeersOf(u)) - 1 ELSE Cardinality(PeersOf(u))
  BY <1>1, FS_AddElement, FS_RemoveElement
<1> QED
  BY SMTT(30), <1>1, <1>2, <1>4, <1>5

(* An object that some call owns is referenced, and one that is not          *)
(* referenced is owned by nobody.                                            *)
LEMMA OwnedIsCounted ==
  ASSUME TypeOK, CountsOK, NEW u \in Object
  PROVE  /\ user[u].ref > 0 <=> PeersOf(u) \cup Owning(u) # {}
         /\ \A c \in Call : Owns(call[c], u) => user[u].ref > 0
<1>1. IsFiniteSet(Owning(u)) /\ IsFiniteSet(PeersOf(u))
  BY UserAssumption, FS_Subset DEF Owning, PeersOf
<1>2. /\ Cardinality(Owning(u)) \in Nat /\ Cardinality(PeersOf(u)) \in Nat
      /\ Cardinality(Owning(u)) = 0 <=> Owning(u) = {}
      /\ Cardinality(PeersOf(u)) = 0 <=> PeersOf(u) = {}
  BY <1>1, FS_CardinalityType, FS_EmptySet
<1>3. user[u].ref = Cardinality(PeersOf(u)) + Cardinality(Owning(u))
  BY DEF CountsOK
<1>4. \A c \in Call : Owns(call[c], u) => c \in Owning(u)
  BY DEF Owning
<1> QED
  BY SMTT(30), <1>2, <1>3, <1>4

(* The call of a step moves to x and its reference, if any, with it.        *)
RefsFollow(c, x) ==
  \A u \in Object :
    /\ user'[u].ref = user[u].ref + (IF Owns(x, u) THEN 1 ELSE 0)
                                 - (IF Owns(call[c], u) THEN 1 ELSE 0)
    /\ user'[u].ref > 0 => u \in allocated'

(* Such a step keeps the counts exact.                                       *)
LEMMA CountsStep ==
  ASSUME UsersOK, NEW c \in Call, NEW x, call' = [call EXCEPT ![c] = x],
         \A p \in Peer : peer'[p].user = peer[p].user, RefsFollow(c, x)
  PROVE  CountsOK'
<1> USE DEF UsersOK, RefsFollow
<1> SUFFICES ASSUME NEW u \in Object
             PROVE  user'[u].ref = Cardinality(PeersOf(u)') + Cardinality(Owning(u)')
  BY DEF CountsOK
<1>1. PeersOf(u)' = PeersOf(u)
  BY DEF PeersOf
<1>2. Cardinality(PeersOf(u)) \in Nat
  BY UserAssumption, FS_Subset, FS_CardinalityType DEF PeersOf
<1>3. user[u].ref = Cardinality(PeersOf(u)) + Cardinality(Owning(u))
  BY DEF CountsOK
<1> DEFINE a == IF Owns(x, u) THEN 1 ELSE 0
           b == IF Owns(call[c], u) THEN 1 ELSE 0
<1>4. Cardinality(Owning(u)) \in Nat /\ Cardinality(Owning(u)') = Cardinality(Owning(u)) + a - b
  BY OwningStep
<1>5. a \in Nat /\ b \in Nat
  OBVIOUS
<1>6. user'[u].ref = user[u].ref + a - b
  OBVIOUS
<1> HIDE DEF a, b
<1> QED
  BY SMTT(30), <1>1, <1>2, <1>3, <1>4, <1>5, <1>6

(* The invariant holds before the first peer is created.                     *)
THEOREM InitUsers == Init => UsersOK
<1> SUFFICES ASSUME Init PROVE UsersOK
  OBVIOUS
<1>1. Idle \in CallState
  BY DEF Idle, CallState
<1>2. /\ [ref |-> 0, uid |-> NULL, n |-> 0] \in UserState
      /\ [user |-> NULL, n |-> 0, max |-> 0] \in PeerState
  BY SMTT(30) DEF UserState, PeerState
<1>3. TypeOK
  BY <1>1, <1>2 DEF Init, TypeOK
<1>4. IdrOK
  BY UserAssumption DEF Init, IdrOK
<1>5. CallsOK
  BY UserAssumption DEF Init, CallsOK, CallOK, Idle
<1>6. ASSUME NEW u \in Object
      PROVE  PeersOf(u) = {} /\ Owning(u) = {}
  BY UserAssumption DEF Init, PeersOf, Owning, Owns, Idle
<1>7. CountsOK
  BY SMTT(30), <1>6, FS_EmptySet DEF Init, CountsOK
<1> QED
  BY <1>5, <1>7, <1>3, <1>4 DEF UsersOK

---------------------------------------------------------------------------
(* Most steps move one call to x and neither create nor free a peer or an    *)
(* object: they may change counters, and references that are not the last.   *)
Creating == {"get", "slow", "new"}

Quiet(c, x) ==
  /\ call' = [call EXCEPT ![c] = x] /\ x \in CallState
  /\ user' \in [Object -> UserState] /\ peer' \in [Peer -> PeerState]
  /\ UNCHANGED <<bus1_user_idr, allocated, bus1_user_lock, warned>>
  /\ \A p \in Peer : peer'[p].user = peer[p].user
  /\ \A u \in Object : /\ user'[u].uid = user[u].uid
                       /\ user'[u].ref = 0 <=> user[u].ref = 0
  /\ call[c].pc # "free" /\ x.pc # "free" /\ CallOK(x)
  /\ \A d \in Call \ {c} : call[d].peer = x.peer =>
                             x.pc \notin Creating /\ call[d].pc \notin Creating

(* A step that frees, creates and locks nothing keeps the invariant.         *)
LEMMA QuietStep ==
  ASSUME UsersOK, NEW c \in Call, NEW x, Quiet(c, x), RefsFollow(c, x)
  PROVE  UsersOK'
<1>1. TypeOK'
  BY DEF UsersOK, TypeOK, Quiet
<1>2. CountsOK'
  BY CountsStep DEF Quiet
<1>3. \A d \in Call : call'[d] = IF d = c THEN x ELSE call[d]
  BY DEF UsersOK, TypeOK, Quiet
<1>4. IdrOK'
  <2>1. bus1_user_lock \in Call /\ call[bus1_user_lock].pc = "free" =>
          call'[bus1_user_lock] = call[bus1_user_lock]
    BY <1>3 DEF Quiet
  <2>2. \A uid \in Uid : bus1_user_idr[uid] # NULL => bus1_user_idr[uid] \in Object
    BY DEF UsersOK, TypeOK
  <2> QED
    BY SMTT(30), <2>1, <2>2 DEF UsersOK, TypeOK, IdrOK, Quiet
<1>5. CallsOK'
  <2>1. Live' = Live
    BY DEF Live, Quiet
  <2>2. \A d \in Call : call'[d].pc = "free" <=> bus1_user_lock' = d
    BY SMTT(30), <1>3 DEF UsersOK, CallsOK, Quiet
  <2>3. ASSUME NEW d \in Call PROVE CallOK(call'[d])
    BY SMTT(30), <1>3 DEF UsersOK, CallsOK, Quiet
  <2>4. ASSUME NEW d \in Call PROVE CallOK(call[d])'
    <3>1. call'[d].user \in allocated => call'[d].user \in Object
      BY DEF UsersOK, TypeOK
    <3> QED
      BY <2>1, <2>3, <3>1 DEF CallOK, Quiet
  <2>5. ASSUME NEW d \in Call, call'[d].pc \in Creating, NEW e \in Call \ {d}
        PROVE  call'[e].peer # call'[d].peer
    BY SMTT(30), <1>3, <2>5 DEF UsersOK, CallsOK, Creating, Quiet
  <2> QED
    BY <2>2, <2>4, <2>5 DEF CallsOK, Creating
<1> QED
  BY <1>1, <1>2, <1>4, <1>5 DEF UsersOK

(* No reference moves.                                                       *)
LEMMA SameRefs ==
  ASSUME UsersOK, NEW c \in Call, NEW x, allocated' = allocated,
         \A u \in Object : Owns(x, u) <=> Owns(call[c], u),
         \A u \in Object : user'[u].ref = user[u].ref
  PROVE  RefsFollow(c, x)
<1> SUFFICES ASSUME NEW u \in Object
             PROVE  /\ user[u].ref = user[u].ref + (IF Owns(x, u) THEN 1 ELSE 0)
                                                 - (IF Owns(call[c], u) THEN 1 ELSE 0)
                    /\ user[u].ref > 0 => u \in allocated
  BY DEF RefsFollow
<1>1. user[u].ref \in Nat /\ (user[u].ref > 0 => u \in allocated)
  BY DEF UsersOK, TypeOK, UserState, CountsOK
<1>2. CASE Owns(x, u)
  BY SMTT(30), <1>1, <1>2
<1>3. CASE ~Owns(x, u)
  BY SMTT(30), <1>1, <1>3
<1> QED
  BY <1>2, <1>3

(* kref_get() for a call that had no reference                               *)
LEMMA GetRef ==
  ASSUME UsersOK, NEW c \in Call, NEW x, allocated' = allocated,
         NEW u \in allocated, user[u].ref > 0, KrefGet(u),
         x.user = u, Owns(x, u), \A v \in Object : ~Owns(call[c], v)
  PROVE  /\ RefsFollow(c, x)
         /\ user' \in [Object -> UserState]
         /\ \A v \in Object : /\ user'[v].uid = user[v].uid
                              /\ user'[v].ref = 0 <=> user[v].ref = 0
<1> USE DEF Owns
<1>1. \A v \in Object : /\ user[v] \in UserState /\ user[v].ref \in Nat
                        /\ user[v].ref > 0 => v \in allocated
  BY DEF UsersOK, TypeOK, UserState, CountsOK
<1>2. u \in Object
  BY DEF UsersOK, TypeOK
<1>3. user' = [v \in Object |-> IF v = u THEN [user[u] EXCEPT !.ref = @ + 1] ELSE user[v]]
  BY DEF KrefGet, UsersOK, TypeOK
<1>4. [user[u] EXCEPT !.ref = @ + 1] \in UserState
  <2>1. user[u] \in UserState
    BY <1>1, <1>2
  <2> QED
    BY SMTT(30), <2>1 DEF UserState
<1>5. \A v \in Object : /\ user'[v].uid = user[v].uid
                        /\ user'[v].ref = IF v = u THEN user[u].ref + 1 ELSE user[v].ref
  BY <1>1, <1>3 DEF UserState
<1>6. \A v \in Object : Owns(x, v) <=> v = u
  BY DEF Owns
<1>7. RefsFollow(c, x)
  <2> SUFFICES ASSUME NEW v \in Object
               PROVE  /\ user'[v].ref = user[v].ref + (IF Owns(x, v) THEN 1 ELSE 0)
                                                    - (IF Owns(call[c], v) THEN 1 ELSE 0)
                      /\ user'[v].ref > 0 => v \in allocated
    BY DEF RefsFollow
  <2>1. ~Owns(call[c], v) /\ user[v].ref \in Nat
    BY <1>1
  <2> QED
    BY SMTT(30), <1>1, <1>5, <1>6, <2>1
<1>8. user' \in [Object -> UserState]
  BY <1>1, <1>3, <1>4
<1> QED
  BY SMTT(30), <1>1, <1>5, <1>7, <1>8

(* A counter of a user changes.                                              *)
LEMMA UserCounter ==
  ASSUME UsersOK, NEW u \in Object, NEW m \in Int,
         user' = [user EXCEPT ![u].n = m]
  PROVE  /\ user' \in [Object -> UserState]
         /\ \A v \in Object : user'[v].uid = user[v].uid /\ user'[v].ref = user[v].ref
<1>1. \A v \in Object : user[v] \in UserState
  BY DEF UsersOK, TypeOK
<1>2. user' = [v \in Object |-> IF v = u THEN [user[u] EXCEPT !.n = m] ELSE user[v]]
  BY DEF UsersOK, TypeOK
<1>3. [user[u] EXCEPT !.n = m] \in UserState
  BY <1>1 DEF UserState
<1>4. user' \in [Object -> UserState]
  BY <1>1, <1>2, <1>3
<1>5. \A v \in Object : user'[v].uid = user[v].uid /\ user'[v].ref = user[v].ref
  BY SMTT(30), <1>1, <1>2 DEF UserState
<1> QED
  BY <1>4, <1>5

(* A counter or the limit of a peer changes.                                 *)
LEMMA PeerCounter ==
  ASSUME UsersOK, NEW p \in Peer, NEW y \in PeerState, y.user = peer[p].user,
         peer' = [peer EXCEPT ![p] = y]
  PROVE  /\ peer' \in [Peer -> PeerState]
         /\ \A q \in Peer : peer'[q].user = peer[q].user
BY DEF UsersOK, TypeOK

(* What a return leaves of a call fits.                                      *)
LEMMA IdleOK ==
  ASSUME UsersOK, NEW c \in Call
  PROVE  /\ Idle \in CallState /\ CallOK(Idle) /\ Idle.pc = "idle" /\ Idle.peer = NULL
         /\ \A u \in Object : ~Owns(Idle, u)
         /\ \A d \in Call \ {c} : call[d].peer = NULL => call[d].pc \notin Creating
BY UserAssumption DEF Idle, CallState, CallOK, Owns, UsersOK, CallsOK, Creating

(* A peer that is being created belongs to one call.                         *)
LEMMA OwnPeer ==
  ASSUME UsersOK, NEW d \in Call, call[d].pc \in Creating, NEW e \in Call \ {d}
  PROVE  call[e].peer # call[d].peer /\ call[d].peer \in Peer
BY DEF UsersOK, CallsOK, CallOK, Creating

---------------------------------------------------------------------------
(* The actions.  bus1_user_ref_by_uid() finds an object                      *)
LEMMA RefByUidKeeps ==
  ASSUME UsersOK, NEW c \in Call, NEW p \in Peer, NEW uid \in Uid,
         RefByUid(c, p, uid)
  PROVE  UsersOK'
<1> DEFINE x == [Idle EXCEPT !.pc = "get", !.uid = uid, !.peer = p,
                             !.user = bus1_user_idr[uid]]
<1>1. /\ x \in CallState /\ x.pc = "get" /\ x.uid = uid /\ x.peer = p
      /\ call' = [call EXCEPT ![c] = x]
      /\ call[c].pc = "idle" /\ p \notin Live /\ \A d \in Call : call[d].peer # p
      /\ UNCHANGED <<bus1_user_idr, user, allocated, bus1_user_lock, peer, warned>>
  BY DEF RefByUid, Idle, CallState, UsersOK, TypeOK
<1> HIDE DEF x
<1>2. Quiet(c, x)
  BY <1>1 DEF Quiet, UsersOK, TypeOK, CallOK
<1>3. RefsFollow(c, x)
  <2>1. \A u \in Object : ~Owns(x, u) /\ ~Owns(call[c], u)
    BY <1>1, UserAssumption DEF UsersOK, CallsOK, CallOK, Owns
  <2> QED
    BY <1>1, <2>1, SameRefs
<1> QED
  BY <1>2, <1>3, QuietStep

(* The fast path takes a reference or gives up on the object.                *)
LEMMA RefFastKeeps ==
  ASSUME UsersOK, NEW c \in Call, RefFast(c)
  PROVE  UsersOK'
<1> DEFINE u == call[c].user
<1>1. /\ call[c] \in CallState /\ call[c].pc = "get" /\ CallOK(call[c])
      /\ \A d \in Call \ {c} : call[d].peer # call[c].peer
      /\ user \in [Object -> UserState] /\ peer \in [Peer -> PeerState]
      /\ UNCHANGED <<bus1_user_idr, allocated, bus1_user_lock, peer, warned>>
  BY DEF RefFast, UsersOK, TypeOK, CallsOK
<1>2. \A v \in Object : ~Owns(call[c], v)
  BY <1>1 DEF Owns
<1>3. CASE u # NULL /\ user[u].ref > 0
  <2> DEFINE x == [call[c] EXCEPT !.pc = "new"]
  <2>1. /\ x \in CallState /\ x.pc = "new" /\ x.user = u /\ x.peer = call[c].peer
        /\ x.uid = call[c].uid /\ call' = [call EXCEPT ![c] = x] /\ KrefGet(u)
    BY <1>1, <1>3 DEF RefFast, Goto, CallState
  <2>2. u \in Object /\ u \in allocated
    BY <1>1, <1>3 DEF CallState, UsersOK, CountsOK
  <2> HIDE DEF x, u
  <2>3. Owns(x, u)
    BY <2>1 DEF Owns
  <2>4. /\ RefsFollow(c, x)
        /\ user' \in [Object -> UserState]
        /\ \A v \in Object : /\ user'[v].uid = user[v].uid
                             /\ user'[v].ref = 0 <=> user[v].ref = 0
    BY <1>1, <1>2, <1>3, <2>1, <2>2, <2>3, GetRef
  <2>5. Quiet(c, x)
    BY <1>1, <2>1, <2>2, <2>4 DEF Quiet, CallOK, Creating
  <2> QED
    BY <2>4, <2>5, QuietStep
<1>4. CASE ~(u # NULL /\ user[u].ref > 0)
  <2> DEFINE x == [call[c] EXCEPT !.pc = "slow", !.user = NULL]
  <2>1. /\ x \in CallState /\ x.pc = "slow" /\ x.user = NULL /\ x.peer = call[c].peer
        /\ x.uid = call[c].uid /\ call' = [call EXCEPT ![c] = x] /\ user' = user
    BY <1>1, <1>4 DEF RefFast, CallState, UsersOK, TypeOK
  <2> HIDE DEF x, u
  <2>2. \A v \in Object : ~Owns(x, v)
    BY <2>1, UserAssumption DEF Owns
  <2>3. RefsFollow(c, x)
    BY <1>1, <1>2, <2>1, <2>2, SameRefs
  <2>4. Quiet(c, x)
    BY <1>1, <2>1 DEF Quiet, CallOK, Creating
  <2> QED
    BY <2>3, <2>4, QuietStep
<1> QED
  BY <1>3, <1>4

(* A step of a call that creates no peer, moves no reference and changes     *)
(* nothing but counters                                                      *)
Move(c, x) ==
  /\ call' = [call EXCEPT ![c] = x] /\ x \in CallState
  /\ user' \in [Object -> UserState] /\ peer' \in [Peer -> PeerState]
  /\ UNCHANGED <<bus1_user_idr, allocated, bus1_user_lock, warned>>
  /\ \A p \in Peer : peer'[p].user = peer[p].user
  /\ \A u \in Object : user'[u].uid = user[u].uid /\ user'[u].ref = user[u].ref
  /\ call[c].pc \notin Creating \cup {"free"} /\ x.pc \notin Creating \cup {"free"}
  /\ CallOK(x) /\ x.peer \in {NULL, call[c].peer} \cup Live
  /\ \A u \in Object : Owns(x, u) <=> Owns(call[c], u)

(* A step that moves no reference at all keeps the invariant.                *)
LEMMA MoveKeeps ==
  ASSUME UsersOK, NEW c \in Call, NEW x, Move(c, x)
  PROVE  UsersOK'
<1>1. RefsFollow(c, x)
  <2> HIDE DEF Owns
  <2>1. /\ \A u \in Object : Owns(x, u) <=> Owns(call[c], u)
        /\ \A u \in Object : user'[u].ref = user[u].ref
        /\ allocated' = allocated
    BY DEF Move
  <2> QED
    BY <2>1, SameRefs
<1>2. \A d \in Call \ {c} : call[d].pc \in Creating =>
        call[d].peer \in Peer \ Live /\ call[d].peer # call[c].peer
  BY DEF UsersOK, CallsOK, CallOK, Creating
<1>3. \A d \in Call \ {c} : call[d].pc \in Creating => call[d].peer # x.peer
  BY <1>2, UserAssumption DEF Move
<1>4. Quiet(c, x)
  BY <1>3 DEF Quiet, Move
<1> QED
  BY <1>1, <1>4, QuietStep

(* A SEND begins.                                                            *)
LEMMA SendKeeps ==
  ASSUME UsersOK, NEW c \in Call, NEW s \in Peer, NEW p \in Peer, Send(c, s, p)
  PROVE  UsersOK'
<1> DEFINE x == [Idle EXCEPT !.pc = "global", !.peer = p, !.by = s, !.charge = 1]
<1>1. /\ x \in CallState /\ x.pc = "global" /\ x.user = NULL /\ x.peer = p /\ x.by = s
      /\ call' = [call EXCEPT ![c] = x]
      /\ call[c].pc = "idle" /\ s \in Live /\ p \in Live
      /\ UNCHANGED <<bus1_user_idr, user, allocated, bus1_user_lock, peer, warned>>
  BY UserAssumption DEF Send, Idle, CallState, UsersOK, TypeOK
<1> HIDE DEF x
<1>2. call[c].user = NULL
  BY <1>1 DEF UsersOK, CallsOK, CallOK
<1>3. \A u \in Object : ~Owns(x, u) /\ ~Owns(call[c], u)
  BY <1>1, <1>2, UserAssumption DEF Owns
<1>4. Move(c, x)
  BY <1>1, <1>3 DEF Move, UsersOK, TypeOK, CallOK, Creating
<1> QED
  BY <1>4, MoveKeeps

(* What holds of a call that is charging or holds a charge                   *)
LEMMA Charging ==
  ASSUME UsersOK, NEW c \in Call,
         call[c].pc \in {"global", "local", "revert", "charged", "message", "discharge"}
  PROVE  /\ call[c] \in CallState /\ CallOK(call[c]) /\ call[c].charge \in Nat
         /\ call[c].peer \in Peer /\ peer[call[c].peer] \in PeerState
         /\ call[c].peer \in Live /\ peer[call[c].peer].user \in Object
         /\ user \in [Object -> UserState] /\ peer \in [Peer -> PeerState]
<1>1. call[c] \in CallState /\ CallOK(call[c])
  BY DEF UsersOK, TypeOK, CallsOK
<1>2. call[c].peer \in Live
  BY <1>1 DEF CallOK
<1> QED
  BY <1>1, <1>2 DEF UsersOK, TypeOK, CallState, PeerState, Live

(* A charging call goes on at pc, or returns.                                *)
LEMMA ChargeGoto ==
  ASSUME UsersOK, NEW c \in Call, NEW pc, Goto(c, pc),
         call[c].pc \in {"global", "local", "revert", "charged", "message", "discharge"},
         pc \in {"global", "local", "revert", "charged", "discharge"},
         pc # "discharge" => call[c].pc \in {"global", "local", "revert"},
         user' \in [Object -> UserState], peer' \in [Peer -> PeerState],
         UNCHANGED <<bus1_user_idr, allocated, bus1_user_lock, warned>>,
         \A p \in Peer : peer'[p].user = peer[p].user,
         \A u \in Object : user'[u].uid = user[u].uid /\ user'[u].ref = user[u].ref
  PROVE  UsersOK'
<1> DEFINE x == [call[c] EXCEPT !.pc = pc]
<1>1. call[c] \in CallState /\ CallOK(call[c]) /\ call[c].peer \in Live
  BY Charging
<1>2. /\ x \in CallState /\ x.pc = pc /\ x.user = call[c].user /\ x.peer = call[c].peer
      /\ x.by = call[c].by /\ call' = [call EXCEPT ![c] = x]
  BY <1>1 DEF CallState, Goto, UsersOK, TypeOK
<1> HIDE DEF x
<1>3. CallOK(x)
  BY <1>1, <1>2 DEF CallOK
<1>4. \A u \in Object : Owns(x, u) <=> Owns(call[c], u)
  BY <1>2 DEF Owns
<1>5. Move(c, x)
  BY <1>2, <1>3, <1>4 DEF Move, Creating
<1> QED
  BY <1>5, MoveKeeps

(* A charging call returns.                                                  *)
LEMMA ChargeReturn ==
  ASSUME UsersOK, NEW c \in Call, Return(c),
         call[c].pc \in {"global", "local", "revert", "charged", "discharge"},
         call[c].user = NULL,
         user' \in [Object -> UserState], peer' \in [Peer -> PeerState],
         UNCHANGED <<bus1_user_idr, allocated, bus1_user_lock, warned>>,
         \A p \in Peer : peer'[p].user = peer[p].user,
         \A u \in Object : user'[u].uid = user[u].uid /\ user'[u].ref = user[u].ref
  PROVE  UsersOK'
<1>1. \A u \in Object : ~Owns(call[c], u)
  BY UserAssumption DEF Owns
<1>2. Move(c, Idle)
  BY <1>1, IdleOK DEF Move, Creating, Return
<1> QED
  BY <1>2, MoveKeeps

(* bus1_user_charge() and bus1_user_discharge() move counters only.          *)
LEMMA ChargeGlobalKeeps ==
  ASSUME UsersOK, NEW c \in Call, ChargeGlobal(c)
  PROVE  UsersOK'
<1> DEFINE u == peer[call[c].peer].user  k == call[c].charge
<1>1. /\ call[c].pc = "global" /\ call[c].user = NULL
      /\ UNCHANGED <<bus1_user_idr, allocated, bus1_user_lock, peer, warned>>
      /\ user \in [Object -> UserState] /\ peer \in [Peer -> PeerState]
  BY DEF ChargeGlobal, UsersOK, TypeOK, CallsOK, CallOK
<1>2. u \in Object /\ k \in Nat
  BY <1>1, Charging
<1>3. CASE user' = [user EXCEPT ![u].n = @ - k] /\ Goto(c, "local")
  <2> DEFINE m == user[u].n - k
  <2>1. user' = [user EXCEPT ![u].n = m] /\ m \in Int
    BY SMTT(30), <1>1, <1>2, <1>3 DEF UserState
  <2> HIDE DEF u, k, m
  <2>2. /\ user' \in [Object -> UserState]
        /\ \A v \in Object : user'[v].uid = user[v].uid /\ user'[v].ref = user[v].ref
    BY <1>2, <2>1, UserCounter
  <2> QED
    BY <1>1, <1>3, <2>2, ChargeGoto
<1>4. CASE Return(c) /\ UNCHANGED user
  BY <1>1, <1>4, ChargeReturn
<1> QED
  BY <1>3, <1>4 DEF ChargeGlobal

(* The local half of a charge.                                               *)
LEMMA ChargeLocalKeeps ==
  ASSUME UsersOK, NEW c \in Call, ChargeLocal(c)
  PROVE  UsersOK'
<1> DEFINE p == call[c].peer  k == call[c].charge
           y == [peer[p] EXCEPT !.n = @ - k]
<1>1. /\ call[c].pc = "local" /\ call[c].user = NULL
      /\ UNCHANGED <<bus1_user_idr, user, allocated, bus1_user_lock, warned>>
  BY DEF ChargeLocal, UsersOK, CallsOK, CallOK
<1>2. /\ p \in Peer /\ k \in Nat /\ peer[p] \in PeerState
      /\ user \in [Object -> UserState] /\ peer \in [Peer -> PeerState]
  BY <1>1, Charging
<1>3. CASE peer' = [peer EXCEPT ![p].n = @ - k] /\ Goto(c, "charged")
  <2>1. y \in PeerState /\ y.user = peer[p].user /\ peer' = [peer EXCEPT ![p] = y]
    BY SMTT(30), <1>2, <1>3 DEF PeerState
  <2> HIDE DEF p, k, y
  <2>2. /\ peer' \in [Peer -> PeerState]
        /\ \A q \in Peer : peer'[q].user = peer[q].user
    BY <1>2, <2>1, PeerCounter
  <2> QED
    BY <1>1, <1>2, <1>3, <2>2, ChargeGoto
<1>4. CASE Goto(c, "revert") /\ UNCHANGED peer
  BY <1>1, <1>2, <1>4, ChargeGoto
<1> QED
  BY <1>3, <1>4 DEF ChargeLocal

(* The revert of the global half when the local one failed.                  *)
LEMMA ChargeRevertKeeps ==
  ASSUME UsersOK, NEW c \in Call, ChargeRevert(c)
  PROVE  UsersOK'
<1> DEFINE u == peer[call[c].peer].user  m == user[u].n + call[c].charge
<1>1. /\ call[c].pc = "revert" /\ call[c].user = NULL /\ Return(c)
      /\ user' = [user EXCEPT ![u].n = m]
      /\ UNCHANGED <<bus1_user_idr, allocated, bus1_user_lock, peer, warned>>
  BY DEF ChargeRevert, UsersOK, CallsOK, CallOK
<1>2. u \in Object /\ m \in Int /\ peer \in [Peer -> PeerState]
  BY SMTT(30), <1>1, Charging DEF UserState
<1> HIDE DEF u, m
<1>3. /\ user' \in [Object -> UserState]
      /\ \A v \in Object : user'[v].uid = user[v].uid /\ user'[v].ref = user[v].ref
  BY <1>1, <1>2, UserCounter
<1> QED
  BY <1>1, <1>2, <1>3, ChargeReturn

(* The local half of a discharge.                                            *)
LEMMA DischargeKeeps ==
  ASSUME UsersOK, NEW c \in Call, Discharge(c)
  PROVE  UsersOK'
<1> DEFINE p == call[c].peer  k == call[c].charge
           y == [peer[p] EXCEPT !.n = @ + k]
<1>1. /\ call[c].pc \in {"charged", "message"} /\ Goto(c, "discharge")
      /\ peer' = [peer EXCEPT ![p].n = @ + k]
      /\ UNCHANGED <<bus1_user_idr, user, allocated, bus1_user_lock, warned>>
  BY DEF Discharge
<1>2. /\ p \in Peer /\ k \in Nat /\ peer[p] \in PeerState
      /\ user \in [Object -> UserState] /\ peer \in [Peer -> PeerState]
  BY <1>1, Charging
<1>3. y \in PeerState /\ y.user = peer[p].user /\ peer' = [peer EXCEPT ![p] = y]
  BY SMTT(30), <1>1, <1>2 DEF PeerState
<1> HIDE DEF p, k, y
<1>4. /\ peer' \in [Peer -> PeerState]
      /\ \A q \in Peer : peer'[q].user = peer[q].user
  BY <1>2, <1>3, PeerCounter
<1> QED
  BY <1>1, <1>2, <1>4, ChargeGoto

(* The global half of a discharge, after which the call returns.             *)
LEMMA DischargeGlobalKeeps ==
  ASSUME UsersOK, NEW c \in Call, DischargeGlobal(c)
  PROVE  UsersOK'
<1> DEFINE u == peer[call[c].peer].user  m == user[u].n + call[c].charge
           x == [Idle EXCEPT !.pc = "unref", !.user = call[c].user]
<1>1. /\ call[c].pc = "discharge" /\ user' = [user EXCEPT ![u].n = m]
      /\ UNCHANGED <<bus1_user_idr, allocated, bus1_user_lock, peer, warned>>
  BY DEF DischargeGlobal
<1>2. u \in Object /\ m \in Int /\ peer \in [Peer -> PeerState] /\ call[c] \in CallState
  BY SMTT(30), <1>1, Charging DEF UserState
<1>3. /\ user' \in [Object -> UserState]
      /\ \A v \in Object : user'[v].uid = user[v].uid /\ user'[v].ref = user[v].ref
  <2> HIDE DEF u, m
  <2> QED BY <1>1, <1>2, UserCounter
<1>4. CASE call[c].user = NULL
  <2>1. Return(c)
    BY <1>4 DEF DischargeGlobal
  <2> QED
    BY <1>1, <1>2, <1>3, <1>4, <2>1, ChargeReturn
<1>5. CASE call[c].user # NULL
  <2>1. /\ call' = [call EXCEPT ![c] = x] /\ x \in CallState /\ x.pc = "unref"
        /\ x.user = call[c].user /\ x.user \in Object /\ x.peer = NULL
    BY <1>2, <1>5 DEF DischargeGlobal, Idle, CallState
  <2> HIDE DEF x, u, m
  <2>2. \A v \in Object : Owns(x, v) <=> Owns(call[c], v)
    BY <1>1, <2>1 DEF Owns
  <2>3. CallOK(x)
    BY <2>1 DEF CallOK
  <2>4. Move(c, x)
    BY <1>1, <1>2, <1>3, <2>1, <2>2, <2>3 DEF Move, Creating
  <2> QED
    BY <2>4, MoveKeeps
<1> QED
  BY <1>4, <1>5

(* The message takes a reference to the user of the sender, who is live.     *)
LEMMA MessageUserKeeps ==
  ASSUME UsersOK, NEW c \in Call, MessageUser(c)
  PROVE  UsersOK'
<1> DEFINE u == peer[call[c].by].user
           x == [call[c] EXCEPT !.pc = "message", !.user = u, !.by = NULL]
<1>1. /\ call[c].pc = "charged" /\ call[c] \in CallState /\ CallOK(call[c])
      /\ user \in [Object -> UserState] /\ peer \in [Peer -> PeerState]
      /\ UNCHANGED <<bus1_user_idr, allocated, bus1_user_lock, peer, warned>>
  BY DEF MessageUser, UsersOK, TypeOK, CallsOK
<1>2. call[c].user = NULL /\ call[c].by \in Live /\ call[c].peer \in Live
  BY <1>1 DEF CallOK
<1>3. u \in Object /\ call[c].by \in PeersOf(u)
  BY <1>1, <1>2 DEF Live, PeerState, PeersOf
<1>4. /\ x \in CallState /\ x.pc = "message" /\ x.user = u /\ x.peer = call[c].peer
      /\ call' = [call EXCEPT ![c] = x] /\ KrefGet(u)
  BY <1>1, <1>3 DEF MessageUser, CallState, UsersOK, TypeOK
<1> HIDE DEF x, u
<1>5. user[u].ref > 0 /\ u \in allocated
  BY <1>3, OwnedIsCounted DEF UsersOK, CountsOK
<1>6. Owns(x, u) /\ \A v \in Object : ~Owns(call[c], v)
  BY <1>2, <1>4, UserAssumption DEF Owns
<1>7. /\ RefsFollow(c, x)
      /\ user' \in [Object -> UserState]
      /\ \A v \in Object : /\ user'[v].uid = user[v].uid
                           /\ user'[v].ref = 0 <=> user[v].ref = 0
  BY <1>1, <1>4, <1>5, <1>6, GetRef
<1>8. \A d \in Call \ {c} : call[d].pc \in Creating => call[d].peer # x.peer
  BY <1>2, <1>4 DEF UsersOK, CallsOK, CallOK, Creating
<1>9. CallOK(x)
  BY <1>2, <1>3, <1>4 DEF CallOK
<1>10. Quiet(c, x)
  BY <1>1, <1>4, <1>7, <1>8, <1>9 DEF Quiet, Creating
<1> QED
  BY <1>7, <1>10, QuietStep

(* PEER_RESET moves no call.                                                 *)
LEMMA SetLimitKeeps ==
  ASSUME UsersOK, NEW p \in Peer, NEW l \in Limit, SetLimit(p, l)
  PROVE  UsersOK'
<1> DEFINE y == [user |-> peer[p].user, n |-> peer[p].n + l - peer[p].max, max |-> l]
<1>1. peer[p] \in PeerState /\ l \in Nat /\ peer \in [Peer -> PeerState]
  BY UserAssumption DEF UsersOK, TypeOK
<1>2. /\ y \in PeerState /\ y.user = peer[p].user /\ peer' = [peer EXCEPT ![p] = y]
      /\ UNCHANGED <<bus1_user_idr, user, allocated, bus1_user_lock, call, warned>>
  <2>1. y \in PeerState /\ y.user = peer[p].user
    <3>1. /\ peer[p].user \in Object \cup {NULL}
          /\ peer[p].n \in Int /\ peer[p].max \in Nat
      BY <1>1 DEF PeerState
    <3>2. peer[p].n + l - peer[p].max \in Int
      BY SMTT(30), <1>1, <3>1
    <3> QED
      BY <1>1, <3>1, <3>2 DEF PeerState
  <2>2. /\ peer' = [peer EXCEPT ![p] = y]
        /\ UNCHANGED <<bus1_user_idr, user, allocated, bus1_user_lock, call, warned>>
    BY DEF SetLimit
  <2> QED
    BY <2>1, <2>2
<1> HIDE DEF y
<1>3. /\ peer' \in [Peer -> PeerState]
      /\ \A q \in Peer : peer'[q].user = peer[q].user
  BY <1>2, PeerCounter
<1>4. Live' = Live /\ \A u \in Object : PeersOf(u)' = PeersOf(u) /\ Owning(u)' = Owning(u)
  BY <1>2, <1>3 DEF Live, PeersOf, Owning
<1>5. TypeOK' /\ CountsOK' /\ IdrOK'
  BY <1>2, <1>3, <1>4 DEF UsersOK, TypeOK, CountsOK, IdrOK
<1>6. CallsOK'
  BY <1>2, <1>4 DEF UsersOK, CallsOK, CallOK
<1> QED
  BY <1>5, <1>6 DEF UsersOK

(* A reference that is not the last one is dropped.                          *)
LEMMA DropRef ==
  ASSUME UsersOK, NEW c \in Call, NEW u \in Object, user[u].ref > 1, KrefDec(u),
         Return(c), Owns(call[c], u), call[c].pc \notin Creating \cup {"free"},
         UNCHANGED <<bus1_user_idr, allocated, bus1_user_lock, peer, warned>>
  PROVE  UsersOK'
<1>1. user \in [Object -> UserState] /\ peer \in [Peer -> PeerState]
  BY DEF UsersOK, TypeOK
<1>2. user[u] \in UserState /\ \A v \in Object : user[v].ref \in Nat
  BY <1>1 DEF UserState
<1>3. [user[u] EXCEPT !.ref = @ - 1] \in UserState
  BY SMTT(30), <1>2 DEF UserState
<1>4. /\ user' \in [Object -> UserState]
      /\ \A v \in Object : /\ user'[v].uid = user[v].uid
                           /\ user'[v].ref = IF v = u THEN user[u].ref - 1 ELSE user[v].ref
  BY <1>1, <1>2, <1>3 DEF KrefDec, UserState
<1>5. \A v \in Object : user'[v].ref = 0 <=> user[v].ref = 0
  BY SMTT(30), <1>2, <1>4
<1>6. \A v \in Object : Owns(call[c], v) <=> v = u
  BY DEF Owns
<1>7. ASSUME NEW v \in Object
      PROVE  /\ user'[v].ref = user[v].ref + (IF Owns(Idle, v) THEN 1 ELSE 0)
                                           - (IF Owns(call[c], v) THEN 1 ELSE 0)
             /\ user'[v].ref > 0 => v \in allocated'
  <2>1. user[v].ref \in Nat /\ (user[v].ref > 0 => v \in allocated) /\ ~Owns(Idle, v)
    BY <1>2, IdleOK DEF UsersOK, CountsOK
  <2> QED
    BY SMTT(30), <1>2, <1>4, <1>6, <2>1
<1>8. RefsFollow(c, Idle)
  BY <1>7 DEF RefsFollow
<1>9. Quiet(c, Idle)
  BY <1>1, <1>4, <1>5, IdleOK DEF Quiet, Creating, Return
<1> QED
  BY <1>8, <1>9, QuietStep

(* bus1_user_unref() while other references remain, or on its way to the lock. *)
LEMMA UnrefKeeps ==
  ASSUME UsersOK, NEW c \in Call, Unref(c)
  PROVE  UsersOK'
<1> DEFINE u == call[c].user  x == [call[c] EXCEPT !.pc = "put"]
<1>1. /\ call[c].pc = "unref" /\ call[c] \in CallState /\ CallOK(call[c]) /\ u \in Object
      /\ user \in [Object -> UserState] /\ peer \in [Peer -> PeerState]
      /\ UNCHANGED <<bus1_user_idr, allocated, bus1_user_lock, peer, warned>>
  BY DEF Unref, UsersOK, TypeOK, CallsOK, CallOK
<1>2. Owns(call[c], u)
  BY <1>1 DEF Owns
<1>3. CASE user[u].ref > 1
  <2>1. KrefDec(u) /\ Return(c)
    BY <1>3 DEF Unref
  <2> HIDE DEF u
  <2> QED
    BY <1>1, <1>2, <1>3, <2>1, DropRef DEF Creating
<1>4. CASE ~(user[u].ref > 1)
  <2>1. /\ call' = [call EXCEPT ![c] = x] /\ user' = user /\ x \in CallState
        /\ x.pc = "put" /\ x.user = u /\ x.peer = call[c].peer
    BY <1>1, <1>4 DEF Unref, Goto, CallState
  <2> HIDE DEF x
  <2>2. \A v \in Object : Owns(x, v) <=> Owns(call[c], v)
    BY <1>1, <2>1 DEF Owns
  <2>3. CallOK(x)
    BY <1>1, <2>1 DEF CallOK
  <2>4. Move(c, x)
    BY <1>1, <2>1, <2>2, <2>3 DEF Move, Creating
  <2> QED
    BY <2>4, MoveKeeps
<1> QED
  BY <1>3, <1>4

(* kref_put_mutex() holds the lock from the last reference on.               *)
LEMMA PutKeeps ==
  ASSUME UsersOK, NEW c \in Call, Put(c)
  PROVE  UsersOK'
<1> DEFINE u == call[c].user  x == [call[c] EXCEPT !.pc = "free"]
<1>1. /\ call[c].pc = "put" /\ call[c] \in CallState /\ CallOK(call[c]) /\ u \in Object
      /\ user \in [Object -> UserState] /\ call \in [Call -> CallState]
      /\ bus1_user_lock = NULL /\ KrefDec(u)
      /\ UNCHANGED <<bus1_user_idr, allocated, peer, warned>>
  BY DEF Put, UsersOK, TypeOK, CallsOK, CallOK
<1>2. Owns(call[c], u)
  BY <1>1 DEF Owns
<1>3. user[u] \in UserState /\ \A v \in Object : user[v].ref \in Nat
  BY <1>1 DEF UserState
<1>4. user[u].ref > 0 /\ u \in allocated
  BY <1>1, <1>2, OwnedIsCounted DEF UsersOK, CountsOK
<1>5. CASE user[u].ref # 1
  <2>1. Return(c) /\ UNCHANGED bus1_user_lock
    BY <1>5 DEF Put
  <2> HIDE DEF u
  <2>2. user[u].ref > 1
    BY SMTT(30), <1>1, <1>3, <1>4, <1>5
  <2> QED
    BY <1>1, <1>2, <2>1, <2>2, DropRef DEF Creating
<1>6. CASE user[u].ref = 1
  <2>1. /\ call' = [call EXCEPT ![c] = x] /\ x \in CallState /\ bus1_user_lock' = c
        /\ x.pc = "free" /\ x.user = u /\ x.peer = call[c].peer
    BY <1>1, <1>6 DEF Put, Goto, CallState
  <2>2. \A d \in Call : call'[d] = IF d = c THEN x ELSE call[d]
    BY <1>1, <2>1
  <2>3. [user[u] EXCEPT !.ref = @ - 1] \in UserState
    BY SMTT(30), <1>3, <1>6 DEF UserState
  <2>4. /\ user' \in [Object -> UserState]
        /\ \A v \in Object : /\ user'[v].uid = user[v].uid
                             /\ user'[v].ref = IF v = u THEN 0 ELSE user[v].ref
    BY SMTT(30), <1>1, <1>3, <1>6, <2>3 DEF KrefDec, UserState
  <2> HIDE DEF x, u
  <2>5. TypeOK'
    BY <1>1, <2>1, <2>4 DEF UsersOK, TypeOK
  <2>6. RefsFollow(c, x)
    <3> SUFFICES ASSUME NEW v \in Object
                 PROVE  /\ user'[v].ref = user[v].ref + (IF Owns(x, v) THEN 1 ELSE 0)
                                                      - (IF Owns(call[c], v) THEN 1 ELSE 0)
                        /\ user'[v].ref > 0 => v \in allocated
      BY <1>1 DEF RefsFollow
    <3>1. ~Owns(x, v) /\ (Owns(call[c], v) <=> v = u)
      BY <1>2, <2>1 DEF Owns
    <3>2. user[v].ref \in Nat /\ (user[v].ref > 0 => v \in allocated)
      BY <1>3 DEF UsersOK, CountsOK
    <3> QED
      BY SMTT(30), <1>6, <2>4, <3>1, <3>2
  <2>7. CountsOK'
    BY <1>1, <2>1, <2>6, CountsStep
  <2>8. \A v \in allocated \ {u} : v \in Object /\ user[v].ref # 0
    BY <1>1, UserAssumption DEF UsersOK, TypeOK, IdrOK
  <2>9. IdrOK'
    BY SMTT(30), <1>1, <2>1, <2>2, <2>4, <2>8 DEF UsersOK, TypeOK, IdrOK
  <2>10. \A d \in Call : call[d].pc # "free"
    BY <1>1, UserAssumption DEF UsersOK, CallsOK
  <2>11. Live' = Live
    BY <1>1 DEF Live
  <2>12. CallsOK'
    <3>1. \A d \in Call : call'[d].pc = "free" <=> bus1_user_lock' = d
      BY <2>1, <2>2, <2>10
    <3>2. ASSUME NEW d \in Call PROVE CallOK(call[d])'
      <4>1. CASE d = c
        BY <1>1, <1>4, <2>1, <2>2, <2>4, <4>1 DEF CallOK
      <4>2. CASE d # c
        BY <1>1, <2>2, <2>10, <2>11, <4>2 DEF UsersOK, CallsOK, CallOK
      <4> QED
        BY <4>1, <4>2
    <3>3. ASSUME NEW d \in Call, call'[d].pc \in Creating, NEW e \in Call \ {d}
          PROVE  call'[e].peer # call'[d].peer
      <4>1. d # c /\ call'[d] = call[d]
        BY <2>1, <2>2, <3>3 DEF Creating
      <4>2. call'[e].peer = call[e].peer
        BY <2>1, <2>2
      <4> QED
        BY <3>3, <4>1, <4>2, OwnPeer
    <3> QED
      BY <3>1, <3>2, <3>3 DEF CallsOK, Creating
  <2> QED
    BY <2>5, <2>7, <2>9, <2>12 DEF UsersOK
<1> QED
  BY <1>5, <1>6

(* bus1_user_free() takes the object out of the tree that nobody refers to.  *)
LEMMA UserFreeKeeps ==
  ASSUME UsersOK, NEW c \in Call, UserFree(c)
  PROVE  UsersOK'
<1> DEFINE u == call[c].user
<1>1. /\ call[c].pc = "free" /\ bus1_user_lock = c /\ call' = [call EXCEPT ![c] = Idle]
      /\ bus1_user_idr' = [bus1_user_idr EXCEPT ![user[u].uid] = NULL]
      /\ allocated' = allocated \ {u} /\ bus1_user_lock' = NULL
      /\ UNCHANGED <<user, peer>> /\ warned' \in BOOLEAN
      /\ u \in allocated /\ u \in Object /\ user[u].ref = 0 /\ user[u].uid \in Uid
  BY DEF UserFree, Return, UsersOK, TypeOK, CallsOK, CallOK, IdrOK
<1>2. \A d \in Call : call'[d] = IF d = c THEN Idle ELSE call[d]
  BY <1>1 DEF UsersOK, TypeOK
<1>3. TypeOK'
  BY <1>1, IdleOK DEF UsersOK, TypeOK
<1>4. CountsOK'
  <2>1. \A v \in Object : ~Owns(Idle, v) /\ ~Owns(call[c], v)
    BY <1>1, IdleOK DEF Owns
  <2>2. ASSUME NEW v \in Object
        PROVE  /\ user'[v].ref = user[v].ref + (IF Owns(Idle, v) THEN 1 ELSE 0)
                                             - (IF Owns(call[c], v) THEN 1 ELSE 0)
               /\ user'[v].ref > 0 => v \in allocated'
    <3>1. user[v].ref \in Nat /\ (user[v].ref > 0 => v \in allocated)
      BY DEF UsersOK, TypeOK, UserState, CountsOK
    <3> QED
      BY SMTT(30), <1>1, <2>1, <3>1
  <2>3. RefsFollow(c, Idle)
    BY <2>2 DEF RefsFollow
  <2> QED
    BY <1>1, <2>3, CountsStep
<1>5. \A d \in Call \ {c} : call[d].pc # "free"
  BY <1>1 DEF UsersOK, CallsOK
<1>6. IdrOK'
  <2>1. \A v \in allocated' : user[v].ref # 0 /\ v # u /\ v \in allocated
    BY <1>1 DEF UsersOK, IdrOK
  <2> HIDE DEF u
  <2> QED
    BY SMTT(30), <1>1, <2>1 DEF UsersOK, TypeOK, IdrOK
<1>7. Live' = Live
  BY <1>1 DEF Live
<1>8. CallsOK'
  <2>1. \A d \in Call : call'[d].pc = "free" <=> bus1_user_lock' = d
    BY <1>1, <1>2, <1>5, IdleOK, UserAssumption
  <2>2. ASSUME NEW d \in Call PROVE CallOK(call[d])'
    <3>1. CASE d = c
      BY SMTT(30), <1>2, <3>1 DEF CallOK, Idle
    <3>2. CASE d # c
      <4>1. CallOK(call[d])
        BY DEF UsersOK, CallsOK
      <4>2. call'[d] = call[d] /\ call[d].pc # "free"
        BY <1>2, <1>5, <3>2
      <4> QED
        BY SMTT(30), <1>1, <1>7, <4>1, <4>2 DEF CallOK
    <3> QED
      BY <3>1, <3>2
  <2>3. ASSUME NEW d \in Call, call'[d].pc \in Creating, NEW e \in Call \ {d}
        PROVE  call'[e].peer # call'[d].peer
    <3>1. d # c /\ call'[d].peer \in Peer
      BY <1>2, <2>3, IdleOK DEF UsersOK, CallsOK, CallOK, Creating
    <3>2. CASE e = c
      BY <1>2, <3>1, <3>2, IdleOK, UserAssumption
    <3>3. CASE e # c
      BY <1>2, <2>3, <3>1, <3>3, OwnPeer
    <3> QED
      BY <3>2, <3>3
  <2> QED
    BY <2>1, <2>2, <2>3 DEF CallsOK, Creating
<1> QED
  BY <1>3, <1>4, <1>6, <1>8 DEF UsersOK

(* A reference goes from a call to a peer or back.                           *)
HandsOver(c, x, p, y) ==
  \A u \in Object :
    (IF Owns(x, u) THEN 1 ELSE 0) + (IF y.user = u THEN 1 ELSE 0)
    = (IF Owns(call[c], u) THEN 1 ELSE 0) + (IF peer[p].user = u THEN 1 ELSE 0)

(* The counts stay exact when a reference changes hands.                     *)
LEMMA Handover ==
  ASSUME UsersOK, NEW c \in Call, NEW x, call' = [call EXCEPT ![c] = x],
         NEW p \in Peer, NEW y, peer' = [peer EXCEPT ![p] = y],
         UNCHANGED <<user, allocated>>, HandsOver(c, x, p, y)
  PROVE  CountsOK'
<1> SUFFICES ASSUME NEW u \in Object
             PROVE  user[u].ref = Cardinality(PeersOf(u)') + Cardinality(Owning(u)')
  BY DEF CountsOK, UsersOK
<1> DEFINE a == IF Owns(x, u) THEN 1 ELSE 0
           b == IF Owns(call[c], u) THEN 1 ELSE 0
           d == IF y.user = u THEN 1 ELSE 0
           e == IF peer[p].user = u THEN 1 ELSE 0
<1>1. a + d = b + e /\ a \in Nat /\ b \in Nat /\ d \in Nat /\ e \in Nat
  BY DEF HandsOver
<1>2. Cardinality(Owning(u)) \in Nat /\ Cardinality(Owning(u)') = Cardinality(Owning(u)) + a - b
  BY OwningStep DEF UsersOK
<1>3. Cardinality(PeersOf(u)) \in Nat /\ Cardinality(PeersOf(u)') = Cardinality(PeersOf(u)) + d - e
  BY PeersStep DEF UsersOK
<1>4. user[u].ref = Cardinality(PeersOf(u)) + Cardinality(Owning(u))
  BY DEF UsersOK, CountsOK
<1> DEFINE m == Cardinality(PeersOf(u))
           n == Cardinality(Owning(u))
<1>5. m \in Nat /\ n \in Nat
  BY <1>2, <1>3
<1>6. Cardinality(PeersOf(u)') = m + d - e /\ Cardinality(Owning(u)') = n + a - b
  BY <1>2, <1>3
<1>7. user[u].ref = m + n
  BY <1>4
<1> HIDE DEF a, b, d, e, m, n
<1>8. (m + d - e) + (n + a - b) = m + n
  BY SMTT(30), <1>1, <1>5
<1> QED
  BY <1>6, <1>7, <1>8

(* The peer takes over the reference of the call.                            *)
LEMMA PeerNewKeeps ==
  ASSUME UsersOK, NEW c \in Call, PeerNew(c)
  PROVE  UsersOK'
<1> DEFINE p == call[c].peer  u == call[c].user
           y == [user |-> u, n |-> MaxUser, max |-> MaxUser]
           x == [call[c] EXCEPT !.pc = "unref"]
<1>1. /\ call[c].pc = "new" /\ call[c] \in CallState /\ CallOK(call[c]) /\ u \in Object
      /\ p \in Peer /\ p \notin Live /\ \A d \in Call \ {c} : call[d].peer # p
      /\ user \in [Object -> UserState] /\ peer \in [Peer -> PeerState]
      /\ call \in [Call -> CallState]
      /\ UNCHANGED <<bus1_user_idr, user, allocated, bus1_user_lock, warned>>
  BY DEF PeerNew, UsersOK, TypeOK, CallsOK, CallOK
<1>2. \A v \in Object : Owns(call[c], v) <=> v = u
  BY <1>1 DEF Owns
<1>3. CASE peer' = [peer EXCEPT ![p] = y] /\ Return(c)
  <2>1. y \in PeerState /\ y.user = u
    <3>1. MaxUser \in Nat /\ MaxUser \in Int
      BY SMTT(30), UserAssumption
    <3> HIDE DEF u
    <3> QED
      BY <1>1, <3>1 DEF PeerState
  <2>2. peer[p].user = NULL
    BY <1>1 DEF Live
  <2>3. call' = [call EXCEPT ![c] = Idle]
    BY <1>3 DEF Return
  <2>4. \A d \in Call : call'[d] = IF d = c THEN Idle ELSE call[d]
    BY <1>1, <2>3
  <2> HIDE DEF y, p, u
  <2>5. TypeOK'
    BY <1>1, <1>3, <2>1, <2>3, IdleOK DEF UsersOK, TypeOK
  <2>6. CountsOK'
    <3>1. ASSUME NEW v \in Object
          PROVE  (IF Owns(Idle, v) THEN 1 ELSE 0) + (IF y.user = v THEN 1 ELSE 0)
                 = (IF Owns(call[c], v) THEN 1 ELSE 0)
                   + (IF peer[p].user = v THEN 1 ELSE 0)
      <4>1. /\ ~Owns(Idle, v) /\ NULL # v /\ (Owns(call[c], v) <=> v = u)
            /\ y.user = u /\ peer[p].user = NULL
        BY <1>2, <2>1, <2>2, IdleOK, UserAssumption
      <4>2. CASE v = u
        BY SMTT(30), <4>1, <4>2
      <4>3. CASE v # u
        BY <4>1, <4>3
      <4> QED
        BY <4>2, <4>3
    <3>2. HandsOver(c, Idle, p, y)
      BY <3>1 DEF HandsOver
    <3> QED
      BY <1>1, <1>3, <2>3, <3>2, Handover
  <2>7. IdrOK'
    BY <1>1, <2>4 DEF UsersOK, IdrOK
  <2>8. Live' = Live \cup {p}
    BY SMTT(30), <1>1, <1>3, <2>1, UserAssumption DEF Live
  <2>9. CallsOK'
    <3>1. \A d \in Call : call'[d].pc = "free" <=> bus1_user_lock' = d
      BY <1>1, <2>4, IdleOK DEF UsersOK, CallsOK
    <3>2. ASSUME NEW d \in Call PROVE CallOK(call[d])'
      <4>1. CASE d = c
        BY SMTT(30), <2>4, <4>1 DEF CallOK, Idle
      <4>2. CASE d # c
        BY <1>1, <2>4, <2>8, <4>2 DEF UsersOK, CallsOK, CallOK
      <4> QED
        BY <4>1, <4>2
    <3>3. ASSUME NEW d \in Call, call'[d].pc \in Creating, NEW e \in Call \ {d}
          PROVE  call'[e].peer # call'[d].peer
      <4>1. d # c /\ call[d].peer \in Peer
        BY <2>4, <3>3, IdleOK DEF UsersOK, CallsOK, CallOK, Creating
      <4>2. CASE e = c
        BY <2>4, <4>1, <4>2, IdleOK, UserAssumption
      <4>3. CASE e # c
        BY <2>4, <3>3, <4>1, <4>3, OwnPeer
      <4> QED
        BY <4>2, <4>3
    <3> QED
      BY <3>1, <3>2, <3>3 DEF CallsOK, Creating
  <2> QED
    BY <2>5, <2>6, <2>7, <2>9 DEF UsersOK
<1>4. CASE Goto(c, "unref") /\ UNCHANGED peer
  <2>1. /\ call' = [call EXCEPT ![c] = x] /\ x \in CallState
        /\ x.pc = "unref" /\ x.user = u /\ x.peer = p
    BY <1>1, <1>4 DEF Goto, CallState
  <2> HIDE DEF x
  <2>2. \A v \in Object : Owns(x, v) <=> Owns(call[c], v)
    BY <1>1, <2>1 DEF Owns
  <2>3. RefsFollow(c, x)
    BY <1>1, <2>2, SameRefs
  <2>4. Quiet(c, x)
    BY <1>1, <1>4, <2>1 DEF Quiet, CallOK, Creating
  <2> QED
    BY <2>3, <2>4, QuietStep
<1> QED
  BY <1>3, <1>4 DEF PeerNew

(* bus1_peer_free() keeps the reference of the peer until it is dropped.     *)
LEMMA PeerFreeKeeps ==
  ASSUME UsersOK, NEW c \in Call, NEW p \in Peer, PeerFree(c, p)
  PROVE  UsersOK'
<1> DEFINE u == peer[p].user
           y == [user |-> NULL, n |-> 0, max |-> 0]
           x == [Idle EXCEPT !.pc = "unref", !.user = u]
<1>1. /\ call[c].pc = "idle" /\ call[c].user = NULL
      /\ p \in Live /\ \A d \in Call : call[d].peer # p /\ call[d].by # p
      /\ peer \in [Peer -> PeerState] /\ call \in [Call -> CallState]
      /\ call' = [call EXCEPT ![c] = x] /\ peer' = [peer EXCEPT ![p] = y]
      /\ UNCHANGED <<bus1_user_idr, user, allocated, bus1_user_lock>>
      /\ warned' \in BOOLEAN
  BY DEF PeerFree, UsersOK, TypeOK, CallsOK, CallOK
<1>2. u \in Object /\ y \in PeerState /\ y.user = NULL
  BY SMTT(30), <1>1 DEF Live, PeerState
<1>3. x \in CallState /\ x.pc = "unref" /\ x.user = u /\ x.peer = NULL
  BY <1>2, UserAssumption DEF Idle, CallState
<1>4. \A d \in Call : call'[d] = IF d = c THEN x ELSE call[d]
  BY <1>1
<1> HIDE DEF x, y
<1>5. TypeOK'
  BY <1>1, <1>2, <1>3 DEF UsersOK, TypeOK
<1>6. CountsOK'
  <2>1. ASSUME NEW v \in Object
        PROVE  (IF Owns(x, v) THEN 1 ELSE 0) + (IF y.user = v THEN 1 ELSE 0)
               = (IF Owns(call[c], v) THEN 1 ELSE 0)
                 + (IF peer[p].user = v THEN 1 ELSE 0)
    <3>1. /\ ~Owns(call[c], v) /\ NULL # v /\ (Owns(x, v) <=> v = u)
          /\ y.user = NULL
      BY <1>1, <1>2, <1>3, UserAssumption DEF Owns
    <3>2. CASE v = u
      BY SMTT(30), <3>1, <3>2
    <3>3. CASE v # u
      BY <3>1, <3>3
    <3> QED
      BY <3>2, <3>3
  <2>2. HandsOver(c, x, p, y)
    BY <2>1 DEF HandsOver
  <2> QED
    BY <1>1, <2>2, Handover
<1>7. IdrOK'
  BY <1>1, <1>4 DEF UsersOK, IdrOK
<1>8. Live' = Live \ {p}
  BY <1>1, <1>2 DEF Live
<1>9. CallsOK'
  <2>1. \A d \in Call : call'[d].pc = "free" <=> bus1_user_lock' = d
    BY <1>1, <1>3, <1>4 DEF UsersOK, CallsOK
  <2>2. ASSUME NEW d \in Call PROVE CallOK(call[d])'
    <3>1. CASE d = c
      BY <1>2, <1>3, <1>4, <3>1 DEF CallOK
    <3>2. CASE d # c
      BY <1>1, <1>4, <1>8, <3>2 DEF UsersOK, CallsOK, CallOK
    <3> QED
      BY <3>1, <3>2
  <2>3. ASSUME NEW d \in Call, call'[d].pc \in Creating, NEW e \in Call \ {d}
        PROVE  call'[e].peer # call'[d].peer
    <3>1. d # c /\ call[d].peer \in Peer
      BY <1>3, <1>4, <2>3 DEF UsersOK, CallsOK, CallOK, Creating
    <3> QED
      BY <1>3, <1>4, <2>3, <3>1, UserAssumption DEF UsersOK, CallsOK, Creating
  <2> QED
    BY <2>1, <2>2, <2>3 DEF CallsOK, Creating
<1> QED
  BY <1>5, <1>6, <1>7, <1>9 DEF UsersOK

(* The slow path finds an object that is not being freed, since it has the   *)
(* lock, creates one, or fails.                                              *)
LEMMA UserNewKeeps ==
  ASSUME UsersOK, NEW c \in Call, NEW u \in Object, UserNew(c, u),
         call[c].pc = "slow", bus1_user_lock = NULL,
         bus1_user_idr[call[c].uid] = NULL,
         UNCHANGED <<bus1_user_lock, peer, warned>>
  PROVE  UsersOK'
<1> DEFINE x == [call[c] EXCEPT !.pc = "new", !.user = u]
           i == call[c].uid
           y == [ref |-> 1, uid |-> i, n |-> MaxUser]
<1>1. /\ call[c] \in CallState /\ CallOK(call[c]) /\ i \in Uid
      /\ \A d \in Call \ {c} : call[d].peer # call[c].peer
      /\ user \in [Object -> UserState] /\ call \in [Call -> CallState]
      /\ call[c].user = NULL
  BY DEF UsersOK, TypeOK, CallsOK, CallOK
<1>2. /\ u \notin allocated /\ allocated' = allocated \cup {u}
      /\ user' = [user EXCEPT ![u] = y]
      /\ bus1_user_idr' = [bus1_user_idr EXCEPT ![i] = u]
  BY DEF UserNew
<1>3. /\ call' = [call EXCEPT ![c] = x] /\ x \in CallState /\ x.pc = "new"
      /\ x.user = u /\ x.peer = call[c].peer /\ x.uid = i
  BY <1>1 DEF UserNew, CallState
<1>4. y \in UserState /\ y.ref = 1 /\ y.uid = i
  BY SMTT(30), <1>1, UserAssumption DEF UserState
<1> HIDE DEF x, y, i
<1>5. \A d \in Call : call'[d] = IF d = c THEN x ELSE call[d]
  BY <1>1, <1>3
<1>6. \A v \in Object : user'[v] = IF v = u THEN y ELSE user[v]
  BY <1>1, <1>2
<1>7. user[u].ref = 0 /\ \A v \in Object : user[v].ref \in Nat
  BY SMTT(30), <1>1, <1>2 DEF UserState, UsersOK, CountsOK
<1>8. TypeOK'
  BY <1>1, <1>2, <1>3, <1>4 DEF UsersOK, TypeOK
<1>9. CountsOK'
  <2>1. ASSUME NEW v \in Object
        PROVE  /\ user'[v].ref = user[v].ref + (IF Owns(x, v) THEN 1 ELSE 0)
                                             - (IF Owns(call[c], v) THEN 1 ELSE 0)
               /\ user'[v].ref > 0 => v \in allocated'
    <3>1. ~Owns(call[c], v) /\ (Owns(x, v) <=> v = u)
      BY <1>1, <1>3, UserAssumption DEF Owns
    <3>2. user[v].ref \in Nat /\ (user[v].ref > 0 => v \in allocated)
      BY <1>7 DEF UsersOK, CountsOK
    <3>3. CASE v = u
      BY SMTT(30), <1>2, <1>4, <1>6, <1>7, <3>1, <3>3
    <3>4. CASE v # u
      BY SMTT(30), <1>2, <1>6, <3>1, <3>2, <3>4
    <3> QED
      BY <3>3, <3>4
  <2>2. RefsFollow(c, x)
    BY <2>1 DEF RefsFollow
  <2> QED
    BY <1>3, <2>2, CountsStep
<1>10. \A v \in allocated : /\ v # u /\ v \in Object /\ user[v].ref # 0
                            /\ user[v].uid \in Uid \ {i} /\ bus1_user_idr[user[v].uid] = v
  <2>1. \A v \in allocated : v \in Object /\ user[v].ref # 0
    BY UserAssumption DEF UsersOK, TypeOK, IdrOK
  <2>2. \A v \in allocated : user[v].uid \in Uid /\ bus1_user_idr[user[v].uid] = v
    BY DEF UsersOK, IdrOK
  <2>3. bus1_user_idr[i] \notin allocated
    BY <2>1, UserAssumption DEF i
  <2> QED
    BY <1>2, <2>1, <2>2, <2>3
<1>11. IdrOK'
  BY SMTT(30), <1>1, <1>2, <1>4, <1>6, <1>10 DEF UsersOK, TypeOK, IdrOK
<1>12. \A d \in Call : call[d].pc # "free"
  BY UserAssumption DEF UsersOK, CallsOK
<1>13. Live' = Live
  BY DEF Live
<1>14. CallsOK'
  <2>1. \A d \in Call : call'[d].pc = "free" <=> bus1_user_lock' = d
    BY <1>3, <1>5, <1>12, UserAssumption
  <2>2. ASSUME NEW d \in Call PROVE CallOK(call[d])'
    <3>1. CASE d = c
      BY <1>1, <1>3, <1>5, <1>13, <3>1 DEF CallOK
    <3>2. CASE d # c
      BY <1>5, <1>12, <1>13, <3>2 DEF UsersOK, CallsOK, CallOK
    <3> QED
      BY <3>1, <3>2
  <2>3. ASSUME NEW d \in Call, call'[d].pc \in Creating, NEW e \in Call \ {d}
        PROVE  call'[e].peer # call'[d].peer
    BY <1>1, <1>3, <1>5, <2>3 DEF UsersOK, CallsOK, Creating
  <2> QED
    BY <2>1, <2>2, <2>3 DEF CallsOK, Creating
<1> QED
  BY <1>8, <1>9, <1>11, <1>14 DEF UsersOK

(* The slow path of bus1_user_ref_by_uid(), under bus1_user_lock.            *)
LEMMA RefSlowKeeps ==
  ASSUME UsersOK, NEW c \in Call, RefSlow(c)
  PROVE  UsersOK'
<1> DEFINE u == bus1_user_idr[call[c].uid]
           x == [call[c] EXCEPT !.pc = "new", !.user = u]
<1>1. /\ call[c].pc = "slow" /\ call[c] \in CallState /\ CallOK(call[c])
      /\ call[c].user = NULL /\ call[c].uid \in Uid /\ bus1_user_lock = NULL
      /\ \A d \in Call \ {c} : call[d].peer # call[c].peer
      /\ user \in [Object -> UserState] /\ peer \in [Peer -> PeerState]
      /\ UNCHANGED <<bus1_user_lock, peer, warned>>
  BY DEF RefSlow, UsersOK, TypeOK, CallsOK, CallOK
<1>2. \A v \in Object : ~Owns(call[c], v)
  BY <1>1, UserAssumption DEF Owns
<1>3. CASE /\ u # NULL /\ KrefGet(u)
           /\ call' = [call EXCEPT ![c].pc = "new", ![c].user = u]
           /\ UNCHANGED <<bus1_user_idr, allocated>>
  <2>1. u \in allocated /\ u \in Object
    BY <1>1, <1>3 DEF UsersOK, TypeOK, IdrOK
  <2>2. user[u].ref > 0
    BY SMTT(30), <1>1, <2>1, UserAssumption DEF UsersOK, IdrOK, UserState
  <2>3. /\ x \in CallState /\ x.pc = "new" /\ x.user = u /\ x.peer = call[c].peer
        /\ x.uid = call[c].uid /\ call' = [call EXCEPT ![c] = x]
    BY <1>1, <1>3, <2>1 DEF CallState, UsersOK, TypeOK
  <2> HIDE DEF x, u
  <2>4. Owns(x, u)
    BY <2>3 DEF Owns
  <2>5. /\ RefsFollow(c, x)
        /\ user' \in [Object -> UserState]
        /\ \A v \in Object : /\ user'[v].uid = user[v].uid
                             /\ user'[v].ref = 0 <=> user[v].ref = 0
    BY <1>2, <1>3, <2>1, <2>2, <2>3, <2>4, GetRef
  <2>6. Quiet(c, x)
    BY <1>1, <1>3, <2>1, <2>3, <2>5 DEF Quiet, CallOK, Creating
  <2> QED
    BY <2>5, <2>6, QuietStep
<1>4. CASE u = NULL /\ \E v \in Object : UserNew(c, v)
  BY <1>1, <1>4, UserNewKeeps
<1>5. CASE Return(c) /\ UNCHANGED <<bus1_user_idr, user, allocated>>
  <2>1. RefsFollow(c, Idle)
    BY <1>2, <1>5, IdleOK, SameRefs
  <2>2. Quiet(c, Idle)
    BY <1>1, <1>5, IdleOK DEF Quiet, Creating, Return
  <2> QED
    BY <2>1, <2>2, QuietStep
<1> QED
  BY <1>3, <1>4, <1>5 DEF RefSlow

---------------------------------------------------------------------------
(* Every step keeps the invariant.                                           *)
LEMMA NextKeeps == UsersOK /\ [Next]_vars => UsersOK'
<1> SUFFICES ASSUME UsersOK, [Next]_vars PROVE UsersOK'
  OBVIOUS
<1>1. CASE UNCHANGED vars
  <2>1. UNCHANGED <<bus1_user_idr, user, allocated, bus1_user_lock, peer, call, warned>>
    BY <1>1 DEF vars
  <2>2. TypeOK'
    BY <2>1 DEF UsersOK, TypeOK
  <2>3. CountsOK'
    BY <2>1 DEF UsersOK, CountsOK, PeersOf, Owning
  <2>4. IdrOK'
    BY <2>1 DEF UsersOK, IdrOK
  <2>5. CallsOK'
    BY <2>1 DEF UsersOK, CallsOK, CallOK, Live
  <2> QED
    BY <2>2, <2>3, <2>4, <2>5 DEF UsersOK
<1>2. CASE \E p \in Peer, l \in Limit : SetLimit(p, l)
  BY <1>2, SetLimitKeeps
<1>3. ASSUME NEW c \in Call, NEW p \in Peer,
             \/ \E uid \in Uid : RefByUid(c, p, uid)
             \/ \E s \in Peer : Send(c, s, p)
             \/ PeerFree(c, p)
      PROVE  UsersOK'
  BY <1>3, RefByUidKeeps, SendKeeps, PeerFreeKeeps
<1>4. ASSUME NEW c \in Call,
             \/ RefFast(c) \/ RefSlow(c) \/ PeerNew(c)
             \/ ChargeGlobal(c) \/ ChargeLocal(c) \/ ChargeRevert(c)
             \/ MessageUser(c) \/ Discharge(c) \/ DischargeGlobal(c)
             \/ Unref(c) \/ Put(c) \/ UserFree(c)
      PROVE  UsersOK'
  BY <1>4, RefFastKeeps, RefSlowKeeps, PeerNewKeeps, ChargeGlobalKeeps,
     ChargeLocalKeeps, ChargeRevertKeeps, MessageUserKeeps, DischargeKeeps,
     DischargeGlobalKeeps, UnrefKeeps, PutKeeps, UserFreeKeeps
<1> QED
  BY <1>1, <1>2, <1>3, <1>4 DEF Next

(* The reference counts of the users are exact and an object that a peer, a  *)
(* message or a call refers to is never freed, for any number of calls.      *)
THEOREM UsersInductive == Spec => []UsersOK
<1>1. Init => UsersOK
  BY InitUsers
<1>2. UsersOK /\ [Next]_vars => UsersOK'
  BY NextKeeps
<1> QED
  BY <1>1, <1>2, PTL DEF Spec

(* All peers of a uid, and the messages they sent, share one object: the     *)
(* count says the object is allocated, and the tree finds one per uid.       *)
THEOREM OneUser == Spec => []OneUserPerUid
<1>1. UsersOK => OneUserPerUid
  <2> SUFFICES ASSUME UsersOK, NEW u \in Object, NEW v \in Object,
                      PeersOf(u) \cup Owning(u) # {}
               PROVE  /\ u \in allocated
                      /\ user[u].uid = user[v].uid /\ PeersOf(v) \cup Owning(v) # {} => u = v
    BY DEF OneUserPerUid
  <2>1. \A w \in Object : PeersOf(w) \cup Owning(w) # {} => w \in allocated
    BY OwnedIsCounted DEF UsersOK, CountsOK
  <2> QED
    BY <2>1 DEF UsersOK, IdrOK
<1> QED
  BY <1>1, UsersInductive, PTL
---------------------------------------------------------------------------
(* The charges.  What the calls hold of a limit is a sum over all calls, of  *)
(* which a step changes one summand.                                         *)
LocalSum(p) == SumFunctionOnSet([c \in Call |-> Local(call[c], p)], Call)
GlobalSum(u) == SumFunctionOnSet([c \in Call |-> Global(call[c], u)], Call)

LEMMA SumsOf ==
  /\ \A p : SumFunction([c \in Call |-> Local(call[c], p)]) = LocalSum(p)
  /\ \A u : SumFunction([c \in Call |-> Global(call[c], u)]) = GlobalSum(u)
BY DEF SumFunction, LocalSum, GlobalSum

LEMMA HeldIsNat ==
  ASSUME TypeOK, NEW d \in Call
  PROVE  /\ \A p : Local(call[d], p) \in Nat
         /\ \A u : Global(call[d], u) \in Nat
BY DEF TypeOK, CallState, Local, Global

LEMMA SumsAreNat ==
  ASSUME TypeOK
  PROVE  /\ \A p : LocalSum(p) \in Nat
         /\ \A u : GlobalSum(u) \in Nat
<1>1. ASSUME NEW p PROVE LocalSum(p) \in Nat
  <2> DEFINE f == [c \in Call |-> Local(call[c], p)]
  <2>1. \A c \in Call : f[c] \in Nat
    BY HeldIsNat
  <2> HIDE DEF f
  <2>2. SumFunctionOnSet(f, Call) \in Nat
    BY <2>1, UserAssumption, SumNat
  <2> QED
    BY <2>2 DEF LocalSum, f
<1>2. ASSUME NEW u PROVE GlobalSum(u) \in Nat
  <2> DEFINE f == [c \in Call |-> Global(call[c], u)]
  <2>1. \A c \in Call : f[c] \in Nat
    BY HeldIsNat
  <2> HIDE DEF f
  <2>2. SumFunctionOnSet(f, Call) \in Nat
    BY <2>1, UserAssumption, SumNat
  <2> QED
    BY <2>2 DEF GlobalSum, f
<1> QED
  BY <1>1, <1>2

(* A step of the call c changes the sums by what c holds.                    *)
LEMMA LocalStep ==
  ASSUME TypeOK, TypeOK', NEW c \in Call, NEW p,
         \A d \in Call \ {c} : call'[d] = call[d]
  PROVE  LocalSum(p)' = LocalSum(p) + (Local(call[c], p)' - Local(call[c], p))
<1> DEFINE f == [d \in Call |-> Local(call[d], p)]
           g == [d \in Call |-> Local(call'[d], p)]
<1>1. \A d \in Call : f[d] \in Int /\ g[d] \in Int
  BY SMTT(30), HeldIsNat DEF TypeOK, CallState, Local
<1>2. \A d \in Call \ {c} : f[d] = g[d]
  BY DEF Local
<1>3. f[c] = Local(call[c], p) /\ g[c] = Local(call[c], p)'
  BY DEF Local
<1>4. LocalSum(p) = SumFunctionOnSet(f, Call) /\ LocalSum(p)' = SumFunctionOnSet(g, Call)
  BY DEF LocalSum, Local
<1> HIDE DEF f, g
<1>5. SumFunctionOnSet(g, Call) = SumFunctionOnSet(f, Call) + (g[c] - f[c])
  BY SMTT(30), <1>1, <1>2, UserAssumption, SumChange
<1> QED
  BY <1>3, <1>4, <1>5

LEMMA GlobalStep ==
  ASSUME TypeOK, TypeOK', NEW c \in Call, NEW u,
         \A d \in Call \ {c} : Global(call[d], u)' = Global(call[d], u)
  PROVE  GlobalSum(u)' = GlobalSum(u) + (Global(call[c], u)' - Global(call[c], u))
<1> DEFINE f == [d \in Call |-> Global(call[d], u)]
           g == [d \in Call |-> Global(call[d], u)']
<1>1. \A d \in Call : f[d] \in Int /\ g[d] \in Int
  BY SMTT(30), HeldIsNat DEF TypeOK, CallState, Global
<1>2. \A d \in Call \ {c} : f[d] = g[d]
  OBVIOUS
<1>3. f[c] = Global(call[c], u) /\ g[c] = Global(call[c], u)'
  OBVIOUS
<1>4. GlobalSum(u) = SumFunctionOnSet(f, Call) /\ GlobalSum(u)' = SumFunctionOnSet(g, Call)
  BY DEF GlobalSum
<1> HIDE DEF f, g
<1>5. SumFunctionOnSet(g, Call) = SumFunctionOnSet(f, Call) + (g[c] - f[c])
  BY SMTT(30), <1>1, <1>2, UserAssumption, SumChange
<1> QED
  BY <1>3, <1>4, <1>5

LEMMA OthersHold ==
  ASSUME UsersOK, NEW d \in Call, call'[d] = call[d],
         \A p \in Peer : p = call[d].peer => peer'[p].user = peer[p].user
  PROVE  \A u : Global(call[d], u)' = Global(call[d], u)
<1>1. call[d].pc \in {"local", "revert", "charged", "message", "discharge"} =>
        call[d].peer \in Peer
  BY DEF UsersOK, CallsOK, CallOK, Live
<1> QED
  BY <1>1 DEF Global

(* A counter that moves with what the call holds stays balanced.             *)
LEMMA BalancedStep ==
  ASSUME UsersOK, TypeOK', Balanced, NEW c \in Call,
         \A d \in Call \ {c} : call'[d] = call[d],
         \A p \in Peer : peer'[p].user = peer[p].user,
         allocated' \subseteq allocated,
         \A p \in Live : peer'[p].max - peer'[p].n =
           (peer[p].max - peer[p].n) + (Local(call[c], p)' - Local(call[c], p)),
         \A u \in allocated :
           /\ user'[u].n = user[u].n - (Global(call[c], u)' - Global(call[c], u))
           /\ user'[u].n >= 0
  PROVE  Balanced'
<1>1. TypeOK /\ Live' = Live /\ Live \subseteq Peer
  BY DEF UsersOK, Live
<1>2. ASSUME NEW p \in Live
      PROVE  peer'[p].n + LocalSum(p)' = peer'[p].max
  <2>1. LocalSum(p)' = LocalSum(p) + (Local(call[c], p)' - Local(call[c], p))
    BY <1>1, LocalStep
  <2>2. peer[p].n + LocalSum(p) = peer[p].max
    BY SumsOf DEF Balanced
  <2> DEFINE a == LocalSum(p)
             b == Local(call[c], p)
             e == Local(call[c], p)'
  <2>3. a \in Int /\ b \in Int /\ e \in Int
    BY SMTT(30), <1>1, SumsAreNat, HeldIsNat DEF TypeOK, CallState, Local
  <2>4. /\ peer[p].n \in Int /\ peer[p].max \in Int
        /\ peer'[p].n \in Int /\ peer'[p].max \in Int
    BY SMTT(30), <1>1 DEF TypeOK, PeerState
  <2>5. peer'[p].max - peer'[p].n = (peer[p].max - peer[p].n) + (e - b)
    OBVIOUS
  <2> HIDE DEF a, b, e
  <2>6. peer'[p].n + (a + (e - b)) = peer'[p].max
    BY SMTT(30), <2>2, <2>3, <2>4, <2>5 DEF a
  <2> QED
    BY <2>1, <2>6 DEF a, b, e
<1>3. ASSUME NEW u \in allocated
      PROVE  user'[u].n + GlobalSum(u)' = MaxUser
  <2>1. GlobalSum(u)' = GlobalSum(u) + (Global(call[c], u)' - Global(call[c], u))
    <3>1. \A d \in Call \ {c} : Global(call[d], u)' = Global(call[d], u)
      BY OthersHold
    <3> QED
      BY <1>1, <3>1, GlobalStep
  <2>2. user[u].n + GlobalSum(u) = MaxUser
    BY SumsOf DEF Balanced
  <2> DEFINE a == GlobalSum(u)
             b == Global(call[c], u)
             e == Global(call[c], u)'
  <2>3. a \in Int /\ b \in Int /\ e \in Int /\ user[u].n \in Int
    BY SMTT(30), <1>1, SumsAreNat, HeldIsNat DEF TypeOK, CallState, UserState, Global
  <2>4. user'[u].n = user[u].n - (e - b)
    OBVIOUS
  <2> HIDE DEF a, b, e
  <2>5. user'[u].n + (a + (e - b)) = MaxUser
    BY SMTT(30), <2>2, <2>3, <2>4, UserAssumption DEF a
  <2> QED
    BY <2>1, <2>5 DEF a, b, e
<1>4. /\ \A p : SumFunction([d \in Call |-> Local(call[d], p)])' = LocalSum(p)'
      /\ \A u : SumFunction([d \in Call |-> Global(call[d], u)])' = GlobalSum(u)'
  BY SumsOf DEF SumFunction, LocalSum, GlobalSum
<1> QED
  BY <1>1, <1>2, <1>3, <1>4 DEF Balanced

(* A step after which the call holds what it held before.                    *)
LEMMA SameHeld ==
  ASSUME UsersOK, TypeOK', Balanced, NEW c \in Call,
         \A d \in Call \ {c} : call'[d] = call[d],
         \A p \in Peer : peer'[p] = peer[p],
         allocated' \subseteq allocated,
         \A u \in allocated : user'[u].n = user[u].n,
         \A p \in Live : Local(call[c], p)' = Local(call[c], p),
         \A u \in allocated : Global(call[c], u)' = Global(call[c], u)
  PROVE  Balanced'
<1>1. TypeOK /\ Live \subseteq Peer /\ allocated \subseteq Object
  BY DEF UsersOK, TypeOK, Live
<1>2. ASSUME NEW p \in Live
      PROVE  peer'[p].max - peer'[p].n =
               (peer[p].max - peer[p].n) + (Local(call[c], p)' - Local(call[c], p))
  <2>1. Local(call[c], p) \in Nat /\ peer[p].max \in Int /\ peer[p].n \in Int
    BY SMTT(30), <1>1, HeldIsNat DEF TypeOK, PeerState
  <2>2. Local(call[c], p)' = Local(call[c], p) /\ peer'[p] = peer[p]
    BY <1>1
  <2> QED
    BY SMTT(30), <2>1, <2>2
<1>3. ASSUME NEW u \in allocated
      PROVE  /\ user'[u].n = user[u].n - (Global(call[c], u)' - Global(call[c], u))
             /\ user'[u].n >= 0
  <2>1. Global(call[c], u) \in Nat /\ user[u].n \in Int /\ user[u].n >= 0
    BY <1>1, HeldIsNat DEF TypeOK, UserState, Balanced
  <2>2. Global(call[c], u)' = Global(call[c], u) /\ user'[u].n = user[u].n
    OBVIOUS
  <2> QED
    BY SMTT(30), <2>1, <2>2
<1> QED
  BY <1>2, <1>3, BalancedStep

(* What the shorthands for the next step of a call change.                   *)
LEMMA GotoCall ==
  ASSUME UsersOK, NEW c \in Call, NEW pc, Goto(c, pc)
  PROVE  /\ \A d \in Call \ {c} : call'[d] = call[d]
         /\ call'[c].pc = pc /\ call'[c].peer = call[c].peer
         /\ call'[c].charge = call[c].charge
BY DEF UsersOK, TypeOK, Goto, CallState

LEMMA ReturnCall ==
  ASSUME UsersOK, NEW c \in Call, Return(c)
  PROVE  /\ \A d \in Call \ {c} : call'[d] = call[d]
         /\ call'[c] = Idle /\ call'[c].pc = "idle"
BY DEF UsersOK, TypeOK, Return, Idle

LEMMA KrefSame ==
  ASSUME UsersOK, NEW v, KrefGet(v) \/ KrefDec(v)
  PROVE  \A u \in Object : user'[u].n = user[u].n
BY SMTT(30) DEF UsersOK, TypeOK, KrefGet, KrefDec, UserState

(* A call that is not in a charge before or after the step holds nothing.    *)
Charged == {"local", "revert", "charged", "message", "discharge"}
HoldsNothing(c) ==
  /\ \A d \in Call \ {c} : call'[d] = call[d]
  /\ call[c].pc \notin Charged /\ call'[c].pc \notin Charged
  /\ peer' = peer /\ allocated' \subseteq allocated
  /\ \A u \in Object : user'[u].n = user[u].n

LEMMA NothingHeld ==
  ASSUME UsersOK, UsersOK', Balanced, NEW c \in Call, HoldsNothing(c)
  PROVE  Balanced'
<1>1. /\ \A p \in Live : Local(call[c], p)' = Local(call[c], p)
      /\ \A u \in allocated : Global(call[c], u)' = Global(call[c], u)
  BY DEF Local, Global, Charged, HoldsNothing
<1>2. TypeOK' /\ allocated \subseteq Object
  BY DEF UsersOK, TypeOK
<1>3. /\ \A d \in Call \ {c} : call'[d] = call[d]
      /\ \A p \in Peer : peer'[p] = peer[p]
      /\ allocated' \subseteq allocated
      /\ \A u \in allocated : user'[u].n = user[u].n
  BY <1>2 DEF HoldsNothing
<1> QED
  BY <1>1, <1>2, <1>3, SameHeld

LEMMA RefByUidHolds ==
  ASSUME UsersOK, NEW c \in Call, NEW p \in Peer, NEW uid \in Uid, RefByUid(c, p, uid)
  PROVE  HoldsNothing(c)
<1>1. /\ \A d \in Call \ {c} : call'[d] = call[d]
      /\ call[c].pc = "idle" /\ call'[c].pc = "get"
  BY DEF UsersOK, TypeOK, RefByUid, Idle
<1> QED
  BY <1>1 DEF RefByUid, HoldsNothing, Charged

LEMMA SendHolds ==
  ASSUME UsersOK, NEW c \in Call, NEW s \in Peer, NEW p \in Peer, Send(c, s, p)
  PROVE  HoldsNothing(c)
<1>1. /\ \A d \in Call \ {c} : call'[d] = call[d]
      /\ call[c].pc = "idle" /\ call'[c].pc = "global"
  BY DEF UsersOK, TypeOK, Send, Idle
<1> QED
  BY <1>1 DEF Send, HoldsNothing, Charged

LEMMA RefFastHolds ==
  ASSUME UsersOK, NEW c \in Call, RefFast(c)
  PROVE  HoldsNothing(c)
<1>1. CASE UNCHANGED user
  <2>1. /\ \A d \in Call \ {c} : call'[d] = call[d]
        /\ call'[c].pc \in {"slow", "new"}
    BY SMTT(30), GotoCall DEF UsersOK, TypeOK, RefFast, CallState
  <2> QED
    BY <1>1, <2>1 DEF RefFast, HoldsNothing, Charged
<1>2. CASE KrefGet(call[c].user) /\ Goto(c, "new")
  BY SMTT(30), <1>2, GotoCall, KrefSame DEF RefFast, HoldsNothing, Charged
<1> QED
  BY <1>1, <1>2 DEF RefFast

LEMMA UnrefHolds ==
  ASSUME UsersOK, NEW c \in Call, Unref(c)
  PROVE  HoldsNothing(c)
<1>1. CASE KrefDec(call[c].user) /\ Return(c)
  BY <1>1, ReturnCall, KrefSame DEF Unref, HoldsNothing, Charged
<1>2. CASE Goto(c, "put") /\ UNCHANGED user
  BY SMTT(30), <1>2, GotoCall DEF Unref, HoldsNothing, Charged
<1> QED
  BY <1>1, <1>2 DEF Unref

LEMMA PutHolds ==
  ASSUME UsersOK, NEW c \in Call, Put(c)
  PROVE  HoldsNothing(c)
<1>1. KrefDec(call[c].user) /\ (Return(c) \/ Goto(c, "free"))
  BY DEF Put
<1>2. /\ \A d \in Call \ {c} : call'[d] = call[d]
      /\ call'[c].pc \in {"idle", "free"}
  BY <1>1, GotoCall, ReturnCall
<1> QED
  BY <1>1, <1>2, KrefSame DEF Put, HoldsNothing, Charged

LEMMA UserFreeHolds ==
  ASSUME UsersOK, NEW c \in Call, UserFree(c)
  PROVE  HoldsNothing(c)
BY ReturnCall DEF UserFree, HoldsNothing, Charged

LEMMA UserN ==
  ASSUME UsersOK, NEW u \in Object, NEW k
  PROVE  /\ user' = [user EXCEPT ![u].n = @ - k] =>
              /\ user'[u].n = user[u].n - k
              /\ \A v \in Object \ {u} : user'[v].n = user[v].n
         /\ user' = [user EXCEPT ![u].n = @ + k] =>
              /\ user'[u].n = user[u].n + k
              /\ \A v \in Object \ {u} : user'[v].n = user[v].n
BY DEF UsersOK, TypeOK, UserState

LEMMA PeerN ==
  ASSUME UsersOK, NEW p \in Peer, NEW k, peer' = [peer EXCEPT ![p].n = @ - k]
  PROVE  /\ peer'[p].n = peer[p].n - k
         /\ peer'[p].user = peer[p].user /\ peer'[p].max = peer[p].max
         /\ \A q \in Peer \ {p} : peer'[q] = peer[q]
BY DEF UsersOK, TypeOK, PeerState

LEMMA Counters ==
  ASSUME UsersOK
  PROVE  /\ \A u \in Object : user[u].n \in Int
         /\ \A p \in Peer : peer[p].n \in Int /\ peer[p].max \in Int
BY SMTT(30) DEF UsersOK, TypeOK, UserState, PeerState

(* bus1_user_charge(), bus1_user_discharge(): k units move between a counter *)
(* and the call.                                                             *)
UserMove(c, u, k) ==
  /\ \A d \in Call \ {c} : call'[d] = call[d]
  /\ peer' = peer /\ allocated' = allocated
  /\ user'[u].n = user[u].n - k /\ user'[u].n >= 0
  /\ \A v \in Object \ {u} : user'[v].n = user[v].n
  /\ \A p \in Live : Local(call[c], p)' = 0 /\ Local(call[c], p) = 0
  /\ Global(call[c], u)' = Global(call[c], u) + k
  /\ \A v \in Object \ {u} : Global(call[c], v)' = 0 /\ Global(call[c], v) = 0

LEMMA UserMoves ==
  ASSUME UsersOK, TypeOK', Balanced, NEW c \in Call, NEW u \in Object, NEW k \in Int,
         UserMove(c, u, k)
  PROVE  Balanced'
<1>1. TypeOK /\ Live \subseteq Peer /\ allocated \subseteq Object
  BY DEF UsersOK, TypeOK, Live
<1>2. ASSUME NEW p \in Live
      PROVE  peer'[p].max - peer'[p].n =
               (peer[p].max - peer[p].n) + (Local(call[c], p)' - Local(call[c], p))
  BY SMTT(30), <1>1 DEF TypeOK, PeerState, UserMove
<1>3. ASSUME NEW v \in allocated
      PROVE  /\ user'[v].n = user[v].n - (Global(call[c], v)' - Global(call[c], v))
             /\ user'[v].n >= 0
  <2>1. Global(call[c], v) \in Nat /\ user[v].n \in Int /\ user[v].n >= 0
    BY <1>1, HeldIsNat DEF TypeOK, UserState, Balanced
  <2>2. CASE v = u
    BY SMTT(30), <2>1, <2>2 DEF UserMove
  <2>3. CASE v # u
    <3>1. user'[v].n = user[v].n /\ Global(call[c], v)' = 0 /\ Global(call[c], v) = 0
      BY <1>1, <2>3 DEF UserMove
    <3> QED
      BY SMTT(30), <2>1, <3>1
  <2> QED
    BY <2>2, <2>3
<1>4. /\ \A p \in Peer : peer'[p].user = peer[p].user
      /\ \A d \in Call \ {c} : call'[d] = call[d]
      /\ allocated' \subseteq allocated
  BY DEF UserMove
<1> QED
  BY <1>2, <1>3, <1>4, BalancedStep

PeerMove(c, q, k) ==
  /\ \A d \in Call \ {c} : call'[d] = call[d]
  /\ user' = user /\ allocated' = allocated
  /\ peer'[q].n = peer[q].n - k
  /\ peer'[q].user = peer[q].user /\ peer'[q].max = peer[q].max
  /\ \A p \in Peer \ {q} : peer'[p] = peer[p]
  /\ Local(call[c], q)' = Local(call[c], q) + k
  /\ \A p \in Peer \ {q} : Local(call[c], p)' = 0 /\ Local(call[c], p) = 0
  /\ \A u \in Object : Global(call[c], u)' = Global(call[c], u)

LEMMA PeerMoves ==
  ASSUME UsersOK, TypeOK', Balanced, NEW c \in Call, NEW q \in Peer, NEW k \in Int,
         PeerMove(c, q, k)
  PROVE  Balanced'
<1>1. TypeOK /\ Live \subseteq Peer /\ allocated \subseteq Object
  BY DEF UsersOK, TypeOK, Live
<1>2. \A p \in Peer : peer[p].n \in Int /\ peer[p].max \in Int
  BY SMTT(30), <1>1 DEF TypeOK, PeerState
<1>3. ASSUME NEW p \in Live
      PROVE  peer'[p].max - peer'[p].n =
               (peer[p].max - peer[p].n) + (Local(call[c], p)' - Local(call[c], p))
  <2>1. Local(call[c], p) \in Nat
    BY <1>1, HeldIsNat
  <2>2. CASE p = q
    BY SMTT(30), <1>1, <1>2, <2>1, <2>2 DEF PeerMove
  <2>3. CASE p # q
    BY SMTT(30), <1>1, <1>2, <2>1, <2>3 DEF PeerMove
  <2> QED
    BY <2>2, <2>3
<1>4. ASSUME NEW v \in allocated
      PROVE  /\ user'[v].n = user[v].n - (Global(call[c], v)' - Global(call[c], v))
             /\ user'[v].n >= 0
  <2>1. Global(call[c], v) \in Nat /\ user[v].n \in Int /\ user[v].n >= 0
    BY <1>1, HeldIsNat DEF TypeOK, UserState, Balanced
  <2>2. Global(call[c], v)' = Global(call[c], v) /\ user'[v].n = user[v].n
    BY <1>1 DEF PeerMove
  <2> QED
    BY SMTT(30), <2>1, <2>2
<1>5. /\ \A p \in Peer : peer'[p].user = peer[p].user
      /\ \A d \in Call \ {c} : call'[d] = call[d]
      /\ allocated' \subseteq allocated
  BY DEF PeerMove
<1> QED
  BY <1>3, <1>4, <1>5, BalancedStep

LEMMA ChargeGlobalBalanced ==
  ASSUME UsersOK, UsersOK', Balanced, NEW c \in Call, ChargeGlobal(c)
  PROVE  Balanced'
<1> SUFFICES ASSUME NEW p, p = call[c].peer, NEW u, u = peer[p].user,
                    NEW k, k = call[c].charge
             PROVE  Balanced'
  OBVIOUS
<1>1. call[c].pc = "global" /\ allocated' = allocated /\ peer' = peer /\ TypeOK'
  BY DEF ChargeGlobal, UsersOK
<1>2. k \in Nat /\ p \in Peer /\ u \in Object
  BY <1>1, Charging
<1>3. CASE /\ Covers(user[u].n, k)
           /\ user' = [user EXCEPT ![u].n = @ - k] /\ Goto(c, "local")
  <2>1. /\ \A d \in Call \ {c} : call'[d] = call[d]
        /\ call'[c].pc = "local" /\ call'[c].charge = k /\ call'[c].peer = p
    BY <1>3, GotoCall
  <2>2. \A q \in Live : Local(call[c], q)' = 0 /\ Local(call[c], q) = 0
    BY <1>1, <2>1 DEF Local
  <2>3. /\ Global(call[c], u)' = k /\ Global(call[c], u) = 0
        /\ \A v \in Object \ {u} : Global(call[c], v)' = 0 /\ Global(call[c], v) = 0
    BY <1>1, <2>1 DEF Global
  <2>4. user'[u].n = user[u].n - k /\ \A v \in Object \ {u} : user'[v].n = user[v].n
    BY <1>2, <1>3, UserN
  <2>5. user'[u].n >= 0 /\ k \in Int
    <3>1. user[u].n \in Int /\ user[u].n >= k
      BY <1>2, <1>3, Counters DEF Covers
    <3>2. k \in Int
      BY SMTT(30), <1>2
    <3> QED
      BY SMTT(30), <2>4, <3>1, <3>2
  <2>6. Global(call[c], u)' = Global(call[c], u) + k
    BY SMTT(30), <1>2, <2>3
  <2>7. UserMove(c, u, k)
    BY <1>1, <2>1, <2>2, <2>3, <2>4, <2>5, <2>6 DEF UserMove
  <2> QED
    BY <1>1, <1>2, <2>5, <2>7, UserMoves
<1>4. CASE Return(c) /\ UNCHANGED user
  <2>1. HoldsNothing(c)
    BY <1>1, <1>4, ReturnCall DEF HoldsNothing, Charged
  <2> QED
    BY <2>1, NothingHeld
<1> QED
  BY <1>3, <1>4 DEF ChargeGlobal

LEMMA ChargeLocalBalanced ==
  ASSUME UsersOK, UsersOK', Balanced, NEW c \in Call, ChargeLocal(c)
  PROVE  Balanced'
<1> SUFFICES ASSUME NEW p, p = call[c].peer, NEW k, k = call[c].charge
             PROVE  Balanced'
  OBVIOUS
<1>1. call[c].pc = "local" /\ user' = user /\ allocated' = allocated /\ TypeOK'
  BY DEF ChargeLocal, UsersOK
<1>2. k \in Nat /\ k \in Int /\ p \in Peer /\ peer \in [Peer -> PeerState]
  BY SMTT(30), <1>1, Charging
<1>3. CASE peer' = [peer EXCEPT ![p].n = @ - k] /\ Goto(c, "charged")
  <2>1. /\ \A d \in Call \ {c} : call'[d] = call[d]
        /\ call'[c].pc = "charged" /\ call'[c].charge = k /\ call'[c].peer = p
    BY <1>3, GotoCall
  <2>2. /\ Local(call[c], p)' = k /\ Local(call[c], p) = 0
        /\ \A q \in Peer \ {p} : Local(call[c], q)' = 0 /\ Local(call[c], q) = 0
    BY <1>1, <2>1 DEF Local
  <2>3. /\ peer'[p].n = peer[p].n - k
        /\ peer'[p].user = peer[p].user /\ peer'[p].max = peer[p].max
        /\ \A q \in Peer \ {p} : peer'[q] = peer[q]
    BY SMTT(30), <1>2, <1>3, PeerN
  <2>4. \A v \in Object : Global(call[c], v)' = Global(call[c], v)
    <3>1. peer'[call'[c].peer].user = peer[call[c].peer].user
      BY <2>1, <2>3
    <3> QED
      BY <1>1, <2>1, <3>1 DEF Global
  <2>5. Local(call[c], p)' = Local(call[c], p) + k
    BY SMTT(30), <1>2, <2>2
  <2>6. PeerMove(c, p, k)
    BY <1>1, <2>1, <2>2, <2>3, <2>4, <2>5 DEF PeerMove
  <2> QED
    BY <1>1, <1>2, <2>6, PeerMoves
<1>4. CASE Goto(c, "revert") /\ UNCHANGED peer
  <2>1. /\ \A d \in Call \ {c} : call'[d] = call[d]
        /\ call'[c].pc = "revert" /\ call'[c].charge = k /\ call'[c].peer = p
    BY <1>4, GotoCall
  <2>2. /\ \A q \in Live : Local(call[c], q)' = Local(call[c], q)
        /\ \A v \in allocated : Global(call[c], v)' = Global(call[c], v)
    BY <1>1, <1>4, <2>1 DEF Local, Global
  <2> QED
    BY <1>1, <1>4, <2>1, <2>2, SameHeld
<1> QED
  BY <1>3, <1>4 DEF ChargeLocal

LEMMA GiveBack ==
  ASSUME UsersOK, UsersOK', Balanced, NEW c \in Call, NEW k \in Nat, NEW u \in Object,
         k = call[c].charge, u = peer[call[c].peer].user,
         call[c].pc \in {"revert", "discharge"}, allocated' = allocated, peer' = peer,
         \A d \in Call \ {c} : call'[d] = call[d], call'[c].pc \in {"idle", "unref"},
         user'[u].n = user[u].n + k, \A v \in Object \ {u} : user'[v].n = user[v].n
  PROVE  Balanced'
<1>1. TypeOK /\ TypeOK' /\ allocated \subseteq Object
  BY DEF UsersOK, TypeOK
<1>2. call[c].peer \in PeersOf(u)
  BY Charging DEF PeersOf
<1>3. u \in allocated
  <2>1. user[u].ref > 0
    BY <1>1, <1>2, OwnedIsCounted DEF UsersOK
  <2> QED
    BY <2>1 DEF UsersOK, CountsOK
<1>4. \A q \in Live : Local(call[c], q)' = 0 /\ Local(call[c], q) = 0
  BY DEF Local
<1>5. \A v \in Object : /\ Global(call[c], v)' = 0
                        /\ Global(call[c], v) = IF v = u THEN k ELSE 0
  BY DEF Global
<1> DEFINE m == user[u].n
           n == user'[u].n
<1>6. m \in Int /\ m >= 0 /\ n = m + k
  BY <1>1, <1>3 DEF TypeOK, UserState, Balanced
<1>7. Global(call[c], u)' = 0 /\ Global(call[c], u) = k
  BY <1>5
<1> HIDE DEF m, n
<1>8. n = m - (0 - k) /\ n >= 0 /\ 0 - k \in Int /\ 0 = k + (0 - k)
  BY SMTT(30), <1>6
<1>9. UserMove(c, u, 0 - k)
  BY <1>4, <1>5, <1>7, <1>8 DEF UserMove, m, n
<1> QED
  BY <1>1, <1>8, <1>9, UserMoves

LEMMA ChargeRevertBalanced ==
  ASSUME UsersOK, UsersOK', Balanced, NEW c \in Call, ChargeRevert(c)
  PROVE  Balanced'
<1> SUFFICES ASSUME NEW u, u = peer[call[c].peer].user, NEW k, k = call[c].charge
             PROVE  Balanced'
  OBVIOUS
<1>1. call[c].pc = "revert" /\ allocated' = allocated /\ peer' = peer /\ Return(c)
  BY DEF ChargeRevert
<1>2. k \in Nat /\ u \in Object
  BY <1>1, Charging
<1>3. user' = [user EXCEPT ![u].n = @ + k]
  BY DEF ChargeRevert
<1>4. user'[u].n = user[u].n + k /\ \A v \in Object \ {u} : user'[v].n = user[v].n
  BY <1>2, <1>3, UserN
<1>5. (\A d \in Call \ {c} : call'[d] = call[d]) /\ call'[c].pc \in {"idle", "unref"}
  BY <1>1, ReturnCall
<1> QED
  BY <1>1, <1>2, <1>4, <1>5, GiveBack

LEMMA DischargeGlobalBalanced ==
  ASSUME UsersOK, UsersOK', Balanced, NEW c \in Call, DischargeGlobal(c)
  PROVE  Balanced'
<1> SUFFICES ASSUME NEW u, u = peer[call[c].peer].user, NEW k, k = call[c].charge
             PROVE  Balanced'
  OBVIOUS
<1>1. call[c].pc = "discharge" /\ allocated' = allocated /\ peer' = peer
  BY DEF DischargeGlobal
<1>2. k \in Nat /\ u \in Object
  BY <1>1, Charging
<1>3. user' = [user EXCEPT ![u].n = @ + k]
  BY DEF DischargeGlobal
<1>4. user'[u].n = user[u].n + k /\ \A v \in Object \ {u} : user'[v].n = user[v].n
  BY <1>2, <1>3, UserN
<1>5. (\A d \in Call \ {c} : call'[d] = call[d]) /\ call'[c].pc \in {"idle", "unref"}
  <2>1. CASE Return(c)
    BY <2>1, ReturnCall
  <2>2. CASE call' = [call EXCEPT ![c] = [Idle EXCEPT !.pc = "unref", !.user = call[c].user]]
    BY <2>2 DEF UsersOK, TypeOK, Idle
  <2> QED
    BY <2>1, <2>2 DEF DischargeGlobal
<1> QED
  BY <1>1, <1>2, <1>4, <1>5, GiveBack

LEMMA DischargeBalanced ==
  ASSUME UsersOK, UsersOK', Balanced, NEW c \in Call, Discharge(c)
  PROVE  Balanced'
<1> SUFFICES ASSUME NEW p, p = call[c].peer, NEW k, k = call[c].charge
             PROVE  Balanced'
  OBVIOUS
<1>1. /\ call[c].pc \in {"charged", "message"} /\ user' = user /\ allocated' = allocated
      /\ TypeOK' /\ Goto(c, "discharge")
  BY DEF Discharge, UsersOK
<1>2. k \in Nat /\ p \in Peer
  BY <1>1, Charging
<1>3. peer' = [peer EXCEPT ![p].n = @ + k]
  BY DEF Discharge
<1>4. peer' = [peer EXCEPT ![p].n = @ - (0 - k)]
  <2>1. peer[p].n + k = peer[p].n - (0 - k)
    BY SMTT(30), <1>2, Counters
  <2> QED
    BY <1>3, <2>1
<1>5. /\ peer'[p].n = peer[p].n - (0 - k)
      /\ peer'[p].user = peer[p].user /\ peer'[p].max = peer[p].max
      /\ \A q \in Peer \ {p} : peer'[q] = peer[q]
  BY <1>2, <1>4, PeerN
<1>6. /\ \A d \in Call \ {c} : call'[d] = call[d]
      /\ call'[c].pc = "discharge" /\ call'[c].charge = k /\ call'[c].peer = p
  BY <1>1, GotoCall
<1>7. /\ Local(call[c], p)' = 0 /\ Local(call[c], p) = k
      /\ \A q \in Peer \ {p} : Local(call[c], q)' = 0 /\ Local(call[c], q) = 0
  BY <1>1, <1>6 DEF Local
<1>8. \A v \in Object : Global(call[c], v)' = Global(call[c], v)
  <2>1. peer'[call'[c].peer].user = peer[call[c].peer].user
    BY <1>5, <1>6
  <2> QED
    BY <1>1, <1>6, <2>1 DEF Global
<1>9. Local(call[c], p)' = Local(call[c], p) + (0 - k) /\ 0 - k \in Int
  BY SMTT(30), <1>2, <1>7
<1>10. PeerMove(c, p, 0 - k)
  BY <1>1, <1>5, <1>6, <1>7, <1>8, <1>9 DEF PeerMove
<1> QED
  BY <1>1, <1>2, <1>9, <1>10, PeerMoves

LEMMA MessageUserBalanced ==
  ASSUME UsersOK, UsersOK', Balanced, NEW c \in Call, MessageUser(c)
  PROVE  Balanced'
<1>1. /\ call[c].pc = "charged" /\ UNCHANGED allocated /\ peer' = peer /\ TypeOK'
      /\ \A u \in Object : user'[u].n = user[u].n
  BY KrefSame DEF MessageUser, UsersOK
<1>2. /\ \A d \in Call \ {c} : call'[d] = call[d]
      /\ call'[c].pc = "message" /\ call'[c].charge = call[c].charge
      /\ call'[c].peer = call[c].peer
  <2>1. call \in [Call -> CallState]
    BY DEF UsersOK, TypeOK
  <2>2. call' = [call EXCEPT ![c].pc = "message",
                             ![c].user = peer[call[c].by].user, ![c].by = NULL]
    BY DEF MessageUser
  <2> QED
    BY <2>1, <2>2 DEF CallState
<1>3. /\ \A q \in Live : Local(call[c], q)' = Local(call[c], q)
      /\ \A v \in allocated : Global(call[c], v)' = Global(call[c], v)
  BY <1>1, <1>2 DEF Local, Global
<1>4. \A u \in allocated : user'[u].n = user[u].n
  BY <1>1 DEF UsersOK, TypeOK
<1> QED
  BY <1>1, <1>2, <1>3, <1>4, SameHeld

(* What nobody holds sums up to nothing.                                     *)
LEMMA LocalZero ==
  ASSUME NEW p
  PROVE  /\ (\A d \in Call : Local(call[d], p) = 0) => LocalSum(p) = 0
         /\ (\A d \in Call : Local(call[d], p)' = 0) => LocalSum(p)' = 0
<1>1. ASSUME \A d \in Call : Local(call[d], p) = 0 PROVE LocalSum(p) = 0
  <2> DEFINE f == [d \in Call |-> Local(call[d], p)]
  <2>1. \A d \in Call : f[d] = 0
    BY <1>1
  <2> HIDE DEF f
  <2>2. SumFunctionOnSet(f, Call) = 0
    BY <2>1, SumZero, UserAssumption
  <2> QED
    BY <2>2 DEF f, LocalSum
<1>2. ASSUME \A d \in Call : Local(call[d], p)' = 0 PROVE LocalSum(p)' = 0
  <2> DEFINE f == [d \in Call |-> Local(call[d], p)']
  <2>1. \A d \in Call : f[d] = 0
    BY <1>2
  <2> HIDE DEF f
  <2>2. SumFunctionOnSet(f, Call) = 0
    BY <2>1, SumZero, UserAssumption
  <2> QED
    BY <2>2 DEF f, LocalSum
<1> QED
  BY <1>1, <1>2

LEMMA GlobalZero ==
  ASSUME NEW u
  PROVE  /\ (\A d \in Call : Global(call[d], u) = 0) => GlobalSum(u) = 0
         /\ (\A d \in Call : Global(call[d], u)' = 0) => GlobalSum(u)' = 0
<1>1. ASSUME \A d \in Call : Global(call[d], u) = 0 PROVE GlobalSum(u) = 0
  <2> DEFINE f == [d \in Call |-> Global(call[d], u)]
  <2>1. \A d \in Call : f[d] = 0
    BY <1>1
  <2> HIDE DEF f
  <2>2. SumFunctionOnSet(f, Call) = 0
    BY <2>1, SumZero, UserAssumption
  <2> QED
    BY <2>2 DEF f, GlobalSum
<1>2. ASSUME \A d \in Call : Global(call[d], u)' = 0 PROVE GlobalSum(u)' = 0
  <2> DEFINE f == [d \in Call |-> Global(call[d], u)']
  <2>1. \A d \in Call : f[d] = 0
    BY <1>2
  <2> HIDE DEF f
  <2>2. SumFunctionOnSet(f, Call) = 0
    BY <2>1, SumZero, UserAssumption
  <2> QED
    BY <2>2 DEF f, GlobalSum
<1> QED
  BY <1>1, <1>2

LEMMA Unreferenced ==
  ASSUME UsersOK, NEW u \in Object, user[u].ref = 0 \/ u \notin allocated
  PROVE  \A d \in Call : Global(call[d], u) = 0
<1>1. PeersOf(u) = {}
  <2>1. user[u].ref \in Nat /\ (user[u].ref > 0 => u \in allocated)
    BY DEF UsersOK, CountsOK, TypeOK, UserState
  <2>2. ~(user[u].ref > 0)
    BY SMTT(30), <2>1
  <2> QED
    BY <2>2, OwnedIsCounted DEF UsersOK
<1>2. \A d \in Call : call[d].pc \in Charged => call[d].peer \in Peer
  BY DEF UsersOK, CallsOK, CallOK, Live, Charged
<1> QED
  BY <1>1, <1>2 DEF Global, PeersOf, Charged

(* The counters as sums, before and after a step.                            *)
LEMMA BalancedIs ==
  /\ Balanced <=> /\ \A p \in Live : peer[p].n + LocalSum(p) = peer[p].max
                  /\ \A u \in allocated : user[u].n + GlobalSum(u) = MaxUser /\ user[u].n >= 0
  /\ Balanced' <=> /\ \A p \in Live' : peer'[p].n + LocalSum(p)' = peer'[p].max
                   /\ \A u \in allocated' : /\ user'[u].n + GlobalSum(u)' = MaxUser
                                            /\ user'[u].n >= 0
<1>1. /\ \A p : SumFunction([d \in Call |-> Local(call[d], p)])' = LocalSum(p)'
      /\ \A u : SumFunction([d \in Call |-> Global(call[d], u)])' = GlobalSum(u)'
  BY SumsOf DEF SumFunction, LocalSum, GlobalSum
<1> QED
  BY <1>1, SumsOf DEF Balanced

(* The call c holds nothing before and after, and a peer that no other call  *)
(* charges appears, with a full limit, or goes.                              *)
PeerStep(c, p) ==
  /\ \A d \in Call \ {c} : call'[d] = call[d] /\ call[d].peer # p
  /\ call[c].pc \notin Charged /\ call'[c].pc \notin Charged
  /\ \A q \in Peer \ {p} : peer'[q] = peer[q]
  /\ p \in Live' => peer'[p].n = peer'[p].max
  /\ user' = user /\ allocated' = allocated

LEMMA PeerStepBalanced ==
  ASSUME UsersOK, UsersOK', Balanced, NEW c \in Call, NEW p \in Peer, PeerStep(c, p)
  PROVE  Balanced'
<1>1. /\ TypeOK /\ TypeOK' /\ Live \subseteq Peer /\ Live' \subseteq Peer
      /\ \A d \in Call \ {c} : call'[d] = call[d]
  BY DEF UsersOK, Live, PeerStep
<1>2. \A q : Local(call[c], q)' = 0 /\ Local(call[c], q) = 0
  BY DEF Local, PeerStep, Charged
<1>3. \A u : Global(call[c], u)' = 0 /\ Global(call[c], u) = 0
  BY DEF Global, PeerStep, Charged
<1>4. ASSUME NEW q \in Live'
      PROVE  peer'[q].n + LocalSum(q)' = peer'[q].max
  <2>1. CASE q = p
    <3>1. \A d \in Call : Local(call[d], p)' = 0
      BY <1>2 DEF Local, PeerStep
    <3>2. LocalSum(p)' = 0
      BY <3>1, LocalZero
    <3>3. peer'[p].n = peer'[p].max /\ peer'[p].n \in Int
      BY <1>1, <1>4, <2>1 DEF PeerStep, TypeOK, PeerState
    <3> QED
      BY SMTT(30), <2>1, <3>2, <3>3
  <2>2. CASE q # p
    <3>1. q \in Live /\ peer'[q] = peer[q]
      BY <1>1, <2>2 DEF PeerStep, Live
    <3>2. LocalSum(q)' = LocalSum(q) + (0 - 0)
      BY <1>1, <1>2, LocalStep
    <3>3. LocalSum(q) \in Nat
      BY <1>1, SumsAreNat
    <3>4. peer[q].n + LocalSum(q) = peer[q].max
      BY <3>1, BalancedIs
    <3> QED
      BY SMTT(30), <3>1, <3>2, <3>3, <3>4
  <2> QED
    BY <2>1, <2>2
<1>5. ASSUME NEW u \in allocated'
      PROVE  user'[u].n + GlobalSum(u)' = MaxUser /\ user'[u].n >= 0
  <2>1. u \in allocated /\ user'[u].n = user[u].n
    BY DEF PeerStep
  <2>2. \A d \in Call \ {c} : Global(call[d], u)' = Global(call[d], u)
    <3> TAKE d \in Call \ {c}
    <3>1. \A q \in Peer : q = call[d].peer => peer'[q].user = peer[q].user
      BY DEF PeerStep
    <3> QED
      BY <1>1, <3>1, OthersHold
  <2>3. GlobalSum(u)' = GlobalSum(u) + (0 - 0)
    BY <1>1, <1>3, <2>2, GlobalStep
  <2>4. GlobalSum(u) \in Nat
    BY <1>1, SumsAreNat
  <2>5. user[u].n + GlobalSum(u) = MaxUser /\ user[u].n >= 0
    BY <2>1, BalancedIs
  <2>6. GlobalSum(u)' = GlobalSum(u)
    BY SMTT(30), <2>3, <2>4
  <2> QED
    BY <2>1, <2>5, <2>6
<1> QED
  BY <1>4, <1>5, BalancedIs

LEMMA PeerNewBalanced ==
  ASSUME UsersOK, UsersOK', Balanced, NEW c \in Call, PeerNew(c)
  PROVE  Balanced'
<1>1. call[c].pc = "new" /\ user' = user /\ allocated' = allocated
  BY DEF PeerNew
<1>2. CASE /\ peer' = [peer EXCEPT ![call[c].peer] =
                         [user |-> call[c].user, n |-> MaxUser, max |-> MaxUser]]
           /\ Return(c)
  <2> SUFFICES ASSUME NEW p, p = call[c].peer PROVE Balanced'
    OBVIOUS
  <2>1. p \in Peer /\ \A d \in Call \ {c} : call[d].peer # p
    BY <1>1, OwnPeer DEF UsersOK, CallsOK, CallOK, Creating
  <2>2. /\ \A q \in Peer \ {p} : peer'[q] = peer[q]
        /\ peer'[p].n = peer'[p].max
    BY <1>2, <2>1 DEF UsersOK, TypeOK
  <2>3. (\A d \in Call \ {c} : call'[d] = call[d]) /\ call'[c].pc = "idle"
    BY <1>2, ReturnCall
  <2>4. PeerStep(c, p)
    BY <1>1, <2>1, <2>2, <2>3 DEF PeerStep, Charged
  <2> QED
    BY <2>1, <2>4, PeerStepBalanced
<1>3. CASE Goto(c, "unref") /\ UNCHANGED peer
  <2>1. HoldsNothing(c)
    BY <1>1, <1>3, GotoCall DEF HoldsNothing, Charged
  <2> QED
    BY <2>1, NothingHeld
<1> QED
  BY <1>2, <1>3 DEF PeerNew

LEMMA PeerFreeBalanced ==
  ASSUME UsersOK, UsersOK', Balanced, NEW c \in Call, NEW p \in Peer, PeerFree(c, p)
  PROVE  Balanced'
<1>1. /\ call[c].pc = "idle" /\ user' = user /\ allocated' = allocated
      /\ \A d \in Call : call[d].peer # p
  BY DEF PeerFree
<1>2. (\A d \in Call \ {c} : call'[d] = call[d]) /\ call'[c].pc = "unref"
  BY DEF PeerFree, UsersOK, TypeOK, Idle
<1>3. (\A q \in Peer \ {p} : peer'[q] = peer[q]) /\ peer'[p].n = peer'[p].max
  BY DEF PeerFree, UsersOK, TypeOK
<1>4. PeerStep(c, p)
  BY <1>1, <1>2, <1>3 DEF PeerStep, Charged
<1> QED
  BY <1>4, PeerStepBalanced

LEMMA UserNewBalanced ==
  ASSUME UsersOK, UsersOK', Balanced, NEW c \in Call, NEW u \in Object,
         UserNew(c, u), call[c].pc = "slow", peer' = peer
  PROVE  Balanced'
<1>1. /\ TypeOK /\ TypeOK' /\ allocated \subseteq Object /\ Live' = Live /\ Live \subseteq Peer
      /\ u \notin allocated /\ allocated' = allocated \cup {u}
  BY DEF UsersOK, TypeOK, Live, UserNew
<1>2. (\A d \in Call \ {c} : call'[d] = call[d]) /\ call'[c].pc = "new"
  BY SMTT(30) DEF UserNew, UsersOK, TypeOK, CallState
<1>3. user'[u].n = MaxUser /\ \A v \in allocated : user'[v].n = user[v].n
  BY <1>1 DEF UserNew, TypeOK
<1>4. \A q : Local(call[c], q)' = 0 /\ Local(call[c], q) = 0
  BY <1>2 DEF Local
<1>5. \A v : Global(call[c], v)' = 0 /\ Global(call[c], v) = 0
  BY <1>2 DEF Global
<1>6. \A d \in Call \ {c} : \A v : Global(call[d], v)' = Global(call[d], v)
  BY <1>2, OthersHold
<1>7. ASSUME NEW q \in Live
      PROVE  peer'[q].n + LocalSum(q)' = peer'[q].max
  <2>1. LocalSum(q)' = LocalSum(q) + (0 - 0)
    BY <1>1, <1>2, <1>4, LocalStep
  <2>2. LocalSum(q) \in Nat
    BY <1>1, SumsAreNat
  <2>3. peer[q].n + LocalSum(q) = peer[q].max
    BY BalancedIs
  <2>4. LocalSum(q)' = LocalSum(q)
    BY SMTT(30), <2>1, <2>2
  <2> QED
    BY <2>3, <2>4
<1>8. ASSUME NEW v \in allocated
      PROVE  user'[v].n + GlobalSum(v)' = MaxUser /\ user'[v].n >= 0
  <2>1. GlobalSum(v)' = GlobalSum(v) + (0 - 0)
    BY <1>1, <1>5, <1>6, GlobalStep
  <2>2. GlobalSum(v) \in Nat
    BY <1>1, SumsAreNat
  <2>3. user[v].n + GlobalSum(v) = MaxUser /\ user[v].n >= 0
    BY BalancedIs
  <2>4. GlobalSum(v)' = GlobalSum(v)
    BY SMTT(30), <2>1, <2>2
  <2> QED
    BY <1>3, <2>3, <2>4
<1>9. user'[u].n + GlobalSum(u)' = MaxUser /\ user'[u].n >= 0
  <2>1. \A d \in Call : Global(call[d], u)' = 0
    BY <1>1, <1>5, <1>6, Unreferenced
  <2>2. GlobalSum(u)' = 0
    BY <2>1, GlobalZero
  <2> QED
    BY SMTT(30), <1>3, <2>2, UserAssumption
<1>10. \A v \in allocated' : user'[v].n + GlobalSum(v)' = MaxUser /\ user'[v].n >= 0
  BY <1>1, <1>8, <1>9
<1> QED
  BY <1>1, <1>7, <1>10, BalancedIs

LEMMA RefSlowBalanced ==
  ASSUME UsersOK, UsersOK', Balanced, NEW c \in Call, RefSlow(c)
  PROVE  Balanced'
<1>1. call[c].pc = "slow" /\ peer' = peer
  BY DEF RefSlow
<1>2. ASSUME NEW u, KrefGet(u), UNCHANGED allocated,
             call' = [call EXCEPT ![c].pc = "new", ![c].user = u]
      PROVE  Balanced'
  <2>1. (\A d \in Call \ {c} : call'[d] = call[d]) /\ call'[c].pc = "new"
    BY SMTT(30), <1>2 DEF UsersOK, TypeOK, CallState
  <2>2. HoldsNothing(c)
    BY <1>1, <1>2, <2>1, KrefSame DEF HoldsNothing, Charged
  <2> QED
    BY <2>2, NothingHeld
<1>3. CASE \E v \in Object : UserNew(c, v)
  BY <1>1, <1>3, UserNewBalanced
<1>4. CASE Return(c) /\ UNCHANGED <<user, allocated>>
  <2>1. HoldsNothing(c)
    BY <1>1, <1>4, ReturnCall DEF HoldsNothing, Charged
  <2> QED
    BY <2>1, NothingHeld
<1> QED
  BY <1>2, <1>3, <1>4 DEF RefSlow

LEMMA SetLimitBalanced ==
  ASSUME UsersOK, UsersOK', Balanced, NEW p \in Peer, NEW l \in Limit, SetLimit(p, l)
  PROVE  Balanced'
<1>1. /\ TypeOK /\ p \in Live /\ call' = call /\ user' = user /\ allocated' = allocated
      /\ peer \in [Peer -> PeerState] /\ l \in Nat
  BY UserAssumption DEF SetLimit, UsersOK, TypeOK
<1>2. /\ \A q \in Peer \ {p} : peer'[q] = peer[q]
      /\ peer'[p].user = peer[p].user /\ peer'[p].max = l
      /\ peer'[p].n = peer[p].n + l - peer[p].max
  BY <1>1 DEF SetLimit
<1>3. Live' = Live /\ \A q \in Peer : peer'[q].user = peer[q].user
  BY <1>2 DEF Live
<1>4. \A q : LocalSum(q)' = LocalSum(q)
  BY <1>1 DEF LocalSum, Local
<1>5. \A u : GlobalSum(u)' = GlobalSum(u)
  <2> TAKE u
  <2>1. \A d \in Call : Global(call[d], u)' = Global(call[d], u)
    BY <1>1, <1>3, OthersHold
  <2>2. [d \in Call |-> Global(call[d], u)'] = [d \in Call |-> Global(call[d], u)]
    BY <2>1
  <2> QED
    BY <2>2 DEF GlobalSum
<1>6. ASSUME NEW q \in Live PROVE peer'[q].n + LocalSum(q)' = peer'[q].max
  <2>1. peer[q].n + LocalSum(q) = peer[q].max
    BY BalancedIs
  <2>2. LocalSum(q) \in Nat /\ peer[q].n \in Int /\ peer[q].max \in Int
    BY <1>1, SumsAreNat, Counters DEF Live
  <2>3. CASE q = p
    BY SMTT(30), <1>1, <1>2, <1>4, <2>1, <2>2, <2>3
  <2>4. CASE q # p
    BY <1>1, <1>2, <1>4, <2>1, <2>4 DEF Live
  <2> QED
    BY <2>3, <2>4
<1>7. ASSUME NEW u \in allocated'
      PROVE  user'[u].n + GlobalSum(u)' = MaxUser /\ user'[u].n >= 0
  BY <1>1, <1>5, BalancedIs
<1> QED
  BY <1>3, <1>6, <1>7, BalancedIs

LEMMA NextBalanced ==
  ASSUME UsersOK, UsersOK', Balanced, [Next]_vars
  PROVE  Balanced'
<1>1. CASE UNCHANGED vars
  <2>1. /\ Live' = Live /\ peer' = peer /\ user' = user /\ allocated' = allocated
        /\ call' = call
    BY <1>1 DEF vars, Live
  <2>2. (\A p : LocalSum(p)' = LocalSum(p)) /\ \A u : GlobalSum(u)' = GlobalSum(u)
    BY <2>1 DEF LocalSum, GlobalSum, Local, Global
  <2> QED
    BY <2>1, <2>2, BalancedIs
<1>2. CASE \E p \in Peer, l \in Limit : SetLimit(p, l)
  BY <1>2, SetLimitBalanced
<1>3. ASSUME NEW c \in Call, NEW p \in Peer,
             \/ \E uid \in Uid : RefByUid(c, p, uid)
             \/ \E s \in Peer : Send(c, s, p)
             \/ PeerFree(c, p)
      PROVE  Balanced'
  BY <1>3, RefByUidHolds, SendHolds, NothingHeld, PeerFreeBalanced
<1>4. ASSUME NEW c \in Call,
             \/ RefFast(c) \/ RefSlow(c) \/ PeerNew(c)
             \/ ChargeGlobal(c) \/ ChargeLocal(c) \/ ChargeRevert(c)
             \/ MessageUser(c) \/ Discharge(c) \/ DischargeGlobal(c)
             \/ Unref(c) \/ Put(c) \/ UserFree(c)
      PROVE  Balanced'
  <2>1. CASE RefFast(c) \/ Unref(c) \/ Put(c) \/ UserFree(c)
    BY <2>1, NothingHeld, RefFastHolds, UnrefHolds, PutHolds, UserFreeHolds
  <2>2. CASE RefSlow(c) \/ PeerNew(c) \/ MessageUser(c)
    BY <2>2, RefSlowBalanced, PeerNewBalanced, MessageUserBalanced
  <2>3. CASE \/ ChargeGlobal(c) \/ ChargeLocal(c) \/ ChargeRevert(c)
             \/ Discharge(c) \/ DischargeGlobal(c)
    BY <2>3, ChargeGlobalBalanced, ChargeLocalBalanced,
       ChargeRevertBalanced, DischargeBalanced, DischargeGlobalBalanced
  <2> QED
    BY <1>4, <2>1, <2>2, <2>3
<1> QED
  BY <1>1, <1>2, <1>3, <1>4 DEF Next

LEMMA InitBalanced == Init => Balanced
<1> SUFFICES ASSUME Init PROVE Balanced
  OBVIOUS
<1>1. Live = {} /\ allocated = {}
  BY DEF Init, Live
<1> QED
  BY <1>1, BalancedIs

(* No charge is lost or counted twice, for any number of calls, peers, users *)
(* and any charges: what remains of the limit of a peer, and of that of a    *)
(* user, and what the calls and messages hold of it add up to the limit.     *)
THEOREM Balances == Spec => []Balanced
<1>1. Init => Balanced
  BY InitBalanced
<1>2. UsersOK /\ UsersOK' /\ Balanced /\ [Next]_vars => Balanced'
  BY NextBalanced
<1> QED
  BY <1>1, <1>2, UsersInductive, PTL DEF Spec

(* A counter that bus1_user_limits_deinit() checks is one that no call can   *)
(* hold a part of any more, so it is back at its limit.                      *)
LEMMA FreedIsFull ==
  ASSUME UsersOK, Balanced, NEW c \in Call
  PROVE  /\ \A p \in Peer : PeerFree(c, p) => peer[p].n = peer[p].max
         /\ UserFree(c) => user[call[c].user].n = MaxUser
<1>1. ASSUME NEW p \in Peer, PeerFree(c, p) PROVE peer[p].n = peer[p].max
  <2>1. p \in Live /\ \A d \in Call : call[d].peer # p
    BY <1>1 DEF PeerFree
  <2>2. \A d \in Call : Local(call[d], p) = 0
    BY <2>1 DEF Local
  <2>3. LocalSum(p) = 0
    BY <2>2, LocalZero
  <2>4. peer[p].n + LocalSum(p) = peer[p].max
    BY <2>1, BalancedIs
  <2> QED
    BY SMTT(30), <2>3, <2>4, Counters
<1>2. ASSUME UserFree(c) PROVE user[call[c].user].n = MaxUser
  <2> SUFFICES ASSUME NEW u, u = call[c].user PROVE user[u].n = MaxUser
    OBVIOUS
  <2>1. u \in allocated /\ u \in Object /\ user[u].ref = 0
    BY <1>2 DEF UserFree, UsersOK, TypeOK, CallsOK, CallOK
  <2>2. GlobalSum(u) = 0
    BY <2>1, Unreferenced, GlobalZero
  <2>3. user[u].n + GlobalSum(u) = MaxUser
    BY <2>1, BalancedIs
  <2> QED
    BY SMTT(30), <2>1, <2>2, <2>3, Counters
<1> QED
  BY <1>1, <1>2

(* bus1_user_limits_deinit() finds n_slices at its limit whenever a peer or  *)
(* a user is freed: each message gave back the one slice it was charged to   *)
(* both counters, whatever charges failed and limits moved in between.       *)
THEOREM LimitsRestored == Spec => []NoWarn
<1>1. Init => NoWarn
  BY DEF Init, NoWarn
<1>2. UsersOK /\ Balanced /\ NoWarn /\ [Next]_vars => NoWarn'
  <2> SUFFICES ASSUME UsersOK, Balanced, ~warned, [Next]_vars PROVE ~warned'
    BY DEF NoWarn
  <2>1. ASSUME NEW c \in Call, NEW p \in Peer, PeerFree(c, p) PROVE ~warned'
    <3>1. peer[p].n = peer[p].max
      BY <2>1, FreedIsFull
    <3> QED
      BY <2>1, <3>1 DEF PeerFree
  <2>2. ASSUME NEW c \in Call, UserFree(c) PROVE ~warned'
    <3>1. user[call[c].user].n = MaxUser
      BY <2>2, FreedIsFull
    <3> QED
      BY <2>2, <3>1 DEF UserFree
  <2>3. CASE UNCHANGED warned
    BY <2>3
  <2>4. \/ UNCHANGED warned
        \/ \E c \in Call : UserFree(c) \/ \E p \in Peer : PeerFree(c, p)
    BY DEF Next, vars, RefByUid, RefFast, RefSlow, PeerNew, Send, ChargeGlobal,
       ChargeLocal, ChargeRevert, MessageUser, Discharge, DischargeGlobal, SetLimit,
       Unref, Put
  <2> QED
    BY <2>1, <2>2, <2>3, <2>4
<1> QED
  BY <1>1, <1>2, Balances, UsersInductive, PTL DEF Spec

---------------------------------------------------------------------------
(* The two counters implement one account.  Owner and Granted are what the   *)
(* account sees of a peer and of a call.                                     *)
Owner(p) == IF p \in Live THEN user[peer[p].user].uid ELSE NULL
Granted(c) ==
  IF call[c].pc \in {"charged", "message"}
  THEN [peer |-> call[c].peer, charge |-> call[c].charge]
  ELSE [peer |-> NULL, charge |-> 0]
Owners == [p \in Peer |-> Owner(p)]
Limits == [p \in Peer |-> peer[p].max]
Grants == [c \in Call |-> Granted(c)]

LEMMA UsedIs ==
  ASSUME NEW S
  PROVE  A!Used(S) =
           SumFunctionOnSet([c \in Call |-> IF Granted(c).peer \in S
                                            THEN Granted(c).charge ELSE 0], Call)
<1> DEFINE f == [c \in Call |-> IF Granted(c).peer \in S THEN Granted(c).charge ELSE 0]
<1>1. A!Used(S) = A!SumFunction(f)
  BY DEF A!Used, Granted
<1> HIDE DEF f
<1>2. DOMAIN f = Call
  BY DEF f
<1>3. A!SumFunction(f) = SumFunctionOnSet(f, Call)
  BY <1>2 DEF A!SumFunction, A!SumFunctionOnSet, A!FoldFunctionOnSet, A!MapThenFoldSet,
              SumFunctionOnSet, FoldFunctionOnSet, MapThenFoldSet
<1> QED
  BY <1>1, <1>3 DEF f

LEMMA UsedOfPeer ==
  ASSUME NEW p \in Peer
  PROVE  A!Used({p}) = LocalSum(p)
<1>1. \A c \in Call : (IF Granted(c).peer \in {p} THEN Granted(c).charge ELSE 0)
                        = Local(call[c], p)
  BY UserAssumption DEF Granted, Local
<1>2. [c \in Call |-> IF Granted(c).peer \in {p} THEN Granted(c).charge ELSE 0]
        = [c \in Call |-> Local(call[c], p)]
  BY <1>1
<1> QED
  BY <1>2, UsedIs DEF LocalSum

(* A peer that exists refers to an object that is not freed.                 *)
LEMMA LiveUser ==
  ASSUME UsersOK, NEW p \in Live
  PROVE  peer[p].user \in allocated /\ user[peer[p].user].uid \in Uid /\ Owner(p) # NULL
<1>1. p \in PeersOf(peer[p].user) /\ peer[p].user \in Object
  BY DEF Live, PeersOf, UsersOK, TypeOK, PeerState
<1>2. user[peer[p].user].ref > 0
  BY <1>1, OwnedIsCounted DEF UsersOK
<1>3. peer[p].user \in allocated
  BY <1>1, <1>2 DEF UsersOK, CountsOK
<1>4. user[peer[p].user].uid \in Uid
  BY <1>3 DEF UsersOK, IdrOK
<1> QED
  BY <1>3, <1>4, UserAssumption DEF Owner

LEMMA SameOwner ==
  ASSUME UsersOK, NEW p \in Live, NEW q \in Peer, Owner(q) = Owner(p)
  PROVE  peer[q].user = peer[p].user
<1>1. q \in Live
  BY LiveUser DEF Owner
<1> QED
  BY SMTT(30), <1>1, LiveUser DEF Owner, UsersOK, IdrOK

(* Before the local counter is charged the global one already is, so what    *)
(* the account has granted to the uid and what c asks for fit the budget.    *)
LEMMA UsedOfOwner ==
  ASSUME UsersOK, NEW c \in Call, call[c].pc = "local",
         NEW p, p = call[c].peer, NEW S, S = {q \in Peer : Owner(q) = Owner(p)}
  PROVE  A!Used(S) + call[c].charge <= GlobalSum(peer[p].user)
<1> DEFINE k == call[c].charge
           u == peer[p].user
           f == [d \in Call |-> IF Granted(d).peer \in S THEN Granted(d).charge ELSE 0]
           h == [d \in Call |-> IF d = c THEN k ELSE f[d]]
           g == [d \in Call |-> Global(call[d], u)]
<1>1. p \in Live /\ p \in Peer /\ k \in Nat /\ TypeOK
  BY Charging DEF UsersOK, CallOK
<1>2. \A d \in Call : f[d] \in Nat /\ h[d] \in Nat /\ g[d] \in Nat
  BY <1>1, HeldIsNat DEF Granted, TypeOK, CallState
<1>3. f[c] = 0 /\ h[c] = k /\ g[c] = k /\ \A d \in Call \ {c} : h[d] = f[d]
  BY UserAssumption DEF Granted, Global
<1>4. ASSUME NEW d \in Call \ {c} PROVE f[d] <= g[d]
  <2>1. CASE Granted(d).peer \in S
    <3>1. Granted(d).peer \in Peer /\ Owner(Granted(d).peer) = Owner(p)
      BY <2>1
    <3>2. call[d].pc \in {"charged", "message"} /\ Granted(d).peer = call[d].peer
          /\ Granted(d).charge = call[d].charge
      BY <3>1, UserAssumption DEF Granted
    <3>3. peer[call[d].peer].user = u
      BY <1>1, <3>1, <3>2, SameOwner
    <3>4. g[d] = call[d].charge
      BY <3>2, <3>3 DEF Global
    <3>5. f[d] = call[d].charge
      BY <2>1, <3>2
    <3> QED
      BY SMTT(30), <1>2, <3>4, <3>5
  <2>2. CASE Granted(d).peer \notin S
    <3>1. f[d] = 0
      BY <2>2
    <3> QED
      BY SMTT(30), <3>1, <1>2
  <2> QED
    BY <2>1, <2>2
<1>5. A!Used(S) = SumFunctionOnSet(f, Call) /\ GlobalSum(u) = SumFunctionOnSet(g, Call)
  BY UsedIs DEF GlobalSum
<1> HIDE DEF f, g, h
<1>6. \A d \in Call : h[d] <= g[d]
  BY SMTT(30), <1>2, <1>3, <1>4
<1>7. SumFunctionOnSet(h, Call) <= SumFunctionOnSet(g, Call)
  BY SMTT(30), <1>2, <1>6, SumMonotone, UserAssumption
<1>8. SumFunctionOnSet(h, Call) = SumFunctionOnSet(f, Call) + (h[c] - f[c])
  BY SMTT(30), <1>2, <1>3, SumChange, UserAssumption
<1>9. SumFunctionOnSet(f, Call) \in Int
  BY SMTT(30), <1>2, SumInt, UserAssumption
<1>10. SumFunctionOnSet(f, Call) + k <= SumFunctionOnSet(g, Call)
  <2> HIDE DEF k
  <2>1. h[c] - f[c] = k /\ k \in Int
    BY SMTT(30), <1>1, <1>3
  <2> QED
    BY <1>7, <1>8, <1>9, <2>1
<1> QED
  BY <1>5, <1>10

(* A call that charges does so for one slice.                                *)
AmountsOK ==
  \A c \in Call : call[c].pc \in {"global", "local"} => call[c].charge \in {1}

LEMMA Amounts ==
  ASSUME UsersOK, AmountsOK, [Next]_vars
  PROVE  AmountsOK'
<1> SUFFICES ASSUME NEW c \in Call, call'[c].pc \in {"global", "local"}
             PROVE  call'[c].charge \in {1}
  BY DEF AmountsOK
<1>1. call \in [Call -> CallState]
  BY DEF UsersOK, TypeOK
<1>2. CASE call'[c] = call[c]
  BY <1>2 DEF AmountsOK
<1>3. ASSUME NEW d \in Call, NEW x, call' = [call EXCEPT ![d] = x],
             x.pc \in {"global", "local"} => x.charge \in {1}
      PROVE  call'[c].charge \in {1}
  BY <1>1, <1>2, <1>3
<1>4. ASSUME NEW d \in Call, Return(d) PROVE call'[c].charge \in {1}
  BY <1>3, <1>4 DEF Return, Idle
<1>5. ASSUME NEW d \in Call, NEW pc, Goto(d, pc), pc \notin {"global", "local"}
      PROVE  call'[c].charge \in {1}
  BY <1>1, <1>2, <1>5 DEF Goto, CallState
<1>6. CASE UNCHANGED call
  BY <1>2, <1>6
<1>7. ASSUME NEW d \in Call, NEW p \in Peer,
             \/ \E uid \in Uid : RefByUid(d, p, uid)
             \/ \E s \in Peer : Send(d, s, p)
             \/ PeerFree(d, p)
      PROVE  call'[c].charge \in {1}
  BY <1>1, <1>2, <1>7 DEF RefByUid, Send, PeerFree, Idle
<1>8. ASSUME NEW d \in Call, RefFast(d) \/ RefSlow(d) \/ MessageUser(d)
      PROVE  call'[c].charge \in {1}
  BY SMTT(30), <1>1, <1>2, <1>4, <1>5, <1>8
     DEF RefFast, RefSlow, UserNew, MessageUser, CallState
<1>9. ASSUME NEW d \in Call, ChargeGlobal(d)
      PROVE  call'[c].charge \in {1}
  BY SMTT(30), <1>1, <1>2, <1>4, <1>5, <1>9 DEF ChargeGlobal, Goto, AmountsOK, CallState
<1>10. ASSUME NEW d \in Call, DischargeGlobal(d)
      PROVE  call'[c].charge \in {1}
  BY <1>1, <1>2, <1>4, <1>10 DEF DischargeGlobal, Idle
<1>11. ASSUME NEW d \in Call,
              \/ PeerNew(d) \/ ChargeLocal(d) \/ ChargeRevert(d) \/ Discharge(d)
              \/ Unref(d) \/ Put(d) \/ UserFree(d)
       PROVE  call'[c].charge \in {1}
  <2>1. Return(d) \/ \E pc \in {"unref", "charged", "revert", "discharge", "put", "free"} :
                       Goto(d, pc)
    BY <1>11 DEF PeerNew, ChargeLocal, ChargeRevert, Discharge, Unref, Put, UserFree
  <2> QED
    BY <1>4, <1>5, <2>1
<1> QED
  BY <1>6, <1>7, <1>8, <1>9, <1>10, <1>11 DEF Next, vars, SetLimit

LEMMA UidsKept ==
  ASSUME UsersOK, [Next]_vars
  PROVE  \A u \in allocated : user'[u].uid = user[u].uid
<1>1. user \in [Object -> UserState] /\ allocated \subseteq Object
  BY DEF UsersOK, TypeOK
<1>2. ASSUME NEW v, KrefGet(v) \/ KrefDec(v)
      PROVE  \A u \in Object : user'[u].uid = user[u].uid
  BY SMTT(30), <1>1, <1>2 DEF KrefGet, KrefDec, UserState
<1>3. ASSUME NEW v, NEW n, user' = [user EXCEPT ![v].n = n]
      PROVE  \A u \in Object : user'[u].uid = user[u].uid
  BY <1>1, <1>3 DEF UserState
<1>4. CASE user' = user
  BY <1>4
<1>5. ASSUME NEW c \in Call, RefSlow(c)
      PROVE  \A u \in allocated : user'[u].uid = user[u].uid
  <2>1. ASSUME NEW v, UserNew(c, v)
        PROVE  \A u \in allocated : user'[u].uid = user[u].uid
    BY <1>1, <2>1 DEF UserNew
  <2> QED
    BY <1>1, <1>2, <1>4, <1>5, <2>1 DEF RefSlow
<1>6. ASSUME NEW c \in Call, RefFast(c) \/ MessageUser(c) \/ Unref(c) \/ Put(c)
      PROVE  \A u \in allocated : user'[u].uid = user[u].uid
  <2>1. user' = user \/ \E v : KrefGet(v) \/ KrefDec(v)
    BY <1>6 DEF RefFast, MessageUser, Unref, Put
  <2> QED
    BY <1>1, <1>2, <1>4, <2>1
<1>7. ASSUME NEW c \in Call, ChargeGlobal(c) \/ ChargeRevert(c) \/ DischargeGlobal(c)
      PROVE  \A u \in allocated : user'[u].uid = user[u].uid
  <2>1. user' = user \/ \E v, n : user' = [user EXCEPT ![v].n = n]
    BY <1>7 DEF ChargeGlobal, ChargeRevert, DischargeGlobal
  <2> QED
    BY <1>1, <1>3, <1>4, <2>1
<1> QED
  BY <1>4, <1>5, <1>6, <1>7 DEF Next, vars, SetLimit, RefByUid, Send, PeerFree,
     PeerNew, ChargeLocal, Discharge, UserFree

(* A step that neither moves a peer nor a granted charge leaves the account  *)
(* as it is.                                                                 *)
Unseen ==
  /\ \A p \in Peer : peer'[p].user = peer[p].user /\ peer'[p].max = peer[p].max
  /\ \A d \in Call : Granted(d)' = Granted(d)

LEMMA AccountIs ==
  /\ A!vars = <<Owners, Limits, Grants>>
  /\ A!vars' = <<Owners', Limits', Grants'>>
BY DEF A!vars, Owners, Limits, Grants, Owner, Granted

LEMMA OwnersKept ==
  ASSUME UsersOK, [Next]_vars, NEW p \in Peer, peer'[p].user = peer[p].user
  PROVE  Owner(p)' = Owner(p)
<1>1. CASE p \in Live
  <2>1. user'[peer[p].user].uid = user[peer[p].user].uid
    BY <1>1, LiveUser, UidsKept
  <2> QED
    BY <1>1, <2>1 DEF Owner, Live
<1>2. CASE p \notin Live
  BY <1>2 DEF Owner, Live
<1> QED
  BY <1>1, <1>2

LEMMA UnseenStutters ==
  ASSUME UsersOK, [Next]_vars, Unseen
  PROVE  UNCHANGED A!vars
<1>1. \A p \in Peer : Owner(p)' = Owner(p) /\ peer'[p].max = peer[p].max
  BY OwnersKept DEF Unseen
<1>2. Owners' = Owners
  BY <1>1 DEF Owners
<1>3. Limits' = Limits
  BY <1>1 DEF Limits
<1>4. Grants' = Grants
  BY DEF Grants, Unseen
<1> QED
  BY <1>2, <1>3, <1>4, AccountIs

LEMMA QuietCall ==
  ASSUME NEW c \in Call, \A d \in Call \ {c} : call'[d] = call[d],
         \/ /\ call[c].pc \notin {"charged", "message"}
            /\ call'[c].pc \notin {"charged", "message"}
         \/ /\ call[c].pc = "charged" /\ call'[c].pc = "message"
            /\ call'[c].peer = call[c].peer /\ call'[c].charge = call[c].charge,
         \A p \in Peer : peer'[p].user = peer[p].user /\ peer'[p].max = peer[p].max
  PROVE  Unseen
<1>1. \A d \in Call \ {c} : Granted(d)' = Granted(d)
  BY DEF Granted
<1>2. Granted(c)' = Granted(c)
  BY DEF Granted
<1> QED
  BY <1>1, <1>2 DEF Unseen

LEMMA HoldsNothingUnseen ==
  ASSUME NEW c \in Call, HoldsNothing(c)
  PROVE  Unseen
<1>1. /\ \A d \in Call \ {c} : call'[d] = call[d]
      /\ call[c].pc \notin {"charged", "message"}
      /\ call'[c].pc \notin {"charged", "message"}
      /\ \A p \in Peer : peer'[p].user = peer[p].user /\ peer'[p].max = peer[p].max
  BY DEF HoldsNothing, Charged
<1> QED
  BY <1>1, QuietCall

LEMMA RefSlowUnseen ==
  ASSUME UsersOK, NEW c \in Call, RefSlow(c)
  PROVE  Unseen
<1>1. call[c].pc = "slow" /\ peer' = peer
  BY DEF RefSlow
<1>2. (\A d \in Call \ {c} : call'[d] = call[d]) /\ call'[c].pc \in {"new", "idle"}
  BY SMTT(30) DEF RefSlow, UserNew, Return, Idle, UsersOK, TypeOK, CallState
<1>3. /\ call[c].pc \notin {"charged", "message"}
      /\ call'[c].pc \notin {"charged", "message"}
  BY <1>1, <1>2
<1> QED
  BY <1>1, <1>2, <1>3, QuietCall

LEMMA ChargesUnseen ==
  ASSUME UsersOK, NEW c \in Call, ChargeRevert(c) \/ MessageUser(c) \/ DischargeGlobal(c)
  PROVE  Unseen
<1>1. \A p \in Peer : peer'[p].user = peer[p].user /\ peer'[p].max = peer[p].max
  BY DEF ChargeRevert, MessageUser, DischargeGlobal
<1>2. CASE ChargeRevert(c)
  <2>1. call[c].pc = "revert" /\ Return(c)
    BY <1>2 DEF ChargeRevert
  <2> QED
    BY <1>1, <2>1, ReturnCall, QuietCall
<1>3. CASE DischargeGlobal(c)
  <2>1. /\ call[c].pc = "discharge"
        /\ Return(c) \/ call' = [call EXCEPT ![c] = [Idle EXCEPT !.pc = "unref",
                                                              !.user = call[c].user]]
    BY <1>3 DEF DischargeGlobal
  <2>2. /\ call'[c].pc \in {"idle", "unref"}
        /\ \A d \in Call \ {c} : call'[d] = call[d]
    BY <2>1, ReturnCall DEF Idle, UsersOK, TypeOK
  <2> QED
    BY <1>1, <2>1, <2>2, QuietCall
<1>4. CASE MessageUser(c)
  <2>1. /\ call[c].pc = "charged" /\ call'[c].pc = "message"
        /\ call'[c].peer = call[c].peer /\ call'[c].charge = call[c].charge
        /\ \A d \in Call \ {c} : call'[d] = call[d]
    BY <1>4 DEF MessageUser, UsersOK, TypeOK, CallState
  <2> QED
    BY <1>1, <2>1, QuietCall
<1> QED
  BY <1>2, <1>3, <1>4

(* A charge is granted when the local counter is charged.                    *)
GrantStep(c) ==
  /\ \A d \in Call \ {c} : call'[d] = call[d]
  /\ call[c].pc = "local" /\ call'[c].pc = "charged"
  /\ call'[c].peer = call[c].peer /\ call'[c].charge = call[c].charge
  /\ \A p \in Peer : peer'[p].user = peer[p].user /\ peer'[p].max = peer[p].max
  /\ peer[call[c].peer].n >= call[c].charge

LEMMA GrantRefines ==
  ASSUME UsersOK, Balanced, AmountsOK, [Next]_vars, NEW c \in Call, GrantStep(c)
  PROVE  \E p \in Peer : \E k \in {1} : A!Grant(c, p, k)
<1> SUFFICES ASSUME NEW p, p = call[c].peer, NEW k, k = call[c].charge
             PROVE  p \in Peer /\ k \in {1} /\ A!Grant(c, p, k)
  OBVIOUS
<1>1. p \in Peer /\ p \in Live /\ k \in Nat
  BY Charging DEF GrantStep, UsersOK, CallOK
<1>2. k \in {1}
  BY DEF AmountsOK, GrantStep
<1>3. Owners' = Owners /\ Limits' = Limits
  <2>1. \A q \in Peer : Owner(q)' = Owner(q) /\ peer'[q].max = peer[q].max
    BY OwnersKept DEF GrantStep
  <2> QED
    BY <2>1 DEF Owners, Limits
<1>4. Grants[c] = A!NoCharge /\ Grants' = [Grants EXCEPT ![c] = [peer |-> p, charge |-> k]]
  BY DEF Grants, Granted, GrantStep, A!NoCharge
<1>5. Owners[p] # NULL
  BY <1>1, LiveUser DEF Owners
<1>6. /\ A!Used({p}) + k <= Limits[p]
      /\ A!Used({q \in Peer : Owners[q] = Owners[p]}) + k <= MaxUser
  <2>1. call[c].pc = "local" /\ peer[p].n >= k
    BY DEF GrantStep
  <2>2. A!Used({p}) + k <= Limits[p]
    <3>1. A!Used({p}) = LocalSum(p) /\ LocalSum(p) \in Nat
      BY <1>1, UsedOfPeer, SumsAreNat DEF UsersOK
    <3>2. peer[p].n + LocalSum(p) = peer[p].max
      BY <1>1, BalancedIs
    <3>3. peer[p].n \in Int /\ peer[p].max \in Int
      BY <1>1, Counters
    <3>4. Limits[p] = peer[p].max
      BY <1>1 DEF Limits
    <3> DEFINE b == LocalSum(p)
               n == peer[p].n
               m == peer[p].max
    <3>5. n >= k /\ n + b = m /\ b \in Int /\ n \in Int /\ m \in Int
      BY SMTT(30), <2>1, <3>1, <3>2, <3>3
    <3> HIDE DEF b, n, m
    <3>6. b + k <= m
      BY SMTT(30), <1>1, <3>5
    <3> QED
      BY <3>1, <3>4, <3>6 DEF b, m
  <2>3. {q \in Peer : Owners[q] = Owners[p]} = {q \in Peer : Owner(q) = Owner(p)}
    BY <1>1 DEF Owners
  <2> SUFFICES ASSUME NEW S, S = {q \in Peer : Owner(q) = Owner(p)},
                      NEW u, u = peer[p].user
               PROVE  A!Used(S) + k <= MaxUser
    BY <2>2, <2>3
  <2>4. A!Used(S) + k <= GlobalSum(u)
    BY <2>1, UsedOfOwner
  <2>5. u \in allocated /\ u \in Object
    BY <1>1, LiveUser DEF UsersOK, TypeOK
  <2>6. user[u].n + GlobalSum(u) = MaxUser /\ user[u].n >= 0
    BY <2>5, BalancedIs
  <2>7. user[u].n \in Int /\ GlobalSum(u) \in Int
    BY SMTT(30), <2>5, Counters, SumsAreNat DEF UsersOK
  <2>8. A!Used(S) \in Int
    <3> DEFINE f == [d \in Call |-> IF Granted(d).peer \in S THEN Granted(d).charge ELSE 0]
    <3>1. \A d \in Call : f[d] \in Int
      BY SMTT(30) DEF Granted, UsersOK, TypeOK, CallState
    <3> HIDE DEF f
    <3>2. SumFunctionOnSet(f, Call) \in Int
      BY <3>1, SumInt, UserAssumption
    <3> QED
      BY <3>2, UsedIs DEF f
  <2> DEFINE a == A!Used(S)
             b == GlobalSum(u)
             m == user[u].n
  <2>9. a + k <= b /\ m + b = MaxUser /\ m >= 0 /\ a \in Int /\ b \in Int /\ m \in Int
    BY <2>4, <2>6, <2>7, <2>8
  <2> HIDE DEF a, b, m
  <2>10. a + k <= MaxUser
    BY SMTT(30), <1>1, <2>9
  <2> QED
    BY <2>10 DEF a
<1>7. A!Grant(c, p, k)
  BY <1>3, <1>4, <1>5, <1>6 DEF A!Grant, Owners, Owner, Limits, Grants, Granted
<1> QED
  BY <1>1, <1>2, <1>7

LEMMA ChargeGlobalRefines ==
  ASSUME UsersOK, NEW c \in Call, ChargeGlobal(c)
  PROVE  Unseen
<1>1. call[c].pc = "global" /\ peer' = peer /\ (Goto(c, "local") \/ Return(c))
  BY DEF ChargeGlobal
<1>2. /\ \A d \in Call \ {c} : call'[d] = call[d]
      /\ call'[c].pc \in {"local", "idle"}
  BY <1>1, GotoCall, ReturnCall
<1> QED
  BY <1>1, <1>2, QuietCall

LEMMA ChargeLocalRefines ==
  ASSUME UsersOK, NEW c \in Call, ChargeLocal(c)
  PROVE  Unseen \/ GrantStep(c)
<1> SUFFICES ASSUME NEW p, p = call[c].peer, NEW k, k = call[c].charge
             PROVE  Unseen \/ GrantStep(c)
  OBVIOUS
<1>1. call[c].pc = "local"
  BY DEF ChargeLocal
<1>2. p \in Peer
  BY <1>1, Charging
<1>3. CASE peer[p].n >= k /\ peer' = [peer EXCEPT ![p].n = @ - k] /\ Goto(c, "charged")
  <2>1. \A q \in Peer : peer'[q].user = peer[q].user /\ peer'[q].max = peer[q].max
    BY <1>2, <1>3, PeerN
  <2>2. /\ \A d \in Call \ {c} : call'[d] = call[d]
        /\ call'[c].pc = "charged" /\ call'[c].peer = p /\ call'[c].charge = k
    BY <1>3, GotoCall
  <2> QED
    BY <1>1, <1>3, <2>1, <2>2 DEF GrantStep
<1>4. CASE Goto(c, "revert") /\ UNCHANGED peer
  <2>1. Unseen
    BY <1>1, <1>4, GotoCall, QuietCall
  <2> QED
    BY <2>1
<1> QED
  BY <1>3, <1>4 DEF ChargeLocal, Covers

LEMMA DischargeRefines ==
  ASSUME UsersOK, [Next]_vars, NEW c \in Call, Discharge(c)
  PROVE  A!Return(c)
<1> SUFFICES ASSUME NEW p, p = call[c].peer, NEW k, k = call[c].charge
             PROVE  A!Return(c)
  OBVIOUS
<1>1. /\ call[c].pc \in {"charged", "message"} /\ Goto(c, "discharge")
      /\ peer' = [peer EXCEPT ![p].n = @ + k]
  BY DEF Discharge
<1>2. p \in Peer
  BY <1>1, Charging
<1>3. \A q \in Peer : peer'[q].user = peer[q].user /\ peer'[q].max = peer[q].max
  BY <1>1, <1>2 DEF UsersOK, TypeOK, PeerState
<1>4. Owners' = Owners /\ Limits' = Limits
  <2>1. \A q \in Peer : Owner(q)' = Owner(q) /\ peer'[q].max = peer[q].max
    BY <1>3, OwnersKept
  <2> QED
    BY <2>1 DEF Owners, Limits
<1>5. /\ \A d \in Call \ {c} : call'[d] = call[d]
      /\ call'[c].pc = "discharge"
  BY <1>1, GotoCall
<1>6. Grants[c] # A!NoCharge /\ Grants' = [Grants EXCEPT ![c] = A!NoCharge]
  BY <1>1, <1>2, <1>5, UserAssumption DEF Grants, Granted, A!NoCharge
<1> QED
  BY <1>4, <1>6 DEF A!Return, Owners, Owner, Limits, Grants, Granted

LEMMA SetLimitRefines ==
  ASSUME UsersOK, [Next]_vars, NEW p \in Peer, NEW l \in Limit, SetLimit(p, l)
  PROVE  A!SetLimit(p, l)
<1>1. p \in Live /\ call' = call
  BY DEF SetLimit
<1>2. /\ \A q \in Peer \ {p} : peer'[q] = peer[q]
      /\ peer'[p].user = peer[p].user /\ peer'[p].max = l
  BY DEF SetLimit, UsersOK, TypeOK
<1>3. Owners' = Owners
  <2>1. \A q \in Peer : Owner(q)' = Owner(q)
    BY <1>2, OwnersKept
  <2> QED
    BY <2>1 DEF Owners
<1>4. Limits' = [Limits EXCEPT ![p] = l]
  BY <1>2 DEF Limits
<1>5. Grants' = Grants
  BY <1>1 DEF Grants, Granted
<1>6. Owners[p] # NULL
  BY <1>1, LiveUser DEF Owners
<1> QED
  BY <1>3, <1>4, <1>5, <1>6 DEF A!SetLimit, Owners, Owner, Limits, Grants, Granted

LEMMA PeerNewRefines ==
  ASSUME UsersOK, [Next]_vars, NEW c \in Call, PeerNew(c)
  PROVE  Unseen \/ \E p \in Peer, uid \in Uid : A!Open(p, uid)
<1>1. call[c].pc = "new" /\ user' = user
  BY DEF PeerNew
<1>2. CASE /\ peer' = [peer EXCEPT ![call[c].peer] =
                         [user |-> call[c].user, n |-> MaxUser, max |-> MaxUser]]
           /\ Return(c)
  <2> SUFFICES ASSUME NEW p, p = call[c].peer, NEW u, u = call[c].user,
                      NEW uid, uid = user[u].uid
               PROVE  p \in Peer /\ uid \in Uid /\ A!Open(p, uid)
    OBVIOUS
  <2>1. p \in Peer \ Live /\ u \in Object
    BY <1>1 DEF UsersOK, CallsOK, CallOK
  <2>2. uid \in Uid
    <3>1. user[u].ref > 0
      BY <1>1, <2>1, OwnedIsCounted DEF Owns, UsersOK
    <3> QED
      BY <2>1, <3>1 DEF UsersOK, CountsOK, IdrOK
  <2>3. /\ \A q \in Peer \ {p} : peer'[q] = peer[q]
        /\ peer'[p].user = u /\ peer'[p].max = MaxUser
    BY <1>2, <2>1 DEF UsersOK, TypeOK
  <2>4. (\A d \in Call \ {c} : call'[d] = call[d]) /\ call'[c].pc = "idle"
    BY <1>2, ReturnCall
  <2>5. \A q \in Peer \ {p} : Owner(q)' = Owner(q)
    BY <2>3, OwnersKept
  <2>6. Owner(p)' = uid
    BY <1>1, <2>1, <2>3, UserAssumption DEF Owner, Live
  <2>7. Owners[p] = NULL /\ Owners' = [Owners EXCEPT ![p] = uid]
    BY <2>1, <2>5, <2>6 DEF Owners, Owner
  <2>8. Limits' = [Limits EXCEPT ![p] = MaxUser]
    BY <2>1, <2>3 DEF Limits
  <2>9. Grants' = Grants
    BY <1>1, <2>4 DEF Grants, Granted
  <2>10. A!Open(p, uid)
    BY <2>7, <2>8, <2>9 DEF A!Open, Owners, Owner, Limits, Grants, Granted
  <2> QED
    BY <2>1, <2>2, <2>10
<1>3. CASE Goto(c, "unref") /\ UNCHANGED peer
  <2>1. Unseen
    BY <1>1, <1>3, GotoCall, QuietCall
  <2> QED
    BY <2>1
<1> QED
  BY <1>2, <1>3 DEF PeerNew

LEMMA PeerFreeRefines ==
  ASSUME UsersOK, [Next]_vars, NEW c \in Call, NEW p \in Peer, PeerFree(c, p)
  PROVE  A!Close(p)
<1>1. call[c].pc = "idle" /\ p \in Live /\ \A d \in Call : call[d].peer # p
  BY DEF PeerFree
<1>2. (\A d \in Call \ {c} : call'[d] = call[d]) /\ call'[c].pc = "unref"
  BY DEF PeerFree, UsersOK, TypeOK, Idle
<1>3. /\ \A q \in Peer \ {p} : peer'[q] = peer[q]
      /\ peer'[p].user = NULL /\ peer'[p].max = 0
  BY DEF PeerFree, UsersOK, TypeOK
<1>4. \A q \in Peer \ {p} : Owner(q)' = Owner(q)
  BY <1>3, OwnersKept
<1>5. Owner(p)' = NULL
  BY <1>3 DEF Owner, Live
<1>6. Owners[p] # NULL /\ Owners' = [Owners EXCEPT ![p] = NULL]
  BY <1>1, <1>4, <1>5, LiveUser DEF Owners
<1>7. Limits' = [Limits EXCEPT ![p] = 0]
  BY <1>3 DEF Limits
<1>8. Grants' = Grants /\ \A d \in Call : Grants[d].peer # p
  BY <1>1, <1>2, UserAssumption DEF Grants, Granted
<1> QED
  BY <1>6, <1>7, <1>8 DEF A!Close, Owners, Owner, Limits, Grants, Granted

LEMMA NextRefines ==
  ASSUME UsersOK, Balanced, AmountsOK, [Next]_vars
  PROVE  A!Next \/ UNCHANGED A!vars
<1>1. CASE Unseen
  BY <1>1, UnseenStutters
<1>2. ASSUME NEW c \in Call, GrantStep(c) PROVE A!Next
  BY <1>2, GrantRefines DEF A!Next
<1>3. CASE UNCHANGED vars
  <2>1. peer' = peer /\ call' = call
    BY <1>3 DEF vars
  <2> QED
    BY <1>1, <2>1 DEF Unseen, Granted
<1>4. ASSUME NEW p \in Peer, NEW l \in Limit, SetLimit(p, l) PROVE A!Next
  BY <1>4, SetLimitRefines DEF A!Next
<1>5. ASSUME NEW c \in Call, NEW p \in Peer, PeerFree(c, p) PROVE A!Next
  BY <1>5, PeerFreeRefines DEF A!Next
<1>6. ASSUME NEW c \in Call, Discharge(c) PROVE A!Next
  BY <1>6, DischargeRefines DEF A!Next
<1>7. ASSUME NEW c \in Call, PeerNew(c) PROVE A!Next \/ Unseen
  BY <1>7, PeerNewRefines DEF A!Next
<1>8. ASSUME NEW c \in Call, ChargeGlobal(c) \/ ChargeLocal(c) PROVE A!Next \/ Unseen
  BY <1>2, <1>8, ChargeGlobalRefines, ChargeLocalRefines
<1>9. ASSUME NEW c \in Call, ChargeRevert(c) \/ MessageUser(c) \/ DischargeGlobal(c)
      PROVE  Unseen
  BY <1>9, ChargesUnseen
<1>10. ASSUME NEW c \in Call, RefFast(c) \/ RefSlow(c) \/ Unref(c) \/ Put(c) \/ UserFree(c)
       PROVE  Unseen
  BY <1>10, RefFastHolds, RefSlowUnseen, UnrefHolds, PutHolds, UserFreeHolds,
     HoldsNothingUnseen, ZenonT(30)
<1>11. ASSUME NEW c \in Call, NEW p \in Peer,
              \/ \E uid \in Uid : RefByUid(c, p, uid)
              \/ \E s \in Peer : Send(c, s, p)
       PROVE  Unseen
  BY <1>11, RefByUidHolds, SendHolds, HoldsNothingUnseen
<1> QED
  BY <1>1, <1>3, <1>4, <1>5, <1>6, <1>7, <1>8, <1>9, <1>10, <1>11 DEF Next

(* bus1_user_charge() and bus1_user_discharge(), whose two counters change   *)
(* one after the other while other calls charge, revert and discharge, act   *)
(* as one account per uid: a charge that is accepted fits the limit of the   *)
(* peer and the budget of its uid at the moment it is accepted.              *)
THEOREM AccountRefinement == Spec => ImplementsAccount
<1>1. Init => A!Init /\ AmountsOK
  <2> SUFFICES ASSUME Init PROVE A!Init /\ AmountsOK
    OBVIOUS
  <2>1. Live = {} /\ (\A p \in Peer : peer[p].max = 0) /\ \A c \in Call : call[c].pc = "idle"
    BY DEF Init, Live, Idle
  <2>2. Owners = [p \in Peer |-> NULL] /\ Limits = [p \in Peer |-> 0]
        /\ Grants = [c \in Call |-> A!NoCharge]
    BY <2>1 DEF Owners, Owner, Limits, Grants, Granted, A!NoCharge
  <2>3. A!Init
    BY <2>2 DEF A!Init, Owners, Owner, Limits, Grants, Granted
  <2> QED
    BY <2>1, <2>3 DEF AmountsOK
<1>2. UsersOK /\ AmountsOK /\ [Next]_vars => AmountsOK'
  BY Amounts
<1>3. UsersOK /\ Balanced /\ AmountsOK /\ [Next]_vars => [A!Next]_(A!vars)
  BY NextRefines
<1> QED
  BY <1>1, <1>2, <1>3, UsersInductive, Balances, PTL DEF Spec, ImplementsAccount, A!Spec
=============================================================================
