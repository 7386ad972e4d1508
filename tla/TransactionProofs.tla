------------------------- MODULE TransactionProofs --------------------------
(***************************************************************************)
(* The theorems about transactions, for any number of peers, transactions  *)
(* and nodes, with destructions, late joins and resets running             *)
(* concurrently: the order in which messages are received, the contract of *)
(* the queues, the handles in messages, the end of a transaction and       *)
(* causality.                                                              *)
(***************************************************************************)
EXTENDS TransactionKeeps, TransactionSteps

USE ZenonT(30)

-----------------------------------------------------------------------------
(* The keys, the lists and the stamps are consistent in every reachable    *)
(* state, for any number of peers, transactions and nodes: whatever the    *)
(* critical sections of tx.c, handle.c and peer.c interleave.              *)
THEOREM Inductive == Spec => []IInv
<1>1. Init => IInv
  BY InitIInv
<1>2. IInv /\ [Next]_vars => IInv'
  BY NextIInv
<1> QED
  BY <1>1, <1>2, PTL DEF Spec

(* Every queue hands its entries out in the order of their keys: no commit *)
(* and no late join puts an entry before one that was already received     *)
(* (bus1_queue_add(), bus1_tx_join(), bus1_tx_commit()).                   *)
THEOREM QueueOrder == Spec => []InKeyOrder
<1>1. IInv => InKeyOrder
  BY DEF IInv
<1> QED
  BY <1>1, Inductive, PTL

(* Two peers never receive messages of two transactions in opposite        *)
(* orders, whatever the number of peers and transactions and whoever else  *)
(* resets, destroys nodes or transfers handles meanwhile (bus1_tx_commit). *)
THEOREM SameOrder == Spec => []SameOrderEverywhere
  BY Inductive, OrderFollows, PTL

(* Once a reset has flushed a queue, nothing that was committed up to the  *)
(* timestamp of the reset is received any more, entries that were staging  *)
(* at that moment included (bus1_queue_flush(), bus1_peer_peek()).         *)
THEOREM FlushedIsGone == Spec => FlushIsFinal
<1> DEFINE Late == \A p \in Peer : Len(delivered'[p]) > Len(delivered[p]) =>
             delivered'[p][Len(delivered'[p])].timestamp > queue[p].flush
<1>1. IInv /\ [Next]_vars => [Late]_vars
  <2> SUFFICES ASSUME IInv, [Next]_vars, NEW p \in Peer,
                      Len(delivered'[p]) > Len(delivered[p])
               PROVE  delivered'[p][Len(delivered'[p])].timestamp > queue[p].flush
    OBVIOUS
  <2> DEFINE l == Len(delivered'[p])
  <2>1. delivered[p] \in Seq(EntryType) /\ delivered'[p] \in Seq(EntryType)
    BY NextIInv DEF IInv, TypeOK
  <2>2. l \in DOMAIN delivered'[p] /\ l \notin DOMAIN delivered[p]
    BY SMTT(30), <2>1
  <2> HIDE DEF l
  <2>3. NewEntry(p, l)
    BY <2>2, NextRecv DEF Recv, OldEntry
  <2> QED
    BY <2>3 DEF NewEntry, Receives, EntryOK, l
<1> QED
  BY <1>1, Inductive, PTL DEF Spec, FlushIsFinal

(* Whatever the callers interleave, a node is tagged by its one user, the  *)
(* lists of a transaction are exactly the nodes it has staged, every       *)
(* destination is synced before it commits, and a reset never flushes less *)
(* than an earlier one (tx.c, handle.c, peer.c).                           *)
THEOREM CallersInductive == Spec => []CInv
<1>1. Init => CInv
  BY InitCInv
<1>2. IInv /\ IInv' /\ CInv /\ [Next]_vars => CInv'
  BY NextCInv
<1> QED
  BY <1>1, <1>2, Inductive, PTL DEF Spec

(* The caches name the first entry, and it is the front exactly when it is *)
(* committed: what poll() and bus1_queue_peek() read off a queue that was  *)
(* not flushed is what a walk of its tree would find, whatever the peers   *)
(* and their transactions do to it, late joins included.                   *)
THEOREM Caches == Spec => []CachedPointers
<1>1. Init => RightOK
  BY InitQuiet
<1>2. IInv /\ RightOK => CachedPointers
  <2> SUFFICES ASSUME IInv, RightOK, NEW p \in Peer, queue[p].flush = 0
               PROVE  PointersRight(queue[p])
    BY DEF CachedPointers
  <2>1. /\ QueueOK(queue[p], Mine(p)) /\ Mine(p) \in SUBSET (Nat \ {0})
        /\ Right(queue[p])
    BY MineOK DEF IInv, KeysOK, RightOK
  <2> QED
    BY <2>1, RightPointers
<1> QED
  BY <1>1, <1>2, NextRight, Inductive, CallersInductive, PTL DEF Spec

(* No WARN_ON() of queue.c, tx.c and handle.c about a queue node fires, as *)
(* long as no handle that attaches late becomes the front of its peer: the *)
(* one WARN_ON() that can fire is the one of bus1_queue_commit_synthetic() *)
(* that says so.                                                           *)
THEOREM NoWarnings == Spec /\ LateJoinStaysBehind => []NoWarn
<1>1. Init => NoWarn
  BY InitQuiet
<1>2. IInv /\ CInv /\ NoWarn /\ [Next]_vars /\ [StaysBehind]_vars => NoWarn'
  BY NextQuiet DEF NoWarn, Quiet
<1>3. [][StaysBehind]_vars <=> LateJoinStaysBehind
  BY PTL DEF LateJoinStaysBehind, StaysBehind
<1> QED
  BY <1>1, <1>2, <1>3, Inductive, CallersInductive, PTL DEF Spec

(* Under the same condition no wake-up is lost: whoever makes a queue      *)
(* readable, by a commit or by a removal, wakes the sleepers.              *)
THEOREM Wakeups == Spec /\ LateJoinStaysBehind => []NoLostWakeup
<1>1. Init => NoLostWakeup
  BY InitQuiet
<1>2. IInv /\ CInv /\ NoLostWakeup /\ [Next]_vars /\ [StaysBehind]_vars
        => NoLostWakeup'
  BY NextQuiet DEF NoLostWakeup, Quiet, Awake
<1>3. [][StaysBehind]_vars <=> LateJoinStaysBehind
  BY PTL DEF LateJoinStaysBehind, StaysBehind
<1> QED
  BY <1>1, <1>2, <1>3, Inductive, CallersInductive, PTL DEF Spec

(* A handle that attaches late overtakes only another handle of the same   *)
(* destruction: where no peer holds handles to two nodes of one owner, it  *)
(* always stays behind (bus1_tx_join(), bus1_queue_commit_synthetic()).    *)
THEOREM JoinsStayBehind ==
  ASSUME SingleHandles
  PROVE  Spec => LateJoinStaysBehind
<1>1. IInv /\ IInv' /\ CInv /\ [Next]_vars => StaysBehind
  BY NextBehind
<1>2. [][StaysBehind]_vars <=> LateJoinStaysBehind
  BY PTL DEF LateJoinStaysBehind, StaysBehind
<1> QED
  BY <1>1, <1>2, Inductive, CallersInductive, PTL DEF Spec

(* So there no WARN_ON() fires and no wake-up is lost, whatever happens.   *)
THEOREM SingleHandlesQuiet ==
  ASSUME SingleHandles
  PROVE  Spec => [](NoWarn /\ NoLostWakeup)
BY JoinsStayBehind, NoWarnings, Wakeups, PTL

-----------------------------------------------------------------------------
(* Handles in messages *)

(* The destruction of the node of r was sealed before s.                   *)
DeadAt(r, s) ==
  \E t \in TxId : /\ Group(NodeOf[r]) = t /\ Sealed(t)
                  /\ tx[t].timestamp < s

(* What belongs to a sealed transaction stays with it.                     *)
LEMMA SealedStays ==
  ASSUME Moves, NEW n \in Node, NEW t \in TxId, Group(n) = t, Sealed(t)
  PROVE  Group(n)' = t /\ Sealed(t)' /\ tx'[t].timestamp = tx[t].timestamp
<1>1. NodeStep(n) /\ Forward(t)
  BY DEF Moves
<1>2. Group(n)' = t
  BY <1>1, NoTx DEF NodeStep, Keeps, Announced, StagedBy, TaggedBy,
     CommittedBy, JoinsLate
<1> QED
  BY <1>1, <1>2 DEF Forward

LEMMA DeadStays ==
  ASSUME Moves, NEW r \in Remote, NEW s, DeadAt(r, s)
  PROVE  DeadAt(r, s)'
<1>1. NodeOf[r] \in Node
  BY TransactionAssumption DEF Node
<1>2. PICK t \in TxId : Group(NodeOf[r]) = t /\ Sealed(t) /\ tx[t].timestamp < s
  BY DEF DeadAt
<1>3. /\ Group(NodeOf[r])' = t /\ Sealed(t)'
      /\ tx'[t].timestamp = tx[t].timestamp
  BY <1>1, <1>2, SealedStays
<1> QED
  BY <1>2, <1>3 DEF DeadAt

(* bus1_handle_is_live_at() reads the notification node of the handle: if  *)
(* that is committed, its timestamp is the one the destruction was sealed  *)
(* with.                                                                   *)
LEMMA NotLive ==
  ASSUME IInv, CInv, NEW r \in Remote, NEW s \in Nat, ~is_live_at(r, s)
  PROVE  DeadAt(r, s)
<1>1. /\ r \in Node /\ r \notin Anchor
  BY TransactionAssumption DEF Node
<1>2. /\ NodeOf[r] \in destroyed /\ Stamp(r) # 0 /\ ~Odd(Stamp(r))
      /\ ~(s <= Stamp(r))
  BY <1>1 DEF is_live_at, AnchorOf, Stamp
<1>3. RemoteTag(r) /\ StagedNode(r)
  BY <1>1 DEF CInv, TagsOK, StagedOK
<1>4. Group(r) = Group(NodeOf[r])
  BY <1>2, <1>3 DEF RemoteTag, Untouched
<1>5. Group(NodeOf[r]) \in TxId
  BY <1>2 DEF IInv, StampsOK
<1>6. PICK t \in TxId : Group(NodeOf[r]) = t
  BY <1>5
<1>7. Sealed(t) /\ tx[t].timestamp = Stamp(r)
  BY <1>2, <1>3, <1>4, <1>6 DEF StagedNode, CommittedAt
<1>8. Stamp(r) \in Nat
  BY <1>1, Numbers
<1>9. tx[t].timestamp < s
  BY SMTT(30), <1>2, <1>7, <1>8
<1> QED
  BY <1>6, <1>7, <1>9 DEF DeadAt

(* What ValidUntilDestroyed says of a received entry                       *)
HandleOK(e) ==
  e.node \in Data /\ e.handle = NULL =>
    Carries[e.node] = NULL \/ DeadAt(Carries[e.node], e.timestamp)

LEMMA HandleStays ==
  ASSUME Moves, NEW e, HandleOK(e)
  PROVE  HandleOK(e)'
<1> SUFFICES ASSUME e.node \in Data, e.handle = NULL, Carries[e.node] # NULL
             PROVE  DeadAt(Carries[e.node], e.timestamp)'
  BY DEF HandleOK
<1>1. DeadAt(Carries[e.node], e.timestamp) /\ Carries[e.node] \in Remote
  BY TransactionAssumption DEF HandleOK
<1> QED
  BY <1>1, DeadStays

LEMMA HandleReceived ==
  ASSUME IInv, CInv, NEW p \in Peer, NEW e \in EntryType, Receives(p, e)
  PROVE  HandleOK(e)
<1> SUFFICES ASSUME e.node \in Data, e.handle = NULL, Carries[e.node] # NULL
             PROVE  DeadAt(Carries[e.node], e.timestamp)
  BY DEF HandleOK
<1>1. Carries[e.node] \in Remote /\ e.node \notin Handle
  BY TransactionAssumption
<1>2. e.timestamp \in Nat
  BY DEF EntryType
<1>3. ~is_live_at(Carries[e.node], e.timestamp)
  BY <1>1 DEF Receives, Handed
<1> QED
  BY <1>1, <1>2, <1>3, NotLive

LEMMA NextValid ==
  IInv /\ CInv /\ ValidUntilDestroyed /\ [Next]_vars => ValidUntilDestroyed'
<1> SUFFICES ASSUME IInv, CInv, ValidUntilDestroyed, [Next]_vars,
                    NEW p \in Peer, NEW i \in DOMAIN delivered'[p]
             PROVE  HandleOK(delivered[p][i])'
  BY DEF ValidUntilDestroyed, HandleOK, DeadAt
<1>1. Moves /\ (OldEntry(p, i) \/ NewEntry(p, i))
  BY NextMoves, NextRecv DEF Recv
<1>2. PICK e : e = delivered'[p][i]
  OBVIOUS
<1>3. ASSUME OldEntry(p, i)
      PROVE  HandleOK(e)
  BY <1>2, <1>3 DEF ValidUntilDestroyed, HandleOK, DeadAt, OldEntry
<1>4. ASSUME NewEntry(p, i)
      PROVE  HandleOK(e)
  BY <1>2, <1>4, HandleReceived DEF NewEntry
<1>5. HandleOK(e)'
  BY <1>1, <1>3, <1>4, HandleStays
<1> QED
  BY <1>2, <1>5 DEF HandleOK, DeadAt

(* A message hands its handle out as BUS1_HANDLE_INVALID only if the node  *)
(* was destroyed by a transaction with a lower commit timestamp, however   *)
(* the commits of the message and of the destruction, the joins of late    *)
(* handles and RECV interleave (bus1_message_install()).                   *)
THEOREM HandlesValid == Spec => []ValidUntilDestroyed
<1>1. Init => ValidUntilDestroyed
  BY SMTT(30) DEF Init, ValidUntilDestroyed
<1> QED
  BY <1>1, NextValid, Inductive, CallersInductive, PTL DEF Spec

-----------------------------------------------------------------------------
(* The last message of a transaction *)

(* Nothing but the nodes S is queued of the transaction g.                 *)
NoMore(p, g, S) == \A m \in queue[p].messages \ S : queue[p].group[m] # g

(* The front is the last of its transaction if bus1_queue_peek() says so:  *)
(* an entry of the same transaction that is still staging would be ordered *)
(* before it, and one that is committed has the same key.                  *)
LEMMA LastFront ==
  ASSUME IInv, CInv, NEW p \in Peer, NEW n, IsFront(queue[p], n), n # NULL,
         NEW g \in TxId, queue[p].group[n] = g, ~More(queue[p])
  PROVE  NoMore(p, g, {n})
<1> SUFFICES ASSUME NEW m \in queue[p].messages \ {n}, queue[p].group[m] = g
             PROVE  FALSE
  BY DEF NoMore
<1> DEFINE q == queue[p]
<1>1. QueueOK(q, Mine(p)) /\ Mine(p) \in SUBSET (Nat \ {0}) /\ q.front = n
  BY MineOK DEF IInv, KeysOK, IsFront
<1>2. /\ n \in q.messages /\ ~Odd(q.timestamp[n])
      /\ Past(q, q.timestamp[n], q.group[n])
  <2> HIDE DEF q
  <2> QED BY <1>1, FrontOK
<1>3. m \in q.messages /\ m \in Mine(p) /\ n \in Mine(p)
  BY <1>1, <1>2 DEF QueueOK, QueueType
<1>4. n \in Node /\ m \in Node /\ Dest[n] = p /\ Dest[m] = p
  BY <1>3, MineOK
<1>5. /\ Linked(n) /\ Stamp(n) = q.timestamp[n] /\ Group(n) = g
      /\ Linked(m) /\ Stamp(m) = q.timestamp[m] /\ Group(m) = g
  BY <1>2, <1>3, <1>4 DEF Linked, Stamp, Group
<1>6. Sealed(g) /\ q.timestamp[n] = tx[g].timestamp
  BY <1>2, <1>4, <1>5 DEF IInv, StampsOK, CommittedAt
<1>7. q.timestamp[m] \in Nat /\ q.timestamp[n] \in Nat
  BY <1>4, <1>5, Numbers
<1>8. CASE Odd(Stamp(m))
  <2>1. m \in tx[g].sync \cup tx[g].async
    BY <1>4, <1>5, <1>8 DEF CInv, StagedOK, StagedNode
  <2>2. StagedList(g)
    BY DEF CInv, StagedOK
  <2>3. Stamp(m) < tx[g].timestamp
    BY <1>6, <2>1, <2>2 DEF StagedList
  <2>4. ~KeyBefore(q.timestamp[m], q.group[m], q.timestamp[n], q.group[n])
    BY <1>2, <1>3 DEF Past
  <2> QED
    BY <1>5, <1>6, <1>7, <2>3, <2>4 DEF KeyBefore
<1>9. CASE ~Odd(Stamp(m))
  <2>1. q.timestamp[m] = q.timestamp[n] /\ q.group[m] = q.group[n]
    BY <1>4, <1>5, <1>6, <1>9 DEF IInv, StampsOK, CommittedAt
  <2>2. m \in q.messages \ {q.front} /\ q.front # NULL
    BY <1>1
  <2>3. ~More(q)
    OBVIOUS
  <2> HIDE DEF q
  <2> QED
    BY <1>1, <2>1, <2>2, <2>3, MoreFollows
<1> QED
  BY <1>8, <1>9

(* Once nothing more is queued of a sealed transaction nothing more comes: *)
(* a handle that joins late needs an entry to stay behind.                 *)
LEMMA NoMoreStays ==
  ASSUME IInv', Moves, NEW p \in Peer, NEW g \in TxId, NEW S, NoMore(p, g, S),
         Sealed(g), Past(queue[p], tx[g].timestamp, g),
         S = {} \/ ~LateJoins(g)
  PROVE  NoMore(p, g, S)'
<1> SUFFICES ASSUME NEW m \in queue'[p].messages \ S, queue'[p].group[m] = g
             PROVE  FALSE
  BY DEF NoMore
<1>1. m \in Mine(p)
  BY DEF IInv, TypeOK, QueueType
<1>2. m \in Node /\ Dest[m] = p /\ Linked(m)' /\ Group(m)' = g
  BY <1>1, MineOK DEF Linked, Group
<1>3. ~(Linked(m) /\ Group(m) = g)
  BY <1>2 DEF NoMore, Linked, Group
<1>4. NodeStep(m)
  BY <1>2 DEF Moves
<1>5. JoinsLate(g, m)
  BY <1>2, <1>3, <1>4 DEF NodeStep, Keeps, Announced, StagedBy,
     TaggedBy, CommittedBy, Untouched, JoinsLate
<1>6. LateJoins(g) /\ Behind(queue[p], tx[g].timestamp, g)
  BY <1>2, <1>5 DEF JoinsLate
<1> QED
  BY <1>6 DEF Behind, Past, NoMore

(* A queued data message belongs to a transaction that no handle joins.    *)
LEMMA DataTx ==
  ASSUME IInv, CInv, NEW p \in Peer, NEW n \in Data \cap Mine(p),
         n \in queue[p].messages
  PROVE  queue[p].group[n] \in TxId /\ ~LateJoins(queue[p].group[n])
<1>1. Linked(n) /\ Group(n) = queue[p].group[n] /\ MessageTag(n)
  BY MineOK DEF Linked, Group, CInv, TagsOK
<1> QED
  BY <1>1 DEF MessageTag, Untouched, LateJoins

(* The message that RECV is working on                                     *)
LEMMA PeekedLast ==
  ASSUME IInv, CInv, IInv', LastOK, Moves, Recv, NEW p \in Peer,
         peeked'[p] # NoEntry, ~peeked'[p].more
  PROVE  NoMore(p, peeked[p].group, {peeked[p].node})'
<1>1. PICK n, g : n = peeked'[p].node /\ g = peeked'[p].group
  OBVIOUS
<1>2. EntryOK(queue'[p], peeked'[p], Data \cap Mine(p))
  BY DEF IInv, KeysOK
<1>3. CASE peeked'[p] = peeked[p]
  <2>1. EntryOK(queue[p], peeked[p], Data \cap Mine(p))
    BY <1>3 DEF IInv, KeysOK
  <2>2. /\ n \in Data \cap Mine(p) /\ n \in queue[p].messages
        /\ queue[p].group[n] = g /\ ~Odd(queue[p].timestamp[n])
        /\ Past(queue[p], queue[p].timestamp[n], g)
    BY <1>1, <1>3, <2>1 DEF EntryOK
  <2>3. g \in TxId /\ ~LateJoins(g)
    BY <2>2, DataTx
  <2>4. n \in Node /\ Linked(n) /\ Group(n) = g /\ Stamp(n) = queue[p].timestamp[n]
    BY <2>2, MineOK DEF Linked, Group, Stamp
  <2>5. Sealed(g) /\ queue[p].timestamp[n] = tx[g].timestamp
    BY <2>2, <2>3, <2>4 DEF IInv, StampsOK, CommittedAt
  <2>6. NoMore(p, g, {n})
    BY <1>1, <1>3 DEF LastOK, NoMore
  <2>7. NoMore(p, g, {n})'
    BY <2>2, <2>3, <2>5, <2>6, NoMoreStays
  <2> QED
    BY <1>1, <2>7 DEF NoMore
<1>4. CASE queue'[p] = queue[p] /\ FrontEntry(p, peeked'[p])
  <2>1. /\ n \in Data \cap Mine(p) /\ n \in queue[p].messages
        /\ queue[p].group[n] = g
    BY <1>1, <1>2, <1>4 DEF EntryOK
  <2>2. g \in TxId
    BY <2>1, DataTx
  <2>3. IsFront(queue[p], n) /\ n # NULL /\ ~More(queue[p])
    BY <1>1, <1>4 DEF FrontEntry, IsFront
  <2>4. NoMore(p, g, {n})
    BY <2>1, <2>2, <2>3, LastFront
  <2> QED
    BY <1>1, <1>4, <2>4 DEF NoMore
<1> QED
  BY <1>3, <1>4 DEF Recv

(* The message that a peer receives                                        *)
LEMMA ReceivedLast ==
  ASSUME IInv, CInv, LastOK, NEW p \in Peer, NEW e \in EntryType,
         Receives(p, e), ~e.more, e.group \in TxId
  PROVE  NoMore(p, e.group, {})'
<1>1. PICK g \in TxId : g = e.group
  OBVIOUS
<1>2. NoMore(p, g, {e.node})
  <2>1. CASE FrontEntry(p, e)
    <3>1. /\ IsFront(queue[p], e.node) /\ e.node # NULL /\ ~More(queue[p])
          /\ queue[p].group[e.node] = g
      BY <1>1, <2>1 DEF FrontEntry, IsFront
    <3> QED
      BY <3>1, LastFront
  <2>2. CASE Handed(p, e)
    BY <1>1, <2>2 DEF Handed, LastOK, NoMore
  <2> QED
    BY <2>1, <2>2 DEF Receives
<1>3. /\ queue'[p].messages = queue[p].messages \ {e.node}
      /\ queue'[p].group = queue[p].group
  BY DEF Receives
<1> QED
  BY <1>1, <1>2, <1>3 DEF NoMore

LEMMA NextLast ==
  IInv /\ IInv' /\ CInv /\ LastOK /\ [Next]_vars => LastOK'
<1> SUFFICES ASSUME IInv, IInv', CInv, LastOK, [Next]_vars, NEW p \in Peer
             PROVE  /\ \A i \in DOMAIN delivered'[p] :
                         ~delivered'[p][i].more /\ delivered'[p][i].group \in TxId
                           => NoMore(p, delivered[p][i].group, {})'
                    /\ peeked'[p] # NoEntry /\ ~peeked'[p].more =>
                         NoMore(p, peeked[p].group, {peeked[p].node})'
  BY DEF LastOK, NoMore
<1>1. Moves /\ Recv
  BY NextMoves, NextRecv
<1>2. ASSUME NEW i \in DOMAIN delivered'[p], ~delivered'[p][i].more,
             delivered'[p][i].group \in TxId
      PROVE  NoMore(p, delivered[p][i].group, {})'
  <2>1. PICK e : e = delivered'[p][i]
    OBVIOUS
  <2>2. PICK g \in TxId : g = e.group
    BY <1>2, <2>1
  <2>3. ASSUME OldEntry(p, i)
        PROVE  NoMore(p, g, {})'
    <3>1. i \in DOMAIN delivered[p] /\ delivered[p][i] = e
      BY <2>1, <2>3 DEF OldEntry
    <3>2. NoMore(p, g, {})
      BY <1>2, <2>1, <2>2, <3>1 DEF LastOK, NoMore
    <3>3. Sealed(g) /\ e.timestamp = tx[g].timestamp
      BY <2>2, <3>1 DEF IInv, StampsOK, CommittedAt
    <3>4. Past(queue[p], tx[g].timestamp, g)
      BY <2>2, <3>1, <3>3 DEF IInv, KeysOK
    <3> QED
      BY <1>1, <3>2, <3>3, <3>4, NoMoreStays
  <2>4. ASSUME NewEntry(p, i)
        PROVE  NoMore(p, g, {})'
    <3>1. e \in EntryType /\ Receives(p, e) /\ ~e.more /\ e.group \in TxId
      BY <1>2, <2>1, <2>4 DEF NewEntry
    <3> QED
      BY <2>2, <3>1, ReceivedLast DEF NoMore
  <2>5. NoMore(p, g, {})'
    BY <1>1, <2>3, <2>4 DEF Recv
  <2> QED
    BY <2>1, <2>2, <2>5 DEF NoMore
<1> QED
  BY <1>1, <1>2, PeekedLast

LEMMA NextContinue ==
  IInv /\ LastOK /\ ContinueIsExact /\ [Next]_vars => ContinueIsExact'
<1> SUFFICES ASSUME IInv, LastOK, ContinueIsExact, [Next]_vars, NEW p \in Peer,
                    NEW i \in DOMAIN delivered'[p],
                    NEW j \in DOMAIN delivered'[p],
                    i < j, ~delivered'[p][i].more,
                    delivered'[p][i].group \in TxId,
                    delivered'[p][i].group = delivered'[p][j].group
             PROVE  FALSE
  BY DEF ContinueIsExact
<1>1. /\ OldEntry(p, i) \/ NewEntry(p, i)
      /\ OldEntry(p, j) \/ NewEntry(p, j)
  BY NextRecv DEF Recv
<1>2. delivered[p] \in Seq(EntryType)
  BY DEF IInv, TypeOK
<1>3. CASE OldEntry(p, j)
  <2>1. i \in DOMAIN delivered[p] /\ i # Len(delivered[p]) + 1
    <3>1. j \in 1 .. Len(delivered[p])
      BY SMTT(30), <1>2, <1>3 DEF OldEntry
    <3> QED
      BY SMTT(30), <1>1, <1>2, <3>1 DEF OldEntry, NewEntry
  <2>2. OldEntry(p, i)
    BY <1>1, <2>1 DEF NewEntry
  <2> QED
    BY <1>3, <2>2 DEF ContinueIsExact, OldEntry
<1>4. CASE NewEntry(p, j)
  <2>1. PICK e \in EntryType : delivered'[p][j] = e /\ Receives(p, e)
    BY <1>4 DEF NewEntry
  <2>2. OldEntry(p, i)
    BY SMTT(30), <1>1, <1>2, <1>4 DEF NewEntry
  <2>3. e.node \in queue[p].messages /\ queue[p].group[e.node] = e.group
    BY <2>1 DEF Receives, EntryOK
  <2> QED
    BY <2>1, <2>2, <2>3 DEF LastOK, OldEntry
<1> QED
  BY <1>1, <1>3, <1>4

-----------------------------------------------------------------------------
(* Causality *)

LEMMA SyncedStays ==
  ASSUME Moves, NEW t \in TxId, Synced(t)
  PROVE  Synced(t)' /\ Sealed(t)
BY DEF Moves, Forward, Synced

(* What is committed                                                       *)
LEMMA NextSyncedNode ==
  ASSUME Moves, NEW n \in Node, SyncedNode(n)
  PROVE  SyncedNode(n)'
<1> SUFFICES ASSUME Linked(n)', Group(n)' \in TxId, ~LateJoins(Group(n))',
                    ~Odd(Stamp(n))'
             PROVE  Synced(Group(n))'
  BY DEF SyncedNode
<1>1. PICK t \in TxId : t = Group(n)'
  OBVIOUS
<1>2. ~LateJoins(t)
  BY <1>1 DEF LateJoins
<1>3. NodeStep(n)
  BY DEF Moves
<1>4. Keeps(n) \/ CommittedBy(t, n)
  BY <1>1, <1>2, <1>3 DEF NodeStep, Announced, StagedBy, TaggedBy,
     CommittedBy, JoinsLate, Untouched
<1>5. Synced(t)
  BY <1>1, <1>2, <1>4 DEF SyncedNode, Keeps, CommittedBy
<1>6. Synced(t)'
  BY <1>5, SyncedStays
<1> QED
  BY <1>1, <1>6 DEF Synced, Sealed

(* What is received                                                        *)
LEMMA EntryStays ==
  ASSUME Moves, NEW p \in Peer, NEW e, e.group \in TxId, Sealed(e.group),
         SyncedEntry(p, e)
  PROVE  SyncedEntry(p, e)'
<1>1. PICK t \in TxId : t = e.group
  OBVIOUS
<1>2. PICK n \in Node : n = e.node
  BY MineOK DEF SyncedEntry
<1>3. Group(n) = t /\ Stamp(n) # 0 /\ Sealed(t) /\ (LateJoins(t) \/ Synced(t))
      /\ n \in Mine(p)
  BY <1>1, <1>2 DEF SyncedEntry
<1>4. NodeStep(n)
  BY DEF Moves
<1>5. Group(n)' = t /\ Stamp(n)' # 0
  BY <1>3, <1>4, NoTx DEF NodeStep, Keeps, Announced, StagedBy,
     TaggedBy, CommittedBy, JoinsLate
<1>6. LateJoins(t)' \/ Synced(t)'
  BY <1>3, SyncedStays DEF LateJoins
<1> QED
  BY <1>1, <1>2, <1>3, <1>5, <1>6 DEF SyncedEntry, Synced, Sealed,
     Group, Stamp, LateJoins

LEMMA ReceivedSynced ==
  ASSUME IInv, CausesOK, NEW p \in Peer, NEW e \in EntryType, Receives(p, e),
         e.group \in TxId
  PROVE  SyncedEntry(p, e) /\ Sealed(e.group)
<1>1. /\ e.node \in Mine(p) /\ e.node \in queue[p].messages
      /\ e.timestamp = queue[p].timestamp[e.node]
      /\ e.group = queue[p].group[e.node] /\ ~Odd(e.timestamp)
  BY DEF Receives, EntryOK
<1>2. /\ e.node \in Node /\ Linked(e.node) /\ Group(e.node) = e.group
      /\ Stamp(e.node) = e.timestamp
  BY <1>1, MineOK DEF Linked, Group, Stamp
<1>3. Sealed(e.group)
  BY <1>1, <1>2 DEF IInv, StampsOK, CommittedAt
<1>4. LateJoins(e.group) \/ Synced(e.group)
  BY <1>1, <1>2 DEF CausesOK, SyncedNode
<1>5. Stamp(e.node) # 0
  <2>1. queue[p].timestamp[e.node] \in 1 .. queue[p].clock + 1
    BY <1>1 DEF IInv, KeysOK, QueueOK
  <2> QED
    BY SMTT(30), <1>1, <1>2, <2>1
<1> QED
  BY <1>1, <1>2, <1>3, <1>4, <1>5 DEF SyncedEntry

(* Two transactions one of which began later                               *)
LEMMA EarlierStays ==
  ASSUME IInv, IInv', CInv, Moves, NEW t \in TxId, NEW u \in TxId,
         ~LateJoins(t), Synced(t), Earlier(t, u)
  PROVE  Earlier(t, u)'
<1> DEFINE Ordered == IF Sealed(u)' THEN tx'[t].timestamp < tx'[u].timestamp
                      ELSE tx'[t].timestamp <= tx'[u].timestamp
<1> SUFFICES ASSUME NEW m \in Node, NEW n \in Node, Group(m)' = u,
                    Stamp(m)' # 0, ~LateJoins(u), Group(n)' = t,
                    Dest[n] = Dest[m]
             PROVE  Ordered
  BY DEF Earlier, LateJoins
<1>1. NodeStep(m) /\ NodeStep(n) /\ Forward(t) /\ Forward(u)
  BY DEF Moves
<1>2. Sealed(t) /\ tx'[t].timestamp = tx[t].timestamp
  BY <1>1 DEF Synced, Forward
<1>3. Group(n) = t
  BY <1>1, <1>2 DEF NodeStep, Keeps, Announced, StagedBy, TaggedBy,
     CommittedBy, JoinsLate
<1>4. /\ tx[t].timestamp \in Nat /\ tx[u].timestamp \in Nat
      /\ Clock(Dest[n]) \in Nat
  BY Numbers
<1>5. tx'[u].timestamp \in Nat
  BY DEF IInv, TypeOK, TxType
<1>6. (Group(m) = u /\ Stamp(m) # 0) \/ StagedBy(u, m)
  <2>1. Keeps(m) \/ CommittedBy(u, m) \/ StagedBy(u, m)
    BY <1>1 DEF NodeStep, Announced, StagedBy, TaggedBy, CommittedBy,
       JoinsLate, Untouched
  <2>2. ASSUME Linked(m)
        PROVE  Stamp(m) # 0
    <3>1. queue[Dest[m]].timestamp[m] \in 1 .. queue[Dest[m]].clock + 1
      BY <2>2, MineOK DEF IInv, KeysOK, QueueOK, Linked
    <3> QED
      BY SMTT(30), <3>1 DEF Stamp
  <2> QED
    BY <2>1, <2>2 DEF Keeps, CommittedBy
<1>7. CASE Group(m) = u /\ Stamp(m) # 0
  <2>1. IF Sealed(u) THEN tx[t].timestamp < tx[u].timestamp
        ELSE tx[t].timestamp <= tx[u].timestamp
    BY <1>3, <1>7 DEF Earlier
  <2> QED
    BY SMTT(30), <1>1, <1>2, <1>4, <1>5, <2>1 DEF Forward
<1>8. CASE StagedBy(u, m)
  <2>1. ~Sealed(u)' /\ Clock(Dest[m]) <= tx'[u].timestamp
    BY <1>8 DEF StagedBy
  <2>2. tx[t].timestamp <= Clock(Dest[n])
    <3>1. StagedNode(n)
      BY DEF CInv, StagedOK
    <3> QED
      BY <1>2, <1>3, <3>1 DEF StagedNode, Synced
  <2> QED
    BY SMTT(30), <1>2, <1>4, <1>5, <2>1, <2>2
<1> QED
  BY <1>6, <1>7, <1>8

(* Only Begin changes what came before a transaction.                      *)
LEMMA NextBefore ==
  ASSUME IInv, [Next]_vars, NEW u \in TxId
  PROVE  \/ before'[u] = before[u]
         \/ /\ before'[u] = Completed \cup Observed
            /\ tx[u].pc = "idle" /\ queue' = queue
<1>1. ASSUME NEW t \in TxId, Begin(t), queue' = queue
      PROVE  \/ before'[u] = before[u]
             \/ /\ before'[u] = Completed \cup Observed
                /\ tx[u].pc = "idle" /\ queue' = queue
  BY <1>1 DEF Begin, IInv, TypeOK
<1>2. ASSUME NEW t \in TxId, BeginSend(t) \/ BeginDestroy(t)
      PROVE  Begin(t) /\ queue' = queue
  BY <1>2 DEF BeginSend, BeginDestroy
<1>3. ASSUME NEW t \in TxId, NEW n \in Node,
             \/ AcquireHandle(t, n) \/ StageMessage(t, n) \/ DestroyLocked(t, n)
             \/ StageRound(t, n) \/ SyncRound(t, n) \/ CommitRound(t, n)
      PROVE  before' = before
  BY <1>3 DEF AcquireHandle, StageMessage, DestroyLocked, StageRound,
     SyncRound, CommitRound
<1>4. ASSUME NEW t \in TxId,
             AcquireCommitTS(t) \/ ReleaseHandles(t) \/ FlushQueue(t)
      PROVE  before' = before
  BY <1>4 DEF AcquireCommitTS, ReleaseHandles, FlushQueue
<1>5. ASSUME \/ \E a \in Anchor :
                  CreateNode(a) \/ QueueRelease(a) \/ AcquireStrong(a)
             \/ \E p \in Peer : Peek(p) \/ Dequeue(p) \/ RecvFail(p)
             \/ \E p \in Poller : Poll(p)
             \/ UNCHANGED vars
      PROVE  before' = before
  BY <1>5 DEF CreateNode, QueueRelease, AcquireStrong, Peek, Dequeue,
     RecvFail, Poll, vars
<1> QED
  BY <1>1, <1>2, <1>3, <1>4, <1>5 DEF Next, TxStep

(* A transaction that begins has no node yet, and all that it has seen is  *)
(* through its sync round.                                                 *)
LEMMA BeginsLater ==
  ASSUME CInv, CausesOK, NEW u \in TxId, tx[u].pc = "idle",
         NEW t \in Completed \cup Observed, ~LateJoins(t)
  PROVE  t \in TxId /\ Synced(t) /\ Earlier(t, u)
<1>1. t \in TxId
  BY DEF Completed, Observed
<1>2. ASSUME t \in Completed
      PROVE  Synced(t)
  <2>1. StagedList(t) /\ tx[t].pc = "done"
    BY <1>1, <1>2 DEF CInv, StagedOK, Completed
  <2>2. tx[t].sync = {} /\ tx[t].async = {} /\ tx[t].unsynced \subseteq tx[t].sync
        /\ Sealed(t)
    BY <2>1 DEF StagedList, Sealed
  <2> QED
    BY <2>2 DEF Synced
<1>3. ASSUME t \in Observed
      PROVE  Synced(t)
  BY <1>1, <1>3 DEF Observed, CausesOK, SyncedEntry
<1>4. ~Sealed(u) /\ StagedList(u)
  BY DEF Sealed, CInv, StagedOK
<1>5. tx[u].sync = {} /\ tx[u].async = {}
  BY <1>4 DEF StagedList
<1>6. ASSUME NEW m \in Node, Group(m) = u, Stamp(m) # 0
      PROVE  FALSE
  <2>1. StagedNode(m)
    BY DEF CInv, StagedOK
  <2> QED
    BY <1>4, <1>5, <1>6, <2>1 DEF StagedNode, CommittedAt
<1>7. Earlier(t, u)
  BY <1>6 DEF Earlier
<1>8. Synced(t)
  BY <1>2, <1>3
<1> QED
  BY <1>1, <1>7, <1>8

LEMMA NextCauses ==
  IInv /\ IInv' /\ CInv /\ CausesOK /\ [Next]_vars => CausesOK'
<1> SUFFICES ASSUME IInv, IInv', CInv, CausesOK, [Next]_vars
             PROVE  CausesOK'
  OBVIOUS
<1>1. Moves /\ Recv
  BY NextMoves, NextRecv
<1>2. \A n \in Node : SyncedNode(n)'
  BY <1>1, NextSyncedNode DEF CausesOK
<1>3. ASSUME NEW p \in Peer, NEW i \in DOMAIN delivered'[p]
      PROVE  SyncedEntry(p, delivered[p][i])'
  <2>1. PICK e : e = delivered'[p][i]
    OBVIOUS
  <2>2. ASSUME e.group \in TxId
        PROVE  SyncedEntry(p, e)'
    <3>1. ASSUME OldEntry(p, i)
          PROVE  SyncedEntry(p, e) /\ Sealed(e.group)
      BY <2>1, <2>2, <3>1 DEF OldEntry, CausesOK, IInv, StampsOK,
         CommittedAt
    <3>2. ASSUME NewEntry(p, i)
          PROVE  SyncedEntry(p, e) /\ Sealed(e.group)
      BY <2>1, <2>2, <3>2, ReceivedSynced DEF NewEntry
    <3>3. SyncedEntry(p, e) /\ Sealed(e.group)
      BY <1>1, <3>1, <3>2 DEF Recv
    <3> QED
      BY <1>1, <2>2, <3>3, EntryStays
  <2>3. SyncedEntry(p, e)'
    BY <2>2 DEF SyncedEntry
  <2> QED
    BY <2>1, <2>3 DEF SyncedEntry, Synced, Sealed, Group, Stamp,
       LateJoins
<1>4. ASSUME NEW u \in TxId, NEW t \in before'[u], ~LateJoins(t)
      PROVE  Synced(t)' /\ Earlier(t, u)'
  <2>1. t \in TxId /\ Synced(t) /\ Earlier(t, u)
    <3>1. ASSUME before'[u] = before[u]
          PROVE  t \in TxId /\ Synced(t) /\ Earlier(t, u)
      BY <1>4, <3>1 DEF CausesOK, IInv, TypeOK
    <3>2. ASSUME before'[u] = Completed \cup Observed, tx[u].pc = "idle"
          PROVE  t \in TxId /\ Synced(t) /\ Earlier(t, u)
      <4>1. t \in Completed \cup Observed
        BY <1>4, <3>2
      <4> QED
        BY <1>4, <3>2, <4>1, BeginsLater
    <3> QED
      BY <3>1, <3>2, NextBefore
  <2>2. Earlier(t, u)'
    BY <1>1, <1>4, <2>1, EarlierStays
  <2> QED
    BY <1>1, <2>1, <2>2, SyncedStays
<1> QED
  BY <1>2, <1>3, <1>4 DEF CausesOK, LateJoins

(* When RECV reports the last message of a transaction none is left in the *)
(* queue, and what was received of a transaction was synced before: the    *)
(* induction behind the two theorems below (bus1_queue_peek(),             *)
(* bus1_tx_commit()).                                                      *)
THEOREM DeliveredInductive == Spec => []DeliveredOK
<1>1. Init => DeliveredOK
  <2> SUFFICES ASSUME Init PROVE DeliveredOK
    OBVIOUS
  <2>1. \A n \in Node : ~Linked(n)
    BY MineOK DEF Init, Linked, QueueInit
  <2>2. /\ \A p \in Peer : DOMAIN delivered[p] = {} /\ peeked[p] = NoEntry
        /\ \A u \in TxId : before[u] = {}
    BY SMTT(30) DEF Init
  <2> QED
    BY <2>1, <2>2 DEF DeliveredOK, LastOK, CausesOK, SyncedNode
<1>2. IInv /\ IInv' /\ CInv /\ DeliveredOK /\ [Next]_vars => DeliveredOK'
  BY NextLast, NextCauses DEF DeliveredOK
<1> QED
  BY <1>1, <1>2, Inductive, CallersInductive, PTL DEF Spec

(* When RECV says that no more messages of the same transaction follow,    *)
(* none is received later: neither one still staging at that moment, nor a *)
(* handle that joins the transaction late (BUS1_MSG_FLAG_CONTINUE).        *)
THEOREM Continues == Spec => []ContinueIsExact
<1>1. Init => ContinueIsExact
  BY SMTT(30) DEF Init, ContinueIsExact
<1>2. IInv /\ DeliveredOK /\ ContinueIsExact /\ [Next]_vars => ContinueIsExact'
  BY NextContinue DEF DeliveredOK
<1> QED
  BY <1>1, <1>2, Inductive, DeliveredInductive, PTL DEF Spec

(* Of two transactions that no handle joins late, the one that began after *)
(* the other one is received later.                                        *)
InCausalOrder(t, u) ==
  LateJoins(t) \/ LateJoins(u) \/ \A p \in Peer : ~ReceivedInOrder(p, u, t)

LEMMA CausesFollow ==
  IInv /\ CausesOK => \A u \in TxId : \A t \in before[u] : InCausalOrder(t, u)
<1> SUFFICES ASSUME IInv, CausesOK, NEW u \in TxId, NEW t \in before[u],
                    ~LateJoins(t), ~LateJoins(u), NEW p \in Peer,
                    ReceivedInOrder(p, u, t)
             PROVE  FALSE
  BY DEF InCausalOrder
<1>1. t \in TxId
  BY DEF IInv, TypeOK
<1>2. PICK i \in Position(p, u), j \in Position(p, t) : i < j
  BY DEF ReceivedInOrder
<1>3. PICK d, e : d = delivered[p][i] /\ e = delivered[p][j]
  OBVIOUS
<1>4. /\ i \in DOMAIN delivered[p] /\ d.group = u
      /\ j \in DOMAIN delivered[p] /\ e.group = t
  BY <1>3 DEF Position
<1>5. /\ Sealed(u) /\ d.timestamp = tx[u].timestamp
      /\ Sealed(t) /\ e.timestamp = tx[t].timestamp
  BY <1>1, <1>3, <1>4 DEF IInv, StampsOK, CommittedAt
<1>6. SyncedEntry(p, d) /\ SyncedEntry(p, e)
  BY <1>3, <1>4 DEF CausesOK
<1>7. /\ d.node \in Node /\ Dest[d.node] = p /\ Group(d.node) = u
      /\ Stamp(d.node) # 0
      /\ e.node \in Node /\ Dest[e.node] = p /\ Group(e.node) = t
  BY <1>1, <1>4, <1>6, MineOK DEF SyncedEntry
<1>8. Earlier(t, u)
  BY DEF CausesOK
<1>9. tx[t].timestamp < tx[u].timestamp
  BY <1>5, <1>7, <1>8 DEF Earlier
<1>10. ~KeyBefore(e.timestamp, e.group, d.timestamp, d.group)
  BY <1>2, <1>3, <1>4 DEF IInv, InKeyOrder
<1> QED
  BY <1>5, <1>9, <1>10 DEF KeyBefore

(* Causality: a transaction that begins after another one completed, or    *)
(* after some peer received a message of it, is received after it by every *)
(* peer that receives both, as the sync round of bus1_tx_commit() ensures. *)
(* The exception are destructions that handles in flight can join late,    *)
(* without a sync round of their own (bus1_tx_join()).                     *)
THEOREM Causality ==
  Spec => [](\A u \in TxId : \A t \in before[u] : InCausalOrder(t, u))
<1>1. DeliveredOK => CausesOK
  BY DEF DeliveredOK
<1> QED
  BY <1>1, CausesFollow, Inductive, DeliveredInductive, PTL

(* So where no message carries a handle to a node that is destroyed, all   *)
(* messages are received in causal order.                                  *)
THEOREM CausalOrder ==
  ASSUME \A t \in TxId : ~LateJoins(t)
  PROVE  Spec => []CausalDelivery
<1>1. (\A u \in TxId : \A t \in before[u] : InCausalOrder(t, u)) /\ IInv
        => CausalDelivery
  BY DEF InCausalOrder, CausalDelivery, IInv, TypeOK
<1> QED
  BY <1>1, Causality, Inductive, PTL
=============================================================================
