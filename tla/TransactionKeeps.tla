-------------------------- MODULE TransactionKeeps --------------------------
(***************************************************************************)
(* The inductive invariant IInv of Transaction holds initially and every   *)
(* action keeps it, for any number of peers, transactions and nodes; and   *)
(* what one step adds to the entries a peer received.                      *)
(***************************************************************************)
EXTENDS QueueProofs

USE ZenonT(30)

(* bus1_queue_init() leaves a well-formed queue.                           *)
LEMMA QueueInitOK ==
  ASSUME NEW N \in SUBSET (Nat \ {0})
  PROVE  QueueOK(QueueInit(N), N)
BY SMTT(30) DEF QueueOK, QueueInit, QueueType, Odd, NULL

(* The invariant holds initially: nothing is linked, listed or received.   *)
LEMMA InitIInv == Init => IInv
<1> SUFFICES ASSUME Init PROVE IInv
  OBVIOUS
<1>1. \A p \in Peer : QueueOK(queue[p], Mine(p))
  BY MineOK, QueueInitOK DEF Init
<1>2. \A n \in Node : Untouched(n)
  BY MineOK DEF Init, Untouched, Linked, Stamp, QueueInit
<1>3. TypeOK
  <2>1. NoEntry \in EntryType
    BY DEF NoEntry, EntryType, NULL
  <2>2. \A p \in Peer : queue[p] \in QueueType(Mine(p))
    BY <1>1 DEF QueueOK
  <2>3. tx \in [TxId -> TxType]
    BY DEF Init, TxInit, TxType
  <2>4. attached \subseteq Remote /\ public \subseteq Handle
    BY TransactionAssumption DEF Init, Handle
  <2>5. delivered \in [Peer -> Seq(EntryType)]
    BY SMTT(30) DEF Init
  <2> QED
    BY <2>1, <2>2, <2>3, <2>4, <2>5 DEF TypeOK, Init
<1>4. KeysOK
  BY SMTT(30), <1>1 DEF KeysOK, Init
<1>5. LocalOK
  BY DEF LocalOK, Init, TxInit
<1>6. ListsOK
  BY SMTT(30), <1>2, TransactionAssumption DEF ListsOK, Init, TxInit, Odd, Node
<1>7. StampsOK
  BY SMTT(30), <1>2 DEF StampsOK, Init, Untouched
<1>8. InKeyOrder
  BY SMTT(30) DEF InKeyOrder, Init
<1> QED
  BY <1>3, <1>4, <1>5, <1>6, <1>7, <1>8 DEF IInv

-----------------------------------------------------------------------------
(* A step that changes one queue *)

(* Whatever the queues do, the order of what was received stays right.     *)
LEMMA KeysKept ==
  ASSUME IInv, \A x \in Peer : Advance(queue[x], queue'[x], Mine(x)),
         UNCHANGED delivered,
         \A x \in Peer : peeked'[x] # NoEntry =>
           /\ peeked'[x] = peeked[x] /\ queue'[x].flush = queue[x].flush
           /\ peeked[x].node \in queue'[x].messages
           /\ queue'[x].timestamp[peeked[x].node]
                = queue[x].timestamp[peeked[x].node]
           /\ queue'[x].group[peeked[x].node] = queue[x].group[peeked[x].node]
  PROVE  KeysOK' /\ InKeyOrder'
<1>1. InKeyOrder'
  BY DEF IInv, InKeyOrder
<1>2. delivered \in [Peer -> Seq(EntryType)]
  BY DEF IInv, TypeOK
<1>3. ASSUME NEW x \in Peer
      PROVE  /\ QueueOK(queue'[x], Mine(x))
             /\ \A i \in DOMAIN delivered'[x] :
                  Past(queue'[x], delivered'[x][i].timestamp,
                       delivered'[x][i].group)
             /\ peeked'[x] # NoEntry =>
                  EntryOK(queue'[x], peeked'[x], Data \cap Mine(x))
  <2>1. QueueOK(queue'[x], Mine(x))
    BY DEF Advance
  <2>2. ASSUME NEW i \in DOMAIN delivered'[x]
        PROVE  Past(queue'[x], delivered'[x][i].timestamp,
                    delivered'[x][i].group)
    <3>1. delivered[x][i] \in EntryType /\ delivered'[x] = delivered[x]
      BY SMTT(30), <1>2, <2>2
    <3>2. Past(queue[x], delivered[x][i].timestamp, delivered[x][i].group)
      BY <2>2, <3>1 DEF IInv, KeysOK
    <3> QED
      BY <3>1, <3>2 DEF Advance, EntryType
  <2>3. ASSUME peeked'[x] # NoEntry
        PROVE  EntryOK(queue'[x], peeked'[x], Data \cap Mine(x))
    <3>1. peeked'[x] = peeked[x] /\ peeked[x] \in EntryType
      BY <2>3 DEF IInv, TypeOK
    <3>2. EntryOK(queue[x], peeked[x], Data \cap Mine(x))
      BY <2>3, <3>1 DEF IInv, KeysOK
    <3>3. Past(queue'[x], peeked[x].timestamp, peeked[x].group)
      BY <3>1, <3>2 DEF Advance, EntryType, EntryOK
    <3> QED
      BY <2>3, <3>1, <3>2, <3>3 DEF EntryOK
  <2> QED
    BY <2>1, <2>2, <2>3
<1>4. KeysOK'
  BY <1>3 DEF KeysOK
<1> QED
  BY <1>1, <1>4

(* A step that stamps and tags no node: it may unlink some.                *)
KeptNode(n) ==
  /\ Linked(n)' => Linked(n)
  /\ Stamp(n)' = Stamp(n)
  /\ Group(n)' = Group(n) \/ (n \in Remote /\ Untouched(n))

(* Only a remote handle that is not in use may be tagged on the side.      *)
LEMMA KeptGroup ==
  ASSUME NEW n, KeptNode(n), Linked(n) \/ n \in Anchor
  PROVE  Group(n)' = Group(n)
BY TransactionAssumption DEF KeptNode, Untouched

(* The lists stay consistent when no key changes and a caller fills its    *)
(* todo list with unused nodes.                                            *)
LEMMA ListsBegin ==
  ASSUME IInv, \A n \in Node : KeptNode(n),
         attached \subseteq attached', destroyed' = destroyed,
         \A t \in TxId :
           /\ ~Odd(tx'[t].timestamp) /\ ~Odd(tx'[t].async_ts)
           /\ tx'[t].sync \cup tx'[t].async \subseteq tx[t].sync \cup tx[t].async
           /\ tx'[t].todo \in SUBSET Node
           /\ tx'[t].todo \cap Data \subseteq Sends[t]
           /\ \A n \in tx'[t].todo \cap Data : Untouched(n)
           /\ \A a \in tx'[t].todo \cap Anchor :
                Dest[a] = Origin[t] /\ a \notin destroyed
           /\ tx'[t].postponed \subseteq tx[t].postponed
           /\ tx'[t].pc = "idle" => tx[t].pc = "idle"
  PROVE  ListsOK'
<1> USE DEF KeptNode, Untouched
<1>1. /\ \A t \in TxId : /\ tx[t].sync \cup tx[t].async \subseteq Node
                         /\ tx[t].postponed \subseteq Node
                         /\ Sends[t] \subseteq Node
      /\ Remote \subseteq Node
  BY TransactionAssumption DEF IInv, TypeOK, TxType, Node
<1>2. ASSUME NEW t \in TxId
      PROVE  /\ ~Odd(tx'[t].timestamp) /\ ~Odd(tx'[t].async_ts)
             /\ \A n \in tx'[t].sync \cup tx'[t].async :
                  /\ Group(n)' = t /\ Stamp(n)' # 0
                  /\ n \in Anchor => n \in destroyed'
             /\ tx'[t].todo \cap Data \subseteq Sends[t]
             /\ \A n \in tx'[t].todo \cap Data : Untouched(n)'
             /\ \A a \in tx'[t].todo \cap Anchor :
                  Dest[a] = Origin[t] /\ a \notin destroyed'
             /\ tx'[t].pc = "idle" => \A n \in Sends[t] : Untouched(n)'
             /\ \A r \in tx'[t].postponed :
                  Untouched(r)' /\ r \in attached' /\ NodeOf[r] \in destroyed'
  BY SMTT(30), <1>1 DEF IInv, ListsOK
<1>3. \A t, u \in TxId : t # u => tx'[t].postponed \cap tx'[u].postponed = {}
  BY SMTT(30) DEF IInv, ListsOK
<1>4. \A r \in Remote :
        r \notin attached' \/ NodeOf[r] \notin destroyed' => Untouched(r)'
  BY SMTT(30), <1>1 DEF IInv, ListsOK
<1> QED
  BY <1>2, <1>3, <1>4 DEF ListsOK

(* The lists stay consistent when no key changes and the lists only        *)
(* shrink.                                                                 *)
LEMMA ListsKept ==
  ASSUME IInv, \A n \in Node : KeptNode(n),
         attached \subseteq attached', destroyed' = destroyed,
         \A t \in TxId :
           /\ ~Odd(tx'[t].timestamp) /\ ~Odd(tx'[t].async_ts)
           /\ tx'[t].sync \cup tx'[t].async \subseteq tx[t].sync \cup tx[t].async
           /\ tx'[t].todo \subseteq tx[t].todo
           /\ tx'[t].postponed \subseteq tx[t].postponed
           /\ tx'[t].pc = "idle" => tx[t].pc = "idle"
  PROVE  ListsOK'
<1>1. ASSUME NEW t \in TxId
      PROVE  /\ tx'[t].todo \in SUBSET Node
             /\ tx'[t].todo \cap Data \subseteq Sends[t]
             /\ \A n \in tx'[t].todo \cap Data : Untouched(n)
             /\ \A a \in tx'[t].todo \cap Anchor :
                  Dest[a] = Origin[t] /\ a \notin destroyed
  BY DEF IInv, ListsOK, TypeOK, TxType
<1> QED
  BY <1>1, ListsBegin

(* The stamps stay consistent when no key changes and sealed transactions  *)
(* keep their timestamp.                                                   *)
LEMMA StampsKept ==
  ASSUME IInv, \A n \in Node : KeptNode(n),
         UNCHANGED <<destroyed, delivered>>,
         \A t \in TxId : Sealed(t) =>
           Sealed(t)' /\ tx'[t].timestamp = tx[t].timestamp
  PROVE  StampsOK'
<1> USE DEF KeptNode, CommittedAt
<1>1. destroyed \subseteq Node
  BY DEF IInv, TypeOK, Node
<1>2. ASSUME NEW n \in Node,
             Linked(n)' /\ ~Odd(Stamp(n)') /\ Group(n)' \in TxId
      PROVE  CommittedAt(Group(n), Stamp(n))'
  BY <1>2, KeptGroup DEF IInv, StampsOK
<1>3. ASSUME NEW a \in destroyed'
      PROVE  /\ Group(a)' \in TxId
             /\ Odd(Stamp(a)') \/ CommittedAt(Group(a), Stamp(a))'
  <2>1. Group(a)' = Group(a) /\ Stamp(a)' = Stamp(a) /\ a \in destroyed
    BY <1>1, <1>3, KeptGroup DEF IInv, TypeOK
  <2> QED
    BY <2>1 DEF IInv, StampsOK
<1>4. ASSUME NEW p \in Peer, NEW i \in DOMAIN delivered'[p],
             delivered'[p][i].group \in TxId
      PROVE  CommittedAt(delivered[p][i].group, delivered[p][i].timestamp)'
  BY <1>4 DEF IInv, StampsOK
<1> QED
  BY <1>2, <1>3, <1>4 DEF StampsOK

-----------------------------------------------------------------------------
(* The steps that leave all queues alone *)

(* A step that touches no queue keeps every node and every past.           *)
LEMMA StillQueues ==
  ASSUME IInv, queue' = queue
  PROVE  /\ \A x \in Peer : Advance(queue[x], queue'[x], Mine(x))
         /\ \A n \in Node : KeptNode(n)
<1>1. \A x \in Peer : QueueOK(queue[x], Mine(x)) /\ queue[x].clock \in Nat
  BY DEF IInv, KeysOK, QueueOK, QueueType
<1> QED
  BY SMTT(30), <1>1 DEF Advance, KeptNode, Linked, Stamp, Group

(* The entry a RECV works on is still the same when its queue did not      *)
(* change.                                                                 *)
LEMMA PeekedSame ==
  ASSUME IInv, NEW x \in Peer, queue'[x] = queue[x], peeked'[x] # NoEntry,
         peeked'[x] = peeked[x]
  PROVE  /\ queue'[x].flush = queue[x].flush
         /\ peeked[x].node \in queue'[x].messages
         /\ queue'[x].timestamp[peeked[x].node]
              = queue[x].timestamp[peeked[x].node]
         /\ queue'[x].group[peeked[x].node] = queue[x].group[peeked[x].node]
BY DEF IInv, KeysOK, EntryOK

(* CreateNode keeps the invariant.                                         *)
LEMMA CreateNodeIInv ==
  ASSUME IInv, NEW a \in Anchor, CreateNode(a)
  PROVE  IInv'
<1> USE DEF CreateNode
<1>1. KeysOK' /\ InKeyOrder'
  BY StillQueues, PeekedSame, KeysKept
<1>2. ListsOK'
  <2>1. \A t \in TxId : ~Odd(tx[t].timestamp) /\ ~Odd(tx[t].async_ts)
    BY DEF IInv, ListsOK
  <2> QED
    BY <2>1, StillQueues, ListsKept
<1>3. StampsOK'
  BY StillQueues, StampsKept DEF Sealed
<1>4. TypeOK' /\ LocalOK'
  BY DEF IInv, TypeOK, LocalOK, Handle
<1> QED
  BY <1>1, <1>2, <1>3, <1>4 DEF IInv

(* BeginSend keeps the invariant: the messages it is about to stage are    *)
(* unused.                                                                 *)
LEMMA BeginSendIInv ==
  ASSUME IInv, NEW t \in TxId, BeginSend(t)
  PROVE  IInv'
<1> USE DEF BeginSend, Begin
<1> DEFINE x == [tx[t] EXCEPT !.pc = "open", !.todo = Sends[t]]
<1>1. tx[t] \in TxType /\ tx' = [tx EXCEPT ![t] = x] /\ tx[t].pc = "idle"
  BY DEF IInv, TypeOK
<1>2. /\ x \in TxType /\ x.pc = "open" /\ x.todo = Sends[t]
      /\ x.postponed = tx[t].postponed /\ x.sync = tx[t].sync
      /\ x.async = tx[t].async /\ x.timestamp = tx[t].timestamp
      /\ x.async_ts = tx[t].async_ts
  BY <1>1, TransactionAssumption DEF TxType, Node
<1> HIDE DEF x
<1>3. /\ tx'[t] = x /\ tx' \in [TxId -> TxType]
      /\ \A u \in TxId \ {t} : tx'[u] = tx[u]
  BY <1>1, <1>2, TxUpdate
<1>4. KeysOK' /\ InKeyOrder'
  BY StillQueues, PeekedSame, KeysKept
<1>5. ListsOK'
  <2>1. \A n \in Node : KeptNode(n)
    BY StillQueues
  <2>2. ASSUME NEW u \in TxId
        PROVE  /\ ~Odd(tx'[u].timestamp) /\ ~Odd(tx'[u].async_ts)
               /\ tx'[u].sync \cup tx'[u].async \subseteq tx[u].sync \cup tx[u].async
               /\ tx'[u].todo \in SUBSET Node
               /\ tx'[u].todo \cap Data \subseteq Sends[u]
               /\ \A n \in tx'[u].todo \cap Data : Untouched(n)
               /\ \A a \in tx'[u].todo \cap Anchor :
                    Dest[a] = Origin[u] /\ a \notin destroyed
               /\ tx'[u].postponed \subseteq tx[u].postponed
               /\ tx'[u].pc = "idle" => tx[u].pc = "idle"
    <3>1. CASE u = t
      <4>1. Sends[t] \in SUBSET Data /\ Data \cap Anchor = {}
        BY TransactionAssumption DEF Handle
      <4>2. /\ \A n \in Sends[t] : Untouched(n)
            /\ ~Odd(tx[t].timestamp) /\ ~Odd(tx[t].async_ts)
        BY <1>1 DEF IInv, ListsOK
      <4> QED
        BY <3>1, <4>1, <4>2, <1>2, <1>3 DEF Node
    <3>2. CASE u # t
      BY <3>2, <1>3 DEF IInv, ListsOK, TypeOK, TxType
    <3> QED
      BY <3>1, <3>2
  <2> QED
    BY <2>1, <2>2, ListsBegin
<1>6. StampsOK'
  <2>1. \A u \in TxId : Sealed(u) =>
          Sealed(u)' /\ tx'[u].timestamp = tx[u].timestamp
    BY <1>1, <1>3 DEF Sealed
  <2> QED
    BY <2>1, StillQueues, StampsKept
<1>7. TypeOK'
  <2>1. Completed \cup Observed \in SUBSET TxId
    BY DEF Completed, Observed
  <2> QED
    BY <1>3, <2>1 DEF IInv, TypeOK
<1>8. LocalOK'
  BY SMTT(30), <1>1, <1>2, <1>3 DEF IInv, LocalOK, LocalUnlocked
<1> QED
  BY <1>4, <1>5, <1>6, <1>7, <1>8 DEF IInv

(* A step of transaction t that only moves on.                             *)
TxMoves(t, x) ==
  /\ tx' = [tx EXCEPT ![t] = x] /\ x \in TxType
  /\ x.todo \subseteq tx[t].todo /\ x.postponed \subseteq tx[t].postponed
  /\ x.sync \cup x.async \subseteq tx[t].sync \cup tx[t].async
  /\ ~Odd(x.timestamp) /\ ~Odd(x.async_ts)
  /\ tx[t].pc \notin {"idle", "done"} /\ x.pc # "idle"
  /\ x.pc # "open" => x.todo = {}
  /\ Sealed(t) => x.pc # "open" /\ x.timestamp = tx[t].timestamp

(* A step that only moves its own transaction along keeps the lists, the   *)
(* stamps and the locks.                                                   *)
LEMMA TxMoved ==
  ASSUME IInv, NEW t \in TxId, NEW x, TxMoves(t, x),
         \A n \in Node : KeptNode(n),
         UNCHANGED <<attached, destroyed, delivered, peeked>>
  PROVE  /\ tx' \in [TxId -> TxType]
         /\ ListsOK' /\ LocalOK' /\ StampsOK'
<1> USE DEF TxMoves
<1>1. /\ tx'[t] = x /\ tx' \in [TxId -> TxType]
      /\ \A u \in TxId \ {t} : tx'[u] = tx[u]
  BY TxUpdate
<1>2. ListsOK'
  <2>1. ASSUME NEW u \in TxId
        PROVE  /\ ~Odd(tx'[u].timestamp) /\ ~Odd(tx'[u].async_ts)
               /\ tx'[u].sync \cup tx'[u].async \subseteq tx[u].sync \cup tx[u].async
               /\ tx'[u].todo \subseteq tx[u].todo
               /\ tx'[u].postponed \subseteq tx[u].postponed
               /\ tx'[u].pc = "idle" => tx[u].pc = "idle"
    BY SMTT(30), <1>1 DEF IInv, ListsOK
  <2> QED
    BY <2>1, ListsKept
<1>3. LocalOK'
  BY SMTT(30), <1>1 DEF IInv, LocalOK
<1>4. StampsOK'
  <2>1. \A u \in TxId : Sealed(u) =>
          Sealed(u)' /\ tx'[u].timestamp = tx[u].timestamp
    BY <1>1 DEF Sealed
  <2> QED
    BY <2>1, StampsKept
<1> QED
  BY <1>1, <1>2, <1>3, <1>4

(* ReleaseHandles keeps the invariant.                                     *)
LEMMA ReleaseHandlesIInv ==
  ASSUME IInv, NEW t \in TxId, ReleaseHandles(t)
  PROVE  IInv'
<1> DEFINE x == [tx[t] EXCEPT !.pc =
                   IF Kind[t] = "reset" THEN "flush" ELSE "done"]
<1>1. tx[t] \in TxType /\ tx' = [tx EXCEPT ![t] = x] /\ tx[t].pc = "release"
  BY DEF ReleaseHandles, IInv, TypeOK
<1>2. /\ ~Odd(tx[t].timestamp) /\ ~Odd(tx[t].async_ts) /\ tx[t].todo = {}
  BY <1>1 DEF IInv, ListsOK, LocalOK
<1>3. TxMoves(t, x)
  BY <1>1, <1>2 DEF TxMoves, TxType
<1> HIDE DEF x
<1>4. UNCHANGED <<queue, attached, destroyed, delivered, peeked, locked, before>>
  BY DEF ReleaseHandles
<1>5. KeysOK' /\ InKeyOrder'
  BY <1>4, StillQueues, PeekedSame, KeysKept
<1>6. tx' \in [TxId -> TxType] /\ ListsOK' /\ LocalOK' /\ StampsOK'
  BY <1>3, <1>4, StillQueues, TxMoved
<1>7. public' \subseteq Handle
  BY DEF ReleaseHandles, IInv, TypeOK
<1>8. TypeOK'
  BY <1>4, <1>6, <1>7 DEF IInv, TypeOK
<1> QED
  BY <1>5, <1>6, <1>8 DEF IInv

(* RecvFail keeps the invariant.                                           *)
LEMMA RecvFailIInv ==
  ASSUME IInv, NEW p \in Peer, RecvFail(p)
  PROVE  IInv'
<1>1. /\ peeked' = [peeked EXCEPT ![p] = NoEntry]
      /\ UNCHANGED <<queue, tx, attached, destroyed, public, locked, delivered,
                     before>>
  BY DEF RecvFail
<1>2. peeked' \in [Peer -> EntryType]
      /\ \A y \in Peer : peeked'[y] # NoEntry => peeked'[y] = peeked[y]
  BY <1>1 DEF IInv, TypeOK, EntryType, NoEntry, NULL
<1>3. KeysOK' /\ InKeyOrder'
  BY <1>1, <1>2, StillQueues, PeekedSame, KeysKept
<1>4. ListsOK'
  <2>1. \A t \in TxId : ~Odd(tx[t].timestamp) /\ ~Odd(tx[t].async_ts)
    BY DEF IInv, ListsOK
  <2> QED
    BY <1>1, <2>1, StillQueues, ListsKept
<1>5. StampsOK'
  BY <1>1, StillQueues, StampsKept DEF Sealed
<1>6. TypeOK' /\ LocalOK'
  BY <1>1, <1>2 DEF IInv, TypeOK, LocalOK
<1> QED
  BY <1>3, <1>4, <1>5, <1>6 DEF IInv

(* BeginDestroy keeps the invariant: its anchors are its own and not       *)
(* destroyed.                                                              *)
LEMMA BeginDestroyIInv ==
  ASSUME IInv, NEW t \in TxId, BeginDestroy(t)
  PROVE  IInv'
<1> DEFINE p == Origin[t]
           anchors == IF Kind[t] = "reset"
                      THEN (Anchor \cap Mine(p) \cap public) \ destroyed
                      ELSE Destroys[t]
           x == [tx[t] EXCEPT !.pc = "open", !.todo = anchors]
<1>1. /\ anchors \in SUBSET Anchor /\ anchors \cap destroyed = {}
      /\ \A a \in anchors : Dest[a] = Origin[t]
  BY TransactionAssumption DEF BeginDestroy, Mine
<1>2. /\ tx[t] \in TxType /\ tx' = [tx EXCEPT ![t] = x] /\ tx[t].pc = "idle"
      /\ LocalUnlocked(Origin[t])
      /\ locked' = [locked EXCEPT ![p] = IF anchors = {} THEN @ ELSE t]
      /\ UNCHANGED <<queue, attached, destroyed, public, peeked, delivered>>
      /\ before' = [before EXCEPT ![t] = Completed \cup Observed]
  BY DEF BeginDestroy, Begin, IInv, TypeOK
<1> HIDE DEF anchors
<1>3. /\ x \in TxType /\ x.pc = "open" /\ x.todo = anchors
      /\ x.postponed = tx[t].postponed /\ x.sync = tx[t].sync
      /\ x.async = tx[t].async /\ x.timestamp = tx[t].timestamp
      /\ x.async_ts = tx[t].async_ts
  BY <1>1, <1>2 DEF TxType, Node
<1> HIDE DEF x
<1>4. /\ tx'[t] = x /\ tx' \in [TxId -> TxType]
      /\ \A u \in TxId \ {t} : tx'[u] = tx[u]
  BY <1>2, <1>3, TxUpdate
<1>5. KeysOK' /\ InKeyOrder'
  BY <1>2, StillQueues, PeekedSame, KeysKept
<1>6. ListsOK'
  <2>1. ASSUME NEW u \in TxId
        PROVE  /\ ~Odd(tx'[u].timestamp) /\ ~Odd(tx'[u].async_ts)
               /\ tx'[u].sync \cup tx'[u].async \subseteq tx[u].sync \cup tx[u].async
               /\ tx'[u].todo \in SUBSET Node
               /\ tx'[u].todo \cap Data \subseteq Sends[u]
               /\ \A n \in tx'[u].todo \cap Data : Untouched(n)
               /\ \A a \in tx'[u].todo \cap Anchor :
                    Dest[a] = Origin[u] /\ a \notin destroyed
               /\ tx'[u].postponed \subseteq tx[u].postponed
               /\ tx'[u].pc = "idle" => tx[u].pc = "idle"
    <3>1. CASE u = t
      <4>1. anchors \cap Data = {}
        BY <1>1, TransactionAssumption DEF Handle
      <4>2. ~Odd(tx[t].timestamp) /\ ~Odd(tx[t].async_ts)
        BY DEF IInv, ListsOK
      <4> QED
        BY <3>1, <4>1, <4>2, <1>1, <1>3, <1>4 DEF Node
    <3>2. CASE u # t
      BY <3>2, <1>4 DEF IInv, ListsOK, TypeOK, TxType
    <3> QED
      BY <3>1, <3>2
  <2> QED
    BY <1>2, <2>1, StillQueues, ListsBegin
<1>7. StampsOK'
  <2>1. \A u \in TxId : Sealed(u) =>
          Sealed(u)' /\ tx'[u].timestamp = tx[u].timestamp
    BY <1>2, <1>4 DEF Sealed
  <2> QED
    BY <1>2, <2>1, StillQueues, StampsKept
<1>8. TypeOK'
  <2>1. Completed \cup Observed \in SUBSET TxId
    BY DEF Completed, Observed
  <2>2. before' \in [TxId -> SUBSET TxId] /\ locked' \in [Peer -> TxId \cup {NULL}]
    BY <1>2, <2>1 DEF IInv, TypeOK
  <2> QED
    BY <1>2, <1>4, <2>2 DEF IInv, TypeOK
<1>9. LocalOK'
  BY SMTT(30), <1>2, <1>3, <1>4 DEF IInv, LocalOK, LocalUnlocked
<1> QED
  BY <1>5, <1>6, <1>7, <1>8, <1>9 DEF IInv

-----------------------------------------------------------------------------
(* The steps that stamp no node *)

(* A critical section that changes the key of one node n, or none, keeps   *)
(* the order of what is received and the entry a RECV works on.            *)
LEMMA KeysOne ==
  ASSUME IInv, NEW p \in Peer, NEW s, queue' = [queue EXCEPT ![p] = s],
         Advance(queue[p], s, Mine(p)),
         UNCHANGED <<delivered, peeked>>,
         \/ peeked[p] = NoEntry
         \/ \E n : n # peeked[p].node /\ OnlyNode(queue[p], s, Mine(p), n)
  PROVE  /\ KeysOK' /\ InKeyOrder'
         /\ DOMAIN queue' = Peer
         /\ \A x \in Peer : queue'[x] \in QueueType(Mine(x))
<1>1. /\ DOMAIN queue' = Peer
      /\ queue'[p] = s
      /\ \A x \in Peer \ {p} : queue'[x] = queue[x]
      /\ \A x \in Peer : Advance(queue[x], queue'[x], Mine(x))
  BY OneQueue
<1>2. ASSUME NEW x \in Peer, peeked'[x] # NoEntry
      PROVE  /\ peeked'[x] = peeked[x] /\ queue'[x].flush = queue[x].flush
             /\ peeked[x].node \in queue'[x].messages
             /\ queue'[x].timestamp[peeked[x].node]
                  = queue[x].timestamp[peeked[x].node]
             /\ queue'[x].group[peeked[x].node]
                  = queue[x].group[peeked[x].node]
  <2>1. CASE x # p
    BY <1>1, <1>2, <2>1, PeekedSame
  <2>2. CASE x = p
    <3>1. EntryOK(queue[p], peeked[p], Data \cap Mine(p))
      BY <1>2, <2>2 DEF IInv, KeysOK
    <3>2. PICK n : n # peeked[p].node /\ OnlyNode(queue[p], s, Mine(p), n)
      BY <1>2, <2>2
    <3> QED
      BY <1>1, <2>2, <3>1, <3>2 DEF EntryOK, OnlyNode
  <2> QED
    BY <2>1, <2>2
<1>3. KeysOK' /\ InKeyOrder'
  BY <1>1, <1>2, KeysKept
<1> QED
  BY <1>1, <1>3 DEF Advance, QueueOK

(* A critical section that changes no key and links nothing keeps every    *)
(* node.                                                                   *)
LEMMA KeptOne ==
  ASSUME IInv, NEW p \in Peer, NEW s, queue' = [queue EXCEPT ![p] = s],
         s.timestamp = queue[p].timestamp, s.group = queue[p].group,
         s.messages \subseteq queue[p].messages
  PROVE  \A n \in Node : KeptNode(n)
<1>1. DOMAIN queue = Peer
  BY DEF IInv, TypeOK
<1>2. queue'[p] = s /\ \A x \in Peer \ {p} : queue'[x] = queue[x]
  BY <1>1
<1>3. \A n \in Node : Dest[n] \in Peer
  BY MineOK
<1> QED
  BY <1>2, <1>3 DEF KeptNode, Linked, Stamp, Group

(* A RECV is never working on a handle.                                    *)
LEMMA PeekedIsData ==
  ASSUME IInv, NEW p \in Peer, peeked[p] # NoEntry
  PROVE  peeked[p].node \in Data /\ peeked[p].node \notin Handle
BY TransactionAssumption DEF IInv, KeysOK, EntryOK

(* AcquireCommitTS keeps the invariant: the commit timestamp is even.      *)
LEMMA AcquireCommitTSIInv ==
  ASSUME IInv, NEW t \in TxId, AcquireCommitTS(t)
  PROVE  IInv'
<1> DEFINE p == Origin[t]
           ts == Later(tx[t].timestamp, tx[t].async_ts)
           r == Sync(queue[p], ts)
           q == Tick(r)
           x == [tx[t] EXCEPT !.timestamp = q.clock, !.unsynced = tx[t].sync,
                   !.pc = IF tx[t].sync = {} THEN Returned(t) ELSE "sealed"]
<1>1. /\ tx[t] \in TxType /\ tx' = [tx EXCEPT ![t] = x]
      /\ tx[t].pc = "open" /\ tx[t].todo = {}
      /\ queue' = [queue EXCEPT ![p] = q]
      /\ UNCHANGED <<attached, destroyed, public, locked, peeked, delivered,
                     before>>
      /\ p \in Peer
  BY TransactionAssumption DEF AcquireCommitTS, IInv, TypeOK
<1>2. ts \in Nat /\ ~Odd(ts) /\ ~Odd(tx[t].async_ts)
  BY <1>1 DEF IInv, ListsOK, Later, TxType
<1>3. QueueOK(queue[p], Mine(p)) /\ Mine(p) \in SUBSET (Nat \ {0})
  BY <1>1, MineOK DEF IInv, KeysOK
<1>4. Advance(queue[p], r, Mine(p)) /\ Ticked(queue[p], r)
  <2> HIDE DEF ts, p
  <2> QED BY <1>2, <1>3, SyncOK
<1>5. Advance(r, q, Mine(p)) /\ Ticked(r, q)
  <2>1. QueueOK(r, Mine(p))
    BY <1>4 DEF Advance
  <2> HIDE DEF r, p
  <2> QED BY <1>3, <2>1, TickOK
<1>6. Advance(queue[p], q, Mine(p)) /\ Ticked(queue[p], q)
  BY <1>3, <1>4, <1>5, AdvanceTransitive DEF Ticked
<1>7. q.clock \in Nat /\ ~Odd(q.clock)
  BY <1>6 DEF Advance, QueueOK, QueueType
<1> HIDE DEF q, r, ts
<1>8. TxMoves(t, x)
  BY <1>1, <1>2, <1>7 DEF TxMoves, TxType, Returned, Sealed
<1> HIDE DEF x, p
<1>9. \A n \in Node : KeptNode(n)
  BY <1>1, <1>6, KeptOne DEF Ticked
<1>10. tx' \in [TxId -> TxType] /\ ListsOK' /\ LocalOK' /\ StampsOK'
  BY <1>1, <1>8, <1>9, TxMoved
<1>11. /\ KeysOK' /\ InKeyOrder' /\ DOMAIN queue' = Peer
       /\ \A y \in Peer : queue'[y] \in QueueType(Mine(y))
  <2>1. OnlyNode(queue[p], q, Mine(p), NULL)
    BY <1>6 DEF OnlyNode, Ticked
  <2>2. peeked[p] = NoEntry \/ NULL # peeked[p].node
    BY <1>1, MineOK, PeekedIsData DEF Node
  <2> QED
    BY <1>1, <1>6, <2>1, <2>2, KeysOne
<1>12. TypeOK'
  BY <1>1, <1>10, <1>11 DEF IInv, TypeOK
<1> QED
  BY <1>10, <1>11, <1>12 DEF IInv

(* SyncRound keeps the invariant, also when it appends the asynchronous    *)
(* joins to the list.                                                      *)
LEMMA SyncRoundIInv ==
  ASSUME IInv, NEW t \in TxId, NEW n \in Node, SyncRound(t, n)
  PROVE  IInv'
<1> DEFINE p == Dest[n]
           rest == tx[t].unsynced \ {n}
           q == Sync(queue[p], tx[t].timestamp)
           x == IF rest # {} THEN [tx[t] EXCEPT !.unsynced = rest]
                ELSE [tx[t] EXCEPT !.unsynced = tx[t].async,
                                   !.sync = tx[t].sync \cup tx[t].async,
                                   !.async = {}]
<1>1. DOMAIN queue = Peer /\ p \in Peer /\ tx \in [TxId -> TxType]
  BY MineOK DEF IInv, TypeOK
<1>2. tx' = [tx EXCEPT ![t] = x]
  BY <1>1 DEF SyncRound
<1>3. queue' = [queue EXCEPT ![p] = q]
  BY <1>1 DEF SyncRound
<1>4. /\ tx[t] \in TxType /\ tx' = [tx EXCEPT ![t] = x]
      /\ tx[t].pc = "sealed"
      /\ queue' = [queue EXCEPT ![p] = q]
      /\ UNCHANGED <<attached, destroyed, public, locked, peeked, delivered,
                     before>>
  BY <1>1, <1>2, <1>3 DEF SyncRound
<1>5. /\ tx[t].timestamp \in Nat /\ ~Odd(tx[t].timestamp)
      /\ ~Odd(tx[t].async_ts) /\ tx[t].todo = {}
  BY <1>4 DEF IInv, ListsOK, LocalOK, TxType
<1>6. QueueOK(queue[p], Mine(p)) /\ Mine(p) \in SUBSET (Nat \ {0})
  BY <1>1, MineOK DEF IInv, KeysOK
<1>7. Advance(queue[p], q, Mine(p)) /\ Ticked(queue[p], q)
  <2> HIDE DEF p
  <2> QED BY <1>5, <1>6, SyncOK
<1> HIDE DEF q
<1>8. TxMoves(t, x)
  <2>1. x \in TxType /\ x.sync \cup x.async \subseteq tx[t].sync \cup tx[t].async
        /\ x.todo = tx[t].todo /\ x.postponed = tx[t].postponed
        /\ x.pc = "sealed" /\ x.timestamp = tx[t].timestamp
        /\ x.async_ts = tx[t].async_ts
    <3>1. CASE rest # {}
      BY <1>4, <3>1 DEF TxType
    <3>2. CASE rest = {}
      BY <1>4, <3>2 DEF TxType, Node
    <3> QED
      BY <3>1, <3>2
  <2> HIDE DEF x
  <2> QED
    BY <1>4, <1>5, <2>1 DEF TxMoves
<1> HIDE DEF x, p
<1>9. \A m \in Node : KeptNode(m)
  BY <1>1, <1>4, <1>7, KeptOne DEF Ticked
<1>10. tx' \in [TxId -> TxType] /\ ListsOK' /\ LocalOK' /\ StampsOK'
  BY <1>4, <1>8, <1>9, TxMoved
<1>11. /\ KeysOK' /\ InKeyOrder' /\ DOMAIN queue' = Peer
       /\ \A y \in Peer : queue'[y] \in QueueType(Mine(y))
  <2>1. OnlyNode(queue[p], q, Mine(p), NULL)
    BY <1>7 DEF OnlyNode, Ticked
  <2>2. peeked[p] = NoEntry \/ NULL # peeked[p].node
    BY <1>1, MineOK, PeekedIsData DEF Node
  <2> QED
    BY <1>1, <1>4, <1>7, <2>1, <2>2, KeysOne
<1>12. TypeOK'
  BY <1>4, <1>10, <1>11 DEF IInv, TypeOK
<1> QED
  BY <1>10, <1>11, <1>12 DEF IInv

(* FlushQueue keeps the invariant: only committed entries go, and nothing  *)
(* is being received meanwhile.                                            *)
LEMMA FlushQueueIInv ==
  ASSUME IInv, NEW t \in TxId, FlushQueue(t)
  PROVE  IInv'
<1> DEFINE p == Origin[t]
           q == Flush(queue[p], tx[t].timestamp)
           x == [tx[t] EXCEPT !.pc = "done"]
<1>1. DOMAIN queue = Peer /\ p \in Peer /\ tx \in [TxId -> TxType]
  BY TransactionAssumption DEF IInv, TypeOK
<1>2. /\ tx[t] \in TxType /\ tx' = [tx EXCEPT ![t] = x]
      /\ tx[t].pc = "flush"
      /\ queue' = [queue EXCEPT ![p] = q]
      /\ UNCHANGED <<attached, destroyed, public, locked, peeked, delivered,
                     before>>
  BY <1>1 DEF FlushQueue
<1>3. /\ tx[t].timestamp \in Nat /\ ~Odd(tx[t].timestamp)
      /\ ~Odd(tx[t].async_ts) /\ tx[t].todo = {} /\ peeked[p] = NoEntry
  BY <1>1, <1>2 DEF IInv, ListsOK, LocalOK, TxType
<1>4. QueueOK(queue[p], Mine(p)) /\ Mine(p) \in SUBSET (Nat \ {0})
  BY <1>1, MineOK DEF IInv, KeysOK
<1>5. /\ Advance(queue[p], q, Mine(p))
      /\ q.timestamp = queue[p].timestamp /\ q.group = queue[p].group
      /\ q.messages \subseteq queue[p].messages
  <2>1. q = Flush(queue[p], tx[t].timestamp)
    OBVIOUS
  <2> HIDE DEF p, q
  <2>2. /\ Advance(queue[p], q, Mine(p))
        /\ FlushOutcome(queue[p], q, tx[t].timestamp)
    BY <1>3, <1>4, <2>1, FlushOK
  <2> QED BY <2>2 DEF FlushOutcome
<1> HIDE DEF q
<1>6. TxMoves(t, x)
  BY <1>2, <1>3 DEF TxMoves, TxType
<1> HIDE DEF x, p
<1>7. \A m \in Node : KeptNode(m)
  BY <1>1, <1>2, <1>5, KeptOne
<1>8. tx' \in [TxId -> TxType] /\ ListsOK' /\ LocalOK' /\ StampsOK'
  BY <1>2, <1>6, <1>7, TxMoved
<1>9. /\ KeysOK' /\ InKeyOrder' /\ DOMAIN queue' = Peer
      /\ \A y \in Peer : queue'[y] \in QueueType(Mine(y))
  BY <1>1, <1>2, <1>3, <1>5, KeysOne
<1>10. TypeOK'
  BY <1>2, <1>8, <1>9 DEF IInv, TypeOK
<1> QED
  BY <1>8, <1>9, <1>10 DEF IInv

(* Nothing happens to the transactions. *)
LEMMA TxIdle ==
  ASSUME IInv, \A n \in Node : KeptNode(n),
         UNCHANGED <<tx, destroyed, delivered, peeked>>,
         attached \subseteq attached'
  PROVE  ListsOK' /\ LocalOK' /\ StampsOK'
<1>1. \A t \in TxId : ~Odd(tx[t].timestamp) /\ ~Odd(tx[t].async_ts)
  BY DEF IInv, ListsOK
<1>2. ListsOK'
  BY <1>1, ListsKept
<1>3. StampsOK'
  BY StampsKept DEF Sealed
<1>4. LocalOK'
  BY DEF IInv, LocalOK
<1> QED
  BY <1>2, <1>3, <1>4

(* Withdrawing a release notification keeps all keys.                      *)
LEMMA FlushReleaseOK ==
  ASSUME IInv, NEW a \in Anchor, FlushRelease(a),
         UNCHANGED <<delivered, peeked>>
  PROVE  /\ KeysOK' /\ InKeyOrder' /\ DOMAIN queue' = Peer
         /\ \A y \in Peer : queue'[y] \in QueueType(Mine(y))
         /\ \A n \in Node : KeptNode(n)
<1> DEFINE p == Dest[a]
           r == Remove(queue[p], a)
           q == IF IsQueued(queue[p], a) THEN r ELSE queue[p]
<1>1. p \in Peer /\ a \in Mine(p) /\ Mine(p) \in SUBSET (Nat \ {0})
      /\ a \in Handle
  BY MineOK DEF Node, Handle
<1>2. queue' = [queue EXCEPT ![p] = q]
  BY DEF FlushRelease
<1>3. QueueOK(queue[p], Mine(p))
  BY <1>1 DEF IInv, KeysOK
<1>4. /\ Advance(queue[p], r, Mine(p))
      /\ r.flush = queue[p].flush
      /\ r.timestamp = queue[p].timestamp /\ r.group = queue[p].group
      /\ r.messages = queue[p].messages \ {a}
  <2>1. r = Remove(queue[p], a)
    OBVIOUS
  <2> HIDE DEF p, r
  <2>2. Advance(queue[p], r, Mine(p)) /\ RemoveOutcome(queue[p], r, a)
    BY <1>1, <1>3, <2>1, RemoveOK
  <2> QED BY <2>2 DEF RemoveOutcome
<1> HIDE DEF r
<1>5. /\ Advance(queue[p], q, Mine(p))
      /\ q.timestamp = queue[p].timestamp /\ q.group = queue[p].group
      /\ q.messages \subseteq queue[p].messages
      /\ OnlyNode(queue[p], q, Mine(p), a)
  <2>1. Advance(queue[p], queue[p], Mine(p))
    BY <1>3, AdvanceReflexive
  <2> QED
    BY <1>4, <2>1 DEF OnlyNode
<1> HIDE DEF q, p
<1>6. peeked[p] = NoEntry \/ a # peeked[p].node
  BY <1>1, PeekedIsData
<1> QED
  BY <1>1, <1>2, <1>5, <1>6, KeysOne, KeptOne

(* AcquireStrong keeps the invariant.                                      *)
LEMMA AcquireStrongIInv ==
  ASSUME IInv, NEW a \in Anchor, AcquireStrong(a)
  PROVE  IInv'
<1>1. /\ FlushRelease(a)
      /\ UNCHANGED <<tx, attached, destroyed, public, locked, peeked, delivered,
                     before>>
  BY DEF AcquireStrong
<1>2. /\ KeysOK' /\ InKeyOrder' /\ DOMAIN queue' = Peer
      /\ \A y \in Peer : queue'[y] \in QueueType(Mine(y))
      /\ \A n \in Node : KeptNode(n)
  BY <1>1, FlushReleaseOK
<1>3. ListsOK' /\ LocalOK' /\ StampsOK'
  BY <1>1, <1>2, TxIdle
<1>4. TypeOK'
  BY <1>1, <1>2 DEF IInv, TypeOK
<1> QED
  BY <1>2, <1>3, <1>4 DEF IInv

(* Poll keeps the invariant.                                               *)
LEMMA PollIInv ==
  ASSUME IInv, NEW p \in Peer, Poll(p)
  PROVE  IInv'
<1> DEFINE q == [queue[p] EXCEPT !.asleep = TRUE]
<1>1. /\ queue' = [queue EXCEPT ![p] = q]
      /\ UNCHANGED <<tx, attached, destroyed, public, locked, peeked, delivered,
                     before>>
  BY DEF Poll
<1>2. QueueOK(queue[p], Mine(p)) /\ Mine(p) \in SUBSET (Nat \ {0})
  BY MineOK DEF IInv, KeysOK
<1>3. q \in QueueType(Mine(p)) /\ Same(queue[p], q)
  BY <1>2 DEF QueueOK, QueueType, Same
<1> HIDE DEF q
<1>4. Alike(queue[p], q)
  BY SMTT(30), <1>2, <1>3 DEF Alike, Same, QueueOK, QueueType
<1>5. Advance(queue[p], q, Mine(p))
  BY <1>2, <1>3, <1>4, AdvanceAlike
<1>6. \A n \in Node : KeptNode(n)
  BY <1>1, <1>3, KeptOne DEF Same
<1>7. /\ KeysOK' /\ InKeyOrder' /\ DOMAIN queue' = Peer
      /\ \A y \in Peer : queue'[y] \in QueueType(Mine(y))
  <2>1. OnlyNode(queue[p], q, Mine(p), NULL)
    BY <1>3 DEF OnlyNode, Same
  <2>2. peeked[p] = NoEntry \/ NULL # peeked[p].node
    BY MineOK, PeekedIsData DEF Node
  <2> QED
    BY <1>1, <1>5, <2>1, <2>2, KeysOne
<1>8. ListsOK' /\ LocalOK' /\ StampsOK'
  BY <1>1, <1>6, TxIdle
<1>9. TypeOK'
  BY <1>1, <1>7 DEF IInv, TypeOK
<1> QED
  BY <1>7, <1>8, <1>9 DEF IInv

-----------------------------------------------------------------------------
(* RECV *)

(* The entry n of the queue of p is removed.                               *)
LEMMA Removed ==
  ASSUME IInv, NEW p \in Peer, NEW n \in Mine(p),
         queue' = [queue EXCEPT ![p] = Remove(queue[p], n)]
  PROVE  /\ DOMAIN queue' = Peer
         /\ RemoveOutcome(queue[p], queue'[p], n)
         /\ \A x \in Peer \ {p} : queue'[x] = queue[x]
         /\ \A x \in Peer : Advance(queue[x], queue'[x], Mine(x))
         /\ \A x \in Peer : queue'[x] \in QueueType(Mine(x))
         /\ \A m \in Node : KeptNode(m)
<1> DEFINE r == Remove(queue[p], n)
<1>1. QueueOK(queue[p], Mine(p)) /\ Mine(p) \in SUBSET (Nat \ {0})
  BY MineOK DEF IInv, KeysOK
<1>2. Advance(queue[p], r, Mine(p)) /\ RemoveOutcome(queue[p], r, n)
  BY <1>1, RemoveOK
<1>3. queue' = [queue EXCEPT ![p] = r]
  OBVIOUS
<1> HIDE DEF r
<1>4. /\ DOMAIN queue' = Peer /\ queue'[p] = r
      /\ \A x \in Peer \ {p} : queue'[x] = queue[x]
      /\ \A x \in Peer : Advance(queue[x], queue'[x], Mine(x))
  BY <1>2, <1>3, OneQueue
<1>5. /\ r.timestamp = queue[p].timestamp /\ r.group = queue[p].group
      /\ r.messages \subseteq queue[p].messages
  BY <1>2 DEF RemoveOutcome
<1>6. \A m \in Node : KeptNode(m)
  BY <1>3, <1>5, KeptOne
<1> QED
  BY <1>2, <1>4, <1>6 DEF Advance, QueueOK

(* Receiving an entry that nothing precedes keeps the order.               *)
LEMMA Received ==
  ASSUME IInv, NEW p \in Peer, NEW e \in EntryType,
         EntryOK(queue[p], e, Mine(p)),
         queue' = [queue EXCEPT ![p] = Remove(queue[p], e.node)],
         delivered' = [delivered EXCEPT ![p] = Append(delivered[p], e)],
         peeked'[p] = NoEntry, \A x \in Peer \ {p} : peeked'[x] = peeked[x],
         UNCHANGED <<tx, destroyed>>
  PROVE  /\ KeysOK' /\ InKeyOrder' /\ StampsOK'
         /\ delivered' \in [Peer -> Seq(EntryType)]
<1>1. e.node \in Mine(p) /\ Mine(p) \in SUBSET (Nat \ {0})
  BY MineOK DEF EntryOK
<1>2. /\ RemoveOutcome(queue[p], queue'[p], e.node)
      /\ \A x \in Peer \ {p} : queue'[x] = queue[x]
      /\ \A x \in Peer : Advance(queue[x], queue'[x], Mine(x))
      /\ \A m \in Node : KeptNode(m)
  BY <1>1, Removed
<1> DEFINE d == delivered[p]
           l == Len(d) + 1
<1>3. /\ d \in Seq(EntryType) /\ delivered' \in [Peer -> Seq(EntryType)]
      /\ \A x \in Peer \ {p} : delivered'[x] = delivered[x]
      /\ delivered'[p] = Append(d, e)
  BY SMTT(30) DEF IInv, TypeOK
<1>4. /\ DOMAIN delivered'[p] = 1 .. l /\ delivered'[p][l] = e /\ l \in Nat
      /\ \A i \in 1 .. l : i # l => i \in DOMAIN d /\ delivered'[p][i] = d[i]
      /\ \A i \in DOMAIN d : d[i] \in EntryType
  BY SMTT(30), <1>3
<1>5. \A i \in DOMAIN d : Past(queue[p], d[i].timestamp, d[i].group)
  BY DEF IInv, KeysOK
<1> HIDE DEF d, l
<1>6. ASSUME NEW i \in DOMAIN delivered'[p]
      PROVE  Past(queue'[p], delivered'[p][i].timestamp,
                  delivered'[p][i].group)
  <2> DEFINE f == delivered'[p][i]
  <2>1. Past(queue[p], f.timestamp, f.group) /\ f \in EntryType
    BY <1>4, <1>5, <1>6 DEF EntryOK
  <2> HIDE DEF f
  <2>2. Past(queue'[p], f.timestamp, f.group)
    BY <1>2, <2>1 DEF Advance, EntryType
  <2> QED
    BY <2>2 DEF f
<1>7. KeysOK'
  <2>1. ASSUME NEW x \in Peer
        PROVE  /\ QueueOK(queue'[x], Mine(x))
               /\ \A i \in DOMAIN delivered'[x] :
                    Past(queue'[x], delivered'[x][i].timestamp,
                         delivered'[x][i].group)
               /\ peeked'[x] # NoEntry =>
                    EntryOK(queue'[x], peeked'[x], Data \cap Mine(x))
    <3>1. QueueOK(queue'[x], Mine(x))
      BY <1>2 DEF Advance
    <3>2. CASE x = p
      BY <1>6, <3>1, <3>2
    <3>3. CASE x # p
      BY <1>2, <1>3, <3>1, <3>3 DEF IInv, KeysOK
    <3> QED
      BY <3>2, <3>3
  <2> QED
    BY <2>1 DEF KeysOK
<1>8. InKeyOrder'
  <2>1. ASSUME NEW i \in DOMAIN delivered'[p], NEW j \in DOMAIN delivered'[p],
               i < j
        PROVE  ~KeyBefore(delivered'[p][j].timestamp, delivered'[p][j].group,
                          delivered'[p][i].timestamp, delivered'[p][i].group)
    <3>1. i # l /\ i \in DOMAIN d /\ delivered'[p][i] = d[i]
      BY SMTT(30), <1>4, <2>1
    <3>2. CASE j = l
      <4>1. Past(queue[p], d[i].timestamp, d[i].group)
        BY <1>5, <3>1
      <4>2. ~KeyBefore(e.timestamp, e.group, d[i].timestamp, d[i].group)
        BY <4>1 DEF EntryOK, Past
      <4> QED
        BY <1>4, <3>1, <3>2, <4>2
    <3>3. CASE j # l
      <4>1. j \in DOMAIN d /\ delivered'[p][j] = d[j]
        BY <1>4, <3>3
      <4> QED
        BY <2>1, <3>1, <4>1 DEF IInv, InKeyOrder, d
    <3> QED
      BY <3>2, <3>3
  <2>2. ASSUME NEW x \in Peer, x # p,
               NEW i \in DOMAIN delivered'[x], NEW j \in DOMAIN delivered'[x],
               i < j
        PROVE  ~KeyBefore(delivered'[x][j].timestamp, delivered'[x][j].group,
                          delivered'[x][i].timestamp, delivered'[x][i].group)
    BY <1>3, <2>2 DEF IInv, InKeyOrder
  <2> QED
    BY <2>1, <2>2 DEF InKeyOrder
<1>9. StampsOK'
  <2> USE DEF CommittedAt
  <2>1. \A t : Sealed(t)' <=> Sealed(t)
    BY DEF Sealed
  <2>2. e.group \in TxId => CommittedAt(e.group, e.timestamp)
    <3>1. e.node \in Node /\ Dest[e.node] = p
      BY <1>1, MineOK
    <3> QED
      BY <3>1 DEF EntryOK, IInv, StampsOK, Linked, Stamp, Group
  <2>3. ASSUME NEW n \in Node,
               Linked(n)' /\ ~Odd(Stamp(n)') /\ Group(n)' \in TxId
        PROVE  CommittedAt(Group(n), Stamp(n))'
    BY <1>2, <2>1, <2>3, KeptGroup DEF IInv, StampsOK, KeptNode
  <2>4. ASSUME NEW a \in destroyed'
        PROVE  /\ Group(a)' \in TxId
               /\ Odd(Stamp(a)') \/ CommittedAt(Group(a), Stamp(a))'
    <3>1. a \in Node
      BY <2>4 DEF IInv, TypeOK, Node
    <3> QED
      <4>1. Group(a)' = Group(a) /\ Stamp(a)' = Stamp(a) /\ a \in destroyed
        BY <1>2, <2>4, <3>1, KeptGroup DEF IInv, TypeOK, KeptNode
      <4> QED
        BY <2>1, <4>1 DEF IInv, StampsOK
  <2>5. ASSUME NEW x \in Peer, NEW i \in DOMAIN delivered'[x],
               delivered'[x][i].group \in TxId
        PROVE  CommittedAt(delivered[x][i].group, delivered[x][i].timestamp)'
    <3>1. CASE x = p /\ i = l
      BY <1>4, <2>1, <2>2, <2>5, <3>1
    <3>2. CASE ~(x = p /\ i = l)
      <4>1. i \in DOMAIN delivered[x] /\ delivered'[x][i] = delivered[x][i]
        BY <1>3, <1>4, <2>5, <3>2 DEF d
      <4> QED
        BY <2>1, <2>5, <4>1 DEF IInv, StampsOK
    <3> QED
      BY <3>1, <3>2
  <2> QED
    BY <2>3, <2>4, <2>5 DEF StampsOK
<1> QED
  BY <1>3, <1>7, <1>8, <1>9

(* What bus1_peer_peek() reports about an entry has its type.              *)
LEMMA EntryTyped ==
  ASSUME IInv, NEW p \in Peer, NEW n \in Mine(p), NEW more \in BOOLEAN
  PROVE  Entry(queue[p], n, more, NULL) \in EntryType
BY SMTT(30), MineOK DEF IInv, TypeOK, QueueType, Entry, EntryType, NULL

(* Peek keeps the invariant: the front is committed and nothing is ordered *)
(* before it.                                                              *)
LEMMA PeekIInv ==
  ASSUME IInv, NEW p \in Peer, Peek(p)
  PROVE  IInv'
<1> DEFINE q == queue[p]
           n == q.front
           more == More(q)
           e == Entry(q, n, more, NULL)
<1>1. QueueOK(q, Mine(p)) /\ Mine(p) \in SUBSET (Nat \ {0})
  BY MineOK DEF IInv, KeysOK
<1>2. /\ n # NULL /\ LocalUnlocked(p)
      /\ UNCHANGED <<tx, attached, destroyed, public, locked, before>>
  BY DEF Peek
<1>3. n \in q.messages /\ n \in Mine(p) /\ ~Odd(q.timestamp[n])
      /\ Past(q, q.timestamp[n], q.group[n])
  <2> HIDE DEF q
  <2> QED BY <1>1, <1>2, FrontOK
<1>4. more \in BOOLEAN
  BY DEF More
<1>5. e \in EntryType
  <2> HIDE DEF more, n
  <2> QED BY <1>3, <1>4, EntryTyped
<1>6. e.node = n /\ e.timestamp = q.timestamp[n] /\ e.group = q.group[n]
  BY DEF Entry
<1>7. \/ /\ queue' = [queue EXCEPT ![p] = Remove(q, n)]
         /\ UNCHANGED <<peeked, delivered>>
      \/ /\ ~(q.timestamp[n] <= q.flush)
         /\ queue' = [queue EXCEPT ![p] = Remove(q, n)]
         /\ delivered' = [delivered EXCEPT ![p] = Append(delivered[p], e)]
         /\ UNCHANGED peeked
      \/ /\ ~(q.timestamp[n] <= q.flush) /\ n \in Data
         /\ peeked' = [peeked EXCEPT ![p] = e]
         /\ UNCHANGED <<queue, delivered>>
  BY DEF Peek
<1>8. q.timestamp[n] \in Nat /\ q.flush \in Nat
  BY <1>1, <1>3 DEF QueueOK, QueueType
<1>9. peeked[p] = NoEntry
  BY <1>2 DEF LocalUnlocked
<1> HIDE DEF q, n, more, e
<1>10. ~(q.timestamp[n] <= q.flush) => EntryOK(q, e, Mine(p))
  BY SMTT(30), <1>3, <1>6, <1>8 DEF EntryOK
<1>11. CASE /\ queue' = [queue EXCEPT ![p] = Remove(q, n)]
            /\ UNCHANGED <<peeked, delivered>>
  <2>1. /\ DOMAIN queue' = Peer
        /\ \A x \in Peer \ {p} : queue'[x] = queue[x]
        /\ \A x \in Peer : Advance(queue[x], queue'[x], Mine(x))
        /\ \A x \in Peer : queue'[x] \in QueueType(Mine(x))
        /\ \A m \in Node : KeptNode(m)
    BY <1>11, <1>3, Removed DEF q
  <2>2. KeysOK' /\ InKeyOrder'
    BY <1>11, <1>9, <2>1, PeekedSame, KeysKept
  <2>3. ListsOK' /\ LocalOK' /\ StampsOK'
    BY <1>11, <1>2, <2>1, TxIdle
  <2>4. TypeOK'
    BY <1>11, <1>2, <2>1 DEF IInv, TypeOK
  <2> QED
    BY <2>2, <2>3, <2>4 DEF IInv
<1>12. CASE /\ ~(q.timestamp[n] <= q.flush)
            /\ queue' = [queue EXCEPT ![p] = Remove(q, n)]
            /\ delivered' = [delivered EXCEPT ![p] = Append(delivered[p], e)]
            /\ UNCHANGED peeked
  <2>1. /\ DOMAIN queue' = Peer
        /\ \A x \in Peer : queue'[x] \in QueueType(Mine(x))
        /\ \A m \in Node : KeptNode(m)
    BY <1>12, <1>3, Removed DEF q
  <2>2. /\ KeysOK' /\ InKeyOrder' /\ StampsOK'
        /\ delivered' \in [Peer -> Seq(EntryType)]
    BY <1>12, <1>2, <1>5, <1>6, <1>9, <1>10, Received DEF q
  <2>3. ListsOK'
    <3>1. \A t \in TxId : ~Odd(tx[t].timestamp) /\ ~Odd(tx[t].async_ts)
      BY DEF IInv, ListsOK
    <3> QED
      BY <1>2, <2>1, <3>1, ListsKept
  <2>4. TypeOK' /\ LocalOK'
    BY <1>12, <1>2, <2>1, <2>2 DEF IInv, TypeOK, LocalOK
  <2> QED
    BY <2>2, <2>3, <2>4 DEF IInv
<1>13. CASE /\ ~(q.timestamp[n] <= q.flush) /\ n \in Data
            /\ peeked' = [peeked EXCEPT ![p] = e]
            /\ UNCHANGED <<queue, delivered>>
  <2>1. /\ peeked' \in [Peer -> EntryType] /\ peeked'[p] = e
        /\ \A x \in Peer \ {p} : peeked'[x] = peeked[x]
    BY <1>13, <1>5 DEF IInv, TypeOK
  <2>2. EntryOK(queue[p], e, Data \cap Mine(p))
    BY <1>10, <1>13, <1>6 DEF EntryOK, q
  <2>3. KeysOK' /\ InKeyOrder'
    <3>1. \A x \in Peer : peeked'[x] # NoEntry =>
            EntryOK(queue'[x], peeked'[x], Data \cap Mine(x))
      BY <1>13, <2>1, <2>2 DEF IInv, KeysOK
    <3> QED
      BY <1>13, <3>1 DEF IInv, KeysOK, InKeyOrder
  <2>4. ListsOK' /\ StampsOK'
    <3>1. \A t \in TxId : ~Odd(tx[t].timestamp) /\ ~Odd(tx[t].async_ts)
      BY DEF IInv, ListsOK
    <3>2. ListsOK'
      BY <1>2, <1>13, <3>1, StillQueues, ListsKept
    <3>3. StampsOK'
      BY <1>2, <1>13, StillQueues, StampsKept DEF Sealed
    <3> QED
      BY <3>2, <3>3
  <2>5. LocalOK'
    BY <1>2, <2>1 DEF IInv, LocalOK, LocalUnlocked
  <2>6. TypeOK'
    BY <1>2, <1>13, <2>1 DEF IInv, TypeOK
  <2> QED
    BY <2>3, <2>4, <2>5, <2>6 DEF IInv
<1> QED
  BY <1>7, <1>11, <1>12, <1>13

(* Dequeue keeps the invariant: what RECV peeked is still queued, under    *)
(* the same key.                                                           *)
LEMMA DequeueIInv ==
  ASSUME IInv, NEW p \in Peer, Dequeue(p)
  PROVE  IInv'
<1> DEFINE h == Carries[peeked[p].node]
           live == h # NULL /\ is_live_at(h, peeked[p].timestamp)
           got == IF live THEN h ELSE NULL
           e == [peeked[p] EXCEPT !.handle = got]
<1>1. DOMAIN queue = Peer /\ delivered \in [Peer -> Seq(EntryType)]
      /\ peeked \in [Peer -> EntryType]
  BY DEF IInv, TypeOK
<1>2. /\ peeked[p] # NoEntry
      /\ public' = IF live THEN public \cup {h} ELSE public
      /\ peeked' = [peeked EXCEPT ![p] = NoEntry]
      /\ UNCHANGED <<tx, attached, destroyed, locked, before>>
  BY DEF Dequeue
<1>3. EntryOK(queue[p], peeked[p], Data \cap Mine(p))
  BY <1>2 DEF IInv, KeysOK
<1>4. h \in Remote \cup {NULL} /\ Remote \subseteq Nat
  BY <1>3, TransactionAssumption DEF EntryOK, Node, NULL
<1>5. got \in Nat
  BY <1>4 DEF NULL
<1> HIDE DEF h, live, got
<1>6. /\ e \in EntryType /\ e.node = peeked[p].node
      /\ e.timestamp = peeked[p].timestamp /\ e.group = peeked[p].group
  BY <1>1, <1>5 DEF EntryType
<1>7. /\ queue' = [queue EXCEPT ![p] = Remove(queue[p], e.node)]
      /\ delivered' = [delivered EXCEPT ![p] = Append(delivered[p], e)]
  BY <1>1, <1>6 DEF Dequeue, h, live, got
<1> HIDE DEF e
<1>8. EntryOK(queue[p], e, Mine(p))
  BY <1>3, <1>6 DEF EntryOK
<1>9. /\ peeked' \in [Peer -> EntryType] /\ peeked'[p] = NoEntry
      /\ \A x \in Peer \ {p} : peeked'[x] = peeked[x]
  BY <1>1, <1>2 DEF EntryType, NoEntry, NULL
<1>10. /\ DOMAIN queue' = Peer
       /\ \A x \in Peer : queue'[x] \in QueueType(Mine(x))
       /\ \A m \in Node : KeptNode(m)
  <2>1. e.node \in Mine(p)
    BY <1>8 DEF EntryOK
  <2> QED
    BY <1>7, <2>1, Removed
<1>11. /\ KeysOK' /\ InKeyOrder' /\ StampsOK'
       /\ delivered' \in [Peer -> Seq(EntryType)]
  BY <1>2, <1>6, <1>7, <1>8, <1>9, Received
<1>12. ListsOK'
  <2>1. \A t \in TxId : ~Odd(tx[t].timestamp) /\ ~Odd(tx[t].async_ts)
    BY DEF IInv, ListsOK
  <2> QED
    BY <1>2, <1>10, <2>1, ListsKept
<1>13. TypeOK' /\ LocalOK'
  <2>1. public' \subseteq Handle
    BY <1>2, <1>4 DEF IInv, TypeOK, Handle, live
  <2> QED
    BY <1>2, <1>9, <1>10, <1>11, <2>1 DEF IInv, TypeOK, LocalOK
<1> QED
  BY <1>11, <1>12, <1>13 DEF IInv

-----------------------------------------------------------------------------
(* Steps that give a node of the transaction a new key *)

(* The lists stay consistent when only the key of node n changes and n is  *)
(* on no list but those of its group.                                      *)
LEMMA ListsNode ==
  ASSUME IInv, NEW n \in Node, \A m \in Node \ {n} : KeptNode(m),
         attached \subseteq attached', destroyed \subseteq destroyed',
         \A t \in TxId :
           /\ ~Odd(tx'[t].timestamp) /\ ~Odd(tx'[t].async_ts)
           /\ \A m \in tx'[t].sync \cup tx'[t].async :
                \/ m # n /\ m \in tx[t].sync \cup tx[t].async
                \/ /\ m = n /\ Group(n)' = t /\ Stamp(n)' # 0
                   /\ n \in Anchor => n \in destroyed'
           /\ tx'[t].todo \subseteq tx[t].todo
           /\ n \notin tx'[t].todo \cap Data
           /\ tx'[t].todo \cap Anchor \cap destroyed' = {}
           /\ tx'[t].pc = "idle" => tx[t].pc = "idle" /\ n \notin Sends[t]
           /\ \A r \in tx'[t].postponed :
                /\ r # n /\ r \in Remote /\ Untouched(r)
                /\ r \in attached' /\ NodeOf[r] \in destroyed',
         \A t, u \in TxId : t # u => tx'[t].postponed \cap tx'[u].postponed = {},
         n \in Remote => n \in attached' /\ NodeOf[n] \in destroyed'
  PROVE  ListsOK'
<1> USE DEF KeptNode, Untouched
<1>1. /\ \A t \in TxId : /\ tx[t].sync \cup tx[t].async \subseteq Node
                         /\ tx[t].todo \subseteq Node
                         /\ Sends[t] \subseteq Node
      /\ Remote \subseteq Node
  BY TransactionAssumption DEF IInv, TypeOK, TxType, Node
<1>2. ASSUME NEW t \in TxId
      PROVE  /\ ~Odd(tx'[t].timestamp) /\ ~Odd(tx'[t].async_ts)
             /\ \A m \in tx'[t].sync \cup tx'[t].async :
                  /\ Group(m)' = t /\ Stamp(m)' # 0
                  /\ m \in Anchor => m \in destroyed'
             /\ tx'[t].todo \cap Data \subseteq Sends[t]
             /\ \A m \in tx'[t].todo \cap Data : Untouched(m)'
             /\ \A a \in tx'[t].todo \cap Anchor :
                  Dest[a] = Origin[t] /\ a \notin destroyed'
             /\ tx'[t].pc = "idle" => \A m \in Sends[t] : Untouched(m)'
             /\ \A r \in tx'[t].postponed :
                  Untouched(r)' /\ r \in attached' /\ NodeOf[r] \in destroyed'
  <2>1. ~Odd(tx'[t].timestamp) /\ ~Odd(tx'[t].async_ts)
    OBVIOUS
  <2>2. ASSUME NEW m \in tx'[t].sync \cup tx'[t].async
        PROVE  /\ Group(m)' = t /\ Stamp(m)' # 0
               /\ m \in Anchor => m \in destroyed'
    <3>1. CASE m # n /\ m \in tx[t].sync \cup tx[t].async
      <4>1. KeptNode(m)
        BY <1>1, <3>1
      <4>2. Group(m) = t /\ Stamp(m) # 0 /\ (m \in Anchor => m \in destroyed)
        BY <3>1 DEF IInv, ListsOK
      <4> QED
        BY <4>1, <4>2
    <3>2. CASE /\ m = n /\ Group(n)' = t /\ Stamp(n)' # 0
               /\ n \in Anchor => n \in destroyed'
      BY <3>2
    <3> QED
      BY <2>2, <3>1, <3>2
  <2>3. /\ tx'[t].todo \cap Data \subseteq Sends[t]
        /\ \A m \in tx'[t].todo \cap Data : Untouched(m)'
        /\ \A a \in tx'[t].todo \cap Anchor :
                  Dest[a] = Origin[t] /\ a \notin destroyed'
    <3>1. /\ tx[t].todo \cap Data \subseteq Sends[t]
          /\ \A m \in tx[t].todo \cap Data : Untouched(m)
          /\ \A a \in tx[t].todo \cap Anchor : Dest[a] = Origin[t]
      BY DEF IInv, ListsOK
    <3>2. ASSUME NEW m \in tx'[t].todo \cap Data
          PROVE  m \in Sends[t] /\ Untouched(m)'
      <4>1. m # n /\ m \in tx[t].todo \cap Data
        BY <3>2
      <4>2. KeptNode(m)
        BY <1>1, <4>1
      <4> QED
        BY <3>1, <4>1, <4>2
    <3>3. ASSUME NEW a \in tx'[t].todo \cap Anchor
          PROVE  Dest[a] = Origin[t] /\ a \notin destroyed'
      <4>1. a \in tx[t].todo \cap Anchor /\ a \notin destroyed'
        BY <3>3
      <4> QED
        BY <3>1, <4>1
    <3> QED
      BY <3>2, <3>3
  <2>4. tx'[t].pc = "idle" => \A m \in Sends[t] : Untouched(m)'
    BY SMTT(30), <1>1 DEF IInv, ListsOK
  <2>5. \A r \in tx'[t].postponed :
          Untouched(r)' /\ r \in attached' /\ NodeOf[r] \in destroyed'
    BY <1>1
  <2> QED
    BY <2>1, <2>2, <2>3, <2>4, <2>5
<1>3. \A r \in Remote :
        r \notin attached' \/ NodeOf[r] \notin destroyed' => Untouched(r)'
  BY SMTT(30), <1>1 DEF IInv, ListsOK
<1> QED
  BY <1>2, <1>3 DEF ListsOK

(* The stamps stay consistent when only the key of node n changes, to one  *)
(* that is staging or the commit timestamp of its group.                   *)
LEMMA StampsNode ==
  ASSUME IInv, NEW n \in Node, \A m \in Node \ {n} : KeptNode(m),
         destroyed' \subseteq destroyed \cup {n}, UNCHANGED delivered,
         \A t \in TxId : Sealed(t) =>
           Sealed(t)' /\ tx'[t].timestamp = tx[t].timestamp,
         Linked(n)' /\ ~Odd(Stamp(n)') /\ Group(n)' \in TxId =>
           CommittedAt(Group(n), Stamp(n))',
         n \in destroyed' =>
           /\ Group(n)' \in TxId
           /\ Odd(Stamp(n)') \/ CommittedAt(Group(n), Stamp(n))'
  PROVE  StampsOK'
<1> USE DEF KeptNode
<1>1. destroyed \subseteq Node
  BY DEF IInv, TypeOK, Node
<1>2. ASSUME NEW m \in Node,
             Linked(m)' /\ ~Odd(Stamp(m)') /\ Group(m)' \in TxId
      PROVE  CommittedAt(Group(m), Stamp(m))'
  <2>1. CASE m = n
    BY <1>2, <2>1
  <2>2. CASE m # n
    BY <1>2, <2>2, KeptGroup DEF IInv, StampsOK, CommittedAt
  <2> QED
    BY <2>1, <2>2
<1>3. ASSUME NEW a \in destroyed'
      PROVE  /\ Group(a)' \in TxId
             /\ Odd(Stamp(a)') \/ CommittedAt(Group(a), Stamp(a))'
  <2>1. CASE a = n
    BY <1>3, <2>1
  <2>2. CASE a # n
    <3>1. Group(a)' = Group(a) /\ Stamp(a)' = Stamp(a) /\ a \in destroyed
      BY <1>1, <1>3, <2>2, KeptGroup DEF IInv, TypeOK
    <3> QED
      BY <3>1 DEF IInv, StampsOK, CommittedAt
  <2> QED
    BY <2>1, <2>2
<1>4. ASSUME NEW p \in Peer, NEW i \in DOMAIN delivered'[p],
             delivered'[p][i].group \in TxId
      PROVE  CommittedAt(delivered[p][i].group, delivered[p][i].timestamp)'
  BY <1>4 DEF IInv, StampsOK, CommittedAt
<1> QED
  BY <1>2, <1>3, <1>4 DEF StampsOK

(* Only the node n of queue p changes.                                     *)
LEMMA OthersKept ==
  ASSUME IInv, NEW p \in Peer, NEW n \in Mine(p), NEW s,
         queue' = [queue EXCEPT ![p] = s], OnlyNode(queue[p], s, Mine(p), n)
  PROVE  \A m \in Node \ {n} : KeptNode(m)
<1>1. DOMAIN queue = Peer
  BY DEF IInv, TypeOK
<1>2. queue'[p] = s /\ \A x \in Peer \ {p} : queue'[x] = queue[x]
  BY <1>1
<1>3. \A m \in Node : Dest[m] \in Peer /\ m \in Mine(Dest[m])
  BY MineOK
<1> QED
  BY SMTT(30), <1>2, <1>3 DEF KeptNode, Linked, Stamp, Group, OnlyNode

(* Staging an unused node on the list of a transaction keeps the           *)
(* invariant.                                                              *)
LEMMA StageSyncIInv ==
  ASSUME IInv, NEW t \in TxId, NEW n \in Node, tx[t].pc = "open",
         n \in tx[t].todo \cap Data \/ n \in tx[t].postponed,
         StageSync(t, n, queue[Dest[n]]),
         UNCHANGED <<attached, destroyed, public, locked, peeked, delivered,
                     before>>
  PROVE  IInv'
<1> DEFINE p == Dest[n]
           s == TxStage(queue[p], t, n, tx[t].timestamp)
           x == [tx[t] EXCEPT !.sync = @ \cup {n}, !.timestamp = s.clock,
                              !.todo = @ \ {n}, !.postponed = @ \ {n}]
<1>1. /\ p \in Peer /\ n \in Mine(p) /\ Mine(p) \in SUBSET (Nat \ {0})
      /\ tx \in [TxId -> TxType] /\ tx[t] \in TxType
      /\ QueueOK(queue[p], Mine(p))
  BY MineOK DEF IInv, TypeOK, KeysOK
<1>2. queue' = [queue EXCEPT ![p] = s] /\ tx' = [tx EXCEPT ![t] = x]
  BY <1>1 DEF StageSync
<1>3. Untouched(n) /\ n \notin Anchor
  BY <1>1, TransactionAssumption DEF IInv, ListsOK, TxType, Handle
<1>4. /\ n \notin queue[p].messages /\ queue[p].timestamp[n] = 0
      /\ tx[t].timestamp \in Nat /\ ~Odd(tx[t].timestamp)
      /\ ~Odd(tx[t].async_ts)
  BY <1>1, <1>3 DEF Untouched, Linked, Stamp, IInv, ListsOK, TxType
<1>5. /\ Advance(queue[p], s, Mine(p)) /\ OnlyNode(queue[p], s, Mine(p), n)
      /\ s.group[n] = t /\ Odd(s.timestamp[n]) /\ s.timestamp[n] # 0
      /\ s.clock \in Nat /\ ~Odd(s.clock)
  <2>1. s = TxStage(queue[p], t, n, tx[t].timestamp)
    OBVIOUS
  <2> HIDE DEF s, p
  <2>2. TxStageOutcome(queue[p], s, Mine(p), n, t)
    BY <1>1, <1>4, <2>1, TxStageOK
  <2> QED BY <2>2 DEF TxStageOutcome
<1> HIDE DEF s
<1>6. /\ x \in TxType /\ x.sync = tx[t].sync \cup {n} /\ x.timestamp = s.clock
      /\ x.todo = tx[t].todo \ {n} /\ x.postponed = tx[t].postponed \ {n}
      /\ x.pc = "open" /\ x.async = tx[t].async /\ x.async_ts = tx[t].async_ts
  BY <1>1, <1>5 DEF TxType
<1> HIDE DEF x
<1>7. /\ tx'[t] = x /\ tx' \in [TxId -> TxType]
      /\ \A u \in TxId \ {t} : tx'[u] = tx[u]
  BY <1>2, <1>6, TxUpdate
<1>8. \A m \in Node \ {n} : KeptNode(m)
  BY <1>1, <1>2, <1>5, OthersKept
<1>9. /\ DOMAIN queue' = Peer /\ queue'[p] = s
      /\ KeysOK' /\ InKeyOrder'
      /\ \A y \in Peer : queue'[y] \in QueueType(Mine(y))
  <2>1. peeked[p] = NoEntry \/ n # peeked[p].node
    BY <1>1, <1>4 DEF IInv, KeysOK, EntryOK
  <2> HIDE DEF p
  <2> QED
    BY <1>1, <1>2, <1>5, <2>1, KeysOne, OneQueue
<1>10. Group(n)' = t /\ Stamp(n)' = s.timestamp[n]
  BY <1>5, <1>9 DEF Group, Stamp
<1>11. ListsOK'
  <2>1. ASSUME NEW u \in TxId
        PROVE  /\ ~Odd(tx'[u].timestamp) /\ ~Odd(tx'[u].async_ts)
               /\ \A m \in tx'[u].sync \cup tx'[u].async :
                    \/ m # n /\ m \in tx[u].sync \cup tx[u].async
                    \/ /\ m = n /\ Group(n)' = u /\ Stamp(n)' # 0
                       /\ n \in Anchor => n \in destroyed'
               /\ tx'[u].todo \subseteq tx[u].todo
               /\ n \notin tx'[u].todo \cap Data
               /\ tx'[u].todo \cap Anchor \cap destroyed' = {}
               /\ tx'[u].pc = "idle" => tx[u].pc = "idle" /\ n \notin Sends[u]
               /\ \A r \in tx'[u].postponed :
                    /\ r # n /\ r \in Remote /\ Untouched(r)
                    /\ r \in attached' /\ NodeOf[r] \in destroyed'
    <3>1. n \notin tx[u].sync \cup tx[u].async
      BY <1>3, UntouchedUnlisted
    <3>2. /\ ~Odd(tx[u].timestamp) /\ ~Odd(tx[u].async_ts)
          /\ tx[u].todo \cap Anchor \cap destroyed' = {}
          /\ \A r \in tx[u].postponed :
               /\ r \in Remote /\ Untouched(r)
               /\ r \in attached' /\ NodeOf[r] \in destroyed'
      BY ListsOf
    <3>3. CASE u = t
      <4>1. tx'[u] = x
        BY <3>3, <1>7
      <4>2. tx[u].sync = tx[t].sync /\ tx[u].async = tx[t].async /\ tx[u].todo = tx[t].todo
            /\ tx[u].postponed = tx[t].postponed
        BY <3>3
      <4> QED
        <5>1. ~Odd(tx'[u].timestamp) /\ ~Odd(tx'[u].async_ts) /\ tx'[u].pc # "idle"
          BY <1>4, <1>5, <1>6, <4>1
        <5>2. \A m \in tx'[u].sync \cup tx'[u].async :
                \/ m # n /\ m \in tx[u].sync \cup tx[u].async
                \/ /\ m = n /\ Group(n)' = u /\ Stamp(n)' # 0
                   /\ n \in Anchor => n \in destroyed'
          BY <1>3, <1>5, <1>6, <1>10, <3>1, <3>3, <4>1, <4>2
        <5>3. /\ tx'[u].todo \subseteq tx[u].todo /\ n \notin tx'[u].todo \cap Data
              /\ tx'[u].todo \cap Anchor \cap destroyed' = {}
          BY <1>6, <3>2, <4>1, <4>2
        <5>4. \A r \in tx'[u].postponed :
                /\ r # n /\ r \in Remote /\ Untouched(r)
                /\ r \in attached' /\ NodeOf[r] \in destroyed'
          BY <1>6, <3>2, <4>1, <4>2
        <5> QED
          BY <5>1, <5>2, <5>3, <5>4
    <3>4. CASE u # t
      <4>1. /\ tx[u].todo \cap Data \subseteq Sends[u]
            /\ tx[t].todo \cap Data \subseteq Sends[t]
            /\ tx[u].postponed \cap tx[t].postponed = {}
            /\ Sends[u] \cap Sends[t] = {} /\ Sends[u] \subseteq Data
            /\ tx[t].postponed \subseteq Remote /\ tx[u].postponed \subseteq Remote
            /\ Data \cap Remote = {}
        BY <3>4, <1>1, TransactionAssumption DEF IInv, ListsOK, TxType, Handle
      <4> QED
        BY <3>1, <3>4, <4>1, <1>7, <3>2
    <3> QED
      BY <3>3, <3>4
  <2>2. ASSUME NEW u \in TxId, NEW v \in TxId, u # v
        PROVE  tx'[u].postponed \cap tx'[v].postponed = {}
    <3>1. tx[u].postponed \cap tx[v].postponed = {}
      BY <2>2 DEF IInv, ListsOK
    <3> QED
      BY <1>6, <1>7, <3>1
  <2>3. n \in Remote => n \in attached' /\ NodeOf[n] \in destroyed'
    BY TransactionAssumption DEF IInv, ListsOK, Handle
  <2> QED
    BY <1>8, <2>1, <2>2, <2>3, ListsNode
<1>12. StampsOK'
  <2>1. \A u \in TxId : Sealed(u) =>
          Sealed(u)' /\ tx'[u].timestamp = tx[u].timestamp
    BY <1>7 DEF Sealed
  <2>2. n \notin destroyed'
    BY <1>3 DEF IInv, TypeOK
  <2> QED
    BY <1>5, <1>8, <1>10, <2>1, <2>2, StampsNode
<1>13. LocalOK'
  BY <1>6, <1>7 DEF IInv, LocalOK
<1>14. TypeOK'
  BY <1>7, <1>9 DEF IInv, TypeOK
<1> QED
  BY <1>9, <1>11, <1>12, <1>13, <1>14 DEF IInv

(* StageMessage keeps the invariant.                                       *)
LEMMA StageMessageIInv ==
  ASSUME IInv, NEW t \in TxId, NEW n \in Node, StageMessage(t, n)
  PROVE  IInv'
BY StageSyncIInv DEF StageMessage

(* StageRound keeps the invariant.                                         *)
LEMMA StageRoundIInv ==
  ASSUME IInv, NEW t \in TxId, NEW n \in Node, StageRound(t, n)
  PROVE  IInv'
BY StageSyncIInv DEF StageRound

(* DestroyLocked keeps the invariant: the remotes it collects are unused   *)
(* and on no other list.                                                   *)
LEMMA DestroyLockedIInv ==
  ASSUME IInv, NEW t \in TxId, NEW a \in Node, DestroyLocked(t, a)
  PROVE  IInv'
<1> DEFINE p == Origin[t]
           idle == IF IsQueued(queue[p], a) THEN Remove(queue[p], a) ELSE queue[p]
           remotes == {r \in attached : NodeOf[r] = a}
           used == {r \in remotes : queue[Dest[r]].group[r] # NULL}
           bad == used # {}
           q == NodeInit(Warn(idle, bad), a)
           s == TxStage(q, t, a, tx[t].timestamp)
           new == remotes \ used
           x == [tx[t] EXCEPT !.sync = @ \cup {a}, !.timestamp = s.clock,
                              !.todo = @ \ {a}, !.postponed = @ \cup new]
<1>1. /\ a \in tx[t].todo \cap Anchor /\ tx[t].pc = "open"
      /\ Dest[a] = p /\ a \notin destroyed
  BY DEF DestroyLocked, IInv, ListsOK
<1>2. /\ p \in Peer /\ a \in Mine(p) /\ Mine(p) \in SUBSET (Nat \ {0})
      /\ tx \in [TxId -> TxType] /\ tx[t] \in TxType
      /\ QueueOK(queue[p], Mine(p)) /\ a \notin Data /\ a \notin Remote
      /\ attached \subseteq Remote /\ new \subseteq Remote
  BY <1>1, MineOK, TransactionAssumption DEF IInv, TypeOK, KeysOK, Handle
<1>3. /\ queue' = [y \in Peer |-> IF y = p THEN s
                                  ELSE SetGroups(queue[y], new, t)]
      /\ tx' = [tx EXCEPT ![t] = x]
      /\ destroyed' = destroyed \cup {a} /\ public' = public \cup {a}
      /\ locked' = [locked EXCEPT ![p] = IF tx[t].todo = {a} THEN NULL ELSE @]
      /\ UNCHANGED <<attached, peeked, delivered, before>>
  BY <1>2 DEF DestroyLocked
<1>4. /\ Advance(queue[p], q, Mine(p)) /\ OnlyNode(queue[p], q, Mine(p), a)
      /\ a \notin q.messages /\ q.timestamp[a] = 0
  <2>1. bad \in BOOLEAN /\ q = NodeInit(Warn(idle, bad), a)
    OBVIOUS
  <2> HIDE DEF q, bad
  <2>2. idle = (IF IsQueued(queue[p], a) THEN Remove(queue[p], a) ELSE queue[p])
    OBVIOUS
  <2> HIDE DEF idle, p
  <2>3. QueueOK(queue[p], Mine(p)) /\ a \in Mine(p) /\ Mine(p) \in SUBSET (Nat \ {0})
    BY <1>2
  <2> QED BY SMTT(30), <2>1, <2>2, <2>3, RenewOK
<1>5. /\ tx[t].timestamp \in Nat /\ ~Odd(tx[t].timestamp)
      /\ ~Odd(tx[t].async_ts) /\ QueueOK(q, Mine(p))
  BY <1>2, <1>4 DEF IInv, ListsOK, TxType, Advance
<1>6. TxStageOutcome(q, s, Mine(p), a, t)
  <2>1. s = TxStage(q, t, a, tx[t].timestamp)
    OBVIOUS
  <2> HIDE DEF q, s, p
  <2> QED BY <1>2, <1>4, <1>5, <2>1, TxStageOK
<1> HIDE DEF q, s
<1>7. /\ Advance(queue[p], s, Mine(p)) /\ OnlyNode(queue[p], s, Mine(p), a)
      /\ s.group[a] = t /\ Odd(s.timestamp[a]) /\ s.timestamp[a] # 0
      /\ s.clock \in Nat /\ ~Odd(s.clock)
  BY <1>2, <1>4, <1>6, AdvanceTransitive DEF TxStageOutcome, OnlyNode
<1>8. \A r \in new : /\ r \in attached /\ NodeOf[r] = a /\ r \in Remote
                     /\ Untouched(r)
  <2>1. \A r \in new : r \in attached /\ NodeOf[r] = a
    OBVIOUS
  <2> HIDE DEF new
  <2>2. \A r \in Remote : r \notin attached \/ NodeOf[r] \notin destroyed => Untouched(r)
    BY DEF IInv, ListsOK
  <2> QED BY <1>1, <1>2, <2>1, <2>2
<1> HIDE DEF new
<1>9. /\ x \in TxType /\ x.sync = tx[t].sync \cup {a} /\ x.timestamp = s.clock
      /\ x.todo = tx[t].todo \ {a} /\ x.postponed = tx[t].postponed \cup new
      /\ x.pc = "open" /\ x.async = tx[t].async /\ x.async_ts = tx[t].async_ts
  BY <1>1, <1>2, <1>7 DEF TxType, Node
<1> HIDE DEF x
<1>10. /\ tx'[t] = x /\ tx' \in [TxId -> TxType]
       /\ \A u \in TxId \ {t} : tx'[u] = tx[u]
  BY <1>3, <1>9, TxUpdate
<1>11. /\ DOMAIN queue' = Peer /\ queue'[p] = s
       /\ \A y \in Peer : Advance(queue[y], queue'[y], Mine(y))
       /\ \A y \in Peer \ {p} :
            SetGroupsOutcome(queue[y], queue'[y], new, Mine(y))
  <2>1. DOMAIN queue' = Peer /\ queue'[p] = s
    BY <1>2, <1>3
  <2>2. ASSUME NEW y \in Peer \ {p}
        PROVE  /\ Advance(queue[y], queue'[y], Mine(y))
               /\ SetGroupsOutcome(queue[y], queue'[y], new, Mine(y))
    <3>1. queue'[y] = SetGroups(queue[y], new, t) /\ t \in Nat
      BY <1>3, TransactionAssumption
    <3>2. /\ QueueOK(queue[y], Mine(y)) /\ Mine(y) \in SUBSET (Nat \ {0})
          /\ queue[y].messages \subseteq Mine(y)
      BY MineOK DEF IInv, KeysOK, QueueOK, QueueType
    <3>3. new \cap queue[y].messages = {}
      BY <1>8, <3>2, MineOK DEF Untouched, Linked
    <3> QED
      BY <3>1, <3>2, <3>3, SetGroupsOK
  <2> QED
    BY <1>7, <2>1, <2>2
<1>12. /\ \A m \in Node \ {a} : KeptNode(m)
       /\ KeysOK' /\ InKeyOrder'
       /\ \A y \in Peer : queue'[y] \in QueueType(Mine(y))
  <2> HIDE DEF p
  <2>1. \A m \in Node \ {a} : KeptNode(m)
    <3>1. ASSUME NEW m \in Node \ {a}, Dest[m] = p
          PROVE  KeptNode(m)
      BY <1>7, <1>11, <3>1, MineOK DEF OnlyNode, KeptNode, Linked, Stamp, Group
    <3>2. ASSUME NEW m \in Node \ {a}, Dest[m] # p
          PROVE  KeptNode(m)
      BY SMTT(30), <1>8, <1>11, <3>2, MineOK
         DEF SetGroupsOutcome, KeptNode, Linked, Stamp, Group
    <3> QED
      BY <3>1, <3>2
  <2>2. ASSUME NEW y \in Peer, peeked'[y] # NoEntry
        PROVE  /\ peeked'[y] = peeked[y] /\ queue'[y].flush = queue[y].flush
               /\ peeked[y].node \in queue'[y].messages
               /\ queue'[y].timestamp[peeked[y].node]
                    = queue[y].timestamp[peeked[y].node]
               /\ queue'[y].group[peeked[y].node] = queue[y].group[peeked[y].node]
    <3>1. /\ peeked'[y] = peeked[y] /\ peeked[y].node \in Mine(y)
          /\ peeked[y].node \in queue[y].messages
          /\ peeked[y].node \notin Handle
      BY <1>3, <2>2, PeekedIsData DEF IInv, KeysOK, EntryOK
    <3>2. peeked[y].node # a /\ peeked[y].node \notin new
      BY <1>1, <1>8, <3>1 DEF Handle
    <3>3. CASE y = p
      BY <1>7, <1>11, <3>1, <3>2, <3>3 DEF OnlyNode
    <3>4. CASE y # p
      <4>1. SetGroupsOutcome(queue[y], queue'[y], new, Mine(y))
        BY <1>11, <3>4
      <4> QED
        BY <3>1, <3>2, <4>1 DEF SetGroupsOutcome
    <3> QED
      BY <3>3, <3>4
  <2>3. \A y \in Peer : queue'[y] \in QueueType(Mine(y))
    BY <1>11 DEF Advance, QueueOK
  <2> QED
    BY <1>3, <1>11, <2>1, <2>2, <2>3, KeysKept
<1>13. Group(a)' = t /\ Stamp(a)' = s.timestamp[a]
  BY <1>1, <1>7, <1>11 DEF Group, Stamp
<1>14. ListsOK'
  <2>1. \A u \in TxId : a \notin tx[u].sync \cup tx[u].async
    BY <1>1 DEF IInv, ListsOK
  <2>2. ASSUME NEW u \in TxId
        PROVE  /\ ~Odd(tx'[u].timestamp) /\ ~Odd(tx'[u].async_ts)
               /\ \A m \in tx'[u].sync \cup tx'[u].async :
                    \/ m # a /\ m \in tx[u].sync \cup tx[u].async
                    \/ /\ m = a /\ Group(a)' = u /\ Stamp(a)' # 0
                       /\ a \in Anchor => a \in destroyed'
               /\ tx'[u].todo \subseteq tx[u].todo
               /\ a \notin tx'[u].todo \cap Data
               /\ tx'[u].todo \cap Anchor \cap destroyed' = {}
               /\ tx'[u].pc = "idle" => tx[u].pc = "idle" /\ a \notin Sends[u]
               /\ \A r \in tx'[u].postponed :
                    /\ r # a /\ r \in Remote /\ Untouched(r)
                    /\ r \in attached' /\ NodeOf[r] \in destroyed'
    <3>1. CASE u = t
      <4>1. /\ ~Odd(tx'[u].timestamp) /\ ~Odd(tx'[u].async_ts)
            /\ \A m \in tx'[u].sync \cup tx'[u].async :
                 \/ m # a /\ m \in tx[u].sync \cup tx[u].async
                 \/ /\ m = a /\ Group(a)' = u /\ Stamp(a)' # 0
                    /\ a \in Anchor => a \in destroyed'
        BY <3>1, <1>3, <1>5, <1>7, <1>9, <1>10, <1>13, <2>1
      <4>2. /\ tx'[u].todo \subseteq tx[u].todo
            /\ a \notin tx'[u].todo \cap Data
            /\ tx'[u].pc # "idle"
        BY <3>1, <1>2, <1>9, <1>10
      <4>3. tx'[u].todo \cap Anchor \cap destroyed' = {}
        BY <3>1, <1>3, <1>9, <1>10 DEF IInv, ListsOK
      <4>4. \A r \in tx'[u].postponed :
              /\ r # a /\ r \in Remote /\ Untouched(r)
              /\ r \in attached' /\ NodeOf[r] \in destroyed'
        <5>1. \A r \in tx[t].postponed :
                /\ r \in Remote /\ Untouched(r)
                /\ r \in attached /\ NodeOf[r] \in destroyed
          BY ListsOf
        <5>2. \A r \in new : NodeOf[r] \in destroyed'
          BY <1>3, <1>8
        <5> QED
          BY <3>1, <1>2, <1>3, <1>8, <1>9, <1>10, <5>1, <5>2
      <4> QED
        BY <4>1, <4>2, <4>3, <4>4
    <3>2. CASE u # t
      <4>1. a \notin tx[u].todo
        <5> SUFFICES ASSUME a \in tx[u].todo PROVE FALSE
          OBVIOUS
        <5>1. Origin[u] = Origin[t] /\ tx[u].pc = "open"
          BY <1>1 DEF IInv, ListsOK, LocalOK
        <5> QED
          BY <1>1, <3>2, <5>1 DEF IInv, LocalOK
      <4>2. tx'[u] = tx[u] /\ attached' = attached /\ destroyed' = destroyed \cup {a}
        BY <1>3, <1>10, <3>2
      <4> QED
        BY SMTT(30), <1>2, <2>1, <4>1, <4>2, ListsOf
    <3> QED
      BY <3>1, <3>2
  <2>3. ASSUME NEW u \in TxId, NEW v \in TxId, u # v
        PROVE  tx'[u].postponed \cap tx'[v].postponed = {}
    <3>1. tx[u].postponed \cap tx[v].postponed = {}
      BY <2>3 DEF IInv, ListsOK
    <3>2. \A y \in TxId : tx[y].postponed \cap new = {}
      BY SMTT(30), <1>1, <1>8 DEF IInv, ListsOK
    <3> QED
      BY <1>9, <1>10, <2>3, <3>1, <3>2
  <2> QED
    BY <1>2, <1>3, <1>12, <2>2, <2>3, ListsNode
<1>15. StampsOK'
  <2>1. \A u \in TxId : Sealed(u) =>
          Sealed(u)' /\ tx'[u].timestamp = tx[u].timestamp
    BY <1>1, <1>10 DEF Sealed
  <2> QED
    BY <1>3, <1>7, <1>12, <1>13, <2>1, StampsNode
<1>16. LocalOK'
  BY <1>1, <1>3, <1>9, <1>10 DEF IInv, LocalOK
<1>17. TypeOK'
  <2>1. /\ destroyed' \subseteq Anchor /\ public' \subseteq Handle
        /\ locked' \in [Peer -> TxId \cup {NULL}]
    BY <1>1, <1>3 DEF IInv, TypeOK, Handle
  <2> QED
    BY <1>3, <1>10, <1>11, <1>12, <2>1 DEF IInv, TypeOK
<1> QED
  BY <1>12, <1>14, <1>15, <1>16, <1>17 DEF IInv

(* A commit either changes nothing but the lists, or gives its node the    *)
(* commit timestamp.                                                       *)
LEMMA CommitRoundIInv ==
  ASSUME IInv, NEW t \in TxId, NEW n \in Node, CommitRound(t, n)
  PROVE  IInv'
<1> DEFINE p == Dest[n]
           ts == tx[t].timestamp
           s == CommitStaged(queue[p], n, ts)
           x == [tx[t] EXCEPT !.sync = @ \ {n},
                   !.pc = IF tx[t].sync = {n} THEN Returned(t) ELSE @]
<1>1. /\ p \in Peer /\ n \in Mine(p) /\ Mine(p) \in SUBSET (Nat \ {0})
      /\ tx \in [TxId -> TxType] /\ tx[t] \in TxType
      /\ QueueOK(queue[p], Mine(p)) /\ queue[p] \in QueueType(Mine(p))
      /\ n # NULL
  BY MineOK DEF IInv, TypeOK, KeysOK
<1>2. /\ tx[t].pc = "sealed" /\ n \in tx[t].sync
      /\ queue' = [queue EXCEPT ![p] = s] /\ tx' = [tx EXCEPT ![t] = x]
      /\ UNCHANGED <<attached, destroyed, public, locked, peeked, delivered,
                     before>>
  BY <1>1 DEF CommitRound, IInv, TypeOK
<1>3. /\ Group(n) = t /\ Stamp(n) # 0
      /\ n \in Anchor => n \in destroyed
      /\ ts \in Nat /\ ~Odd(ts) /\ ~Odd(tx[t].async_ts) /\ Sealed(t)
      /\ tx[t].todo = {}
  BY <1>1, <1>2 DEF IInv, ListsOK, LocalOK, TxType, Sealed
<1>4. Advance(queue[p], s, Mine(p)) /\ AddOutcome(queue[p], s, n, ts)
  <2>1. s = CommitStaged(queue[p], n, ts) /\ queue[p].timestamp[n] # 0
    BY <1>3 DEF Stamp
  <2> HIDE DEF s, p, ts
  <2> QED BY <1>1, <1>3, <2>1, CommitStagedOK
<1> HIDE DEF s
<1>5. /\ x \in TxType /\ x.todo = {} /\ x.postponed = tx[t].postponed
      /\ x.sync = tx[t].sync \ {n} /\ x.async = tx[t].async
      /\ x.timestamp = ts /\ x.async_ts = tx[t].async_ts
      /\ x.pc \in {"sealed", "release", "done"}
  BY <1>1, <1>2, <1>3 DEF TxType, Returned
<1> HIDE DEF x
<1>6. /\ DOMAIN queue' = Peer /\ queue'[p] = s
  <2> HIDE DEF p
  <2> QED BY <1>1, <1>2, <1>4, OneQueue
<1>7. CASE s.messages = queue[p].messages /\ s.timestamp = queue[p].timestamp
  <2>1. s.group = queue[p].group /\ s.flush = queue[p].flush
    BY <1>4 DEF AddOutcome
  <2>2. \A m \in Node : KeptNode(m)
    <3> HIDE DEF p
    <3> QED BY <1>1, <1>2, <1>7, <2>1, KeptOne
  <2>3. KeysOK' /\ InKeyOrder' /\ \A y \in Peer : queue'[y] \in QueueType(Mine(y))
    <3>1. OnlyNode(queue[p], s, Mine(p), NULL)
      BY <1>7, <2>1 DEF OnlyNode
    <3>2. peeked[p] = NoEntry \/ NULL # peeked[p].node
      BY <1>1, MineOK, PeekedIsData DEF Node
    <3> HIDE DEF p
    <3> QED BY <1>1, <1>2, <1>4, <3>1, <3>2, KeysOne
  <2>4. TxMoves(t, x)
    BY <1>1, <1>2, <1>3, <1>5 DEF TxMoves
  <2>5. tx' \in [TxId -> TxType] /\ ListsOK' /\ LocalOK' /\ StampsOK'
    BY <1>2, <2>2, <2>4, TxMoved
  <2> QED
    BY <1>2, <1>6, <2>3, <2>5 DEF IInv, TypeOK
<1>8. CASE ~(s.messages = queue[p].messages /\ s.timestamp = queue[p].timestamp)
  <2>1. /\ s.timestamp = [queue[p].timestamp EXCEPT ![n] = ts]
        /\ s.messages = queue[p].messages \cup {n}
        /\ s.group = queue[p].group /\ s.flush = queue[p].flush
        /\ ts # 0 /\ IsStaging(queue[p], n)
    <3>1. queue[p].timestamp[n] # 0
      BY <1>3 DEF Stamp
    <3> HIDE DEF p, ts
    <3> QED BY <1>4, <1>8, <3>1, AddChanged
  <2>2. OnlyNode(queue[p], s, Mine(p), n) /\ s.timestamp[n] = ts
    BY <1>1, <2>1 DEF OnlyNode, QueueType
  <2>3. \A m \in Node \ {n} : KeptNode(m)
    <3> HIDE DEF p
    <3> QED BY <1>1, <1>2, <2>2, OthersKept
  <2>4. KeysOK' /\ InKeyOrder' /\ \A y \in Peer : queue'[y] \in QueueType(Mine(y))
    <3>1. peeked[p] = NoEntry \/ n # peeked[p].node
      BY <1>1, <2>1 DEF IInv, KeysOK, EntryOK, IsStaging
    <3> HIDE DEF p
    <3> QED BY <1>1, <1>2, <1>4, <2>2, <3>1, KeysOne
  <2>5. Group(n)' = t /\ Stamp(n)' = ts
    BY <1>3, <1>6, <2>1, <2>2 DEF Group, Stamp
  <2>6. /\ tx'[t] = x /\ tx' \in [TxId -> TxType]
        /\ \A u \in TxId \ {t} : tx'[u] = tx[u]
    BY <1>2, <1>5, TxUpdate
  <2> HIDE DEF ts
  <2>7. ListsOK'
    <3>1. ~Untouched(n)
      BY <1>3 DEF Untouched
    <3>2. ASSUME NEW u \in TxId
          PROVE  /\ ~Odd(tx'[u].timestamp) /\ ~Odd(tx'[u].async_ts)
                 /\ \A m \in tx'[u].sync \cup tx'[u].async :
                      \/ m # n /\ m \in tx[u].sync \cup tx[u].async
                      \/ /\ m = n /\ Group(n)' = u /\ Stamp(n)' # 0
                         /\ n \in Anchor => n \in destroyed'
                 /\ tx'[u].todo \subseteq tx[u].todo
                 /\ n \notin tx'[u].todo \cap Data
                 /\ tx'[u].todo \cap Anchor \cap destroyed' = {}
                 /\ tx'[u].pc = "idle" => tx[u].pc = "idle" /\ n \notin Sends[u]
                 /\ \A r \in tx'[u].postponed :
                      /\ r # n /\ r \in Remote /\ Untouched(r)
                      /\ r \in attached' /\ NodeOf[r] \in destroyed'
      <4>1. CASE u = t
        <5>1. \A r \in tx[t].postponed :
                /\ r # n /\ r \in Remote /\ Untouched(r)
                /\ r \in attached' /\ NodeOf[r] \in destroyed'
          <6>1. \A r \in tx[t].postponed :
                  r \in Remote /\ Untouched(r) /\ r \in attached
                  /\ NodeOf[r] \in destroyed
            BY ListsOf
          <6> QED BY <1>2, <3>1, <6>1
        <5> QED
          BY <4>1, <5>1, <1>2, <1>3, <1>5, <2>1, <2>5, <2>6
      <4>2. CASE u # t
        <5>1. n \notin tx[u].sync \cup tx[u].async
          BY <1>3, <4>2 DEF IInv, ListsOK
        <5>2. /\ tx'[u] = tx[u] /\ attached' = attached /\ destroyed' = destroyed
              /\ n \notin tx[u].postponed
          BY <1>2, <2>6, <3>1, <4>2, ListsOf
        <5>3. n \notin tx[u].todo \cap Data /\ (tx[u].pc = "idle" => n \notin Sends[u])
          BY <3>1 DEF IInv, ListsOK
        <5> QED
          BY <5>1, <5>2, <5>3, ListsOf
      <4> QED
        BY <4>1, <4>2
    <3>3. ASSUME NEW u \in TxId, NEW v \in TxId, u # v
          PROVE  tx'[u].postponed \cap tx'[v].postponed = {}
      <4>1. tx[u].postponed \cap tx[v].postponed = {}
        BY <3>3 DEF IInv, ListsOK
      <4> QED
        BY <1>5, <2>6, <4>1
    <3>4. n \in Remote => n \in attached' /\ NodeOf[n] \in destroyed'
      BY <1>2, <3>1 DEF IInv, ListsOK
    <3> QED
      BY <1>2, <2>3, <3>2, <3>3, <3>4, ListsNode
  <2>8. StampsOK'
    <3>1. \A u \in TxId : Sealed(u) =>
            Sealed(u)' /\ tx'[u].timestamp = tx[u].timestamp
      BY <1>5, <2>6 DEF Sealed, ts
    <3>2. CommittedAt(Group(n), Stamp(n))'
      BY <1>3, <1>5, <2>5, <2>6, <3>1 DEF CommittedAt
    <3> QED
      BY <1>2, <2>3, <2>5, <3>1, <3>2, StampsNode
  <2>9. LocalOK'
    BY <1>2, <1>5, <2>6 DEF IInv, LocalOK
  <2> QED
    BY <1>2, <1>6, <2>4, <2>6, <2>7, <2>8, <2>9 DEF IInv, TypeOK
<1> QED
  BY <1>7, <1>8

-----------------------------------------------------------------------------
(* Release notifications and late joins *)

(* A step that changes the key of one handle n that is on no list keeps    *)
(* the lists and the stamps.                                               *)
LEMMA HandleTouched ==
  ASSUME IInv, NEW n \in Handle, \A m \in Node \ {n} : KeptNode(m),
         UNCHANGED <<tx, destroyed, peeked, delivered>>, attached \subseteq attached',
         \A u \in TxId : n \notin tx[u].sync \cup tx[u].async,
         \A u \in TxId : n \notin tx[u].postponed,
         n \in Remote => n \in attached' /\ NodeOf[n] \in destroyed,
         n \notin destroyed,
         Linked(n)' /\ Group(n)' \in TxId => CommittedAt(Group(n)', Stamp(n)')
  PROVE  ListsOK' /\ StampsOK' /\ LocalOK'
<1>1. n \in Node /\ n \notin Data /\ \A u \in TxId : Sends[u] \subseteq Data
  BY TransactionAssumption DEF Handle, Node
<1>2. ListsOK'
  <2>1. ASSUME NEW u \in TxId
        PROVE  /\ ~Odd(tx'[u].timestamp) /\ ~Odd(tx'[u].async_ts)
               /\ \A m \in tx'[u].sync \cup tx'[u].async :
                    \/ m # n /\ m \in tx[u].sync \cup tx[u].async
                    \/ /\ m = n /\ Group(n)' = u /\ Stamp(n)' # 0
                       /\ n \in Anchor => n \in destroyed'
               /\ tx'[u].todo \subseteq tx[u].todo
               /\ n \notin tx'[u].todo \cap Data
               /\ tx'[u].todo \cap Anchor \cap destroyed' = {}
               /\ tx'[u].pc = "idle" => tx[u].pc = "idle" /\ n \notin Sends[u]
               /\ \A r \in tx'[u].postponed :
                    /\ r # n /\ r \in Remote /\ Untouched(r)
                    /\ r \in attached' /\ NodeOf[r] \in destroyed'
    <3>1. /\ ~Odd(tx[u].timestamp) /\ ~Odd(tx[u].async_ts)
          /\ tx[u].todo \cap Anchor \cap destroyed = {}
          /\ \A r \in tx[u].postponed : /\ r \in Remote /\ Untouched(r)
                                       /\ r \in attached /\ NodeOf[r] \in destroyed
      BY ListsOf
    <3> QED
      BY <1>1, <3>1
  <2>2. \A t, u \in TxId : t # u => tx'[t].postponed \cap tx'[u].postponed = {}
    BY DEF IInv, ListsOK
  <2> QED
    BY <1>1, <2>1, <2>2, ListsNode
<1>3. StampsOK'
  <2>1. \A u \in TxId : Sealed(u) =>
          Sealed(u)' /\ tx'[u].timestamp = tx[u].timestamp
    BY DEF Sealed
  <2>2. Linked(n)' /\ Group(n)' \in TxId => CommittedAt(Group(n), Stamp(n))'
    BY DEF CommittedAt, Sealed
  <2> QED
    BY <1>1, <2>1, <2>2, StampsNode
<1>4. LocalOK'
  BY DEF IInv, LocalOK
<1> QED
  BY <1>2, <1>3, <1>4

(* QueueRelease keeps the invariant: a release notification is tagged with *)
(* a peer, not with a transaction.                                         *)
LEMMA QueueReleaseIInv ==
  ASSUME IInv, NEW a \in Anchor, QueueRelease(a)
  PROVE  IInv'
<1> DEFINE p == Dest[a]
           q == queue[p]
           fresh == IF q.group[a] = NULL THEN q
                    ELSE NodeInit(Warn(q, q.group[a] # p), a)
           g == SetGroup(fresh, a, p)
           s == CommitUnstaged(g, a)
<1>1. /\ a \in Node /\ a \in Handle /\ p \in Peer /\ a \in Mine(p) /\ p \in Nat
      /\ Mine(p) \in SUBSET (Nat \ {0}) /\ QueueOK(q, Mine(p))
      /\ p \notin TxId /\ a \notin Remote
  BY MineOK, TransactionAssumption DEF Node, Handle, IInv, KeysOK
<1>2. /\ a \notin destroyed /\ a \notin q.messages
      /\ queue' = [queue EXCEPT ![p] = s]
      /\ UNCHANGED <<tx, attached, destroyed, public, locked, peeked, delivered,
                     before>>
  BY DEF QueueRelease, IsQueued
<1> HIDE DEF p
<1>3. Advance(q, s, Mine(p)) /\ OnlyNode(q, s, Mine(p), a) /\ s.group[a] = p
  <2>1. Releasing(q, a, p, fresh, g, s)
    BY DEF Releasing
  <2>2. a \notin q.messages
    BY <1>2
  <2> HIDE DEF q, fresh, g, s
  <2>3. a \in Mine(p) /\ p \in Nat /\ Mine(p) \in SUBSET (Nat \ {0}) /\ QueueOK(q, Mine(p))
    BY <1>1
  <2>4. ReleaseOutcome(q, g, s, Mine(p), a, p)
    BY <2>1, <2>2, <2>3, ReleaseQueue
  <2> QED BY <2>4 DEF ReleaseOutcome
<1> HIDE DEF q, s
<1>4. \A m \in Node \ {a} : KeptNode(m)
  BY <1>1, <1>2, <1>3, OthersKept DEF q
<1>5. /\ DOMAIN queue' = Peer /\ queue'[p] = s
      /\ KeysOK' /\ InKeyOrder'
      /\ \A y \in Peer : queue'[y] \in QueueType(Mine(y))
  <2>1. peeked[p] = NoEntry \/ a # peeked[p].node
    BY <1>1, PeekedIsData
  <2> QED
    BY <1>1, <1>2, <1>3, <2>1, KeysOne, OneQueue DEF q
<1>6. Group(a)' \notin TxId
  BY <1>1, <1>3, <1>5 DEF Group, p
<1>7. \A u \in TxId : a \notin tx[u].sync \cup tx[u].async /\ a \notin tx[u].postponed
  BY <1>1, <1>2 DEF IInv, TypeOK, ListsOK, TxType
<1>8. ListsOK' /\ StampsOK' /\ LocalOK'
  BY <1>1, <1>2, <1>4, <1>6, <1>7, HandleTouched
<1> QED
  BY <1>2, <1>5, <1>8 DEF IInv, TypeOK

(* bus1_tx_join(): either the handle is staged on the list of the          *)
(* transaction, or it takes the timestamp the transaction was sealed with. *)
LEMMA JoinIInv ==
  ASSUME IInv, NEW r \in Remote, r \notin attached, NodeOf[r] \in destroyed,
         Join(r, NodeOf[r]), attached' = attached \cup {r},
         UNCHANGED <<destroyed, public, locked, peeked, delivered, before>>
  PROVE  IInv'
<1> DEFINE a == NodeOf[r]
           p == Dest[r]
           whom == queue[Dest[a]]
           g == whom.group[a]
           ts == IF IsStaging(whom, a) THEN tx[g].timestamp
                 ELSE whom.timestamp[a]
           s == TxStage(queue[p], g, r, tx[g].async_ts)
           x == [tx[g] EXCEPT !.async = @ \cup {r}, !.async_ts = s.clock]
           k == SetGroup(queue[p], r, g)
           q == Sync(k, ts)
           c == CommitSynthetic(q, r, ts)
<1>1. /\ r \in Node /\ r \in Handle /\ r \notin Data /\ r \notin Anchor
      /\ p \in Peer /\ r \in Mine(p)
      /\ Mine(p) \in SUBSET (Nat \ {0}) /\ QueueOK(queue[p], Mine(p))
      /\ tx \in [TxId -> TxType] /\ attached' \subseteq Remote
  <2>1. r \in Node /\ r \in Handle /\ r \notin Data /\ r \notin Anchor
    BY TransactionAssumption DEF Node, Handle
  <2>2. /\ p \in Peer /\ r \in Mine(p) /\ Mine(p) \in SUBSET (Nat \ {0})
    BY <2>1, MineOK
  <2> QED
    BY <2>1, <2>2 DEF IInv, TypeOK, KeysOK
<1>2. /\ g \in TxId /\ g \in Nat
      /\ Odd(whom.timestamp[a]) \/ CommittedAt(g, whom.timestamp[a])
  BY TransactionAssumption DEF IInv, StampsOK, Group, Stamp
<1>3. /\ Untouched(r) /\ r \notin queue[p].messages
      /\ queue[p].timestamp[r] = 0
  BY DEF IInv, ListsOK, Untouched, Linked, Stamp
<1>4. /\ \A u \in TxId : r \notin tx[u].sync \cup tx[u].async
      /\ \A u \in TxId : r \notin tx[u].postponed
      /\ r \notin destroyed
  BY <1>1, <1>3, UntouchedUnlisted DEF IInv, TypeOK, ListsOK
<1>5. /\ tx[g].timestamp \in Nat /\ ~Odd(tx[g].timestamp) /\ tx[g] \in TxType
      /\ tx[g].async_ts \in Nat /\ ~Odd(tx[g].async_ts)
  <2> HIDE DEF g
  <2>1. ~Odd(tx[g].timestamp) /\ ~Odd(tx[g].async_ts) /\ tx[g] \in TxType
    BY <1>1, <1>2 DEF IInv, ListsOK
  <2> QED
    BY <2>1 DEF TxType
<1>6. peeked[p] = NoEntry \/ r # peeked[p].node
  BY <1>1, PeekedIsData
<1>7. CASE IsStaging(whom, a) /\ ~Sealed(g)
  <2>1. queue' = [queue EXCEPT ![p] = s] /\ tx' = [tx EXCEPT ![g] = x]
    BY <1>1, <1>2, <1>7 DEF Join
  <2> HIDE DEF g, p
  <2>2. TxStageOutcome(queue[p], s, Mine(p), r, g)
    <3>1. s = TxStage(queue[p], g, r, tx[g].async_ts)
      OBVIOUS
    <3> HIDE DEF s
    <3> QED BY <1>1, <1>2, <1>3, <1>5, <3>1, TxStageOK
  <2> HIDE DEF s
  <2>3. /\ Advance(queue[p], s, Mine(p)) /\ OnlyNode(queue[p], s, Mine(p), r)
        /\ s.group[r] = g /\ Odd(s.timestamp[r]) /\ s.timestamp[r] # 0
        /\ s.clock \in Nat /\ ~Odd(s.clock)
    BY <2>2 DEF TxStageOutcome
  <2>4. /\ x \in TxType /\ x.async = tx[g].async \cup {r} /\ x.async_ts = s.clock
        /\ x.todo = tx[g].todo /\ x.postponed = tx[g].postponed
        /\ x.pc = tx[g].pc /\ x.sync = tx[g].sync
        /\ x.timestamp = tx[g].timestamp
    BY <1>1, <1>5, <2>3 DEF TxType
  <2> HIDE DEF x
  <2>5. /\ tx'[g] = x /\ tx' \in [TxId -> TxType]
        /\ \A u \in TxId \ {g} : tx'[u] = tx[u]
    BY <1>2, <2>1, <2>4, TxUpdate
  <2>6. \A m \in Node \ {r} : KeptNode(m)
    BY <1>1, <2>1, <2>3, OthersKept
  <2>7. /\ DOMAIN queue' = Peer /\ queue'[p] = s
        /\ KeysOK' /\ InKeyOrder'
        /\ \A y \in Peer : queue'[y] \in QueueType(Mine(y))
    BY <1>1, <1>6, <2>1, <2>3, KeysOne, OneQueue
  <2>8. Group(r)' = g /\ Stamp(r)' = s.timestamp[r]
    BY <2>3, <2>7 DEF Group, Stamp, p
  <2>9. ListsOK'
    <3>1. ASSUME NEW u \in TxId
          PROVE  /\ ~Odd(tx'[u].timestamp) /\ ~Odd(tx'[u].async_ts)
                 /\ \A m \in tx'[u].sync \cup tx'[u].async :
                      \/ m # r /\ m \in tx[u].sync \cup tx[u].async
                      \/ /\ m = r /\ Group(r)' = u /\ Stamp(r)' # 0
                         /\ r \in Anchor => r \in destroyed'
                 /\ tx'[u].todo \subseteq tx[u].todo
                 /\ r \notin tx'[u].todo \cap Data
                 /\ tx'[u].todo \cap Anchor \cap destroyed' = {}
                 /\ tx'[u].pc = "idle" => tx[u].pc = "idle" /\ r \notin Sends[u]
                 /\ \A m \in tx'[u].postponed :
                      /\ m # r /\ m \in Remote /\ Untouched(m)
                      /\ m \in attached' /\ NodeOf[m] \in destroyed'
      <4>1. /\ tx[u] \in TxType /\ r \notin Sends[u]
            /\ tx[u].todo \cap Anchor \cap destroyed' = {}
            /\ ~Odd(tx[u].timestamp) /\ ~Odd(tx[u].async_ts)
            /\ \A m \in tx[u].postponed :
                 /\ m # r /\ m \in Remote /\ Untouched(m)
                 /\ m \in attached' /\ NodeOf[m] \in destroyed'
        <5>1. /\ tx[u] \in TxType /\ r \notin Sends[u]
              /\ tx[u].todo \cap Anchor \cap destroyed = {}
              /\ ~Odd(tx[u].timestamp) /\ ~Odd(tx[u].async_ts)
          BY <1>1, TransactionAssumption, ListsOf
        <5>2. \A m \in tx[u].postponed :
                /\ m # r /\ m \in Remote /\ Untouched(m)
                /\ m \in attached /\ NodeOf[m] \in destroyed
          BY <1>4, ListsOf
        <5> QED
          BY <1>1, <5>1, <5>2
      <4>2. CASE u = g
        BY <1>1, <1>4, <2>3, <2>4, <2>5, <2>8, <4>1, <4>2
      <4>3. CASE u # g
        BY <1>1, <1>4, <2>5, <4>1, <4>3
      <4> QED
        BY <4>2, <4>3
    <3>2. ASSUME NEW u \in TxId, NEW v \in TxId, u # v
          PROVE  tx'[u].postponed \cap tx'[v].postponed = {}
      <4>1. tx[u].postponed \cap tx[v].postponed = {}
        BY <3>2 DEF IInv, ListsOK
      <4> QED
        BY <2>4, <2>5, <4>1
    <3> QED
      BY <1>1, <2>6, <3>1, <3>2, ListsNode
  <2>10. StampsOK'
    <3>1. \A u \in TxId : Sealed(u) =>
            Sealed(u)' /\ tx'[u].timestamp = tx[u].timestamp
      BY <2>4, <2>5 DEF Sealed
    <3> QED
      BY <1>1, <1>4, <2>3, <2>6, <2>8, <3>1, StampsNode
  <2>11. LocalOK'
    BY <2>4, <2>5 DEF IInv, LocalOK
  <2> QED
    BY <1>1, <2>5, <2>7, <2>9, <2>10, <2>11 DEF IInv, TypeOK
<1>8. CASE ~(IsStaging(whom, a) /\ ~Sealed(g))
  <2>1. queue' = [queue EXCEPT ![p] = c] /\ UNCHANGED tx
    BY <1>8 DEF Join
  <2>2. CommittedAt(g, ts) /\ ts \in Nat /\ ~Odd(ts)
    BY <1>2, <1>5, <1>8 DEF CommittedAt, IsStaging
  <2> HIDE DEF g, p, ts
  <2>3. /\ Advance(queue[p], c, Mine(p)) /\ OnlyNode(queue[p], c, Mine(p), r)
        /\ c.group[r] = g
        /\ r \in c.messages => c.timestamp[r] = ts
    <3>1. Joining(queue[p], r, g, ts, k, q, c)
      BY DEF Joining
    <3> HIDE DEF k, q, c
    <3>2. Joined(queue[p], c, Mine(p), r, g, ts)
      BY <1>1, <1>2, <1>3, <2>2, <3>1, JoinQueue
    <3> QED
      BY <3>2 DEF Joined
  <2> HIDE DEF c
  <2>4. \A m \in Node \ {r} : KeptNode(m)
    BY <1>1, <2>1, <2>3, OthersKept
  <2>5. /\ DOMAIN queue' = Peer /\ queue'[p] = c
        /\ KeysOK' /\ InKeyOrder'
        /\ \A y \in Peer : queue'[y] \in QueueType(Mine(y))
    BY <1>1, <1>6, <2>1, <2>3, KeysOne, OneQueue
  <2>6. Linked(r)' => CommittedAt(Group(r)', Stamp(r)')
    BY <2>2, <2>3, <2>5 DEF Linked, Group, Stamp, p
  <2>7. ListsOK' /\ StampsOK' /\ LocalOK'
    BY <1>1, <1>4, <2>1, <2>4, <2>6, HandleTouched
  <2> QED
    BY <1>1, <2>1, <2>5, <2>7 DEF IInv, TypeOK
<1> QED
  BY <1>7, <1>8

(* AcquireHandle keeps the invariant, whether or not the handle joins a    *)
(* destruction.                                                            *)
LEMMA AcquireHandleIInv ==
  ASSUME IInv, NEW t \in TxId, NEW n \in Node, AcquireHandle(t, n)
  PROVE  IInv'
<1> DEFINE r == Carries[n]
           a == NodeOf[r]
<1>1. /\ r \in Remote /\ r \notin attached /\ a \in Anchor
      /\ attached' = attached \cup {r}
      /\ UNCHANGED <<destroyed, public, locked, peeked, delivered, before>>
  BY SMTT(30), TransactionAssumption DEF AcquireHandle
<1> SUFFICES (queue' = queue \/ FlushRelease(a)) /\ UNCHANGED tx => IInv'
  BY <1>1, JoinIInv DEF AcquireHandle
<1> HAVE (queue' = queue \/ FlushRelease(a)) /\ UNCHANGED tx
<1>2. /\ KeysOK' /\ InKeyOrder' /\ DOMAIN queue' = Peer
      /\ \A y \in Peer : queue'[y] \in QueueType(Mine(y))
      /\ \A m \in Node : KeptNode(m)
  <2>1. CASE queue' = queue
    <3>1. KeysOK' /\ InKeyOrder'
      BY <1>1, <2>1, StillQueues, PeekedSame, KeysKept
    <3> QED
      BY <2>1, <3>1, StillQueues DEF IInv, TypeOK
  <2>2. CASE FlushRelease(a)
    <3> HIDE DEF a
    <3> QED BY <1>1, <2>2, FlushReleaseOK
  <2> QED
    BY <2>1, <2>2
<1>3. ListsOK' /\ LocalOK' /\ StampsOK'
  BY <1>1, <1>2, TxIdle
<1> QED
  BY <1>1, <1>2, <1>3 DEF IInv, TypeOK

(* Every step keeps the invariant.                                         *)
LEMMA NextIInv == IInv /\ [Next]_vars => IInv'
<1> SUFFICES ASSUME IInv, [Next]_vars PROVE IInv'
  OBVIOUS
<1>1. CASE UNCHANGED vars
  <2>1. KeysOK' /\ InKeyOrder'
    BY <1>1, StillQueues, PeekedSame, KeysKept DEF vars
  <2>2. ListsOK' /\ LocalOK' /\ StampsOK'
    BY <1>1, StillQueues, TxIdle DEF vars
  <2> QED
    BY <1>1, <2>1, <2>2 DEF vars, IInv, TypeOK
<1>2. ASSUME NEW t \in TxId, NEW n \in Node,
             \/ AcquireHandle(t, n) \/ StageMessage(t, n) \/ DestroyLocked(t, n)
             \/ StageRound(t, n) \/ SyncRound(t, n) \/ CommitRound(t, n)
      PROVE  IInv'
  BY <1>2, AcquireHandleIInv, StageMessageIInv, DestroyLockedIInv,
     StageRoundIInv, SyncRoundIInv, CommitRoundIInv
<1>3. ASSUME NEW t \in TxId,
             \/ BeginSend(t) \/ BeginDestroy(t)
             \/ AcquireCommitTS(t) \/ ReleaseHandles(t) \/ FlushQueue(t)
      PROVE  IInv'
  BY <1>3, BeginSendIInv, BeginDestroyIInv, AcquireCommitTSIInv,
     ReleaseHandlesIInv, FlushQueueIInv
<1>4. ASSUME NEW a \in Anchor,
             CreateNode(a) \/ QueueRelease(a) \/ AcquireStrong(a)
      PROVE  IInv'
  BY <1>4, CreateNodeIInv, QueueReleaseIInv, AcquireStrongIInv
<1>5. ASSUME NEW p \in Peer, Peek(p) \/ Dequeue(p) \/ RecvFail(p)
      PROVE  IInv'
  BY <1>5, PeekIInv, DequeueIInv, RecvFailIInv
<1>6. ASSUME NEW p \in Poller, Poll(p)
      PROVE  IInv'
  BY <1>6, PollIInv, TransactionAssumption
<1> QED
  BY <1>1, <1>2, <1>3, <1>4, <1>5, <1>6 DEF Next, TxStep

(* All entries of a transaction carry one key, and the keys are totally    *)
(* ordered.                                                                *)
LEMMA OrderFollows == IInv => SameOrderEverywhere
<1> SUFFICES ASSUME IInv, NEW t \in TxId, NEW u \in TxId, t # u,
                    NEW p \in Peer, NEW q \in Peer,
                    ReceivedInOrder(p, t, u), ReceivedInOrder(q, u, t)
             PROVE  FALSE
  BY DEF SameOrderEverywhere
<1>1. ASSUME NEW x \in Peer, NEW v \in TxId, NEW w \in TxId,
             ReceivedInOrder(x, v, w)
      PROVE  ~KeyBefore(tx[w].timestamp, w, tx[v].timestamp, v)
  <2>1. PICK i \in Position(x, v), j \in Position(x, w) : i < j
    BY <1>1 DEF ReceivedInOrder
  <2>2. /\ i \in DOMAIN delivered[x] /\ delivered[x][i].group = v
        /\ j \in DOMAIN delivered[x] /\ delivered[x][j].group = w
    BY DEF Position
  <2>3. /\ delivered[x][i].timestamp = tx[v].timestamp
        /\ delivered[x][j].timestamp = tx[w].timestamp
    BY <2>2 DEF IInv, StampsOK, CommittedAt
  <2> QED
    BY <2>1, <2>2, <2>3 DEF IInv, InKeyOrder
<1>2. /\ ~KeyBefore(tx[u].timestamp, u, tx[t].timestamp, t)
      /\ ~KeyBefore(tx[t].timestamp, t, tx[u].timestamp, u)
  BY <1>1
<1>3. tx[t].timestamp \in Nat /\ tx[u].timestamp \in Nat /\ t \in Nat /\ u \in Nat
  BY TransactionAssumption DEF IInv, TypeOK, TxType
<1> QED
  BY SMTT(30), <1>2, <1>3 DEF KeyBefore

-----------------------------------------------------------------------------
(* What one step adds to the entries a peer received *)

(* e is the front, as bus1_queue_peek() reports it.                        *)
FrontEntry(p, e) ==
  /\ queue[p].front # NULL /\ e.node = queue[p].front
  /\ e.group = queue[p].group[e.node]
  /\ ~e.more => ~More(queue[p])

(* e is the data message that RECV of p took up, with its handle.          *)
Handed(p, e) ==
  /\ peeked[p] # NoEntry /\ e.node = peeked[p].node
  /\ e.group = peeked[p].group /\ (~e.more => ~peeked[p].more)
  /\ e.handle = NULL => \/ Carries[e.node] = NULL
                        \/ ~is_live_at(Carries[e.node], e.timestamp)

Receives(p, e) ==
  /\ EntryOK(queue[p], e, Mine(p))
  /\ queue'[p].messages = queue[p].messages \ {e.node}
  /\ queue'[p].group = queue[p].group
  /\ (e.node \in Handle /\ FrontEntry(p, e)) \/ Handed(p, e)

OldEntry(p, i) == i \in DOMAIN delivered[p] /\ delivered'[p][i] = delivered[p][i]

NewEntry(p, i) ==
  /\ i = Len(delivered[p]) + 1
  /\ \E e \in EntryType : delivered'[p][i] = e /\ Receives(p, e)

Recv ==
  \A p \in Peer :
    /\ \A i \in DOMAIN delivered'[p] : OldEntry(p, i) \/ NewEntry(p, i)
    /\ \/ peeked'[p] = NoEntry \/ peeked'[p] = peeked[p]
       \/ queue'[p] = queue[p] /\ FrontEntry(p, peeked'[p])

(* An entry is appended to what p received.                                *)
LEMMA AppendedEntry ==
  ASSUME IInv, NEW p \in Peer, NEW e \in EntryType, Receives(p, e),
         delivered' = [delivered EXCEPT ![p] = Append(delivered[p], e)]
  PROVE  \A x \in Peer : \A i \in DOMAIN delivered'[x] :
           OldEntry(x, i) \/ NewEntry(x, i)
<1> DEFINE d == delivered[p]
<1>1. /\ d \in Seq(EntryType) /\ delivered'[p] = Append(d, e)
      /\ \A x \in Peer \ {p} : delivered'[x] = delivered[x]
  BY DEF IInv, TypeOK
<1>2. ASSUME NEW i \in DOMAIN delivered'[p]
      PROVE  \/ i \in DOMAIN d /\ delivered'[p][i] = d[i]
             \/ i = Len(d) + 1 /\ delivered'[p][i] = e
  BY SMTT(30), <1>1, <1>2
<1> QED
  BY <1>1, <1>2 DEF OldEntry, NewEntry

(* A step that takes nothing up                                            *)
LEMMA NothingReceived ==
  ASSUME delivered' = delivered,
         \A x \in Peer : peeked'[x] = NoEntry \/ peeked'[x] = peeked[x]
  PROVE  Recv
BY DEF Recv, OldEntry

(* Peek                                                                    *)
LEMMA PeekRecv ==
  ASSUME IInv, NEW p \in Peer, Peek(p)
  PROVE  Recv
<1> DEFINE q == queue[p]
           n == q.front
           more == More(q)
           e == Entry(q, n, more, NULL)
<1>1. QueueOK(q, Mine(p)) /\ Mine(p) \in SUBSET (Nat \ {0})
  BY MineOK DEF IInv, KeysOK
<1>2. n # NULL
  BY DEF Peek
<1>3. n \in q.messages /\ n \in Mine(p) /\ ~Odd(q.timestamp[n])
      /\ Past(q, q.timestamp[n], q.group[n])
  <2> HIDE DEF q
  <2> QED BY <1>1, <1>2, FrontOK
<1>4. more \in BOOLEAN
  BY DEF More
<1>5. e \in EntryType
  <2> HIDE DEF more, n
  <2> QED BY <1>3, <1>4, EntryTyped
<1>6. e.node = n /\ e.timestamp = q.timestamp[n] /\ e.group = q.group[n]
      /\ (~e.more => ~more)
  BY DEF Entry
<1>7. \/ UNCHANGED <<peeked, delivered>>
      \/ /\ ~(q.timestamp[n] <= q.flush) /\ n \in Handle
         /\ queue' = [queue EXCEPT ![p] = Remove(q, n)]
         /\ delivered' = [delivered EXCEPT ![p] = Append(delivered[p], e)]
         /\ UNCHANGED peeked
      \/ /\ peeked' = [peeked EXCEPT ![p] = e]
         /\ UNCHANGED <<queue, delivered>>
  BY DEF Peek
<1>8. q.timestamp[n] \in Nat /\ q.flush \in Nat
  BY <1>1, <1>3 DEF QueueOK, QueueType
<1>9. FrontEntry(p, e)
  BY <1>2, <1>6 DEF FrontEntry
<1> HIDE DEF q, n, more, e
<1>10. CASE UNCHANGED <<peeked, delivered>>
  BY <1>10, NothingReceived
<1>11. CASE /\ ~(q.timestamp[n] <= q.flush) /\ n \in Handle
            /\ queue' = [queue EXCEPT ![p] = Remove(q, n)]
            /\ delivered' = [delivered EXCEPT ![p] = Append(delivered[p], e)]
            /\ UNCHANGED peeked
  <2>1. EntryOK(q, e, Mine(p))
    <3>1. q.timestamp[n] > q.flush
      BY SMTT(30), <1>8, <1>11
    <3> QED
      BY <1>3, <1>6, <3>1 DEF EntryOK
  <2>2. RemoveOutcome(queue[p], queue'[p], n)
    BY <1>3, <1>11, Removed DEF q
  <2>3. Receives(p, e)
    BY <1>3, <1>6, <1>9, <1>11, <2>1, <2>2 DEF Receives, RemoveOutcome, q
  <2> QED
    BY <1>5, <1>11, <2>3, AppendedEntry DEF Recv
<1>12. CASE /\ peeked' = [peeked EXCEPT ![p] = e]
            /\ UNCHANGED <<queue, delivered>>
  <2>1. peeked'[p] = e /\ \A x \in Peer \ {p} : peeked'[x] = peeked[x]
    BY <1>12 DEF IInv, TypeOK
  <2> QED
    BY <1>9, <1>12, <2>1 DEF Recv, OldEntry
<1> QED
  BY <1>7, <1>10, <1>11, <1>12

(* Dequeue                                                                 *)
LEMMA DequeueRecv ==
  ASSUME IInv, NEW p \in Peer, Dequeue(p)
  PROVE  Recv
<1> DEFINE h == Carries[peeked[p].node]
           live == h # NULL /\ is_live_at(h, peeked[p].timestamp)
           got == IF live THEN h ELSE NULL
           e == [peeked[p] EXCEPT !.handle = got]
<1>1. DOMAIN queue = Peer /\ peeked \in [Peer -> EntryType]
  BY DEF IInv, TypeOK
<1>2. peeked[p] # NoEntry /\ peeked' = [peeked EXCEPT ![p] = NoEntry]
  BY DEF Dequeue
<1>3. EntryOK(queue[p], peeked[p], Data \cap Mine(p))
  BY <1>2 DEF IInv, KeysOK
<1>4. h \in Remote \cup {NULL} /\ Remote \subseteq Nat
  BY <1>3, TransactionAssumption DEF EntryOK, Node, NULL
<1>5. got \in Nat /\ (got = NULL => h = NULL \/ ~is_live_at(h, peeked[p].timestamp))
  BY <1>4 DEF NULL
<1> HIDE DEF h, live, got
<1>6. /\ e \in EntryType /\ e.node = peeked[p].node /\ e.handle = got
      /\ e.timestamp = peeked[p].timestamp /\ e.group = peeked[p].group
      /\ (~e.more => ~peeked[p].more)
  BY <1>1, <1>5 DEF EntryType
<1>7. /\ queue' = [queue EXCEPT ![p] = Remove(queue[p], e.node)]
      /\ delivered' = [delivered EXCEPT ![p] = Append(delivered[p], e)]
  BY <1>1, <1>6 DEF Dequeue, h, live, got
<1> HIDE DEF e
<1>8. EntryOK(queue[p], e, Mine(p)) /\ e.node \in Mine(p)
  BY <1>3, <1>6 DEF EntryOK
<1>9. RemoveOutcome(queue[p], queue'[p], e.node)
  BY <1>7, <1>8, Removed
<1>10. Handed(p, e)
  BY <1>2, <1>5, <1>6 DEF Handed, h
<1>11. Receives(p, e)
  BY <1>8, <1>9, <1>10 DEF Receives, RemoveOutcome
<1>12. \A x \in Peer : peeked'[x] = NoEntry \/ peeked'[x] = peeked[x]
  BY <1>1, <1>2
<1> QED
  BY <1>6, <1>7, <1>11, <1>12, AppendedEntry DEF Recv

(* Every step: only Peek and Dequeue add to what was received.             *)
LEMMA NextRecv == IInv /\ [Next]_vars => Recv
<1> SUFFICES ASSUME IInv, [Next]_vars PROVE Recv
  OBVIOUS
<1>1. ASSUME UNCHANGED <<delivered, peeked>>
      PROVE  Recv
  BY <1>1, NothingReceived
<1>2. ASSUME NEW t \in TxId, NEW n \in Node,
             \/ AcquireHandle(t, n) \/ StageMessage(t, n) \/ DestroyLocked(t, n)
             \/ StageRound(t, n) \/ SyncRound(t, n) \/ CommitRound(t, n)
      PROVE  UNCHANGED <<delivered, peeked>>
  BY <1>2 DEF AcquireHandle, StageMessage, DestroyLocked, StageRound,
     SyncRound, CommitRound
<1>3. ASSUME NEW t \in TxId,
             \/ BeginSend(t) \/ BeginDestroy(t)
             \/ AcquireCommitTS(t) \/ ReleaseHandles(t) \/ FlushQueue(t)
      PROVE  UNCHANGED <<delivered, peeked>>
  BY <1>3 DEF BeginSend, BeginDestroy, AcquireCommitTS,
     ReleaseHandles, FlushQueue
<1>4. ASSUME \/ \E a \in Anchor :
                  CreateNode(a) \/ QueueRelease(a) \/ AcquireStrong(a)
             \/ \E p \in Poller : Poll(p)
             \/ UNCHANGED vars
      PROVE  UNCHANGED <<delivered, peeked>>
  BY <1>4 DEF CreateNode, QueueRelease, AcquireStrong, Poll, vars
<1>5. ASSUME NEW p \in Peer, RecvFail(p)
      PROVE  Recv
  <2>1. /\ delivered' = delivered
        /\ \A x \in Peer : peeked'[x] = NoEntry \/ peeked'[x] = peeked[x]
    BY <1>5 DEF RecvFail, IInv, TypeOK
  <2> QED
    BY <2>1, NothingReceived
<1> QED
  BY <1>1, <1>2, <1>3, <1>4, <1>5, PeekRecv, DequeueRecv
     DEF Next, TxStep
=============================================================================
