------------------------- MODULE TransactionSteps --------------------------
(***************************************************************************)
(* What one step does.  First the callers of the queue: the tags of the    *)
(* nodes and the lists of the transactions are exact, destinations are     *)
(* synced before a commit and flushes are monotonic (CInv), whatever the   *)
(* critical sections of tx.c, handle.c and peer.c interleave.  Hence every *)
(* call they make into a queue keeps to the contract of queue.h, so that   *)
(* no WARN_ON() fires, the cached pointers are right and no sleeper is     *)
(* left behind; the only exception is a handle that joins its destruction  *)
(* late and becomes the front.  Then the few cases of what a step can do   *)
(* to a node and to a transaction, on which the theorems about what is     *)
(* received rest.                                                          *)
(***************************************************************************)
EXTENDS QueueProofs

USE ZenonT(30)

-----------------------------------------------------------------------------
(* What a critical section does to the queue nodes *)

(* The key of n stays as it is; only a committed entry leaves its queue.   *)
Keeps(n) ==
  /\ Group(n)' = Group(n) /\ Stamp(n)' = Stamp(n)
  /\ Linked(n)' => Linked(n)
  /\ Linked(n) /\ Odd(Stamp(n)) => Linked(n)'

Time == \A p \in Peer : Clock(p) <= Clock(p)'

FlushesKept == \A p \in Peer : queue'[p].flush = queue[p].flush

(* At most n gets another key.                                             *)
Touches(n) == Time /\ FlushesKept /\ \A m \in Node \ {n} : Keeps(m)

Calm == Time /\ FlushesKept /\ \A m \in Node : Keeps(m)

(* The clocks are natural numbers and the timestamps too.                  *)
LEMMA Numbers ==
  ASSUME IInv
  PROVE  /\ \A p \in Peer : Clock(p) \in Nat /\ queue[p].flush \in Nat
         /\ \A n \in Node : Stamp(n) \in Nat /\ Group(n) \in Nat /\ Dest[n] \in Peer
         /\ \A t \in TxId : /\ tx[t] \in TxType
                            /\ tx[t].timestamp \in Nat /\ tx[t].async_ts \in Nat
                            /\ ~Odd(tx[t].timestamp) /\ ~Odd(tx[t].async_ts)
<1>1. \A p \in Peer : Clock(p) \in Nat /\ queue[p].flush \in Nat
  BY DEF IInv, TypeOK, QueueType, Clock
<1>2. ASSUME NEW n \in Node
      PROVE  Stamp(n) \in Nat /\ Group(n) \in Nat /\ Dest[n] \in Peer
  <2>1. Dest[n] \in Peer /\ n \in Mine(Dest[n])
    BY MineOK
  <2>2. queue[Dest[n]] \in QueueType(Mine(Dest[n]))
    BY <2>1 DEF IInv, TypeOK
  <2> QED
    BY <2>1, <2>2 DEF QueueType, Stamp, Group
<1>3. ASSUME NEW t \in TxId
      PROVE  /\ tx[t] \in TxType
             /\ tx[t].timestamp \in Nat /\ tx[t].async_ts \in Nat
             /\ ~Odd(tx[t].timestamp) /\ ~Odd(tx[t].async_ts)
  BY DEF IInv, TypeOK, ListsOK, TxType
<1> QED
  BY <1>1, <1>2, <1>3

(* A step that leaves the queues alone                                     *)
LEMMA StillCalm ==
  ASSUME IInv, queue' = queue
  PROVE  Calm
<1>1. \A p \in Peer : Clock(p) <= Clock(p)'
  BY SMTT(30), Numbers DEF Clock
<1> QED
  BY <1>1 DEF Calm, Keeps, Time, FlushesKept, Linked, Stamp, Group

(* A critical section that changes the key of n in the queue of p          *)
LEMMA OneTouched ==
  ASSUME IInv, NEW p \in Peer, NEW n \in Mine(p), NEW s,
         queue' = [queue EXCEPT ![p] = s],
         Advance(queue[p], s, Mine(p)), OnlyNode(queue[p], s, Mine(p), n)
  PROVE  /\ Touches(n)
         /\ Linked(n)' <=> n \in s.messages
         /\ Stamp(n)' = s.timestamp[n] /\ Group(n)' = s.group[n]
         /\ Clock(p)' = s.clock
<1>1. /\ queue'[p] = s
      /\ \A x \in Peer \ {p} : queue'[x] = queue[x]
      /\ \A x \in Peer : Advance(queue[x], queue'[x], Mine(x))
  BY OneQueue
<1>2. Dest[n] = p /\ n \in Node
  BY MineOK
<1>3. Time
  BY <1>1 DEF Time, Clock, Advance
<1>4. FlushesKept
  BY <1>1 DEF FlushesKept, OnlyNode
<1>5. ASSUME NEW m \in Node \ {n}
      PROVE  Keeps(m)
  <2>1. Dest[m] \in Peer /\ m \in Mine(Dest[m])
    BY MineOK
  <2>2. CASE Dest[m] = p
    BY <1>1, <2>1, <2>2 DEF OnlyNode, Keeps, Linked, Stamp, Group
  <2>3. CASE Dest[m] # p
    BY <1>1, <2>1, <2>3 DEF Keeps, Linked, Stamp, Group
  <2> QED
    BY <2>2, <2>3
<1> QED
  BY <1>1, <1>2, <1>3, <1>4, <1>5 DEF Touches, Linked, Stamp, Group, Clock

(* A critical section that changes no key in the queue of p                *)
LEMMA OneCalm ==
  ASSUME IInv, NEW p \in Peer, NEW s,
         queue' = [queue EXCEPT ![p] = s],
         Advance(queue[p], s, Mine(p)), s.flush = queue[p].flush,
         s.timestamp = queue[p].timestamp, s.group = queue[p].group,
         s.messages \subseteq queue[p].messages,
         \A m \in queue[p].messages : Odd(queue[p].timestamp[m]) => m \in s.messages
  PROVE  Calm /\ Clock(p)' = s.clock
<1>1. /\ queue'[p] = s
      /\ \A x \in Peer \ {p} : queue'[x] = queue[x]
      /\ \A x \in Peer : Advance(queue[x], queue'[x], Mine(x))
  BY OneQueue
<1>2. Time
  BY <1>1 DEF Time, Clock, Advance
<1>3. FlushesKept
  BY <1>1 DEF FlushesKept
<1>4. ASSUME NEW m \in Node
      PROVE  Keeps(m)
  <2>1. Dest[m] \in Peer
    BY MineOK
  <2>2. CASE Dest[m] = p
    BY <1>1, <2>1, <2>2 DEF Keeps, Linked, Stamp, Group
  <2>3. CASE Dest[m] # p
    BY <1>1, <2>1, <2>3 DEF Keeps, Linked, Stamp, Group
  <2> QED
    BY <2>2, <2>3
<1> QED
  BY <1>1, <1>2, <1>3, <1>4 DEF Calm, Clock

(* bus1_queue_remove() of an entry that is not staging                     *)
LEMMA RemoveCalm ==
  ASSUME IInv, NEW p \in Peer, NEW n \in Mine(p), ~Odd(Stamp(n)),
         queue' = [queue EXCEPT ![p] = Remove(queue[p], n)]
  PROVE  Calm
<1> DEFINE s == Remove(queue[p], n)
<1>1. QueueOK(queue[p], Mine(p)) /\ Mine(p) \in SUBSET (Nat \ {0}) /\ Dest[n] = p
  BY MineOK DEF IInv, KeysOK
<1>2. Advance(queue[p], s, Mine(p)) /\ RemoveOutcome(queue[p], s, n)
  BY <1>1, RemoveOK
<1>3. ~Odd(queue[p].timestamp[n])
  BY <1>1 DEF Stamp
<1>4. queue' = [queue EXCEPT ![p] = s]
  OBVIOUS
<1> HIDE DEF s
<1>5. /\ s.flush = queue[p].flush
      /\ s.timestamp = queue[p].timestamp /\ s.group = queue[p].group
      /\ s.messages \subseteq queue[p].messages
      /\ \A m \in queue[p].messages : Odd(queue[p].timestamp[m]) => m \in s.messages
  BY <1>2, <1>3 DEF RemoveOutcome
<1> QED
  BY <1>2, <1>4, <1>5, OneCalm

-----------------------------------------------------------------------------
(* The tags *)

(* What a caller has still to do is tagged for it, and no call begins      *)
(* twice.                                                                  *)
TodoOK(u) ==
  /\ \A n \in tx'[u].todo \cap Data : Group(n) = NULL /\ Kind[u] = "send"
  /\ tx'[u].todo \cap Anchor # {} => Kind[u] # "send"
  /\ tx'[u].pc = "idle" => tx[u].pc = "idle"
  /\ tx'[u].postponed \subseteq tx[u].postponed

(* A caller that only works its lists off                                  *)
LEMMA TodoKept ==
  ASSUME TagsOK, NEW u \in TxId, tx'[u].todo \subseteq tx[u].todo,
         tx'[u].pc = "idle" => tx[u].pc = "idle",
         tx'[u].postponed \subseteq tx[u].postponed
  PROVE  TodoOK(u)
<1>1. PendingTags(u)
  BY DEF TagsOK
<1> QED
  BY <1>1 DEF PendingTags, TodoOK

(* A node that keeps its key keeps a right tag.                            *)
LEMMA TagKept ==
  ASSUME TagsOK, NEW n \in Node, Keeps(n),
         attached \subseteq attached', n \in destroyed' <=> n \in destroyed,
         n \in Remote => /\ NodeOf[n] \in destroyed => NodeOf[n] \in destroyed'
                         /\ NodeOf[n] \in destroyed => Group(NodeOf[n])' = Group(NodeOf[n])
  PROVE  /\ n \in Data => MessageTag(n)'
         /\ n \in Anchor => AnchorTag(n)'
         /\ n \in Remote => RemoteTag(n)'
<1>1. Group(n)' = Group(n) /\ Stamp(n)' = Stamp(n) /\ (Untouched(n) => Untouched(n)')
  BY DEF Keeps, Untouched
<1>2. ASSUME n \in Data PROVE MessageTag(n)'
  <2>1. MessageTag(n)
    BY <1>2 DEF TagsOK
  <2> QED
    BY <1>1, <2>1 DEF MessageTag
<1>3. ASSUME n \in Anchor PROVE AnchorTag(n)'
  <2>1. AnchorTag(n)
    BY <1>3 DEF TagsOK
  <2> QED
    BY <1>1, <2>1 DEF AnchorTag
<1>4. ASSUME n \in Remote PROVE RemoteTag(n)'
  <2>1. RemoteTag(n)
    BY <1>4 DEF TagsOK
  <2> QED
    BY <1>1, <1>4, <2>1 DEF RemoteTag
<1> QED
  BY <1>2, <1>3, <1>4

(* A caller's tags after a step that changes the key of n at most          *)
LEMMA PendingKept ==
  ASSUME IInv, TagsOK, NEW n, \A m \in Node \ {n} : Keeps(m),
         NEW u \in TxId, TodoOK(u), tx'[u] \in TxType,
         n \notin tx'[u].todo \cap Data, n \notin tx'[u].postponed,
         tx'[u].pc = "idle" => n \notin Sends[u]
  PROVE  PendingTags(u)'
<1>1. PendingTags(u)
  BY DEF TagsOK
<1>2. /\ Data \subseteq Node /\ Remote \subseteq Node /\ Sends[u] \subseteq Node
      /\ tx'[u].postponed \subseteq Remote
  BY TransactionAssumption DEF Node, TxType
<1>3. \A m \in Node \ {n} : Group(m)' = Group(m)
  BY DEF Keeps
<1>4. \A m \in tx'[u].todo \cap Data : Group(m)' = NULL /\ Kind[u] = "send"
  BY <1>2, <1>3 DEF TodoOK
<1>5. tx'[u].pc = "idle" => \A m \in Sends[u] : Group(m)' = NULL
  BY <1>1, <1>2, <1>3 DEF TodoOK, PendingTags
<1>6. \A r \in tx'[u].postponed : Group(r)' = u
  BY <1>1, <1>2, <1>3 DEF TodoOK, PendingTags
<1> QED
  BY <1>4, <1>5, <1>6 DEF PendingTags, TodoOK

(* The tags are right after a step that changes no key.                    *)
LEMMA TagsCalm ==
  ASSUME IInv, TagsOK, \A m \in Node : Keeps(m),
         destroyed' = destroyed, attached \subseteq attached',
         \A u \in TxId : TodoOK(u) /\ tx'[u] \in TxType
  PROVE  TagsOK'
<1>1. Data \subseteq Node /\ Anchor \subseteq Node /\ Remote \subseteq Node /\ destroyed \subseteq Anchor
  BY DEF Node, IInv, TypeOK
<1>2. ASSUME NEW n \in Node
      PROVE  /\ n \in Data => MessageTag(n)'
             /\ n \in Anchor => AnchorTag(n)'
             /\ n \in Remote => RemoteTag(n)'
  <2>1. \A m \in destroyed : Group(m)' = Group(m)
    BY <1>1 DEF Keeps
  <2> QED
    BY <2>1, TagKept
<1>3. ASSUME NEW u \in TxId
      PROVE  PendingTags(u)'
  <2>1. NULL \notin Node
    BY MineOK
  <2>2. /\ NULL \notin tx'[u].todo \cap Data /\ NULL \notin tx'[u].postponed
        /\ NULL \notin Sends[u]
    BY <1>1, <2>1, TransactionAssumption DEF TxType
  <2> QED
    BY <2>2, PendingKept
<1> QED
  BY <1>1, <1>2, <1>3 DEF TagsOK

(* The new tag of n says who uses it.                                      *)
NodeTag(n) ==
  /\ n \in Data => /\ Group(n)' \in TxId /\ n \in Sends[Group(n)']
                   /\ Kind[Group(n)'] = "send"
  /\ n \in Anchor => n \notin destroyed /\ Group(n)' = Dest[n]
  /\ n \in Remote => /\ n \in attached' /\ NodeOf[n] \in destroyed
                     /\ Group(n)' = Group(NodeOf[n])

(* The tags are right after a step that tags n.                            *)
LEMMA TagsNode ==
  ASSUME IInv, TagsOK, NEW n \in Node, \A m \in Node \ {n} : Keeps(m),
         destroyed' = destroyed, attached \subseteq attached',
         \A u \in TxId : /\ TodoOK(u) /\ tx'[u] \in TxType
                         /\ n \notin tx'[u].todo \cap Data
                         /\ n \notin tx'[u].postponed
                         /\ tx'[u].pc = "idle" => n \notin Sends[u],
         NodeTag(n)
  PROVE  TagsOK'
<1>1. /\ Data \subseteq Node /\ Anchor \subseteq Node /\ Remote \subseteq Node
      /\ destroyed \subseteq Anchor
      /\ Data \cap Anchor = {} /\ Data \cap Remote = {} /\ Anchor \cap Remote = {}
      /\ \A p \in Peer : p # NULL
      /\ \A t \in TxId : t # NULL
  BY TransactionAssumption DEF Node, Handle, IInv, TypeOK, NULL
<1>2. n \notin destroyed
  BY <1>1 DEF NodeTag
<1>3. ASSUME NEW m \in Node \ {n}
      PROVE  /\ m \in Data => MessageTag(m)'
             /\ m \in Anchor => AnchorTag(m)'
             /\ m \in Remote => RemoteTag(m)'
  <2>1. \A a \in destroyed : Group(a)' = Group(a)
    BY <1>1, <1>2 DEF Keeps
  <2> QED
    BY <2>1, TagKept
<1>4. n \in Data => MessageTag(n)'
  BY <1>1 DEF NodeTag, MessageTag
<1>5. n \in Anchor => AnchorTag(n)'
  <2> HAVE n \in Anchor
  <2>1. n \notin destroyed' /\ Group(n)' = Dest[n] /\ Dest[n] # NULL
    BY <1>1, MineOK DEF NodeTag
  <2> QED
    BY <2>1 DEF AnchorTag
<1>6. n \in Remote => RemoteTag(n)'
  <2> HAVE n \in Remote
  <2>1. /\ n \in attached' /\ NodeOf[n] \in destroyed'
        /\ Group(n)' = Group(NodeOf[n])' /\ Group(n)' \in TxId
    BY <1>1, <1>2 DEF NodeTag, Keeps, IInv, StampsOK
  <2> QED
    BY <1>1, <2>1 DEF RemoteTag
<1>7. ASSUME NEW u \in TxId
      PROVE  PendingTags(u)'
  BY PendingKept
<1> QED
  BY <1>1, <1>3, <1>4, <1>5, <1>6, <1>7 DEF TagsOK

-----------------------------------------------------------------------------
(* The lists *)

(* m stays on the lists of g, and a sealed g keeps its timestamp.          *)
ListFollows(g, m) ==
  /\ m \in tx[g].sync \cup tx[g].async => m \in tx'[g].sync \cup tx'[g].async
  /\ Stamp(m) = 0 /\ m \in tx[g].postponed => m \in tx'[g].postponed
  /\ Sealed(g) => Sealed(g)' /\ tx'[g].timestamp = tx[g].timestamp
  /\ Sealed(g)' =>
       \/ m \in tx'[g].unsynced \cup tx'[g].async
       \/ tx'[g].timestamp <= Clock(Dest[m])'
       \/ Sealed(g) /\ m \notin tx[g].unsynced \cup tx[g].async

(* A node that keeps its key is on its list, or was committed.             *)
LEMMA StagedNodeKept ==
  ASSUME IInv, IInv', StagedOK, Time, NEW m \in Node, Keeps(m),
         Group(m) \in TxId => ListFollows(Group(m), m)
  PROVE  StagedNode(m)'
<1> SUFFICES ASSUME NEW g, g = Group(m) PROVE StagedNode(m)'
  OBVIOUS
<1>1. StagedNode(m)
  BY DEF StagedOK
<1>2. Group(m)' = g /\ Stamp(m)' = Stamp(m)
  BY DEF Keeps
<1>3. CASE g \notin TxId
  BY <1>1, <1>2, <1>3 DEF StagedNode
<1>4. CASE g \in TxId
  <2>1. ListFollows(g, m)
    BY <1>4
  <2>2. Odd(Stamp(m)) => m \in tx'[g].sync \cup tx'[g].async
    BY <1>1, <2>1 DEF StagedNode, ListFollows
  <2>3. IF Stamp(m) = 0 THEN Sealed(g)' \/ m \in tx'[g].postponed
        ELSE Odd(Stamp(m)) \/ (Sealed(g)' /\ Stamp(m) = tx'[g].timestamp)
    BY <1>1, <1>4, <2>1 DEF StagedNode, ListFollows, CommittedAt
  <2>4. ASSUME Sealed(g)'
        PROVE  \/ m \in tx'[g].unsynced \cup tx'[g].async
               \/ tx'[g].timestamp <= Clock(Dest[m])'
    <3>1. CASE Sealed(g) /\ m \notin tx[g].unsynced \cup tx[g].async
      <4>1. tx[g].timestamp <= Clock(Dest[m]) /\ tx'[g].timestamp = tx[g].timestamp
        BY <1>1, <1>4, <2>1, <3>1 DEF StagedNode, ListFollows
      <4>2. Clock(Dest[m]) <= Clock(Dest[m])' /\ Dest[m] \in Peer
        BY MineOK DEF Time
      <4>3. Clock(Dest[m]) \in Nat /\ tx[g].timestamp \in Nat
        BY <1>4, <4>2, Numbers
      <4>4. Clock(Dest[m])' \in Nat
        BY <4>2 DEF IInv, TypeOK, QueueType, Clock
      <4> QED
        BY SMTT(30), <4>1, <4>2, <4>3, <4>4
    <3>2. CASE ~(Sealed(g) /\ m \notin tx[g].unsynced \cup tx[g].async)
      BY <2>1, <2>4, <3>2 DEF ListFollows
    <3> QED
      BY <3>1, <3>2
  <2> QED
    BY <1>2, <1>4, <2>2, <2>3, <2>4 DEF StagedNode, CommittedAt
<1> QED
  BY <1>3, <1>4

(* A caller that moves on without touching its lists                       *)
SameLists(u) ==
  /\ tx'[u].sync = tx[u].sync /\ tx'[u].async = tx[u].async
  /\ tx'[u].unsynced = tx[u].unsynced /\ tx'[u].postponed = tx[u].postponed
  /\ tx'[u].timestamp = tx[u].timestamp /\ tx'[u].async_ts = tx[u].async_ts
  /\ Sealed(u)' <=> Sealed(u)
  /\ \/ tx'[u].pc = tx[u].pc
     \/ tx[u].pc \notin {"open", "sealed", "done"} /\ tx'[u].pc # "sealed"

(* A transaction that did not change has the same lists.                   *)
LEMMA SameTx ==
  ASSUME NEW u, tx'[u] = tx[u]
  PROVE  SameLists(u)
BY DEF SameLists, Sealed

(* A list whose nodes keep their keys stays right.                         *)
LEMMA StagedListKept ==
  ASSUME IInv, StagedOK, NEW u \in TxId, SameLists(u),
         \A m \in tx[u].sync \cup tx[u].async : Keeps(m)
  PROVE  StagedList(u)'
<1>1. StagedList(u)
  BY DEF StagedOK
<1>2. /\ tx'[u].unsynced \subseteq tx'[u].sync
      /\ tx'[u].pc = "open" => tx'[u].unsynced = {}
      /\ tx'[u].pc # "open" => tx'[u].postponed = {}
      /\ tx'[u].pc \notin {"open", "sealed"} => tx'[u].sync = {} /\ tx'[u].async = {}
      /\ tx'[u].pc = "sealed" => tx'[u].unsynced # {} \/ tx'[u].async = {}
      /\ Sealed(u)' => tx'[u].timestamp # 0
  BY <1>1 DEF StagedList, SameLists, Sealed
<1>3. \A n \in tx'[u].sync \cup tx'[u].async :
        /\ Linked(n)' /\ Odd(Stamp(n)')
        /\ IF Sealed(u)' THEN Stamp(n)' < tx'[u].timestamp
           ELSE Stamp(n)' <= Later(tx'[u].timestamp, tx'[u].async_ts) + 1
  BY <1>1 DEF StagedList, SameLists, Keeps
<1> QED
  BY <1>2, <1>3 DEF StagedList

(* A node on the lists of an unchanged transaction                         *)
LEMMA SameFollows ==
  ASSUME NEW g, NEW m, SameLists(g)
  PROVE  ListFollows(g, m)
BY DEF SameLists, ListFollows

(* The lists are right after a step that changes no key and no list.       *)
LEMMA StagedCalm ==
  ASSUME IInv, IInv', StagedOK, Time, \A m \in Node : Keeps(m),
         \A u \in TxId : SameLists(u)
  PROVE  StagedOK'
<1>1. ASSUME NEW u \in TxId PROVE StagedList(u)'
  <2>1. tx[u].sync \cup tx[u].async \subseteq Node
    BY DEF IInv, TypeOK, TxType, Node
  <2> QED
    BY <2>1, StagedListKept
<1>2. ASSUME NEW m \in Node PROVE StagedNode(m)'
  BY StagedNodeKept, SameFollows
<1> QED
  BY <1>1, <1>2 DEF StagedOK

-----------------------------------------------------------------------------
(* The flush times *)

(* A transaction on its way keeps its timestamp; one that is sealed takes  *)
(* the time of its peer.                                                   *)
ResetFollows(u) ==
  tx'[u].pc \in {"sealed", "release", "flush"} =>
    \/ /\ tx[u].pc \in {"sealed", "release", "flush"}
       /\ tx'[u].timestamp = tx[u].timestamp
    \/ tx'[u].timestamp = Clock(Origin[u])'

(* The flush times are right after a step that flushes nothing.            *)
LEMMA FlushesFollow ==
  ASSUME IInv, IInv', FlushesOK, Time, FlushesKept, \A u \in TxId : ResetFollows(u)
  PROVE  FlushesOK'
<1>1. \A p \in Peer :
        /\ Clock(p) \in Nat /\ Clock(p)' \in Nat /\ queue[p].flush \in Nat
        /\ Clock(p) <= Clock(p)' /\ queue'[p].flush = queue[p].flush
        /\ queue[p].flush <= Clock(p)
  <2>1. \A p \in Peer : Clock(p) \in Nat /\ Clock(p)' \in Nat /\ queue[p].flush \in Nat
    BY DEF IInv, TypeOK, QueueType, Clock
  <2> QED
    BY <2>1 DEF Time, FlushesKept, FlushesOK
<1>2. ASSUME NEW u \in TxId,
             tx'[u].pc \in {"sealed", "release", "flush"}
      PROVE  /\ queue'[Origin[u]].flush <= tx'[u].timestamp
             /\ tx'[u].timestamp <= Clock(Origin[u])'
  <2>1. Origin[u] \in Peer /\ tx[u].timestamp \in Nat
    BY Numbers, TransactionAssumption
  <2>2. CASE tx'[u].timestamp = Clock(Origin[u])'
    BY SMTT(30), <1>1, <2>1, <2>2
  <2>3. CASE /\ tx[u].pc \in {"sealed", "release", "flush"}
             /\ tx'[u].timestamp = tx[u].timestamp
    <3>1. /\ queue[Origin[u]].flush <= tx[u].timestamp
          /\ tx[u].timestamp <= Clock(Origin[u])
      BY <1>2, <2>3 DEF FlushesOK
    <3> QED
      BY SMTT(30), <1>1, <2>1, <2>3, <3>1
  <2> QED
    BY <1>2, <2>2, <2>3 DEF ResetFollows
<1>3. \A p \in Peer : queue'[p].flush <= Clock(p)'
  BY SMTT(30), <1>1
<1> QED
  BY <1>2, <1>3 DEF FlushesOK

(* A caller that moves on without touching its lists                       *)
LEMMA SameResets ==
  ASSUME IInv, NEW u \in TxId, SameLists(u)
  PROVE  ResetFollows(u)
<1>1. tx[u].pc \in {"idle", "open", "sealed", "release", "flush", "done"}
  BY Numbers DEF TxType
<1> QED
  BY <1>1 DEF SameLists, ResetFollows, Sealed

-----------------------------------------------------------------------------
(* The steps that change no key *)

(* No tag, list or flush time is wrong after a step that changes no key    *)
(* and no list.                                                            *)
LEMMA CalmCInv ==
  ASSUME IInv, IInv', CInv, Calm,
         destroyed' = destroyed, attached \subseteq attached',
         \A u \in TxId : TodoOK(u) /\ SameLists(u)
  PROVE  CInv'
<1>1. TagsOK /\ StagedOK /\ FlushesOK /\ Time /\ FlushesKept /\ \A m \in Node : Keeps(m)
  BY DEF CInv, Calm
<1>2. \A u \in TxId : tx'[u] \in TxType
  BY DEF IInv, TypeOK
<1>3. TagsOK'
  BY <1>1, <1>2, TagsCalm
<1>4. StagedOK'
  BY <1>1, StagedCalm
<1>5. FlushesOK'
  BY <1>1, FlushesFollow, SameResets
<1> QED
  BY <1>3, <1>4, <1>5 DEF CInv

(* The same when no transaction changes                                    *)
LEMMA IdleCInv ==
  ASSUME IInv, IInv', CInv, Calm, tx' = tx,
         destroyed' = destroyed, attached \subseteq attached'
  PROVE  CInv'
<1>1. \A u \in TxId : TodoOK(u)
  BY TodoKept DEF CInv
<1>2. \A u \in TxId : SameLists(u)
  BY SameTx
<1> QED
  BY <1>1, <1>2, CalmCInv

(* One transaction changes.                                                *)
LEMMA OthersSame ==
  ASSUME IInv, TagsOK, NEW t \in TxId, \A u \in TxId \ {t} : tx'[u] = tx[u]
  PROVE  \A u \in TxId \ {t} : TodoOK(u) /\ SameLists(u) /\ ResetFollows(u)
<1> TAKE u \in TxId \ {t}
<1>1. TodoOK(u)
  BY TodoKept
<1>2. SameLists(u)
  BY SameTx
<1> QED
  BY <1>1, <1>2, SameResets

(* BeginSend: nothing the caller is about to send is tagged yet.           *)
LEMMA BeginSendCInv ==
  ASSUME IInv, IInv', CInv, NEW t \in TxId, BeginSend(t)
  PROVE  CInv'
<1> DEFINE x == [tx[t] EXCEPT !.pc = "open", !.todo = Sends[t]]
<1>1. /\ Kind[t] = "send" /\ tx[t].pc = "idle" /\ queue' = queue
      /\ attached' = attached /\ destroyed' = destroyed
      /\ tx' = [tx EXCEPT ![t] = x]
  BY DEF BeginSend, Begin, IInv, TypeOK
<1>2. /\ x.pc = "open" /\ x.todo = Sends[t] /\ x.postponed = tx[t].postponed
      /\ x.sync = tx[t].sync /\ x.async = tx[t].async
      /\ x.unsynced = tx[t].unsynced
      /\ x.timestamp = tx[t].timestamp /\ x.async_ts = tx[t].async_ts
  <2>1. tx[t] \in TxType
    BY Numbers
  <2> QED
    BY <2>1 DEF TxType
<1> HIDE DEF x
<1>3. tx'[t] = x /\ \A u \in TxId \ {t} : tx'[u] = tx[u]
  BY <1>1, TxUpdate
<1>4. PendingTags(t) /\ Sends[t] \subseteq Data /\ Data \cap Anchor = {}
  BY TransactionAssumption DEF CInv, TagsOK, Handle
<1>5. TodoOK(t)
  BY <1>1, <1>2, <1>3, <1>4 DEF TodoOK, PendingTags
<1>6. SameLists(t)
  BY <1>1, <1>2, <1>3 DEF SameLists, Sealed
<1>7. \A u \in TxId : TodoOK(u) /\ SameLists(u)
  BY <1>3, <1>5, <1>6, OthersSame DEF CInv
<1> QED
  BY <1>1, <1>7, StillCalm, CalmCInv

(* BeginDestroy: the anchors are the owner's, and no SEND destroys.        *)
LEMMA BeginDestroyCInv ==
  ASSUME IInv, IInv', CInv, NEW t \in TxId, BeginDestroy(t)
  PROVE  CInv'
<1> DEFINE p == Origin[t]
           anchors == IF Kind[t] = "reset"
                      THEN (Anchor \cap Mine(p) \cap public) \ destroyed
                      ELSE Destroys[t]
           x == [tx[t] EXCEPT !.pc = "open", !.todo = anchors]
<1>1. /\ Kind[t] # "send" /\ tx[t].pc = "idle" /\ queue' = queue
      /\ attached' = attached /\ destroyed' = destroyed
      /\ tx' = [tx EXCEPT ![t] = x]
  BY DEF BeginDestroy, Begin, IInv, TypeOK
<1>2. anchors \cap Data = {}
  BY TransactionAssumption DEF Handle
<1> HIDE DEF anchors
<1>3. /\ x.pc = "open" /\ x.todo = anchors /\ x.postponed = tx[t].postponed
      /\ x.sync = tx[t].sync /\ x.async = tx[t].async
      /\ x.unsynced = tx[t].unsynced
      /\ x.timestamp = tx[t].timestamp /\ x.async_ts = tx[t].async_ts
  <2>1. tx[t] \in TxType
    BY Numbers
  <2> QED
    BY <2>1 DEF TxType
<1> HIDE DEF x
<1>4. tx'[t] = x /\ \A u \in TxId \ {t} : tx'[u] = tx[u]
  BY <1>1, TxUpdate
<1>5. TodoOK(t)
  BY <1>1, <1>2, <1>3, <1>4 DEF TodoOK
<1>6. SameLists(t)
  BY <1>1, <1>3, <1>4 DEF SameLists, Sealed
<1>7. \A u \in TxId : TodoOK(u) /\ SameLists(u)
  BY <1>4, <1>5, <1>6, OthersSame DEF CInv
<1> QED
  BY <1>1, <1>7, StillCalm, CalmCInv

(* ReleaseHandles moves its caller on and nothing else.                    *)
LEMMA ReleaseHandlesCInv ==
  ASSUME IInv, IInv', CInv, NEW t \in TxId, ReleaseHandles(t)
  PROVE  CInv'
<1> DEFINE x == [tx[t] EXCEPT !.pc =
                   IF Kind[t] = "reset" THEN "flush" ELSE "done"]
<1>1. /\ tx[t].pc = "release" /\ queue' = queue
      /\ attached' = attached /\ destroyed' = destroyed
      /\ tx' = [tx EXCEPT ![t] = x]
  BY DEF ReleaseHandles, IInv, TypeOK
<1>2. /\ x.pc \in {"flush", "done"} /\ x.todo = tx[t].todo
      /\ x.postponed = tx[t].postponed
      /\ x.sync = tx[t].sync /\ x.async = tx[t].async
      /\ x.unsynced = tx[t].unsynced
      /\ x.timestamp = tx[t].timestamp /\ x.async_ts = tx[t].async_ts
  <2>1. tx[t] \in TxType
    BY Numbers
  <2> QED
    BY <2>1 DEF TxType
<1> HIDE DEF x
<1>3. tx'[t] = x /\ \A u \in TxId \ {t} : tx'[u] = tx[u]
  BY <1>1, TxUpdate
<1>4. TodoOK(t)
  <2>1. tx'[t].pc # "idle"
    BY <1>2, <1>3
  <2> QED
    BY <1>2, <1>3, <2>1, TodoKept DEF CInv
<1>5. SameLists(t)
  BY <1>1, <1>2, <1>3 DEF SameLists, Sealed
<1>6. \A u \in TxId : TodoOK(u) /\ SameLists(u)
  BY <1>3, <1>4, <1>5, OthersSame DEF CInv
<1> QED
  BY <1>1, <1>6, StillCalm, CalmCInv

(* Peek drops or hands out a committed entry.                              *)
LEMMA PeekCalm ==
  ASSUME IInv, NEW p \in Peer, Peek(p)
  PROVE  Calm
<1> DEFINE n == queue[p].front
<1>1. /\ n # NULL
      /\ queue' = queue \/ queue' = [queue EXCEPT ![p] = Remove(queue[p], n)]
  BY DEF Peek
<1>2. QueueOK(queue[p], Mine(p)) /\ Mine(p) \in SUBSET (Nat \ {0})
  BY MineOK DEF IInv, KeysOK
<1>3. n \in Mine(p) /\ ~Odd(queue[p].timestamp[n])
  BY <1>1, <1>2, FrontOK
<1>4. ~Odd(Stamp(n))
  BY <1>3, MineOK DEF Stamp
<1> HIDE DEF n
<1> QED
  BY <1>1, <1>3, <1>4, StillCalm, RemoveCalm

(* Dequeue removes the committed entry that RECV peeked.                   *)
LEMMA DequeueCalm ==
  ASSUME IInv, NEW p \in Peer, Dequeue(p)
  PROVE  Calm
<1> DEFINE n == peeked[p].node
<1>1. /\ peeked[p] # NoEntry
      /\ queue' = [queue EXCEPT ![p] = Remove(queue[p], n)]
  BY DEF Dequeue, IInv, TypeOK
<1>2. n \in Mine(p) /\ ~Odd(queue[p].timestamp[n])
  BY <1>1 DEF IInv, KeysOK, EntryOK
<1>3. ~Odd(Stamp(n))
  BY <1>2, MineOK DEF Stamp
<1> HIDE DEF n
<1> QED
  BY <1>1, <1>2, <1>3, RemoveCalm

(* poll() only goes to sleep.                                              *)
LEMMA PollCalm ==
  ASSUME IInv, NEW p \in Peer, Poll(p)
  PROVE  Calm
<1> DEFINE s == [queue[p] EXCEPT !.asleep = TRUE]
<1>1. queue' = [queue EXCEPT ![p] = s]
  BY DEF Poll, IInv, TypeOK
<1>2. queue[p] \in QueueType(Mine(p)) /\ QueueOK(queue[p], Mine(p))
      /\ Mine(p) \in SUBSET (Nat \ {0})
  BY MineOK DEF IInv, TypeOK, KeysOK
<1>3. s \in QueueType(Mine(p)) /\ Same(queue[p], s)
  BY <1>2 DEF QueueType, Same
<1> HIDE DEF s
<1>4. Alike(queue[p], s)
  BY SMTT(30), <1>2, <1>3 DEF Alike, Same, QueueOK, QueueType
<1>5. Advance(queue[p], s, Mine(p))
  BY <1>2, <1>3, <1>4, AdvanceAlike
<1> QED
  BY <1>1, <1>3, <1>5, OneCalm DEF Same

(* A release notification is committed, hence its withdrawal changes no    *)
(* staging entry.                                                          *)
LEMMA FlushReleaseCalm ==
  ASSUME IInv, CInv, NEW a \in Anchor, a \notin destroyed, FlushRelease(a)
  PROVE  Calm
<1> SUFFICES ASSUME NEW p, p = Dest[a] PROVE Calm
  OBVIOUS
<1>1. p \in Peer /\ a \in Mine(p) /\ a \in Node /\ p \notin TxId
  BY MineOK, TransactionAssumption DEF Node
<1>2. ~Odd(Stamp(a))
  <2>1. AnchorTag(a) /\ StagedNode(a)
    BY <1>1 DEF CInv, TagsOK, StagedOK
  <2>2. Group(a) \notin TxId
    BY <1>1, <2>1, TransactionAssumption DEF AnchorTag, NULL
  <2> QED
    BY <2>1, <2>2 DEF StagedNode
<1>3. \/ queue' = [queue EXCEPT ![p] = Remove(queue[p], a)]
      \/ queue' = [queue EXCEPT ![p] = queue[p]]
  BY DEF FlushRelease
<1>4. QueueOK(queue[p], Mine(p))
  BY <1>1 DEF IInv, KeysOK
<1>5. CASE queue' = [queue EXCEPT ![p] = queue[p]]
  BY <1>1, <1>4, <1>5, AdvanceReflexive, OneCalm
<1> QED
  BY <1>1, <1>2, <1>3, <1>5, RemoveCalm

(* bus1_queue_flush() drops committed entries only.                        *)
LEMMA FlushEffect ==
  ASSUME IInv, NEW t \in TxId, FlushQueue(t)
  PROVE  /\ Time /\ \A m \in Node : Keeps(m)
         /\ queue'[Origin[t]].flush = tx[t].timestamp
         /\ \A p \in Peer \ {Origin[t]} : queue'[p].flush = queue[p].flush
         /\ \A p \in Peer : Clock(p)' = Clock(p)
<1> DEFINE p == Origin[t]
           s == Flush(queue[p], tx[t].timestamp)
<1>1. /\ p \in Peer /\ tx[t].timestamp \in Nat
      /\ QueueOK(queue[p], Mine(p)) /\ Mine(p) \in SUBSET (Nat \ {0})
  BY Numbers, MineOK, TransactionAssumption DEF IInv, KeysOK
<1>2. queue' = [queue EXCEPT ![p] = s]
  BY <1>1 DEF FlushQueue, IInv, TypeOK
<1>3. Advance(queue[p], s, Mine(p)) /\ FlushOutcome(queue[p], s, tx[t].timestamp)
  <2> HIDE DEF p
  <2> QED BY <1>1, FlushOK
<1> HIDE DEF p, s
<1>4. /\ queue'[p] = s
      /\ \A x \in Peer \ {p} : queue'[x] = queue[x]
      /\ \A x \in Peer : Advance(queue[x], queue'[x], Mine(x))
  BY <1>1, <1>2, <1>3, OneQueue
<1>5. /\ \A x \in Peer : Clock(x)' = Clock(x)
      /\ s.flush = tx[t].timestamp
      /\ s.timestamp = queue[p].timestamp /\ s.group = queue[p].group
      /\ s.messages \subseteq queue[p].messages
      /\ \A m \in queue[p].messages : Odd(queue[p].timestamp[m]) => m \in s.messages
  BY <1>3, <1>4 DEF FlushOutcome, Flushed, IsStaging, Clock
<1>6. ASSUME NEW m \in Node PROVE Keeps(m)
  <2>1. Dest[m] \in Peer
    BY MineOK
  <2>2. CASE Dest[m] = p
    BY <1>4, <1>5, <2>2 DEF Keeps, Linked, Stamp, Group
  <2>3. CASE Dest[m] # p
    BY <1>4, <2>1, <2>3 DEF Keeps, Linked, Stamp, Group
  <2> QED
    BY <2>2, <2>3
<1>7. Time
  BY <1>4 DEF Time, Clock, Advance
<1> QED
  BY <1>4, <1>5, <1>6, <1>7 DEF p

(* FlushQueue: the reset is the only transaction of the peer under way,    *)
(* and its timestamp was taken from the clock of the peer.                 *)
LEMMA FlushQueueCInv ==
  ASSUME IInv, IInv', CInv, NEW t \in TxId, FlushQueue(t)
  PROVE  CInv'
<1> DEFINE x == [tx[t] EXCEPT !.pc = "done"]
           p == Origin[t]
<1>1. /\ tx[t].pc = "flush"
      /\ attached' = attached /\ destroyed' = destroyed
      /\ tx' = [tx EXCEPT ![t] = x]
  BY DEF FlushQueue, IInv, TypeOK
<1>2. /\ x.pc = "done" /\ x.todo = tx[t].todo
      /\ x.postponed = tx[t].postponed
      /\ x.sync = tx[t].sync /\ x.async = tx[t].async
      /\ x.unsynced = tx[t].unsynced
      /\ x.timestamp = tx[t].timestamp /\ x.async_ts = tx[t].async_ts
  <2>1. tx[t] \in TxType
    BY Numbers
  <2> QED
    BY <2>1 DEF TxType
<1> HIDE DEF x
<1>3. tx'[t] = x /\ \A u \in TxId \ {t} : tx'[u] = tx[u]
  BY <1>1, TxUpdate
<1>4. TodoOK(t)
  <2>1. tx'[t].pc # "idle"
    BY <1>2, <1>3
  <2> QED
    BY <1>2, <1>3, <2>1, TodoKept DEF CInv
<1>5. SameLists(t)
  BY <1>1, <1>2, <1>3 DEF SameLists, Sealed
<1>6. \A u \in TxId : TodoOK(u) /\ SameLists(u)
  BY <1>3, <1>4, <1>5, OthersSame DEF CInv
<1>7. /\ Time /\ \A m \in Node : Keeps(m)
      /\ queue'[p].flush = tx[t].timestamp
      /\ \A y \in Peer \ {p} : queue'[y].flush = queue[y].flush
      /\ \A y \in Peer : Clock(y)' = Clock(y)
  BY FlushEffect
<1>8. TagsOK'
  <2>1. \A u \in TxId : tx'[u] \in TxType
    BY DEF IInv, TypeOK
  <2> QED
    BY <1>1, <1>6, <1>7, <2>1, TagsCalm DEF CInv
<1>9. StagedOK'
  BY <1>6, <1>7, StagedCalm DEF CInv
<1>10. FlushesOK'
  <2>1. tx[t].timestamp <= Clock(p)
    BY <1>1 DEF CInv, FlushesOK
  <2>2. \A y \in Peer : queue'[y].flush <= Clock(y)'
    BY <1>7, <2>1 DEF CInv, FlushesOK
  <2>3. ASSUME NEW u \in TxId,
               tx'[u].pc \in {"sealed", "release", "flush"}
        PROVE  queue'[Origin[u]].flush <= tx'[u].timestamp
               /\ tx'[u].timestamp <= Clock(Origin[u])'
    <3>1. u # t /\ tx'[u] = tx[u] /\ tx[u].pc \notin {"idle", "done"}
      BY <1>2, <1>3, <2>3
    <3>2. Origin[u] # p /\ Origin[u] \in Peer
      BY <1>1, <3>1, TransactionAssumption DEF IInv, LocalOK
    <3> QED
      BY <1>7, <2>3, <3>1, <3>2 DEF CInv, FlushesOK
  <2> QED
    BY <2>2, <2>3 DEF FlushesOK
<1> QED
  BY <1>8, <1>9, <1>10 DEF CInv

(* The commit timestamp is later than what any node of the transaction was *)
(* staged with, and it is the time of the caller's peer.                   *)
Seals(t) ==
  /\ tx[t].pc = "open" /\ tx[t].todo = {} /\ tx[t].postponed = {}
  /\ \A u \in TxId \ {t} : tx'[u] = tx[u]
  /\ tx'[t].todo = {} /\ tx'[t].postponed = {}
  /\ tx'[t].sync = tx[t].sync /\ tx'[t].async = tx[t].async
  /\ tx'[t].unsynced = tx[t].sync
  /\ tx'[t].pc = IF tx[t].sync = {} THEN Returned(t) ELSE "sealed"
  /\ tx'[t].timestamp = Clock(Origin[t])' /\ tx'[t].timestamp \in Nat
  /\ Later(tx[t].timestamp, tx[t].async_ts) + 2 <= tx'[t].timestamp
  /\ Clock(Origin[t]) + 2 <= tx'[t].timestamp

(* AcquireCommitTS syncs and ticks the clock of the caller.                *)
LEMMA SealEffect ==
  ASSUME IInv, NEW t \in TxId, AcquireCommitTS(t)
  PROVE  Calm /\ Seals(t)
<1> DEFINE p == Origin[t]
           ts == Later(tx[t].timestamp, tx[t].async_ts)
           r == Sync(queue[p], ts)
           s == Tick(r)
           x == [tx[t] EXCEPT !.timestamp = s.clock, !.unsynced = tx[t].sync,
                   !.pc = IF tx[t].sync = {} THEN Returned(t) ELSE "sealed"]
<1>1. /\ p \in Peer /\ ts \in Nat /\ ~Odd(ts)
      /\ QueueOK(queue[p], Mine(p)) /\ Mine(p) \in SUBSET (Nat \ {0})
  <2>1. p \in Peer /\ QueueOK(queue[p], Mine(p)) /\ Mine(p) \in SUBSET (Nat \ {0})
    BY MineOK, TransactionAssumption DEF IInv, KeysOK
  <2>2. ts \in Nat /\ ~Odd(ts)
    BY Numbers DEF Later
  <2> QED
    BY <2>1, <2>2
<1>2. /\ tx[t].pc = "open" /\ tx[t].todo = {} /\ tx[t].postponed = {}
      /\ queue' = [queue EXCEPT ![p] = s]
      /\ tx' = [tx EXCEPT ![t] = x]
  BY DEF AcquireCommitTS, IInv, TypeOK
<1>3. /\ Advance(queue[p], r, Mine(p)) /\ Ticked(queue[p], r)
      /\ r.clock = Later(queue[p].clock, ts) /\ ts <= r.clock
  <2> HIDE DEF p, ts
  <2> QED BY <1>1, SyncOK
<1>4. QueueOK(r, Mine(p)) /\ queue[p].clock <= r.clock
  BY <1>3 DEF Advance
<1> HIDE DEF r
<1>5. Advance(r, s, Mine(p)) /\ Ticked(r, s) /\ s.clock = r.clock + 2
  <2> HIDE DEF p
  <2> QED BY <1>1, <1>4, TickOK
<1> HIDE DEF s, p
<1>6. Advance(queue[p], s, Mine(p))
  BY <1>1, <1>3, <1>5, AdvanceTransitive
<1>7. /\ s.flush = queue[p].flush /\ s.messages = queue[p].messages
      /\ s.timestamp = queue[p].timestamp /\ s.group = queue[p].group
  BY <1>3, <1>5 DEF Ticked
<1>8. Calm /\ Clock(p)' = s.clock
  BY <1>1, <1>2, <1>6, <1>7, OneCalm
<1>9. /\ x.timestamp = s.clock /\ x.unsynced = tx[t].sync
      /\ x.pc = (IF tx[t].sync = {} THEN Returned(t) ELSE "sealed")
      /\ x.todo = tx[t].todo /\ x.postponed = tx[t].postponed
      /\ x.sync = tx[t].sync /\ x.async = tx[t].async
  <2>1. tx[t] \in TxType
    BY Numbers
  <2> QED
    BY <2>1 DEF TxType
<1> HIDE DEF x
<1>10. tx'[t] = x /\ \A u \in TxId \ {t} : tx'[u] = tx[u]
  BY <1>2, TxUpdate
<1>11. /\ queue[p].clock \in Nat /\ r.clock \in Nat
  BY <1>1, <1>4 DEF QueueOK, QueueType
<1>12. /\ s.clock \in Nat /\ ts + 2 <= s.clock /\ queue[p].clock + 2 <= s.clock
  BY SMTT(30), <1>1, <1>3, <1>4, <1>5, <1>11
<1> QED
  BY <1>2, <1>8, <1>9, <1>10, <1>12 DEF Seals, Clock, p

(* A handle on the asynchronous list has its anchor on the other one.      *)
LEMMA AsyncHasAnchor ==
  ASSUME IInv, CInv, NEW t \in TxId, tx[t].pc = "open", tx[t].sync = {}
  PROVE  tx[t].async = {}
<1> SUFFICES ASSUME NEW r \in tx[t].async PROVE FALSE
  OBVIOUS
<1>1. r \in Remote /\ r \in Node /\ t # NULL /\ tx[t].async \subseteq Remote
  BY Numbers, TransactionAssumption DEF TxType, Node, NULL
<1>2. Group(r) = t
  BY DEF IInv, ListsOK
<1> DEFINE a == NodeOf[r]
<1>3. a \in destroyed /\ Group(a) = t
  BY <1>1, <1>2 DEF CInv, TagsOK, RemoteTag
<1>4. a \in Anchor /\ a \in Node /\ a \notin Remote
  BY <1>1, TransactionAssumption DEF Node
<1>5. Odd(Stamp(a))
  BY <1>3 DEF IInv, StampsOK, CommittedAt, Sealed
<1>6. a \in tx[t].sync \cup tx[t].async
  BY <1>3, <1>4, <1>5 DEF CInv, StagedOK, StagedNode
<1> QED
  BY <1>1, <1>4, <1>6

(* AcquireCommitTS keeps the invariant: what it seals is behind the commit *)
(* timestamp, and has still to be synced.                                  *)
LEMMA AcquireCommitTSCInv ==
  ASSUME IInv, IInv', CInv, NEW t \in TxId, AcquireCommitTS(t)
  PROVE  CInv'
<1>1. Calm /\ Seals(t) /\ destroyed' = destroyed /\ attached' = attached
  BY SealEffect DEF AcquireCommitTS
<1>2. Time /\ FlushesKept /\ \A m \in Node : Keeps(m)
  BY <1>1 DEF Calm
<1>3. \A u \in TxId \ {t} : TodoOK(u) /\ SameLists(u) /\ ResetFollows(u)
  BY <1>1, OthersSame DEF CInv, Seals
<1>4. tx'[t].pc \in {"sealed", "release", "done"} /\ Sealed(t)' /\ ~Sealed(t)
  BY <1>1 DEF Seals, Returned, Sealed
<1>5. TodoOK(t) /\ ResetFollows(t)
  BY <1>1, <1>4 DEF TodoOK, ResetFollows, Seals
<1>6. TagsOK'
  <2>1. \A u \in TxId : TodoOK(u) /\ tx'[u] \in TxType
    BY <1>3, <1>5 DEF IInv, TypeOK
  <2> QED
    BY <1>1, <1>2, <2>1, TagsCalm DEF CInv
<1>7. FlushesOK'
  BY <1>2, <1>3, <1>5, FlushesFollow DEF CInv
<1>8. /\ StagedList(t) /\ tx[t].sync \cup tx[t].async \subseteq Node
      /\ tx[t].timestamp \in Nat /\ tx[t].async_ts \in Nat
  BY Numbers DEF CInv, StagedOK, TxType, Node
<1>9. StagedList(t)'
  <2>1. /\ tx'[t].unsynced \subseteq tx'[t].sync
        /\ tx'[t].pc # "open" /\ tx'[t].postponed = {}
        /\ tx'[t].pc \notin {"open", "sealed"} => tx'[t].sync = {} /\ tx'[t].async = {}
        /\ tx'[t].pc = "sealed" => tx'[t].unsynced # {} \/ tx'[t].async = {}
        /\ tx'[t].timestamp # 0
    <3>1. tx[t].sync = {} => tx[t].async = {}
      BY <1>1, AsyncHasAnchor DEF Seals
    <3>2. tx'[t].timestamp # 0
      BY SMTT(30), <1>1, <1>8 DEF Seals, Later
    <3> QED
      BY <1>1, <1>4, <3>1, <3>2 DEF Seals, Returned
  <2>2. ASSUME NEW n \in tx[t].sync \cup tx[t].async
        PROVE  Linked(n)' /\ Odd(Stamp(n)') /\ Stamp(n)' < tx'[t].timestamp
    <3>1. /\ Linked(n) /\ Odd(Stamp(n)) /\ Keeps(n) /\ n \in Node
          /\ Stamp(n) <= Later(tx[t].timestamp, tx[t].async_ts) + 1
      BY <1>2, <1>4, <1>8 DEF StagedList
    <3>2. Stamp(n) \in Nat /\ Later(tx[t].timestamp, tx[t].async_ts) \in Nat
      BY <1>8, <3>1, Numbers DEF Later
    <3>3. /\ Later(tx[t].timestamp, tx[t].async_ts) + 2 <= tx'[t].timestamp
          /\ tx'[t].timestamp \in Nat
      BY <1>1 DEF Seals
    <3>4. Stamp(n) < tx'[t].timestamp
      <4> DEFINE l == Later(tx[t].timestamp, tx[t].async_ts)
      <4>1. Stamp(n) <= l + 1 /\ l \in Nat /\ l + 2 <= tx'[t].timestamp
        BY <3>1, <3>2, <3>3
      <4> HIDE DEF l
      <4> QED BY SMTT(30), <3>2, <3>3, <4>1
    <3> QED
      BY <3>1, <3>4 DEF Keeps
  <2>3. \A n \in tx'[t].sync \cup tx'[t].async :
          Linked(n)' /\ Odd(Stamp(n)') /\ Stamp(n)' < tx'[t].timestamp
    BY <1>1, <2>2 DEF Seals
  <2> QED
    BY <1>4, <2>1, <2>3 DEF StagedList
<1>10. ASSUME NEW u \in TxId \ {t} PROVE StagedList(u)'
  <2>1. tx[u].sync \cup tx[u].async \subseteq Node
    BY Numbers DEF TxType, Node
  <2> QED
    BY <1>2, <1>3, <2>1, StagedListKept DEF CInv
<1>11. ASSUME NEW m \in Node PROVE StagedNode(m)'
  <2>1. ASSUME Group(m) = t PROVE ListFollows(t, m)
    <3>1. StagedNode(m) /\ m \notin tx[t].postponed
      BY <1>1 DEF CInv, StagedOK, Seals
    <3>2. m \in tx[t].sync \cup tx[t].async
      BY <1>4, <2>1, <3>1 DEF StagedNode, CommittedAt
    <3> QED
      BY <1>1, <1>4, <3>1, <3>2 DEF ListFollows, Seals
  <2>2. ASSUME NEW g \in TxId \ {t} PROVE ListFollows(g, m)
    BY <1>3, SameFollows
  <2> QED
    BY <1>2, <2>1, <2>2, StagedNodeKept DEF CInv
<1>12. StagedOK'
  BY <1>9, <1>10, <1>11 DEF StagedOK
<1> QED
  BY <1>6, <1>7, <1>12 DEF CInv

(* A round of the sync loop: the queue of n has reached the commit         *)
(* timestamp, and n is no longer to be synced.                             *)
SyncsOne(t, n) ==
  /\ tx[t].pc = "sealed" /\ n \in tx[t].unsynced
  /\ \A u \in TxId \ {t} : tx'[u] = tx[u]
  /\ tx'[t].pc = "sealed" /\ tx'[t].todo = tx[t].todo
  /\ tx'[t].postponed = tx[t].postponed
  /\ tx'[t].timestamp = tx[t].timestamp
  /\ tx'[t].timestamp <= Clock(Dest[n])'
  /\ \/ /\ tx'[t].unsynced = tx[t].unsynced \ {n} /\ tx'[t].unsynced # {}
        /\ tx'[t].sync = tx[t].sync /\ tx'[t].async = tx[t].async
     \/ /\ tx[t].unsynced = {n} /\ tx'[t].unsynced = tx[t].async
        /\ tx'[t].sync = tx[t].sync \cup tx[t].async /\ tx'[t].async = {}

(* SyncRound only moves a clock.                                           *)
LEMMA SyncEffect ==
  ASSUME IInv, NEW t \in TxId, NEW n \in Node, SyncRound(t, n)
  PROVE  Calm /\ SyncsOne(t, n)
<1> DEFINE p == Dest[n]
           rest == tx[t].unsynced \ {n}
           s == Sync(queue[p], tx[t].timestamp)
           x == IF rest # {} THEN [tx[t] EXCEPT !.unsynced = rest]
                ELSE [tx[t] EXCEPT !.unsynced = tx[t].async,
                                   !.sync = tx[t].sync \cup tx[t].async,
                                   !.async = {}]
<1>1. /\ p \in Peer /\ tx[t].timestamp \in Nat /\ ~Odd(tx[t].timestamp)
      /\ QueueOK(queue[p], Mine(p)) /\ Mine(p) \in SUBSET (Nat \ {0})
      /\ tx[t] \in TxType
  BY Numbers, MineOK DEF IInv, KeysOK
<1>2. /\ tx[t].pc = "sealed" /\ n \in tx[t].unsynced
      /\ queue' = [queue EXCEPT ![p] = s]
      /\ tx' = [tx EXCEPT ![t] = x]
  BY <1>1 DEF SyncRound, IInv, TypeOK
<1>3. /\ Advance(queue[p], s, Mine(p)) /\ Ticked(queue[p], s)
      /\ tx[t].timestamp <= s.clock
  <2> HIDE DEF p
  <2> QED BY <1>1, SyncOK
<1> HIDE DEF s, p
<1>4. Calm /\ Clock(p)' = s.clock
  BY <1>1, <1>2, <1>3, OneCalm DEF Ticked
<1>5. /\ x.pc = "sealed" /\ x.todo = tx[t].todo
      /\ x.postponed = tx[t].postponed /\ x.timestamp = tx[t].timestamp
      /\ \/ /\ x.unsynced = rest /\ rest # {}
            /\ x.sync = tx[t].sync /\ x.async = tx[t].async
         \/ /\ rest = {} /\ x.unsynced = tx[t].async
            /\ x.sync = tx[t].sync \cup tx[t].async /\ x.async = {}
  <2>1. CASE rest # {}
    BY <1>1, <1>2, <2>1 DEF TxType
  <2>2. CASE rest = {}
    BY <1>1, <1>2, <2>2 DEF TxType
  <2> QED
    BY <2>1, <2>2
<1>6. rest = {} => tx[t].unsynced = {n}
  BY <1>2
<1> HIDE DEF x
<1>7. tx'[t] = x /\ \A u \in TxId \ {t} : tx'[u] = tx[u]
  BY <1>2, TxUpdate
<1> QED
  BY <1>2, <1>3, <1>4, <1>5, <1>6, <1>7 DEF SyncsOne, p

(* SyncRound keeps the invariant: what is through was synced.              *)
LEMMA SyncRoundCInv ==
  ASSUME IInv, IInv', CInv, NEW t \in TxId, NEW n \in Node, SyncRound(t, n)
  PROVE  CInv'
<1>1. Calm /\ SyncsOne(t, n) /\ destroyed' = destroyed /\ attached' = attached
  BY SyncEffect DEF SyncRound
<1>2. Time /\ FlushesKept /\ \A m \in Node : Keeps(m)
  BY <1>1 DEF Calm
<1>3. \A u \in TxId \ {t} : TodoOK(u) /\ SameLists(u) /\ ResetFollows(u)
  BY <1>1, OthersSame DEF CInv, SyncsOne
<1>4. Sealed(t)' /\ Sealed(t)
  BY <1>1 DEF SyncsOne, Sealed
<1>5. TodoOK(t) /\ ResetFollows(t)
  <2>1. TodoOK(t)
    BY <1>1, <1>4, TodoKept DEF CInv, SyncsOne, Sealed
  <2>2. ResetFollows(t)
    BY <1>1 DEF ResetFollows, SyncsOne
  <2> QED
    BY <2>1, <2>2
<1>6. TagsOK'
  <2>1. \A u \in TxId : TodoOK(u) /\ tx'[u] \in TxType
    BY <1>3, <1>5 DEF IInv, TypeOK
  <2> QED
    BY <1>1, <1>2, <2>1, TagsCalm DEF CInv
<1>7. FlushesOK'
  BY <1>2, <1>3, <1>5, FlushesFollow DEF CInv
<1>8. StagedList(t) /\ tx[t].sync \cup tx[t].async \subseteq Node
  BY Numbers DEF CInv, StagedOK, TxType, Node
<1>9. StagedList(t)'
  <2>1. /\ tx'[t].unsynced \subseteq tx'[t].sync
        /\ tx'[t].unsynced # {} \/ tx'[t].async = {}
        /\ tx'[t].pc = "sealed" /\ tx'[t].postponed = {}
        /\ tx'[t].timestamp = tx[t].timestamp /\ tx[t].timestamp # 0
        /\ tx'[t].sync \cup tx'[t].async \subseteq tx[t].sync \cup tx[t].async
    BY <1>1, <1>4, <1>8 DEF SyncsOne, StagedList
  <2>2. \A m \in tx'[t].sync \cup tx'[t].async :
          Linked(m)' /\ Odd(Stamp(m)') /\ Stamp(m)' < tx'[t].timestamp
    BY <1>2, <1>4, <1>8, <2>1 DEF StagedList, Keeps
  <2> QED
    BY <1>4, <2>1, <2>2 DEF StagedList
<1>10. ASSUME NEW u \in TxId \ {t} PROVE StagedList(u)'
  <2>1. tx[u].sync \cup tx[u].async \subseteq Node
    BY Numbers DEF TxType, Node
  <2> QED
    BY <1>2, <1>3, <2>1, StagedListKept DEF CInv
<1>11. ASSUME NEW m \in Node PROVE StagedNode(m)'
  <2>1. ListFollows(t, m)
    BY <1>1, <1>4 DEF ListFollows, SyncsOne
  <2>2. ASSUME NEW g \in TxId \ {t} PROVE ListFollows(g, m)
    BY <1>3, SameFollows
  <2> QED
    BY <1>2, <2>1, <2>2, StagedNodeKept DEF CInv
<1>12. StagedOK'
  BY <1>9, <1>10, <1>11 DEF StagedOK
<1> QED
  BY <1>6, <1>7, <1>12 DEF CInv

(* A round of the commit loop gives n its commit timestamp.                *)
CommitsOne(t, n) ==
  /\ tx[t].pc = "sealed" /\ tx[t].unsynced = {} /\ n \in tx[t].sync
  /\ \A u \in TxId \ {t} : tx'[u] = tx[u]
  /\ tx'[t].pc = IF tx[t].sync = {n} THEN Returned(t) ELSE "sealed"
  /\ tx'[t].todo = tx[t].todo /\ tx'[t].postponed = tx[t].postponed
  /\ tx'[t].sync = tx[t].sync \ {n} /\ tx'[t].async = tx[t].async
  /\ tx'[t].unsynced = {} /\ tx'[t].timestamp = tx[t].timestamp
  /\ Linked(n)' /\ Stamp(n)' = tx[t].timestamp /\ Group(n)' = t

(* What a transaction may commit: n is staging, with a key behind the      *)
(* commit timestamp, which the queue of n has reached.                     *)
LEMMA CommitReady ==
  ASSUME IInv, CInv, NEW t \in TxId, tx[t].pc = "sealed",
         tx[t].unsynced = {}, NEW n \in tx[t].sync
  PROVE  /\ n \in Node /\ Group(n) = t /\ Linked(n) /\ Odd(Stamp(n))
         /\ Stamp(n) < tx[t].timestamp /\ tx[t].timestamp <= Clock(Dest[n])
         /\ tx[t].async = {}
<1>1. n \in Node /\ Sealed(t)
  BY Numbers DEF TxType, Sealed
<1>2. StagedList(t) /\ StagedNode(n) /\ Group(n) = t
  BY <1>1 DEF CInv, StagedOK, IInv, ListsOK
<1>3. /\ tx[t].async = {} /\ Linked(n) /\ Odd(Stamp(n)) /\ Stamp(n) < tx[t].timestamp
  BY <1>1, <1>2 DEF StagedList
<1> QED
  BY <1>1, <1>2, <1>3 DEF StagedNode

(* CommitRound stamps its node.                                            *)
LEMMA CommitEffect ==
  ASSUME IInv, CInv, NEW t \in TxId, NEW n \in Node, CommitRound(t, n)
  PROVE  Touches(n) /\ CommitsOne(t, n)
<1> DEFINE p == Dest[n]
           ts == tx[t].timestamp
           s == CommitStaged(queue[p], n, ts)
           x == [tx[t] EXCEPT !.sync = @ \ {n},
                   !.pc = IF tx[t].sync = {n} THEN Returned(t) ELSE @]
<1>1. /\ p \in Peer /\ n \in Mine(p) /\ ts \in Nat /\ ~Odd(ts)
      /\ QueueOK(queue[p], Mine(p)) /\ Mine(p) \in SUBSET (Nat \ {0})
      /\ tx[t] \in TxType
  BY Numbers, MineOK DEF IInv, KeysOK
<1>2. /\ tx[t].pc = "sealed" /\ tx[t].unsynced = {} /\ n \in tx[t].sync
      /\ queue' = [queue EXCEPT ![p] = s]
      /\ tx' = [tx EXCEPT ![t] = x]
  BY <1>1 DEF CommitRound, IInv, TypeOK
<1>3. /\ Group(n) = t /\ n \in queue[p].messages /\ Odd(queue[p].timestamp[n])
      /\ queue[p].timestamp[n] < ts /\ ts <= queue[p].clock
  BY <1>2, CommitReady DEF Linked, Stamp, Clock
<1>4. /\ queue[p].clock \in Nat /\ queue[p].timestamp[n] \in Nat
      /\ queue[p].timestamp \in [Mine(p) -> Nat]
  BY <1>1 DEF QueueOK, QueueType
<1>5. queue[p].timestamp[n] # 0
  BY SMTT(30), <1>3, <1>4 DEF Odd
<1>6. Advance(queue[p], s, Mine(p)) /\ AddOutcome(queue[p], s, n, ts)
  <2> HIDE DEF p, ts
  <2> QED BY <1>1, <1>5, CommitStagedOK
<1> HIDE DEF s
<1>7. ~Invalid(queue[p], n, ts) /\ queue[p].timestamp[n] # ts
  <2> HIDE DEF p, ts
  <2> QED BY SMTT(30), <1>1, <1>3, <1>4, <1>5 DEF Invalid, IsQueued
<1>8. /\ s.flush = queue[p].flush /\ s.group = queue[p].group
      /\ s.messages = queue[p].messages \cup {n}
      /\ s.timestamp = [queue[p].timestamp EXCEPT ![n] = ts]
  BY <1>6, <1>7 DEF AddOutcome
<1>9. OnlyNode(queue[p], s, Mine(p), n) /\ n \in s.messages /\ s.timestamp[n] = ts
  <2> HIDE DEF p, ts
  <2>1. s.timestamp[n] = ts /\ \A m \in Mine(p) \ {n} : s.timestamp[m] = queue[p].timestamp[m]
    BY <1>1, <1>4, <1>8
  <2> QED BY <1>8, <2>1 DEF OnlyNode
<1>10. /\ Touches(n) /\ Linked(n)' /\ Stamp(n)' = ts /\ Group(n)' = t
  <2>1. s.group[n] = t
    BY <1>3, <1>8 DEF Group
  <2> HIDE DEF p, ts
  <2> QED BY <1>1, <1>2, <1>6, <1>9, <2>1, OneTouched
<1>11. /\ x.pc = (IF tx[t].sync = {n} THEN Returned(t) ELSE "sealed")
       /\ x.todo = tx[t].todo /\ x.postponed = tx[t].postponed
       /\ x.sync = tx[t].sync \ {n} /\ x.async = tx[t].async
       /\ x.unsynced = tx[t].unsynced /\ x.timestamp = tx[t].timestamp
  BY <1>1, <1>2 DEF TxType
<1> HIDE DEF x
<1>12. tx'[t] = x /\ \A u \in TxId \ {t} : tx'[u] = tx[u]
  BY <1>2, TxUpdate
<1> QED
  BY <1>2, <1>10, <1>11, <1>12 DEF CommitsOne

(* A node of a transaction is tagged as before when it is committed.       *)
LEMMA TagsCommit ==
  ASSUME IInv, IInv', TagsOK, NEW n \in Node, \A m \in Node \ {n} : Keeps(m),
         Group(n) \in TxId, Group(n)' = Group(n), Stamp(n) # 0,
         destroyed' = destroyed, attached' = attached,
         \A u \in TxId : TodoOK(u)
  PROVE  TagsOK'
<1>1. /\ Data \subseteq Node /\ Anchor \subseteq Node /\ Remote \subseteq Node
      /\ destroyed \subseteq Anchor /\ NULL \notin TxId
  BY TransactionAssumption DEF Node, IInv, TypeOK, NULL
<1>2. \A m \in Node : Group(m)' = Group(m)
  BY DEF Keeps
<1>3. ASSUME NEW m \in Node \ {n}
      PROVE  /\ m \in Data => MessageTag(m)'
             /\ m \in Anchor => AnchorTag(m)'
             /\ m \in Remote => RemoteTag(m)'
  <2>1. \A a \in destroyed : Group(a)' = Group(a)
    BY <1>1, <1>2
  <2> QED
    BY <2>1, TagKept
<1>4. n \in Data => MessageTag(n)'
  BY <1>1 DEF TagsOK, MessageTag
<1>5. n \in Anchor => AnchorTag(n)'
  <2> HAVE n \in Anchor
  <2>1. Peer \cap TxId = {} /\ Dest[n] \in Peer
    BY MineOK, TransactionAssumption
  <2>2. Group(n) # NULL /\ Group(n) # Dest[n] /\ AnchorTag(n)
    BY <1>1, <2>1 DEF TagsOK
  <2> QED
    BY <2>2 DEF AnchorTag
<1>6. n \in Remote => RemoteTag(n)'
  BY <1>1, <1>2 DEF TagsOK, RemoteTag
<1>7. ASSUME NEW u \in TxId
      PROVE  PendingTags(u)'
  <2>1. tx'[u] \in TxType
    BY DEF IInv, TypeOK
  <2>2. n \notin tx'[u].todo \cap Data
    BY <1>1 DEF TodoOK
  <2>3. n \notin tx'[u].postponed
    BY DEF TodoOK, IInv, ListsOK, Untouched
  <2>4. tx'[u].pc = "idle" => n \notin Sends[u]
    BY DEF TodoOK, IInv, ListsOK, Untouched
  <2> QED
    BY <2>1, <2>2, <2>3, <2>4, PendingKept
<1> QED
  BY <1>1, <1>3, <1>4, <1>5, <1>6, <1>7 DEF TagsOK

(* CommitRound keeps the invariant.                                        *)
LEMMA CommitRoundCInv ==
  ASSUME IInv, IInv', CInv, NEW t \in TxId, NEW n \in Node, CommitRound(t, n)
  PROVE  CInv'
<1>1. Touches(n) /\ CommitsOne(t, n) /\ destroyed' = destroyed /\ attached' = attached
  BY CommitEffect DEF CommitRound
<1>2. Time /\ FlushesKept /\ \A m \in Node \ {n} : Keeps(m)
  BY <1>1 DEF Touches
<1>3. \A u \in TxId \ {t} : TodoOK(u) /\ SameLists(u) /\ ResetFollows(u)
  BY <1>1, OthersSame DEF CInv, CommitsOne
<1>4. /\ Group(n) = t /\ Odd(Stamp(n)) /\ Stamp(n) < tx[t].timestamp
      /\ tx[t].timestamp <= Clock(Dest[n]) /\ tx[t].async = {}
  BY <1>1, CommitReady DEF CommitsOne
<1>5. /\ tx'[t].pc \in {"sealed", "release", "done"} /\ Sealed(t)' /\ Sealed(t)
      /\ tx'[t].pc # "sealed" => tx[t].sync = {n}
  BY <1>1 DEF CommitsOne, Returned, Sealed
<1>6. TodoOK(t) /\ ResetFollows(t)
  <2>1. TodoOK(t)
    <3>1. tx'[t].pc # "idle"
      BY <1>5
    <3> QED
      BY <1>1, <3>1, TodoKept DEF CInv, CommitsOne
  <2>2. ResetFollows(t)
    BY <1>1 DEF ResetFollows, CommitsOne
  <2> QED
    BY <2>1, <2>2
<1>7. /\ Stamp(n) \in Nat /\ tx[t].timestamp \in Nat /\ ~Odd(tx[t].timestamp)
      /\ Stamp(n) # 0 /\ tx[t].timestamp # 0
  BY SMTT(30), <1>4, Numbers DEF Odd
<1>8. TagsOK'
  BY <1>1, <1>2, <1>3, <1>4, <1>6, <1>7, TagsCommit DEF CInv, CommitsOne
<1>9. FlushesOK'
  BY <1>2, <1>3, <1>6, FlushesFollow DEF CInv
<1>10. StagedList(t) /\ tx[t].sync \cup tx[t].async \subseteq Node
  BY Numbers DEF CInv, StagedOK, TxType, Node
<1>11. StagedList(t)'
  <2>1. /\ tx'[t].unsynced = {} /\ tx'[t].async = {} /\ tx'[t].sync = tx[t].sync \ {n}
        /\ tx'[t].pc # "open" /\ tx'[t].postponed = {}
        /\ tx'[t].pc # "sealed" => tx'[t].sync = {}
        /\ tx'[t].timestamp = tx[t].timestamp
    <3>1. /\ tx'[t].unsynced = {} /\ tx'[t].async = {} /\ tx'[t].sync = tx[t].sync \ {n}
          /\ tx'[t].timestamp = tx[t].timestamp /\ tx[t].pc = "sealed"
          /\ tx'[t].postponed = tx[t].postponed
      BY <1>1, <1>4 DEF CommitsOne
    <3>2. tx[t].postponed = {}
      BY <1>10, <3>1 DEF StagedList
    <3>3. tx'[t].pc # "open" /\ (tx'[t].pc # "sealed" => tx'[t].sync = {})
      BY <1>5, <3>1
    <3> QED
      BY <3>1, <3>2, <3>3
  <2>2. \A m \in tx'[t].sync \cup tx'[t].async :
          Linked(m)' /\ Odd(Stamp(m)') /\ Stamp(m)' < tx'[t].timestamp
    <3>1. \A m \in tx[t].sync :
            Linked(m) /\ Odd(Stamp(m)) /\ Stamp(m) < tx[t].timestamp /\ m \in Node
      BY <1>5, <1>10 DEF StagedList
    <3> QED
      BY <1>2, <2>1, <3>1 DEF Keeps
  <2>3. /\ tx'[t].unsynced \subseteq tx'[t].sync
        /\ tx'[t].pc \notin {"open", "sealed"} => tx'[t].sync = {} /\ tx'[t].async = {}
        /\ tx'[t].timestamp # 0
    BY <1>7, <2>1
  <2> QED
    BY <1>5, <2>1, <2>2, <2>3 DEF StagedList
<1>12. ASSUME NEW u \in TxId \ {t} PROVE StagedList(u)'
  <2>1. tx[u].sync \cup tx[u].async \subseteq Node \ {n}
    BY <1>4, Numbers, ListsOf DEF TxType, Node
  <2> QED
    BY <1>2, <1>3, <2>1, StagedListKept DEF CInv
<1>13. ASSUME NEW m \in Node \ {n} PROVE StagedNode(m)'
  <2>1. ListFollows(t, m)
    BY <1>1, <1>4, <1>5 DEF ListFollows, CommitsOne
  <2>2. ASSUME NEW g \in TxId \ {t} PROVE ListFollows(g, m)
    BY <1>3, SameFollows
  <2> QED
    BY <1>2, <2>1, <2>2, StagedNodeKept DEF CInv
<1>14. StagedNode(n)'
  <2>1. Clock(Dest[n]) <= Clock(Dest[n])' /\ Clock(Dest[n]) \in Nat /\ Clock(Dest[n])' \in Nat
    BY <1>2, MineOK DEF Time, IInv, TypeOK, QueueType, Clock
  <2>2. tx'[t].timestamp <= Clock(Dest[n])' /\ tx'[t].timestamp = tx[t].timestamp
    <3>1. tx'[t].timestamp = tx[t].timestamp
      BY <1>1 DEF CommitsOne
    <3> QED
      BY SMTT(30), <1>4, <1>7, <2>1, <3>1
  <2>3. Stamp(n)' = tx[t].timestamp /\ Group(n)' = t
    BY <1>1 DEF CommitsOne
  <2> QED
    BY <1>5, <1>7, <2>2, <2>3 DEF StagedNode, CommittedAt
<1>15. StagedOK'
  BY <1>11, <1>12, <1>13, <1>14 DEF StagedOK
<1> QED
  BY <1>8, <1>9, <1>15 DEF CInv

-----------------------------------------------------------------------------
(* Staging *)

(* Latest(t) is the latest time that t has seen on the queues it staged on. *)
Latest(t) == Later(tx[t].timestamp, tx[t].async_ts)

(* The open transaction t puts n on one of its lists.                      *)
Stages(t, n) ==
  /\ tx[t].pc = "open" /\ tx'[t].pc = "open"
  /\ \A u \in TxId \ {t} : tx'[u] = tx[u]
  /\ tx'[t].todo \subseteq tx[t].todo /\ n \notin tx'[t].todo \cap Data
  /\ tx'[t].postponed = tx[t].postponed \ {n}
  /\ tx'[t].unsynced = tx[t].unsynced
  /\ tx'[t].sync \cup tx'[t].async = tx[t].sync \cup tx[t].async \cup {n}
  /\ tx[t].timestamp <= tx'[t].timestamp /\ Latest(t) <= Latest(t)'
  /\ Linked(n)' /\ Odd(Stamp(n)') /\ Group(n)' = t
  /\ Stamp(n)' <= Latest(t)' + 1

(* A node that was not in use is staged.                                   *)
LEMMA StagesCInv ==
  ASSUME IInv, IInv', CInv, NEW t \in TxId, NEW n \in Data \cup Remote,
         Touches(n), Stages(t, n), Untouched(n), NodeTag(n),
         destroyed' = destroyed, attached \subseteq attached',
         \A u \in TxId \ {t} : n \notin tx[u].postponed
  PROVE  CInv'
<1>1. n \in Node /\ n \notin Anchor
  BY TransactionAssumption DEF Node, Handle
<1>2. Time /\ FlushesKept /\ \A m \in Node \ {n} : Keeps(m)
  BY DEF Touches
<1>3. \A u \in TxId \ {t} : TodoOK(u) /\ SameLists(u) /\ ResetFollows(u)
  BY OthersSame DEF CInv, Stages
<1>4. tx[t].pc = "open" /\ tx'[t].pc = "open" /\ ~Sealed(t) /\ ~Sealed(t)'
  BY DEF Stages, Sealed
<1>5. TodoOK(t) /\ ResetFollows(t)
  <2>1. TodoOK(t)
    BY <1>4, TodoKept DEF CInv, Stages
  <2>2. ResetFollows(t)
    BY <1>4 DEF ResetFollows
  <2> QED
    BY <2>1, <2>2
<1>6. TagsOK'
  <2>1. ASSUME NEW u \in TxId
        PROVE  /\ TodoOK(u) /\ tx'[u] \in TxType
               /\ n \notin tx'[u].todo \cap Data
               /\ n \notin tx'[u].postponed
               /\ tx'[u].pc = "idle" => n \notin Sends[u]
    <3>1. TodoOK(u) /\ tx'[u] \in TxType
      BY <1>3, <1>5 DEF IInv, TypeOK
    <3>2. CASE u = t
      BY <1>4, <3>1, <3>2 DEF Stages
    <3>3. CASE u # t
      <4>1. n \in Data => n \notin Sends[u]
        BY <3>3, TransactionAssumption DEF NodeTag, Stages
      <4>2. tx'[u].todo \cap Data \subseteq Sends[u] /\ Sends[u] \subseteq Data
        BY TransactionAssumption DEF IInv, ListsOK
      <4> QED
        BY <3>1, <3>3, <4>1, <4>2 DEF Stages
    <3> QED
      BY <3>2, <3>3
  <2> QED
    BY <1>1, <1>2, <2>1, TagsNode DEF CInv
<1>7. FlushesOK'
  BY <1>2, <1>3, <1>5, FlushesFollow DEF CInv
<1>8. \A u \in TxId : tx[u].sync \cup tx[u].async \subseteq Node \ {n}
  BY Numbers, UntouchedUnlisted DEF TxType, Node
<1>9. StagedList(t)'
  <2>1. StagedList(t)
    BY DEF CInv, StagedOK
  <2>2. tx'[t].unsynced = {}
    BY <1>4, <2>1 DEF StagedList, Stages
  <2>3. Latest(t) \in Nat /\ Latest(t)' \in Nat /\ Latest(t) <= Latest(t)'
    <3>1. Latest(t) \in Nat /\ Latest(t)' \in Nat
      BY DEF IInv, TypeOK, TxType, Latest, Later
    <3> QED
      BY <3>1 DEF Stages
  <2>4. ASSUME NEW m \in tx[t].sync \cup tx[t].async
        PROVE  Linked(m)' /\ Odd(Stamp(m)') /\ Stamp(m)' <= Latest(t)' + 1
    <3>1. Linked(m) /\ Odd(Stamp(m)) /\ Stamp(m) <= Latest(t) + 1 /\ m \in Node
      BY <1>4, <1>8, <2>1 DEF StagedList, Latest
    <3>2. Stamp(m) <= Latest(t)' + 1
      <4>1. Stamp(m) \in Nat
        BY <3>1, Numbers
      <4> QED
        BY SMTT(30), <2>3, <3>1, <4>1
    <3> QED
      BY <1>2, <1>8, <3>1, <3>2 DEF Keeps
  <2>5. \A m \in tx'[t].sync \cup tx'[t].async :
          Linked(m)' /\ Odd(Stamp(m)') /\ Stamp(m)' <= Latest(t)' + 1
    BY <2>4 DEF Stages
  <2> QED
    BY <1>4, <2>2, <2>5 DEF StagedList, Latest
<1>10. ASSUME NEW u \in TxId \ {t} PROVE StagedList(u)'
  BY <1>2, <1>3, <1>8, StagedListKept DEF CInv
<1>11. ASSUME NEW m \in Node \ {n} PROVE StagedNode(m)'
  <2>1. ListFollows(t, m)
    BY <1>4 DEF ListFollows, Stages
  <2>2. ASSUME NEW g \in TxId \ {t} PROVE ListFollows(g, m)
    BY <1>3, SameFollows
  <2> QED
    BY <1>2, <2>1, <2>2, StagedNodeKept DEF CInv
<1>12. StagedNode(n)'
  <2>1. Odd(Stamp(n)') /\ Group(n)' = t /\ n \in tx'[t].sync \cup tx'[t].async
    BY DEF Stages
  <2>2. Stamp(n)' # 0
    BY SMTT(30), <2>1 DEF Odd
  <2> QED
    BY <1>4, <2>1, <2>2 DEF StagedNode
<1>13. StagedOK'
  BY <1>9, <1>10, <1>11, <1>12 DEF StagedOK
<1> QED
  BY <1>6, <1>7, <1>13 DEF CInv

(* bus1_tx_stage() of n for t on the queue of p, which leaves s behind     *)
StagedOn(t, p, n, ts, s) ==
  /\ s = TxStage(queue[p], t, n, ts)
  /\ queue' = [queue EXCEPT ![p] = s]

(* Only n is changed.                                                      *)
LEMMA StageTouches ==
  ASSUME IInv, NEW t \in TxId, NEW p \in Peer, NEW n \in Mine(p), Untouched(n),
         NEW ts \in Nat, ~Odd(ts), NEW s, StagedOn(t, p, n, ts, s)
  PROVE  /\ Touches(n) /\ Linked(n)' /\ Odd(Stamp(n)') /\ Group(n)' = t
         /\ s.clock \in Nat /\ ts <= s.clock /\ Stamp(n)' = s.clock + 1
<1>1. QueueOK(queue[p], Mine(p)) /\ Mine(p) \in SUBSET (Nat \ {0})
  BY MineOK DEF IInv, KeysOK
<1>2. n \notin queue[p].messages /\ queue[p].timestamp[n] = 0
  BY MineOK DEF Untouched, Linked, Stamp
<1>3. TxStageOutcome(queue[p], s, Mine(p), n, t) /\ s.clock = Later(queue[p].clock, ts)
  BY SMTT(30), <1>1, <1>2, TxStageOK DEF StagedOn
<1>4. /\ Touches(n) /\ Linked(n)' /\ Stamp(n)' = s.timestamp[n] /\ Group(n)' = t
  <2>1. /\ Advance(queue[p], s, Mine(p)) /\ OnlyNode(queue[p], s, Mine(p), n)
        /\ n \in s.messages /\ s.group[n] = t
    BY <1>3 DEF TxStageOutcome
  <2> QED
    BY <2>1, OneTouched DEF StagedOn
<1>5. queue[p].clock \in Nat
  BY <1>1 DEF QueueOK, QueueType
<1>6. ts <= s.clock
  BY SMTT(30), <1>3, <1>5 DEF Later
<1> QED
  BY <1>3, <1>4, <1>6 DEF TxStageOutcome

(* A node of the transaction that its caller stages itself, or that        *)
(* bus1_tx_commit() stages for it                                          *)
LEMMA StageSyncEffect ==
  ASSUME IInv, NEW t \in TxId, NEW n \in Node, tx[t].pc = "open",
         n \in tx[t].todo \cap Data \/ n \in tx[t].postponed,
         StageSync(t, n, queue[Dest[n]])
  PROVE  /\ Untouched(n) /\ n \in Data \cup Remote
         /\ Touches(n) /\ Stages(t, n)
         /\ tx'[t].timestamp = Clock(Dest[n])'
<1>1. /\ tx[t] \in TxType /\ tx[t].timestamp \in Nat /\ ~Odd(tx[t].timestamp)
      /\ tx[t].async_ts \in Nat
  BY Numbers
<1>2. Untouched(n) /\ n \in Data \cup Remote
  BY <1>1 DEF IInv, ListsOK, TxType
<1> DEFINE p == Dest[n]
           ts == tx[t].timestamp
           s == TxStage(queue[p], t, n, ts)
           x == [tx[t] EXCEPT !.sync = @ \cup {n}, !.timestamp = s.clock,
                              !.todo = @ \ {n}, !.postponed = @ \ {n}]
<1>3. /\ queue' = [queue EXCEPT ![p] = s]
      /\ tx' = [tx EXCEPT ![t] = x]
  BY DEF StageSync, IInv, TypeOK
<1>4. /\ x.pc = tx[t].pc /\ x.todo = tx[t].todo \ {n}
      /\ x.postponed = tx[t].postponed \ {n}
      /\ x.sync = tx[t].sync \cup {n} /\ x.async = tx[t].async
      /\ x.unsynced = tx[t].unsynced
      /\ x.timestamp = s.clock /\ x.async_ts = tx[t].async_ts
  BY <1>1 DEF TxType
<1> HIDE DEF x
<1>5. tx'[t] = x /\ \A u \in TxId \ {t} : tx'[u] = tx[u]
  BY <1>3, TxUpdate
<1>6. /\ Touches(n) /\ Linked(n)' /\ Odd(Stamp(n)') /\ Group(n)' = t
      /\ s.clock \in Nat /\ ts <= s.clock /\ Stamp(n)' = s.clock + 1
  <2>1. p \in Peer /\ n \in Mine(p)
    BY MineOK
  <2>2. StagedOn(t, p, n, ts, s) /\ ts \in Nat /\ ~Odd(ts)
    BY <1>1, <1>3 DEF StagedOn
  <2> HIDE DEF p, s, ts
  <2> QED
    BY <1>2, <2>1, <2>2, StageTouches
<1> HIDE DEF s
<1>7. Latest(t) <= Latest(t)' /\ Stamp(n)' <= Latest(t)' + 1
  <2>1. Latest(t)' = Later(s.clock, tx[t].async_ts)
    BY <1>4, <1>5 DEF Latest
  <2> QED
    BY SMTT(30), <1>1, <1>6, <2>1 DEF Latest, Later
<1>8. Stages(t, n)
  BY <1>4, <1>5, <1>6, <1>7 DEF Stages
<1>9. Clock(p)' = s.clock
  <2>1. p \in Peer /\ DOMAIN queue = Peer
    BY MineOK DEF IInv, TypeOK
  <2> QED
    BY <1>3, <2>1 DEF Clock
<1> QED
  BY <1>2, <1>4, <1>5, <1>6, <1>8, <1>9

(* That keeps the invariant.                                               *)
LEMMA StageSyncCInv ==
  ASSUME IInv, IInv', CInv, NEW t \in TxId, NEW n \in Node, tx[t].pc = "open",
         n \in tx[t].todo \cap Data \/ n \in tx[t].postponed,
         StageSync(t, n, queue[Dest[n]]),
         destroyed' = destroyed, attached' = attached
  PROVE  CInv'
<1>1. tx[t] \in TxType
  BY Numbers
<1>2. Untouched(n) /\ n \in Data \cup Remote /\ Touches(n) /\ Stages(t, n)
  BY StageSyncEffect
<1>3. Linked(n)' /\ Odd(Stamp(n)') /\ Group(n)' = t
  BY <1>2 DEF Stages
<1>4. n \in Data => n \in tx[t].todo \cap Data
  BY <1>1, TransactionAssumption DEF TxType, Handle
<1>5. n \in Remote => n \in tx[t].postponed
  BY TransactionAssumption DEF Handle
<1>6. n \notin Anchor
  BY <1>2, TransactionAssumption DEF Handle
<1>7. NodeTag(n)
  <2>1. PendingTags(t)
    BY DEF CInv, TagsOK
  <2>2. n \in Data => n \in Sends[t] /\ Kind[t] = "send"
    BY <1>4, <2>1 DEF PendingTags, IInv, ListsOK
  <2>3. n \in Remote =>
          n \in attached' /\ NodeOf[n] \in destroyed /\ t = Group(NodeOf[n])
    <3> HAVE n \in Remote
    <3>1. Group(n) = t /\ t # NULL
      BY <1>5, <2>1, TransactionAssumption DEF PendingTags, NULL
    <3> QED
      BY <3>1 DEF CInv, TagsOK, RemoteTag
  <2> QED
    BY <1>3, <1>6, <2>2, <2>3 DEF NodeTag
<1>8. \A u \in TxId \ {t} : n \notin tx[u].postponed
  <2> TAKE u \in TxId \ {t}
  <2>1. tx[u].postponed \subseteq Remote /\ tx[t].postponed \cap tx[u].postponed = {}
    BY Numbers DEF TxType, IInv, ListsOK
  <2> QED
    BY <1>5, <2>1
<1> QED
  BY <1>2, <1>7, <1>8, StagesCInv

(* StageMessage and StageRound keep the invariant.                         *)
LEMMA StageMessageCInv ==
  ASSUME IInv, IInv', CInv, NEW t \in TxId, NEW n \in Node, StageMessage(t, n)
  PROVE  CInv'
BY StageSyncCInv DEF StageMessage

LEMMA StageRoundCInv ==
  ASSUME IInv, IInv', CInv, NEW t \in TxId, NEW n \in Node, StageRound(t, n)
  PROVE  CInv'
BY StageSyncCInv DEF StageRound

-----------------------------------------------------------------------------
(* Destruction *)

Collected(a) == {r \in attached : NodeOf[r] = a}

(* t stages the anchor a and tags the handles attached to it.              *)
DestroysOne(t, a) ==
  /\ tx[t].pc = "open" /\ tx'[t].pc = "open" /\ a \in tx[t].todo
  /\ \A u \in TxId \ {t} : tx'[u] = tx[u]
  /\ tx'[t].todo = tx[t].todo \ {a}
  /\ tx'[t].postponed = tx[t].postponed \cup Collected(a)
  /\ tx'[t].unsynced = tx[t].unsynced
  /\ tx'[t].sync = tx[t].sync \cup {a} /\ tx'[t].async = tx[t].async
  /\ tx'[t].timestamp = Clock(Dest[a])'
  /\ tx[t].timestamp <= tx'[t].timestamp /\ Latest(t) <= Latest(t)'
  /\ Linked(a)' /\ Odd(Stamp(a)') /\ Group(a)' = t
  /\ Stamp(a)' <= Latest(t)' + 1
  /\ \A r \in Collected(a) : Group(r)' = t /\ Untouched(r)'
  /\ \A m \in Node \ (Collected(a) \cup {a}) : Keeps(m)
  /\ Time /\ FlushesKept

(* No handle attached to a live anchor is in use, so the check of          *)
(* bus1_tx_push() is never met.                                            *)
LEMMA CollectedUnused ==
  ASSUME IInv, CInv, NEW a \in Anchor, a \notin destroyed
  PROVE  \A r \in Collected(a) :
           /\ r \in Remote /\ r \in Node /\ r # a /\ Dest[r] # Dest[a]
           /\ Group(r) = NULL /\ Untouched(r)
<1> TAKE r \in Collected(a)
<1>1. r \in attached /\ NodeOf[r] = a
  BY DEF Collected
<1>2. r \in Remote /\ r \in Node /\ Dest[r] # Dest[a]
  BY <1>1, TransactionAssumption DEF IInv, TypeOK, Node
<1>3. Group(r) = NULL
  BY <1>1, <1>2 DEF CInv, TagsOK, RemoteTag
<1> QED
  BY <1>1, <1>2, <1>3 DEF CInv, TagsOK, RemoteTag

(* The queue of the owner                                                  *)
LEMMA RenewStage ==
  ASSUME IInv, NEW t \in TxId, NEW p \in Peer, NEW a \in Mine(p),
         NEW c \in BOOLEAN, NEW ts \in Nat, ~Odd(ts), NEW i,
         i = (IF IsQueued(queue[p], a) THEN Remove(queue[p], a) ELSE queue[p]),
         NEW s, s = TxStage(NodeInit(Warn(i, c), a), t, a, ts)
  PROVE  /\ Advance(queue[p], s, Mine(p)) /\ OnlyNode(queue[p], s, Mine(p), a)
         /\ s.group[a] = t /\ Odd(s.timestamp[a]) /\ a \in s.messages
         /\ s.clock \in Nat /\ ts <= s.clock /\ s.timestamp[a] = s.clock + 1
<1> DEFINE q == NodeInit(Warn(i, c), a)
<1>1. QueueOK(queue[p], Mine(p)) /\ Mine(p) \in SUBSET (Nat \ {0})
  BY MineOK DEF IInv, KeysOK
<1>2. /\ Advance(queue[p], q, Mine(p)) /\ OnlyNode(queue[p], q, Mine(p), a)
      /\ a \notin q.messages /\ q.timestamp[a] = 0
  BY SMTT(30), <1>1, RenewOK
<1>3. QueueOK(q, Mine(p)) /\ s = TxStage(q, t, a, ts)
  BY <1>2 DEF Advance
<1> HIDE DEF q
<1>4. TxStageOutcome(q, s, Mine(p), a, t) /\ s.clock = Later(q.clock, ts)
  BY SMTT(30), <1>1, <1>2, <1>3, TxStageOK
<1>5. /\ Advance(queue[p], s, Mine(p)) /\ OnlyNode(queue[p], s, Mine(p), a)
  <2>1. Advance(q, s, Mine(p)) /\ OnlyNode(q, s, Mine(p), a)
    BY <1>4 DEF TxStageOutcome
  <2>2. Advance(queue[p], s, Mine(p))
    BY <1>1, <1>2, <1>3, <2>1, AdvanceTransitive
  <2>3. OnlyNode(queue[p], s, Mine(p), a)
    BY <1>2, <2>1 DEF OnlyNode
  <2> QED
    BY <2>2, <2>3
<1>6. q.clock \in Nat
  BY <1>3 DEF QueueOK, QueueType
<1>7. ts <= s.clock
  BY SMTT(30), <1>4, <1>6 DEF Later
<1> QED
  BY <1>4, <1>5, <1>7 DEF TxStageOutcome

(* DestroyLocked stages the anchor and tags its handles.                   *)
LEMMA DestroyEffect ==
  ASSUME IInv, CInv, NEW t \in TxId, NEW a \in Node, DestroyLocked(t, a)
  PROVE  /\ DestroysOne(t, a) /\ a \in Anchor /\ a \notin destroyed
         /\ Dest[a] = Origin[t] /\ Kind[t] # "send"
         /\ destroyed' = destroyed \cup {a} /\ attached' = attached
<1> DEFINE p == Origin[t]
           i == IF IsQueued(queue[p], a) THEN Remove(queue[p], a) ELSE queue[p]
           remotes == {r \in attached : NodeOf[r] = a}
           used == {r \in remotes : queue[Dest[r]].group[r] # NULL}
           bad == used # {}
           ts == tx[t].timestamp
           s == TxStage(NodeInit(Warn(i, bad), a), t, a, ts)
           new == remotes \ used
           x == [tx[t] EXCEPT !.sync = @ \cup {a}, !.timestamp = s.clock,
                              !.todo = @ \ {a}, !.postponed = @ \cup new]
<1>1. /\ a \in tx[t].todo \cap Anchor /\ tx[t].pc = "open"
      /\ Dest[a] = p /\ a \notin destroyed
  BY DEF DestroyLocked, IInv, ListsOK
<1>2. /\ p \in Peer /\ a \in Mine(p) /\ tx \in [TxId -> TxType] /\ tx[t] \in TxType
      /\ ts \in Nat /\ ~Odd(ts) /\ tx[t].async_ts \in Nat /\ t \in Nat
  BY <1>1, MineOK, Numbers, TransactionAssumption DEF IInv, TypeOK
<1>3. /\ queue' = [y \in Peer |-> IF y = p THEN s
                                  ELSE SetGroups(queue[y], new, t)]
      /\ tx' = [tx EXCEPT ![t] = x]
      /\ destroyed' = destroyed \cup {a} /\ attached' = attached
  BY <1>2 DEF DestroyLocked
<1>4. Kind[t] # "send"
  BY <1>1 DEF CInv, TagsOK, PendingTags
<1>5. /\ Advance(queue[p], s, Mine(p)) /\ OnlyNode(queue[p], s, Mine(p), a)
      /\ s.group[a] = t /\ Odd(s.timestamp[a]) /\ a \in s.messages
      /\ s.clock \in Nat /\ ts <= s.clock /\ s.timestamp[a] = s.clock + 1
  <2>1. bad \in BOOLEAN
    OBVIOUS
  <2>2. /\ i = (IF IsQueued(queue[p], a) THEN Remove(queue[p], a) ELSE queue[p])
        /\ s = TxStage(NodeInit(Warn(i, bad), a), t, a, ts)
    OBVIOUS
  <2> HIDE DEF bad, p, ts, i, s
  <2> QED BY SMTT(30), <1>2, <2>1, <2>2, RenewStage
<1> HIDE DEF s
<1>6. \A r \in Collected(a) : /\ r \in Remote /\ r \in Node /\ r # a /\ Dest[r] # p
                              /\ Group(r) = NULL /\ Untouched(r)
  BY <1>1, CollectedUnused
<1>7. new = Collected(a)
  <2>1. remotes = Collected(a)
    BY DEF Collected
  <2>2. used = {}
    BY <1>6, <2>1 DEF Group
  <2> QED
    BY <2>1, <2>2
<1> HIDE DEF new
<1>8. /\ x.sync = tx[t].sync \cup {a} /\ x.timestamp = s.clock
      /\ x.todo = tx[t].todo \ {a} /\ x.postponed = tx[t].postponed \cup new
      /\ x.pc = "open" /\ x.async = tx[t].async /\ x.async_ts = tx[t].async_ts
      /\ x.unsynced = tx[t].unsynced
  BY <1>1, <1>2 DEF TxType
<1> HIDE DEF x
<1>9. tx'[t] = x /\ \A u \in TxId \ {t} : tx'[u] = tx[u]
  BY <1>3, TxUpdate
<1>10. Latest(t) <= Latest(t)' /\ s.clock + 1 <= Latest(t)' + 1
  <2>1. Latest(t)' = Later(s.clock, tx[t].async_ts)
    BY <1>8, <1>9 DEF Latest
  <2> QED
    BY SMTT(30), <1>2, <1>5, <2>1 DEF Latest, Later
<1>11. queue'[p] = s /\ \A y \in Peer \ {p} : queue'[y] = SetGroups(queue[y], new, t)
  BY <1>2, <1>3
<1>12. ASSUME NEW y \in Peer \ {p}
       PROVE  /\ queue'[y].clock = queue[y].clock /\ queue'[y].flush = queue[y].flush
              /\ queue'[y].messages = queue[y].messages
              /\ queue'[y].timestamp = queue[y].timestamp
              /\ \A m \in Mine(y) : queue'[y].group[m] =
                                      IF m \in new THEN t ELSE queue[y].group[m]
  <2>1. queue[y] \in QueueType(Mine(y))
    BY DEF IInv, TypeOK
  <2> DEFINE f == [m \in DOMAIN queue[y].group |->
                     IF m \in new THEN t ELSE queue[y].group[m]]
  <2>2. queue'[y] = [queue[y] EXCEPT !.group = f]
    BY <1>11 DEF SetGroups
  <2>3. \A m \in Mine(y) : f[m] = IF m \in new THEN t ELSE queue[y].group[m]
    BY <2>1 DEF QueueType
  <2> HIDE DEF f
  <2>4. /\ queue'[y].clock = queue[y].clock /\ queue'[y].flush = queue[y].flush
        /\ queue'[y].messages = queue[y].messages
        /\ queue'[y].timestamp = queue[y].timestamp /\ queue'[y].group = f
    BY <2>1, <2>2 DEF QueueType
  <2> QED
    BY <2>3, <2>4
<1>13. Linked(a)' /\ Odd(Stamp(a)') /\ Group(a)' = t /\ Stamp(a)' = s.clock + 1
  BY <1>1, <1>5, <1>11 DEF Linked, Stamp, Group
<1>14. ASSUME NEW r \in Collected(a) PROVE Group(r)' = t /\ Untouched(r)'
  <2>1. Dest[r] \in Peer \ {p} /\ r \in Mine(Dest[r])
    BY <1>6, MineOK
  <2> QED
    BY <1>6, <1>7, <1>12, <2>1 DEF Untouched, Linked, Stamp, Group
<1>15. ASSUME NEW m \in Node \ (Collected(a) \cup {a}) PROVE Keeps(m)
  <2>1. Dest[m] \in Peer /\ m \in Mine(Dest[m])
    BY MineOK
  <2>2. CASE Dest[m] = p
    BY <1>5, <1>11, <2>1, <2>2 DEF OnlyNode, Keeps, Linked, Stamp, Group
  <2>3. CASE Dest[m] # p
    BY <1>7, <1>12, <2>1, <2>3 DEF Keeps, Linked, Stamp, Group
  <2> QED
    BY <2>2, <2>3
<1>16. Time
  <2>1. \A y \in Peer : queue[y].clock \in Nat
    BY Numbers DEF Clock
  <2>2. queue[p].clock <= s.clock
    BY <1>5 DEF Advance
  <2> QED
    BY SMTT(30), <1>11, <1>12, <2>1, <2>2 DEF Time, Clock
<1>17. FlushesKept
  BY <1>5, <1>11, <1>12 DEF FlushesKept, OnlyNode
<1>18. tx'[t].timestamp = Clock(Dest[a])' /\ tx[t].timestamp <= tx'[t].timestamp
  BY <1>1, <1>5, <1>8, <1>9, <1>11 DEF Clock
<1>19. DestroysOne(t, a)
  BY <1>18, <1>1, <1>7, <1>8, <1>9, <1>10, <1>13, <1>14, <1>15, <1>16, <1>17
     DEF DestroysOne
<1> QED
  BY <1>1, <1>3, <1>4, <1>19

(* The tags after a destruction                                            *)
LEMMA DestroyTags ==
  ASSUME IInv, CInv, NEW t \in TxId, NEW a \in Anchor, a \notin destroyed,
         DestroysOne(t, a), Dest[a] = Origin[t], Kind[t] # "send",
         destroyed' = destroyed \cup {a}, attached' = attached
  PROVE  TagsOK'
<1>1. \A r \in Collected(a) : /\ r \in Remote /\ r \in Node /\ r # a
                              /\ Group(r) = NULL /\ Untouched(r)
  BY CollectedUnused
<1>2. /\ Data \subseteq Node /\ Anchor \subseteq Node /\ Remote \subseteq Node
      /\ Data \cap Anchor = {} /\ Data \cap Remote = {} /\ Anchor \cap Remote = {}
      /\ destroyed \subseteq Anchor /\ t # NULL
  BY TransactionAssumption DEF Node, Handle, IInv, TypeOK, NULL
<1>3. /\ \A m \in Node \ (Collected(a) \cup {a}) : Keeps(m)
      /\ Group(a)' = t /\ \A r \in Collected(a) : Group(r)' = t
  BY DEF DestroysOne
<1>4. \A b \in Anchor \ {a} : b \in Node \ (Collected(a) \cup {a})
  BY <1>1, <1>2
<1>5. ASSUME NEW n \in Node \ (Collected(a) \cup {a})
      PROVE  /\ n \in Data => MessageTag(n)'
             /\ n \in Anchor => AnchorTag(n)'
             /\ n \in Remote => RemoteTag(n)'
  <2>1. \A b \in destroyed : Group(b)' = Group(b)
    BY <1>2, <1>3, <1>4 DEF Keeps
  <2>2. n \in destroyed' <=> n \in destroyed
    OBVIOUS
  <2> QED
    BY <1>3, <2>1, <2>2, TagKept DEF CInv
<1>6. AnchorTag(a)'
  BY <1>3 DEF AnchorTag
<1>7. ASSUME NEW r \in Collected(a) PROVE RemoteTag(r)'
  <2>1. r \in attached' /\ NodeOf[r] = a /\ a \in destroyed'
    BY DEF Collected
  <2>2. Group(r)' = Group(a)' /\ Group(r)' # NULL
    BY <1>2, <1>3
  <2> QED
    BY <2>1, <2>2 DEF RemoteTag
<1>8. \A n \in Node : n \notin Collected(a) /\ n # a => Group(n)' = Group(n)
  BY <1>3 DEF Keeps
<1>9. \A n \in Data : Group(n)' = Group(n)
  BY <1>1, <1>2, <1>8
<1>10. ASSUME NEW u \in TxId PROVE PendingTags(u)'
  <2>1. PendingTags(u)
    BY DEF CInv, TagsOK
  <2>2. tx'[u].todo \subseteq tx[u].todo /\ (tx'[u].pc = "idle" => tx[u].pc = "idle")
    <3>1. CASE u = t
      <4>1. tx'[u].pc # "idle"
        BY <3>1 DEF DestroysOne
      <4> QED
        BY <3>1, <4>1 DEF DestroysOne
    <3>2. CASE u # t
      BY <3>2 DEF DestroysOne
    <3> QED
      BY <3>1, <3>2
  <2>3. Sends[u] \subseteq Data /\ u # NULL
    BY TransactionAssumption DEF NULL
  <2>4. \A r \in tx'[u].postponed : Group(r)' = u
    <3>1. ASSUME NEW r \in tx[u].postponed PROVE Group(r)' = u
      <4>1. Group(r) = u /\ r \in Remote
        BY <2>1, Numbers DEF PendingTags, TxType
      <4> QED
        BY <1>1, <1>2, <1>8, <2>3, <4>1
    <3>2. CASE u = t
      BY <1>3, <3>1, <3>2 DEF DestroysOne
    <3>3. CASE u # t
      BY <3>1, <3>3 DEF DestroysOne
    <3> QED
      BY <3>2, <3>3
  <2> QED
    BY <1>9, <2>1, <2>2, <2>3, <2>4 DEF PendingTags
<1>11. \A n \in Data : MessageTag(n)'
  BY <1>1, <1>2, <1>5
<1>12. \A b \in Anchor : AnchorTag(b)'
  BY <1>4, <1>5, <1>6
<1>13. \A r \in Remote : RemoteTag(r)'
  BY <1>2, <1>5, <1>7
<1> QED
  BY <1>10, <1>11, <1>12, <1>13 DEF TagsOK

(* DestroyLocked keeps the invariant.                                      *)
LEMMA DestroyLockedCInv ==
  ASSUME IInv, IInv', CInv, NEW t \in TxId, NEW a \in Node, DestroyLocked(t, a)
  PROVE  CInv'
<1>1. /\ DestroysOne(t, a) /\ a \in Anchor /\ a \notin destroyed
      /\ Dest[a] = Origin[t] /\ Kind[t] # "send"
      /\ destroyed' = destroyed \cup {a} /\ attached' = attached
  BY DestroyEffect
<1>2. TagsOK'
  BY <1>1, DestroyTags
<1>3. /\ Time /\ FlushesKept
      /\ \A m \in Node \ (Collected(a) \cup {a}) : Keeps(m)
  BY <1>1 DEF DestroysOne
<1>4. \A u \in TxId \ {t} : SameLists(u) /\ ResetFollows(u)
  BY <1>1, OthersSame DEF CInv, DestroysOne
<1>5. tx[t].pc = "open" /\ tx'[t].pc = "open" /\ ~Sealed(t) /\ ~Sealed(t)'
  BY <1>1 DEF DestroysOne, Sealed
<1>6. FlushesOK'
  <2>1. ResetFollows(t)
    BY <1>5 DEF ResetFollows
  <2> QED
    BY <1>3, <1>4, <2>1, FlushesFollow DEF CInv
<1>7. ASSUME NEW u \in TxId, NEW m \in tx[u].sync \cup tx[u].async
      PROVE  m \in Node /\ Keeps(m)
  <2>1. m \in Node /\ Stamp(m) # 0 /\ (m \in Anchor => m \in destroyed)
    BY ListsOf DEF TxType, Node
  <2>2. m # a /\ m \notin Collected(a)
    BY <1>1, <2>1, CollectedUnused DEF Untouched
  <2> QED
    BY <1>3, <2>1, <2>2
<1>8. StagedList(t)'
  <2>1. StagedList(t)
    BY DEF CInv, StagedOK
  <2>2. tx'[t].unsynced = {}
    BY <1>1, <1>5, <2>1 DEF StagedList, DestroysOne
  <2>3. Latest(t) \in Nat /\ Latest(t)' \in Nat /\ Latest(t) <= Latest(t)'
    <3>1. Latest(t) \in Nat /\ Latest(t)' \in Nat
      BY DEF IInv, TypeOK, TxType, Latest, Later
    <3> QED
      BY <1>1, <3>1 DEF DestroysOne
  <2>4. ASSUME NEW m \in tx[t].sync \cup tx[t].async
        PROVE  Linked(m)' /\ Odd(Stamp(m)') /\ Stamp(m)' <= Latest(t)' + 1
    <3>1. /\ Linked(m) /\ Odd(Stamp(m)) /\ Stamp(m) <= Latest(t) + 1 /\ m \in Node
          /\ Keeps(m)
      BY <1>5, <1>7, <2>1 DEF StagedList, Latest
    <3>2. Stamp(m) <= Latest(t)' + 1
      <4>1. Stamp(m) \in Nat
        BY <3>1, Numbers
      <4> QED
        BY SMTT(30), <2>3, <3>1, <4>1
    <3> QED
      BY <3>1, <3>2 DEF Keeps
  <2>5. \A m \in tx'[t].sync \cup tx'[t].async :
          Linked(m)' /\ Odd(Stamp(m)') /\ Stamp(m)' <= Latest(t)' + 1
    BY <1>1, <2>4 DEF DestroysOne
  <2> QED
    BY <1>5, <2>2, <2>5 DEF StagedList, Latest
<1>9. ASSUME NEW u \in TxId \ {t} PROVE StagedList(u)'
  BY <1>4, <1>7, StagedListKept DEF CInv
<1>10. ASSUME NEW m \in Node \ (Collected(a) \cup {a}) PROVE StagedNode(m)'
  <2>1. ListFollows(t, m)
    BY <1>1, <1>5 DEF ListFollows, DestroysOne
  <2>2. ASSUME NEW g \in TxId \ {t} PROVE ListFollows(g, m)
    BY <1>4, SameFollows
  <2> QED
    BY <1>3, <2>1, <2>2, StagedNodeKept DEF CInv
<1>11. StagedNode(a)'
  <2>1. Odd(Stamp(a)') /\ Group(a)' = t /\ a \in tx'[t].sync \cup tx'[t].async
    BY <1>1 DEF DestroysOne
  <2>2. Stamp(a)' # 0
    BY SMTT(30), <2>1 DEF Odd
  <2> QED
    BY <1>5, <2>1, <2>2 DEF StagedNode
<1>12. ASSUME NEW r \in Collected(a) PROVE StagedNode(r)'
  <2>1. Group(r)' = t /\ Stamp(r)' = 0 /\ r \in tx'[t].postponed
    BY <1>1 DEF DestroysOne, Untouched
  <2>2. ~Odd(Stamp(r)')
    BY SMTT(30), <2>1 DEF Odd
  <2> QED
    BY <1>5, <2>1, <2>2 DEF StagedNode
<1>13. StagedOK'
  BY <1>8, <1>9, <1>10, <1>11, <1>12 DEF StagedOK
<1> QED
  BY <1>2, <1>6, <1>13 DEF CInv

-----------------------------------------------------------------------------
(* Release notifications *)

(* QueueRelease changes its anchor only, which it tags with the owner.     *)
LEMMA ReleaseEffect ==
  ASSUME IInv, CInv, NEW a \in Anchor, QueueRelease(a)
  PROVE  /\ Touches(a) /\ Group(a)' = Dest[a] /\ ~Odd(Stamp(a)')
         /\ a \notin destroyed
<1> DEFINE p == Dest[a]
           q == queue[p]
           fresh == IF q.group[a] = NULL THEN q
                    ELSE NodeInit(Warn(q, q.group[a] # p), a)
           g == SetGroup(fresh, a, p)
           s == CommitUnstaged(g, a)
<1>1. /\ a \in Node /\ p \in Peer /\ a \in Mine(p) /\ p \in Nat
      /\ Mine(p) \in SUBSET (Nat \ {0}) /\ QueueOK(q, Mine(p))
  BY MineOK, TransactionAssumption DEF Node, IInv, KeysOK
<1>2. /\ a \notin destroyed /\ a \notin q.messages
      /\ queue' = [queue EXCEPT ![p] = s]
  BY DEF QueueRelease, IsQueued
<1>3. ~Odd(Stamp(a))
  <2>1. AnchorTag(a) /\ StagedNode(a)
    BY <1>1 DEF CInv, TagsOK, StagedOK
  <2>2. Group(a) \notin TxId
    BY SMTT(30), <1>1, <1>2, <2>1, TransactionAssumption DEF AnchorTag, NULL
  <2> QED
    BY <2>1, <2>2 DEF StagedNode
<1>4. q.timestamp[a] = Stamp(a)
  BY DEF Stamp
<1> HIDE DEF p
<1>5. /\ Advance(q, s, Mine(p)) /\ OnlyNode(q, s, Mine(p), a) /\ s.group[a] = p
      /\ Odd(s.timestamp[a]) => s.timestamp[a] = q.timestamp[a]
  <2>1. Releasing(q, a, p, fresh, g, s)
    BY DEF Releasing
  <2>2. a \notin q.messages
    BY <1>2
  <2> HIDE DEF q, fresh, g, s
  <2>3. /\ a \in Mine(p) /\ p \in Nat /\ Mine(p) \in SUBSET (Nat \ {0})
        /\ QueueOK(q, Mine(p))
    BY <1>1
  <2>4. ReleaseOutcome(q, g, s, Mine(p), a, p)
    BY <2>1, <2>2, <2>3, ReleaseQueue
  <2> QED BY <2>4 DEF ReleaseOutcome
<1>6. /\ p \in Peer /\ a \in Mine(p) /\ queue' = [queue EXCEPT ![p] = s]
      /\ Advance(queue[p], s, Mine(p)) /\ OnlyNode(queue[p], s, Mine(p), a)
  BY <1>1, <1>2, <1>5
<1> HIDE DEF q, s
<1>7. /\ Touches(a) /\ Stamp(a)' = s.timestamp[a] /\ Group(a)' = s.group[a]
  BY <1>6, OneTouched
<1> QED
  BY <1>2, <1>3, <1>4, <1>5, <1>7 DEF p

(* A handle of no list gets another key, and its new tag is right.         *)
LEMMA HandleCInv ==
  ASSUME IInv, IInv', CInv, NEW n \in Handle, Touches(n), tx' = tx,
         destroyed' = destroyed, attached \subseteq attached',
         NodeTag(n), StagedNode(n)',
         \A u \in TxId : /\ n \notin tx[u].sync \cup tx[u].async
                         /\ n \notin tx[u].postponed
  PROVE  CInv'
<1>1. Time /\ FlushesKept /\ \A m \in Node \ {n} : Keeps(m)
  BY DEF Touches
<1>2. n \in Node /\ n \notin Data
  BY TransactionAssumption DEF Handle, Node
<1>3. \A u \in TxId : TodoOK(u) /\ SameLists(u) /\ ResetFollows(u)
  <2> TAKE u \in TxId
  <2>1. TodoOK(u)
    BY TodoKept DEF CInv
  <2>2. SameLists(u)
    BY SameTx
  <2> QED
    BY <2>1, <2>2, SameResets
<1>4. \A u \in TxId : tx'[u] \in TxType /\ Sends[u] \subseteq Data
  BY Numbers, TransactionAssumption
<1>5. TagsOK'
  BY <1>1, <1>2, <1>3, <1>4, TagsNode DEF CInv
<1>6. FlushesOK'
  BY <1>1, <1>3, FlushesFollow DEF CInv
<1>7. ASSUME NEW u \in TxId PROVE StagedList(u)'
  <2>1. tx[u].sync \cup tx[u].async \subseteq Node \ {n}
    BY Numbers DEF TxType, Node
  <2> QED
    BY <1>1, <1>3, <2>1, StagedListKept DEF CInv
<1>8. ASSUME NEW m \in Node \ {n} PROVE StagedNode(m)'
  BY <1>1, <1>3, SameFollows, StagedNodeKept DEF CInv
<1>9. StagedOK'
  BY <1>7, <1>8 DEF StagedOK
<1> QED
  BY <1>5, <1>6, <1>9 DEF CInv

(* QueueRelease keeps the invariant.                                       *)
LEMMA QueueReleaseCInv ==
  ASSUME IInv, IInv', CInv, NEW a \in Anchor, QueueRelease(a)
  PROVE  CInv'
<1>1. /\ Touches(a) /\ Group(a)' = Dest[a] /\ ~Odd(Stamp(a)')
      /\ a \notin destroyed
  BY ReleaseEffect
<1>2. /\ tx' = tx /\ destroyed' = destroyed /\ attached' = attached
  BY DEF QueueRelease
<1>3. /\ a \in Handle /\ a \notin Data /\ a \notin Remote /\ Dest[a] \notin TxId
      /\ a \in Node
  BY MineOK, TransactionAssumption DEF Handle, Node
<1>4. NodeTag(a)
  BY <1>1, <1>3 DEF NodeTag
<1>5. StagedNode(a)'
  BY <1>1, <1>3 DEF StagedNode
<1>6. \A u \in TxId : /\ a \notin tx[u].sync \cup tx[u].async
                      /\ a \notin tx[u].postponed
  BY <1>1, <1>3, ListsOf
<1> QED
  BY <1>1, <1>2, <1>3, <1>4, <1>5, <1>6, HandleCInv

-----------------------------------------------------------------------------
(* Handles in messages *)

(* A destruction that is still open stages the handle with its own list.   *)
LEMMA JoinEarlyEffect ==
  ASSUME IInv, NEW r \in Remote, r \notin attached,
         NEW g \in TxId, tx[g].pc = "open",
         NEW s, StagedOn(g, Dest[r], r, tx[g].async_ts, s),
         tx' = [tx EXCEPT ![g].async = @ \cup {r}, ![g].async_ts = s.clock]
  PROVE  Touches(r) /\ Stages(g, r)
<1> DEFINE p == Dest[r]
           ts == tx[g].async_ts
           x == [tx[g] EXCEPT !.async = @ \cup {r}, !.async_ts = s.clock]
<1>1. /\ tx[g] \in TxType /\ tx[g].timestamp \in Nat
      /\ ts \in Nat /\ ~Odd(ts)
  BY Numbers
<1>2. /\ Untouched(r) /\ \A u \in TxId : r \notin tx[u].postponed
  BY DEF IInv, ListsOK
<1>3. r \in Node /\ r \notin Data /\ r \notin Anchor /\ p \in Peer /\ r \in Mine(p)
  BY MineOK, TransactionAssumption DEF Handle, Node
<1>4. tx' = [tx EXCEPT ![g] = x]
  BY DEF IInv, TypeOK
<1>5. /\ x.pc = tx[g].pc /\ x.todo = tx[g].todo
      /\ x.postponed = tx[g].postponed
      /\ x.sync = tx[g].sync /\ x.async = tx[g].async \cup {r}
      /\ x.unsynced = tx[g].unsynced
      /\ x.timestamp = tx[g].timestamp /\ x.async_ts = s.clock
  BY <1>1 DEF TxType
<1> HIDE DEF x
<1>6. tx'[g] = x /\ \A u \in TxId \ {g} : tx'[u] = tx[u]
  BY <1>4, TxUpdate
<1>7. /\ Touches(r) /\ Linked(r)' /\ Odd(Stamp(r)') /\ Group(r)' = g
      /\ s.clock \in Nat /\ ts <= s.clock /\ Stamp(r)' = s.clock + 1
  <2>1. StagedOn(g, p, r, ts, s)
    OBVIOUS
  <2> HIDE DEF p, ts
  <2> QED
    BY <1>1, <1>2, <1>3, <2>1, StageTouches
<1>8. Latest(g) <= Latest(g)' /\ Stamp(r)' <= Latest(g)' + 1
  <2>1. Latest(g)' = Later(tx[g].timestamp, s.clock)
    BY <1>5, <1>6 DEF Latest
  <2> QED
    BY SMTT(30), <1>1, <1>7, <2>1 DEF Latest, Later
<1>9. tx[g].timestamp <= tx'[g].timestamp
  BY SMTT(30), <1>1, <1>5, <1>6
<1>10. Stages(g, r)
  BY <1>9, <1>2, <1>3, <1>5, <1>6, <1>7, <1>8 DEF Stages
<1> QED
  BY <1>7, <1>10

(* That keeps the invariant.                                               *)
LEMMA JoinEarlyCInv ==
  ASSUME IInv, IInv', CInv, NEW r \in Remote, r \notin attached,
         NEW g \in TxId, g = Group(NodeOf[r]), NodeOf[r] \in destroyed,
         tx[g].pc = "open",
         NEW s, StagedOn(g, Dest[r], r, tx[g].async_ts, s),
         tx' = [tx EXCEPT ![g].async = @ \cup {r}, ![g].async_ts = s.clock],
         destroyed' = destroyed, attached' = attached \cup {r}
  PROVE  CInv'
<1>1. Touches(r) /\ Stages(g, r)
  BY JoinEarlyEffect
<1>2. /\ Untouched(r) /\ \A u \in TxId : r \notin tx[u].postponed
  BY DEF IInv, ListsOK
<1>3. r \notin Data /\ r \notin Anchor
  BY TransactionAssumption DEF Handle
<1>4. NodeTag(r) /\ attached \subseteq attached'
  BY <1>1, <1>3 DEF NodeTag, Stages
<1> QED
  BY <1>1, <1>2, <1>4, StagesCInv

(* The queue of p after a late join.                                       *)
JoinedOn(g, p, r, ts, k, l, c) ==
  /\ Joining(queue[p], r, g, ts, k, l, c)
  /\ queue' = [queue EXCEPT ![p] = c]

(* Only r is changed.                                                      *)
LEMMA JoinTouches ==
  ASSUME IInv, NEW g \in TxId, NEW p \in Peer, NEW r \in Mine(p), Untouched(r),
         NEW ts \in Nat, ~Odd(ts), NEW k, NEW l, NEW c,
         JoinedOn(g, p, r, ts, k, l, c)
  PROVE  /\ Touches(r) /\ Stamp(r)' \in {0, ts} /\ Group(r)' = g
         /\ ts <= Clock(p)'
<1>1. /\ QueueOK(queue[p], Mine(p)) /\ Mine(p) \in SUBSET (Nat \ {0})
      /\ g \in Nat
  BY MineOK, TransactionAssumption DEF IInv, KeysOK
<1>2. r \notin queue[p].messages /\ queue[p].timestamp[r] = 0
  BY MineOK DEF Untouched, Linked, Stamp
<1>3. /\ Advance(queue[p], c, Mine(p)) /\ OnlyNode(queue[p], c, Mine(p), r)
      /\ c.group[r] = g /\ c.timestamp[r] \in {queue[p].timestamp[r], ts}
      /\ ts <= c.clock
  <2> DEFINE q == queue[p]
             N == Mine(p)
  <2>1. /\ Joining(q, r, g, ts, k, l, c) /\ QueueOK(q, N) /\ r \notin q.messages
        /\ N \in SUBSET (Nat \ {0}) /\ r \in N
    BY <1>1, <1>2 DEF JoinedOn
  <2> HIDE DEF q, N
  <2>2. Joined(q, c, N, r, g, ts)
    BY <1>1, <2>1, JoinQueue
  <2> QED
    BY <2>2 DEF q, N, Joined
<1>4. /\ Touches(r) /\ Stamp(r)' = c.timestamp[r] /\ Group(r)' = c.group[r]
      /\ Clock(p)' = c.clock
  BY <1>3, OneTouched DEF JoinedOn
<1> QED
  BY <1>2, <1>3, <1>4

(* After that the handle takes the timestamp the destruction got.          *)
LEMMA JoinLateCInv ==
  ASSUME IInv, IInv', CInv, NEW r \in Remote, r \notin attached,
         NEW g \in TxId, g = Group(NodeOf[r]), NodeOf[r] \in destroyed,
         NEW ts \in Nat, ~Odd(ts), CommittedAt(g, ts), NEW k, NEW l, NEW c,
         JoinedOn(g, Dest[r], r, ts, k, l, c), tx' = tx,
         destroyed' = destroyed, attached' = attached \cup {r}
  PROVE  CInv'
<1> DEFINE p == Dest[r]
<1>1. /\ Untouched(r) /\ \A u \in TxId : r \notin tx[u].postponed
  BY DEF IInv, ListsOK
<1>2. /\ r \in Node /\ r \in Handle /\ r \notin Data /\ r \notin Anchor
      /\ p \in Peer /\ r \in Mine(p)
  BY MineOK, TransactionAssumption DEF Handle, Node
<1>3. /\ Touches(r) /\ Stamp(r)' \in {0, ts} /\ Group(r)' = g
      /\ ts <= Clock(p)'
  <2>1. JoinedOn(g, p, r, ts, k, l, c)
    OBVIOUS
  <2> HIDE DEF p
  <2> QED
    BY <1>1, <1>2, <2>1, JoinTouches
<1>4. StagedNode(r)'
  <2>1. ~Odd(0) /\ ~Odd(Stamp(r)')
    BY SMTT(30), <1>3 DEF Odd
  <2>2. CommittedAt(g, ts)' /\ Sealed(g)'
    BY DEF CommittedAt, Sealed
  <2>3. tx'[g].timestamp <= Clock(Dest[r])'
    BY <1>3, <2>2 DEF CommittedAt, p
  <2> QED
    BY <1>3, <2>1, <2>2, <2>3 DEF StagedNode, CommittedAt
<1>5. NodeTag(r) /\ attached \subseteq attached'
  BY <1>2, <1>3 DEF NodeTag
<1>6. \A u \in TxId : r \notin tx[u].sync \cup tx[u].async
  BY <1>1, UntouchedUnlisted
<1> QED
  BY <1>1, <1>2, <1>3, <1>4, <1>5, <1>6, HandleCInv

(* bus1_tx_join() keeps the invariant.                                     *)
LEMMA JoinCInv ==
  ASSUME IInv, IInv', CInv, NEW r \in Remote, r \notin attached,
         NodeOf[r] \in destroyed, Join(r, NodeOf[r]),
         destroyed' = destroyed, attached' = attached \cup {r}
  PROVE  CInv'
<1> DEFINE a == NodeOf[r]
           g == Group(a)
           ts == IF Odd(Stamp(a)) THEN tx[g].timestamp ELSE Stamp(a)
           s == TxStage(queue[Dest[r]], g, r, tx[g].async_ts)
           k == SetGroup(queue[Dest[r]], r, g)
           l == Sync(k, ts)
           c == CommitSynthetic(l, r, ts)
<1>1. a \in Anchor /\ a \in Node /\ a \in destroyed
  BY TransactionAssumption DEF Node
<1>2. g \in TxId /\ (Odd(Stamp(a)) \/ CommittedAt(g, Stamp(a)))
  BY <1>1 DEF IInv, StampsOK
<1>3. CASE Odd(Stamp(a)) /\ ~Sealed(g)
  <2>1. /\ queue' = [queue EXCEPT ![Dest[r]] = s]
        /\ tx' = [tx EXCEPT ![g].async = @ \cup {r}, ![g].async_ts = s.clock]
    BY <1>3 DEF Join, Group, Stamp, IsStaging
  <2>2. StagedOn(g, Dest[r], r, tx[g].async_ts, s)
    BY <2>1 DEF StagedOn
  <2>3. g = Group(NodeOf[r])
    OBVIOUS
  <2>4. tx[g].pc = "open"
    <3>1. StagedNode(a) /\ StagedList(g) /\ tx[g] \in TxType
      BY <1>1, <1>2, Numbers DEF CInv, StagedOK
    <3> HIDE DEF g
    <3>2. tx[g].sync \cup tx[g].async # {}
      BY <1>3, <3>1 DEF StagedNode, g
    <3> QED
      BY <1>3, <3>1, <3>2 DEF StagedList, Sealed, TxType
  <2>5. /\ tx' = [tx EXCEPT ![g].async = @ \cup {r}, ![g].async_ts = s.clock]
    BY <2>1
  <2> HIDE DEF g, s
  <2> QED
    BY <1>1, <1>2, <2>2, <2>3, <2>4, <2>5, JoinEarlyCInv DEF a
<1>4. CASE ~(Odd(Stamp(a)) /\ ~Sealed(g))
  <2>1. queue' = [queue EXCEPT ![Dest[r]] = c] /\ tx' = tx
    BY <1>4 DEF Join, Group, Stamp, IsStaging
  <2>2. JoinedOn(g, Dest[r], r, ts, k, l, c)
    BY <2>1 DEF JoinedOn, Joining
  <2>3. CommittedAt(g, ts) /\ ts \in Nat /\ ~Odd(ts)
    BY <1>1, <1>2, <1>4, Numbers DEF CommittedAt
  <2>4. g = Group(NodeOf[r]) /\ tx' = tx
    BY <2>1
  <2> HIDE DEF g, ts, k, l, c
  <2> QED
    BY <1>1, <1>2, <2>2, <2>3, <2>4, JoinLateCInv DEF a
<1> QED
  BY <1>3, <1>4

(* AcquireHandle keeps the invariant.                                      *)
LEMMA AcquireHandleCInv ==
  ASSUME IInv, IInv', CInv, NEW t \in TxId, NEW n \in Node, AcquireHandle(t, n)
  PROVE  CInv'
<1> DEFINE r == Carries[n]
           a == NodeOf[r]
<1>1. /\ r \in Remote /\ r \notin attached /\ a \in Anchor
      /\ attached' = attached \cup {r} /\ destroyed' = destroyed
  BY SMTT(30), TransactionAssumption DEF AcquireHandle
<1>2. \/ queue' = queue /\ tx' = tx
      \/ a \in destroyed /\ Join(r, a)
      \/ a \notin destroyed /\ FlushRelease(a) /\ tx' = tx
  BY DEF AcquireHandle
<1>3. attached \subseteq attached'
  BY <1>1
<1>4. CASE queue' = queue /\ tx' = tx
  BY <1>1, <1>3, <1>4, StillCalm, IdleCInv
<1>5. CASE a \in destroyed /\ Join(r, a)
  BY <1>1, <1>5, JoinCInv
<1>6. CASE a \notin destroyed /\ FlushRelease(a) /\ tx' = tx
  BY <1>1, <1>3, <1>6, FlushReleaseCalm, IdleCInv
<1> QED
  BY <1>2, <1>4, <1>5, <1>6

-----------------------------------------------------------------------------
(* The steps that change no key keep the invariant.                        *)
LEMMA OtherStepsCInv ==
  ASSUME IInv, IInv', CInv,
         \/ \E a \in Anchor : CreateNode(a) \/ AcquireStrong(a)
         \/ \E p \in Peer : Peek(p) \/ Dequeue(p) \/ RecvFail(p) \/ Poll(p)
         \/ UNCHANGED vars
  PROVE  CInv'
<1>1. /\ tx' = tx /\ destroyed' = destroyed /\ attached' = attached
  BY DEF CreateNode, AcquireStrong, Peek, Dequeue, RecvFail, Poll, vars
<1>2. CASE \E p \in Peer : Peek(p) \/ Dequeue(p) \/ Poll(p)
  BY <1>1, <1>2, PeekCalm, DequeueCalm, PollCalm, IdleCInv
<1>3. CASE \E a \in Anchor : AcquireStrong(a)
  <2>1. PICK a \in Anchor : a \notin destroyed /\ FlushRelease(a)
    BY <1>3 DEF AcquireStrong
  <2> QED
    BY <1>1, <2>1, FlushReleaseCalm, IdleCInv
<1>4. CASE queue' = queue
  BY <1>1, <1>4, StillCalm, IdleCInv
<1> QED
  BY <1>2, <1>3, <1>4 DEF CreateNode, RecvFail, vars

(* Every step keeps the callers' side of the bargain.                      *)
LEMMA NextCInv == IInv /\ IInv' /\ CInv /\ [Next]_vars => CInv'
<1> SUFFICES ASSUME IInv, IInv', CInv, [Next]_vars PROVE CInv'
  OBVIOUS
<1>1. ASSUME NEW t \in TxId, NEW n \in Node,
             \/ AcquireHandle(t, n) \/ StageMessage(t, n) \/ DestroyLocked(t, n)
             \/ StageRound(t, n) \/ SyncRound(t, n) \/ CommitRound(t, n)
      PROVE  CInv'
  BY <1>1, AcquireHandleCInv, StageMessageCInv, DestroyLockedCInv,
     StageRoundCInv, SyncRoundCInv, CommitRoundCInv
<1>2. ASSUME NEW t \in TxId,
             \/ BeginSend(t) \/ BeginDestroy(t)
             \/ AcquireCommitTS(t) \/ ReleaseHandles(t) \/ FlushQueue(t)
      PROVE  CInv'
  BY <1>2, BeginSendCInv, BeginDestroyCInv, AcquireCommitTSCInv,
     ReleaseHandlesCInv, FlushQueueCInv
<1>3. ASSUME NEW a \in Anchor, QueueRelease(a)
      PROVE  CInv'
  BY <1>3, QueueReleaseCInv
<1> QED
  BY <1>1, <1>2, <1>3, OtherStepsCInv, TransactionAssumption DEF Next, TxStep

(* Nothing is tagged, staged or flushed at first.                          *)
LEMMA InitCInv == Init => CInv
<1> SUFFICES ASSUME Init PROVE CInv
  OBVIOUS
<1>1. /\ \A p \in Peer : queue[p] = QueueInit(Mine(p))
      /\ \A t \in TxId : tx[t] = TxInit
      /\ destroyed = {}
  BY DEF Init
<1>2. ASSUME NEW n \in Node
      PROVE  /\ Group(n) = NULL /\ Stamp(n) = 0 /\ Untouched(n)
             /\ Group(n) \notin TxId
  <2>1. Dest[n] \in Peer /\ n \in Mine(Dest[n]) /\ NULL \notin TxId
    BY MineOK, TransactionAssumption DEF NULL
  <2>2. queue[Dest[n]] = QueueInit(Mine(Dest[n]))
    BY <1>1, <2>1
  <2> QED
    BY SMTT(30), <2>1, <2>2 DEF Group, Stamp, Untouched, Linked, QueueInit
<1>3. ASSUME NEW p \in Peer PROVE queue[p].flush = 0 /\ Clock(p) = 0
  <2>1. queue[p] = QueueInit(Mine(p))
    BY <1>1
  <2> QED
    BY SMTT(30), <2>1 DEF QueueInit, Clock
<1>4. \A t \in TxId :
        /\ tx[t].pc = "idle" /\ tx[t].todo = {} /\ tx[t].postponed = {}
        /\ tx[t].sync = {} /\ tx[t].unsynced = {} /\ tx[t].async = {}
  BY SMTT(30), <1>1 DEF TxInit
<1>5. \A t \in TxId : Sends[t] \subseteq Data
  BY TransactionAssumption
<1>6. TagsOK
  BY <1>1, <1>2, <1>4, <1>5
     DEF TagsOK, MessageTag, AnchorTag, RemoteTag, PendingTags, Node
<1>7. StagedOK
  <2>1. \A t \in TxId : ~Sealed(t)
    BY <1>4 DEF Sealed
  <2>2. ~Odd(0)
    BY SMTT(30) DEF Odd
  <2>3. \A n \in Node : StagedNode(n)
    BY <1>2, <2>2 DEF StagedNode
  <2>4. \A t \in TxId : StagedList(t)
    BY <1>4, <2>1 DEF StagedList
  <2> QED
    BY <2>3, <2>4 DEF StagedOK
<1>8. FlushesOK
  BY SMTT(30), <1>3, <1>4 DEF FlushesOK
<1> QED
  BY <1>6, <1>7, <1>8 DEF CInv

-----------------------------------------------------------------------------
(* The WARN_ON()s and the caches of the queues: every call of a queue      *)
(* keeps to the contract of queue.h.                                       *)

SteadyStep == \A p \in Peer : Steady(queue[p], queue'[p])

(* A step that changes no queue                                            *)
LEMMA StillSteady ==
  ASSUME queue' = queue
  PROVE  SteadyStep
BY SteadyReflexive DEF SteadyStep

(* A step that changes one queue                                           *)
LEMMA OneSteady ==
  ASSUME IInv, NEW p \in Peer, NEW s, queue' = [queue EXCEPT ![p] = s],
         Steady(queue[p], s)
  PROVE  SteadyStep
<1>1. DOMAIN queue = Peer
  BY DEF IInv, TypeOK
<1>2. queue'[p] = s /\ \A x \in Peer \ {p} : queue'[x] = queue[x]
  BY <1>1
<1> QED
  BY <1>2, SteadyReflexive DEF SteadyStep

(* Staging an unused node that carries no other tag                        *)
LEMMA StageSteady ==
  ASSUME IInv, NEW t \in TxId, tx[t].pc = "open", NEW n \in Node, Untouched(n),
         Group(n) \in {NULL, t}, NEW ts \in Nat, ~Odd(ts),
         queue' = [queue EXCEPT ![Dest[n]] = TxStage(queue[Dest[n]], t, n, ts)]
  PROVE  SteadyStep /\ FlushesKept
<1> DEFINE p == Dest[n]
           q == queue[p]
           N == Mine(p)
<1>1. /\ p \in Peer /\ n \in N /\ N \in SUBSET (Nat \ {0}) /\ QueueOK(q, N)
  BY MineOK DEF IInv, KeysOK
<1>2. n \notin q.messages /\ q.timestamp[n] = 0 /\ q.group[n] \in {NULL, t}
  BY DEF Untouched, Linked, Stamp, Group
<1>3. ~Sealed(t)
  BY DEF Sealed
<1>4. Steady(q, TxStage(q, t, n, ts))
  <2> HIDE DEF q, N, p
  <2> QED BY <1>1, <1>2, <1>3, TxStageSteady
<1>5. FlushesKept
  <2>1. StagedOn(t, p, n, ts, TxStage(q, t, n, ts))
    BY DEF StagedOn
  <2>2. p \in Peer /\ n \in Mine(p)
    BY <1>1
  <2> HIDE DEF p
  <2> QED
    BY <2>1, <2>2, StageTouches DEF Touches
<1> HIDE DEF p
<1> QED
  BY <1>1, <1>4, <1>5, OneSteady DEF p

(* StageMessage and StageRound                                             *)
LEMMA StagesSteady ==
  ASSUME IInv, CInv, NEW t \in TxId, NEW n \in Node,
         StageMessage(t, n) \/ StageRound(t, n)
  PROVE  SteadyStep /\ FlushesKept
<1>1. /\ tx[t].pc = "open" /\ StageSync(t, n, queue[Dest[n]])
      /\ n \in tx[t].todo \cap Data \/ n \in tx[t].postponed
  BY DEF StageMessage, StageRound
<1>2. tx[t].timestamp \in Nat /\ ~Odd(tx[t].timestamp)
  BY Numbers
<1>3. Untouched(n)
  BY <1>1 DEF IInv, ListsOK
<1>4. PendingTags(t)
  BY DEF CInv, TagsOK
<1>5. Group(n) \in {NULL, t}
  BY <1>1, <1>4 DEF PendingTags
<1>6. queue' = [queue EXCEPT ![Dest[n]] =
                  TxStage(queue[Dest[n]], t, n, tx[t].timestamp)]
  BY <1>1 DEF StageSync
<1> QED
  BY <1>1, <1>2, <1>3, <1>5, <1>6, StageSteady

(* AcquireCommitTS                                                         *)
LEMMA SealSteady ==
  ASSUME IInv, NEW t \in TxId, AcquireCommitTS(t)
  PROVE  SteadyStep
<1> DEFINE p == Origin[t]
           ts == Later(tx[t].timestamp, tx[t].async_ts)
           s == Sync(queue[p], ts)
           r == Tick(s)
<1>1. queue' = [queue EXCEPT ![p] = r]
  BY DEF AcquireCommitTS
<1>2. /\ p \in Peer /\ Mine(p) \in SUBSET (Nat \ {0})
      /\ QueueOK(queue[p], Mine(p)) /\ queue[p] \in QueueType(Mine(p))
  BY MineOK, TransactionAssumption DEF IInv, KeysOK, QueueOK
<1>3. ts \in Nat /\ ~Odd(ts)
  BY Numbers DEF Later
<1> HIDE DEF p, ts
<1>4. Steady(queue[p], s)
  BY <1>2, <1>3, SyncQuiet DEF Steady
<1>5. s \in QueueType(Mine(p))
  <2>1. s = Sync(queue[p], ts)
    OBVIOUS
  <2> HIDE DEF s
  <2> QED BY <1>2, <1>3, <2>1, SyncOK DEF Advance, QueueOK
<1> HIDE DEF s
<1>6. Steady(s, r)
  BY <1>5, TickQuiet DEF Steady
<1> HIDE DEF r
<1> QED
  BY <1>1, <1>2, <1>4, <1>6, SteadyTransitive, OneSteady

(* SyncRound                                                               *)
LEMMA SyncSteady ==
  ASSUME IInv, NEW t \in TxId, NEW n \in Node, SyncRound(t, n)
  PROVE  SteadyStep
<1> DEFINE p == Dest[n]
           ts == tx[t].timestamp
<1>1. queue' = [queue EXCEPT ![p] = Sync(queue[p], ts)]
  BY MineOK DEF SyncRound, IInv, TypeOK
<1>2. p \in Peer /\ queue[p] \in QueueType(Mine(p)) /\ ts \in Nat /\ ~Odd(ts)
  BY MineOK, Numbers DEF IInv, TypeOK
<1> HIDE DEF p, ts
<1>3. Steady(queue[p], Sync(queue[p], ts))
  BY <1>2, SyncQuiet DEF Steady
<1> QED
  BY <1>1, <1>2, <1>3, OneSteady

(* CommitRound: the node was staged, the clock of its queue was synced.    *)
LEMMA CommitSteady ==
  ASSUME IInv, CInv, NEW t \in TxId, NEW n \in Node, CommitRound(t, n)
  PROVE  SteadyStep
<1> DEFINE p == Dest[n]
           q == queue[p]
           N == Mine(p)
           ts == tx[t].timestamp
<1>1. /\ queue' = [queue EXCEPT ![p] = CommitStaged(q, n, ts)]
      /\ tx[t].pc = "sealed" /\ tx[t].unsynced = {} /\ n \in tx[t].sync
  BY MineOK DEF CommitRound, IInv, TypeOK
<1>2. /\ p \in Peer /\ n \in N /\ N \in SUBSET (Nat \ {0}) /\ QueueOK(q, N)
      /\ ts \in Nat /\ ~Odd(ts)
  BY MineOK, Numbers DEF IInv, KeysOK
<1>3. StagedList(t) /\ StagedNode(n) /\ Group(n) = t
  BY <1>1 DEF CInv, StagedOK, IInv, ListsOK
<1>4. Sealed(t)
  BY <1>1 DEF Sealed
<1>5. Linked(n) /\ Odd(Stamp(n)) /\ Stamp(n) < ts /\ tx[t].async = {}
  BY <1>1, <1>3, <1>4 DEF StagedList
<1>6. ts <= Clock(p)
  BY <1>1, <1>3, <1>4, <1>5 DEF StagedNode
<1>7. n \in q.messages /\ Odd(q.timestamp[n]) /\ q.timestamp[n] < ts /\ ts <= q.clock
  BY <1>5, <1>6 DEF Linked, Stamp, Clock
<1>8. Steady(q, CommitStaged(q, n, ts))
  <2> HIDE DEF p, q, N, ts
  <2> QED BY <1>2, <1>7, CommitStagedQuiet DEF Steady
<1> HIDE DEF p, ts
<1> QED
  BY <1>1, <1>2, <1>8, OneSteady

(* Removing an entry that is linked                                        *)
LEMMA RemoveSteady ==
  ASSUME IInv, NEW p \in Peer, NEW n \in Mine(p), n \in queue[p].messages,
         queue' = [queue EXCEPT ![p] = Remove(queue[p], n)]
  PROVE  SteadyStep
<1>1. QueueOK(queue[p], Mine(p)) /\ Mine(p) \in SUBSET (Nat \ {0})
  BY MineOK DEF IInv, KeysOK
<1>2. Steady(queue[p], Remove(queue[p], n))
  BY <1>1, RemoveQuiet DEF Steady
<1> QED
  BY <1>2, OneSteady

(* Peek removes the front.                                                 *)
LEMMA PeekSteady ==
  ASSUME IInv, NEW p \in Peer, Peek(p)
  PROVE  SteadyStep
<1> DEFINE n == queue[p].front
<1>1. /\ n # NULL
      /\ queue' = queue \/ queue' = [queue EXCEPT ![p] = Remove(queue[p], n)]
  BY DEF Peek
<1>2. QueueOK(queue[p], Mine(p)) /\ Mine(p) \in SUBSET (Nat \ {0})
  BY MineOK DEF IInv, KeysOK
<1>3. n \in Mine(p) /\ n \in queue[p].messages
  BY <1>1, <1>2, FrontOK
<1> HIDE DEF n
<1> QED
  BY <1>1, <1>3, StillSteady, RemoveSteady

(* The entry RECV peeked is still linked when it is dequeued: whoever      *)
(* flushes the queue holds the local.lock.                                 *)
LEMMA DequeueSteady ==
  ASSUME IInv, NEW p \in Peer, Dequeue(p)
  PROVE  SteadyStep
<1> DEFINE n == peeked[p].node
<1>1. /\ peeked[p] # NoEntry
      /\ queue' = [queue EXCEPT ![p] = Remove(queue[p], n)]
  BY DEF Dequeue, IInv, TypeOK
<1>2. n \in Mine(p) /\ n \in queue[p].messages
  BY <1>1 DEF IInv, KeysOK, EntryOK
<1> HIDE DEF n
<1> QED
  BY <1>1, <1>2, RemoveSteady

(* A release notification is only withdrawn if it is queued.               *)
LEMMA FlushReleaseSteady ==
  ASSUME IInv, NEW a \in Anchor, FlushRelease(a)
  PROVE  SteadyStep
<1> SUFFICES ASSUME NEW p, p = Dest[a] PROVE SteadyStep
  OBVIOUS
<1>1. p \in Peer /\ a \in Mine(p)
  BY MineOK DEF Node
<1>2. \/ a \in queue[p].messages /\ queue' = [queue EXCEPT ![p] = Remove(queue[p], a)]
      \/ queue' = [queue EXCEPT ![p] = queue[p]]
  BY DEF FlushRelease, IsQueued
<1>3. CASE queue' = [queue EXCEPT ![p] = queue[p]]
  BY <1>1, <1>3, SteadyReflexive, OneSteady
<1> QED
  BY <1>1, <1>2, <1>3, RemoveSteady

(* A task only goes to sleep in poll() when it finds nothing to read.      *)
LEMMA PollSteady ==
  ASSUME IInv, NEW p \in Peer, Poll(p)
  PROVE  SteadyStep
<1> DEFINE s == [queue[p] EXCEPT !.asleep = TRUE]
<1>1. queue' = [queue EXCEPT ![p] = s] /\ queue[p].front = NULL
  BY DEF Poll, IInv, TypeOK
<1>2. queue[p] \in QueueType(Mine(p))
  BY DEF IInv, TypeOK
<1>3. /\ s.leftmost = queue[p].leftmost /\ s.front = queue[p].front
      /\ s.timestamp = queue[p].timestamp /\ s.warned = queue[p].warned
  BY <1>2 DEF QueueType
<1> HIDE DEF s
<1>4. Right(queue[p]) => Right(s)
  BY <1>3, SameRight
<1>5. Steady(queue[p], s)
  BY <1>1, <1>3, <1>4 DEF Steady, Quiet, Awake
<1> QED
  BY <1>1, <1>5, OneSteady

(* FlushQueue fires no WARN_ON() and leaves no front; only the caches of   *)
(* the queue it flushes may be wrong afterwards.                           *)
LEMMA FlushSteady ==
  ASSUME IInv, CInv, NEW t \in TxId, FlushQueue(t)
  PROVE  /\ \A p \in Peer : Quiet(queue[p], queue'[p])
         /\ \A p \in Peer \ {Origin[t]} : Steady(queue[p], queue'[p])
<1> DEFINE p == Origin[t]
           q == queue[p]
           ts == tx[t].timestamp
           s == Flush(q, ts)
<1>1. /\ p \in Peer /\ ts \in Nat /\ ~Odd(ts)
      /\ DOMAIN queue = Peer /\ q \in QueueType(Mine(p))
  BY Numbers, TransactionAssumption DEF IInv, TypeOK
<1>2. queue' = [queue EXCEPT ![p] = s] /\ tx[t].pc = "flush"
  BY <1>1 DEF FlushQueue
<1>3. q.flush <= ts /\ ts <= q.clock
  BY <1>2 DEF CInv, FlushesOK, Clock
<1>4. Quiet(q, s)
  <2> HIDE DEF p, q, ts
  <2> QED BY <1>1, <1>3, FlushQuiet
<1> HIDE DEF s
<1>5. queue'[p] = s /\ \A x \in Peer \ {p} : queue'[x] = queue[x]
  BY <1>1, <1>2
<1>6. \A x \in Peer \ {p} : Steady(queue[x], queue'[x])
  BY <1>5, SteadyReflexive
<1> QED
  BY <1>4, <1>5, <1>6 DEF Steady

(* DestroyLocked: no handle that is collected is in use.                   *)
LEMMA DestroySteady ==
  ASSUME IInv, CInv, NEW t \in TxId, NEW a \in Node, DestroyLocked(t, a)
  PROVE  SteadyStep
<1> DEFINE p == Origin[t]
           i == IF IsQueued(queue[p], a) THEN Remove(queue[p], a) ELSE queue[p]
           remotes == {r \in attached : NodeOf[r] = a}
           used == {r \in remotes : queue[Dest[r]].group[r] # NULL}
           bad == used # {}
           ts == tx[t].timestamp
           s == TxStage(NodeInit(Warn(i, bad), a), t, a, ts)
           new == remotes \ used
<1>1. /\ a \in tx[t].todo \cap Anchor /\ tx[t].pc = "open"
      /\ Dest[a] = p /\ a \notin destroyed
  BY DEF DestroyLocked, IInv, ListsOK
<1>2. /\ p \in Peer /\ a \in Mine(p) /\ Mine(p) \in SUBSET (Nat \ {0})
      /\ QueueOK(queue[p], Mine(p)) /\ ts \in Nat /\ ~Odd(ts) /\ ~Sealed(t)
  BY <1>1, MineOK, Numbers, TransactionAssumption
     DEF IInv, KeysOK, Sealed
<1>3. queue' = [y \in Peer |-> IF y = p THEN s ELSE SetGroups(queue[y], new, t)]
  BY DEF DestroyLocked
<1>4. bad \in BOOLEAN /\ ~bad
  <2>1. remotes = Collected(a)
    BY DEF Collected
  <2>2. \A r \in Collected(a) : Group(r) = NULL
    BY <1>1, CollectedUnused
  <2> QED
    BY <2>1, <2>2 DEF Group
<1>5. Steady(queue[p], i) /\ QueueOK(i, Mine(p)) /\ a \notin i.messages
  <2> HIDE DEF p
  <2> QED BY <1>2, WithdrawSteady
<1>6. Steady(queue[p], s)
  <2> HIDE DEF p, i, bad, ts
  <2> QED BY <1>2, <1>4, <1>5, RenewSteady
<1> HIDE DEF s, new
<1>7. queue'[p] = s /\ \A y \in Peer \ {p} : queue'[y] = SetGroups(queue[y], new, t)
  BY <1>2, <1>3
<1>8. ASSUME NEW y \in Peer \ {p} PROVE Steady(queue[y], queue'[y])
  <2>1. queue[y] \in QueueType(Mine(y))
    BY DEF IInv, TypeOK
  <2> QED
    BY <1>7, <2>1, SetGroupsQuiet DEF Steady
<1> QED
  BY <1>6, <1>7, <1>8 DEF SteadyStep

(* QueueRelease: the anchor carries no tag but that of its owner.          *)
LEMMA ReleaseSteady ==
  ASSUME IInv, CInv, NEW a \in Anchor, QueueRelease(a)
  PROVE  SteadyStep
<1> DEFINE p == Dest[a]
           q == queue[p]
           fresh == IF q.group[a] = NULL THEN q
                    ELSE NodeInit(Warn(q, q.group[a] # p), a)
           g == SetGroup(fresh, a, p)
           s == CommitUnstaged(g, a)
<1>1. /\ a \in Node /\ p \in Peer /\ a \in Mine(p) /\ p \in Nat
      /\ Mine(p) \in SUBSET (Nat \ {0}) /\ QueueOK(q, Mine(p))
  BY MineOK, TransactionAssumption DEF Node, IInv, KeysOK
<1>2. /\ a \notin destroyed /\ a \notin q.messages
      /\ queue' = [queue EXCEPT ![p] = s]
  BY DEF QueueRelease, IsQueued
<1>3. q.group[a] \in {NULL, p} /\ (q.group[a] = NULL => q.timestamp[a] = 0)
  BY <1>2 DEF CInv, TagsOK, AnchorTag, Group, Stamp
<1>4. Releasing(q, a, p, fresh, g, s)
  BY DEF Releasing
<1>5. Steady(q, s)
  <2>1. a \notin q.messages
    BY <1>2
  <2> HIDE DEF p, q, fresh, g, s
  <2> QED BY <1>1, <1>3, <1>4, <2>1, NotifySteady
<1> HIDE DEF p, s
<1> QED
  BY <1>1, <1>2, <1>5, OneSteady

(* A late join keeps the caches right; unless the notification becomes the *)
(* new front it fires no WARN_ON() and loses no wake-up.                   *)
LEMMA JoinedSteady ==
  ASSUME IInv, NEW g \in TxId, NEW p \in Peer, NEW r \in Mine(p), Untouched(r),
         NEW ts \in Nat, ~Odd(ts), ts # 0, NEW k, NEW l, NEW c,
         JoinedOn(g, p, r, ts, k, l, c)
  PROVE  /\ \A x \in Peer : Right(queue[x]) => Right(queue'[x])
         /\ queue'[p].front # r => SteadyStep
         /\ FlushesKept
<1> DEFINE q == queue[p]
           N == Mine(p)
<1>1. /\ QueueOK(q, N) /\ N \in SUBSET (Nat \ {0}) /\ r \in N /\ g \in Nat
      /\ q \in QueueType(N)
  BY MineOK, TransactionAssumption DEF IInv, KeysOK, QueueOK
<1>2. r \notin q.messages /\ q.timestamp[r] = 0
  BY MineOK DEF Untouched, Linked, Stamp
<1>3. Joining(q, r, g, ts, k, l, c)
  BY DEF JoinedOn
<1>4. /\ QueueOK(k, N) /\ QueueOK(l, N) /\ ts <= l.clock
      /\ r \notin l.messages /\ l.timestamp[r] = 0
  <2>1. r \notin q.messages
    BY <1>2
  <2> HIDE DEF q, N
  <2>2. Ready(q, k, l, N, r, ts)
    BY <1>1, <1>3, <2>1, JoinQueue
  <2> QED
    BY <1>2, <2>2 DEF Ready
<1>5. (Right(q) => Right(c)) /\ (c.front # r => Quiet(q, c))
  <2> HIDE DEF q, N
  <2> QED BY <1>1, <1>3, <1>4, LateSteady
<1>6. queue' = [queue EXCEPT ![p] = c] /\ DOMAIN queue = Peer
  BY DEF JoinedOn, IInv, TypeOK
<1>7. queue'[p] = c /\ \A x \in Peer \ {p} : queue'[x] = queue[x]
  BY <1>6
<1>8. \A x \in Peer : Right(queue[x]) => Right(queue'[x])
  BY <1>5, <1>7
<1>9. ASSUME queue'[p].front # r PROVE SteadyStep
  BY <1>5, <1>6, <1>7, <1>9, OneSteady DEF Steady
<1>10. FlushesKept
  BY JoinTouches DEF Touches
<1> QED
  BY <1>8, <1>9, <1>10

(* The caches of all queues stay right.                                    *)
RightStep == \A p \in Peer : Right(queue[p]) => Right(queue'[p])

(* A steady step is right.                                                 *)
LEMMA SteadyIsRight == SteadyStep => RightStep
BY DEF SteadyStep, RightStep, Steady

(* bus1_tx_join()                                                          *)
LEMMA JoinSteady ==
  ASSUME IInv, CInv, NEW r \in Remote, r \notin attached,
         NodeOf[r] \in destroyed, Join(r, NodeOf[r])
  PROVE  /\ RightStep /\ FlushesKept
         /\ queue'[Dest[r]].front # r => SteadyStep
<1> DEFINE a == NodeOf[r]
           g == Group(a)
           ts == IF Odd(Stamp(a)) THEN tx[g].timestamp ELSE Stamp(a)
           s == TxStage(queue[Dest[r]], g, r, tx[g].async_ts)
           k == SetGroup(queue[Dest[r]], r, g)
           l == Sync(k, ts)
           c == CommitSynthetic(l, r, ts)
<1>1. a \in Anchor /\ a \in Node /\ a \in destroyed /\ r \in Node
  BY TransactionAssumption DEF Node, Handle
<1>2. g \in TxId /\ (Odd(Stamp(a)) \/ CommittedAt(g, Stamp(a)))
  BY <1>1 DEF IInv, StampsOK
<1>3. Untouched(r) /\ Group(r) = NULL
  BY DEF CInv, TagsOK, RemoteTag
<1>4. StagedNode(a) /\ StagedList(g) /\ tx[g] \in TxType
  BY <1>1, <1>2, Numbers DEF CInv, StagedOK
<1>5. CASE Odd(Stamp(a)) /\ ~Sealed(g)
  <2>1. queue' = [queue EXCEPT ![Dest[r]] = s]
    BY <1>5 DEF Join, Group, Stamp, IsStaging
  <2>2. tx[g].pc = "open"
    <3>1. tx[g].sync \cup tx[g].async # {}
      BY <1>4, <1>5 DEF StagedNode
    <3> HIDE DEF g
    <3> QED
      BY <1>4, <1>5, <3>1 DEF StagedList, Sealed, TxType
  <2>3. tx[g].async_ts \in Nat /\ ~Odd(tx[g].async_ts)
    BY <1>2, Numbers
  <2> HIDE DEF g
  <2>4. SteadyStep /\ FlushesKept
    BY <1>1, <1>2, <1>3, <2>1, <2>2, <2>3, StageSteady
  <2> QED
    BY <2>4, SteadyIsRight
<1>6. CASE ~(Odd(Stamp(a)) /\ ~Sealed(g))
  <2>1. queue' = [queue EXCEPT ![Dest[r]] = c]
    BY <1>6 DEF Join, Group, Stamp, IsStaging
  <2>2. JoinedOn(g, Dest[r], r, ts, k, l, c)
    BY <2>1 DEF JoinedOn, Joining
  <2>3. CommittedAt(g, ts) /\ ts \in Nat /\ ~Odd(ts)
    BY <1>1, <1>2, <1>6, Numbers DEF CommittedAt
  <2>4. ts # 0
    BY <1>4, <2>3 DEF StagedList, CommittedAt
  <2>5. Dest[r] \in Peer /\ r \in Mine(Dest[r])
    BY <1>1, MineOK
  <2> HIDE DEF g, ts, k, l, c
  <2> QED
    BY <1>2, <1>3, <2>2, <2>3, <2>4, <2>5, JoinedSteady DEF RightStep
<1> QED
  BY <1>5, <1>6

(* A handle that attaches does not become the new front of its peer.       *)
StaysBehind == \A r \in attached' \ attached : queue'[Dest[r]].front # r

(* AcquireHandle                                                           *)
LEMMA AcquireSteady ==
  ASSUME IInv, CInv, NEW t \in TxId, NEW n \in Node, AcquireHandle(t, n)
  PROVE  RightStep /\ FlushesKept /\ (StaysBehind => SteadyStep)
<1> DEFINE r == Carries[n]
           a == NodeOf[r]
<1>1. /\ r \in Remote /\ r \notin attached /\ a \in Anchor
      /\ attached' = attached \cup {r}
  BY SMTT(30), TransactionAssumption DEF AcquireHandle
<1>2. \/ queue' = queue
      \/ a \in destroyed /\ Join(r, a)
      \/ a \notin destroyed /\ FlushRelease(a)
  BY DEF AcquireHandle
<1>3. StaysBehind => queue'[Dest[r]].front # r
  BY <1>1 DEF StaysBehind
<1> HIDE DEF r
<1>4. CASE queue' = queue
  BY <1>4, StillSteady, SteadyIsRight DEF FlushesKept
<1>5. CASE a \in destroyed /\ Join(r, a)
  BY <1>1, <1>3, <1>5, JoinSteady
<1>6. CASE a \notin destroyed /\ FlushRelease(a)
  BY <1>1, <1>6, FlushReleaseSteady, SteadyIsRight, FlushReleaseCalm DEF Calm
<1> QED
  BY <1>2, <1>4, <1>5, <1>6

(* A step that nothing attaches in                                         *)
LEMMA PlainSteady ==
  ASSUME IInv, CInv,
         \/ \E t \in TxId : \/ BeginSend(t) \/ BeginDestroy(t)
                            \/ AcquireCommitTS(t) \/ ReleaseHandles(t)
         \/ \E t \in TxId : \E n \in Node :
              \/ StageMessage(t, n) \/ DestroyLocked(t, n) \/ StageRound(t, n)
              \/ SyncRound(t, n) \/ CommitRound(t, n)
         \/ \E a \in Anchor : CreateNode(a) \/ QueueRelease(a) \/ AcquireStrong(a)
         \/ \E p \in Peer : Peek(p) \/ Dequeue(p) \/ RecvFail(p) \/ Poll(p)
         \/ UNCHANGED vars
  PROVE  SteadyStep /\ FlushesKept
<1>1. CASE queue' = queue
  BY <1>1, StillSteady DEF FlushesKept
<1>2. CASE \E t \in TxId : AcquireCommitTS(t)
  BY <1>2, SealSteady, SealEffect DEF Calm
<1>3. ASSUME NEW t \in TxId, NEW n \in Node, SyncRound(t, n) \/ CommitRound(t, n)
      PROVE  SteadyStep /\ FlushesKept
  BY <1>3, SyncSteady, CommitSteady, SyncEffect, CommitEffect
     DEF Calm, Touches
<1>4. ASSUME NEW t \in TxId, NEW n \in Node, DestroyLocked(t, n)
      PROVE  SteadyStep /\ FlushesKept
  BY <1>4, DestroySteady, DestroyEffect DEF DestroysOne
<1>5. ASSUME NEW a \in Anchor, QueueRelease(a)
      PROVE  SteadyStep /\ FlushesKept
  BY <1>5, ReleaseSteady, ReleaseEffect DEF Touches
<1>6. ASSUME NEW a \in Anchor, AcquireStrong(a)
      PROVE  SteadyStep /\ FlushesKept
  <2>1. a \notin destroyed /\ FlushRelease(a)
    BY <1>6 DEF AcquireStrong
  <2> QED
    BY <2>1, FlushReleaseSteady, FlushReleaseCalm DEF Calm
<1>7. ASSUME NEW p \in Peer, Peek(p) \/ Dequeue(p) \/ Poll(p)
      PROVE  SteadyStep /\ FlushesKept
  BY <1>7, PeekSteady, DequeueSteady, PollSteady,
     PeekCalm, DequeueCalm, PollCalm DEF Calm
<1>8. CASE \E t \in TxId : BeginSend(t) \/ BeginDestroy(t) \/ ReleaseHandles(t)
  BY <1>1, <1>8 DEF BeginSend, BeginDestroy, ReleaseHandles
<1>9. CASE \E a \in Anchor : CreateNode(a)
  BY <1>1, <1>9 DEF CreateNode
<1>10. CASE (\E p \in Peer : RecvFail(p)) \/ UNCHANGED vars
  BY <1>1, <1>10 DEF RecvFail, vars
<1> QED
  BY <1>2, <1>3, <1>4, <1>5, <1>6, <1>7, <1>8, <1>9, <1>10, StagesSteady

(* The steps of the specification are those, a handle that attaches and a  *)
(* flush.                                                                  *)
LEMMA StepKinds ==
  ASSUME IInv, CInv, [Next]_vars
  PROVE  \/ SteadyStep /\ FlushesKept
         \/ RightStep /\ FlushesKept /\ (StaysBehind => SteadyStep)
         \/ \E t \in TxId : FlushQueue(t)
BY PlainSteady, AcquireSteady, TransactionAssumption DEF Next, TxStep

(* The front of a queue that was never flushed is right.                   *)
RightOK == \A p \in Peer : queue[p].flush = 0 => Right(queue[p])

(* A flush is remembered for good, and its timestamp is not 0.             *)
LEMMA NextRight == IInv /\ CInv /\ RightOK /\ [Next]_vars => RightOK'
<1> SUFFICES ASSUME IInv, CInv, RightOK, [Next]_vars PROVE RightOK'
  OBVIOUS
<1>1. CASE RightStep /\ FlushesKept
  BY <1>1 DEF RightOK, RightStep, FlushesKept
<1>2. ASSUME NEW t \in TxId, FlushQueue(t) PROVE RightOK'
  <2>1. tx[t].pc = "flush" /\ StagedList(t)
    BY <1>2 DEF FlushQueue, CInv, StagedOK
  <2>2. tx[t].timestamp # 0
    BY <2>1 DEF StagedList, Sealed
  <2>3. /\ queue'[Origin[t]].flush = tx[t].timestamp
        /\ \A p \in Peer \ {Origin[t]} : queue'[p].flush = queue[p].flush
    BY <1>2, FlushEffect
  <2>4. \A p \in Peer \ {Origin[t]} : Steady(queue[p], queue'[p])
    BY <1>2, FlushSteady
  <2> QED
    BY <2>2, <2>3, <2>4 DEF RightOK, Steady
<1> QED
  BY <1>1, <1>2, StepKinds, SteadyIsRight

(* An empty queue has no front.                                            *)
LEMMA InitQuiet == Init => RightOK /\ NoWarn /\ NoLostWakeup
<1> SUFFICES ASSUME Init PROVE RightOK /\ NoWarn /\ NoLostWakeup
  OBVIOUS
<1>1. ASSUME NEW p \in Peer
      PROVE  queue[p].leftmost = NULL /\ ~queue[p].warned /\ ~queue[p].asleep
  <2>1. queue[p] = QueueInit(Mine(p))
    BY DEF Init
  <2> QED
    BY SMTT(30), <2>1 DEF QueueInit
<1> QED
  BY <1>1 DEF RightOK, Right, NoWarn, NoLostWakeup

(* A step after which no handle that attached is the front is quiet on     *)
(* every queue.                                                            *)
LEMMA NextQuiet ==
  ASSUME IInv, CInv, [Next]_vars, [StaysBehind]_vars
  PROVE  \A p \in Peer : Quiet(queue[p], queue'[p])
<1>1. StaysBehind
  BY DEF StaysBehind, vars
<1>2. CASE SteadyStep
  BY <1>2 DEF SteadyStep, Steady
<1>3. CASE \E t \in TxId : FlushQueue(t)
  BY <1>3, FlushSteady
<1> QED
  BY <1>1, <1>2, <1>3, StepKinds

(* A handle that joins late becomes the front only ahead of another one of *)
(* the same destruction.                                                   *)
LEMMA JoinedFront ==
  ASSUME IInv, NEW g \in TxId, NEW p \in Peer, NEW r \in Mine(p), Untouched(r),
         NEW ts \in Nat, ~Odd(ts), NEW k, NEW l, NEW c,
         JoinedOn(g, p, r, ts, k, l, c), queue'[p].front = r
  PROVE  HasTag(queue[p], g)
<1>1. /\ QueueOK(queue[p], Mine(p)) /\ Mine(p) \in SUBSET (Nat \ {0})
      /\ g \in Nat /\ r \notin queue[p].messages
  BY MineOK, TransactionAssumption DEF IInv, KeysOK, Untouched, Linked
<1>2. /\ Joining(queue[p], r, g, ts, k, l, c)
      /\ queue' = [queue EXCEPT ![p] = c] /\ DOMAIN queue = Peer
  BY DEF JoinedOn, IInv, TypeOK
<1>3. IsFront(c, r)
  BY <1>2 DEF IsFront
<1> QED
  BY <1>1, <1>2, <1>3, JoinQueueFront

(* Who carries the tag of a destruction at another peer is a handle to one *)
(* of the nodes it destroys.                                               *)
LEMMA TaggedIsHandle ==
  ASSUME IInv, CInv, NEW a \in destroyed, NEW m \in Node, Group(m) = Group(a),
         Dest[m] # Dest[a]
  PROVE  m \in Remote /\ Dest[NodeOf[m]] = Dest[a]
<1> DEFINE g == Group(a)
<1>1. a \in Anchor /\ a \in Node /\ g \in TxId
  BY DEF IInv, TypeOK, StampsOK, Node
<1>2. Dest[a] = Origin[g] /\ Kind[g] # "send"
  BY <1>1 DEF CInv, TagsOK, AnchorTag
<1>3. g # NULL /\ g \notin Peer
  <2> HIDE DEF g
  <2> QED BY <1>1, TransactionAssumption DEF NULL
<1>4. m \notin Data
  BY <1>2, <1>3 DEF CInv, TagsOK, MessageTag
<1>5. m \notin Anchor
  <2> SUFFICES ASSUME m \in Anchor PROVE FALSE
    OBVIOUS
  <2>1. AnchorTag(m) /\ Dest[m] \in Peer
    BY MineOK DEF CInv, TagsOK
  <2> QED
    BY <1>2, <1>3, <2>1 DEF AnchorTag
<1>6. m \in Remote
  BY <1>4, <1>5 DEF Node, Handle
<1>7. NodeOf[m] \in destroyed /\ Group(NodeOf[m]) = g
  BY <1>3, <1>6 DEF CInv, TagsOK, RemoteTag
<1>8. NodeOf[m] \in Anchor
  BY <1>7 DEF IInv, TypeOK
<1>9. Dest[NodeOf[m]] = Origin[g]
  BY <1>7, <1>8 DEF CInv, TagsOK, AnchorTag
<1> QED
  BY <1>2, <1>6, <1>9

(* Only AcquireHandle attaches a handle.                                   *)
LEMMA AttachingStep ==
  ASSUME [Next]_vars, attached' # attached
  PROVE  \E t \in TxId : \E n \in Node : AcquireHandle(t, n)
<1>1. ASSUME NEW t \in TxId, NEW n \in Node,
             \/ StageMessage(t, n) \/ DestroyLocked(t, n)
             \/ StageRound(t, n) \/ SyncRound(t, n) \/ CommitRound(t, n)
      PROVE  FALSE
  BY <1>1
     DEF StageMessage, DestroyLocked, StageRound, SyncRound, CommitRound
<1>2. ASSUME NEW t \in TxId,
             \/ BeginSend(t) \/ BeginDestroy(t) \/ AcquireCommitTS(t)
             \/ ReleaseHandles(t) \/ FlushQueue(t)
      PROVE  FALSE
  BY <1>2
     DEF BeginSend, BeginDestroy, AcquireCommitTS, ReleaseHandles, FlushQueue
<1>3. ASSUME NEW a \in Anchor, CreateNode(a) \/ QueueRelease(a) \/ AcquireStrong(a)
      PROVE  FALSE
  BY <1>3 DEF CreateNode, QueueRelease, AcquireStrong
<1>4. ASSUME NEW p, Peek(p) \/ Dequeue(p) \/ RecvFail(p) \/ Poll(p)
      PROVE  FALSE
  BY <1>4 DEF Peek, Dequeue, RecvFail, Poll
<1> QED
  BY <1>1, <1>2, <1>3, <1>4 DEF Next, TxStep, vars

(* Then nobody is there to be overtaken by a handle that joins late.       *)
LEMMA JoinBehind ==
  ASSUME SingleHandles, IInv, CInv, NEW r \in Remote, NodeOf[r] \in destroyed,
         Untouched(r), NEW ts \in Nat, ~Odd(ts), NEW k, NEW l, NEW c,
         JoinedOn(Group(NodeOf[r]), Dest[r], r, ts, k, l, c)
  PROVE  queue'[Dest[r]].front # r
<1> DEFINE a == NodeOf[r]
           p == Dest[r]
<1> SUFFICES ASSUME queue'[p].front = r PROVE FALSE
  OBVIOUS
<1>1. /\ p \in Peer /\ r \in Mine(p) /\ p # Dest[a] /\ a \in destroyed
      /\ Group(a) \in TxId
  BY MineOK, TransactionAssumption DEF Node, Handle, IInv, StampsOK
<1>2. HasTag(queue[p], Group(a))
  <2> HIDE DEF a
  <2> QED
    BY <1>1, JoinedFront DEF a
<1>3. PICK m \in queue[p].messages : queue[p].group[m] = Group(a)
  BY <1>2 DEF HasTag
<1>4. m \in Mine(p)
  BY <1>1, <1>3 DEF IInv, KeysOK, QueueOK, QueueType
<1>5. m \in Node /\ Dest[m] = p /\ Group(m) = Group(a) /\ m # r
  BY <1>1, <1>3, <1>4, MineOK DEF Group, Untouched, Linked
<1>6. m \in Remote /\ Dest[NodeOf[m]] = Dest[a]
  <2> HIDE DEF a, p
  <2> QED
    BY <1>1, <1>5, TaggedIsHandle
<1> QED
  BY <1>5, <1>6 DEF SingleHandles

(* A handle that attaches does not become the front of its peer.           *)
LEMMA SingleBehind ==
  ASSUME SingleHandles, IInv, IInv', CInv, NEW r \in Remote, r \notin attached,
         NodeOf[r] \in destroyed, Join(r, NodeOf[r])
  PROVE  queue'[Dest[r]].front # r
<1> DEFINE a == NodeOf[r]
           g == Group(a)
           p == Dest[r]
           ts == IF Odd(Stamp(a)) THEN tx[g].timestamp ELSE Stamp(a)
           s == TxStage(queue[p], g, r, tx[g].async_ts)
           k == SetGroup(queue[p], r, g)
           l == Sync(k, ts)
           c == CommitSynthetic(l, r, ts)
<1>1. /\ a \in Anchor /\ a \in Node /\ g \in TxId /\ Untouched(r)
      /\ p \in Peer /\ r \in Mine(p) /\ Dest[r] = p /\ r \in Node
  BY MineOK, TransactionAssumption
     DEF Node, Handle, IInv, StampsOK, CInv, TagsOK, RemoteTag
<1>2. CASE Odd(Stamp(a)) /\ ~Sealed(g)
  <2>1. queue' = [queue EXCEPT ![p] = s]
    BY <1>2 DEF Join, Group, Stamp, IsStaging
  <2>2. tx[g].async_ts \in Nat /\ ~Odd(tx[g].async_ts)
    BY <1>1, Numbers
  <2>3. StagedOn(g, p, r, tx[g].async_ts, s)
    BY <2>1 DEF StagedOn
  <2> HIDE DEF s, g, p
  <2>4. Odd(Stamp(r)')
    BY <1>1, <2>2, <2>3, StageTouches
  <2>5. Odd(queue'[p].timestamp[r])
    BY <1>1, <2>4 DEF Stamp
  <2>6. QueueOK(queue'[p], Mine(p)) /\ Mine(p) \in SUBSET (Nat \ {0})
    BY <1>1, MineOK DEF IInv, KeysOK
  <2>7. ~IsFront(queue'[p], r)
    BY <1>1, <2>5, <2>6, FrontCommitted
  <2> QED
    BY <1>1, <2>7 DEF IsFront
<1>3. CASE ~(Odd(Stamp(a)) /\ ~Sealed(g))
  <2>1. queue' = [queue EXCEPT ![p] = c]
    BY <1>3 DEF Join, Group, Stamp, IsStaging
  <2>2. JoinedOn(g, p, r, ts, k, l, c)
    BY <2>1 DEF JoinedOn, Joining
  <2>3. ts \in Nat /\ ~Odd(ts)
    BY <1>1, <1>3, Numbers
  <2> HIDE DEF ts, k, l, c
  <2> QED
    BY <1>1, <2>2, <2>3, JoinBehind
<1> QED
  BY <1>2, <1>3

(* With single handles, a handle that attaches stays behind.               *)
LEMMA NextBehind ==
  ASSUME SingleHandles, IInv, IInv', CInv, [Next]_vars
  PROVE  StaysBehind
<1> SUFFICES ASSUME NEW r \in attached' \ attached
             PROVE  queue'[Dest[r]].front # r
  BY DEF StaysBehind
<1>1. PICK t \in TxId, n \in Node : AcquireHandle(t, n)
  BY AttachingStep
<1>2. /\ r = Carries[n] /\ r \in Remote
      /\ \/ queue' = queue
         \/ NodeOf[r] \in destroyed /\ Join(r, NodeOf[r])
         \/ NodeOf[r] \notin destroyed /\ FlushRelease(NodeOf[r])
  BY SMTT(30), <1>1, TransactionAssumption DEF AcquireHandle
<1>3. /\ r \in Node /\ Dest[r] \in Peer /\ r \in Mine(Dest[r])
      /\ NodeOf[r] \in Anchor /\ Untouched(r)
  BY <1>2, MineOK, TransactionAssumption DEF Node, Handle, IInv, ListsOK
<1>4. CASE ~Linked(r)'
  <2>1. QueueOK(queue'[Dest[r]], Mine(Dest[r])) /\ Mine(Dest[r]) \in SUBSET (Nat \ {0})
    BY <1>3, MineOK DEF IInv, KeysOK
  <2>2. ~IsFront(queue'[Dest[r]], r)
    BY <1>3, <1>4, <2>1, FrontCommitted DEF Linked
  <2> QED
    BY <2>2 DEF IsFront
<1>5. CASE queue' = queue
  BY <1>3, <1>4, <1>5 DEF Untouched, Linked
<1>6. CASE NodeOf[r] \notin destroyed /\ FlushRelease(NodeOf[r])
  BY <1>3, <1>4, <1>6, FlushReleaseCalm DEF Calm, Keeps, Untouched
<1>7. CASE NodeOf[r] \in destroyed /\ Join(r, NodeOf[r])
  BY <1>2, <1>7, SingleBehind
<1> QED
  BY <1>2, <1>5, <1>6, <1>7

-----------------------------------------------------------------------------
(* What one step does to the nodes and to the transactions *)

(* t stages n.  It takes over the time of the queue, except for a handle   *)
(* that joins on its own.                                                  *)
StagedBy(t, n) ==
  /\ ~Sealed(t) /\ ~Sealed(t)' /\ (Group(n) \in TxId => Group(n) = t)
  /\ Group(n)' = t /\ Odd(Stamp(n)')
  /\ Clock(Dest[n]) <= tx'[t].timestamp \/ LateJoins(t)

(* t collects the handle n of an anchor that it destroys.                  *)
TaggedBy(t, n) ==
  /\ ~Sealed(t) /\ Untouched(n) /\ Group(n) = NULL
  /\ Group(n)' = t /\ Untouched(n)'

CommittedBy(t, n) ==
  /\ Synced(t) /\ Linked(n) /\ Group(n) = t
  /\ Group(n)' = t /\ Stamp(n)' # 0

(* The handle n attaches when t is sealed.                                 *)
JoinsLate(t, n) ==
  /\ Sealed(t) /\ LateJoins(t) /\ Untouched(n) /\ Group(n) = NULL
  /\ Group(n)' = t
  /\ Linked(n)' => Behind(queue[Dest[n]], tx[t].timestamp, t)

(* A release notification *)
Announced(n) == Group(n) \notin TxId /\ Group(n)' \notin TxId

NodeStep(n) ==
  \/ Keeps(n) \/ Announced(n)
  \/ \E t \in TxId :
       StagedBy(t, n) \/ TaggedBy(t, n) \/ CommittedBy(t, n) \/ JoinsLate(t, n)

(* A sealed transaction keeps its timestamp and stays synced; one that is  *)
(* open only moves on in time.                                             *)
Forward(t) ==
  /\ Sealed(t) => Sealed(t)' /\ tx'[t].timestamp = tx[t].timestamp
  /\ Synced(t) => Synced(t)'
  /\ tx[t].timestamp <= tx'[t].timestamp
  /\ Sealed(t)' => Sealed(t) \/ tx[t].timestamp < tx'[t].timestamp

Moves == (\A n \in Node : NodeStep(n)) /\ (\A t \in TxId : Forward(t))

(* Neither NULL nor a peer is a transaction.                               *)
LEMMA NoTx == NULL \notin TxId /\ \A p \in Peer : p \notin TxId
BY TransactionAssumption DEF NULL

(* A transaction that does not change moves forward.                       *)
LEMMA SameForward ==
  ASSUME IInv, NEW t \in TxId, tx'[t] = tx[t]
  PROVE  Forward(t)
<1>1. tx[t].timestamp \in Nat
  BY Numbers
<1>2. tx[t].timestamp <= tx[t].timestamp
  BY SMTT(30), <1>1
<1> QED
  BY <1>2 DEF Forward, Sealed, Synced

(* A node of t that the caller or bus1_tx_commit() stages                  *)
LEMMA StagesMoves ==
  ASSUME IInv, CInv, NEW t \in TxId, NEW n \in Node,
         StageMessage(t, n) \/ StageRound(t, n)
  PROVE  Moves
<1>1. /\ tx[t].pc = "open" /\ StageSync(t, n, queue[Dest[n]])
      /\ n \in tx[t].todo \cap Data \/ n \in tx[t].postponed
  BY DEF StageMessage, StageRound
<1>2. /\ Untouched(n) /\ Touches(n) /\ Stages(t, n)
      /\ tx'[t].timestamp = Clock(Dest[n])'
  BY <1>1, StageSyncEffect
<1>3. Group(n) \in TxId => Group(n) = t
  <2>1. PendingTags(t) /\ NULL \notin TxId
    BY NoTx DEF CInv, TagsOK
  <2> QED
    BY <1>1, <2>1 DEF PendingTags
<1>4. Clock(Dest[n]) <= tx'[t].timestamp
  <2>1. Dest[n] \in Peer /\ Time /\ tx'[t].timestamp = Clock(Dest[n])'
    BY <1>2, MineOK DEF Touches
  <2> QED
    BY <2>1 DEF Time
<1>5. ~Sealed(t) /\ ~Sealed(t)'
  BY <1>2 DEF Stages, Sealed
<1>6. StagedBy(t, n)
  BY <1>2, <1>3, <1>4, <1>5 DEF StagedBy, Stages
<1>7. Forward(t)
  BY <1>2, <1>5 DEF Forward, Stages, Synced
<1>8. \A u \in TxId \ {t} : Forward(u)
  BY <1>2, SameForward DEF Stages
<1> QED
  BY <1>2, <1>6, <1>7, <1>8 DEF Moves, NodeStep, Touches

(* DestroyLocked                                                           *)
LEMMA DestroyMoves ==
  ASSUME IInv, CInv, NEW t \in TxId, NEW a \in Node, DestroyLocked(t, a)
  PROVE  Moves
<1>1. DestroysOne(t, a) /\ a \in Anchor /\ a \notin destroyed
  BY DestroyEffect
<1>2. ~Sealed(t) /\ ~Sealed(t)'
  BY <1>1 DEF DestroysOne, Sealed
<1>3. ASSUME NEW r \in Collected(a) PROVE NodeStep(r)
  BY <1>1, <1>2, <1>3, CollectedUnused DEF DestroysOne, TaggedBy, NodeStep
<1>4. Group(a) \notin TxId
  <2>1. AnchorTag(a) /\ Dest[a] \in Peer
    BY <1>1, MineOK DEF CInv, TagsOK
  <2> QED
    BY <1>1, <2>1, NoTx DEF AnchorTag
<1>5. Clock(Dest[a]) <= tx'[t].timestamp
  <2>1. Dest[a] \in Peer /\ Time /\ tx'[t].timestamp = Clock(Dest[a])'
    BY <1>1, MineOK DEF DestroysOne
  <2> QED
    BY <2>1 DEF Time
<1>6. StagedBy(t, a)
  BY <1>1, <1>2, <1>4, <1>5 DEF DestroysOne, StagedBy
<1>7. Forward(t)
  BY <1>1, <1>2 DEF Forward, DestroysOne, Synced
<1>8. \A u \in TxId \ {t} : Forward(u)
  BY <1>1, SameForward DEF DestroysOne
<1>9. \A m \in Node : NodeStep(m)
  BY <1>1, <1>3, <1>6 DEF DestroysOne, NodeStep
<1> QED
  BY <1>7, <1>8, <1>9 DEF Moves

(* CommitRound                                                             *)
LEMMA CommitMoves ==
  ASSUME IInv, CInv, NEW t \in TxId, NEW n \in Node, CommitRound(t, n)
  PROVE  Moves
<1>1. Touches(n) /\ CommitsOne(t, n)
  BY CommitEffect
<1>2. /\ tx[t].pc = "sealed" /\ tx[t].unsynced = {} /\ n \in tx[t].sync
      /\ tx'[t].pc \in {Returned(t), "sealed"}
      /\ tx'[t].timestamp = tx[t].timestamp
      /\ tx'[t].unsynced = {} /\ tx'[t].async = tx[t].async
  BY <1>1 DEF CommitsOne
<1>3. Group(n) = t /\ Linked(n) /\ tx[t].async = {}
  BY <1>2, CommitReady
<1>4. Sealed(t) /\ Sealed(t)'
  BY <1>2 DEF Sealed, Returned
<1>5. tx[t].timestamp # 0
  BY <1>4 DEF CInv, StagedOK, StagedList
<1>6. CommittedBy(t, n)
  BY <1>1, <1>2, <1>3, <1>4, <1>5 DEF CommittedBy, CommitsOne, Synced
<1>7. tx[t].timestamp <= tx'[t].timestamp
  <2>1. tx[t].timestamp \in Nat
    BY Numbers
  <2> QED
    BY SMTT(30), <1>2, <2>1
<1>8. Forward(t)
  BY <1>2, <1>3, <1>4, <1>7 DEF Forward, Synced
<1>9. \A u \in TxId \ {t} : Forward(u)
  BY <1>1, SameForward DEF CommitsOne
<1> QED
  BY <1>1, <1>6, <1>8, <1>9 DEF Moves, NodeStep, Touches

(* bus1_tx_join()                                                          *)
LEMMA JoinMoves ==
  ASSUME IInv, CInv, NEW r \in Remote, r \notin attached,
         NodeOf[r] \in destroyed, Join(r, NodeOf[r]),
         \E n \in Data : Carries[n] = r /\ r # NULL
  PROVE  Moves
<1>1. /\ NodeOf[r] \in Anchor /\ NodeOf[r] \in Node /\ Dest[r] \in Peer
      /\ r \in Mine(Dest[r]) /\ r \in Node
  BY MineOK, TransactionAssumption DEF Node, Handle
<1>2. PICK g \in TxId : g = Group(NodeOf[r])
  BY DEF IInv, StampsOK
<1> DEFINE a == NodeOf[r]
           p == Dest[r]
           ts == IF Odd(Stamp(a)) THEN tx[g].timestamp ELSE Stamp(a)
           s == TxStage(queue[p], g, r, tx[g].async_ts)
           k == SetGroup(queue[p], r, g)
           l == Sync(k, ts)
           c == CommitSynthetic(l, r, ts)
<1>3. Odd(Stamp(a)) \/ CommittedAt(g, Stamp(a))
  BY <1>2 DEF IInv, StampsOK
<1>4. Untouched(r) /\ Group(r) = NULL /\ Group(r) \notin TxId
  BY NoTx DEF CInv, TagsOK, RemoteTag
<1>5. LateJoins(g)
  <2>1. AnchorTag(a)
    BY <1>1 DEF CInv, TagsOK
  <2> QED
    BY <1>2, <2>1 DEF AnchorTag, LateJoins
<1>6. CASE Odd(Stamp(a)) /\ ~Sealed(g)
  <2>1. /\ queue' = [queue EXCEPT ![p] = s]
        /\ tx' = [tx EXCEPT ![g].async = @ \cup {r}, ![g].async_ts = s.clock]
    BY <1>2, <1>6 DEF Join, Group, Stamp, IsStaging
  <2>2. StagedOn(g, p, r, tx[g].async_ts, s)
    BY <2>1 DEF StagedOn
  <2>3. tx[g].pc = "open"
    <3>1. StagedNode(a) /\ StagedList(g) /\ tx[g] \in TxType
      BY <1>1, Numbers DEF CInv, StagedOK
    <3>2. tx[g].sync \cup tx[g].async # {}
      BY <1>2, <1>6, <3>1 DEF StagedNode
    <3> QED
      BY <1>6, <3>1, <3>2 DEF StagedList, Sealed, TxType
  <2> HIDE DEF s
  <2>4. Touches(r) /\ Stages(g, r)
    BY <1>1, <2>1, <2>2, <2>3, JoinEarlyEffect
  <2>5. ~Sealed(g)'
    BY <2>4 DEF Stages, Sealed
  <2>6. StagedBy(g, r)
    BY <1>4, <1>5, <1>6, <2>4, <2>5 DEF StagedBy, Stages
  <2>7. Forward(g)
    BY <1>6, <2>4, <2>5 DEF Forward, Stages, Synced
  <2>8. \A u \in TxId \ {g} : Forward(u)
    BY <2>4, SameForward DEF Stages
  <2> QED
    BY <1>1, <2>4, <2>6, <2>7, <2>8 DEF Moves, NodeStep, Touches
<1>7. CASE ~(Odd(Stamp(a)) /\ ~Sealed(g))
  <2>1. queue' = [queue EXCEPT ![p] = c] /\ tx' = tx
    BY <1>2, <1>7 DEF Join, Group, Stamp, IsStaging
  <2>2. Joining(queue[p], r, g, ts, k, l, c)
    BY DEF Joining
  <2>3. JoinedOn(g, p, r, ts, k, l, c)
    BY <2>1, <2>2 DEF JoinedOn
  <2>4. CommittedAt(g, ts) /\ ts \in Nat /\ ~Odd(ts)
    BY <1>1, <1>3, <1>7, Numbers DEF CommittedAt
  <2> HIDE DEF ts, k, l, c, p
  <2>5. Touches(r) /\ Group(r)' = g
    BY <1>1, <1>4, <2>3, <2>4, JoinTouches DEF p
  <2>6. Linked(r)' => Behind(queue[p], ts, g)
    <3>1. /\ QueueOK(queue[p], Mine(p)) /\ Mine(p) \in SUBSET (Nat \ {0})
          /\ g \in Nat /\ r \notin queue[p].messages /\ DOMAIN queue = Peer
      BY <1>1, <1>4, MineOK, TransactionAssumption
         DEF IInv, KeysOK, TypeOK, Untouched, Linked, p
    <3>2. queue'[p] = c
      BY <1>1, <2>1, <3>1 DEF p
    <3>3. r \in c.messages => Behind(queue[p], ts, g)
      BY <1>1, <2>2, <2>4, <3>1, JoinQueueLinked DEF p
    <3> QED
      BY <3>2, <3>3 DEF Linked, p
  <2>7. JoinsLate(g, r)
    BY <1>4, <1>5, <2>4, <2>5, <2>6 DEF JoinsLate, CommittedAt, p
  <2>8. \A u \in TxId : Forward(u)
    BY <2>1, SameForward
  <2> QED
    BY <1>1, <2>5, <2>7, <2>8 DEF Moves, NodeStep, Touches
<1> QED
  BY <1>6, <1>7

(* AcquireHandle                                                           *)
LEMMA AcquireMoves ==
  ASSUME IInv, CInv, NEW t \in TxId, NEW n \in Node, AcquireHandle(t, n)
  PROVE  Moves
<1> DEFINE r == Carries[n]
           a == NodeOf[r]
<1>1. n \in Data /\ r \in Remote /\ r # NULL /\ r \notin attached /\ a \in Anchor
  BY SMTT(30), TransactionAssumption DEF AcquireHandle
<1>2. \/ queue' = queue /\ tx' = tx
      \/ a \in destroyed /\ Join(r, a)
      \/ a \notin destroyed /\ FlushRelease(a) /\ tx' = tx
  BY DEF AcquireHandle
<1>3. \E m \in Data : Carries[m] = r /\ r # NULL
  BY <1>1
<1> HIDE DEF r
<1>4. CASE a \in destroyed /\ Join(r, a)
  BY <1>1, <1>3, <1>4, JoinMoves
<1>5. CASE Calm /\ tx' = tx
  BY <1>5, SameForward DEF Calm, Moves, NodeStep
<1> QED
  BY <1>1, <1>2, <1>4, <1>5, StillCalm, FlushReleaseCalm

(* AcquireCommitTS and SyncRound                                           *)
LEMMA SealMoves ==
  ASSUME IInv, NEW t \in TxId, AcquireCommitTS(t)
  PROVE  Moves
<1>1. Calm /\ Seals(t)
  BY SealEffect
<1>2. tx[t].pc = "open" /\ Later(tx[t].timestamp, tx[t].async_ts) + 2 <= tx'[t].timestamp
      /\ tx'[t].timestamp \in Nat
  BY <1>1 DEF Seals
<1>3. tx[t].timestamp \in Nat /\ tx[t].async_ts \in Nat
  BY Numbers
<1>4. tx[t].timestamp < tx'[t].timestamp /\ tx[t].timestamp <= tx'[t].timestamp
  BY SMTT(30), <1>2, <1>3 DEF Later
<1>5. ~Sealed(t)
  BY <1>2 DEF Sealed
<1>6. Forward(t)
  BY <1>4, <1>5 DEF Forward, Synced
<1>7. \A u \in TxId \ {t} : Forward(u)
  BY <1>1, SameForward DEF Seals
<1> QED
  BY <1>1, <1>6, <1>7 DEF Moves, NodeStep, Calm

LEMMA SyncMoves ==
  ASSUME IInv, NEW t \in TxId, NEW n \in Node, SyncRound(t, n)
  PROVE  Moves
<1>1. Calm /\ SyncsOne(t, n)
  BY SyncEffect
<1>2. /\ tx[t].pc = "sealed" /\ tx'[t].pc = "sealed" /\ n \in tx[t].unsynced
      /\ tx'[t].timestamp = tx[t].timestamp /\ tx[t].timestamp \in Nat
  BY <1>1, Numbers DEF SyncsOne
<1>3. tx[t].timestamp <= tx'[t].timestamp
  BY SMTT(30), <1>2
<1>4. Sealed(t) /\ Sealed(t)' /\ ~Synced(t)
  BY <1>2 DEF Sealed, Synced
<1>5. Forward(t)
  BY <1>2, <1>3, <1>4 DEF Forward
<1>6. \A u \in TxId \ {t} : Forward(u)
  BY <1>1, SameForward DEF SyncsOne
<1> QED
  BY <1>1, <1>5, <1>6 DEF Moves, NodeStep, Calm

(* A caller that begins or goes on moves only its own pc and todo list.    *)
LEMMA CallerMoves ==
  ASSUME IInv, CInv, NEW t \in TxId,
         \/ BeginSend(t) \/ BeginDestroy(t) \/ ReleaseHandles(t) \/ FlushQueue(t)
  PROVE  Moves
<1>1. tx[t] \in TxType /\ tx[t].timestamp \in Nat
  BY Numbers
<1>2. PICK x :
        /\ tx' = [tx EXCEPT ![t] = x] /\ x.timestamp = tx[t].timestamp
        /\ x.unsynced = tx[t].unsynced /\ x.async = tx[t].async
        /\ \/ tx[t].pc = "idle" /\ x.pc = "open"
           \/ Sealed(t) /\ x.pc \in {"flush", "done"}
  <2>1. CASE BeginSend(t) \/ BeginDestroy(t)
    <3>1. PICK S : tx' = [tx EXCEPT ![t].pc = "open", ![t].todo = S] /\ tx[t].pc = "idle"
      BY <2>1 DEF BeginSend, BeginDestroy, Begin
    <3> DEFINE x == [tx[t] EXCEPT !.pc = "open", !.todo = S]
    <3>2. tx' = [tx EXCEPT ![t] = x]
      BY <3>1 DEF IInv, TypeOK
    <3>3. /\ x.timestamp = tx[t].timestamp /\ x.pc = "open"
          /\ x.unsynced = tx[t].unsynced /\ x.async = tx[t].async
      BY <1>1 DEF TxType
    <3> QED
      BY <3>1, <3>2, <3>3
  <2>2. CASE ReleaseHandles(t) \/ FlushQueue(t)
    <3>1. PICK pc \in {"flush", "done"} :
            Sealed(t) /\ tx' = [tx EXCEPT ![t].pc = pc]
      BY <2>2 DEF ReleaseHandles, FlushQueue, Sealed
    <3> DEFINE x == [tx[t] EXCEPT !.pc = pc]
    <3>2. tx' = [tx EXCEPT ![t] = x]
      BY <3>1 DEF IInv, TypeOK
    <3>3. /\ x.timestamp = tx[t].timestamp /\ x.pc = pc
          /\ x.unsynced = tx[t].unsynced /\ x.async = tx[t].async
      BY <1>1 DEF TxType
    <3> QED
      BY <3>1, <3>2, <3>3
  <2> QED
    BY <2>1, <2>2
<1>3. tx'[t] = x /\ \A u \in TxId \ {t} : tx'[u] = tx[u]
  BY <1>2, TxUpdate
<1>4. tx[t].timestamp <= tx'[t].timestamp
  BY SMTT(30), <1>1, <1>2, <1>3
<1>5. \/ ~Sealed(t) /\ ~Sealed(t)'
      \/ Sealed(t) /\ Sealed(t)'
  BY <1>2, <1>3 DEF Sealed
<1>6. Forward(t)
  BY <1>2, <1>3, <1>4, <1>5 DEF Forward, Synced
<1>7. \A u \in TxId \ {t} : Forward(u)
  BY <1>3, SameForward
<1>8. \A m \in Node : Keeps(m)
  <2>1. CASE queue' = queue
    BY <2>1, StillCalm DEF Calm
  <2>2. CASE FlushQueue(t)
    BY <2>2, FlushEffect
  <2> QED
    BY <2>1, <2>2 DEF BeginSend, BeginDestroy, ReleaseHandles
<1> QED
  BY <1>6, <1>7, <1>8 DEF Moves, NodeStep

(* The steps outside of the transactions                                   *)
LEMMA OtherMoves ==
  ASSUME IInv, CInv,
         \/ \E a \in Anchor : CreateNode(a) \/ QueueRelease(a) \/ AcquireStrong(a)
         \/ \E p \in Peer : Peek(p) \/ Dequeue(p) \/ RecvFail(p) \/ Poll(p)
         \/ UNCHANGED vars
  PROVE  Moves
<1>1. tx' = tx
  BY DEF CreateNode, QueueRelease, AcquireStrong, Peek, Dequeue, RecvFail,
               Poll, vars
<1>2. \A t \in TxId : Forward(t)
  BY <1>1, SameForward
<1>3. ASSUME NEW a \in Anchor, QueueRelease(a) PROVE \A m \in Node : NodeStep(m)
  <2>1. Touches(a) /\ Group(a)' = Dest[a] /\ a \notin destroyed
    BY <1>3, ReleaseEffect
  <2>2. AnchorTag(a) /\ Dest[a] \in Peer
    BY MineOK DEF CInv, TagsOK, Node, Handle
  <2>3. Announced(a)
    BY <2>1, <2>2, NoTx DEF AnchorTag, Announced
  <2> QED
    BY <2>1, <2>3 DEF Touches, NodeStep
<1>4. ASSUME NEW a \in Anchor, AcquireStrong(a) PROVE Calm
  BY <1>4, FlushReleaseCalm DEF AcquireStrong
<1>5. ASSUME NEW p \in Peer, Peek(p) \/ Dequeue(p) \/ Poll(p) PROVE Calm
  BY <1>5, PeekCalm, DequeueCalm, PollCalm
<1>6. CASE queue' = queue
  BY <1>2, <1>6, StillCalm DEF Calm, Moves, NodeStep
<1>7. CASE Calm
  BY <1>2, <1>7 DEF Calm, Moves, NodeStep
<1> QED
  BY <1>2, <1>3, <1>4, <1>5, <1>6, <1>7
     DEF Moves, CreateNode, RecvFail, vars

(* Every step moves so.                                                    *)
LEMMA NextMoves ==
  ASSUME IInv, CInv, [Next]_vars
  PROVE  Moves
BY StagesMoves, DestroyMoves, CommitMoves, AcquireMoves, SealMoves,
   SyncMoves, CallerMoves, OtherMoves, TransactionAssumption DEF Next, TxStep
=============================================================================
