---------------------------- MODULE Transaction ----------------------------
(***************************************************************************)
(* Transactions over the queues of several peers (ipc/bus1/tx.[ch], and    *)
(* the callers that build, commit and consume them in peer.c, message.c    *)
(* and handle.c).                                                          *)
(*                                                                         *)
(* A transaction multicasts a set of queue nodes: it stages each of them,  *)
(* takes a commit timestamp from its origin, syncs the clocks of all       *)
(* destinations and then commits each node.  Peers run concurrently and    *)
(* only ever lock one queue at a time, so every critical section is one    *)
(* step here.  Three kinds of nodes exist: data messages, the notification *)
(* node of an anchor (the owner's handle to its node) and that of a remote *)
(* handle.  The linked lists of a transaction are sets: their order is     *)
(* arbitrary.                                                              *)
(***************************************************************************)
EXTENDS Queue, Sequences

CONSTANTS
  Peer,      \* peers; a peer's address is the group tag of release messages
  TxId,      \* transactions, named by their address, which is the group tag
  Data, Anchor, Remote,  \* the three kinds of queue nodes, by address
  Dest,      \* the peer whose queue a node goes to: receiver, owner, holder
  NodeOf,    \* the anchor a remote handle refers to
  Target,    \* the anchor a data message is sent to
  Carries,   \* the handle a data message transfers to its receiver, or NULL
  Origin,    \* the peer a transaction belongs to
  Kind,      \* "send", "destroy", "destroy_release" or "reset"
  Sends,     \* the data messages of a "send"
  Destroys,  \* the anchors of a "destroy" or "destroy_release"
  Held,      \* the remote handles their holders own from the start
  Fresh,     \* the anchors that their owners create later on
  Poller,    \* the peers with a task in poll()
  MaxClock   \* bound: no release notification to a peer beyond this time

Node == Data \cup Anchor \cup Remote
Handle == Anchor \cup Remote
Mine(p) == {n \in Node : Dest[n] = p}

ASSUME TransactionAssumption ==
  /\ Peer \subseteq Nat \ {0} /\ TxId \subseteq Nat \ {0}
  /\ Node \subseteq Nat \ {0}
  /\ Peer \cap TxId = {}
  /\ Data \cap Handle = {} /\ Anchor \cap Remote = {}
  /\ Dest \in [Node -> Peer]
  /\ NodeOf \in [Remote -> Anchor]
  /\ \A r \in Remote : Dest[r] # Dest[NodeOf[r]]
  /\ Target \in [Data -> Anchor]
  /\ \A n \in Data : Dest[Target[n]] = Dest[n]
  /\ Carries \in [Data -> Remote \cup {NULL}]
  /\ \A n \in Data : Carries[n] = NULL \/ Dest[Carries[n]] = Dest[n]
  /\ Origin \in [TxId -> Peer]
  /\ Kind \in [TxId -> {"send", "destroy", "destroy_release", "reset"}]
  /\ Sends \in [TxId -> SUBSET Data]
  /\ \A t, u \in TxId : t # u => Sends[t] \cap Sends[u] = {}
  /\ Destroys \in [TxId -> SUBSET Anchor]
  /\ \A t \in TxId : \A a \in Destroys[t] : Dest[a] = Origin[t]
  /\ Fresh \subseteq Anchor
  /\ Held \subseteq Remote
  /\ \A r \in Held : NodeOf[r] \notin Fresh
  /\ Poller \subseteq Peer
  /\ MaxClock \in [Peer -> Nat]

VARIABLES
  queue,      \* data.queue of each peer
  tx,         \* the transactions (struct bus1_tx and the caller's progress)
  attached,   \* remote handles linked into the map_handles of their anchor
  destroyed,  \* anchors with BUS1_HANDLE_BIT_DESTROYED
  public,     \* handles with n_user > 0; a destroyed anchor without is RELEASED
  locked,     \* who holds the data.lock of a peer across several steps
  peeked,     \* the data message a RECV of a peer is working on
  delivered,  \* what each peer received, in order
  before      \* transactions over, or seen by a receiver, when one began

vars == <<queue, tx, attached, destroyed, public, locked, peeked, delivered,
          before>>

NoEntry ==
  [node |-> NULL, timestamp |-> 0, group |-> NULL, more |-> FALSE,
   handle |-> NULL]

TxInit ==
  [pc |-> "idle", todo |-> {}, postponed |-> {}, sync |-> {},
   unsynced |-> {}, async |-> {}, timestamp |-> 0, async_ts |-> 0]

Init ==
  /\ queue = [p \in Peer |-> QueueInit(Mine(p))]
  /\ tx = [t \in TxId |-> TxInit]
  /\ attached = Held
  /\ destroyed = {}
  /\ public = (Anchor \ Fresh) \cup Held
  /\ locked = [p \in Peer |-> NULL]
  /\ peeked = [p \in Peer |-> NoEntry]
  /\ delivered = [p \in Peer |-> <<>>]
  /\ before = [t \in TxId |-> {}]

-----------------------------------------------------------------------------
Unlocked(p) == locked[p] = NULL

(* local.lock serialises the calls of one peer: one transaction or one     *)
(* RECV at a time.                                                         *)
LocalUnlocked(p) ==
  /\ peeked[p] = NoEntry
  /\ \A t \in TxId : Origin[t] = p => tx[t].pc \in {"idle", "done"}

Sealed(t) == tx[t].pc \notin {"idle", "open"}

AnchorOf(h) == IF h \in Anchor THEN h ELSE NodeOf[h]

(* Faulty: a handle is dead as soon as its destruction is staged.          *)
LiveUntilStaged(h, t) ==
  LET s == queue[Dest[h]].timestamp[h]
  IN  AnchorOf(h) \notin destroyed \/ s = 0 \/ (~Odd(s) /\ t <= s)

is_live_at(h, t) ==
  LET s == queue[Dest[h]].timestamp[h]
  IN  AnchorOf(h) \notin destroyed \/ s = 0 \/ Odd(s) \/ t <= s

(* bus1_tx_stage() on the queue q of the destination.  The caller stores   *)
(* the clock of the result as timestamp of the list the node is on.        *)
TxStage(q, t, n, ts) ==
  LET misused == Sealed(t) \/ q.group[n] \notin {NULL, t}
  IN  Stage(Warn(SetGroup(q, n, t), misused), n, ts)

StageSync(t, n, q) ==
  LET s == TxStage(q, t, n, tx[t].timestamp)
  IN  /\ queue' = [queue EXCEPT ![Dest[n]] = s]
      /\ tx' = [tx EXCEPT ![t].sync = @ \cup {n},
                          ![t].timestamp = s.clock,
                          ![t].todo = @ \ {n},
                          ![t].postponed = @ \ {n}]

-----------------------------------------------------------------------------
(* Faulty variants of the steps below, one mistake each: the properties    *)
(* are checked to notice them.                                             *)

SyncNothing(t, n) ==
  /\ tx[t].pc = "sealed" /\ n \in tx[t].unsynced
  /\ locked[Dest[n]] = NULL
  /\ tx' = [tx EXCEPT ![t].unsynced = @ \ {n}]
  /\ UNCHANGED <<queue, attached, destroyed, public, locked, peeked, delivered,
                 before>>

CommitEarly(t, n) ==
  LET q == queue[Dest[n]]
      done == IF Kind[t] \in {"send", "destroy"} THEN "done" ELSE "release"
  IN  /\ tx[t].pc = "sealed"
      /\ n \in tx[t].sync \ tx[t].unsynced
      /\ Unlocked(Dest[n])
      /\ queue' = [queue EXCEPT
                     ![Dest[n]] = CommitStaged(q, n, tx[t].timestamp)]
      /\ tx' = [tx EXCEPT ![t].sync = @ \ {n},
                          ![t].pc = IF tx[t].sync = {n} THEN done ELSE @]
      /\ UNCHANGED <<attached, destroyed, public, locked, peeked, delivered,
                     before>>

DestroyWithoutInit(t, a) ==
  LET p == Origin[t]
      remotes == {r \in attached : NodeOf[r] = a}
      s == TxStage(queue[p], t, a, tx[t].timestamp)
  IN  /\ tx[t].pc = "open" /\ a \in tx[t].todo \cap Anchor
      /\ destroyed' = destroyed \cup {a}
      /\ queue' = [queue EXCEPT ![p] = s]
      /\ tx' = [tx EXCEPT ![t].sync = @ \cup {a}, ![t].timestamp = s.clock,
                          ![t].todo = @ \ {a},
                          ![t].postponed = @ \cup remotes]
      /\ public' = public \cup {a}
      /\ locked' = [locked EXCEPT ![p] = IF tx[t].todo = {a} THEN NULL ELSE @]
      /\ UNCHANGED <<attached, peeked, delivered, before>>

DequeueFlushed(p) ==
  LET q == queue[p]
      n == q.front
  IN  /\ LocalUnlocked(p) /\ Unlocked(p)
      /\ n # NULL
      /\ queue' = [queue EXCEPT ![p] = Remove(q, n)]
      /\ delivered' = [delivered EXCEPT ![p] = Append(@,
                         [node |-> n, timestamp |-> q.timestamp[n],
                          group |-> q.group[n], more |-> More(q),
                          handle |-> NULL])]
      /\ UNCHANGED <<tx, attached, destroyed, public, locked, peeked, before>>

-----------------------------------------------------------------------------
(* The callers: SEND, NODES_DESTROY, PEER_RESET *)

Observed ==
  {t \in TxId : \E p \in Peer : \E i \in DOMAIN delivered[p] :
                  delivered[p][i].group = t}

Completed == {t \in TxId : tx[t].pc = "done"}

Exists(a) == a \in public \cup destroyed

(* TRANSFER with BUS1_HANDLE_INVALID or a new ID creates a node.           *)
CreateNode(a) ==
  /\ ~Exists(a)
  /\ LocalUnlocked(Dest[a])
  /\ public' = public \cup {a}
  /\ UNCHANGED <<queue, tx, attached, destroyed, locked, peeked, delivered,
                 before>>

Begin(t) ==
  /\ tx[t].pc = "idle"
  /\ LocalUnlocked(Origin[t])
  /\ before' = [before EXCEPT ![t] = Completed \cup Observed]

BeginSend(t) ==
  /\ Kind[t] = "send"
  /\ \A n \in Sends[t] : Exists(Target[n])
  /\ \A n \in Sends[t] : Carries[n] # NULL => Exists(NodeOf[Carries[n]])
  /\ Begin(t)
  /\ tx' = [tx EXCEPT ![t].pc = "open", ![t].todo = Sends[t]]
  /\ UNCHANGED <<queue, attached, destroyed, public, locked, peeked, delivered>>

(* The data.lock is kept until the last anchor is staged.                  *)
BeginDestroy(t) ==
  LET p == Origin[t]
      anchors == IF Kind[t] = "reset"
                 THEN (Anchor \cap Mine(p) \cap public) \ destroyed
                 ELSE Destroys[t]
  IN  /\ Kind[t] # "send"
      /\ anchors \cap destroyed = {}
      /\ Begin(t)
      /\ Unlocked(p)
      /\ tx' = [tx EXCEPT ![t].pc = "open", ![t].todo = anchors]
      /\ locked' = [locked EXCEPT ![p] = IF anchors = {} THEN @ ELSE t]
      /\ UNCHANGED <<queue, attached, destroyed, public, peeked, delivered>>

(* bus1_tx_join(): r joins the destruction of its anchor a, on the queues  *)
(* of the holder and, to read the anchor's node, of the owner.             *)
Join(r, a) ==
  LET p == Dest[r]
      whom == queue[Dest[a]]
      g == whom.group[a]
      ts == IF IsStaging(whom, a) THEN tx[g].timestamp ELSE whom.timestamp[a]
      s == TxStage(queue[p], g, r, tx[g].async_ts)
      q == Sync(SetGroup(queue[p], r, g), ts)
  IN  IF IsStaging(whom, a) /\ ~Sealed(g)
      THEN /\ queue' = [queue EXCEPT ![p] = s]
           /\ tx' = [tx EXCEPT ![g].async = @ \cup {r},
                               ![g].async_ts = s.clock]
      ELSE /\ queue' = [queue EXCEPT ![p] = CommitSynthetic(q, r, ts)]
           /\ UNCHANGED tx

FlushRelease(a) ==
  LET q == queue[Dest[a]]
  IN  queue' = [queue EXCEPT ![Dest[a]] =
                  IF IsQueued(q, a) THEN Remove(q, a) ELSE q]

(* The handle in message n is acquired before n is staged.  A first        *)
(* reference attaches it to its anchor: it joins a destruction in progress *)
(* or else withdraws a release notification that is still queued.          *)
AcquireHandle(t, n) ==
  LET r == Carries[n]
      a == NodeOf[r]
  IN  /\ tx[t].pc = "open" /\ n \in tx[t].todo \cap Data
      /\ r # NULL /\ r \notin attached
      /\ Unlocked(Dest[r]) /\ Unlocked(Dest[a])
      /\ attached' = attached \cup {r}
      /\ \/ a \notin public /\ UNCHANGED <<queue, tx>>
         \/ a \in public /\ a \in destroyed /\ Join(r, a)
         \/ a \in public /\ a \notin destroyed /\ FlushRelease(a) /\ UNCHANGED tx
      /\ UNCHANGED <<destroyed, public, locked, peeked, delivered, before>>

(* bus1_message_stage() takes no lock.                                     *)
StageMessage(t, n) ==
  /\ tx[t].pc = "open" /\ n \in tx[t].todo \cap Data
  /\ Carries[n] \in attached \cup {NULL}
  /\ StageSync(t, n, queue[Dest[n]])
  /\ UNCHANGED <<attached, destroyed, public, locked, peeked, delivered, before>>

(* bus1_handle_destroy_locked(): the attached remotes are only collected,  *)
(* their queues cannot be locked here, but bus1_tx_push() tags them with   *)
(* the transaction.  An anchor that has no user reference yet gets one.    *)
DestroyLocked(t, a) ==
  LET p == Origin[t]
      idle == IF IsQueued(queue[p], a) THEN Remove(queue[p], a) ELSE queue[p]
      remotes == {r \in attached : NodeOf[r] = a}
      used == {r \in remotes : queue[Dest[r]].group[r] # NULL}
      q == NodeInit(Warn(idle, used # {}), a)
      s == TxStage(q, t, a, tx[t].timestamp)
  IN  /\ tx[t].pc = "open" /\ a \in tx[t].todo \cap Anchor
      /\ destroyed' = destroyed \cup {a}
      /\ queue' = [x \in Peer |-> IF x = p THEN s
                                  ELSE SetGroups(queue[x], remotes \ used, t)]
      /\ tx' = [tx EXCEPT ![t].sync = @ \cup {a},
                          ![t].timestamp = s.clock,
                          ![t].todo = @ \ {a},
                          ![t].postponed = @ \cup (remotes \ used)]
      /\ public' = public \cup {a}
      /\ locked' = [locked EXCEPT ![p] = IF tx[t].todo = {a} THEN NULL ELSE @]
      /\ UNCHANGED <<attached, peeked, delivered, before>>

-----------------------------------------------------------------------------
(* bus1_tx_commit() *)

StageRound(t, n) ==
  /\ tx[t].pc = "open" /\ tx[t].todo = {}
  /\ n \in tx[t].postponed
  /\ Unlocked(Dest[n])
  /\ StageSync(t, n, queue[Dest[n]])
  /\ UNCHANGED <<attached, destroyed, public, locked, peeked, delivered, before>>

(* Where the caller goes on when bus1_tx_commit() has returned.            *)
Returned(t) == IF Kind[t] \in {"send", "destroy"} THEN "done" ELSE "release"

AcquireCommitTS(t) ==
  LET p == Origin[t]
      q == Tick(Sync(queue[p], Later(tx[t].timestamp, tx[t].async_ts)))
  IN  /\ tx[t].pc = "open" /\ tx[t].todo = {} /\ tx[t].postponed = {}
      /\ Unlocked(p)
      /\ queue' = [queue EXCEPT ![p] = q]
      /\ tx' = [tx EXCEPT
                  ![t].timestamp = q.clock,
                  ![t].unsynced = tx[t].sync,
                  ![t].pc = IF tx[t].sync = {} THEN Returned(t) ELSE "sealed"]
      /\ UNCHANGED <<attached, destroyed, public, locked, peeked, delivered,
                     before>>

(* When the list is through, the asynchronous joins are appended to it.    *)
SyncRound(t, n) ==
  LET rest == tx[t].unsynced \ {n}
  IN  /\ tx[t].pc = "sealed" /\ n \in tx[t].unsynced
      /\ Unlocked(Dest[n])
      /\ queue' = [queue EXCEPT ![Dest[n]] = Sync(@, tx[t].timestamp)]
      /\ tx' = [tx EXCEPT ![t] =
                  IF rest # {} THEN [tx[t] EXCEPT !.unsynced = rest]
                  ELSE [tx[t] EXCEPT !.unsynced = tx[t].async,
                                     !.sync = tx[t].sync \cup tx[t].async,
                                     !.async = {}]]
      /\ UNCHANGED <<attached, destroyed, public, locked, peeked, delivered,
                     before>>

CommitRound(t, n) ==
  /\ tx[t].pc = "sealed" /\ tx[t].unsynced = {}
  /\ n \in tx[t].sync
  /\ Unlocked(Dest[n])
  /\ queue' = [queue EXCEPT ![Dest[n]] = CommitStaged(@, n, tx[t].timestamp)]
  /\ tx' = [tx EXCEPT ![t].sync = @ \ {n},
                      ![t].pc = IF tx[t].sync = {n} THEN Returned(t) ELSE @]
  /\ UNCHANGED <<attached, destroyed, public, locked, peeked, delivered, before>>

(* NODES_DESTROY may drop the user references of its anchors; PEER_RESET   *)
(* drops those of all handles of the peer.                                 *)
ReleaseHandles(t) ==
  LET mine == IF Kind[t] = "reset" THEN Handle \cap Mine(Origin[t])
              ELSE Destroys[t]
  IN  /\ tx[t].pc = "release"
      /\ public' = public \ mine
      /\ tx' = [tx EXCEPT ![t].pc =
                  IF Kind[t] = "reset" THEN "flush" ELSE "done"]
      /\ UNCHANGED <<queue, attached, destroyed, locked, peeked, delivered,
                     before>>

FlushQueue(t) ==
  LET p == Origin[t]
  IN  /\ tx[t].pc = "flush"
      /\ Unlocked(p)
      /\ queue' = [queue EXCEPT ![p] = Flush(@, tx[t].timestamp)]
      /\ tx' = [tx EXCEPT ![t].pc = "done"]
      /\ UNCHANGED <<attached, destroyed, public, locked, peeked, delivered,
                     before>>

-----------------------------------------------------------------------------
(* Release notifications: sent when the last strong reference to a node is *)
(* dropped, withdrawn when a new one is taken before it was received.      *)

QueueRelease(a) ==
  LET p == Dest[a]
      q == queue[p]
      fresh == IF q.group[a] = NULL THEN q
               ELSE NodeInit(Warn(q, q.group[a] # p), a)
  IN  /\ a \in public /\ a \notin destroyed
      /\ Unlocked(p)
      /\ ~IsQueued(q, a)
      /\ q.clock + 2 <= MaxClock[p]
      /\ queue' = [queue EXCEPT ![p] = CommitUnstaged(SetGroup(fresh, a, p), a)]
      /\ UNCHANGED <<tx, attached, destroyed, public, locked, peeked, delivered,
                     before>>

AcquireStrong(a) ==
  /\ a \in public /\ a \notin destroyed
  /\ Unlocked(Dest[a])
  /\ FlushRelease(a)
  /\ UNCHANGED <<tx, attached, destroyed, public, locked, peeked, delivered,
                 before>>

-----------------------------------------------------------------------------
(* RECV and poll() *)

Entry(q, n, more, handle) ==
  [node |-> n, timestamp |-> q.timestamp[n], group |-> q.group[n],
   more |-> more, handle |-> handle]

(* One round of the loop of bus1_peer_peek(): an entry that was flushed or *)
(* whose handle is gone is dropped, a notification is dequeued, a data     *)
(* message is handed to RECV and stays queued.                             *)
Peek(p) ==
  LET q == queue[p]
      n == q.front
      h == IF n \in Data THEN Target[n] ELSE n
      stale == \/ q.timestamp[n] <= q.flush
               \/ h \notin public
               \/ ~is_live_at(h, q.timestamp[n])
  IN  /\ LocalUnlocked(p) /\ Unlocked(p)
      /\ n # NULL
      /\ \/ /\ stale
            /\ queue' = [queue EXCEPT ![p] = Remove(q, n)]
            /\ UNCHANGED <<peeked, delivered>>
         \/ /\ ~stale /\ n \in Handle
            /\ queue' = [queue EXCEPT ![p] = Remove(q, n)]
            /\ delivered' = [delivered EXCEPT
                               ![p] = Append(@, Entry(q, n, More(q), NULL))]
            /\ UNCHANGED peeked
         \/ /\ ~stale /\ n \in Data
            /\ peeked' = [peeked EXCEPT ![p] = Entry(q, n, More(q), NULL)]
            /\ UNCHANGED <<queue, delivered>>
      /\ UNCHANGED <<tx, attached, destroyed, public, locked, before>>

(* bus1_message_install() hands out the handle if it is still live.        *)
Dequeue(p) ==
  LET e == peeked[p]
      r == Carries[e.node]
      live == r # NULL /\ is_live_at(r, e.timestamp)
  IN  /\ e # NoEntry
      /\ Unlocked(p)
      /\ queue' = [queue EXCEPT ![p] = Remove(@, e.node)]
      /\ public' = IF live THEN public \cup {r} ELSE public
      /\ delivered' = [delivered EXCEPT
                         ![p] = Append(@, [e EXCEPT !.handle =
                                             IF live THEN r ELSE NULL])]
      /\ peeked' = [peeked EXCEPT ![p] = NoEntry]
      /\ UNCHANGED <<tx, attached, destroyed, locked, before>>

(* RECV gives up on the message (-ERANGE, out of memory or descriptors).   *)
RecvFail(p) ==
  /\ peeked[p] # NoEntry
  /\ peeked' = [peeked EXCEPT ![p] = NoEntry]
  /\ UNCHANGED <<queue, tx, attached, destroyed, public, locked, delivered,
                 before>>

Poll(p) ==
  /\ queue[p].front = NULL
  /\ queue' = [queue EXCEPT ![p].asleep = TRUE]
  /\ UNCHANGED <<tx, attached, destroyed, public, locked, peeked, delivered,
                 before>>

-----------------------------------------------------------------------------
TxStep(t) ==
  \/ \E n \in Node :
       \/ AcquireHandle(t, n) \/ StageMessage(t, n) \/ DestroyLocked(t, n)
       \/ StageRound(t, n) \/ SyncRound(t, n) \/ CommitRound(t, n)
  \/ AcquireCommitTS(t) \/ ReleaseHandles(t) \/ FlushQueue(t)

Next ==
  \/ \E t \in TxId : BeginSend(t) \/ BeginDestroy(t) \/ TxStep(t)
  \/ \E a \in Anchor : CreateNode(a) \/ QueueRelease(a) \/ AcquireStrong(a)
  \/ \E p \in Peer : Peek(p) \/ Dequeue(p) \/ RecvFail(p)
  \/ \E p \in Poller : Poll(p)

Spec == Init /\ [][Next]_vars

(* A call that began runs to its end; a receiver keeps calling RECV and    *)
(* does not fail for ever on the same message.  Nobody has to send.        *)
Fairness ==
  /\ \A t \in TxId : WF_vars(TxStep(t))
  /\ \A p \in Peer : WF_vars(Peek(p)) /\ SF_vars(Dequeue(p))

FairSpec == Spec /\ Fairness

-----------------------------------------------------------------------------
TxType ==
  [pc: {"idle", "open", "sealed", "release", "flush", "done"},
   todo: SUBSET Node, postponed: SUBSET Remote, sync: SUBSET Node,
   unsynced: SUBSET Node, async: SUBSET Remote, timestamp: Nat, async_ts: Nat]

EntryType ==
  [node: Nat, timestamp: Nat, group: Nat, more: BOOLEAN, handle: Nat]

TypeOK ==
  /\ DOMAIN queue = Peer
  /\ \A p \in Peer : queue[p] \in QueueType(Mine(p))
  /\ tx \in [TxId -> TxType]
  /\ attached \subseteq Remote /\ destroyed \subseteq Anchor
  /\ public \subseteq Handle
  /\ locked \in [Peer -> TxId \cup {NULL}]
  /\ peeked \in [Peer -> EntryType]
  /\ delivered \in [Peer -> Seq(EntryType)]
  /\ before \in [TxId -> SUBSET TxId]

(* The inductive invariant behind InKeyOrder and SameOrderEverywhere.      *)

Linked(n) == n \in queue[Dest[n]].messages
Stamp(n) == queue[Dest[n]].timestamp[n]
Group(n) == queue[Dest[n]].group[n]
Untouched(n) == ~Linked(n) /\ Stamp(n) = 0

(* t is the commit timestamp s was taken from *)
CommittedAt(t, s) == Sealed(t) /\ s = tx[t].timestamp

(* e is the entry of the committed node e.node, one of N, and is not       *)
(* flushed; nothing is ordered before it.                                  *)
EntryOK(q, e, N) ==
  /\ e.node \in N /\ e.node \in q.messages
  /\ e.timestamp = q.timestamp[e.node] /\ e.group = q.group[e.node]
  /\ ~Odd(e.timestamp) /\ e.timestamp > q.flush
  /\ Past(q, e.timestamp, e.group)

(* The keys: what was received is in the past of its queue, and so is the  *)
(* entry a RECV is working on.                                             *)
KeysOK ==
  \A p \in Peer :
    /\ QueueOK(queue[p], Mine(p))
    /\ \A i \in DOMAIN delivered[p] :
         Past(queue[p], delivered[p][i].timestamp, delivered[p][i].group)
    /\ peeked[p] # NoEntry => EntryOK(queue[p], peeked[p], Data \cap Mine(p))

(* local.lock: one call of a peer at a time.                               *)
LocalOK ==
  /\ \A t \in TxId : tx[t].pc # "open" => tx[t].todo = {}
  /\ \A t, u \in TxId :
       t # u /\ Origin[t] = Origin[u] =>
         tx[t].pc \in {"idle", "done"} \/ tx[u].pc \in {"idle", "done"}
  /\ \A p \in Peer : peeked[p] # NoEntry =>
       \A t \in TxId : Origin[t] = p => tx[t].pc \in {"idle", "done"}

(* The lists of the transactions: a node is stamped and tagged once.       *)
ListsOK ==
  /\ \A t \in TxId :
       /\ ~Odd(tx[t].timestamp) /\ ~Odd(tx[t].async_ts)
       /\ \A n \in tx[t].sync \cup tx[t].async :
            /\ Group(n) = t /\ Stamp(n) # 0
            /\ n \in Anchor => n \in destroyed
       /\ tx[t].todo \cap Data \subseteq Sends[t]
       /\ \A n \in tx[t].todo \cap Data : Untouched(n)
       /\ \A a \in tx[t].todo \cap Anchor :
            Dest[a] = Origin[t] /\ a \notin destroyed
       /\ tx[t].pc = "idle" => \A n \in Sends[t] : Untouched(n)
       /\ \A r \in tx[t].postponed :
            Untouched(r) /\ r \in attached /\ NodeOf[r] \in destroyed
  /\ \A t, u \in TxId : t # u => tx[t].postponed \cap tx[u].postponed = {}
  /\ \A r \in Remote :
       r \notin attached \/ NodeOf[r] \notin destroyed => Untouched(r)

(* Everything committed or received of a transaction carries the one       *)
(* timestamp it was sealed with.                                           *)
StampsOK ==
  /\ \A n \in Node :
       Linked(n) /\ ~Odd(Stamp(n)) /\ Group(n) \in TxId =>
         CommittedAt(Group(n), Stamp(n))
  /\ \A a \in destroyed :
       /\ Group(a) \in TxId
       /\ Odd(Stamp(a)) \/ CommittedAt(Group(a), Stamp(a))
  /\ \A p \in Peer : \A i \in DOMAIN delivered[p] :
       delivered[p][i].group \in TxId =>
         CommittedAt(delivered[p][i].group, delivered[p][i].timestamp)

(* No WARN_ON() of queue.c, tx.c and handle.c about a queue node fires:    *)
(* every caller keeps to the contract of the queue, whatever the other     *)
(* peers do between two critical sections.                                 *)
NoWarn == \A p \in Peer : ~queue[p].warned

(* queue->leftmost and queue->front, which poll() reads without a lock,    *)
(* always name the entry that is really first, and front is set exactly    *)
(* when that entry is committed.  A reset leaves the front unset (see      *)
(* ReadyIsReadable), so this is about queues that were not flushed yet.    *)
CachedPointers ==
  \A p \in Peer : queue[p].flush = 0 => PointersRight(queue[p])

(* poll() reports a queue readable if one or more messages are ready to be *)
(* dequeued: the first entry in order being committed (queue->front).      *)
ReadyIsReadable ==
  \A p \in Peer :
    LET f == First(queue[p], queue[p].messages)
    IN  f # NULL /\ ~IsStaging(queue[p], f) => queue[p].front # NULL

(* No wake-up is lost: a task asleep in poll() sleeps on a queue that has  *)
(* nothing to read (bus1_queue_add(), bus1_queue_remove()).                *)
NoLostWakeup ==
  \A p \in Peer : queue[p].asleep => queue[p].front = NULL

(* A queue hands its entries out in the order of their keys: an entry that *)
(* was committed late is never ordered before one already received.        *)
InKeyOrder ==
  \A p \in Peer : \A i, j \in DOMAIN delivered[p] :
    i < j => LET d == delivered[p][i]
                 e == delivered[p][j]
             IN  ~KeyBefore(e.timestamp, e.group, d.timestamp, d.group)

IInv == TypeOK /\ KeysOK /\ LocalOK /\ ListsOK /\ StampsOK /\ InKeyOrder

(* The callers' side, behind NoWarn, CachedPointers, NoLostWakeup and      *)
(* ValidUntilDestroyed.                                                    *)

Clock(p) == queue[p].clock

(* The group tag of a node says who uses it: a data message belongs to the *)
(* one SEND that sends it, an anchor to the release notification of its    *)
(* owner or to the owner's transaction that destroys it, and a remote      *)
(* handle to the transaction that destroys its anchor.                     *)
MessageTag(n) ==
  IF Group(n) = NULL THEN Untouched(n)
  ELSE /\ Group(n) \in TxId /\ n \in Sends[Group(n)]
       /\ Kind[Group(n)] = "send"

AnchorTag(a) ==
  IF a \in destroyed
  THEN Dest[a] = Origin[Group(a)] /\ Kind[Group(a)] # "send"
  ELSE /\ Group(a) \in {NULL, Dest[a]}
       /\ Group(a) = NULL => Stamp(a) = 0

RemoteTag(r) ==
  IF Group(r) = NULL THEN Untouched(r)
  ELSE /\ r \in attached /\ NodeOf[r] \in destroyed
       /\ Group(r) = Group(NodeOf[r])

PendingTags(t) ==
  /\ \A n \in tx[t].todo \cap Data : Group(n) = NULL /\ Kind[t] = "send"
  /\ tx[t].todo \cap Anchor # {} => Kind[t] # "send"
  /\ tx[t].pc = "idle" => \A n \in Sends[t] : Group(n) = NULL
  /\ \A r \in tx[t].postponed : Group(r) = t

TagsOK ==
  /\ \A n \in Data : MessageTag(n)
  /\ \A a \in Anchor : AnchorTag(a)
  /\ \A r \in Remote : RemoteTag(r)
  /\ \A t \in TxId : PendingTags(t)

(* The lists of a transaction hold exactly the nodes that it staged and    *)
(* did not commit yet.  Their keys are behind its commit timestamp, which  *)
(* the clock of a destination has reached once it was synced.              *)
StagedList(t) ==
  /\ tx[t].unsynced \subseteq tx[t].sync
  /\ tx[t].pc = "open" => tx[t].unsynced = {}
  /\ tx[t].pc # "open" => tx[t].postponed = {}
  /\ tx[t].pc \notin {"open", "sealed"} => tx[t].sync = {} /\ tx[t].async = {}
  /\ tx[t].pc = "sealed" => tx[t].unsynced # {} \/ tx[t].async = {}
  /\ Sealed(t) => tx[t].timestamp # 0
  /\ \A n \in tx[t].sync \cup tx[t].async :
       /\ Linked(n) /\ Odd(Stamp(n))
       /\ IF Sealed(t) THEN Stamp(n) < tx[t].timestamp
          ELSE Stamp(n) <= Later(tx[t].timestamp, tx[t].async_ts) + 1

StagedNode(n) ==
  LET t == Group(n)
  IN  /\ Odd(Stamp(n)) => t \in TxId /\ n \in tx[t].sync \cup tx[t].async
      /\ t \in TxId =>
           IF Stamp(n) = 0 THEN Sealed(t) \/ n \in tx[t].postponed
           ELSE Odd(Stamp(n)) \/ CommittedAt(t, Stamp(n))
      /\ t \in TxId /\ Sealed(t) =>
           \/ n \in tx[t].unsynced \cup tx[t].async
           \/ tx[t].timestamp <= Clock(Dest[n])

StagedOK ==
  /\ \A t \in TxId : StagedList(t)
  /\ \A n \in Node : StagedNode(n)

(* A queue is flushed up to a time that its clock has reached, and the     *)
(* next transaction of the peer, if a reset, never flushes less.           *)
FlushesOK ==
  /\ \A p \in Peer : queue[p].flush <= Clock(p)
  /\ \A t \in TxId : tx[t].pc \in {"sealed", "release", "flush"} =>
       /\ queue[Origin[t]].flush <= tx[t].timestamp
       /\ tx[t].timestamp <= Clock(Origin[t])

CInv == TagsOK /\ StagedOK /\ FlushesOK

(* What was received, behind ContinueIsExact and CausalDelivery.           *)

(* When RECV reports no more messages of a transaction, none is queued.    *)
LastOK ==
  \A p \in Peer :
    /\ \A i \in DOMAIN delivered[p] :
         ~delivered[p][i].more /\ delivered[p][i].group \in TxId =>
           \A m \in queue[p].messages : queue[p].group[m] # delivered[p][i].group
    /\ peeked[p] # NoEntry /\ ~peeked[p].more =>
         \A m \in queue[p].messages \ {peeked[p].node} :
           queue[p].group[m] # peeked[p].group

(* Handles in a message may attach to a node while t destroys it.          *)
LateJoins(t) ==
  /\ Kind[t] # "send"
  /\ \E n \in Data : Carries[n] # NULL /\ Dest[NodeOf[Carries[n]]] = Origin[t]

(* The sync round of t is over.                                            *)
Synced(t) == Sealed(t) /\ tx[t].unsynced = {} /\ tx[t].async = {}

(* What is committed or received of a transaction is through its sync      *)
(* round.                                                                  *)
SyncedNode(n) ==
  Linked(n) /\ Group(n) \in TxId /\ ~LateJoins(Group(n)) =>
    Odd(Stamp(n)) \/ Synced(Group(n))

SyncedEntry(p, e) ==
  e.group \in TxId =>
    /\ e.node \in Mine(p) /\ Group(e.node) = e.group /\ Stamp(e.node) # 0
    /\ LateJoins(e.group) \/ Synced(e.group)

(* Where both have a node, u has found a clock that t has synced.          *)
Earlier(t, u) ==
  \A m, n \in Node :
    /\ Group(m) = u /\ Stamp(m) # 0 /\ ~LateJoins(u)
    /\ Group(n) = t /\ Dest[n] = Dest[m]
    => IF Sealed(u) THEN tx[t].timestamp < tx[u].timestamp
       ELSE tx[t].timestamp <= tx[u].timestamp

CausesOK ==
  /\ \A n \in Node : SyncedNode(n)
  /\ \A p \in Peer : \A i \in DOMAIN delivered[p] : SyncedEntry(p, delivered[p][i])
  /\ \A u \in TxId : \A t \in before[u] :
       LateJoins(t) \/ (Synced(t) /\ Earlier(t, u))

DeliveredOK == LastOK /\ CausesOK

Position(p, t) == {i \in DOMAIN delivered[p] : delivered[p][i].group = t}

(* p received a message of transaction t, and later one of u               *)
ReceivedInOrder(p, t, u) ==
  \E i \in Position(p, t), j \in Position(p, u) : i < j

(* Two peers that both receive messages of two transactions receive them   *)
(* in the same order (queue.h: "the order of message delivery is           *)
(* consistent across queues").                                             *)
SameOrderEverywhere ==
  \A t, u \in TxId : t # u =>
    \A p, q \in Peer : ReceivedInOrder(p, t, u) => ~ReceivedInOrder(q, u, t)

(* Causality on each queue: a transaction that begins after another one    *)
(* completed, or after some peer received a message of it, is received     *)
(* after it by every peer that receives both (rules 1 and 2 of queue.h;    *)
(* the sync round of bus1_tx_commit()).                                    *)
CausalDelivery ==
  \A u \in TxId : \A t \in before[u] :
    \A p \in Peer : ~ReceivedInOrder(p, u, t)

(* BUS1_MSG_FLAG_CONTINUE: when RECV reports that no more messages of the  *)
(* same transaction follow, none is received later (bus1_queue_peek()).    *)
ContinueIsExact ==
  \A p \in Peer : \A i, j \in DOMAIN delivered[p] :
    i < j /\ ~delivered[p][i].more /\ delivered[p][i].group \in TxId
      => delivered[p][i].group # delivered[p][j].group

(* After a reset nothing that was committed up to its timestamp is         *)
(* received, though entries still staging then stay in the queue           *)
(* (bus1_queue_flush(), bus1_peer_peek()).                                 *)
FlushIsFinal ==
  [][\A p \in Peer : Len(delivered'[p]) > Len(delivered[p]) =>
       delivered'[p][Len(delivered'[p])].timestamp > queue[p].flush]_vars

(* The destroy notification of a node is the last thing its owner receives *)
(* about it: no message sent to the node is received after it (handle.h).  *)
DestroyIsLast ==
  \A p \in Peer : \A i, j \in DOMAIN delivered[p] :
    LET d == delivered[p][i].node
        e == delivered[p][j].node
    IN  i < j /\ d \in Anchor /\ delivered[p][i].group \in TxId /\ e \in Data
          => Target[e] # d

(* A message hands its handle out as BUS1_HANDLE_INVALID only if the       *)
(* transaction that destroys the node acquired a commit timestamp lower    *)
(* than that of the message (bus1_handle_is_live_at(), as installed by     *)
(* bus1_message_install()), however the two commits interleave.            *)
ValidUntilDestroyed ==
  \A p \in Peer : \A i \in DOMAIN delivered[p] :
    LET e == delivered[p][i]
        r == Carries[e.node]
    IN  e.node \in Data /\ e.handle = NULL =>
          \/ r = NULL
          \/ \E t \in TxId : /\ Group(NodeOf[r]) = t /\ Sealed(t)
                             /\ tx[t].timestamp < e.timestamp

(* A handle that attaches late to a node under destruction gets its        *)
(* notification only behind an entry that is already queued: it never      *)
(* becomes the new front (bus1_queue_commit_synthetic()).                  *)
LateJoinStaysBehind ==
  [][\A r \in attached' \ attached : queue'[Dest[r]].front # r]_vars

(* No peer holds handles to two nodes of one owner, the topology under     *)
(* which that is so.                                                       *)
SingleHandles ==
  \A r, s \in Remote :
    r # s /\ Dest[r] = Dest[s] => Dest[NodeOf[r]] # Dest[NodeOf[s]]

(* The relation queue.h calls global order, on whole transactions: real    *)
(* time, causality and the order of each queue, closed transitively, never *)
(* orders two transactions both ways.                                      *)
GlobalOrder ==
  LET Precedes(t, u) ==
        \/ t \in before[u]
        \/ t # u /\ \E p \in Peer : ReceivedInOrder(p, t, u)
  IN  \A S \in SUBSET TxId :
        S # {} => \E u \in S : \A t \in S : ~Precedes(t, u)

(* All queues become empty again and again: what is staged is committed,   *)
(* what is committed is received or dropped, and no entry blocks a queue   *)
(* for ever (queue.h: "an arbitrary (though bounded) time").               *)
QueuesDrain == []<>(\A p \in Peer : queue[p].messages = {})

=============================================================================
