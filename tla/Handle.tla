------------------------------- MODULE Handle -------------------------------
(***************************************************************************)
(* One node of the bus, the handles that refer to it, and the messages     *)
(* that carry them (handle.c, handle.h, the handle half of message.c and   *)
(* of the ioctls in peer.c).                                               *)
(*                                                                         *)
(* The node is its anchor, held by Owner; every other peer refers to it    *)
(* through a remote handle.  A handle object lives as long as its `ref' is *)
(* not zero.  n_weak counts who keeps the handle attached, n_strong who    *)
(* keeps the node wanted: when n_strong drops to zero the owner gets a     *)
(* release notification.  Both counters are changed without any lock as    *)
(* long as they stay positive, and under the data locks of the holder and  *)
(* the owner when they reach or leave zero.                                *)
(*                                                                         *)
(* Each step below is one atomic operation on a counter, or one half of a  *)
(* locked section; between the halves the unlocked operations of other     *)
(* threads may run.  A message is a thread of its own only in so far as    *)
(* the SEND, RECV or flush that works on it is one.                        *)
(***************************************************************************)
EXTENDS Integers, FiniteSets, FiniteSetsExt

CONSTANTS
    Owner,      \* the peer that created the node
    Holder,     \* the other peers
    Anchor,     \* the anchor handle
    Remote,     \* the objects bus1_handle_new_remote() may return
    Msg,        \* the messages; each carries one handle to the node
    Src,        \* [Msg -> peer]: who sends it
    Dst,        \* [Msg -> peer]: who receives it
    MaxCalls,   \* bound: ioctls and disconnects, RECV, SLICE_RELEASE not counted
    NULL

Peer == {Owner} \cup Holder
Handles == {Anchor} \cup Remote
Thread == Peer \cup Msg

ASSUME HandleAssumption ==
    /\ Owner \notin Holder
    /\ Anchor \notin Remote
    /\ Peer \cap Msg = {}
    /\ NULL \notin Peer \cup Handles \cup Msg
    /\ Src \in [Msg -> Peer]
    /\ Dst \in [Msg -> Peer]
    /\ MaxCalls \in Nat

VARIABLES
    node,   \* the handle objects and the anchor's struct node
    ids,    \* the handles in the ID map of their holder (rb_to_peer)
    thread, \* local variables of the running ioctls and messages
    local,  \* who holds local.lock of a peer
    data,   \* who holds data.lock of a peer between two steps
    peer,   \* how far the disconnect of a peer got
    used,   \* handles charged on a peer: max_handles - n_handles
    calls,  \* bound: ioctls and disconnects so far
    told    \* history: the owner was told since n_strong last became zero

vars == <<node, ids, thread, local, data, peer, used, calls, told>>

NodeState ==
    [ref : [Handles -> Int], n_weak : [Handles -> Int],
     n_user : [Handles -> Int], holder : [Handles -> Peer \cup {NULL}],
     n_strong : Int, map_handles : SUBSET Remote,
     released : BOOLEAN, destroyed : BOOLEAN,
     queued : SUBSET Handles,   \* handles whose qnode is in a queue
     group : SUBSET Remote,     \* remotes whose qnode.group is set
     joined : SUBSET Peer,      \* holders that a late join acquired for good
     warned : SUBSET {"node", "n_weak", "n_handles_charge"}]

ThreadState ==
    [pc : STRING, ret : STRING, h : Handles \cup {NULL}, strong : BOOLEAN,
     owner : BOOLEAN, undo : BOOLEAN, last : BOOLEAN, charge : Nat]

Idle ==
    [pc |-> "idle", ret |-> "idle", h |-> NULL, strong |-> FALSE,
     owner |-> FALSE, undo |-> FALSE, last |-> FALSE, charge |-> 0]

Init ==
    /\ node = [ref |-> [h \in Handles |-> 0],
               n_weak |-> [h \in Handles |-> 0],
               n_user |-> [h \in Handles |-> 0],
               holder |-> [h \in Handles |-> NULL],
               n_strong |-> 0, map_handles |-> {}, released |-> FALSE,
               destroyed |-> FALSE, queued |-> {}, group |-> {},
               joined |-> {}, warned |-> {}]
    /\ ids = {}
    /\ thread = [t \in Thread |->
                   IF t \in Msg THEN [Idle EXCEPT !.pc = "none"] ELSE Idle]
    /\ local = [p \in Peer |-> NULL]
    /\ data = [p \in Peer |-> NULL]
    /\ peer = [p \in Peer |-> "active"]
    /\ used = [p \in Peer |-> 0]
    /\ calls = 0
    /\ told = TRUE

-----------------------------------------------------------------------------
(* Operations on the node; each takes the node and returns it changed.     *)

Ref(n, h) == [n EXCEPT !.ref[h] = @ + 1]

(* WARN_ON(): two that do fire have a name of their own.                   *)
Warn(n, which, b) == IF b THEN [n EXCEPT !.warned = @ \cup {which}] ELSE n
WarnOn(n, b) == Warn(n, "node", b)

(* The last reference runs bus1_handle_deinit(): a remote drops its anchor. *)
UnrefAll(n, S) ==
    LET down == [h \in Handles |-> n.ref[h] - (IF h \in S THEN 1 ELSE 0)]
        freed == {r \in S \cap Remote : down[r] = 0}
        left == [down EXCEPT ![Anchor] = @ - Cardinality(freed)]
        dead == freed \cup {a \in {Anchor} : left[a] = 0}
        m == [n EXCEPT !.ref = left,
                !.n_weak = [h \in Handles |-> IF h \in freed THEN 0 ELSE @[h]],
                !.n_user = [h \in Handles |-> IF h \in freed THEN 0 ELSE @[h]],
                !.holder = [h \in Handles |-> IF h \in freed THEN NULL ELSE @[h]],
                !.group = @ \ freed]
    IN  WarnOn(m, \/ \E h \in dead : \/ n.n_user[h] # 0
                                     \/ n.n_weak[h] # 0
                                     \/ h \in n.map_handles
                  \/ Anchor \in dead /\ n.n_strong # 0
                  \/ Anchor \in dead /\ n.map_handles # {})

Unref(n, h) == UnrefAll(n, {h})

(* bus1_handle_new_remote(), with the reference the caller gets.           *)
NewRemote(n, h, p) ==
    Ref([n EXCEPT !.ref[h] = 1, !.n_weak[h] = 0, !.n_user[h] = 0,
                  !.holder[h] = p], Anchor)

(* The release notification uses the qnode of the anchor.                  *)
QueueRelease(n) ==
    IF n.released \/ n.destroyed \/ Anchor \in n.queued
    THEN n
    ELSE Ref([n EXCEPT !.queued = @ \cup {Anchor}], Anchor)

FlushRelease(n) ==
    IF n.released \/ n.destroyed \/ Anchor \notin n.queued
    THEN n
    ELSE Unref([n EXCEPT !.queued = @ \ {Anchor}], Anchor)

(* bus1_handle_acquire_holder(): NULL unless attached and not disconnected. *)
HolderIsUp(h) == node.n_weak[h] > 0 /\ peer[node.holder[h]] = "active"

(* Faulty: the insertion does not look for an entry of the same holder.    *)
NoConflict(n, h) == {}

(* The entry bus1_handle_splice() runs into on its way down the tree.      *)
Conflict(n, h) == {g \in n.map_handles : n.holder[g] = n.holder[h]}

(* Faulty: the link into the tree of the anchor takes no reference.        *)
SpliceUnpinned(n, h, joined) ==
    LET m == [n EXCEPT !.map_handles = @ \cup {h}]
        tries == n.destroyed /\ h \notin n.group /\ peer[n.holder[h]] = "active"
    IN  IF ~tries THEN m
        ELSE IF joined
             THEN Ref([m EXCEPT !.group = @ \cup {h}, !.queued = @ \cup {h},
                                !.joined = @ \cup {n.holder[h]}], h)
             ELSE [m EXCEPT !.group = @ \cup {h}]

(* bus1_handle_splice() without conflict; `joined' is what bus1_tx_join()  *)
(* returns when the node is being destroyed.  The destruction is committed *)
(* by then, so an entry that joins is queued at once, and nobody drops the *)
(* active reference of its holder, as bus1_tx_commit() does for others.    *)
Splice(n, h, joined) ==
    LET m == Ref([n EXCEPT !.map_handles = @ \cup {h}], h)
        tries == n.destroyed /\ h \notin n.group /\ peer[n.holder[h]] = "active"
    IN  IF ~tries THEN m
        ELSE IF joined
             THEN Ref([m EXCEPT !.group = @ \cup {h}, !.queued = @ \cup {h},
                                !.joined = @ \cup {n.holder[h]}], h)
             ELSE [m EXCEPT !.group = @ \cup {h}]

(* bus1_handle_acquire_locked() up to the weak reference, no conflict.     *)
Attach(n, h, joined) ==
    IF n.n_weak[h] # 0
    THEN WarnOn([n EXCEPT !.n_weak[h] = @ + 1], n.n_weak[h] + 1 < 1)
    ELSE LET m == CASE n.released -> n
                    [] ~n.released /\ h = Anchor -> WarnOn(n, n.map_handles # {})
                    [] OTHER -> Splice(n, h, joined)
         IN  [Ref(m, h) EXCEPT !.n_weak[h] = 1]

(* bus1_handle_release_locked() once n_weak reached zero; `owned' says     *)
(* whether the owner could be acquired and is locked.                      *)
Detach(n, h, owned) ==
    CASE n.released -> n
      [] ~n.released /\ h = Anchor ->
           [FlushRelease(UnrefAll([n EXCEPT !.map_handles = {}], n.map_handles))
              EXCEPT !.released = TRUE]
      [] ~n.released /\ h # Anchor /\ ~owned -> n
      [] OTHER ->
           IF h \in n.map_handles
           THEN Unref([n EXCEPT !.map_handles = @ \ {h}], h)
           ELSE WarnOn(n, TRUE)

(* bus1_handle_destroy_locked() and the commit that follows: the anchor    *)
(* and every remote whose holder is up gets a destruction notification.    *)
Destroy(n) ==
    LET m == FlushRelease(n)
        S == {r \in n.map_handles : HolderIsUp(r)}
        Q == {Anchor} \cup S
    IN  WarnOn([m EXCEPT
                  !.destroyed = TRUE, !.queued = @ \cup Q, !.group = @ \cup S,
                  !.ref = [h \in Handles |-> @[h] + (IF h \in Q THEN 1 ELSE 0)]],
               n.destroyed \/ n.map_handles \cap n.group # {})

-----------------------------------------------------------------------------
(* bus1_handle_acquire(h, true) and bus1_handle_release(), as subroutines  *)
(* that continue at `ret'.                                                 *)

Goto(t, l) == [thread EXCEPT ![t].pc = l]

Enter(t, l, h, strong, ret) ==
    [thread EXCEPT ![t].pc = l, ![t].h = h, ![t].strong = strong, ![t].ret = ret]

Outside == <<ids, local, peer, used, calls>>

(* The data locks of the slow paths: the holder's and, if up, the owner's. *)
Locks(t) == {node.holder[thread[t].h]} \cup
            (IF thread[t].owner THEN {Owner} ELSE {})

TakeLocks(t) ==
    /\ \A p \in Locks(t) : data[p] \in {NULL, t}
    /\ data' = [p \in Peer |-> IF p \in Locks(t) THEN t ELSE data[p]]

DropLocks(t) == data' = [p \in Peer |-> IF data[p] = t THEN NULL ELSE data[p]]

(* bus1_atomic_add_if_ge(&h->n_weak, 1, 1).                                *)
Acquire(t) ==
    LET h == thread[t].h IN
    /\ thread[t].pc = "acquire"
    /\ IF node.n_weak[h] >= 1
       THEN /\ node' = [node EXCEPT !.n_weak[h] = @ + 1]
            /\ thread' = Goto(t, "acquire_strong")
       ELSE /\ thread' = [thread EXCEPT ![t].pc = "acquire_slow", ![t].undo = FALSE]
            /\ UNCHANGED node
    /\ UNCHANGED <<Outside, data, told>>

(* bus1_atomic_add_if_ge(&h->anchor->node.n_strong, 1, 1).                 *)
AcquireStrong(t) ==
    /\ thread[t].pc = "acquire_strong"
    /\ IF node.n_strong >= 1
       THEN /\ node' = [node EXCEPT !.n_strong = @ + 1]
            /\ thread' = Goto(t, thread[t].ret)
       ELSE /\ thread' = [thread EXCEPT ![t].pc = "acquire_slow", ![t].undo = TRUE]
            /\ UNCHANGED node
    /\ UNCHANGED <<Outside, data, told>>

(* The owner is pinned, or found to be gone, before any lock is taken.     *)
Slow(t, from, to) ==
    /\ thread[t].pc = from
    /\ thread' = [thread EXCEPT
                    ![t].pc = to,
                    ![t].owner = thread[t].h = Anchor \/ HolderIsUp(Anchor)]
    /\ UNCHANGED <<node, Outside, data, told>>

AcquireSlow(t) == Slow(t, "acquire_slow", "acquire_locked")

(* With a conflict the function drops its handle and calls itself.  A      *)
(* caller that went through the fast path, and RECV, want their own back.  *)
AcquireLocked(t) ==
    LET h == thread[t].h
        splices == node.n_weak[h] = 0 /\ ~node.released /\ h # Anchor
    IN
    /\ thread[t].pc = "acquire_locked"
    /\ TakeLocks(t)
    /\ \/ /\ splices
          /\ \E g \in Conflict(node, h) :
               /\ node' = Warn(WarnOn(Unref(Ref(node, g), h),
                                      thread[t].undo \/ thread[t].ret = "installed"),
                               "n_weak", node.n_weak[g] # 1)
               /\ thread' = [thread EXCEPT ![t].h = g]
       \/ /\ splices => Conflict(node, h) = {}
          /\ \E joined \in BOOLEAN : node' = Attach(node, h, joined)
          /\ thread' = Goto(t, "acquire_count")
    /\ UNCHANGED <<Outside, told>>

AcquireCount(t) ==
    LET n == [node EXCEPT !.n_strong = @ + 1] IN
    /\ thread[t].pc = "acquire_count"
    /\ node' = IF n.n_strong = 1 THEN FlushRelease(n) ELSE n
    /\ told' = (told /\ n.n_strong # 1)
    /\ thread' = [thread EXCEPT
                    ![t].owner = FALSE,
                    ![t].pc = IF thread[t].undo THEN "acquire_undo" ELSE thread[t].ret]
    /\ DropLocks(t)
    /\ UNCHANGED Outside

(* Faulty: the weak reference of the fast path is kept.                    *)
AcquireKeeps(t) ==
    /\ thread[t].pc = "acquire_undo"
    /\ thread' = [thread EXCEPT ![t].pc = thread[t].ret, ![t].undo = FALSE]
    /\ UNCHANGED <<node, Outside, data, told>>

(* The fast path had taken a weak reference already.                       *)
AcquireUndo(t) ==
    LET h == thread[t].h IN
    /\ thread[t].pc = "acquire_undo"
    /\ node' = WarnOn([node EXCEPT !.n_weak[h] = @ - 1], node.n_weak[h] - 1 < 1)
    /\ thread' = [thread EXCEPT ![t].pc = thread[t].ret, ![t].undo = FALSE]
    /\ UNCHANGED <<Outside, data, told>>

(* Faulty: the threshold is 1, so the last strong reference goes unlocked. *)
ReleaseLastFast(t) ==
    /\ thread[t].pc = "release"
    /\ IF thread[t].strong /\ node.n_strong < 1
       THEN thread' = Goto(t, "release_slow") /\ UNCHANGED node
       ELSE /\ node' = [node EXCEPT !.n_strong = @ - (IF thread[t].strong THEN 1 ELSE 0)]
            /\ thread' = Goto(t, "release_weak")
    /\ UNCHANGED <<Outside, data, told>>

(* bus1_atomic_add_if_ge(&h->anchor->node.n_strong, -1, 2).                *)
Release(t) ==
    /\ thread[t].pc = "release"
    /\ IF thread[t].strong /\ node.n_strong < 2
       THEN thread' = Goto(t, "release_slow") /\ UNCHANGED node
       ELSE /\ node' = [node EXCEPT !.n_strong = @ - (IF thread[t].strong THEN 1 ELSE 0)]
            /\ thread' = Goto(t, "release_weak")
    /\ UNCHANGED <<Outside, data, told>>

(* bus1_atomic_add_if_ge(&h->n_weak, -1, 2).                               *)
ReleaseWeak(t) ==
    LET h == thread[t].h IN
    /\ thread[t].pc = "release_weak"
    /\ IF node.n_weak[h] >= 2
       THEN /\ node' = [node EXCEPT !.n_weak[h] = @ - 1]
            /\ thread' = Goto(t, thread[t].ret)
       ELSE /\ thread' = [thread EXCEPT ![t].pc = "release_slow", ![t].strong = FALSE]
            /\ UNCHANGED node
    /\ UNCHANGED <<Outside, data, told>>

ReleaseSlow(t) == Slow(t, "release_slow", "release_locked")

ReleaseLocked(t) ==
    LET h == thread[t].h
        n == [node EXCEPT !.n_weak[h] = @ - 1]
    IN
    /\ thread[t].pc = "release_locked"
    /\ TakeLocks(t)
    /\ node' = IF n.n_weak[h] = 0 THEN Detach(n, h, thread[t].owner) ELSE n
    /\ thread' = [thread EXCEPT ![t].pc = "release_count",
                                ![t].last = n.n_weak[h] = 0]
    /\ UNCHANGED <<Outside, told>>

ReleaseCount(t) ==
    LET n == [node EXCEPT !.n_strong = @ - (IF thread[t].strong THEN 1 ELSE 0)]
        m == IF thread[t].strong /\ n.n_strong = 0 /\ thread[t].owner
             THEN QueueRelease(n) ELSE n
    IN
    /\ thread[t].pc = "release_count"
    /\ node' = IF thread[t].last THEN Unref(m, thread[t].h) ELSE m
    /\ thread' = [thread EXCEPT ![t].pc = thread[t].ret,
                                ![t].owner = FALSE, ![t].last = FALSE]
    /\ DropLocks(t)
    /\ UNCHANGED <<Outside, told>>

-----------------------------------------------------------------------------
(* The ioctls on handles and nodes.                                        *)

Inside == <<data, peer, told>>

(* An ioctl other than RECV starts: active reference, local.lock.          *)
Begin(p) ==
    /\ peer[p] = "active"
    /\ local[p] = NULL
    /\ calls < MaxCalls
    /\ calls' = calls + 1

Unlocked(t) == [p \in Peer |-> IF local[p] = t THEN NULL ELSE local[p]]

Owns(p) == {h \in ids : node.holder[h] = p}

(* bus1_handle_forget(): leaves the ID map unless still public.            *)
Forgets(n, h) == h \in ids /\ n.n_user[h] <= 0
Forget(n, h) == IF Forgets(n, h) THEN Unref(n, h) ELSE n

(* bus1_handle_ref_by_other(), else bus1_handle_new_remote(): the handle   *)
(* `h' that p gets to name the node by.                                    *)
RefByOther(p, h) ==
    LET up == p # Owner /\ HolderIsUp(Anchor)
        found == IF p = Owner THEN {Anchor}
                 ELSE IF up THEN {r \in node.map_handles : node.holder[r] = p}
                 ELSE {}
        free == {r \in Remote : node.ref[r] = 0}
    IN
    /\ up => data[Owner] = NULL
    /\ \/ /\ h \in found
          /\ node' = Ref(node, h)
       \/ /\ found = {}
          /\ free # {}
          /\ h = CHOOSE r \in free : TRUE
          /\ node' = NewRemote(node, h, p)

(* The first SEND, TRANSFER or NODES_DESTROY that names the node creates   *)
(* it: bus1_handle_import(), then a weak and a user reference.             *)
NewNode ==
    /\ Begin(Owner)
    /\ node.ref[Anchor] = 0 /\ ~node.released
    /\ data[Owner] = NULL
    /\ node' = [node EXCEPT !.ref[Anchor] = 2, !.holder[Anchor] = Owner,
                            !.n_weak[Anchor] = 1, !.n_user[Anchor] = 1]
    /\ ids' = ids \cup {Anchor}
    /\ used' = [used EXCEPT ![Owner] = @ + 1]
    /\ UNCHANGED <<thread, local, Inside>>

(* HANDLE_TRANSFER from p to q, up to bus1_handle_acquire().               *)
Transfer(p, q, h) ==
    /\ Begin(p)
    /\ peer[q] = "active" /\ local[q] = NULL
    /\ Owns(p) # {} /\ ~node.destroyed
    /\ RefByOther(q, h)
    /\ used' = [used EXCEPT ![q] = @ + 1]
    /\ local' = [local EXCEPT ![p] = p, ![q] = p]
    /\ thread' = Enter(p, "acquire", h, TRUE, "export")
    /\ UNCHANGED <<ids, Inside>>

Export(p) ==
    LET h == thread[p].h
        n == WarnOn([node EXCEPT !.n_user[h] = @ + 1], node.n_user[h] + 1 < 1)
    IN
    /\ thread[p].pc = "export"
    /\ ids' = ids \cup {h}
    /\ node' = IF h \in ids THEN Unref(n, h) ELSE n
    /\ thread' = [thread EXCEPT ![p] = Idle]
    /\ local' = Unlocked(p)
    /\ UNCHANGED <<used, calls, Inside>>

HandleRelease(p, h) ==
    LET strong == ~(node.n_user[h] = 1 /\ h = Anchor)
        n == WarnOn(Ref([node EXCEPT !.n_user[h] = @ - 1], h), node.n_user[h] - 1 < 0)
    IN
    /\ Begin(p)
    /\ h \in Owns(p)
    /\ strong \/ node.destroyed
    /\ node' = Forget(n, h)
    /\ ids' = IF Forgets(n, h) THEN ids \ {h} ELSE ids
    /\ used' = [used EXCEPT ![p] = @ - 1]
    /\ local' = [local EXCEPT ![p] = p]
    /\ thread' = Enter(p, "release", h, strong, "exit")
    /\ UNCHANGED Inside

(* NODES_DESTROY of the live node, with or without the flag                *)
(* BUS1_NODES_DESTROY_FLAG_RELEASE_HANDLES.                                *)
NodesDestroy(release) ==
    /\ Begin(Owner)
    /\ Anchor \in ids /\ ~node.destroyed
    /\ data[Owner] = NULL
    /\ node' = Destroy(Ref(node, Anchor))
    /\ local' = [local EXCEPT ![Owner] = Owner]
    /\ thread' = Enter(Owner, IF release THEN "drop_node" ELSE "exit",
                       Anchor, FALSE, "exit")
    /\ UNCHANGED <<ids, used, Inside>>

DropNode ==
    LET n == [node EXCEPT !.n_user[Anchor] = @ - 1] IN
    /\ thread[Owner].pc = "drop_node"
    /\ node' = Forget(n, Anchor)
    /\ ids' = IF Forgets(n, Anchor) THEN ids \ {Anchor} ELSE ids
    /\ used' = [used EXCEPT ![Owner] = @ - 1]
    /\ thread' = Enter(Owner, "release", Anchor, n.n_user[Anchor] # 0, "exit")
    /\ UNCHANGED <<local, calls, Inside>>

Exit(p) ==
    /\ thread[p].pc = "exit"
    /\ node' = Unref(node, thread[p].h)
    /\ thread' = [thread EXCEPT ![p] = Idle]
    /\ local' = Unlocked(p)
    /\ UNCHANGED <<ids, used, calls, Inside>>

(* RECV of a notification, or bus1_peer_peek() dropping it.                *)
RecvNotification(p, h) ==
    /\ peer[p] = "active" /\ local[p] = NULL /\ data[p] = NULL
    /\ h \in node.queued /\ node.holder[h] = p
    /\ node' = Unref([node EXCEPT !.queued = @ \ {h}], h)
    /\ told' = (told \/ (h = Anchor /\ node.n_strong = 0))
    /\ UNCHANGED <<ids, thread, local, data, peer, used, calls>>

-----------------------------------------------------------------------------
(* bus1_peer_flush(), from PEER_RESET or from the cleanup of a disconnect. *)

(* The thread of a message inside SEND pins the destination.               *)
Sending(m) == thread[m].ret = "commit"

Pinned(p) ==
    \/ local[p] # NULL
    \/ \E m \in Msg : Sending(m) /\ Dst[m] = p
    \/ p \in node.joined
    \/ p = Owner /\ \E t \in Thread : thread[t].owner /\ thread[t].h # Anchor

StartFlush(p) ==
    /\ local[p] = NULL /\ data[p] = NULL
    /\ local' = [local EXCEPT ![p] = p]
    /\ node' = IF Anchor \in Owns(p) /\ ~node.destroyed THEN Destroy(node) ELSE node
    /\ thread' = [thread EXCEPT ![p].pc = "flush", ![p].ret = "flush"]
    /\ UNCHANGED <<ids, used, data, told>>

PeerReset(p) == Begin(p) /\ StartFlush(p) /\ UNCHANGED peer

Disconnect(p) ==
    /\ peer[p] = "active"
    /\ calls < MaxCalls
    /\ calls' = calls + 1
    /\ peer' = [peer EXCEPT ![p] = "deactivated"]
    /\ UNCHANGED <<node, ids, thread, local, data, used, told>>

Cleanup(p) ==
    /\ peer[p] = "deactivated" /\ ~Pinned(p)
    /\ peer' = [peer EXCEPT ![p] = "cleanup"]
    /\ StartFlush(p)
    /\ UNCHANGED calls

(* The last reference to a received message goes; n_handles_charge keeps   *)
(* its value.                                                              *)
Freed(m) == [Idle EXCEPT !.pc = "freed", !.charge = thread[m].charge]

(* One turn of the loop over map_handles: n_user goes, with it the ID and  *)
(* the charge; bus1_handle_release_n() drops all but one at once.          *)
FlushHandle(p, h) ==
    LET u == node.n_user[h]
        k == IF h = Anchor THEN u - 1 ELSE u
        n == Unref([node EXCEPT !.n_user[h] = 0], h)
    IN
    /\ thread[p].pc = "flush" /\ h \in Owns(p)
    /\ ids' = ids \ {h}
    /\ used' = [used EXCEPT ![p] = @ - u]
    /\ node' = IF k > 1
               THEN WarnOn([n EXCEPT !.n_strong = @ - (k - 1)], n.n_strong - (k - 1) < 1)
               ELSE n
    /\ thread' = [thread EXCEPT
                    ![p].h = h, ![p].strong = TRUE, ![p].charge = k,
                    ![p].ret = IF h = Anchor THEN "flush_anchor" ELSE "flush",
                    ![p].pc = CASE k > 1 -> "flush_weak"
                                [] k = 1 -> "release"
                                [] OTHER -> "flush_anchor"]
    /\ UNCHANGED <<local, calls, Inside>>

(* Faulty: the last of the k references is dropped here as well.           *)
FlushWeakAll(p) ==
    LET h == thread[p].h
        left == node.n_weak[h] - thread[p].charge
    IN
    /\ thread[p].pc = "flush_weak"
    /\ node' = WarnOn([node EXCEPT !.n_weak[h] = left], left < 1)
    /\ thread' = Goto(p, "release")
    /\ UNCHANGED <<Outside, data, told>>

FlushWeak(p) ==
    LET h == thread[p].h
        left == node.n_weak[h] - (thread[p].charge - 1)
    IN
    /\ thread[p].pc = "flush_weak"
    /\ node' = WarnOn([node EXCEPT !.n_weak[h] = left], left < 1)
    /\ thread' = Goto(p, "release")
    /\ UNCHANGED <<Outside, data, told>>

FlushAnchor(p) ==
    /\ thread[p].pc = "flush_anchor"
    /\ thread' = Enter(p, "release", Anchor, FALSE, "flush")
    /\ UNCHANGED <<node, Outside, data, told>>

(* bus1_queue_flush() takes notifications and messages off the queue, but  *)
(* `stay', those with a later timestamp than the reset: there are none in  *)
(* a cleanup, which has waited for all senders.  bus1_pool_flush()         *)
(* unpublishes the slices, whose last reference goes.                      *)
FlushQueue(p) ==
    LET mine == {h \in node.queued : node.holder[h] = p}
        waiting == {m \in Msg : Dst[m] = p /\ thread[m].pc = "queued"}
        slices == {m \in Msg : Dst[m] = p /\ thread[m].pc = "published"}
    IN
    /\ thread[p].pc = "flush" /\ Owns(p) = {} /\ data[p] = NULL
    /\ \E stay \in SUBSET (mine \cup waiting) :
         /\ peer[p] = "cleanup" => stay = {}
         /\ node' = UnrefAll([node EXCEPT !.queued = @ \ (mine \ stay)], mine \ stay)
         /\ thread' = [t \in Thread |->
                         CASE t = p -> [Idle EXCEPT !.pc = "flush_free"]
                           [] t \in slices -> Freed(t)
                           [] t \in waiting \ stay -> [thread[t] EXCEPT !.pc = "flushed"]
                           [] OTHER -> thread[t]]
    /\ used' = [used EXCEPT ![p] = @ - MapThenSumSet(LAMBDA m : thread[m].charge, slices)]
    /\ UNCHANGED <<ids, local, calls, Inside>>

FlushDone(p) ==
    /\ thread[p].pc = "flush_free" /\ local[p] = p
    /\ \A m \in Msg : ~(thread[m].pc = "flushed" /\ Dst[m] = p)
    /\ thread' = [thread EXCEPT ![p] = Idle]
    /\ local' = Unlocked(p)
    /\ peer' = [peer EXCEPT ![p] = IF @ = "cleanup" THEN "gone" ELSE @]
    /\ UNCHANGED <<node, ids, used, calls, data, told>>

-----------------------------------------------------------------------------
(* A message and the handle it carries.                                    *)

(* SEND: bus1_factory_instantiate() charges the destination and picks the  *)
(* handle, which bus1_message_stage() then acquires; the destination and   *)
(* the sender's handle are pinned.                                         *)
Send(m, h) ==
    LET s == Src[m] d == Dst[m] IN
    /\ thread[m].pc = "none"
    /\ Begin(s)
    /\ peer[d] = "active"
    /\ Owns(s) # {}
    /\ RefByOther(d, h)
    /\ used' = [used EXCEPT ![d] = @ + 1]
    /\ local' = [local EXCEPT ![s] = m]
    /\ thread' = [Enter(m, "acquire", h, TRUE, "commit") EXCEPT ![m].charge = 1]
    /\ UNCHANGED <<ids, Inside>>

(* Faulty: the charge of a message that is not sent is kept.               *)
AbortKeepsCharge(m) ==
    /\ thread[m].pc = "acquire" /\ thread[m].ret = "commit"
    /\ node' = Unref(node, thread[m].h)
    /\ thread' = [thread EXCEPT ![m] = [Idle EXCEPT !.pc = "freed"]]
    /\ local' = Unlocked(m)
    /\ UNCHANGED <<ids, used, calls, Inside>>

(* SEND fails before the message is staged, so it has nothing to release.  *)
Abort(m) ==
    /\ thread[m].pc = "acquire" /\ thread[m].ret = "commit"
    /\ node' = Unref(node, thread[m].h)
    /\ used' = [used EXCEPT ![Dst[m]] = @ - thread[m].charge]
    /\ thread' = [thread EXCEPT ![m] = [Idle EXCEPT !.pc = "freed"]]
    /\ local' = Unlocked(m)
    /\ UNCHANGED <<ids, calls, Inside>>

Commit(m) ==
    /\ thread[m].pc = "commit"
    /\ thread' = [thread EXCEPT ![m].pc = "queued", ![m].ret = "queued"]
    /\ local' = Unlocked(m)
    /\ UNCHANGED <<node, ids, peer, used, calls, data, told>>

(* bus1_message_free() of a message that was never received.               *)
Free(m) ==
    IF thread[m].h = NULL THEN Goto(m, "dropped")
    ELSE Enter(m, "release", thread[m].h, TRUE, "dropped")

(* RECV, or a RECV whose bus1_peer_peek() drops the message because its    *)
(* destination node is gone.                                               *)
Peek(m) ==
    LET d == Dst[m] IN
    /\ thread[m].pc = "queued"
    /\ peer[d] = "active" /\ local[d] = NULL
    /\ local' = [local EXCEPT ![d] = m]
    /\ thread' = Goto(m, "install") \/ thread' = Free(m)
    /\ UNCHANGED <<node, ids, peer, used, calls, data, told>>

(* bus1_message_install(): a handle that was destroyed before the message  *)
(* is dropped.  Which came first is for the timestamps to say; a handle    *)
(* whose qnode was never committed has none and counts as live.            *)
InstallDead(m) ==
    LET h == thread[m].h IN
    /\ thread[m].pc = "install" /\ h # NULL
    /\ node.destroyed /\ h \in {Anchor} \cup node.group
    /\ thread' = Enter(m, "release", h, TRUE, "install_dead")
    /\ UNCHANGED <<node, Outside, data, told>>

DropDead(m) ==
    /\ thread[m].pc = "install_dead"
    /\ node' = Unref(node, thread[m].h)
    /\ thread' = [thread EXCEPT ![m].pc = "install", ![m].h = NULL]
    /\ UNCHANGED <<Outside, data, told>>

(* The IDs or the file descriptors cannot be written: RECV fails and the   *)
(* message stays in the queue.                                             *)
InstallFails(m) ==
    /\ thread[m].pc = "install"
    /\ thread' = [thread EXCEPT ![m].pc = "queued", ![m].ret = "queued"]
    /\ local' = Unlocked(m)
    /\ UNCHANGED <<node, ids, peer, used, calls, data, told>>

(* The live handles move their charge from the message to the peer; a dead *)
(* one leaves its charge behind, which the code takes for a mistake.       *)
Install(m) ==
    LET h == thread[m].h
        n_handles == IF h = NULL THEN 0 ELSE 1
    IN
    /\ thread[m].pc = "install"
    /\ node' = Warn(node, "n_handles_charge", n_handles < thread[m].charge)
    /\ thread' = IF h = NULL THEN Goto(m, "received")
                 ELSE [thread EXCEPT ![m].charge = @ - n_handles, ![m].pc = "acquire",
                                     ![m].strong = TRUE, ![m].ret = "installed"]
    /\ UNCHANGED <<Outside, data, told>>

(* n_user is counted; then bus1_message_deinit() drops what the message    *)
(* held itself.                                                            *)
Installed(m) ==
    LET h == thread[m].h IN
    /\ thread[m].pc = "installed"
    /\ node' = WarnOn([node EXCEPT !.n_user[h] = @ + 1], node.n_user[h] + 1 < 1)
    /\ thread' = Enter(m, "release", h, TRUE, "received")
    /\ UNCHANGED <<Outside, data, told>>

Discharged(m) ==
    /\ node' = IF thread[m].h = NULL THEN node ELSE Unref(node, thread[m].h)
    /\ used' = [used EXCEPT ![Dst[m]] = @ - thread[m].charge]
    /\ UNCHANGED <<ids, calls, Inside>>

Received(m) ==
    /\ thread[m].pc = "received"
    /\ Discharged(m)
    /\ thread' = [thread EXCEPT ![m] = [Idle EXCEPT !.pc = "published",
                                                    !.charge = thread[m].charge]]
    /\ local' = Unlocked(m)

Dropped(m) ==
    LET d == Dst[m] IN
    /\ thread[m].pc = "dropped"
    /\ Discharged(m)
    /\ thread' = [thread EXCEPT ![m] = [Idle EXCEPT !.pc = "freed"]]
    /\ local' = [local EXCEPT ![d] = IF thread[d].pc = "flush_free" THEN d ELSE NULL]

(* The flush frees what it took off the queue, one after the other.        *)
FreeFlushed(m) ==
    LET d == Dst[m] IN
    /\ thread[m].pc = "flushed" /\ local[d] = d
    /\ local' = [local EXCEPT ![d] = m]
    /\ thread' = Free(m)
    /\ UNCHANGED <<node, ids, peer, used, calls, data, told>>

(* SLICE_RELEASE drops the last reference of a received message, which     *)
(* discharges n_handles_charge once more.                                  *)
SliceRelease(m) ==
    LET d == Dst[m] IN
    /\ thread[m].pc = "published"
    /\ peer[d] = "active" /\ local[d] = NULL
    /\ used' = [used EXCEPT ![d] = @ - thread[m].charge]
    /\ thread' = [thread EXCEPT ![m] = Freed(m)]
    /\ UNCHANGED <<node, ids, local, calls, Inside>>

-----------------------------------------------------------------------------
Subroutine(t) ==
    \/ Acquire(t) \/ AcquireStrong(t) \/ AcquireSlow(t) \/ AcquireLocked(t)
    \/ AcquireCount(t) \/ AcquireUndo(t)
    \/ Release(t) \/ ReleaseWeak(t) \/ ReleaseSlow(t) \/ ReleaseLocked(t)
    \/ ReleaseCount(t)

Ioctl(p) ==
    \/ \E q \in Peer, h \in Handles : Transfer(p, q, h)
    \/ Export(p) \/ Exit(p)
    \/ \E h \in Handles : HandleRelease(p, h) \/ RecvNotification(p, h)
    \/ PeerReset(p) \/ Disconnect(p) \/ Cleanup(p)
    \/ \E h \in Handles : FlushHandle(p, h)
    \/ FlushWeak(p) \/ FlushAnchor(p) \/ FlushQueue(p) \/ FlushDone(p)

OwnerIoctl ==
    NewNode \/ DropNode \/ \E release \in BOOLEAN : NodesDestroy(release)

Message(m) ==
    \/ \E h \in Handles : Send(m, h)
    \/ Abort(m) \/ Commit(m)
    \/ Peek(m) \/ InstallDead(m) \/ DropDead(m) \/ InstallFails(m)
    \/ Install(m) \/ Installed(m) \/ Received(m)
    \/ Dropped(m) \/ FreeFlushed(m) \/ SliceRelease(m)

Next ==
    \/ \E t \in Thread : Subroutine(t)
    \/ \E p \in Peer : Ioctl(p)
    \/ OwnerIoctl
    \/ \E m \in Msg : Message(m)

Spec == Init /\ [][Next]_vars

-----------------------------------------------------------------------------
(* The variables have the types of the fields they model.                  *)
TypeOK ==
    /\ node \in NodeState
    /\ ids \subseteq Handles
    /\ thread \in [Thread -> ThreadState]
    /\ local \in [Peer -> Thread \cup {NULL}]
    /\ data \in [Peer -> Thread \cup {NULL}]
    /\ peer \in [Peer -> {"active", "deactivated", "cleanup", "gone"}]
    /\ used \in [Peer -> Int]
    /\ calls \in 0 .. MaxCalls
    /\ told \in BOOLEAN

Flushing(t) == thread[t].ret \in {"flush", "flush_anchor"}

Count(b) == IF b THEN 1 ELSE 0

(* The object references that exist to h: the ID map, the tree of the      *)
(* anchor, n_weak > 0 until the thread that brought it to zero is done, a  *)
(* queued notification, the messages and ioctls, and the remotes' anchor.  *)
References(h) ==
    Count(h \in ids) + Count(h \in node.map_handles) + Count(h \in node.queued)
      + Count(\/ node.n_weak[h] > 0
              \/ \E t \in Thread : thread[t].last /\ thread[t].h = h)
      + Cardinality({t \in Thread : thread[t].h = h /\ ~Flushing(t)})
      + Count(h = Anchor) * Cardinality({r \in Remote : node.ref[r] > 0})

(* In every state the reference count of a handle is the number of places  *)
(* that refer to it: bus1_handle_unref() never frees a handle somebody     *)
(* still uses, and the last user frees it.                                 *)
RefsExact == TypeOK /\ \A h \in Handles : node.ref[h] = References(h)

AtRest ==
    \A t \in Thread : thread[t].pc \in {"none", "idle", "queued", "published", "freed"}

Carried(h) == {m \in Msg : thread[m].pc = "queued" /\ thread[m].h = h}

(* Between ioctls n_weak of a handle is its user references plus the       *)
(* queued messages that carry it, and n_strong the same sum over the node, *)
(* less the owner's first reference.  So no interleaving of the unlocked   *)
(* halves of bus1_handle_acquire() and bus1_handle_release() loses or      *)
(* invents a reference.                                                    *)
CountsExact ==
    AtRest =>
      /\ \A h \in Handles : node.ref[h] > 0 =>
           node.n_weak[h] = node.n_user[h] + Cardinality(Carried(h))
      /\ node.n_strong =
           MapThenSumSet(LAMBDA h : node.n_user[h] + Cardinality(Carried(h)),
                         {h \in Handles : node.ref[h] > 0})
             - Count(Anchor \in ids)

(* A live node nobody wants has told its owner so: the notification waits  *)
(* in the queue or was taken from it since.  And it does not wait there    *)
(* while the node is wanted again (bus1_handle_queue_release() and         *)
(* bus1_handle_flush_release() against the unlocked counters).             *)
ReleaseNotified ==
    AtRest /\ peer[Owner] = "active" /\ ~node.destroyed =>
      IF node.n_strong = 0 THEN told \/ Anchor \in node.queued
                           ELSE Anchor \notin node.queued

(* "if a peer receives a reference to the same node multiple times, the    *)
(* resulting handle will be the same" (handle.h): until the node is        *)
(* released, two attached handles of one holder are one, although every    *)
(* SEND may allocate one before it holds a lock.                           *)
OneHandlePerPeer ==
    ~node.released =>
      \A r, s \in Remote : /\ node.n_weak[r] > 0 /\ node.n_weak[s] > 0
                           /\ node.holder[r] = node.holder[s]
                           => r = s

(* n_handles_charge of the messages to p that are at pc.                   *)
Charge(p, pc) ==
    MapThenSumSet(LAMBDA m : thread[m].charge,
                  {m \in Msg : Dst[m] = p /\ thread[m].pc = pc})

(* Between ioctls what a peer is charged in n_handles is its user          *)
(* references and the handles in its queued messages, less what was        *)
(* returned twice: bus1_message_deinit() runs in RECV and again when the   *)
(* message is freed, and returns n_handles_charge both times, which is not *)
(* zero if RECV found the handle dead.  Apart from that SEND, RECV,        *)
(* TRANSFER, HANDLE_RELEASE and resets pass every charge on exactly once,  *)
(* and so do their error paths.                                            *)
ChargesExact ==
    AtRest =>
      \A p \in Peer :
        used[p] = MapThenSumSet(LAMBDA h : node.n_user[h],
                                {h \in Handles : node.ref[h] > 0 /\ node.holder[h] = p})
                  + Charge(p, "queued") - Charge(p, "freed")

(* No WARN_ON() on the counters and the tree fires: a freed handle has no  *)
(* user or weak reference and is in no map, an attached remote is in its   *)
(* anchor's map when it is detached, a handle acquired on the fast path or *)
(* by RECV is never exchanged for another, no counter drops below what its *)
(* holders need.  Two others do fire.  bus1_handle_acquire_locked() wants  *)
(* n_weak of a conflicting handle to be 1, but two SENDs reach 2.          *)
(* bus1_message_install() wants every charged handle to be live, so it     *)
(* warns only if a node was destroyed.                                     *)
NoWarn ==
    /\ "node" \notin node.warned
    /\ "n_handles_charge" \in node.warned => node.destroyed

(* bus1_handle_acquire() "always succeeds" (handle.h): the handle it       *)
(* splices is not in the tree already.  Were it there, it would conflict   *)
(* with itself and bus1_handle_acquire_locked() would call itself forever. *)
AcquireSucceeds ==
    \A t \in Thread :
      LET h == thread[t].h IN
      thread[t].pc = "acquire_locked" /\ node.n_weak[h] = 0 /\ ~node.released
        => h \notin node.map_handles
=============================================================================
