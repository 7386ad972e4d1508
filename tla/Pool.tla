------------------------------- MODULE Pool -------------------------------
(* The receive pool of one peer (ipc/bus1/util/pool.c) together with the   *)
(* messages whose payload lives in it (ipc/bus1/message.c, peer.c).  The   *)
(* pool is a list of slices sorted by address; every slice records the     *)
(* free space behind it, and a root slice of size 0 starts the list.  Two  *)
(* trees index it: slices_free by free space, slices_offset by offset.     *)
(*                                                                         *)
(* A message embeds its slice, so Message also names the slices.  Senders  *)
(* of other peers allocate and deallocate under data.lock only; the        *)
(* receiving peer's own calls (RECV, SLICE_RELEASE, RESET) hold            *)
(* local.lock, which the variable call tracks.  The final unref of         *)
(* SLICE_RELEASE runs after local.lock is dropped.                         *)
EXTENDS Integers, Sequences, FiniteSets, SequencesExt

CONSTANTS Message,     \* the messages, each with its embedded slice
          root_slice,  \* pool->root_slice
          NULL,
          SLICE_SIZE_MAX, \* BUS1_POOL_SLICE_SIZE_MAX, scaled down
          Length       \* the payload lengths senders use

ASSUME PoolAssumption ==
  /\ root_slice \notin Message /\ NULL \notin Message \cup {root_slice}
  /\ SLICE_SIZE_MAX \in Nat \ {0} /\ Length \subseteq Nat

VARIABLES
  slices,         \* the list, sorted by address
  at,             \* slice -> its offset, size and free fields
  slices_free,    \* members of the tree of slices by free space
  slices_offset,  \* members of the tree of slices by offset
  allocated_size, \* sum of the sizes handed out
  allocated,      \* slices whose allocated bit is set
  published,      \* slices whose published bit is set
  ref,            \* reference count of each message, 0 when it is freed
  sending,        \* messages a SEND owns: instantiated, not yet staged
  queued,         \* messages the receiver's queue owns
  releasing,      \* messages a SLICE_RELEASE is about to unref
  flushed,        \* messages a RESET is about to unref
  call,           \* what the holder of local.lock is doing
  cursor,         \* the message RECV, or the list entry the flush, works on
  warned          \* a WARN_ON fired

pool == <<slices, at, slices_free, slices_offset, allocated_size, allocated>>
vars == <<pool, published, ref, sending, queued, releasing, flushed, call,
          cursor, warned>>

Slice == Message \cup {root_slice}

---------------------------------------------------------------------------
\* ALIGN(n, 8)
Align(n) == ((n + 7) \div 8) * 8

\* The slice size of a message with n bytes of payload: never empty.
MessageSize(n) == IF Align(n) > 8 THEN Align(n) ELSE 8

Position(s) == CHOOSE i \in DOMAIN slices : slices[i] = s
Previous(s) == slices[Position(s) - 1]

\* The entry behind s, NULL at the end of the list.
EntryAfter(s) == IF Position(s) = Len(slices) THEN NULL ELSE slices[Position(s) + 1]

Init ==
  /\ slices = <<root_slice>>
  /\ at = [s \in Slice |->
             [offset |-> 0, size |-> 0,
              free |-> IF s = root_slice THEN SLICE_SIZE_MAX ELSE 0]]
  /\ slices_free = {root_slice} /\ slices_offset = {}
  /\ allocated_size = 0 /\ allocated = {} /\ published = {}
  /\ ref = [m \in Message |-> 0]
  /\ sending = {} /\ queued = {} /\ releasing = {} /\ flushed = {}
  /\ call = "none" /\ cursor = NULL /\ warned = FALSE

\* The slices bus1_pool_slice_find_free() may return: the free space is the
\* smallest that fits; among equals the shape of the tree decides.
FindFree(size) ==
  LET fit == {s \in slices_free : at[s].free >= size}
  IN  {s \in fit : \A t \in fit : at[s].free <= at[t].free}

\* bus1_pool_slice_link_free(); its callers skip it when there is no room.
LinkFree(tree, s, room) == IF room > 0 THEN tree \cup {s} ELSE tree

\* bus1_pool_slice_link_offset()
LinkOffset(m, size) ==
  /\ slices_offset' = slices_offset \cup {m}
  /\ allocated_size' = allocated_size + size

\* bus1_pool_slice_link() of m behind ps, which gives all its room to m.
SliceLink(m, offset, size, room, ps) ==
  /\ at' = [at EXCEPT ![m] = [offset |-> offset, size |-> size, free |-> room],
                      ![ps].free = 0]
  /\ slices_free' = LinkFree(slices_free \ {ps}, m, room)
  /\ LinkOffset(m, size)
  /\ slices' = InsertAt(slices, Position(ps) + 1, m)

\* bus1_pool_alloc(): m takes the front of the free space of ps, the slice
\* that was found, and inherits what is left of it.
Alloc(m, size, ps) ==
  /\ SliceLink(m, at[ps].offset + at[ps].size, size, at[ps].free - size, ps)
  /\ allocated' = allocated \cup {m}

\* Faulty: bus1_pool_dealloc() forgets the free space behind the slice.
DeallocSizeOnly(m) ==
  LET ps == Previous(m)
  IN  /\ slices_offset' = slices_offset \ {m}
      /\ at' = [at EXCEPT ![ps].free = @ + at[m].size]
      /\ slices_free' = (slices_free \ {m}) \cup {ps}
      /\ allocated_size' = allocated_size - at[m].size
      /\ slices' = RemoveAt(slices, Position(m))
      /\ allocated' = allocated \ {m}

\* bus1_pool_dealloc() of an allocated slice: it leaves both trees and its
\* size and free space become free space of the slice before it.
Dealloc(m) ==
  LET ps == Previous(m)
  IN  /\ slices_offset' = slices_offset \ {m}
      /\ at' = [at EXCEPT ![ps].free = @ + at[m].size + at[m].free]
      /\ slices_free' = LinkFree(slices_free \ {m}, ps, at'[ps].free)
      /\ allocated_size' = allocated_size - (IF at[m].size > allocated_size
                                             THEN 0 ELSE at[m].size)
      /\ slices' = RemoveAt(slices, Position(m))
      /\ allocated' = allocated \ {m}

\* Whether the checks of bus1_pool_dealloc() complain about m.
DeallocWarns(m) == m \in published \/ at[m].size > allocated_size

\* bus1_message_unref(): the last reference deallocates the slice, unless it
\* is still published or was never allocated.
Unref(m) ==
  /\ ref' = [ref EXCEPT ![m] = @ - 1]
  /\ IF ref[m] # 1
     THEN UNCHANGED <<pool, warned>>
     ELSE /\ warned' = (warned \/ DeallocWarns(m))
          /\ IF m \in published \/ m \notin allocated
             THEN UNCHANGED pool
             ELSE Dealloc(m)

---------------------------------------------------------------------------
(* Senders *)

\* bus1_factory_instantiate(): allocate, or fail with -EMSGSIZE or -EXFULL and leave
\* no trace.  The names of freed messages are used again, except while the
\* walk of a flush holds the old one's address: kfree_rcu() waits for the walk, which
\* takes no rcu_read_lock(), on a kernel that does not preempt it.
Instantiate(m, n) ==
  /\ ref[m] = 0 /\ m # cursor
  /\ MessageSize(n) <= SLICE_SIZE_MAX
  /\ \E ps \in FindFree(MessageSize(n)) : Alloc(m, MessageSize(n), ps)
  /\ ref' = [ref EXCEPT ![m] = 1]
  /\ sending' = sending \cup {m}
  /\ warned' = (warned \/ m \in allocated)
  /\ UNCHANGED <<published, queued, releasing, flushed, call, cursor>>

\* The error paths behind the allocation, in the message or in the SEND.
Abort(m) ==
  /\ m \in sending
  /\ sending' = sending \ {m}
  /\ Unref(m)
  /\ UNCHANGED <<published, queued, releasing, flushed, call, cursor>>

\* bus1_message_stage(): the queue takes over the reference.
Stage(m) ==
  /\ m \in sending
  /\ sending' = sending \ {m} /\ queued' = queued \cup {m}
  /\ UNCHANGED <<pool, published, ref, releasing, flushed, call, cursor, warned>>

---------------------------------------------------------------------------
(* The receiver, under local.lock *)

\* Faulty: RECV publishes the slice without a reference for user space.
InstallWithoutRef(m) ==
  /\ call = "none" /\ m \in queued
  /\ published' = published \cup {m} /\ call' = "recv" /\ cursor' = m
  /\ warned' = (warned \/ m \in published)
  /\ UNCHANGED <<pool, ref, sending, queued, releasing, flushed>>

\* bus1_message_install(): one more reference for user space, and publish.
Install(m) ==
  /\ call = "none" /\ m \in queued
  /\ ref' = [ref EXCEPT ![m] = @ + 1]
  /\ published' = published \cup {m} /\ call' = "recv" /\ cursor' = m
  /\ warned' = (warned \/ m \in published)
  /\ UNCHANGED <<pool, sending, queued, releasing, flushed>>

\* The rest of the RECV: drop the message from the queue and unref it.
RecvDone ==
  /\ call = "recv"
  /\ queued' = queued \ {cursor} /\ Unref(cursor)
  /\ call' = "none" /\ cursor' = NULL
  /\ UNCHANGED <<published, sending, releasing, flushed>>

\* bus1_peer_peek() meets a message that is no longer valid.
Drop(m) ==
  /\ call = "none" /\ m \in queued
  /\ queued' = queued \ {m} /\ Unref(m)
  /\ UNCHANGED <<published, sending, releasing, flushed, call, cursor>>

\* Faulty: SLICE_RELEASE finds slices that are not published, too.
FindAnySlice(offset) ==
  {s \in slices_offset : at[s].offset = offset}

\* bus1_pool_slice_find_published()
FindPublished(offset) ==
  {s \in slices_offset : at[s].offset = offset /\ s \in published}

\* SLICE_RELEASE up to the unlock of local.lock; -ENXIO changes nothing.
SliceRelease(offset) ==
  /\ call = "none"
  /\ \E m \in FindPublished(offset) :
       /\ warned' = (warned \/ m \notin published)
       /\ published' = published \ {m}
       /\ releasing' = releasing \cup {m}
  /\ UNCHANGED <<pool, ref, sending, queued, flushed, call, cursor>>

\* SLICE_RELEASE behind the unlock.
SliceReleaseUnref(m) ==
  /\ m \in releasing
  /\ releasing' = releasing \ {m} /\ Unref(m)
  /\ UNCHANGED <<published, sending, queued, flushed, call, cursor>>

---------------------------------------------------------------------------
(* RESET: bus1_peer_flush() *)

\* bus1_queue_flush() hands out the committed messages; those of a
\* transaction that is still staging stay.
FlushQueue ==
  /\ call = "none"
  /\ \E S \in SUBSET queued : flushed' = S /\ queued' = queued \ S
  /\ call' = "flush_queue"
  /\ UNCHANGED <<pool, published, ref, sending, releasing, cursor, warned>>

FlushUnref(m) ==
  /\ call \in {"flush_queue", "flush_slices"} /\ m \in flushed
  /\ flushed' = flushed \ {m} /\ Unref(m)
  /\ UNCHANGED <<published, sending, queued, releasing, call, cursor>>

\* bus1_pool_flush() is called without data.lock and starts at the head.
FlushPool ==
  /\ call = "flush_queue" /\ flushed = {}
  /\ call' = "walk" /\ cursor' = Head(slices)
  /\ UNCHANGED <<pool, published, ref, sending, queued, releasing, flushed, warned>>

\* Faulty: the walk returns at the first published slice.
WalkFirstOnly ==
  /\ call = "walk" /\ cursor \in ToSet(slices)
  /\ published' = published \ {cursor}
  /\ flushed' = flushed \cup (published \cap {cursor})
  /\ cursor' = IF cursor \in published THEN NULL ELSE EntryAfter(cursor)
  /\ call' = IF cursor' = NULL THEN "flush_slices" ELSE "walk"
  /\ UNCHANGED <<pool, ref, sending, queued, releasing, warned>>

\* One iteration: take the slice if it is published and read the next entry.
Walk ==
  /\ call = "walk" /\ cursor \in ToSet(slices)
  /\ published' = published \ {cursor}
  /\ flushed' = flushed \cup (published \cap {cursor})
  /\ cursor' = EntryAfter(cursor)
  /\ call' = IF cursor' = NULL THEN "flush_slices" ELSE "walk"
  /\ UNCHANGED <<pool, ref, sending, queued, releasing, warned>>

\* The entry was deallocated since the walk read its address: list_del()
\* poisoned its links, the walk faults and the task dies with local.lock.
WalkFaults ==
  /\ call = "walk" /\ cursor \notin ToSet(slices)
  /\ call' = "dead"
  /\ UNCHANGED <<pool, published, ref, sending, queued, releasing, flushed,
                 cursor, warned>>

FlushDone ==
  /\ call = "flush_slices" /\ flushed = {}
  /\ call' = "none"
  /\ UNCHANGED <<pool, published, ref, sending, queued, releasing, flushed,
                 cursor, warned>>

Next ==
  \/ \E m \in Message :
       \/ \E n \in Length : Instantiate(m, n)
       \/ Abort(m) \/ Stage(m) \/ Install(m) \/ Drop(m)
       \/ SliceReleaseUnref(m) \/ FlushUnref(m)
  \/ \E o \in 0 .. SLICE_SIZE_MAX : SliceRelease(o)
  \/ RecvDone \/ FlushQueue \/ FlushPool \/ Walk \/ WalkFaults \/ FlushDone

Spec == Init /\ [][Next]_vars

---------------------------------------------------------------------------
(* Properties *)

\* The slices tile the pool: the list starts with the root slice, each slice
\* starts 8-byte aligned where the free space of the one before it ends, and
\* the last free space ends at the end of the pool.  Both trees hold exactly
\* the slices they should, so no two slices overlap and no space is lost by
\* any order of bus1_pool_alloc() and bus1_pool_dealloc().
SlicesTile ==
  LET Size == [m \in Message |-> at[m].size]
      E(i) == at[slices[i]]
      End(i) == E(i).offset + E(i).size + E(i).free
  IN  /\ slices[1] = root_slice /\ E(1).offset = 0 /\ E(1).size = 0
      /\ \A i \in 2 .. Len(slices) :
           /\ E(i).offset = End(i - 1)
           /\ E(i).offset % 8 = 0 /\ E(i).size % 8 = 0 /\ E(i).size > 0
      /\ End(Len(slices)) = SLICE_SIZE_MAX
      /\ ToSet(slices) = allocated \cup {root_slice}
      /\ slices_offset = allocated
      /\ slices_free = {s \in ToSet(slices) : at[s].free > 0}
      /\ allocated_size = SumFunctionOnSet(Size, allocated)

\* Every message that a SEND, the queue, user space or an unfinished call
\* still refers to keeps its slice allocated, and its reference count is the
\* number of those owners: no order of RECV, SLICE_RELEASE, RESET and failing
\* sends frees a slice twice or early.
OwnersPinSlices ==
  \A m \in Message :
    LET n == (IF m \in sending THEN 1 ELSE 0) + (IF m \in queued THEN 1 ELSE 0)
             + (IF m \in published THEN 1 ELSE 0)
             + (IF m \in releasing THEN 1 ELSE 0)
             + (IF m \in flushed THEN 1 ELSE 0)
    IN  ref[m] = n /\ (n > 0 <=> m \in allocated)

\* None of the WARN_ONs of alloc, dealloc, publish and unpublish fires.
NoWarn == ~warned

\* Published slices are not altered: while user space holds a slice, it
\* neither moves nor shrinks nor leaves the pool.
PublishedStaysPut ==
  [][\A m \in published :
       /\ m \in slices_offset'
       /\ at'[m].offset = at[m].offset /\ at'[m].size = at[m].size]_vars

\* When bus1_pool_flush() reaches the end of the list, nothing is published
\* any more, whatever senders allocated and released while it walked without
\* a lock.
FlushUnpublishesAll == call = "flush_slices" => published = {}

---------------------------------------------------------------------------
(* The inductive invariant *)

TypeOK ==
  /\ slices \in Seq(Slice) /\ Len(slices) > 0
  /\ at \in [Slice -> [offset : Nat, size : Nat, free : Nat]]
  /\ allocated \subseteq Message /\ IsFiniteSet(allocated)
  /\ ref \in [Message -> Nat]
  /\ published \cup sending \cup queued \cup releasing \cup flushed \subseteq Message
  /\ call \in {"none", "recv", "flush_queue", "walk", "flush_slices", "dead"}
  /\ cursor \in Slice \cup {NULL} /\ warned \in BOOLEAN

\* A slice is in the list once.
ListedOnce == \A i, j \in 1 .. Len(slices) : slices[i] = slices[j] => i = j

\* A message has one owner at a time.  Only the one that RECV has published
\* and not yet dropped from the queue has two.
OneOwner ==
  /\ sending \cap (queued \cup published \cup releasing) = {}
  /\ releasing \cap (queued \cup published) = {}
  /\ published \cap flushed = {}
  /\ published \cap queued = IF call = "recv" THEN {cursor} ELSE {}
  /\ call \in {"none", "recv"} => flushed = {}

\* Every published slice is still ahead of the walk of a flush.
WalkAhead ==
  call = "walk" =>
    \A i, j \in 1 .. Len(slices) :
      slices[i] = cursor /\ slices[j] \in published => i <= j

\* All of it together is what every step of the pool preserves: the layout of
\* the list needs each slice in it once, the reference counts need the owners
\* to be disjoint, and the flush needs the published slices in front of it.
IInv ==
  /\ TypeOK /\ ListedOnce /\ SlicesTile /\ OwnersPinSlices /\ OneOwner
  /\ WalkAhead /\ NoWarn /\ FlushUnpublishesAll
=============================================================================
