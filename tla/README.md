# Verification of bus1

bus1 is a kernel IPC module: *peers* exchange messages through per-peer queues,
address each other through *nodes* and *handles*, and agree on one order of
messages without any global lock. This directory holds TLA+ models of its
concurrent core, the TLC configurations that check them on small instances, and
TLAPS proofs of the main results for instances of any size.

## The system

| Part (`src/ipc/bus1/`) | State | Operations |
|---|---|---|
| active references (`util/active.[ch]`) | one signed counter, a wait-queue | activate, acquire, release, deactivate, drain, cleanup |
| queue (`util/queue.[ch]`) | clock, flush mark, rb-tree of entries keyed by (timestamp, group, address), cached `leftmost` and `front` | stage, commit staged / unstaged / synthetic, remove, peek, flush, tick, sync |
| transactions (`tx.[ch]`) | lists of staged, postponed and asynchronous entries, timestamp, seal | stage, stage later, join, commit (stage, seal, sync, commit) |
| handles (`handle.[ch]`) | anchors and remotes, attach map, destroyed / released bits, reference counts | acquire, release, destroy, import, export, liveness at a timestamp |
| messages (`message.[ch]`) | reference count, queue node, pool slice, handles, files | instantiate, stage, install, free |
| pool (`util/pool.[ch]`) | slice list, two trees, allocated / published bits | alloc, dealloc, publish, unpublish, find, flush |
| peer (`peer.[ch]`) | `data.lock` with queue, pool and limits; `local.lock` with the id map | SEND, RECV, NODES_DESTROY, PEER_RESET, SLICE_RELEASE, HANDLE_*, disconnect |
| users (`user.[ch]`) | one object per uid with its budget, limits per peer | look up, create, reference, free, charge, discharge, quotas |

How they interact: every ioctl runs under an active reference of its peer and
mostly under the peer's `local.lock`, so a peer's own calls are serial. A SEND or
a destruction builds a transaction over entries on *other* peers' queues, taking
one `data.lock` at a time. A receiver reads its own queue while all of this goes
on. Messages take pool space of the receiver when they are built and give it
back when the last of sender, queue and user space lets go.

What makes it hard, and is modelled: every interleaving of critical sections of
several transactions and receivers; lock-free reads by `poll()`; handles that
join a destruction that is already running, sealed or over; resets between two
steps of a foreign transaction; racing disconnects; operations that run without
the lock they should hold; counters that are changed without a lock while they
are positive; lookups that race with the last reference; failing sends and
receives at every point, and exhaustion.

## Modules

* `Active`: the counter of `util/active.c`; each atomic operation is one step.
  `Lifecycle` is the life cycle that `active.h` documents (NEW, ACTIVE,
  DRAINING, DRAINED, RELEASED); `Active` is shown to implement it through the
  mapping from counter ranges to phases.
* `Queue`: the operations of `util/queue.c` as operators on a queue record. The
  rb-tree is the set `messages` with the keys in `timestamp` and `group`;
  addresses are numbers, because the code compares them. A `WARN_ON` sets
  `warned`. `leftmost` and `front` are explicit and maintained as the code does.
* `Transaction` (extends `Queue`): several peers with a queue each, and the
  transactions of SEND, NODES_DESTROY and PEER_RESET. One action per critical
  section: `StageMessage`, `DestroyLocked`, `StageRound`, `AcquireCommitTS`,
  `SyncRound`, `CommitRound`, `AcquireHandle` (attach, with `Join`),
  `QueueRelease`, `Peek`, `Dequeue`, `FlushQueue`, `Poll`. `locked` records a
  `data.lock` held across steps, `LocalUnlocked` is `local.lock`. `delivered`
  and `before` are history: what each peer received, and what had completed or
  been received when a transaction began.
* `Pool`: the slice allocator together with the owners of the message that
  embeds a slice (a SEND, the queue, user space, an unfinished SLICE_RELEASE or
  RESET). The walk of `bus1_pool_flush()`, which runs without `data.lock`, is
  one step per list entry; an entry that was taken off the list in between is a
  fault.
* `User`: the user objects of `user.c` and the charges of slices (`n_slices`): one
  per message, from `bus1_factory_instantiate()` to `bus1_message_free()`. The
  charges of handles are in `Handle`. A call looks a
  uid up (`RefByUid`, `RefFast` with its unlocked get-unless-zero, `RefSlow` with
  `UserNew` under `bus1_user_lock`), gives the object to a peer (`PeerNew`),
  charges a message (`ChargeGlobal`, `ChargeLocal`, `ChargeRevert`), discharges
  it, resets a limit (`SetLimit`) and drops references (`Unref`, `Put`,
  `UserFree`); one step per atomic operation. `Account` is what this promises: a
  charge is granted in one step if it fits both budgets, and may always be
  refused. `ImplementsAccount` is the refinement.
* `Handle`: one node, its anchor and remote handles, with all reference counts,
  and the messages and ioctls that use them. `bus1_handle_acquire()` and
  `bus1_handle_release()` are subroutines of several steps (`Acquire`,
  `AcquireStrong`, `AcquireSlow`, `AcquireLocked`, `AcquireCount`, `AcquireUndo`;
  `Release`, `ReleaseWeak`, `ReleaseSlow`, `ReleaseLocked`, `ReleaseCount`) that
  any thread may be in: each unlocked atomic operation is a step, and a locked
  section is two, because others change the counters without the lock in
  between. Around them: HANDLE_TRANSFER, HANDLE_RELEASE, NODES_DESTROY,
  PEER_RESET, disconnect and cleanup (`StartFlush` to `FlushDone`), and SEND,
  RECV, the flush and SLICE_RELEASE of a message. `node` holds the objects,
  `ids` the ID maps, `thread` the local variables, `local` and `data` the locks
  held across steps, `used` the charges in `n_handles`. A `WARN_ON` adds to
  `node.warned`. `told` is history.
* `MCActive`, `MCTransaction`, `MCPool`, `MCUser`, `MCHandle`: values of the
  constants for TLC.
* Theorems and lemmas: `ActiveProofs`; `Sums` (sums over finite sets), on which
  `UserProofs` and `PoolProofs` rest; `QueueProofs` (what each queue operation
  does), `TransactionKeeps` (every action keeps `IInv`), `TransactionSteps` (every
  action keeps `CInv`; warnings, caches and wake-ups; what one step can do to a
  node) and `TransactionProofs` (the theorems).

Operators that their comment calls faulty are variants of definitions with one
mistake each (for example `CommitEarly`, `ByTimestamp`, `WalkFirstOnly`). No
specification uses them; substituting one for the right definition must violate
the property it is listed with in `PROJECT.json`.

## Runs

All passing runs finish in less than two minutes.

| Run | Scenario | Shows |
|---|---|---|
| `MCActive` | 2 users, 2 disconnects, bias -3 | cleanup runs once, alone and after the last release; one disconnect wins; deactivation is final; every disconnect returns, so no wake-up is lost; refinement of `Lifecycle` |
| `MCSend` | 3 peers, 3 concurrent sends, 2 of them multicasts to a common pair, pollers | no warning, exact cached pointers, no lost wake-up, key order, same order everywhere, causality, exact CONTINUE flag, and the induction behind the last two |
| `MCDestroy` | a destruction and the release of the owner's handle against a send to the node that also passes a handle on, with up to two release notifications before | both inductive invariants, no warning, a passed handle is invalid only if the destruction was ordered before; queues drain again and again |
| `MCReset` | a reset against three sends, a new node and a release notification | inductive invariant, no warning, nothing flushed is received |
| `MCPool` | 3 messages, pool of 31 bytes, payloads 0, 8, 9 and 32 | inductive invariant (which contains that no warning fires), slices tile the pool, owners pin slices, published slices stay put, a completed flush unpublishes all |
| `MCUser` | 2 peers of one uid or of two, 3 calls, budget of 2 slices, limits 1 and 2 | inductive invariant (exact references, nothing freed in use), one object per uid, balanced counters, no warning, refinement of `Account` |
| `MCHandle` | owner and 2 holders, 3 remote handles, 2 messages to one peer, 5 ioctls or disconnects | exact object references in every state; exact weak, strong and user counts and charges at rest; the owner is told that the node is no longer wanted, and only then; one attached handle per peer; no warning but the two named below |

Five runs show where the code and its own comments or documentation disagree:

| Run | Statement that fails | Cause |
|---|---|---|
| `MCOrder` | real time, causality and delivery order of transactions form a partial order (`queue.h`, `bus1.xml`) | pairs with a common receiver are ordered, chains through a concurrent third transaction are not |
| `MCDestroyLast` | no message after a destroy notification names the node (`handle.h`) | equal commit timestamps count as live |
| `MCLateJoin` | a synthetic entry never becomes the front (`queue.c`) | the address comparison for entries of one transaction is reversed |
| `MCResetFront` | a descriptor is readable if a message is ready (`bus1.xml`) | `bus1_queue_flush()` does not restore `front` |
| `MCAcquire` | acquiring a handle always succeeds (`handle.h`) | a handle released while its owner is disconnected stays in the tree, and conflicts with itself when it is acquired again |

The passing runs check what holds beside these. `NoWarn` holds in the scenarios
of `MCSend`, `MCDestroy` and `MCReset`; in the scenario of `MCLateJoin` the
`WARN_ON` of `bus1_queue_commit_synthetic()` fires. `CachedPointers` is about
queues that were not flushed yet, because a flush is where `MCResetFront` breaks
it; `IInv` contains what remains true of the pointers afterwards.
`CausalDelivery` is checked without late joins, whose entries carry a timestamp
of the past by design.
`NoWarn` of `Handle` leaves out the `WARN_ON`s that do fire: that of
`handle.c:371`, and that of `message.c:567` once the node is destroyed.
`ChargesExact` states what is charged with the double discharge of `message.c:409`
in it (see below for all three).

### Findings without a run

Met while modelling; each follows from reading the code along the model.

* `bus1_message_stage()` calls `bus1_tx_stage_sync()` without the destination's
  `data.lock` (`message.c:472`), which `tx.c:155` demands; `StageMessage` is a
  step that needs no lock.
* `bus1_peer_flush()` calls `bus1_pool_flush()` without `data.lock`
  (`peer.c:224`), though `pool.h:103` asks for serialised operations; in `Pool`
  the walk can meet an entry a failing SEND has removed, and stops there.
* RECV of a message whose handle is dead fires the `WARN_ON` of
  `message.c:567`, which expects a live handle for every one that was charged.
  `Install` sets the mark `"n_handles_charge"`; it is reached in `MCHandle`.
* Such a message keeps the charge of that handle in `n_handles_charge`; RECV
  discharges it in `bus1_message_deinit()`, and the last unref discharges it again
  (`message.c:409`). `ChargesExact` says that this is the whole difference; `used`
  goes below zero in `MCHandle`.
* The `WARN_ON` on a conflicting handle (`handle.c:371`) expects `n_weak` to be
  1; a second message may have raised it to 2. `AcquireLocked` sets the mark
  `"n_weak"`; it is reached in `MCHandle`.
* RECV gives a handle an ID but does not link it into the ID map, which only
  HANDLE_TRANSFER does through `bus1_handle_export()`; a received handle cannot
  be released by its ID until then. `Installed` leaves `ids` alone.
* For this reason and for the double discharge, `n_handles` of a peer need not be
  back at its limit when the peer is freed, and the `WARN_ON` of `user.c:146` fires
  for it: `bus1_peer_flush()` discharges only the handles in the ID map
  (`peer.c:195-210`). For `n_slices` it does not fire (`NoWarn` of `User`).
* A handle that is attached after its node was destroyed acquires its holder
  (`handle.c:306`) and, if the late notification can be queued, keeps that active
  reference; only the commit round drops such references (`tx.c:356`), and it is
  over. The disconnect of the holder then waits for ever. In `Handle` the holder
  is in `node.joined` from then on, and `Pinned` keeps `Cleanup` from starting.
* While the owner is disconnected but not cleaned up, acquire and release change
  the tree of the anchor under the holder's lock only. The model takes each such
  section as atomic.

### Bounds

* Every transaction runs once; the scenarios in `MCTransaction` fix who sends
  what to whom. Three peers are the least for two common receivers and a third
  party; addresses are chosen so that the comparisons by group and by address
  contradict each other on different queues, without which the order properties
  would hold for weaker reasons (the `ByTimestamp` variant shows it).
* `MaxClock` bounds release notifications, the only operation that could repeat
  for ever; one per peer is enough for a notification to be queued, withdrawn
  or received around a destruction or a reset.
* Clocks are 64-bit counters in the code and naturals here: each critical
  section advances one by at most 2, so they do not wrap in practice.
* `BIAS` only has to exceed the number of users; -3 keeps all marks distinct.
* The pool of 31 bytes ends, like the real one, one byte short of a multiple
  of 8. Three slices of 8 bytes leave a tail of 7 that is never used, a second
  slice of 16 does not fit beside the first, and one of 32 never fits.
* `MCUser`: with one uid the two peers share and race, with two their budgets are
  apart; two objects let a new one be created beside one that is being freed; three
  calls let one free, one look up and one hold a message, and exhaust a budget of
  2. Calls, peers and objects are
  interchangeable and have no order, so symmetry is sound; all properties are
  safety properties.
* `MCHandle`: `MaxCalls` counts every ioctl that starts and every disconnect, but
  not RECV and SLICE_RELEASE, which can only follow a SEND. Five allow the
  creation of the node, a transfer, two concurrent messages of different senders
  to one receiver (the least for a conflict of two handle objects) and one more
  call, or longer sequences with fewer messages: two transfers and a reset, a
  release and a disconnect against a SEND. Three remotes are one for the second
  sender and two that race.
* Deadlock is not checked: finished calls and closed peers are legal ends.

### Fairness

`MCActive`: a thread inside a call goes on (weak fairness of each step inside
`release` and the disconnect); nobody must acquire or begin. `DisconnectReturns`
starts at the deactivation, because the compare-and-swap loop before it is
lock-free but not wait-free. `MCDestroy`: a call that began goes on, since
ioctls never wait for user space; a receiver keeps calling RECV (weak fairness
of `Peek`), and does not fail for ever on the same message (strong fairness of
`Dequeue`, as `RecvFail` may intervene).

## Proofs

For every value of the constants that satisfies the `ASSUME`s:

* `ActiveProofs`: `Inductive` (`Spec => []IInv`), and from it `CleanupIsAlone`,
  `CleanupOnce`, `Winner`, `NoWarnings`, `StaysDeactivated` and `Refinement`
  (`Active` implements `Lifecycle`). The invariants are not inductive alone: the
  counter must be tied to the set of holders (`CountOK`), and each place in a
  disconnect bounds what the counter can still become (`PlaceOK`). The only
  assumption with content is that fewer than `-BIAS` references exist.
* `QueueProofs`: what each queue operation preserves (`QueueOK`: `leftmost` is
  least, only it can be the front, no key is ahead of the clock), what it does to
  the past (`Past`: a key before which nothing can be linked any more), and that
  it fires no `WARN_ON`, keeps the caches exact and wakes sleepers if it is called
  as its contract asks.
* `TransactionProofs`, the order of messages: `Inductive`, then `QueueOrder` (a
  queue hands entries out in key order), `SameOrder` (two peers agree on the order
  of two transactions) and `FlushedIsGone` (nothing before the reset timestamp is
  received after it). The argument: an entry is only received when its key is in
  the past of its queue (`KeysOK`), staging entries keep the past closed because a
  commit timestamp is never below the staging one, and all entries of a
  transaction carry the one timestamp it was sealed with (`StampsOK`), so the keys
  order two transactions alike on every queue. `ListsOK` says that a node is staged
  and tagged by one transaction at a time, `LocalOK` that a peer runs one call at a
  time. `IInv` holds in spite of all findings above: it asks neither for exact
  pointers after a flush nor for the lock in `StageMessage`. The proof covers the
  unlocked staging as an atomic step between critical sections of others; a data
  race inside the tree is out of its scope.
* `TransactionProofs`, the callers: `CallersInductive` (`Spec => []CInv`) says who
  may use a node. A group tag names the one user of a node (`TagsOK`), the lists of
  a transaction are exactly what it has staged and not committed, with keys behind
  its commit timestamp and with the clocks of synced destinations past it
  (`StagedOK`), and flushes only move on (`FlushesOK`). With it every call of a
  queue operation meets the contract of `queue.h`, except the one `MCLateJoin`
  shows. Hence `Caches` holds without a condition, while `NoWarnings` and `Wakeups`
  are about behaviours in which no late handle becomes the front
  (`LateJoinStaysBehind`). `JoinsStayBehind` shows a topology in which that is
  always so (`SingleHandles`: no peer holds handles to two nodes of one owner),
  because only an entry of the same destruction can be overtaken;
  `SingleHandlesQuiet` combines them: there no `WARN_ON` fires and no wake-up is
  lost, whatever happens.
* `TransactionProofs`, what is received: `TransactionSteps` reduces every step to
  one of five cases for each node (kept, staged, tagged, committed, joined late)
  and to progress of each transaction (`Moves`). On it rest `HandlesValid` (a
  handle is handed out as invalid only if the destruction has the lower commit
  timestamp), `Continues` (after RECV has reported the last message of a
  transaction none is received, although handles may still join it: a late entry
  needs a linked one to stay behind) and `Causality` (of two transactions, the one
  that began after the other completed or was received somewhere is received later
  by every common receiver). The last two need `DeliveredOK`: nothing is left in
  the queue once the last message was reported (`LastOK`), and a transaction that
  was seen is through its sync round, so that a later one finds its clocks advanced
  (`CausesOK`). `Causality` leaves out destructions that handles in flight may join
  (`LateJoins`), as these have no sync round for the joined entry; `CausalOrder` is
  the plain statement for systems without them.
* `UserProofs`: `UsersInductive` (`Spec => []UsersOK`) and `OneUser` (all peers
  of a uid account on one object). That a lookup never returns a freed object is
  not inductive alone: the count of an object must be the number of peers,
  messages and calls that own a reference (`CountsOK`), the tree must hold
  exactly the objects that are allocated, and one without references must be in
  the hands of the call that holds `bus1_user_lock` (`IdrOK`); `CallsOK` ties the
  local variables of a call to the place where it is. On top of it `Balances`
  (what is left of `n_slices` and what is held of it add up to the limit),
  `LimitsRestored` (`n_slices` is back at its limit when a peer or user is freed;
  not claimed of `n_handles`, for which it is false) and
  `AccountRefinement` (`User` implements `Account`). Assumed: peers and calls are
  finitely many, and `NULL` is none of the values.
* `PoolProofs`: `Inductive` (`Spec => []IInv`), and from it `Tiling` (the slices
  tile the pool and the trees and `allocated_size` are exact), `ReferencesExact` (a
  slice is allocated exactly while its message has an owner), `NoWarnings`,
  `FlushComplete` (a flush that reaches the end of the list leaves nothing
  published) and `PublishedFixed` (a slice that user space holds does not move).
  Tiling is proved from what an insertion and a removal do to a list
  (`LayoutInsert`, `LayoutRemove`), which needs that no slice is in the list twice
  (`ListedOnce`). The reference count needs the owners to be disjoint but for the
  message that RECV is publishing (`OneOwner`): otherwise an unref could be the last
  one while user space still holds the slice. The flush walks without `data.lock`;
  it is complete because every published slice stays ahead of it in the list
  (`WalkAhead`), whatever senders insert and remove meanwhile. That rests on the
  entry under the walk not being reused (see the abstractions). Should the walk meet
  a removed entry the task dies there, and nothing is claimed about that flush.
  Assumed: payload lengths are natural numbers, the pool has a positive size, and
  the root slice and `NULL` are no messages.
* `Sums`: the sums in `Balanced` and `SlicesTile` are folds. What a fold computes
  cannot be proved by the library's induction rules, whose parameter is an
  operator; instead each lemma takes a smallest subset of a finite set at which it
  would fail (`Smallest`, from the well-foundedness of strict inclusion) and derives
  a contradiction.

Only model-checked: `QueuesDrain` and `DisconnectReturns`, because liveness under
fairness is outside the prover, and all properties of `Handle` (`RefsExact`,
`CountsExact`, `ReleaseNotified`, `OneHandlePerPeer`, `ChargesExact`, `NoWarn`). None
of these is inductive without the others: that an unlocked decrement of `n_weak`
never reaches zero needs the exact share of every thread at each of its places,
which in turn needs exact object references and the data locks; this joint
invariant over some forty actions has not been written down. Where a late handle
does become the front, order, caches, handles and the CONTINUE flag are still
proved, warnings and wake-ups are not. Causality for destructions that are joined
late is neither claimed nor checked.

## Abstractions, and what is not modelled

* The lists of a transaction are sets; their order is arbitrary.
* In `Transaction` a message carries at most one handle, and a peer has one
  handle per node. `public` stands for `n_user > 0`, `attached` for membership in
  the anchor's map. Release notifications come and go whenever a node is live,
  which includes every order the counts of `Handle` allow.
* `Handle` has one node. Every message carries one handle to it; the handle of
  the destination node, which a message also references, is another one. A
  destruction stages and commits in one step; the order of its notifications is
  the subject of `Transaction`. Whether a handle that was notified is live for a
  given message is therefore a choice in `InstallDead`. Failures of a SEND before
  anything was charged have no effect and no step. The drop of a slice after
  `local.lock` is part of `SliceRelease`; `Pool` takes it apart. Entries have no
  timestamps there, so the flush of a reset takes any of the queued messages and
  leaves the others (the code takes those up to its timestamp); that of a cleanup
  takes all.
* `User` charges slices only. Bytes and descriptors have limits but nothing charges
  them. `PeerFree` comes after `bus1_active_drain()` and the flush of the cleanup,
  whose steps are those of the calls it waits for and of the messages it frees.
  32-bit counters do not wrap: limits are at most `INT_MAX` and charges are granted
  only if they fit.
* Peers do not disconnect in `Transaction`, and transaction addresses (the group
  tags) are unique, though the code reuses stack addresses.
* `Peek` is one round of the loop of `bus1_peer_peek()`: other peers may run
  between two rounds, though the code only drops `data.lock` after a round that
  discards a data message.
* Argument checks, copying, credentials, file descriptors, payload contents,
  mmap, debugfs and module set-up are left out.
* Not modelled: the quota functions of `user.c` (`bus1_user_charge_quota()` and
  what it uses), which nothing calls; `util/flist.c`, a sequential batched array
  that only its single owner touches; `util.c`, which copies from user space;
  PEER_QUERY, which reads; `security.h`, whose hooks return 0.
* In `Pool` the name of a freed message is used again, except while the walk of
  a flush holds its address. The code frees messages with `kfree_rcu()` but walks
  without `rcu_read_lock()`, so the grace period covers the walk only on kernels
  that are not preemptible; elsewhere the entry could be reused under the walk,
  which is not modelled. A seed message does not exist: SEND with
  BUS1_SEND_FLAG_SEED is refused.

## Plan

1. Done: `Active` with `Lifecycle`, `Queue`, `Transaction`, `Pool`, `User` with
   `Account`, `Handle`; the proofs of `Active`, `Queue`, `Transaction`, `User` and
   `Pool`.
2. Disconnect in `Transaction`: an active reference per destination and the
   cleanup as a reset; the release notifications of `Transaction` from the counts
   of `Handle`.
3. Proofs: exact references in `Handle`.
4. `flist` as a pure function against a plain sequence; the quota functions once
   something calls them.
