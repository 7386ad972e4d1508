------------------------------- MODULE Queue -------------------------------
(***************************************************************************)
(* The message queue of a peer (ipc/bus1/util/queue.[ch]).                 *)
(*                                                                         *)
(* Every operation of the queue runs under the data-lock of its peer, so   *)
(* each one is an operator from a queue to the queue it leaves behind; the *)
(* modules that interleave them hold the state.  Nodes and group tags are  *)
(* addresses, hence positive numbers, and are compared as such.  An even   *)
(* timestamp is a commit timestamp, an odd one marks a staging entry.      *)
(*                                                                         *)
(* The rb-tree is the set of linked nodes: the keys order it totally.  A   *)
(* queue carries the keys of the nodes destined for it, the sleeping state *)
(* of the task that polls it, and whether a WARN_ON() of queue.c fired.    *)
(***************************************************************************)
EXTENDS Integers

NULL == 0

QueueType(Node) ==
  [clock: Nat, flush: Nat, leftmost: Node \cup {NULL},
   front: Node \cup {NULL}, messages: SUBSET Node,
   timestamp: [Node -> Nat], group: [Node -> Nat],
   asleep: BOOLEAN, warned: BOOLEAN]

QueueInit(Node) ==
  [clock |-> 0, flush |-> 0, leftmost |-> NULL, front |-> NULL,
   messages |-> {},
   timestamp |-> [n \in Node |-> 0], group |-> [n \in Node |-> NULL],
   asleep |-> FALSE, warned |-> FALSE]

Odd(t) == t % 2 = 1
Later(s, t) == IF s < t THEN t ELSE s

IsStaging(q, n) == Odd(q.timestamp[n])
IsQueued(q, n) == n \in q.messages

(* The keys (timestamp, group) are compared lexicographically.             *)
KeyBefore(s, g, t, h) == s < t \/ (s = t /\ g < h)

(* Faulty: the order of the tree without the group tags.                   *)
ByTimestamp(q, m, n) ==
  \/ q.timestamp[m] < q.timestamp[n]
  \/ q.timestamp[m] = q.timestamp[n] /\ m < n

(* The order of the tree: nodes with equal keys are ordered by address.    *)
Before(q, m, n) ==
  \/ KeyBefore(q.timestamp[m], q.group[m], q.timestamp[n], q.group[n])
  \/ q.timestamp[m] = q.timestamp[n] /\ q.group[m] = q.group[n] /\ m < n

(* rb_first() of the nodes S *)
First(q, S) ==
  IF S = {} THEN NULL
  ELSE CHOOSE n \in S : \A m \in S \ {n} : Before(q, n, m)

(* rb_next() of a linked node *)
Following(q, n) == First(q, {m \in q.messages : Before(q, n, m)})

Warn(q, cond) == [q EXCEPT !.warned = @ \/ cond]

(* Faulty: nobody is woken up.                                             *)
WakeNobody(q, cond) == q

(* wake_up_interruptible(): whoever sleeps in poll() on the peer runs.     *)
Wake(q, cond) == [q EXCEPT !.asleep = @ /\ ~cond]

-----------------------------------------------------------------------------
Tick(q) == [q EXCEPT !.clock = @ + 2]

Sync(q, t) == Warn([q EXCEPT !.clock = Later(@, t)], Odd(t))

NodeInit(q, n) ==
  [q EXCEPT !.timestamp[n] = 0, !.group[n] = NULL]

SetGroup(q, n, g) == [q EXCEPT !.group[n] = g]

SetGroups(q, S, g) ==
  [q EXCEPT !.group = [n \in DOMAIN q.group |-> IF n \in S THEN g ELSE q.group[n]]]

-----------------------------------------------------------------------------
(* Faulty variants of the operations below, one mistake each: the          *)
(* properties are checked to notice them.                                  *)

UncoverWithoutFront(q, n, t) ==
  LET s == [q EXCEPT !.timestamp[n] = t]
  IN  IF n = q.leftmost THEN [s EXCEPT !.leftmost = Following(q, n)] ELSE s

RemoveWithoutFront(q, n) ==
  [q EXCEPT !.messages = @ \ {n},
            !.leftmost = IF n = q.leftmost THEN Following(q, n) ELSE @,
            !.front = IF n = q.leftmost THEN NULL ELSE @]

NeverMore(q) == FALSE

FlushedOrStaging(q, t) == {n \in q.messages : q.timestamp[n] <= t + 1}

FlushWithoutLeftmost(q, t) ==
  [q EXCEPT !.front = NULL, !.flush = t,
            !.messages = {n \in @ : IsStaging(q, n) \/ q.timestamp[n] > t}]

-----------------------------------------------------------------------------
(* bus1_queue_add(): n is stamped with t.  If it was linked and leftmost,  *)
(* the entry behind it may become the front.                               *)
Uncover(q, n, t) ==
  LET next == Following(q, n)
      s    == [q EXCEPT !.timestamp[n] = t]
      shows == next # NULL /\ ~IsStaging(s, next) /\ Before(s, next, n)
  IN  IF n = q.leftmost
      THEN [Warn(s, q.front # NULL) EXCEPT
              !.leftmost = next,
              !.front = IF shows THEN next ELSE @]
      ELSE Warn(s, q.front # NULL /\ ~Before(s, q.front, n))

(* Then it is linked again, by its new key; s holds the new keys.          *)
Link(s, n, t, readable) ==
  LET leftmost == \A m \in s.messages \ {n} : Before(s, n, m)
  IN  [Warn(s, leftmost /\ Odd(t) /\ readable) EXCEPT
         !.messages = @ \cup {n},
         !.leftmost = IF leftmost THEN n ELSE @,
         !.front = IF leftmost /\ ~Odd(t) THEN n ELSE @]

Invalid(q, n, t) ==
  LET old == q.timestamp[n]
  IN  \/ t = 0 \/ t > q.clock + 1
      \/ (old = 0) = IsQueued(q, n)
      \/ old # 0 /\ (~Odd(old) \/ t < old)

Add(q, waitq, n, t) ==
  IF Invalid(q, n, t) THEN Warn(q, TRUE)
  ELSE IF q.timestamp[n] = t THEN q
  ELSE LET s == Link(Uncover(q, n, t), n, t, q.front # NULL)
       IN  Wake(s, waitq /\ q.front = NULL /\ s.front # NULL)

-----------------------------------------------------------------------------
(* Callers read the timestamp bus1_queue_stage() returns off the clock.    *)
Stage(q, n, t) ==
  LET p == Sync(q, t)
      s == Add(p, FALSE, n, p.clock + 1)
  IN  Warn(s, Odd(t) \/ IsQueued(q, n) \/ s.front = n)

CommitStaged(q, n, t) ==
  Add(Warn(q, Odd(t) \/ ~IsQueued(q, n)), TRUE, n, t)

CommitUnstaged(q, n) ==
  LET p == Warn(Tick(q), IsQueued(q, n))
  IN  Add(p, TRUE, n, p.clock)

(* The comparison of bus1_queue_commit_synthetic(): the entry is only      *)
(* added behind the leftmost one, or when it shares its transaction and    *)
(* has the lower address.                                                  *)
JoinsBehind(q, n, t) ==
  LET l == q.leftmost
  IN  /\ l # NULL
      /\ \/ KeyBefore(q.timestamp[l], q.group[l], t, q.group[n])
         \/ q.timestamp[l] = t /\ q.group[l] = q.group[n] /\ n < l

CommitSynthetic(q, n, t) ==
  LET p == Warn(q, Odd(t) \/ t > q.clock + 1 \/ IsQueued(q, n))
      s == Add(p, FALSE, n, t)
  IN  IF JoinsBehind(q, n, t) THEN Warn(s, s.front = n) ELSE p

Remove(q, n) ==
  LET next == Following(q, n)
      s == [q EXCEPT
              !.messages = @ \ {n},
              !.leftmost = IF n = q.leftmost THEN next ELSE @,
              !.front = IF n # q.leftmost THEN @
                        ELSE IF next # NULL /\ ~IsStaging(q, next)
                        THEN next ELSE NULL]
  IN  IF ~IsQueued(q, n) THEN Warn(q, TRUE)
      ELSE Wake(s, q.front = NULL /\ s.front # NULL)

(* The group-state bus1_queue_peek() reports for the front entry.          *)
More(q) ==
  LET next == Following(q, q.front)
  IN  /\ next # NULL
      /\ q.timestamp[next] = q.timestamp[q.front]
      /\ q.group[next] = q.group[q.front]

Flushed(q, t) ==
  {n \in q.messages : ~IsStaging(q, n) /\ q.timestamp[n] <= t}

Flush(q, t) ==
  LET kept == q.messages \ Flushed(q, t)
  IN  [Warn(q, Odd(t) \/ t > q.clock + 1 \/ t < q.flush) EXCEPT
         !.front = NULL,
         !.leftmost = First(q, kept),
         !.flush = t,
         !.messages = kept]

-----------------------------------------------------------------------------
(* The cached pointers are right: leftmost is the least linked node, and   *)
(* front is that node exactly when it is committed (struct bus1_queue).    *)
PointersRight(q) ==
  /\ q.leftmost = First(q, q.messages)
  /\ q.front = IF q.leftmost # NULL /\ ~IsStaging(q, q.leftmost)
               THEN q.leftmost ELSE NULL

(* What the queue itself maintains, whatever its callers do: leftmost is   *)
(* the least linked node, only that node can be the front and only if it   *)
(* is committed, and no key is ahead of the clock.                         *)
QueueOK(q, Node) ==
  /\ q \in QueueType(Node)
  /\ ~Odd(q.clock)
  /\ IF q.messages = {} THEN q.leftmost = NULL
     ELSE /\ q.leftmost \in q.messages
          /\ \A m \in q.messages \ {q.leftmost} : Before(q, q.leftmost, m)
  /\ q.front # NULL => q.front = q.leftmost /\ ~IsStaging(q, q.front)
  /\ \A n \in q.messages : q.timestamp[n] \in 1 .. q.clock + 1

(* The key (t, g) is in the past of the queue: nothing that is linked or   *)
(* will be linked is ordered before it.                                    *)
Past(q, t, g) ==
  /\ t <= q.clock
  /\ \A n \in q.messages : ~KeyBefore(q.timestamp[n], q.group[n], t, g)

=============================================================================
