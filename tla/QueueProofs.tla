---------------------------- MODULE QueueProofs ----------------------------
(***************************************************************************)
(* What the operations of Queue do, for any set of nodes: they keep        *)
(* QueueOK and the past of the queue, they keep the caches right and fire  *)
(* no WARN_ON() where their contract is kept, and what a transaction's     *)
(* stage, commit and late join leave behind follows from them.             *)
(***************************************************************************)
EXTENDS Transaction, WellFoundedInduction, TLAPS

USE ZenonT(30)

(* A nonempty set of naturals has a least element.                         *)
LEMMA LeastNatural ==
  ASSUME NEW S \in SUBSET Nat, S # {}
  PROVE  \E m \in S : \A k \in S : m <= k
<1> DEFINE R == {ss \in Nat \X Nat : ss[1] < ss[2]}
<1>1. IsWellFoundedOn(R, Nat)
  BY NatLessThanWellFounded DEF OpToRel
<1>2. PICK m \in S : \A k \in S : ~(<<k, m>> \in R)
  <2> HIDE DEF R
  <2> QED
    BY <1>1, WFMin
<1>3. \A k \in S : ~(k < m)
  BY <1>2
<1> QED
  BY SMTT(30), <1>3

(* The order of the tree is a strict total order on the nodes, whatever    *)
(* their keys (bus1_queue_node_order()).                                   *)
LEMMA BeforeIsOrder ==
  ASSUME NEW N \in SUBSET (Nat \ {0}), NEW q,
         q.timestamp \in [N -> Nat], q.group \in [N -> Nat],
         NEW a \in N, NEW b \in N, NEW c \in N
  PROVE  /\ ~Before(q, a, a)
         /\ Before(q, a, b) => ~Before(q, b, a)
         /\ a # b => Before(q, a, b) \/ Before(q, b, a)
         /\ Before(q, a, b) /\ Before(q, b, c) => Before(q, a, c)
BY SMTT(30) DEF Before, KeyBefore

(* rb_first(): every nonempty set of nodes has exactly one first node.     *)
LEMMA FirstIsLeast ==
  ASSUME NEW N \in SUBSET (Nat \ {0}), NEW q,
         q.timestamp \in [N -> Nat], q.group \in [N -> Nat],
         NEW S \in SUBSET N
  PROVE  IF S = {} THEN First(q, S) = NULL
         ELSE /\ First(q, S) \in S
              /\ \A m \in S \ {First(q, S)} : Before(q, First(q, S), m)
<1>1. CASE S = {}
  BY <1>1 DEF First
<1>2. CASE S # {}
  <2>1. PICK x \in S : \A m \in S : q.timestamp[x] <= q.timestamp[m]
    <3> DEFINE T == {q.timestamp[m] : m \in S}
    <3>1. T \in SUBSET Nat /\ T # {}
      BY <1>2
    <3>2. PICK t \in T : \A k \in T : t <= k
      <4> HIDE DEF T
      <4> QED BY <3>1, LeastNatural
    <3>3. PICK x \in S : t = q.timestamp[x]
      BY <3>2
    <3>4. \A m \in S : q.timestamp[m] \in T
      OBVIOUS
    <3> QED
      BY <3>2, <3>3, <3>4
  <2> DEFINE S1 == {m \in S : q.timestamp[m] = q.timestamp[x]}
  <2>2. PICK y \in S1 : \A m \in S1 : q.group[y] <= q.group[m]
    <3> DEFINE G == {q.group[m] : m \in S1}
    <3>1. G \in SUBSET Nat /\ G # {}
      BY <2>1
    <3>2. PICK g \in G : \A k \in G : g <= k
      <4> HIDE DEF G
      <4> QED BY <3>1, LeastNatural
    <3>3. PICK y \in S1 : g = q.group[y]
      BY <3>2
    <3>4. \A m \in S1 : q.group[m] \in G
      OBVIOUS
    <3> QED
      BY <3>2, <3>3, <3>4
  <2> DEFINE S2 == {m \in S1 : q.group[m] = q.group[y]}
  <2>3. PICK z \in S2 : \A m \in S2 : z <= m
    BY <2>2, LeastNatural, S2 \in SUBSET Nat
  <2>4. ASSUME NEW m \in S \ {z}
        PROVE  Before(q, z, m)
    <3>1. /\ q.timestamp[z] = q.timestamp[x] /\ q.timestamp[x] <= q.timestamp[m]
          /\ q.group[z] = q.group[y]
          /\ q.timestamp[m] = q.timestamp[x] => q.group[y] <= q.group[m]
          /\ q.timestamp[m] = q.timestamp[x] /\ q.group[m] = q.group[y] => z <= m
      BY <2>1, <2>2, <2>3
    <3>2. /\ q.timestamp[z] \in Nat /\ q.timestamp[m] \in Nat
          /\ q.group[z] \in Nat /\ q.group[m] \in Nat
          /\ z \in Nat /\ m \in Nat /\ z # m
      BY <2>3
    <3> QED
      BY SMTT(30), <3>1, <3>2 DEF Before, KeyBefore
  <2>5. \E n \in S : \A m \in S \ {n} : Before(q, n, m)
    BY <2>3, <2>4
  <2> QED
    BY <1>2, <2>5 DEF First
<1> QED
  BY <1>1, <1>2

-----------------------------------------------------------------------------
(* bus1_queue_add(): either it refuses and leaves the tree alone, or n is  *)
(* linked with a key that is new, or later than the staging one it had.    *)
AddOutcome(q, s, n, t) ==
  /\ s.clock = q.clock /\ s.flush = q.flush /\ s.group = q.group
  /\ \/ /\ s.messages = q.messages /\ s.timestamp = q.timestamp
        /\ Invalid(q, n, t) \/ q.timestamp[n] = t
     \/ /\ s.messages = q.messages \cup {n}
        /\ s.timestamp = [q.timestamp EXCEPT ![n] = t]
        /\ t \in 1 .. q.clock + 1
        /\ IF n \in q.messages
           THEN IsStaging(q, n) /\ q.timestamp[n] < t
           ELSE q.timestamp[n] = 0

(* The two kinds of calls: a node is staged at the current time, or linked *)
(* with an even timestamp.                                                 *)
AddContract(q, n, t) == Odd(t) => n \notin q.messages /\ t = q.clock + 1

(* The last two steps of bus1_queue_add() on a queue whose caches were     *)
(* right before n was unlinked: s holds the new keys, its leftmost is the  *)
(* first of the others.                                                    *)
LinkReady(s, n, t) ==
  /\ s.timestamp[n] = t /\ ~Odd(s.clock)
  /\ \A m \in s.messages \cup {n} : s.timestamp[m] \in 1 .. s.clock + 1
  /\ IF s.messages \ {n} = {} THEN s.leftmost = NULL \/ s.leftmost = n
     ELSE /\ s.leftmost \in s.messages \ {n}
          /\ \A m \in s.messages \ {n, s.leftmost} : Before(s, s.leftmost, m)
  /\ s.front # NULL => /\ s.front = s.leftmost /\ ~IsStaging(s, s.front)
                       /\ s.front # n
                       /\ Odd(t) => Before(s, s.front, n)

(* Linking a node by its new key leaves the caches right: the second half  *)
(* of bus1_queue_add().                                                    *)
LEMMA LinkOK ==
  ASSUME NEW N \in SUBSET (Nat \ {0}), NEW s \in QueueType(N),
         NEW n \in N, NEW t \in Nat, NEW readable \in BOOLEAN,
         LinkReady(s, n, t),
         NEW r, r = Link(s, n, t, readable)
  PROVE  /\ QueueOK(r, N)
         /\ r.clock = s.clock /\ r.flush = s.flush /\ r.group = s.group
         /\ r.messages = s.messages \cup {n}
         /\ r.timestamp = s.timestamp
<1> USE DEF LinkReady
<1> DEFINE least == \A m \in s.messages \ {n} : Before(s, n, m)
           l == IF least THEN n ELSE s.leftmost
           f == IF least /\ ~Odd(t) THEN n ELSE s.front
<1>1. /\ r.clock = s.clock /\ r.flush = s.flush /\ r.group = s.group
      /\ r.messages = s.messages \cup {n} /\ r.timestamp = s.timestamp
      /\ r.leftmost = l /\ r.front = f
  BY DEF Link, Warn, QueueType
<1>2. r \in QueueType(N)
  BY DEF Link, Warn, QueueType
<1> USE DEF QueueType
<1>3. \A x, y \in N : Before(r, x, y) <=> Before(s, x, y)
  BY <1>1 DEF Before
<1>4. \A x, y, z \in N :
        /\ ~Before(s, x, x)
        /\ Before(s, x, y) => ~Before(s, y, x)
        /\ x # y => Before(s, x, y) \/ Before(s, y, x)
        /\ Before(s, x, y) /\ Before(s, y, z) => Before(s, x, z)
  BY BeforeIsOrder
<1>5. /\ l \in s.messages \cup {n}
      /\ \A m \in (s.messages \cup {n}) \ {l} : Before(s, l, m)
  <2>1. CASE least
    BY <2>1
  <2>2. CASE ~least
    <3>1. PICK m \in s.messages \ {n} : ~Before(s, n, m)
      BY <2>2
    <3>2. Before(s, m, n) /\ s.leftmost \in s.messages \ {n}
      BY <3>1, <1>4
    <3>3. Before(s, s.leftmost, n)
      BY <3>1, <3>2, <1>4
    <3> QED
      BY <2>2, <3>2, <3>3
  <2> QED
    BY <2>1, <2>2
<1>6. f # NULL => f = l /\ ~Odd(s.timestamp[f])
  BY <1>4 DEF IsStaging
<1>7. \A m \in r.messages \ {r.leftmost} : Before(r, r.leftmost, m)
  <2> HIDE DEF least, l, f
  <2> TAKE m \in r.messages \ {r.leftmost}
  <2>1. m \in (s.messages \cup {n}) \ {l} /\ r.leftmost = l
    BY <1>1
  <2>2. Before(s, l, m) /\ l \in N /\ m \in N
    BY <2>1, <1>5
  <2> QED
    BY <2>1, <2>2, <1>3
<1> QED
  <2> HIDE DEF least, l, f, QueueType
  <2>1. r.messages # {} /\ r.leftmost \in r.messages
    BY <1>1, <1>5
  <2>2. r.front # NULL => r.front = r.leftmost /\ ~IsStaging(r, r.front)
    BY <1>1, <1>6 DEF IsStaging
  <2>3. ~Odd(r.clock)
    BY <1>1
  <2>4. \A m \in r.messages : r.timestamp[m] \in 1 .. r.clock + 1
    BY <1>1
  <2> QED
    BY <1>1, <1>2, <1>7, <2>1, <2>2, <2>3, <2>4 DEF QueueOK

(* WARN_ON() and wake-ups leave the tree alone.                            *)
Same(q, r) ==
  /\ r.clock = q.clock /\ r.flush = q.flush /\ r.group = q.group
  /\ r.messages = q.messages /\ r.timestamp = q.timestamp
  /\ r.leftmost = q.leftmost /\ r.front = q.front

(* A WARN_ON() and a wake-up leave the keys, the tree and the caches       *)
(* alone.                                                                  *)
LEMMA WarnWake ==
  ASSUME NEW N, NEW q \in QueueType(N), NEW c \in BOOLEAN
  PROVE  /\ Warn(q, c) \in QueueType(N) /\ Same(q, Warn(q, c))
         /\ Wake(q, c) \in QueueType(N) /\ Same(q, Wake(q, c))
BY DEF Warn, Wake, Same, QueueType

(* QueueOK only depends on the clock, which may advance, the keys of the   *)
(* linked nodes and the caches.                                            *)
Alike(q, r) ==
  /\ q.clock <= r.clock /\ ~Odd(r.clock)
  /\ r.messages = q.messages /\ r.leftmost = q.leftmost /\ r.front = q.front
  /\ \A m \in q.messages : r.timestamp[m] = q.timestamp[m]
                           /\ r.group[m] = q.group[m]

(* A queue with the same tree, keys and caches, and a later clock, is      *)
(* well-formed too.                                                        *)
LEMMA SameTree ==
  ASSUME NEW N \in SUBSET (Nat \ {0}), NEW q, QueueOK(q, N),
         NEW r \in QueueType(N), Alike(q, r)
  PROVE  QueueOK(r, N)
<1> USE DEF Alike
<1>1. q \in QueueType(N)
  BY DEF QueueOK
<1>2. \A x, y \in q.messages : Before(r, x, y) <=> Before(q, x, y)
  BY DEF Before
<1>3. r.messages # {} =>
        /\ r.leftmost \in r.messages
        /\ \A m \in r.messages \ {r.leftmost} : Before(r, r.leftmost, m)
  BY <1>2 DEF QueueOK
<1>4. r.front # NULL => r.front = r.leftmost /\ ~IsStaging(r, r.front)
  <2> HAVE r.front # NULL
  <2>1. q.front = q.leftmost /\ ~IsStaging(q, q.front) /\ q.messages # {}
    BY DEF QueueOK
  <2> QED
    BY <2>1, <1>3 DEF IsStaging
<1>5. \A m \in r.messages : r.timestamp[m] \in 1 .. r.clock + 1
  BY SMTT(30), <1>1 DEF QueueOK, QueueType
<1>6. r.messages = {} => r.leftmost = NULL
  BY DEF QueueOK
<1> QED
  BY <1>3, <1>4, <1>5, <1>6 DEF QueueOK

(* A queue that differs in nothing but its warned and asleep flags is      *)
(* well-formed too.                                                        *)
LEMMA SameOK ==
  ASSUME NEW N \in SUBSET (Nat \ {0}), NEW q, QueueOK(q, N),
         NEW r \in QueueType(N), Same(q, r)
  PROVE  QueueOK(r, N)
<1>1. Alike(q, r)
  BY SMTT(30) DEF Same, Alike, QueueOK, QueueType
<1> QED
  BY <1>1, SameTree

(* poll() does not miss an entry: the first one is the front if it is      *)
(* committed.                                                              *)
Right(q) ==
  q.leftmost # NULL /\ ~IsStaging(q, q.leftmost) => q.front = q.leftmost

(* A node that is linked with timestamp t does not go before the front.    *)
FrontStays(q, n, t) ==
  n \notin q.messages /\ q.front # NULL =>
    KeyBefore(q.timestamp[q.front], q.group[q.front], t, q.group[n])

(* The first half of bus1_queue_add(): u is ready for n to be linked again *)
(* and its front is right, unless n comes first.                           *)
Uncovered(q, n, t, u) ==
  /\ u.clock = q.clock /\ u.flush = q.flush /\ u.group = q.group
  /\ u.messages = q.messages /\ u.timestamp = [q.timestamp EXCEPT ![n] = t]
  /\ LinkReady(u, n, t)
  /\ u.asleep = q.asleep
  /\ q.front # NULL \/ n \notin q.messages => u.front = q.front
  /\ Right(q) /\ u.leftmost \notin {NULL, n} /\ ~IsStaging(u, u.leftmost)
     /\ Before(u, u.leftmost, n) => u.front = u.leftmost
  /\ FrontStays(q, n, t) => /\ u.warned => q.warned
                            /\ q.front # NULL => Before(u, q.front, n)

(* Unlinking a node to stamp it anew leaves the others in order.           *)
LEMMA UncoverOK ==
  ASSUME NEW N \in SUBSET (Nat \ {0}), NEW q, QueueOK(q, N),
         NEW n \in N, NEW t \in Nat, AddContract(q, n, t),
         ~Invalid(q, n, t), q.timestamp[n] # t
  PROVE  /\ Uncover(q, n, t) \in QueueType(N)
         /\ Uncovered(q, n, t, Uncover(q, n, t))
<1>1. q \in QueueType(N)
  BY DEF QueueOK
<1> DEFINE old == q.timestamp[n]
           u == Uncover(q, n, t)
           next == Following(q, n)
<1>2. /\ t \in 1 .. q.clock + 1
      /\ IF n \in q.messages THEN Odd(old) /\ old < t ELSE old = 0
  BY SMTT(30), <1>1 DEF Invalid, IsQueued, QueueType
<1> DEFINE rest == {m \in q.messages : Before(q, n, m)}
           v == [q EXCEPT !.timestamp[n] = t]
           shows == next # NULL /\ ~IsStaging(v, next) /\ Before(v, next, n)
           leads == n = q.leftmost
<1>3. IF rest = {} THEN next = NULL
      ELSE /\ next \in rest
           /\ \A m \in rest \ {next} : Before(q, next, m)
  <2>1. rest \in SUBSET N /\ next = First(q, rest)
    BY <1>1 DEF Following, QueueType
  <2> HIDE DEF rest, next
  <2> QED
    BY <1>1, <2>1, FirstIsLeast DEF QueueType
<1>4. /\ v \in QueueType(N)
      /\ v.timestamp = [q.timestamp EXCEPT ![n] = t]
      /\ v.clock = q.clock /\ v.flush = q.flush /\ v.group = q.group
      /\ v.messages = q.messages
      /\ v.leftmost = q.leftmost /\ v.front = q.front
  BY <1>1 DEF QueueType
<1>5. /\ u \in QueueType(N)
      /\ u.clock = v.clock /\ u.flush = v.flush /\ u.group = v.group
      /\ u.messages = v.messages /\ u.timestamp = v.timestamp
      /\ u.leftmost = IF leads THEN next ELSE q.leftmost
      /\ u.front = IF leads /\ shows THEN next ELSE q.front
  <2>1. next \in N \cup {NULL}
    BY <1>1, <1>3 DEF QueueType
  <2> DEFINE w1 == Warn(v, q.front # NULL)
             w2 == Warn(v, q.front # NULL /\ ~Before(v, q.front, n))
  <2>2. w1 \in QueueType(N) /\ Same(v, w1)
    <3> HIDE DEF v
    <3> QED BY <1>4, WarnWake, (q.front # NULL) \in BOOLEAN
  <2>3. w2 \in QueueType(N) /\ Same(v, w2)
    <3> HIDE DEF v
    <3> QED BY <1>4, WarnWake,
               (q.front # NULL /\ ~Before(v, q.front, n)) \in BOOLEAN
  <2>4. u = IF leads THEN [w1 EXCEPT !.leftmost = next,
                                     !.front = IF shows THEN next ELSE @]
            ELSE w2
    BY DEF Uncover
  <2> HIDE DEF w1, w2, v, u, next, leads, shows
  <2>5. CASE leads
    BY <1>4, <2>1, <2>2, <2>4, <2>5 DEF Same, QueueType
  <2>6. CASE ~leads
    BY <1>4, <2>3, <2>4, <2>6 DEF Same
  <2> QED
    BY <2>5, <2>6
<1>6. /\ u \in QueueType(N)
      /\ u.clock = q.clock /\ u.flush = q.flush /\ u.group = q.group
      /\ u.messages = q.messages
      /\ u.timestamp = [q.timestamp EXCEPT ![n] = t]
  <2> HIDE DEF u, v
  <2> QED BY <1>4, <1>5
<1>7. \A x, y \in N \ {n} : Before(u, x, y) <=> Before(q, x, y)
  <2> HIDE DEF u
  <2> QED BY <1>1, <1>6 DEF Before, QueueType
<1>8. \A x, y \in N : ~Before(q, x, x)
  BY <1>1, BeforeIsOrder DEF QueueType
<1>9. leads => n \in q.messages /\ rest = q.messages \ {n}
  <2> HAVE leads
  <2>1. n \in q.messages
    BY DEF QueueOK, NULL
  <2>2. \A m \in q.messages \ {n} : Before(q, n, m)
    BY <2>1 DEF QueueOK
  <2>3. ~Before(q, n, n)
    BY <1>8
  <2> QED
    BY <2>1, <2>2, <2>3
<1>10. ~leads /\ q.messages # {} =>
         /\ q.leftmost \in q.messages \ {n}
         /\ \A m \in q.messages \ {q.leftmost} : Before(q, q.leftmost, m)
  BY DEF QueueOK
<1>11. IF u.messages \ {n} = {} THEN u.leftmost = NULL \/ u.leftmost = n
       ELSE /\ u.leftmost \in u.messages \ {n}
            /\ \A m \in u.messages \ {n, u.leftmost} :
                 Before(u, u.leftmost, m)
  <2>1. q.messages \in SUBSET N
    BY <1>1 DEF QueueType
  <2>2. q.messages = {} => q.leftmost = NULL
    BY DEF QueueOK
  <2> HIDE DEF u, v, next, rest, leads, shows
  <2>3. CASE leads
    BY <2>1, <2>3, <1>6, <1>3, <1>5, <1>7, <1>9
  <2>4. CASE ~leads
    BY <2>1, <2>2, <2>4, <1>6, <1>5, <1>7, <1>10
  <2> QED
    BY <2>3, <2>4
<1>12. u.front # NULL => /\ u.front = u.leftmost /\ ~IsStaging(u, u.front)
                         /\ u.front # n
                         /\ Odd(t) => Before(u, u.front, n)
  <2> HAVE u.front # NULL
  <2>1. CASE leads
    <3>1. q.front = NULL
      BY <2>1, <1>2, <1>9 DEF QueueOK, IsStaging
    <3> HIDE DEF u, v, rest, next, leads
    <3>2. shows
      BY <2>1, <1>5, <3>1
    <3>3. next \in rest /\ u.front = next /\ u.leftmost = next
      BY <1>3, <1>5, <2>1, <3>2
    <3>4. next # n
      BY <1>9, <2>1, <3>3
    <3>5. ~IsStaging(u, next) /\ Before(u, next, n)
      BY <1>5, <3>2 DEF IsStaging, Before
    <3> QED
      BY <3>3, <3>4, <3>5
  <2>2. CASE ~leads
    <3> DEFINE f == q.front
    <3>1. u.front = f /\ u.leftmost = q.leftmost
      BY <1>5, <2>2
    <3>2. f = q.leftmost /\ ~Odd(q.timestamp[f]) /\ f \in q.messages
      BY <3>1 DEF QueueOK, IsStaging
    <3>3. f # n /\ f \in N /\ q.timestamp[f] \in 1 .. q.clock + 1
      BY <1>1, <2>2, <3>2 DEF QueueOK, QueueType
    <3>4. u.timestamp[f] = q.timestamp[f] /\ u.timestamp[n] = t
      BY <1>1, <1>6, <3>3 DEF QueueType
    <3>5. Odd(t) => q.timestamp[f] < t
      BY SMTT(30), <1>1, <3>2, <3>3 DEF AddContract, QueueType
    <3> HIDE DEF f, u
    <3>6. Odd(t) => Before(u, f, n)
      BY <3>4, <3>5 DEF Before, KeyBefore
    <3> QED
      BY <3>1, <3>2, <3>3, <3>4, <3>6 DEF IsStaging
  <2> QED
    BY <2>1, <2>2
<1>13. /\ u.timestamp[n] = t /\ ~Odd(u.clock)
       /\ \A m \in u.messages \cup {n} : u.timestamp[m] \in 1 .. u.clock + 1
  <2> HIDE DEF u
  <2>1. u.timestamp[n] = t /\ ~Odd(u.clock)
    BY <1>1, <1>6 DEF QueueOK, QueueType
  <2>2. \A m \in q.messages : q.timestamp[m] \in 1 .. q.clock + 1
    BY DEF QueueOK
  <2>3. \A m \in q.messages \cup {n} : u.timestamp[m] \in 1 .. q.clock + 1
    BY SMTT(30), <1>1, <1>2, <1>6, <2>2 DEF QueueType
  <2> QED
    BY <1>6, <2>1, <2>3
<1>14. LinkReady(u, n, t)
  <2> HIDE DEF u
  <2> QED BY <1>11, <1>12, <1>13 DEF LinkReady
<1>15. /\ u.asleep = q.asleep
       /\ u.warned => \/ q.warned
                      \/ q.front # NULL /\ leads
                      \/ q.front # NULL /\ ~Before(v, q.front, n)
  <2> DEFINE c == IF leads THEN q.front # NULL
                  ELSE q.front # NULL /\ ~Before(v, q.front, n)
             w == Warn(v, c)
  <2>1. w.asleep = q.asleep /\ (w.warned => q.warned \/ c)
    BY <1>1 DEF Warn, QueueType
  <2>2. u = IF leads THEN [w EXCEPT !.leftmost = next,
                                    !.front = IF shows THEN next ELSE @]
            ELSE w
    BY DEF Uncover
  <2>3. w \in QueueType(N)
    <3> HIDE DEF v, leads
    <3> QED BY <1>4, WarnWake, c \in BOOLEAN
  <2>4. u.asleep = w.asleep /\ (u.warned => w.warned)
    <3> HIDE DEF w, u, shows, next, leads
    <3> QED BY <2>2, <2>3 DEF QueueType
  <2>5. c => \/ q.front # NULL /\ leads
             \/ q.front # NULL /\ ~Before(v, q.front, n)
    OBVIOUS
  <2> HIDE DEF w, u, v, c, leads
  <2> QED
    BY <2>1, <2>4, <2>5
<1>16. leads => q.front = NULL
  BY <1>2, <1>9 DEF QueueOK, IsStaging
<1>17. q.front # NULL \/ n \notin q.messages => u.front = q.front
  <2> HIDE DEF u, v, rest, next, leads, shows
  <2> QED BY <1>5, <1>9, <1>16
<1>18. Right(q) /\ u.leftmost \notin {NULL, n} /\ ~IsStaging(u, u.leftmost)
         /\ Before(u, u.leftmost, n) => u.front = u.leftmost
  <2> HAVE /\ Right(q) /\ u.leftmost \notin {NULL, n} /\ ~IsStaging(u, u.leftmost)
           /\ Before(u, u.leftmost, n)
  <2>1. CASE leads
    <3> HIDE DEF u, v, rest, next, leads
    <3> QED BY <1>4, <1>5, <2>1 DEF IsStaging, Before
  <2>2. CASE ~leads
    <3>1. q.leftmost # NULL => q.leftmost \in N \ {n}
      BY <1>1, <2>2 DEF QueueType
    <3> HIDE DEF u, v, rest, next, leads, shows
    <3> QED BY SMTT(30), <1>1, <1>6, <1>5, <2>2, <3>1 DEF IsStaging, Right, QueueType
  <2> QED
    BY <2>1, <2>2
<1>19. FrontStays(q, n, t) /\ q.front # NULL => Before(v, q.front, n) /\ Before(u, q.front, n)
  <2> HAVE FrontStays(q, n, t) /\ q.front # NULL
  <2> DEFINE f == q.front
  <2>1. f = q.leftmost /\ f \in q.messages /\ f # n /\ f \in N
    BY <1>1, <1>16 DEF QueueOK, QueueType
  <2>2. n \in q.messages => Before(q, f, n)
    BY <2>1 DEF QueueOK
  <2>3. /\ v.timestamp[f] = q.timestamp[f] /\ v.timestamp[n] = t
        /\ v.group = q.group
    BY <1>1, <1>4, <2>1 DEF QueueType
  <2>4. /\ q.timestamp[f] \in Nat /\ q.timestamp[n] \in Nat
        /\ q.group[f] \in Nat /\ q.group[n] \in Nat
    BY <1>1, <2>1 DEF QueueType
  <2>5. n \notin q.messages => KeyBefore(q.timestamp[f], q.group[f], t, q.group[n])
    BY DEF FrontStays
  <2>6. u.timestamp = v.timestamp /\ u.group = v.group
    <3> HIDE DEF u, v
    <3> QED BY <1>5
  <2> HIDE DEF u, v, f
  <2>7. Before(v, f, n)
    BY SMTT(30), <1>2, <2>2, <2>3, <2>4, <2>5 DEF Before, KeyBefore
  <2>8. Before(u, f, n)
    BY <2>6, <2>7 DEF Before
  <2> QED
    BY <2>7, <2>8 DEF f
<1> QED
  <2> HIDE DEF u, v, leads, rest, next, shows
  <2> QED
    BY <1>6, <1>14, <1>15, <1>16, <1>17, <1>18, <1>19 DEF Uncovered, u

(* bus1_queue_add() keeps the caches right.                                *)
LEMMA AddOK ==
  ASSUME NEW N \in SUBSET (Nat \ {0}), NEW q, QueueOK(q, N),
         NEW n \in N, NEW t \in Nat, NEW waitq \in BOOLEAN,
         AddContract(q, n, t),
         NEW r, r = Add(q, waitq, n, t)
  PROVE  QueueOK(r, N) /\ AddOutcome(q, r, n, t)
<1>1. q \in QueueType(N)
  BY DEF QueueOK
<1>2. CASE Invalid(q, n, t) \/ q.timestamp[n] = t
  <2>1. r = q \/ r = Warn(q, TRUE)
    BY <1>2 DEF Add
  <2>2. r \in QueueType(N) /\ Same(q, r)
    <3>1. CASE r = q
      BY <1>1, <3>1 DEF Same
    <3>2. CASE r = Warn(q, TRUE)
      BY <1>1, <3>2, WarnWake, TRUE \in BOOLEAN
    <3> QED
      BY <2>1, <3>1, <3>2
  <2>3. QueueOK(r, N)
    BY <2>2, SameOK
  <2> QED
    BY <1>2, <2>2, <2>3 DEF Same, AddOutcome
<1>3. CASE ~Invalid(q, n, t) /\ q.timestamp[n] # t
  <2> DEFINE u == Uncover(q, n, t)
             k == Link(u, n, t, q.front # NULL)
  <2>1. u \in QueueType(N) /\ Uncovered(q, n, t, u)
    BY <1>3, UncoverOK
  <2>2. /\ QueueOK(k, N)
        /\ k.clock = u.clock /\ k.flush = u.flush /\ k.group = u.group
        /\ k.messages = u.messages \cup {n}
        /\ k.timestamp = u.timestamp
    <3> DEFINE readable == q.front # NULL
    <3>1. k = Link(u, n, t, readable)
      OBVIOUS
    <3>2. readable \in BOOLEAN
      OBVIOUS
    <3> HIDE DEF u, k, readable
    <3>3. LinkReady(u, n, t)
      BY <2>1 DEF Uncovered
    <3> QED
      BY SMTT(30), <2>1, <3>1, <3>2, <3>3, LinkOK
  <2>3. r = Wake(k, waitq /\ q.front = NULL /\ k.front # NULL)
    BY <1>3 DEF Add
  <2>4. r \in QueueType(N) /\ Same(k, r)
    <3> HIDE DEF k
    <3>1. (waitq /\ q.front = NULL /\ k.front # NULL) \in BOOLEAN
      OBVIOUS
    <3>2. k \in QueueType(N)
      BY <2>2 DEF QueueOK
    <3> QED
      BY <2>3, <3>1, <3>2, WarnWake
  <2>5. QueueOK(r, N)
    <3> HIDE DEF k
    <3> QED
      BY <2>2, <2>4, SameOK
  <2>6. AddOutcome(q, r, n, t)
    <3> HIDE DEF k, u
    <3>1. /\ t \in 1 .. q.clock + 1
          /\ IF n \in q.messages THEN IsStaging(q, n) /\ q.timestamp[n] < t
             ELSE q.timestamp[n] = 0
      BY SMTT(30), <1>1, <1>3 DEF Invalid, IsQueued, IsStaging, QueueType
    <3> QED
      BY <2>1, <2>2, <2>4, <3>1 DEF AddOutcome, Uncovered, Same
  <2> QED
    BY <2>5, <2>6
<1> QED
  BY <1>2, <1>3

-----------------------------------------------------------------------------
(* What every operation does: it keeps the queue right, never turns back   *)
(* its clock, and keeps in the past what is in the past.                   *)
Advance(q, r, N) ==
  /\ QueueOK(r, N)
  /\ q.clock <= r.clock
  /\ \A t, g \in Nat : Past(q, t, g) => Past(r, t, g)

(* A queue that does not change advances, trivially.                       *)
LEMMA AdvanceReflexive ==
  ASSUME NEW N, NEW q, QueueOK(q, N)
  PROVE  Advance(q, q, N)
BY SMTT(30) DEF Advance, QueueOK, QueueType

(* A commit that changes the tree moves a staging node: a stamped node is  *)
(* not linked anew.                                                        *)
LEMMA AddChanged ==
  ASSUME NEW q, NEW s, NEW n, NEW t, AddOutcome(q, s, n, t),
         q.timestamp[n] # 0,
         ~(s.messages = q.messages /\ s.timestamp = q.timestamp)
  PROVE  /\ s.timestamp = [q.timestamp EXCEPT ![n] = t]
         /\ s.messages = q.messages \cup {n}
         /\ s.group = q.group /\ s.flush = q.flush
         /\ t # 0 /\ IsStaging(q, n)
<1>1. /\ s.messages = q.messages \cup {n} /\ t \in 1 .. q.clock + 1
      /\ s.timestamp = [q.timestamp EXCEPT ![n] = t]
      /\ s.group = q.group /\ s.flush = q.flush /\ IsStaging(q, n)
  BY DEF AddOutcome
<1> QED
  BY SMTT(30), <1>1

(* Steps that never reopen the past of a queue compose.                    *)
LEMMA AdvanceTransitive ==
  ASSUME NEW N, NEW q, NEW r, NEW s, QueueOK(q, N),
         Advance(q, r, N), Advance(r, s, N)
  PROVE  Advance(q, s, N)
BY SMTT(30) DEF Advance, QueueOK, QueueType

(* A step that leaves the tree alone does not reopen the past of the       *)
(* queue.                                                                  *)
LEMMA AdvanceAlike ==
  ASSUME NEW N \in SUBSET (Nat \ {0}), NEW q, QueueOK(q, N),
         NEW r \in QueueType(N), Alike(q, r)
  PROVE  Advance(q, r, N)
<1>1. QueueOK(r, N)
  BY SameTree
<1>2. \A t, g \in Nat : Past(q, t, g) => Past(r, t, g)
  BY SMTT(30) DEF Alike, Past, QueueOK, QueueType
<1> QED
  BY <1>1, <1>2 DEF Advance, Alike

(* A node that is linked anew with timestamp t does not go into the past.  *)
NotInPast(q, n, t) ==
  n \notin q.messages /\ q.timestamp[n] = 0 =>
    \A k, g \in Nat : Past(q, k, g) => ~KeyBefore(t, q.group[n], k, g)

(* bus1_queue_add() does not reopen the past: a staged node only moves to  *)
(* a later key.                                                            *)
LEMMA AdvanceAdd ==
  ASSUME NEW N \in SUBSET (Nat \ {0}), NEW q, QueueOK(q, N),
         NEW n \in N, NEW t \in Nat, NEW waitq \in BOOLEAN,
         AddContract(q, n, t),
         NEW r, r = Add(q, waitq, n, t),
         NotInPast(q, n, t)
  PROVE  Advance(q, r, N) /\ AddOutcome(q, r, n, t)
<1>1. QueueOK(r, N) /\ AddOutcome(q, r, n, t)
  BY AddOK
<1>2. q \in QueueType(N)
  BY DEF QueueOK
<1>3. ASSUME NEW k \in Nat, NEW g \in Nat, Past(q, k, g)
      PROVE  Past(r, k, g)
  <2>1. k <= r.clock
    BY <1>1, <1>3 DEF AddOutcome, Past
  <2>2. ASSUME NEW m \in r.messages
        PROVE  ~KeyBefore(r.timestamp[m], r.group[m], k, g)
    <3>1. CASE m \in q.messages /\ r.timestamp[m] = q.timestamp[m]
      BY <1>1, <1>3, <3>1 DEF AddOutcome, Past
    <3>2. CASE m \in q.messages /\ r.timestamp[m] # q.timestamp[m]
      <4>1. /\ m = n /\ r.timestamp[m] = t /\ q.timestamp[m] < t
            /\ r.group[m] = q.group[m]
        BY <1>1, <1>2, <3>2 DEF AddOutcome, QueueType
      <4>2. ~KeyBefore(q.timestamp[m], q.group[m], k, g)
        BY <1>3, <3>2 DEF Past
      <4>3. q.timestamp[m] \in Nat /\ q.group[m] \in Nat
        BY <1>2, <4>1 DEF QueueType
      <4> QED
        BY SMTT(30), <4>1, <4>2, <4>3 DEF KeyBefore
    <3>3. CASE m \notin q.messages
      <4>1. /\ m = n /\ r.timestamp[m] = t /\ r.group[m] = q.group[n]
            /\ q.timestamp[n] = 0
        BY <1>1, <1>2, <2>2, <3>3 DEF AddOutcome, QueueType
      <4> QED
        BY <1>3, <3>3, <4>1 DEF NotInPast
    <3> QED
      BY <3>1, <3>2, <3>3
  <2> QED
    BY <2>1, <2>2 DEF Past
<1>4. q.clock <= r.clock
  BY SMTT(30), <1>1, <1>2 DEF AddOutcome, QueueType
<1> QED
  BY <1>1, <1>3, <1>4 DEF Advance

(* bus1_queue_remove() *)
RemoveOutcome(q, r, n) ==
  /\ r.clock = q.clock /\ r.flush = q.flush
  /\ r.timestamp = q.timestamp /\ r.group = q.group
  /\ r.messages = q.messages \ {n}

(* bus1_queue_remove() keeps the caches right and unlinks exactly its      *)
(* node.                                                                   *)
LEMMA RemoveOK ==
  ASSUME NEW N \in SUBSET (Nat \ {0}), NEW q, QueueOK(q, N),
         NEW n \in N, NEW r, r = Remove(q, n)
  PROVE  Advance(q, r, N) /\ RemoveOutcome(q, r, n)
<1> USE DEF RemoveOutcome
<1>1. q \in QueueType(N)
  BY DEF QueueOK
<1>2. CASE n \notin q.messages
  <2>1. r = Warn(q, TRUE)
    BY <1>2 DEF Remove, IsQueued
  <2>2. r \in QueueType(N) /\ Same(q, r)
    BY <1>1, <2>1, WarnWake, TRUE \in BOOLEAN
  <2>3. Alike(q, r)
    BY SMTT(30), <1>1, <2>2 DEF Same, Alike, QueueOK, QueueType
  <2>4. Advance(q, r, N)
    BY <2>2, <2>3, AdvanceAlike
  <2> QED
    BY <1>2, <2>2, <2>4 DEF Same
<1>3. CASE n \in q.messages
  <2> DEFINE next == Following(q, n)
             rest == {m \in q.messages : Before(q, n, m)}
             leads == n = q.leftmost
             front == IF ~leads THEN q.front
                      ELSE IF next # NULL /\ ~IsStaging(q, next)
                      THEN next ELSE NULL
             s == [q EXCEPT !.messages = @ \ {n},
                            !.leftmost = IF leads THEN next ELSE @,
                            !.front = front]
             woken == q.front = NULL /\ s.front # NULL
  <2>1. IF rest = {} THEN next = NULL
        ELSE /\ next \in rest
             /\ \A m \in rest \ {next} : Before(q, next, m)
    <3>1. rest \in SUBSET N /\ next = First(q, rest)
      BY <1>1 DEF Following, QueueType
    <3> HIDE DEF rest, next
    <3> QED
      BY <1>1, <3>1, FirstIsLeast DEF QueueType
  <2>2. next \in N \cup {NULL}
    BY <1>1, <2>1 DEF QueueType
  <2>3. r = Wake(s, woken)
    BY <1>3 DEF Remove, IsQueued
  <2>4. /\ s \in QueueType(N)
        /\ s.clock = q.clock /\ s.flush = q.flush
        /\ s.timestamp = q.timestamp /\ s.group = q.group
        /\ s.messages = q.messages \ {n}
        /\ s.leftmost = IF leads THEN next ELSE q.leftmost
        /\ s.front = front
    <3> HIDE DEF next
    <3> QED BY <1>1, <2>2 DEF QueueType
  <2>5. leads => rest = q.messages \ {n}
    <3> HAVE leads
    <3>1. \A m \in q.messages \ {n} : Before(q, n, m)
      BY <1>3 DEF QueueOK
    <3>2. ~Before(q, n, n)
      BY SMTT(30), <1>1, BeforeIsOrder DEF QueueType
    <3> QED
      BY <3>1, <3>2
  <2>6. /\ IF s.messages = {} THEN s.leftmost = NULL
           ELSE /\ s.leftmost \in s.messages
                /\ \A m \in s.messages \ {s.leftmost} :
                     Before(q, s.leftmost, m)
        /\ s.front # NULL => s.front = s.leftmost /\ ~IsStaging(q, s.front)
    <3> HIDE DEF s, rest, next
    <3>1. CASE leads
      BY <2>1, <2>4, <2>5, <3>1
    <3>2. CASE ~leads
      BY <1>3, <2>4, <3>2 DEF QueueOK
    <3> QED
      BY <3>1, <3>2
  <2>7. QueueOK(s, N)
    <3> HIDE DEF s
    <3>1. \A x, y \in N : Before(s, x, y) <=> Before(q, x, y)
      BY <2>4 DEF Before
    <3>2. \A m \in s.messages \ {s.leftmost} :
            s.messages # {} => Before(s, s.leftmost, m)
      BY <1>1, <2>4, <2>6, <3>1 DEF QueueType
    <3>3. s.front # NULL => s.front = s.leftmost /\ ~IsStaging(s, s.front)
      BY <2>4, <2>6 DEF IsStaging
    <3> QED
      BY <2>4, <2>6, <3>2, <3>3 DEF QueueOK
  <2>8. r \in QueueType(N) /\ Same(s, r)
    <3>1. woken \in BOOLEAN
      OBVIOUS
    <3> HIDE DEF s, woken
    <3> QED BY <2>3, <2>4, <3>1, WarnWake
  <2> HIDE DEF s
  <2>9. QueueOK(r, N)
    BY <2>7, <2>8, SameOK
  <2>10. \A t, g \in Nat : Past(q, t, g) => Past(r, t, g)
    BY <2>4, <2>8 DEF Past, Same
  <2> QED
    BY SMTT(30), <1>1, <2>4, <2>8, <2>9, <2>10 DEF Same, Advance, QueueType
<1> QED
  BY <1>2, <1>3

(* bus1_queue_flush() *)
FlushOutcome(q, r, t) ==
  /\ r.clock = q.clock /\ r.flush = t
  /\ r.timestamp = q.timestamp /\ r.group = q.group
  /\ r.messages = q.messages \ Flushed(q, t)

(* bus1_queue_flush() keeps the caches right and unlinks only committed    *)
(* entries.                                                                *)
LEMMA FlushOK ==
  ASSUME NEW N \in SUBSET (Nat \ {0}), NEW q, QueueOK(q, N),
         NEW t \in Nat, NEW r, r = Flush(q, t)
  PROVE  Advance(q, r, N) /\ FlushOutcome(q, r, t)
<1> USE DEF FlushOutcome
<1>1. q \in QueueType(N)
  BY DEF QueueOK
<1> DEFINE kept == q.messages \ Flushed(q, t)
           bad == Odd(t) \/ t > q.clock + 1 \/ t < q.flush
           w == Warn(q, bad)
           l == First(q, kept)
<1>2. w \in QueueType(N) /\ Same(q, w)
  <2>1. bad \in BOOLEAN
    OBVIOUS
  <2> HIDE DEF bad
  <2> QED BY <1>1, <2>1, WarnWake
<1>3. IF kept = {} THEN l = NULL
      ELSE l \in kept /\ \A m \in kept \ {l} : Before(q, l, m)
  <2>1. kept \in SUBSET N
    BY <1>1 DEF QueueType
  <2> HIDE DEF kept
  <2> QED BY <1>1, <2>1, FirstIsLeast DEF QueueType
<1>4. kept \in SUBSET N /\ l \in N \cup {NULL}
  BY <1>1, <1>3 DEF QueueType
<1>5. r = [w EXCEPT !.front = NULL, !.leftmost = l, !.flush = t,
                    !.messages = kept]
  BY DEF Flush
<1> HIDE DEF w, l
<1>6. /\ r \in QueueType(N)
      /\ r.clock = q.clock /\ r.flush = t
      /\ r.timestamp = q.timestamp /\ r.group = q.group
      /\ r.messages = kept /\ r.leftmost = l /\ r.front = NULL
  <2> HIDE DEF kept
  <2> QED BY <1>2, <1>4, <1>5 DEF Same, QueueType
<1>7. \A x, y \in N : Before(r, x, y) <=> Before(q, x, y)
  BY <1>6 DEF Before
<1>8. QueueOK(r, N)
  <2>1. \A m \in kept : q.timestamp[m] \in 1 .. q.clock + 1
    BY DEF QueueOK
  <2>2. ~Odd(q.clock)
    BY DEF QueueOK
  <2> HIDE DEF kept
  <2>3. \A m \in r.messages \ {r.leftmost} :
          r.messages # {} => Before(r, r.leftmost, m)
    BY <1>3, <1>4, <1>6, <1>7
  <2> QED
    BY <1>3, <1>6, <2>1, <2>2, <2>3 DEF QueueOK
<1>9. \A k, g \in Nat : Past(q, k, g) => Past(r, k, g)
  BY <1>6 DEF Past
<1> QED
  BY SMTT(30), <1>1, <1>6, <1>8, <1>9 DEF Advance, QueueType

(* bus1_queue_sync() and bus1_queue_tick(), with an even timestamp         *)
Ticked(q, r) ==
  /\ r.flush = q.flush /\ r.timestamp = q.timestamp /\ r.group = q.group
  /\ r.messages = q.messages /\ r.front = q.front /\ r.leftmost = q.leftmost

(* bus1_queue_sync() moves the clock forward to an even timestamp and      *)
(* nothing else.                                                           *)
LEMMA SyncOK ==
  ASSUME NEW N \in SUBSET (Nat \ {0}), NEW q, QueueOK(q, N),
         NEW t \in Nat, ~Odd(t), NEW r, r = Sync(q, t)
  PROVE  /\ Advance(q, r, N) /\ Ticked(q, r)
         /\ r.clock = Later(q.clock, t) /\ t <= r.clock
<1>1. q \in QueueType(N) /\ ~Odd(q.clock)
  BY DEF QueueOK
<1> DEFINE s == [q EXCEPT !.clock = Later(@, t)]
<1>2. s \in QueueType(N) /\ Ticked(q, s) /\ s.clock = Later(q.clock, t)
  BY <1>1 DEF Ticked, QueueType, Later
<1>3. r \in QueueType(N) /\ Same(s, r)
  <2>1. Odd(t) \in BOOLEAN
    BY DEF Odd
  <2> HIDE DEF s
  <2>2. r = Warn(s, Odd(t))
    BY DEF Sync, s
  <2> QED BY <1>2, <2>1, <2>2, WarnWake
<1> HIDE DEF s
<1>4. r.clock = Later(q.clock, t) /\ Ticked(q, r)
  BY <1>2, <1>3 DEF Same, Ticked
<1>5. t <= r.clock /\ q.clock <= r.clock /\ ~Odd(r.clock)
  BY SMTT(30), <1>1, <1>4 DEF Later, QueueType
<1>6. Alike(q, r)
  BY <1>4, <1>5 DEF Ticked, Alike
<1> QED
  BY <1>3, <1>4, <1>5, <1>6, AdvanceAlike

(* bus1_queue_tick() moves the clock forward by two and nothing else.      *)
LEMMA TickOK ==
  ASSUME NEW N \in SUBSET (Nat \ {0}), NEW q, QueueOK(q, N),
         NEW r, r = Tick(q)
  PROVE  Advance(q, r, N) /\ Ticked(q, r) /\ r.clock = q.clock + 2
<1>1. q \in QueueType(N) /\ ~Odd(q.clock)
  BY DEF QueueOK
<1>2. r \in QueueType(N) /\ Ticked(q, r) /\ r.clock = q.clock + 2
  BY SMTT(30), <1>1 DEF Tick, Ticked, QueueType
<1>3. q.clock <= r.clock /\ ~Odd(r.clock)
  BY SMTT(30), <1>1, <1>2 DEF Odd, QueueType
<1>4. Alike(q, r)
  BY <1>2, <1>3 DEF Ticked, Alike
<1> QED
  BY <1>2, <1>4, AdvanceAlike

(* bus1_queue_node_init() and the assignment of a group: only for nodes    *)
(* that are not linked                                                     *)
SetGroupOutcome(q, r, n, g) ==
  /\ r.clock = q.clock /\ r.flush = q.flush
  /\ r.messages = q.messages
  /\ r.group = [q.group EXCEPT ![n] = g]
  /\ r.timestamp = q.timestamp

(* Tagging a node that is not linked leaves the tree alone.                *)
LEMMA SetGroupOK ==
  ASSUME NEW N \in SUBSET (Nat \ {0}), NEW q, QueueOK(q, N),
         NEW n \in N, n \notin q.messages, NEW g \in Nat, NEW r, r = SetGroup(q, n, g)
  PROVE  Advance(q, r, N) /\ SetGroupOutcome(q, r, n, g)
<1> USE DEF SetGroupOutcome
<1>1. q \in QueueType(N) /\ ~Odd(q.clock)
  BY DEF QueueOK
<1>2. /\ r \in QueueType(N)
      /\ r.clock = q.clock /\ r.flush = q.flush
      /\ r.messages = q.messages
      /\ r.front = q.front /\ r.leftmost = q.leftmost
      /\ r.group = [q.group EXCEPT ![n] = g]
      /\ r.timestamp = q.timestamp
  BY <1>1 DEF SetGroup, NodeInit, QueueType, NULL
<1>3. \A m \in q.messages : /\ r.timestamp[m] = q.timestamp[m]
                            /\ r.group[m] = q.group[m]
  BY <1>1, <1>2 DEF QueueType
<1>4. Alike(q, r)
  BY SMTT(30), <1>1, <1>2, <1>3 DEF Alike, QueueType
<1> QED
  BY <1>2, <1>4, AdvanceAlike

SetGroupsOutcome(q, r, S, N) ==
  /\ r.flush = q.flush /\ r.messages = q.messages /\ r.timestamp = q.timestamp
  /\ \A m \in N \ S : r.group[m] = q.group[m]

(* Tagging nodes that are not linked leaves the tree alone.                *)
LEMMA SetGroupsOK ==
  ASSUME NEW N \in SUBSET (Nat \ {0}), NEW q, QueueOK(q, N),
         NEW S, S \cap q.messages = {}, NEW g \in Nat,
         NEW r, r = SetGroups(q, S, g)
  PROVE  Advance(q, r, N) /\ SetGroupsOutcome(q, r, S, N)
<1>1. q \in QueueType(N) /\ ~Odd(q.clock)
  BY DEF QueueOK
<1> DEFINE f == [n \in DOMAIN q.group |-> IF n \in S THEN g ELSE q.group[n]]
<1>2. f \in [N -> Nat] /\ \A m \in N \ S : f[m] = q.group[m]
  BY <1>1 DEF QueueType
<1>3. r = [q EXCEPT !.group = f]
  BY DEF SetGroups
<1> HIDE DEF f
<1>4. /\ r \in QueueType(N)
      /\ r.clock = q.clock /\ r.flush = q.flush
      /\ r.messages = q.messages /\ r.messages \subseteq N
      /\ r.front = q.front /\ r.leftmost = q.leftmost
      /\ r.group = f /\ r.timestamp = q.timestamp
  BY <1>1, <1>2, <1>3 DEF QueueType
<1>5. Alike(q, r)
  BY SMTT(30), <1>1, <1>2, <1>4 DEF Alike, QueueType
<1> QED
  BY <1>2, <1>4, <1>5, AdvanceAlike DEF SetGroupsOutcome

NodeInitOutcome(q, r, n) ==
  /\ r.clock = q.clock /\ r.flush = q.flush
  /\ r.messages = q.messages
  /\ r.group = [q.group EXCEPT ![n] = NULL]
  /\ r.timestamp = [q.timestamp EXCEPT ![n] = 0]

(* bus1_queue_node_init() of a node that is not linked leaves the tree     *)
(* alone.                                                                  *)
LEMMA NodeInitOK ==
  ASSUME NEW N \in SUBSET (Nat \ {0}), NEW q, QueueOK(q, N),
         NEW n \in N, n \notin q.messages, NEW r, r = NodeInit(q, n)
  PROVE  Advance(q, r, N) /\ NodeInitOutcome(q, r, n)
<1> USE DEF NodeInitOutcome
<1>1. q \in QueueType(N) /\ ~Odd(q.clock)
  BY DEF QueueOK
<1>2. /\ r \in QueueType(N)
      /\ r.clock = q.clock /\ r.flush = q.flush
      /\ r.messages = q.messages
      /\ r.front = q.front /\ r.leftmost = q.leftmost
      /\ r.group = [q.group EXCEPT ![n] = NULL]
      /\ r.timestamp = [q.timestamp EXCEPT ![n] = 0]
  BY <1>1 DEF SetGroup, NodeInit, QueueType, NULL
<1>3. \A m \in q.messages : /\ r.timestamp[m] = q.timestamp[m]
                            /\ r.group[m] = q.group[m]
  BY <1>1, <1>2 DEF QueueType
<1>4. Alike(q, r)
  BY SMTT(30), <1>1, <1>2, <1>3 DEF Alike, QueueType
<1> QED
  BY <1>2, <1>4, AdvanceAlike

-----------------------------------------------------------------------------
(* bus1_queue_stage(): the staging key is later than all keys of the past. *)
StageOutcome(q, r, n, t) ==
  /\ r.clock = Later(q.clock, t) /\ r.flush = q.flush /\ r.group = q.group
  /\ \/ r.messages = q.messages /\ r.timestamp = q.timestamp
     \/ /\ r.messages = q.messages \cup {n}
        /\ r.timestamp = [q.timestamp EXCEPT ![n] = r.clock + 1]
  /\ q.timestamp[n] = 0 => r.timestamp[n] = r.clock + 1

(* bus1_queue_stage() of an unused node links it at the current time, odd, *)
(* and at most moves the clock.                                            *)
LEMMA StageOK ==
  ASSUME NEW N \in SUBSET (Nat \ {0}), NEW q, QueueOK(q, N),
         NEW n \in N, n \notin q.messages, NEW t \in Nat, ~Odd(t),
         NEW r, r = Stage(q, n, t)
  PROVE  Advance(q, r, N) /\ StageOutcome(q, r, n, t)
<1> DEFINE p == Sync(q, t)
           s == Add(p, FALSE, n, p.clock + 1)
           bad == Odd(t) \/ IsQueued(q, n) \/ s.front = n
<1>1. r = Warn(s, bad)
  BY DEF Stage
<1>2. bad \in BOOLEAN
  BY DEF Odd, IsQueued
<1> HIDE DEF bad
<1>3. /\ Advance(q, p, N) /\ Ticked(q, p)
      /\ p.clock = Later(q.clock, t) /\ t <= p.clock
  BY SyncOK
<1>4. QueueOK(p, N) /\ p.clock + 1 \in Nat /\ p \in QueueType(N)
  BY SMTT(30), <1>3 DEF Advance, QueueOK, QueueType
<1>5. AddContract(p, n, p.clock + 1)
  BY <1>3 DEF AddContract, Ticked
<1>6. NotInPast(p, n, p.clock + 1)
  BY SMTT(30), <1>4 DEF NotInPast, Past, KeyBefore, QueueType
<1> HIDE DEF p
<1>7. Advance(p, s, N) /\ AddOutcome(p, s, n, p.clock + 1)
  <2> DEFINE ts == p.clock + 1
  <2>1. ts \in Nat /\ AddContract(p, n, ts)
    BY <1>4, <1>5
  <2>2. NotInPast(p, n, ts)
    BY <1>6
  <2>3. s = Add(p, FALSE, n, ts) /\ FALSE \in BOOLEAN
    OBVIOUS
  <2> HIDE DEF s, ts
  <2>4. Advance(p, s, N) /\ AddOutcome(p, s, n, ts)
    BY <1>4, <2>1, <2>2, <2>3, AdvanceAdd
  <2> QED
    BY <2>4 DEF ts
<1>8. q.timestamp[n] = 0 => s.timestamp[n] = p.clock + 1
  <2> HAVE q.timestamp[n] = 0
  <2>1. ~Invalid(p, n, p.clock + 1)
    BY SMTT(30), <1>3, <1>4 DEF Invalid, Ticked, IsQueued, QueueType
  <2>2. p.timestamp[n] # p.clock + 1
    BY SMTT(30), <1>3, <1>4 DEF Ticked, QueueType
  <2> QED
    BY <1>4, <1>7, <2>1, <2>2 DEF AddOutcome, QueueType
<1>9. QueueOK(s, N)
  BY <1>7 DEF Advance
<1>10. r \in QueueType(N) /\ Same(s, r)
  <2> HIDE DEF s
  <2>1. s \in QueueType(N)
    BY <1>9 DEF QueueOK
  <2> QED
    BY <1>1, <1>2, <2>1, WarnWake
<1> HIDE DEF s
<1>11. Advance(s, r, N)
  <2>1. Alike(s, r)
    BY SMTT(30), <1>9, <1>10 DEF Alike, Same, QueueOK, QueueType
  <2> QED
    BY <1>9, <1>10, <2>1, AdvanceAlike
<1>12. Advance(q, r, N)
  <2>1. Advance(q, s, N)
    BY <1>3, <1>7, AdvanceTransitive
  <2> QED
    BY <1>11, <2>1, AdvanceTransitive
<1>13. StageOutcome(q, r, n, t)
  BY <1>3, <1>7, <1>8, <1>10 DEF StageOutcome, AddOutcome, Same, Ticked
<1> QED
  BY <1>12, <1>13

(* A call of bus1_queue_add() behind a WARN_ON()                           *)
LEMMA WarnAdd ==
  ASSUME NEW N \in SUBSET (Nat \ {0}), NEW q, QueueOK(q, N),
         NEW n \in N, NEW t \in Nat, NEW waitq \in BOOLEAN,
         AddContract(q, n, t), NotInPast(q, n, t), NEW c \in BOOLEAN,
         NEW r, r = Add(Warn(q, c), waitq, n, t)
  PROVE  Advance(q, r, N) /\ AddOutcome(q, r, n, t)
<1> DEFINE p == Warn(q, c)
<1>1. p \in QueueType(N) /\ Same(q, p)
  BY WarnWake DEF QueueOK
<1>2. r = Add(p, waitq, n, t)
  OBVIOUS
<1> HIDE DEF p
<1>3. Alike(q, p)
  BY SMTT(30), <1>1 DEF Alike, Same, QueueOK, QueueType
<1>4. QueueOK(p, N) /\ Advance(q, p, N)
  BY <1>1, <1>3, SameOK, AdvanceAlike
<1>5. AddContract(p, n, t) /\ NotInPast(p, n, t)
  BY <1>1 DEF AddContract, NotInPast, Same, Past
<1>6. Advance(p, r, N) /\ AddOutcome(p, r, n, t)
  BY <1>2, <1>4, <1>5, AdvanceAdd
<1>7. AddOutcome(q, r, n, t)
  BY <1>1, <1>6 DEF AddOutcome, Same, Invalid, IsQueued, IsStaging
<1> QED
  BY <1>4, <1>6, <1>7, AdvanceTransitive

(* bus1_queue_commit_staged(): what is linked was staged later than the    *)
(* past, what is not linked was stamped before and is refused.             *)
LEMMA CommitStagedOK ==
  ASSUME NEW N \in SUBSET (Nat \ {0}), NEW q, QueueOK(q, N),
         NEW n \in N, NEW t \in Nat, ~Odd(t), q.timestamp[n] # 0,
         NEW r, r = CommitStaged(q, n, t)
  PROVE  Advance(q, r, N) /\ AddOutcome(q, r, n, t)
<1> DEFINE bad == Odd(t) \/ ~IsQueued(q, n)
<1>1. r = Add(Warn(q, bad), TRUE, n, t) /\ TRUE \in BOOLEAN
  BY DEF CommitStaged
<1>2. bad \in BOOLEAN
  BY DEF Odd, IsQueued
<1> HIDE DEF bad
<1>3. AddContract(q, n, t) /\ NotInPast(q, n, t)
  BY DEF AddContract, NotInPast
<1> QED
  BY <1>1, <1>2, <1>3, WarnAdd

(* At most n is linked, with timestamp t.                                  *)
LinkOutcome(q, r, n, t) ==
  /\ r.flush = q.flush /\ r.group = q.group
  /\ \/ r.messages = q.messages /\ r.timestamp = q.timestamp
     \/ /\ r.messages = q.messages \cup {n}
        /\ r.timestamp = [q.timestamp EXCEPT ![n] = t]

(* bus1_queue_commit_unstaged(): the clock advances first.                 *)
LEMMA CommitUnstagedOK ==
  ASSUME NEW N \in SUBSET (Nat \ {0}), NEW q, QueueOK(q, N),
         NEW n \in N, NEW r, r = CommitUnstaged(q, n)
  PROVE  Advance(q, r, N) /\ LinkOutcome(q, r, n, q.clock + 2)
<1> DEFINE p == Tick(q)
           t == p.clock
           bad == IsQueued(q, n)
<1>1. bad \in BOOLEAN /\ TRUE \in BOOLEAN
  BY SMTT(30) DEF IsQueued
<1>2. Advance(q, p, N) /\ Ticked(q, p) /\ p.clock = q.clock + 2
  BY TickOK
<1>3. QueueOK(p, N) /\ t \in Nat /\ ~Odd(t) /\ p \in QueueType(N)
  BY <1>2 DEF Advance, QueueOK, QueueType
<1> DEFINE w == Warn(p, bad)
<1>4. w \in QueueType(N) /\ Same(p, w)
  <2> HIDE DEF p, bad
  <2> QED BY <1>1, <1>3, WarnWake
<1>5. r = Add(w, TRUE, n, t)
  BY <1>4 DEF CommitUnstaged, Same
<1> HIDE DEF p, t, bad, w
<1>6. QueueOK(w, N)
  BY <1>3, <1>4, SameOK
<1>7. AddContract(w, n, t)
  BY <1>3 DEF AddContract
<1>8. QueueOK(r, N) /\ AddOutcome(w, r, n, t)
  BY <1>1, <1>3, <1>5, <1>6, <1>7, AddOK
<1>9. /\ r.clock = q.clock + 2 /\ t = q.clock + 2 /\ r.group = q.group
      /\ \/ r.messages = q.messages /\ r.timestamp = q.timestamp
         \/ /\ r.messages = q.messages \cup {n}
            /\ r.timestamp = [q.timestamp EXCEPT ![n] = t]
  BY SMTT(30), <1>2, <1>4, <1>8 DEF t, Ticked, Same, AddOutcome
<1>10. q \in QueueType(N)
  BY DEF QueueOK
<1>11. ASSUME NEW k \in Nat, NEW g \in Nat, Past(q, k, g)
       PROVE  Past(r, k, g)
  <2>1. ASSUME NEW m \in r.messages
        PROVE  ~KeyBefore(r.timestamp[m], r.group[m], k, g)
    <3>1. CASE m \in q.messages /\ r.timestamp[m] = q.timestamp[m]
      BY <1>9, <1>11, <3>1 DEF Past
    <3>2. CASE r.timestamp[m] = t
      BY SMTT(30), <1>9, <1>10, <1>11, <3>2 DEF Past, KeyBefore, QueueType
    <3> QED
      BY <1>9, <1>10, <2>1, <3>1, <3>2 DEF QueueType
  <2> QED
    BY SMTT(30), <1>9, <1>10, <1>11, <2>1 DEF Past, QueueType
<1>12. Advance(q, r, N)
  BY SMTT(30), <1>8, <1>9, <1>10, <1>11 DEF Advance, QueueType
<1>13. r.flush = q.flush
  BY <1>2, <1>4, <1>8 DEF Ticked, Same, AddOutcome
<1> QED
  BY <1>9, <1>12, <1>13 DEF LinkOutcome

(* bus1_queue_commit_synthetic(): the entry goes behind the leftmost one   *)
(* or shares its key, so it is not in the past either.                     *)
LEMMA CommitSyntheticOK ==
  ASSUME NEW N \in SUBSET (Nat \ {0}), NEW q, QueueOK(q, N),
         NEW n \in N, NEW t \in Nat, ~Odd(t),
         NEW r, r = CommitSynthetic(q, n, t)
  PROVE  Advance(q, r, N) /\ LinkOutcome(q, r, n, t)
<1> DEFINE bad == Odd(t) \/ t > q.clock + 1 \/ IsQueued(q, n)
           p == Warn(q, bad)
           s == Add(p, FALSE, n, t)
           front == s.front = n
<1>1. bad \in BOOLEAN /\ front \in BOOLEAN /\ FALSE \in BOOLEAN
  BY DEF Odd, IsQueued
<1>2. r = IF JoinsBehind(q, n, t) THEN Warn(s, front) ELSE p
  BY DEF CommitSynthetic
<1> HIDE DEF bad, front
<1>3. q \in QueueType(N)
  BY DEF QueueOK
<1>4. CASE ~JoinsBehind(q, n, t)
  <2>1. r \in QueueType(N) /\ Same(q, r)
    BY <1>1, <1>2, <1>3, <1>4, WarnWake
  <2>2. Alike(q, r)
    BY SMTT(30), <2>1 DEF Alike, Same, QueueOK, QueueType
  <2> QED
    BY <2>1, <2>2, AdvanceAlike DEF Same, LinkOutcome
<1>5. CASE JoinsBehind(q, n, t)
  <2>1. NotInPast(q, n, t)
    <3> SUFFICES ASSUME NEW k \in Nat, NEW g \in Nat, Past(q, k, g)
                 PROVE  ~KeyBefore(t, q.group[n], k, g)
      BY DEF NotInPast
    <3> DEFINE l == q.leftmost
    <3>1. l \in q.messages /\ l \in N
      BY <1>3, <1>5 DEF JoinsBehind, QueueOK, QueueType
    <3>2. ~KeyBefore(q.timestamp[l], q.group[l], k, g)
      BY <3>1 DEF Past
    <3>3. \/ KeyBefore(q.timestamp[l], q.group[l], t, q.group[n])
          \/ q.timestamp[l] = t /\ q.group[l] = q.group[n]
      BY <1>5 DEF JoinsBehind
    <3>4. /\ q.timestamp[l] \in Nat /\ q.group[l] \in Nat
          /\ q.group[n] \in Nat
      BY <1>3, <3>1 DEF QueueType
    <3> HIDE DEF l
    <3> QED
      BY SMTT(30), <3>2, <3>3, <3>4 DEF KeyBefore
  <2>2. AddContract(q, n, t)
    BY DEF AddContract
  <2>3. s = Add(Warn(q, bad), FALSE, n, t)
    OBVIOUS
  <2> HIDE DEF s, p
  <2>4. Advance(q, s, N) /\ AddOutcome(q, s, n, t)
    BY <1>1, <2>1, <2>2, <2>3, WarnAdd
  <2>5. QueueOK(s, N) /\ s \in QueueType(N)
    BY <2>4 DEF Advance, QueueOK
  <2>6. r \in QueueType(N) /\ Same(s, r)
    BY <1>1, <1>2, <1>5, <2>5, WarnWake
  <2>7. Alike(s, r)
    BY SMTT(30), <2>5, <2>6 DEF Alike, Same, QueueOK, QueueType
  <2>8. Advance(q, r, N)
    BY <2>4, <2>5, <2>6, <2>7, AdvanceAlike, AdvanceTransitive
  <2> QED
    BY <2>4, <2>6, <2>8 DEF Same, AddOutcome, LinkOutcome
<1> QED
  BY <1>4, <1>5

(* bus1_queue_peek(): the front entry is committed and nothing is ordered  *)
(* before it.                                                              *)
LEMMA FrontOK ==
  ASSUME NEW N \in SUBSET (Nat \ {0}), NEW q, QueueOK(q, N),
         q.front # NULL
  PROVE  /\ q.front \in q.messages /\ q.front \in N
         /\ ~Odd(q.timestamp[q.front])
         /\ Past(q, q.timestamp[q.front], q.group[q.front])
<1> DEFINE f == q.front
<1>1. f = q.leftmost /\ ~Odd(q.timestamp[f]) /\ f \in q.messages
  BY DEF QueueOK, IsStaging
<1>2. q \in QueueType(N) /\ ~Odd(q.clock) /\ f \in N
  BY <1>1 DEF QueueOK, QueueType
<1>3. \A m \in q.messages \ {f} : Before(q, f, m)
  BY <1>1 DEF QueueOK
<1>4. \A m \in q.messages : /\ q.timestamp[m] \in Nat /\ q.group[m] \in Nat
                            /\ q.timestamp[f] \in Nat /\ q.group[f] \in Nat
  BY <1>2 DEF QueueType
<1>5. q.timestamp[f] <= q.clock
  <2>1. q.timestamp[f] \in 1 .. q.clock + 1 /\ q.clock \in Nat
    BY <1>1, <1>2 DEF QueueOK, QueueType
  <2> QED
    BY SMTT(30), <1>1, <1>2, <2>1 DEF Odd
<1> HIDE DEF f
<1>6. ASSUME NEW m \in q.messages
      PROVE  ~KeyBefore(q.timestamp[m], q.group[m],
                        q.timestamp[f], q.group[f])
  BY SMTT(30), <1>3, <1>4 DEF Before, KeyBefore
<1>7. Past(q, q.timestamp[f], q.group[f])
  BY <1>5, <1>6 DEF Past
<1> QED
  BY <1>1, <1>2, <1>7 DEF f

-----------------------------------------------------------------------------
(* The flags of a queue: no WARN_ON() fires, no task sleeps on a readable  *)
(* queue, and the front is set whenever it should be.                      *)

Awake(q) == q.asleep => q.front = NULL

Quiet(q, r) == (r.warned => q.warned) /\ (Awake(q) => Awake(r))

(* WARN_ON() and wake-ups set just their flags.                            *)
LEMMA Flags ==
  ASSUME NEW N, NEW q \in QueueType(N), NEW c \in BOOLEAN
  PROVE  /\ Warn(q, c).warned <=> q.warned \/ c
         /\ Warn(q, c).asleep = q.asleep
         /\ Wake(q, c).warned = q.warned
         /\ Wake(q, c).asleep <=> q.asleep /\ ~c
BY DEF Warn, Wake, QueueType

(* A queue with the same caches and keys is as right as the other.         *)
LEMMA SameRight ==
  ASSUME NEW q, NEW r, r.leftmost = q.leftmost, r.front = q.front,
         q.leftmost = NULL \/ r.timestamp[q.leftmost] = q.timestamp[q.leftmost]
  PROVE  Right(q) => Right(r)
BY DEF Right, IsStaging

(* n is the first node of s.                                               *)
Least(s, n) == \A m \in s.messages \ {n} : Before(s, n, m)

(* The second half of bus1_queue_add() on the caches.                      *)
LinkCaching(s, n, t, readable, r) ==
  /\ r.leftmost = IF Least(s, n) THEN n ELSE s.leftmost
  /\ r.front = IF Least(s, n) /\ ~Odd(t) THEN n ELSE s.front
  /\ r.timestamp = s.timestamp /\ r.asleep = s.asleep
  /\ r.warned <=> s.warned \/ (Least(s, n) /\ Odd(t) /\ readable)

(* Linking a node changes the caches only if it is the first one.          *)
LEMMA LinkCaches ==
  ASSUME NEW N \in SUBSET (Nat \ {0}), NEW s \in QueueType(N),
         NEW n \in N, NEW t \in Nat, NEW readable \in BOOLEAN
  PROVE  LinkCaching(s, n, t, readable, Link(s, n, t, readable))
<1> DEFINE least == Least(s, n)
           c == least /\ Odd(t) /\ readable
           w == Warn(s, c)
           r == Link(s, n, t, readable)
<1>1. c \in BOOLEAN
  BY DEF Odd, Least
<1>2. r = [w EXCEPT !.messages = @ \cup {n},
                    !.leftmost = IF least THEN n ELSE @,
                    !.front = IF least /\ ~Odd(t) THEN n ELSE @]
  BY DEF Link, Least
<1>3. w \in QueueType(N) /\ Same(s, w)
  <2> HIDE DEF c
  <2> QED BY <1>1, WarnWake
<1>4. (w.warned <=> s.warned \/ c) /\ w.asleep = s.asleep
  <2> HIDE DEF c
  <2> QED BY <1>1, Flags
<1> HIDE DEF w, r
<1>5. /\ r.leftmost = IF least THEN n ELSE w.leftmost
      /\ r.front = IF least /\ ~Odd(t) THEN n ELSE w.front
      /\ r.timestamp = w.timestamp /\ r.asleep = w.asleep
      /\ r.warned = w.warned
  BY <1>2, <1>3 DEF QueueType
<1> QED
  BY <1>3, <1>4, <1>5 DEF Same, LinkCaching, r

(* With timestamp t, n is ordered before the other nodes.                  *)
Ahead(q, n, t) ==
  \A m \in q.messages \ {n} :
    \/ KeyBefore(t, q.group[n], q.timestamp[m], q.group[m])
    \/ t = q.timestamp[m] /\ q.group[n] = q.group[m] /\ n < m

(* bus1_queue_add() on the caches and the flags.                           *)
AddCaches(q, waitq, n, t, r) ==
  /\ Right(q) => Right(r)
  /\ n \notin q.messages => r.front \in {q.front, n}
  /\ waitq \/ r.front = q.front => (Awake(q) => Awake(r))
  /\ ~Invalid(q, n, t) /\ FrontStays(q, n, t) => (r.warned => q.warned)
  /\ ~Invalid(q, n, t) /\ q.timestamp[n] # t /\ ~Odd(t) /\ Ahead(q, n, t) =>
       r.front = n

(* bus1_queue_add() sets the front whenever the first entry is committed,  *)
(* wakes up whoever waits for that, and warns of nothing if its arguments  *)
(* are valid and no entry goes before the front.                           *)
LEMMA AddCachesOK ==
  ASSUME NEW N \in SUBSET (Nat \ {0}), NEW q, QueueOK(q, N),
         NEW n \in N, NEW t \in Nat, NEW waitq \in BOOLEAN,
         AddContract(q, n, t)
  PROVE  AddCaches(q, waitq, n, t, Add(q, waitq, n, t))
<1> DEFINE r == Add(q, waitq, n, t)
<1>1. q \in QueueType(N)
  BY DEF QueueOK
<1>2. CASE Invalid(q, n, t)
  <2>1. r = Warn(q, TRUE)
    BY <1>2 DEF Add
  <2>2. Same(q, r) /\ r.asleep = q.asleep
    <3>1. Same(q, r)
      BY <1>1, <2>1, WarnWake, TRUE \in BOOLEAN
    <3>2. r.asleep = q.asleep
      BY <1>1, <2>1, Flags, TRUE \in BOOLEAN
    <3> QED BY <3>1, <3>2
  <2> HIDE DEF r
  <2>3. Right(q) => Right(r)
    BY <2>2, SameRight DEF Same
  <2>4. r.front = q.front /\ (Awake(q) => Awake(r))
    BY <2>2 DEF Same, Awake
  <2> QED
    BY <1>2, <2>3, <2>4 DEF AddCaches, r
<1>3. CASE ~Invalid(q, n, t) /\ q.timestamp[n] = t
  <2>1. r = q
    BY <1>3 DEF Add
  <2> QED
    BY <1>3, <2>1 DEF AddCaches
<1>4. CASE ~Invalid(q, n, t) /\ q.timestamp[n] # t
  <2> DEFINE u == Uncover(q, n, t)
             readable == q.front # NULL
             k == Link(u, n, t, readable)
             c == waitq /\ q.front = NULL /\ k.front # NULL
             least == Least(u, n)
  <2>1. u \in QueueType(N) /\ Uncovered(q, n, t, u)
    BY <1>4, UncoverOK
  <2>2. r = Wake(k, c)
    BY <1>4 DEF Add
  <2>3. readable \in BOOLEAN /\ c \in BOOLEAN
    OBVIOUS
  <2> HIDE DEF readable, r
  <2>4. LinkCaching(u, n, t, readable, k)
    <3> HIDE DEF u
    <3> QED BY <2>1, <2>3, LinkCaches
  <2>5. k \in QueueType(N)
    <3>1. k = Link(u, n, t, readable)
      OBVIOUS
    <3>2. LinkReady(u, n, t)
      BY <2>1 DEF Uncovered
    <3> HIDE DEF k, u
    <3> QED BY <2>1, <2>3, <3>1, <3>2, LinkOK DEF QueueOK
  <2> HIDE DEF k, c
  <2>6. /\ Same(k, r) /\ r.warned = k.warned
        /\ r.asleep <=> k.asleep /\ ~c
    BY <2>2, <2>3, <2>5, WarnWake, Flags
  <2> HIDE DEF u
  <2>7. ~least => u.leftmost \in u.messages \ {n} /\ Before(u, u.leftmost, n)
    <3> HAVE ~least
    <3>1. PICK m \in u.messages \ {n} : ~Before(u, n, m)
      BY DEF Least
    <3>2. /\ u.leftmost \in u.messages \ {n}
          /\ m # u.leftmost => Before(u, u.leftmost, m)
      BY <2>1, <3>1 DEF Uncovered, LinkReady
    <3>3. /\ u.timestamp \in [N -> Nat] /\ u.group \in [N -> Nat]
          /\ m \in N /\ u.leftmost \in N /\ m # n
      BY <2>1, <3>1, <3>2 DEF QueueType
    <3>4. Before(u, m, n)
      BY <3>1, <3>3, BeforeIsOrder
    <3>5. Before(u, u.leftmost, m) => Before(u, u.leftmost, n)
      <4>1. PICK l \in N : l = u.leftmost
        BY <3>3
      <4>2. Before(u, l, m) /\ Before(u, m, n) => Before(u, l, n)
        BY SMTT(30), <3>3, BeforeIsOrder
      <4> QED
        BY <3>4, <4>1, <4>2
    <3> QED
      BY <3>2, <3>4, <3>5
  <2>8. Right(q) => Right(k)
    <3> HAVE Right(q)
    <3>1. CASE least
      BY <2>1, <2>4, <3>1 DEF Right, IsStaging, Uncovered, LinkReady, LinkCaching
    <3>2. CASE ~least
      <4>1. u.leftmost \notin {NULL, n}
        BY <2>1, <2>7, <3>2 DEF QueueType, NULL
      <4> QED
        BY <2>1, <2>4, <2>7, <3>2, <4>1 DEF Right, IsStaging, Uncovered, LinkCaching
    <3> QED
      BY <3>1, <3>2
  <2>9. n \notin q.messages => k.front \in {q.front, n}
    BY <2>1, <2>4 DEF LinkCaching, Uncovered
  <2>10. waitq \/ k.front = q.front => (Awake(q) => Awake(r))
    BY <2>1, <2>4, <2>6 DEF LinkCaching, Uncovered, Awake, Same, c
  <2>11. FrontStays(q, n, t) => (k.warned => q.warned)
    <3> HAVE FrontStays(q, n, t)
    <3>1. u.warned => q.warned
      BY <2>1 DEF Uncovered
    <3>2. readable => ~least
      <4> HAVE readable
      <4>1. q.front # NULL /\ Before(u, q.front, n)
        BY <2>1 DEF Uncovered, readable
      <4>2. /\ q.front \in u.messages \ {n} /\ q.front \in N
            /\ u.timestamp \in [N -> Nat] /\ u.group \in [N -> Nat]
        BY <1>1, <2>1, <4>1 DEF Uncovered, LinkReady, QueueOK, QueueType
      <4>3. ~Before(u, n, q.front)
        <5>1. PICK f \in N : f = q.front
          BY <4>2
        <5>2. Before(u, f, n) => ~Before(u, n, f)
          BY SMTT(30), <4>2, BeforeIsOrder
        <5> QED
          BY <4>1, <5>1, <5>2
      <4> QED
        BY <4>2, <4>3 DEF Least
    <3> QED
      BY <2>4, <3>1, <3>2 DEF LinkCaching
  <2>12. Ahead(q, n, t) => least
    <3> HAVE Ahead(q, n, t)
    <3> SUFFICES ASSUME NEW m \in q.messages \ {n} PROVE Before(u, n, m)
      BY <2>1 DEF Least, Uncovered
    <3>1. /\ u.timestamp[n] = t /\ u.timestamp[m] = q.timestamp[m]
          /\ u.group = q.group
      BY <1>1, <2>1 DEF Uncovered, QueueType
    <3> QED
      BY <3>1 DEF Ahead, Before
  <2>13. ~Odd(t) /\ Ahead(q, n, t) => k.front = n
    BY <2>4, <2>12 DEF LinkCaching
  <2> QED
    BY <2>6, <2>8, <2>9, <2>10, <2>11, <2>13, SameRight
       DEF AddCaches, Same, r
<1> QED
  BY <1>2, <1>3, <1>4

(* The same behind a WARN_ON() on the condition c.                         *)
WarnAddCaching(q, c, waitq, n, t, r) ==
  /\ Right(q) => Right(r)
  /\ n \notin q.messages => r.front \in {q.front, n}
  /\ waitq \/ r.front = q.front => (Awake(q) => Awake(r))
  /\ ~c /\ ~Invalid(q, n, t) /\ FrontStays(q, n, t) => (r.warned => q.warned)
  /\ ~Invalid(q, n, t) /\ q.timestamp[n] # t /\ ~Odd(t) /\ Ahead(q, n, t) =>
       r.front = n

(* A call of bus1_queue_add() behind a WARN_ON()                           *)
LEMMA WarnAddCaches ==
  ASSUME NEW N \in SUBSET (Nat \ {0}), NEW q, QueueOK(q, N),
         NEW n \in N, NEW t \in Nat, NEW waitq \in BOOLEAN,
         AddContract(q, n, t), NEW c \in BOOLEAN
  PROVE  WarnAddCaching(q, c, waitq, n, t, Add(Warn(q, c), waitq, n, t))
<1> DEFINE p == Warn(q, c)
           r == Add(p, waitq, n, t)
<1>1. /\ p \in QueueType(N) /\ Same(q, p)
      /\ (p.warned <=> q.warned \/ c) /\ p.asleep = q.asleep
  BY WarnWake, Flags DEF QueueOK
<1> HIDE DEF p
<1>2. QueueOK(p, N)
  BY <1>1, SameOK
<1>3. /\ AddContract(p, n, t)
      /\ Invalid(p, n, t) <=> Invalid(q, n, t)
      /\ FrontStays(p, n, t) <=> FrontStays(q, n, t)
      /\ Ahead(p, n, t) <=> Ahead(q, n, t)
      /\ p.timestamp = q.timestamp
  BY SMTT(30), <1>1 DEF AddContract, Same, Invalid, FrontStays, IsQueued, Ahead
<1>4. AddCaches(p, waitq, n, t, r)
  BY <1>2, <1>3, AddCachesOK
<1>5. Right(q) => Right(p)
  BY <1>1, SameRight DEF Same
<1>6. p.front = q.front /\ p.messages = q.messages /\ (Awake(q) => Awake(p))
  BY <1>1 DEF Same, Awake
<1> HIDE DEF r
<1> QED
  BY <1>1, <1>3, <1>4, <1>5, <1>6 DEF AddCaches, WarnAddCaching, p, r

(* bus1_queue_sync() with an even timestamp                                *)
LEMMA SyncQuiet ==
  ASSUME NEW N, NEW q \in QueueType(N), NEW t \in Nat, ~Odd(t)
  PROVE  Quiet(q, Sync(q, t)) /\ (Right(q) => Right(Sync(q, t)))
<1> DEFINE s == [q EXCEPT !.clock = Later(@, t)]
           c == Odd(t)
           r == Warn(s, c)
<1>1. /\ s \in QueueType(N)
      /\ s.leftmost = q.leftmost /\ s.front = q.front
      /\ s.timestamp = q.timestamp
      /\ s.warned = q.warned /\ s.asleep = q.asleep
  BY DEF QueueType, Later
<1>2. c \in BOOLEAN /\ ~c
  BY DEF Odd
<1> HIDE DEF s, c
<1>3. Same(s, r) /\ (r.warned <=> s.warned \/ c) /\ r.asleep = s.asleep
  <2>1. Same(s, r)
    BY <1>1, <1>2, WarnWake
  <2>2. (r.warned <=> s.warned \/ c) /\ r.asleep = s.asleep
    BY <1>1 DEF Warn, QueueType
  <2> QED BY <2>1, <2>2
<1> HIDE DEF r
<1>4. Quiet(q, r)
  BY <1>1, <1>2, <1>3 DEF Quiet, Awake, Same
<1>5. Right(q) => Right(r)
  BY <1>1, <1>3, SameRight DEF Same
<1> QED
  BY <1>4, <1>5 DEF Sync, r, s, c

(* bus1_queue_tick()                                                       *)
LEMMA TickQuiet ==
  ASSUME NEW N, NEW q \in QueueType(N)
  PROVE  Quiet(q, Tick(q)) /\ (Right(q) => Right(Tick(q)))
<1> DEFINE r == Tick(q)
<1>1. /\ r.leftmost = q.leftmost /\ r.front = q.front
      /\ r.timestamp = q.timestamp
      /\ r.warned = q.warned /\ r.asleep = q.asleep
  BY DEF Tick, QueueType
<1> HIDE DEF r
<1>2. Quiet(q, r)
  BY <1>1 DEF Quiet, Awake
<1>3. Right(q) => Right(r)
  BY <1>1, SameRight
<1> QED
  BY <1>2, <1>3 DEF r

(* Tags do not matter to the caches and the flags.                         *)
LEMMA SetGroupQuiet ==
  ASSUME NEW N, NEW q \in QueueType(N), NEW n, NEW g
  PROVE  /\ Quiet(q, SetGroup(q, n, g))
         /\ Right(q) => Right(SetGroup(q, n, g))
<1> DEFINE f == [q.group EXCEPT ![n] = g]
           r == [q EXCEPT !.group = f]
<1>1. r = SetGroup(q, n, g)
  BY DEF SetGroup, QueueType
<1> HIDE DEF f
<1>2. /\ r.leftmost = q.leftmost /\ r.front = q.front
      /\ r.timestamp = q.timestamp
      /\ r.warned = q.warned /\ r.asleep = q.asleep
  BY DEF QueueType
<1> HIDE DEF r
<1>3. Quiet(q, r)
  BY <1>2 DEF Quiet, Awake
<1>4. Right(q) => Right(r)
  BY <1>2, SameRight
<1> QED
  BY <1>1, <1>3, <1>4

(* The same for the tags of several nodes                                  *)
LEMMA SetGroupsQuiet ==
  ASSUME NEW N, NEW q \in QueueType(N), NEW S, NEW g
  PROVE  /\ Quiet(q, SetGroups(q, S, g))
         /\ Right(q) => Right(SetGroups(q, S, g))
<1> DEFINE f == [n \in DOMAIN q.group |-> IF n \in S THEN g ELSE q.group[n]]
           r == [q EXCEPT !.group = f]
<1>1. r = SetGroups(q, S, g)
  BY DEF SetGroups
<1> HIDE DEF f
<1>2. /\ r.leftmost = q.leftmost /\ r.front = q.front
      /\ r.timestamp = q.timestamp
      /\ r.warned = q.warned /\ r.asleep = q.asleep
  BY DEF QueueType
<1> HIDE DEF r
<1>3. Quiet(q, r)
  BY <1>2 DEF Quiet, Awake
<1>4. Right(q) => Right(r)
  BY <1>2, SameRight
<1> QED
  BY <1>1, <1>3, <1>4

(* bus1_queue_node_init() of a node that is not linked                     *)
LEMMA NodeInitQuiet ==
  ASSUME NEW N \in SUBSET (Nat \ {0}), NEW q, QueueOK(q, N),
         NEW n \in N, n \notin q.messages
  PROVE  Quiet(q, NodeInit(q, n)) /\ (Right(q) => Right(NodeInit(q, n)))
<1> DEFINE r == NodeInit(q, n)
<1>1. q \in QueueType(N)
  BY DEF QueueOK
<1>2. /\ r.leftmost = q.leftmost /\ r.front = q.front
      /\ r.timestamp = [q.timestamp EXCEPT ![n] = 0]
      /\ r.warned = q.warned /\ r.asleep = q.asleep
  BY <1>1 DEF NodeInit, QueueType
<1>3. q.leftmost # NULL => q.leftmost \in N \ {n}
  BY <1>1 DEF QueueOK, QueueType
<1> HIDE DEF r
<1>4. Quiet(q, r)
  BY <1>2 DEF Quiet, Awake
<1>5. Right(q) => Right(r)
  BY <1>1, <1>2, <1>3 DEF Right, IsStaging, QueueType
<1> QED
  BY <1>4, <1>5 DEF r

(* bus1_queue_remove() of a linked node: the entry behind becomes the      *)
(* front if it is committed, and whoever waits for that is woken up.       *)
LEMMA RemoveQuiet ==
  ASSUME NEW N \in SUBSET (Nat \ {0}), NEW q, QueueOK(q, N),
         NEW n \in N
  PROVE  /\ n \in q.messages => Quiet(q, Remove(q, n))
         /\ Right(q) => Right(Remove(q, n))
<1> DEFINE r == Remove(q, n)
<1>1. q \in QueueType(N)
  BY DEF QueueOK
<1>2. CASE n \notin q.messages
  <2>1. r = Warn(q, TRUE)
    BY <1>2 DEF Remove, IsQueued
  <2>2. Same(q, r)
    BY <1>1, <2>1, WarnWake, TRUE \in BOOLEAN
  <2> HIDE DEF r
  <2>3. Right(q) => Right(r)
    BY <2>2, SameRight DEF Same
  <2> QED
    BY <1>2, <2>3 DEF r
<1>3. CASE n \in q.messages
  <2> DEFINE next == Following(q, n)
             rest == {m \in q.messages : Before(q, n, m)}
             leads == n = q.leftmost
             front == IF ~leads THEN q.front
                      ELSE IF next # NULL /\ ~IsStaging(q, next)
                      THEN next ELSE NULL
             s == [q EXCEPT !.messages = @ \ {n},
                            !.leftmost = IF leads THEN next ELSE @,
                            !.front = front]
             woken == q.front = NULL /\ s.front # NULL
  <2>1. next \in N \cup {NULL}
    <3>1. rest \in SUBSET N /\ next = First(q, rest)
      BY <1>1 DEF Following, QueueType
    <3> HIDE DEF rest, next
    <3> QED
      BY <1>1, <3>1, FirstIsLeast DEF QueueType
  <2>2. r = Wake(s, woken)
    BY <1>3 DEF Remove, IsQueued
  <2>3. woken \in BOOLEAN
    OBVIOUS
  <2>4. front \in N \cup {NULL}
    BY <1>1, <2>1 DEF QueueType
  <2> HIDE DEF front, next
  <2>5. /\ s \in QueueType(N)
        /\ s.leftmost = (IF leads THEN next ELSE q.leftmost)
        /\ s.front = front /\ s.timestamp = q.timestamp
        /\ s.warned = q.warned /\ s.asleep = q.asleep
    BY <1>1, <2>1, <2>4 DEF QueueType
  <2> HIDE DEF s, woken, r
  <2>6. Same(s, r)
    BY <2>2, <2>3, <2>5, WarnWake
  <2>7. r.warned = s.warned /\ (r.asleep <=> s.asleep /\ ~woken)
    BY <2>2, <2>5 DEF Wake, QueueType
  <2>8. Right(q) => Right(s)
    BY <2>5 DEF Right, IsStaging, front
  <2>9. Right(s) => Right(r)
    BY <2>6, SameRight DEF Same
  <2>10. Quiet(q, r)
    BY <2>5, <2>6, <2>7 DEF Quiet, Awake, Same, woken
  <2> QED
    BY <2>8, <2>9, <2>10 DEF r
<1> QED
  BY <1>2, <1>3

(* bus1_queue_flush() up to a time that the clock has reached, and that is *)
(* not before the last flush.                                              *)
LEMMA FlushQuiet ==
  ASSUME NEW N, NEW q \in QueueType(N), NEW t \in Nat,
         ~Odd(t), t <= q.clock, q.flush <= t
  PROVE  Quiet(q, Flush(q, t))
<1> DEFINE kept == q.messages \ Flushed(q, t)
           c == Odd(t) \/ t > q.clock + 1 \/ t < q.flush
           w == Warn(q, c)
           r == [w EXCEPT !.front = NULL, !.leftmost = First(q, kept),
                          !.flush = t, !.messages = kept]
<1>1. c \in BOOLEAN /\ ~c
  BY SMTT(30) DEF QueueType, Odd
<1>2. r = Flush(q, t)
  BY DEF Flush
<1> HIDE DEF c, kept
<1>3. w \in QueueType(N)
  BY <1>1, WarnWake
<1>4. w.warned <=> q.warned \/ c
  BY <1>1, Flags
<1> HIDE DEF w
<1>5. r.front = NULL /\ r.warned = w.warned
  BY <1>3 DEF QueueType
<1> HIDE DEF r
<1>6. Quiet(q, r)
  BY <1>1, <1>4, <1>5 DEF Quiet, Awake
<1> QED
  BY <1>2, <1>6

(* bus1_queue_stage() of a node that is not in use: a staging entry never  *)
(* becomes the front.                                                      *)
LEMMA StageQuiet ==
  ASSUME NEW N \in SUBSET (Nat \ {0}), NEW q, QueueOK(q, N),
         NEW n \in N, n \notin q.messages, q.timestamp[n] = 0,
         NEW t \in Nat, ~Odd(t)
  PROVE  Quiet(q, Stage(q, n, t)) /\ (Right(q) => Right(Stage(q, n, t)))
<1> DEFINE p == Sync(q, t)
           ts == p.clock + 1
           s == Add(p, FALSE, n, ts)
           c == Odd(t) \/ IsQueued(q, n) \/ s.front = n
           r == Warn(s, c)
<1>1. r = Stage(q, n, t)
  BY DEF Stage
<1>2. c \in BOOLEAN
  BY DEF Odd, IsQueued
<1>3. Quiet(q, p) /\ (Right(q) => Right(p))
  BY SyncQuiet DEF QueueOK
<1>4. /\ Advance(q, p, N) /\ Ticked(q, p)
  BY SyncOK
<1> HIDE DEF p
<1>5. /\ QueueOK(p, N) /\ p \in QueueType(N) /\ ts \in Nat /\ Odd(ts)
  BY SMTT(30), <1>4 DEF Advance, QueueOK, QueueType, Odd
<1>6. n \notin p.messages /\ p.timestamp[n] = 0
  BY <1>4 DEF Ticked
<1>7. /\ AddContract(p, n, ts) /\ ~Invalid(p, n, ts)
  BY SMTT(30), <1>5, <1>6 DEF AddContract, Invalid, IsQueued, QueueType
<1>8. FrontStays(p, n, ts)
  <2> SUFFICES ASSUME p.front # NULL
               PROVE  KeyBefore(p.timestamp[p.front], p.group[p.front], ts, p.group[n])
    BY DEF FrontStays
  <2>1. Past(p, p.timestamp[p.front], p.group[p.front]) /\ p.front \in N
    BY <1>5, FrontOK
  <2>2. p.timestamp[p.front] <= p.clock /\ p.timestamp[p.front] \in Nat
    BY <1>5, <2>1 DEF Past, QueueType
  <2> QED
    BY SMTT(30), <1>5, <2>2 DEF KeyBefore, QueueType
<1> HIDE DEF ts
<1>9. AddCaches(p, FALSE, n, ts, s)
  BY <1>5, <1>7, AddCachesOK, FALSE \in BOOLEAN
<1>10. QueueOK(s, N) /\ AddOutcome(p, s, n, ts)
  <2>1. s = Add(p, FALSE, n, ts) /\ FALSE \in BOOLEAN
    OBVIOUS
  <2> HIDE DEF s
  <2> QED
    BY <1>5, <1>7, <2>1, AddOK
<1> HIDE DEF s
<1>11. s.front # n
  <2>1. s.timestamp[n] = ts
    BY <1>5, <1>6, <1>7, <1>10 DEF AddOutcome, QueueType
  <2> QED
    BY <1>5, <1>10, <2>1 DEF QueueOK, IsStaging, NULL
<1>12. ~c
  BY <1>11 DEF IsQueued
<1> HIDE DEF c
<1>13. s \in QueueType(N)
  BY <1>10 DEF QueueOK
<1>14. Same(s, r)
  BY <1>2, <1>13, WarnWake
<1>15. (r.warned => s.warned) /\ r.asleep = s.asleep
  BY <1>2, <1>12, <1>13, Flags
<1> HIDE DEF r
<1>16. Quiet(q, s)
  BY <1>3, <1>6, <1>7, <1>8, <1>9, <1>11 DEF AddCaches, Quiet
<1>17. Quiet(q, r)
  BY <1>14, <1>15, <1>16 DEF Quiet, Awake, Same
<1>18. Right(s) => Right(r)
  BY <1>14, SameRight DEF Same
<1> QED
  BY <1>1, <1>3, <1>9, <1>17, <1>18 DEF AddCaches

(* bus1_queue_commit_staged() of a staged node, at a time that is later    *)
(* and that the clock has reached.                                         *)
LEMMA CommitStagedQuiet ==
  ASSUME NEW N \in SUBSET (Nat \ {0}), NEW q, QueueOK(q, N),
         NEW n \in N, NEW t \in Nat, ~Odd(t)
  PROVE  /\ n \in q.messages /\ Odd(q.timestamp[n]) /\ q.timestamp[n] < t
              /\ t <= q.clock => Quiet(q, CommitStaged(q, n, t))
         /\ Right(q) => Right(CommitStaged(q, n, t))
<1> DEFINE c == Odd(t) \/ ~IsQueued(q, n)
           r == Add(Warn(q, c), TRUE, n, t)
<1>1. r = CommitStaged(q, n, t)
  BY DEF CommitStaged
<1>2. c \in BOOLEAN /\ TRUE \in BOOLEAN
  BY DEF Odd, IsQueued
<1>3. AddContract(q, n, t) /\ q \in QueueType(N)
  BY DEF AddContract, QueueOK
<1>4. n \in q.messages => ~c /\ FrontStays(q, n, t)
  BY DEF IsQueued, FrontStays
<1>5. n \in q.messages /\ Odd(q.timestamp[n]) /\ q.timestamp[n] < t
        /\ t <= q.clock => ~Invalid(q, n, t)
  BY SMTT(30), <1>3 DEF Invalid, IsQueued, QueueType, Odd
<1> HIDE DEF c
<1>6. WarnAddCaching(q, c, TRUE, n, t, r)
  BY <1>2, <1>3, WarnAddCaches
<1> HIDE DEF r
<1> QED
  BY <1>1, <1>4, <1>5, <1>6 DEF WarnAddCaching, Quiet

(* bus1_queue_commit_unstaged() of a node that is not in use               *)
LEMMA CommitUnstagedQuiet ==
  ASSUME NEW N \in SUBSET (Nat \ {0}), NEW q, QueueOK(q, N),
         NEW n \in N
  PROVE  /\ n \notin q.messages /\ q.timestamp[n] = 0 =>
              Quiet(q, CommitUnstaged(q, n))
         /\ Right(q) => Right(CommitUnstaged(q, n))
<1> DEFINE p == Tick(q)
           c == IsQueued(q, n)
           t == p.clock
           r == Add(Warn(p, c), TRUE, n, t)
<1>1. c \in BOOLEAN /\ TRUE \in BOOLEAN
  BY SMTT(30) DEF IsQueued
<1>2. Advance(q, p, N) /\ Ticked(q, p) /\ t = q.clock + 2
  BY TickOK
<1>3. Quiet(q, p) /\ (Right(q) => Right(p))
  <2>1. q \in QueueType(N)
    BY DEF QueueOK
  <2> QED
    BY <2>1, TickQuiet
<1>4. QueueOK(p, N) /\ t \in Nat /\ ~Odd(t) /\ p \in QueueType(N)
  BY <1>2 DEF Advance, QueueOK, QueueType
<1>5. r = CommitUnstaged(q, n)
  <2>1. Warn(p, c).clock = p.clock
    <3> HIDE DEF p, c
    <3> QED BY <1>1, <1>4, WarnWake DEF Same
  <2> QED
    BY <2>1 DEF CommitUnstaged
<1>6. AddContract(p, n, t)
  BY <1>4 DEF AddContract
<1>7. n \notin q.messages => ~c
  BY DEF IsQueued
<1>8. n \notin q.messages /\ q.timestamp[n] = 0 => ~Invalid(p, n, t)
  BY SMTT(30), <1>2, <1>4 DEF Invalid, IsQueued, Ticked, QueueType, QueueOK
<1>9. FrontStays(p, n, t)
  <2> SUFFICES ASSUME p.front # NULL
               PROVE  KeyBefore(p.timestamp[p.front], p.group[p.front], t, p.group[n])
    BY DEF FrontStays
  <2>1. q.front # NULL /\ q.front = p.front /\ q.timestamp = p.timestamp
    BY <1>2 DEF Ticked
  <2>2. Past(q, q.timestamp[q.front], q.group[q.front]) /\ q.front \in N
    BY <2>1, FrontOK
  <2>3. p.timestamp[p.front] <= q.clock /\ p.timestamp[p.front] \in Nat
    BY <1>4, <2>1, <2>2 DEF Past, QueueType
  <2>4. q.clock \in Nat
    BY DEF QueueOK, QueueType
  <2> QED
    BY SMTT(30), <1>2, <2>3, <2>4 DEF KeyBefore
<1> HIDE DEF p, c, t
<1>10. WarnAddCaching(p, c, TRUE, n, t, r)
  BY <1>1, <1>4, <1>6, WarnAddCaches
<1> HIDE DEF r
<1> QED
  BY <1>3, <1>5, <1>7, <1>8, <1>9, <1>10 DEF WarnAddCaching, Quiet

(* bus1_queue_commit_synthetic() of a node that is not in use, at a time   *)
(* the clock has reached: quiet unless the node becomes the front.         *)
LEMMA CommitSyntheticQuiet ==
  ASSUME NEW N \in SUBSET (Nat \ {0}), NEW q, QueueOK(q, N),
         NEW n \in N, n \notin q.messages, q.timestamp[n] = 0,
         NEW t \in Nat, ~Odd(t), t # 0, t <= q.clock
  PROVE  /\ CommitSynthetic(q, n, t).front # n =>
              Quiet(q, CommitSynthetic(q, n, t))
         /\ Right(q) => Right(CommitSynthetic(q, n, t))
<1> DEFINE c == Odd(t) \/ t > q.clock + 1 \/ IsQueued(q, n)
           p == Warn(q, c)
           s == Add(p, FALSE, n, t)
           d == s.front = n
           r == IF JoinsBehind(q, n, t) THEN Warn(s, d) ELSE p
<1>1. q \in QueueType(N) /\ c \in BOOLEAN /\ d \in BOOLEAN /\ FALSE \in BOOLEAN
  BY DEF Odd, IsQueued, QueueOK
<1>2. r = CommitSynthetic(q, n, t)
  BY DEF CommitSynthetic
<1>3. ~c /\ ~Invalid(q, n, t) /\ AddContract(q, n, t)
  BY SMTT(30), <1>1 DEF IsQueued, Invalid, AddContract, QueueType
<1> HIDE DEF c
<1>4. CASE ~JoinsBehind(q, n, t)
  <2>1. r = p
    BY <1>4
  <2>2. /\ Same(q, p) /\ p.asleep = q.asleep /\ (p.warned => q.warned)
    BY <1>1, <1>3, WarnWake, Flags
  <2> HIDE DEF p
  <2>3. Quiet(q, p)
    BY <2>2 DEF Quiet, Awake, Same
  <2>4. Right(q) => Right(p)
    BY <2>2, SameRight DEF Same
  <2> QED
    BY <1>2, <2>1, <2>3, <2>4
<1>5. CASE JoinsBehind(q, n, t)
  <2>1. r = Warn(s, d)
    BY <1>5
  <2>2. WarnAddCaching(q, c, FALSE, n, t, s)
    BY <1>1, <1>3, WarnAddCaches
  <2>3. QueueOK(s, N)
    <3>1. p \in QueueType(N) /\ Same(q, p)
      BY <1>1, WarnWake
    <3> HIDE DEF p
    <3>2. QueueOK(p, N) /\ AddContract(p, n, t) /\ s = Add(p, FALSE, n, t)
      BY <1>3, <3>1, SameOK DEF AddContract
    <3> HIDE DEF s
    <3> QED
      BY <1>1, <3>2, AddOK
  <2> HIDE DEF s
  <2>4. s \in QueueType(N)
    BY <2>3 DEF QueueOK
  <2> HIDE DEF r
  <2>5. Same(s, r)
    BY <1>1, <2>1, <2>4, WarnWake
  <2>6. r.asleep = s.asleep /\ (r.warned => s.warned \/ d)
    BY <1>1, <2>1, <2>4, Flags
  <2>7. Right(q) => Right(r)
    <3>1. Right(s) => Right(r)
      BY <2>5, SameRight DEF Same
    <3> QED
      BY <2>2, <3>1 DEF WarnAddCaching
  <2>8. ASSUME s.front # n PROVE FrontStays(q, n, t)
    <3> SUFFICES ASSUME q.front # NULL
                 PROVE  KeyBefore(q.timestamp[q.front], q.group[q.front], t, q.group[n])
      BY DEF FrontStays
    <3> DEFINE l == q.leftmost
    <3>1. q.front = l /\ l \in q.messages /\ l \in N /\ l # n
      BY <1>1 DEF QueueOK, QueueType
    <3>2. ~Ahead(q, n, t)
      BY <1>3, <2>2, <2>8 DEF WarnAddCaching
    <3>3. \A m \in q.messages \ {l} : Before(q, l, m)
      BY <3>1 DEF QueueOK
    <3>4. \A m \in q.messages : m \in Nat /\ q.timestamp[m] \in Nat /\ q.group[m] \in Nat
      BY <1>1 DEF QueueType
    <3>5. n \in Nat /\ q.group[n] \in Nat
      BY <1>1 DEF QueueType
    <3>6. \/ KeyBefore(q.timestamp[l], q.group[l], t, q.group[n])
          \/ q.timestamp[l] = t /\ q.group[l] = q.group[n] /\ n < l
      BY <1>5 DEF JoinsBehind
    <3> HIDE DEF l
    <3>7. CASE q.timestamp[l] = t /\ q.group[l] = q.group[n] /\ n < l
      <4>1. Ahead(q, n, t)
        BY SMTT(30), <3>1, <3>3, <3>4, <3>5, <3>7 DEF Ahead, Before, KeyBefore
      <4> QED
        BY <3>2, <4>1
    <3> QED
      BY <3>1, <3>6, <3>7
  <2>9. r.front # n => Quiet(q, r)
    <3> HAVE r.front # n
    <3>1. s.front # n /\ s.front = q.front /\ r.front = s.front
      BY <2>2, <2>5 DEF WarnAddCaching, Same
    <3>2. (s.warned => q.warned) /\ (Awake(q) => Awake(s))
      BY <1>3, <2>2, <2>8, <3>1 DEF WarnAddCaching
    <3> QED
      BY <2>6, <3>1, <3>2 DEF Quiet, Awake
  <2> QED
    BY <1>2, <2>7, <2>9
<1> QED
  BY <1>4, <1>5

(* What the callers get from every operation: no new warning, no lost      *)
(* wake-up, and the front stays right.                                     *)
Steady(q, r) == Quiet(q, r) /\ (Right(q) => Right(r))

(* Calls compose.                                                          *)
LEMMA SteadyTransitive ==
  ASSUME NEW q, NEW r, NEW s, Steady(q, r), Steady(r, s)
  PROVE  Steady(q, s)
BY DEF Steady, Quiet

(* So does no call.                                                        *)
LEMMA SteadyReflexive ==
  ASSUME NEW q
  PROVE  Steady(q, q)
BY DEF Steady, Quiet

(* A WARN_ON() that does not fire                                          *)
LEMMA SteadyWarn ==
  ASSUME NEW N \in SUBSET (Nat \ {0}), NEW q, QueueOK(q, N),
         NEW c \in BOOLEAN, ~c
  PROVE  /\ Steady(q, Warn(q, c)) /\ QueueOK(Warn(q, c), N)
         /\ Same(q, Warn(q, c))
<1> DEFINE r == Warn(q, c)
<1>1. q \in QueueType(N)
  BY DEF QueueOK
<1>2. r \in QueueType(N) /\ Same(q, r)
  BY <1>1, WarnWake
<1>3. (r.warned => q.warned) /\ r.asleep = q.asleep
  BY <1>1, Flags
<1> HIDE DEF r
<1>4. QueueOK(r, N)
  BY <1>2, SameOK
<1>5. Right(q) => Right(r)
  BY <1>2, SameRight DEF Same
<1>6. Quiet(q, r)
  BY <1>2, <1>3 DEF Quiet, Awake, Same
<1> QED
  BY <1>2, <1>4, <1>5, <1>6 DEF Steady, r

(* With a front that is right, both caches are.                            *)
LEMMA RightPointers ==
  ASSUME NEW N \in SUBSET (Nat \ {0}), NEW q, QueueOK(q, N), Right(q)
  PROVE  PointersRight(q)
<1> DEFINE S == q.messages
           f == First(q, S)
<1>1. /\ q.timestamp \in [N -> Nat] /\ q.group \in [N -> Nat]
      /\ S \in SUBSET N
  BY DEF QueueOK, QueueType
<1>2. IF S = {} THEN f = NULL
      ELSE f \in S /\ \A m \in S \ {f} : Before(q, f, m)
  BY <1>1, FirstIsLeast
<1> HIDE DEF f
<1>3. IF S = {} THEN q.leftmost = NULL
      ELSE q.leftmost \in S /\ \A m \in S \ {q.leftmost} : Before(q, q.leftmost, m)
  BY DEF QueueOK
<1>4. q.leftmost = f
  <2>1. CASE S # {} /\ q.leftmost # f
    <3>1. Before(q, f, q.leftmost) /\ Before(q, q.leftmost, f)
      BY <1>2, <1>3, <2>1
    <3>2. f \in N /\ q.leftmost \in N
      BY <1>1, <1>2, <1>3, <2>1
    <3> QED
      BY <1>1, <3>1, <3>2, BeforeIsOrder
  <2> QED
    BY <1>2, <1>3, <2>1
<1>5. q.front = IF q.leftmost # NULL /\ ~IsStaging(q, q.leftmost)
                THEN q.leftmost ELSE NULL
  BY DEF QueueOK, Right
<1> QED
  BY <1>4, <1>5 DEF PointersRight, f

IsFront(q, n) == q.front = n

(* The front of a queue is linked and committed.                           *)
LEMMA FrontCommitted ==
  ASSUME NEW N \in SUBSET (Nat \ {0}), NEW q, QueueOK(q, N), NEW n \in N,
         IsFront(q, n)
  PROVE  n \in q.messages /\ ~Odd(q.timestamp[n])
BY DEF QueueOK, IsFront, IsStaging, NULL

(* An entry with the tag g is linked.                                      *)
HasTag(q, g) == \E m \in q.messages : q.group[m] = g

(* bus1_queue_commit_synthetic() makes n the front.                        *)
Overtakes(q, r, n, t) == r = CommitSynthetic(q, n, t) /\ IsFront(r, n)

(* A synthetic entry is only linked behind the first one, or ahead of it   *)
(* with the same key.                                                      *)
LEMMA SyntheticLinked ==
  ASSUME NEW N \in SUBSET (Nat \ {0}), NEW q, QueueOK(q, N), NEW n \in N,
         n \notin q.messages, NEW t \in Nat,
         n \in CommitSynthetic(q, n, t).messages
  PROVE  JoinsBehind(q, n, t) /\ q.leftmost \in q.messages
<1>1. CASE ~JoinsBehind(q, n, t)
  <2> DEFINE c == Odd(t) \/ t > q.clock + 1 \/ IsQueued(q, n)
  <2>1. CommitSynthetic(q, n, t) = Warn(q, c)
    BY <1>1 DEF CommitSynthetic
  <2>2. c \in BOOLEAN /\ q \in QueueType(N)
    BY DEF QueueOK
  <2> HIDE DEF c
  <2>3. Same(q, Warn(q, c))
    BY <2>2, WarnWake
  <2>4. CommitSynthetic(q, n, t).messages = q.messages
    BY <2>1, <2>3 DEF Same
  <2> QED
    BY <2>4
<1>2. CASE JoinsBehind(q, n, t)
  BY <1>2 DEF JoinsBehind, QueueOK, NULL
<1> QED
  BY <1>1, <1>2

(* It becomes the front only if the first entry has the same key and a     *)
(* higher address.                                                         *)
LEMMA SyntheticFront ==
  ASSUME NEW N \in SUBSET (Nat \ {0}), NEW q, QueueOK(q, N),
         NEW n \in N, n \notin q.messages, NEW t \in Nat, ~Odd(t),
         NEW r, Overtakes(q, r, n, t)
  PROVE  HasTag(q, q.group[n])
<1> DEFINE l == q.leftmost
<1>1. r = CommitSynthetic(q, n, t) /\ r.front = n
  BY DEF Overtakes, IsFront
<1>2. QueueOK(r, N) /\ LinkOutcome(q, r, n, t)
  BY <1>1, CommitSyntheticOK DEF Advance
<1>3. n \in r.messages /\ \A m \in r.messages \ {n} : Before(r, n, m)
  BY <1>1, <1>2 DEF QueueOK, NULL
<1>4. JoinsBehind(q, n, t) /\ l \in q.messages
  BY <1>1, <1>3, SyntheticLinked
<1>5. l # n /\ l \in N
  BY <1>4 DEF QueueOK, QueueType
<1>6. /\ l \in r.messages /\ r.timestamp[l] = q.timestamp[l]
      /\ r.timestamp[n] = t /\ r.group = q.group
  BY <1>2, <1>3, <1>4, <1>5 DEF LinkOutcome, QueueOK, QueueType
<1>7. Before(r, n, l)
  BY <1>3, <1>5, <1>6
<1>8. /\ q.timestamp[l] \in Nat /\ q.group[l] \in Nat /\ q.group[n] \in Nat
  BY <1>5 DEF QueueOK, QueueType
<1>9. ~KeyBefore(q.timestamp[l], q.group[l], t, q.group[n])
  BY SMTT(30), <1>6, <1>7, <1>8 DEF Before, KeyBefore
<1> QED
  BY <1>4, <1>9 DEF JoinsBehind, HasTag

-----------------------------------------------------------------------------
(* The queues of the peers *)

(* The nodes of a queue are addresses.                                     *)
LEMMA MineOK ==
  /\ \A p \in Peer : Mine(p) \in SUBSET (Nat \ {0})
  /\ \A n \in Node : Dest[n] \in Peer /\ n \in Mine(Dest[n]) /\ n \in Nat
                     /\ n # NULL
  /\ \A p \in Peer : \A n \in Mine(p) : n \in Node /\ Dest[n] = p
BY TransactionAssumption DEF Mine, NULL

(* A critical section changes one queue; that all others advance too is    *)
(* immediate.                                                              *)
LEMMA OneQueue ==
  ASSUME IInv, NEW p \in Peer, NEW s, queue' = [queue EXCEPT ![p] = s],
         Advance(queue[p], s, Mine(p))
  PROVE  /\ DOMAIN queue' = Peer
         /\ queue'[p] = s
         /\ \A x \in Peer \ {p} : queue'[x] = queue[x]
         /\ \A x \in Peer : Advance(queue[x], queue'[x], Mine(x))
<1>1. DOMAIN queue = Peer
  BY DEF IInv, TypeOK
<1>2. DOMAIN queue' = Peer /\ queue'[p] = s
      /\ \A x \in Peer \ {p} : queue'[x] = queue[x]
  BY <1>1
<1>3. \A x \in Peer : QueueOK(queue[x], Mine(x)) /\ queue[x].clock \in Nat
  BY DEF IInv, KeysOK, QueueOK, QueueType
<1>4. \A x \in Peer : Advance(queue[x], queue[x], Mine(x))
  BY SMTT(30), <1>3 DEF Advance
<1> QED
  BY <1>2, <1>4

(* What a step of one transaction leaves of the others.                    *)
LEMMA TxUpdate ==
  ASSUME IInv, NEW t \in TxId, NEW x, tx' = [tx EXCEPT ![t] = x]
  PROVE  /\ tx'[t] = x /\ \A u \in TxId \ {t} : tx'[u] = tx[u]
         /\ x \in TxType => tx' \in [TxId -> TxType]
BY DEF IInv, TypeOK

(* s differs from q at most in the node n.                                 *)
OnlyNode(q, s, N, n) ==
  /\ s.flush = q.flush
  /\ \A m \in N \ {n} : /\ m \in s.messages <=> m \in q.messages
                        /\ s.timestamp[m] = q.timestamp[m]
                        /\ s.group[m] = q.group[m]

(* bus1_tx_stage() of a node that is not in use                            *)
TxStageOutcome(q, r, N, n, t) ==
  /\ Advance(q, r, N) /\ OnlyNode(q, r, N, n)
  /\ r.group[n] = t /\ Odd(r.timestamp[n]) /\ r.timestamp[n] # 0
  /\ r.clock \in Nat /\ ~Odd(r.clock)
  /\ n \in r.messages /\ r.timestamp[n] = r.clock + 1

(* bus1_tx_stage() gives an unused node the group of the transaction and   *)
(* an odd timestamp, the first one after the later of the two clocks.      *)
LEMMA TxStageOK ==
  ASSUME NEW N \in SUBSET (Nat \ {0}), NEW q, QueueOK(q, N),
         NEW n \in N, n \notin q.messages, q.timestamp[n] = 0,
         NEW t \in TxId, NEW ts \in Nat, ~Odd(ts),
         NEW r, r = TxStage(q, t, n, ts)
  PROVE  TxStageOutcome(q, r, N, n, t) /\ r.clock = Later(q.clock, ts)
<1> DEFINE g == SetGroup(q, n, t)
           misused == Sealed(t) \/ q.group[n] \notin {NULL, t}
           w == Warn(g, misused)
<1>1. r = Stage(w, n, ts)
  BY DEF TxStage
<1>2. t \in Nat
  BY TransactionAssumption
<1>3. misused \in BOOLEAN
  BY DEF Sealed
<1>4. /\ Advance(q, g, N) /\ g.clock = q.clock /\ g.flush = q.flush
      /\ g.messages = q.messages /\ g.group = [q.group EXCEPT ![n] = t]
      /\ g.timestamp = q.timestamp
  <2>1. g = SetGroup(q, n, t)
    OBVIOUS
  <2> HIDE DEF g
  <2>2. Advance(q, g, N) /\ SetGroupOutcome(q, g, n, t)
    BY <1>2, <2>1, SetGroupOK
  <2> QED BY <2>2 DEF SetGroupOutcome
<1> HIDE DEF g, misused
<1>5. QueueOK(g, N) /\ g \in QueueType(N)
  BY <1>4 DEF Advance, QueueOK
<1>6. w \in QueueType(N) /\ Same(g, w)
  BY <1>3, <1>5, WarnWake
<1> HIDE DEF w
<1>7. Alike(g, w)
  BY SMTT(30), <1>5, <1>6 DEF Alike, Same, QueueOK, QueueType
<1>8. QueueOK(w, N) /\ Advance(g, w, N)
  BY <1>5, <1>6, <1>7, SameOK, AdvanceAlike
<1>9. n \notin w.messages /\ w.timestamp[n] = 0
  BY <1>4, <1>6 DEF Same
<1>10. Advance(w, r, N) /\ StageOutcome(w, r, n, ts)
  BY <1>1, <1>8, <1>9, StageOK
<1>11. Advance(q, r, N)
  BY <1>4, <1>5, <1>8, <1>10, AdvanceTransitive
<1>12. r.clock \in Nat /\ ~Odd(r.clock)
  BY <1>11 DEF Advance, QueueOK, QueueType
<1>13. r.timestamp[n] = r.clock + 1
  BY <1>9, <1>10 DEF StageOutcome
<1>14. Odd(r.timestamp[n]) /\ r.timestamp[n] # 0
  BY SMTT(30), <1>12, <1>13 DEF Odd
<1>15. q \in QueueType(N)
  BY DEF QueueOK
<1>16. w.flush = q.flush /\ w.messages = q.messages
       /\ w.group = [q.group EXCEPT ![n] = t] /\ w.timestamp = q.timestamp
  BY <1>4, <1>6 DEF Same
<1>17. OnlyNode(q, r, N, n)
  BY SMTT(30), <1>10, <1>15, <1>16 DEF OnlyNode, StageOutcome, QueueType
<1>18. r.group[n] = t
  BY SMTT(30), <1>10, <1>15, <1>16 DEF StageOutcome, QueueType
<1>19. w.clock = q.clock /\ r.clock = Later(w.clock, ts) /\ n \in r.messages
  BY <1>4, <1>6, <1>9, <1>10, <1>14 DEF Same, StageOutcome
<1> QED
  BY <1>11, <1>12, <1>13, <1>14, <1>17, <1>18, <1>19 DEF TxStageOutcome

(* A node is unlinked if need be and initialised: bus1_handle_destroy_locked() *)
LEMMA RenewOK ==
  ASSUME NEW N \in SUBSET (Nat \ {0}), NEW q, QueueOK(q, N), NEW a \in N,
         NEW c \in BOOLEAN, NEW i,
         i = (IF IsQueued(q, a) THEN Remove(q, a) ELSE q),
         NEW r, r = NodeInit(Warn(i, c), a)
  PROVE  /\ Advance(q, r, N) /\ OnlyNode(q, r, N, a)
         /\ a \notin r.messages /\ r.timestamp[a] = 0
<1>1. q \in QueueType(N)
  BY DEF QueueOK
<1>2. /\ Advance(q, i, N) /\ i.flush = q.flush
      /\ i.timestamp = q.timestamp /\ i.group = q.group
      /\ i.messages = q.messages \ {a}
  <2>1. CASE IsQueued(q, a)
    <3>1. Advance(q, i, N) /\ RemoveOutcome(q, i, a)
      BY <2>1, RemoveOK
    <3> QED
      BY <3>1 DEF RemoveOutcome
  <2>2. CASE ~IsQueued(q, a)
    <3>1. Advance(q, q, N)
      BY SMTT(30), <1>1 DEF Advance, QueueType
    <3> QED
      BY <2>2, <3>1 DEF IsQueued
  <2> QED
    BY <2>1, <2>2
<1> DEFINE w == Warn(i, c)
<1>3. QueueOK(i, N) /\ i \in QueueType(N)
  BY <1>2 DEF Advance, QueueOK
<1>4. w \in QueueType(N) /\ Same(i, w)
  BY <1>3, WarnWake
<1>5. r = NodeInit(w, a)
  OBVIOUS
<1> HIDE DEF w
<1>6. Alike(i, w)
  BY SMTT(30), <1>3, <1>4 DEF Alike, Same, QueueOK, QueueType
<1>7. QueueOK(w, N) /\ Advance(i, w, N)
  BY <1>3, <1>4, <1>6, SameOK, AdvanceAlike
<1>8. a \notin w.messages
  BY <1>2, <1>4 DEF Same
<1>9. Advance(w, r, N) /\ NodeInitOutcome(w, r, a)
  BY <1>5, <1>7, <1>8, NodeInitOK
<1>10. Advance(q, r, N)
  BY <1>2, <1>3, <1>7, <1>9, AdvanceTransitive
<1>11. /\ r.flush = q.flush /\ r.messages = q.messages \ {a}
       /\ r.group = [q.group EXCEPT ![a] = NULL]
       /\ r.timestamp = [q.timestamp EXCEPT ![a] = 0]
  BY <1>2, <1>4, <1>9 DEF NodeInitOutcome, Same
<1> QED
  BY <1>1, <1>10, <1>11 DEF OnlyNode, QueueType

(* A release notification is queued: the node is tagged with its owner,    *)
(* after it was initialised if it has been used before.                    *)
Releasing(q, a, p, fresh, g, s) ==
  /\ fresh = IF q.group[a] = NULL THEN q ELSE NodeInit(Warn(q, q.group[a] # p), a)
  /\ g = SetGroup(fresh, a, p)
  /\ s = CommitUnstaged(g, a)

(* Only the node of the notification changes: it is tagged with its owner  *)
(* and not left staging.  g is the queue when it is committed.             *)
ReleaseOutcome(q, g, s, N, a, p) ==
  /\ Advance(q, s, N) /\ OnlyNode(q, s, N, a) /\ s.group[a] = p
  /\ Odd(s.timestamp[a]) => s.timestamp[a] = q.timestamp[a]
  /\ QueueOK(g, N) /\ a \notin g.messages
  /\ g.timestamp[a] = IF q.group[a] = NULL THEN q.timestamp[a] ELSE 0

(* bus1_queue_commit_unstaged() of a release notification does that.       *)
LEMMA ReleaseQueue ==
  ASSUME NEW N \in SUBSET (Nat \ {0}), NEW q, QueueOK(q, N),
         NEW a \in N, a \notin q.messages, NEW p \in Nat,
         NEW fresh, NEW g, NEW s, Releasing(q, a, p, fresh, g, s)
  PROVE  ReleaseOutcome(q, g, s, N, a, p)
<1> DEFINE bad == q.group[a] # p
           w == Warn(q, bad)
<1>1. q \in QueueType(N)
  BY DEF QueueOK
<1>2. /\ Advance(q, fresh, N) /\ OnlyNode(q, fresh, N, a)
      /\ a \notin fresh.messages
      /\ fresh.timestamp[a] = IF q.group[a] = NULL THEN q.timestamp[a] ELSE 0
  <2>1. CASE q.group[a] = NULL
    <3>1. Advance(q, q, N) /\ OnlyNode(q, q, N, a)
      BY <1>1, AdvanceReflexive DEF OnlyNode, QueueType
    <3>2. fresh = q
      BY <2>1 DEF Releasing
    <3> QED
      BY <2>1, <3>1, <3>2
  <2>2. CASE q.group[a] # NULL
    <3>1. fresh = NodeInit(w, a) /\ bad \in BOOLEAN
      BY <2>2 DEF Releasing
    <3> HIDE DEF bad
    <3>2. w \in QueueType(N) /\ Same(q, w)
      BY <1>1, <3>1, WarnWake
    <3> HIDE DEF w
    <3>3. Alike(q, w)
      BY SMTT(30), <1>1, <3>2 DEF Alike, Same, QueueOK, QueueType
    <3>4. QueueOK(w, N) /\ Advance(q, w, N) /\ a \notin w.messages
      BY <3>2, <3>3, SameOK, AdvanceAlike DEF Same
    <3>5. Advance(w, fresh, N) /\ NodeInitOutcome(w, fresh, a)
      BY <3>1, <3>4, NodeInitOK
    <3>6. Advance(q, fresh, N)
      BY <3>4, <3>5, AdvanceTransitive
    <3> QED
      BY SMTT(30), <1>1, <2>2, <3>2, <3>5, <3>6 DEF NodeInitOutcome, Same, OnlyNode, QueueType
  <2> QED
    BY <2>1, <2>2
<1>3. QueueOK(fresh, N)
  BY <1>2 DEF Advance
<1>4. Advance(fresh, g, N) /\ SetGroupOutcome(fresh, g, a, p)
  <2>1. g = SetGroup(fresh, a, p) /\ a \notin fresh.messages
    BY <1>2 DEF Releasing
  <2> QED
    BY <1>3, <2>1, SetGroupOK
<1>5. QueueOK(g, N)
  BY <1>4 DEF Advance
<1>6. Advance(g, s, N) /\ LinkOutcome(g, s, a, g.clock + 2)
  <2>1. s = CommitUnstaged(g, a)
    BY DEF Releasing
  <2> QED
    BY <1>5, <2>1, CommitUnstagedOK
<1>7. Advance(q, s, N)
  BY <1>2, <1>3, <1>4, <1>5, <1>6, AdvanceTransitive
<1>8. /\ g.messages = fresh.messages /\ g.timestamp = fresh.timestamp
      /\ g.flush = fresh.flush /\ g.group = [fresh.group EXCEPT ![a] = p]
      /\ g.timestamp \in [N -> Nat] /\ g.clock \in Nat /\ ~Odd(g.clock)
      /\ fresh.group \in [N -> Nat]
  BY <1>3, <1>4, <1>5 DEF SetGroupOutcome, QueueOK, QueueType
<1>9. OnlyNode(q, s, N, a) /\ s.group[a] = p
  <2>1. /\ s.group[a] = p /\ s.flush = fresh.flush
        /\ \A m \in N \ {a} : s.group[m] = fresh.group[m]
    BY <1>6, <1>8 DEF LinkOutcome
  <2>2. \A m \in N \ {a} : /\ m \in s.messages <=> m \in fresh.messages
                           /\ s.timestamp[m] = fresh.timestamp[m]
    BY <1>6, <1>8 DEF LinkOutcome
  <2> QED
    BY <1>2, <2>1, <2>2 DEF OnlyNode
<1>10. Odd(s.timestamp[a]) => s.timestamp[a] = q.timestamp[a]
  <2>1. \/ s.timestamp[a] = g.timestamp[a] \/ s.timestamp[a] = g.clock + 2
    BY <1>6, <1>8 DEF LinkOutcome
  <2>2. ~Odd(g.clock + 2) /\ ~Odd(0)
    BY SMTT(30), <1>8 DEF Odd
  <2>3. fresh.timestamp[a] = q.timestamp[a] \/ fresh.timestamp[a] = 0
    BY <1>2
  <2> QED
    BY <1>8, <2>1, <2>2, <2>3
<1> QED
  BY <1>2, <1>5, <1>7, <1>8, <1>9, <1>10 DEF ReleaseOutcome

(* bus1_tx_join() of the node r, which is not in use, when transaction g   *)
(* was sealed with the timestamp ts: k, l and c are the queue after each   *)
(* call.                                                                   *)
Joining(q, r, g, ts, k, l, c) ==
  /\ k = SetGroup(q, r, g)
  /\ l = Sync(k, ts)
  /\ c = CommitSynthetic(l, r, ts)

(* The queue is ready for bus1_queue_commit_synthetic() of r with ts.      *)
Ready(q, k, l, N, r, ts) ==
  /\ QueueOK(k, N) /\ QueueOK(l, N) /\ ts <= l.clock
  /\ r \notin l.messages /\ l.timestamp[r] = q.timestamp[r]

(* Only r changes.  It is tagged, and if it is linked then with ts.        *)
Joined(q, c, N, r, g, ts) ==
  /\ Advance(q, c, N) /\ OnlyNode(q, c, N, r) /\ c.group[r] = g
  /\ r \in c.messages => c.timestamp[r] = ts
  /\ c.timestamp[r] \in {q.timestamp[r], ts}
  /\ ts <= c.clock

(* That is what a late join does to the queue.                             *)
LEMMA JoinQueue ==
  ASSUME NEW N \in SUBSET (Nat \ {0}), NEW q, QueueOK(q, N), NEW r \in N,
         r \notin q.messages, NEW g \in Nat, NEW ts \in Nat, ~Odd(ts),
         NEW k, NEW l, NEW c, Joining(q, r, g, ts, k, l, c)
  PROVE  Joined(q, c, N, r, g, ts) /\ Ready(q, k, l, N, r, ts)
<1>1. Advance(q, k, N) /\ SetGroupOutcome(q, k, r, g)
  BY SetGroupOK DEF Joining
<1>2. QueueOK(k, N)
  BY <1>1 DEF Advance
<1>3. Advance(k, l, N) /\ Ticked(k, l)
  BY <1>2, SyncOK DEF Joining
<1>4. QueueOK(l, N)
  BY <1>3 DEF Advance
<1>5. Advance(l, c, N) /\ LinkOutcome(l, c, r, ts)
  BY <1>4, CommitSyntheticOK DEF Joining
<1>6. Advance(q, c, N)
  BY <1>1, <1>2, <1>3, <1>4, <1>5, AdvanceTransitive
<1>7. ts <= l.clock /\ ts <= c.clock
  <2>1. ts <= l.clock
    BY SMTT(30), <1>2 DEF Joining, Sync, Warn, Later, QueueOK, QueueType
  <2>2. l.clock <= c.clock /\ l.clock \in Nat /\ c.clock \in Nat
    BY <1>4, <1>5 DEF Advance, QueueOK, QueueType
  <2> QED
    BY SMTT(30), <2>1, <2>2
<1>8. /\ OnlyNode(q, l, N, r) /\ l.group[r] = g
      /\ l.messages = q.messages /\ l.timestamp = q.timestamp
      /\ l.timestamp \in [N -> Nat]
  BY SMTT(30), <1>1, <1>3, <1>4
     DEF SetGroupOutcome, Ticked, OnlyNode, QueueOK, QueueType
<1>9. /\ OnlyNode(q, c, N, r) /\ c.group[r] = g
      /\ r \in c.messages => c.timestamp[r] = ts
      /\ c.timestamp[r] \in {q.timestamp[r], ts}
  <2>1. \/ c.messages = l.messages /\ c.timestamp = l.timestamp
        \/ /\ c.messages = l.messages \cup {r}
           /\ c.timestamp[r] = ts
           /\ \A m \in N \ {r} : c.timestamp[m] = l.timestamp[m]
    BY <1>5, <1>8 DEF LinkOutcome
  <2>2. c.group = l.group /\ c.flush = l.flush
    BY <1>5 DEF LinkOutcome
  <2>3. \A m \in N \ {r} : /\ m \in c.messages <=> m \in l.messages
                           /\ c.timestamp[m] = l.timestamp[m]
    BY <2>1
  <2>4. /\ r \in c.messages => c.timestamp[r] = ts
        /\ c.timestamp[r] \in {q.timestamp[r], ts}
    BY <1>8, <2>1
  <2>5. OnlyNode(q, l, N, r) /\ l.group[r] = g
    BY <1>8
  <2>6. ASSUME NEW m \in N \ {r}
        PROVE  /\ m \in c.messages <=> m \in q.messages
               /\ c.timestamp[m] = q.timestamp[m]
               /\ c.group[m] = q.group[m]
    BY <2>2, <2>3, <2>5 DEF OnlyNode
  <2>7. OnlyNode(q, c, N, r)
    BY <2>2, <2>5, <2>6 DEF OnlyNode
  <2> QED
    BY <2>2, <2>4, <2>5, <2>7
<1> QED
  BY <1>2, <1>4, <1>6, <1>7, <1>8, <1>9 DEF Joined, Ready

(* At most the clock and the tag of r differ.                              *)
Retagged(q, l, r, g) ==
  /\ l.messages = q.messages /\ l.timestamp = q.timestamp
  /\ l.group = [q.group EXCEPT ![r] = g]

(* That is what was changed before the commit.                             *)
LEMMA JoinQueueBefore ==
  ASSUME NEW N, NEW q \in QueueType(N), NEW r \in N, NEW g \in Nat,
         NEW ts \in Nat, NEW k \in QueueType(N), NEW l, NEW c,
         Joining(q, r, g, ts, k, l, c)
  PROVE  Retagged(q, l, r, g)
<1>1. /\ k.messages = q.messages /\ k.timestamp = q.timestamp
      /\ k.group = [q.group EXCEPT ![r] = g]
  BY DEF Joining, SetGroup, QueueType
<1>2. l.messages = k.messages /\ l.timestamp = k.timestamp /\ l.group = k.group
  BY DEF Joining, Sync, Warn, QueueType
<1> QED
  BY <1>1, <1>2 DEF Retagged

(* The joining node becomes the front only ahead of one of the same tag.   *)
LEMMA JoinQueueFront ==
  ASSUME NEW N \in SUBSET (Nat \ {0}), NEW q, QueueOK(q, N), NEW r \in N,
         r \notin q.messages, NEW g \in Nat, NEW ts \in Nat, ~Odd(ts),
         NEW k, NEW l, NEW c, Joining(q, r, g, ts, k, l, c), IsFront(c, r)
  PROVE  HasTag(q, g)
<1>1. Ready(q, k, l, N, r, ts)
  BY JoinQueue
<1>2. QueueOK(k, N) /\ QueueOK(l, N) /\ r \notin l.messages
  BY <1>1 DEF Ready
<1>3. Overtakes(l, c, r, ts)
  BY DEF Overtakes, Joining
<1>4. HasTag(l, l.group[r])
  BY <1>2, <1>3, SyntheticFront
<1>5. q \in QueueType(N) /\ k \in QueueType(N)
  BY <1>2 DEF QueueOK
<1>6. Retagged(q, l, r, g)
  BY <1>5, JoinQueueBefore
<1>7. q.group \in [N -> Nat] /\ q.messages \subseteq N
  BY <1>5 DEF QueueType
<1> QED
  BY <1>4, <1>6, <1>7 DEF HasTag, Retagged

(* An entry is linked that is ordered before the key or has its tag.       *)
Behind(q, t, g) ==
  \E m \in q.messages :
    KeyBefore(q.timestamp[m], q.group[m], t, g) \/ q.group[m] = g

(* The joining node is linked only behind such an entry.                   *)
LEMMA JoinQueueLinked ==
  ASSUME NEW N \in SUBSET (Nat \ {0}), NEW q, QueueOK(q, N), NEW r \in N,
         r \notin q.messages, NEW g \in Nat, NEW ts \in Nat, ~Odd(ts),
         NEW k, NEW l, NEW c, Joining(q, r, g, ts, k, l, c), r \in c.messages
  PROVE  Behind(q, ts, g)
<1>1. Ready(q, k, l, N, r, ts)
  BY JoinQueue
<1>2. QueueOK(k, N) /\ QueueOK(l, N) /\ r \notin l.messages
  BY <1>1 DEF Ready
<1>3. r \in CommitSynthetic(l, r, ts).messages
  BY DEF Joining
<1>4. JoinsBehind(l, r, ts) /\ l.leftmost \in l.messages
  BY <1>2, <1>3, SyntheticLinked
<1>5. q \in QueueType(N) /\ k \in QueueType(N)
  BY <1>2 DEF QueueOK
<1>6. Retagged(q, l, r, g)
  BY <1>5, JoinQueueBefore
<1>7. q.group \in [N -> Nat] /\ q.messages \subseteq N
  BY <1>5 DEF QueueType
<1>8. PICK m \in l.messages :
        \/ KeyBefore(l.timestamp[m], l.group[m], ts, l.group[r])
        \/ l.group[m] = l.group[r]
  BY <1>4 DEF JoinsBehind
<1>9. m \in q.messages /\ m # r /\ l.group[m] = q.group[m] /\ l.group[r] = g
  BY <1>2, <1>6, <1>7 DEF Retagged
<1> QED
  BY <1>6, <1>8, <1>9 DEF Behind, Retagged

(* bus1_tx_stage() of a node that is not in use, while the transaction is  *)
(* not sealed                                                              *)
LEMMA TxStageSteady ==
  ASSUME NEW N \in SUBSET (Nat \ {0}), NEW q, QueueOK(q, N), NEW n \in N,
         n \notin q.messages, q.timestamp[n] = 0, NEW t \in TxId, ~Sealed(t),
         q.group[n] \in {NULL, t}, NEW ts \in Nat, ~Odd(ts)
  PROVE  Steady(q, TxStage(q, t, n, ts))
<1> DEFINE g == SetGroup(q, n, t)
           c == Sealed(t) \/ q.group[n] \notin {NULL, t}
           w == Warn(g, c)
           r == Stage(w, n, ts)
<1>1. r = TxStage(q, t, n, ts)
  BY DEF TxStage
<1>2. t \in Nat /\ q \in QueueType(N)
  BY TransactionAssumption DEF QueueOK
<1>3. Advance(q, g, N) /\ SetGroupOutcome(q, g, n, t)
  <2>1. g = SetGroup(q, n, t)
    OBVIOUS
  <2> HIDE DEF g
  <2> QED BY <1>2, <2>1, SetGroupOK
<1>4. Steady(q, g)
  BY <1>2, SetGroupQuiet DEF Steady
<1>5. c \in BOOLEAN /\ ~c
  BY DEF Sealed
<1> HIDE DEF g, c
<1>6. QueueOK(g, N) /\ n \notin g.messages /\ g.timestamp[n] = 0
  BY <1>3 DEF Advance, SetGroupOutcome
<1>7. Steady(g, w) /\ QueueOK(w, N) /\ Same(g, w)
  BY <1>5, <1>6, SteadyWarn
<1> HIDE DEF w
<1>8. n \notin w.messages /\ w.timestamp[n] = 0
  BY <1>6, <1>7 DEF Same
<1>9. Steady(w, r)
  BY <1>7, <1>8, StageQuiet DEF Steady
<1> HIDE DEF r
<1> QED
  BY <1>1, <1>4, <1>7, <1>9, SteadyTransitive

(* The queue of the owner when an anchor is destroyed                      *)
LEMMA RenewSteady ==
  ASSUME NEW N \in SUBSET (Nat \ {0}), NEW q, QueueOK(q, N), NEW a \in N,
         NEW t \in TxId, ~Sealed(t), NEW ts \in Nat, ~Odd(ts),
         NEW c \in BOOLEAN, ~c,
         NEW i, Steady(q, i), QueueOK(i, N), a \notin i.messages
  PROVE  Steady(q, TxStage(NodeInit(Warn(i, c), a), t, a, ts))
<1> DEFINE w == Warn(i, c)
           r == NodeInit(w, a)
           s == TxStage(r, t, a, ts)
<1>1. Steady(i, w) /\ QueueOK(w, N) /\ Same(i, w)
  BY SteadyWarn
<1> HIDE DEF w
<1>2. a \notin w.messages
  BY <1>1 DEF Same
<1>3. Steady(w, r)
  BY <1>1, <1>2, NodeInitQuiet DEF Steady
<1>4. Advance(w, r, N) /\ NodeInitOutcome(w, r, a)
  <2>1. QueueOK(w, N) /\ a \notin w.messages /\ r = NodeInit(w, a)
    BY <1>1, <1>2
  <2> HIDE DEF r
  <2> QED BY <2>1, NodeInitOK
<1>5. w \in QueueType(N)
  BY <1>1 DEF QueueOK
<1> HIDE DEF r
<1>6. QueueOK(r, N) /\ a \notin r.messages /\ r.timestamp[a] = 0 /\ r.group[a] = NULL
  BY <1>2, <1>4, <1>5 DEF Advance, NodeInitOutcome, QueueType
<1>7. Steady(r, s)
  BY <1>6, TxStageSteady
<1> HIDE DEF s
<1>8. Steady(q, w) /\ Steady(w, s)
  BY <1>1, <1>3, <1>7, SteadyTransitive
<1> QED
  BY <1>8, SteadyTransitive DEF s, r, w

(* A release notification that is still queued is unlinked first.          *)
LEMMA WithdrawSteady ==
  ASSUME NEW N \in SUBSET (Nat \ {0}), NEW q, QueueOK(q, N), NEW a \in N
  PROVE  LET i == IF IsQueued(q, a) THEN Remove(q, a) ELSE q
         IN  Steady(q, i) /\ QueueOK(i, N) /\ a \notin i.messages
<1> DEFINE i == IF IsQueued(q, a) THEN Remove(q, a) ELSE q
<1>1. CASE a \in q.messages
  <2>1. i = Remove(q, a)
    BY <1>1 DEF IsQueued
  <2>2. Advance(q, i, N) /\ RemoveOutcome(q, i, a)
    BY <2>1, RemoveOK
  <2>3. Steady(q, i)
    BY <1>1, <2>1, RemoveQuiet DEF Steady
  <2> HIDE DEF i
  <2>4. QueueOK(i, N) /\ a \notin i.messages
    BY <2>2 DEF Advance, RemoveOutcome
  <2> QED
    BY <2>3, <2>4 DEF i
<1>2. CASE a \notin q.messages
  BY <1>2, SteadyReflexive DEF IsQueued
<1> QED
  BY <1>1, <1>2

(* bus1_queue_commit_unstaged() of a release notification                  *)
LEMMA NotifySteady ==
  ASSUME NEW N \in SUBSET (Nat \ {0}), NEW q, QueueOK(q, N), NEW a \in N,
         a \notin q.messages, NEW p \in Nat,
         q.group[a] \in {NULL, p}, q.group[a] = NULL => q.timestamp[a] = 0,
         NEW fresh, NEW g, NEW s, Releasing(q, a, p, fresh, g, s)
  PROVE  Steady(q, s)
<1> DEFINE c == q.group[a] # p
           w == Warn(q, c)
<1>1. QueueOK(g, N) /\ a \notin g.messages /\ g.timestamp[a] = 0
  <2>1. ReleaseOutcome(q, g, s, N, a, p)
    BY ReleaseQueue
  <2> QED
    BY <2>1 DEF ReleaseOutcome
<1>2. Steady(q, fresh) /\ fresh \in QueueType(N)
  <2>1. CASE q.group[a] = NULL
    <3>1. fresh = q
      BY <2>1 DEF Releasing
    <3> QED
      BY <3>1, SteadyReflexive DEF QueueOK
  <2>2. CASE q.group[a] # NULL
    <3>1. fresh = NodeInit(w, a)
      BY <2>2 DEF Releasing
    <3>2. c \in BOOLEAN /\ ~c
      BY <2>2
    <3> HIDE DEF c
    <3>3. Steady(q, w) /\ QueueOK(w, N) /\ Same(q, w)
      BY <3>2, SteadyWarn
    <3> HIDE DEF w
    <3>4. a \notin w.messages
      BY <3>3 DEF Same
    <3>5. Steady(w, NodeInit(w, a))
      BY <3>3, <3>4, NodeInitQuiet DEF Steady
    <3>6. Advance(w, fresh, N)
      BY <3>1, <3>3, <3>4, NodeInitOK
    <3> QED
      BY <3>1, <3>3, <3>5, <3>6, SteadyTransitive DEF Advance, QueueOK
  <2> QED
    BY <2>1, <2>2
<1>3. g = SetGroup(fresh, a, p) /\ s = CommitUnstaged(g, a)
  BY DEF Releasing
<1>4. Steady(fresh, g)
  BY <1>2, <1>3, SetGroupQuiet DEF Steady
<1>5. Steady(g, s)
  BY <1>1, <1>3, CommitUnstagedQuiet DEF Steady
<1> QED
  BY <1>2, <1>4, <1>5, SteadyTransitive

(* The queue of a handle that joins late                                   *)
LEMMA LateSteady ==
  ASSUME NEW N \in SUBSET (Nat \ {0}), NEW q, q \in QueueType(N), NEW r \in N,
         NEW g \in Nat, NEW ts \in Nat, ~Odd(ts), ts # 0,
         NEW k, NEW l, NEW c, Joining(q, r, g, ts, k, l, c),
         QueueOK(k, N), QueueOK(l, N), ts <= l.clock,
         r \notin l.messages, l.timestamp[r] = 0
  PROVE  /\ Right(q) => Right(c)
         /\ c.front # r => Quiet(q, c)
<1>1. k = SetGroup(q, r, g) /\ l = Sync(k, ts) /\ c = CommitSynthetic(l, r, ts)
  BY DEF Joining
<1>2. k \in QueueType(N)
  BY DEF QueueOK
<1>3. Steady(q, k) /\ Steady(k, l)
  BY <1>1, <1>2, SetGroupQuiet, SyncQuiet DEF Steady
<1>4. Steady(q, l)
  BY <1>3, SteadyTransitive
<1>5. (c.front # r => Quiet(l, c)) /\ (Right(l) => Right(c))
  BY <1>1, CommitSyntheticQuiet
<1> QED
  BY <1>4, <1>5 DEF Steady, Quiet

(* What ListsOK says of one transaction.                                   *)
LEMMA ListsOf ==
  ASSUME IInv, NEW u \in TxId
  PROVE  /\ tx[u] \in TxType /\ Sends[u] \subseteq Data
         /\ ~Odd(tx[u].timestamp) /\ ~Odd(tx[u].async_ts)
         /\ tx[u].todo \cap Anchor \cap destroyed = {}
         /\ \A m \in tx[u].sync \cup tx[u].async :
              /\ Group(m) = u /\ Stamp(m) # 0
              /\ m \in Anchor => m \in destroyed
         /\ \A r \in tx[u].postponed :
              /\ r \in Remote /\ Untouched(r)
              /\ r \in attached /\ NodeOf[r] \in destroyed
<1>1. /\ tx[u] \in TxType /\ Sends[u] \subseteq Data
      /\ \A r \in tx[u].postponed : r \in Remote
  BY TransactionAssumption DEF IInv, TypeOK, TxType
<1> QED
  BY <1>1 DEF IInv, ListsOK

(* Nodes that are not in use are on no list of a transaction.              *)
LEMMA UntouchedUnlisted ==
  ASSUME IInv, NEW n, Untouched(n)
  PROVE  \A u \in TxId : n \notin tx[u].sync \cup tx[u].async
BY DEF IInv, ListsOK, Untouched

(* Where a linked entry has the key of the front, bus1_queue_peek()        *)
(* reports that more follows.                                              *)
LEMMA MoreFollows ==
  ASSUME NEW N \in SUBSET (Nat \ {0}), NEW q, QueueOK(q, N), q.front # NULL,
         NEW m \in q.messages \ {q.front},
         q.timestamp[m] = q.timestamp[q.front], q.group[m] = q.group[q.front]
  PROVE  More(q)
<1> DEFINE f == q.front
           S == {k \in q.messages : Before(q, f, k)}
           next == First(q, S)
<1>1. f = q.leftmost /\ f \in q.messages
  BY DEF QueueOK
<1>2. q.messages \in SUBSET N
      /\ q.timestamp \in [N -> Nat] /\ q.group \in [N -> Nat]
  BY DEF QueueOK, QueueType
<1>3. m \in S /\ S \in SUBSET N
  BY <1>1, <1>2 DEF QueueOK
<1>4. next \in S /\ (next # m => Before(q, next, m))
  <2> HIDE DEF S
  <2> QED BY <1>2, <1>3, FirstIsLeast
<1>5. next = Following(q, f)
  BY DEF Following
<1>6. Before(q, f, next) /\ next \in N /\ f \in N /\ m \in N
  BY <1>1, <1>2, <1>4
<1> HIDE DEF next, S, f
<1>7. q.timestamp[m] = q.timestamp[f] /\ q.group[m] = q.group[f]
  BY DEF f
<1>8. q.timestamp[next] = q.timestamp[f] /\ q.group[next] = q.group[f]
  <2>1. /\ q.timestamp[next] \in Nat /\ q.timestamp[f] \in Nat
        /\ q.group[next] \in Nat /\ q.group[f] \in Nat
    BY <1>2, <1>6
  <2>2. \/ KeyBefore(q.timestamp[f], q.group[f], q.timestamp[next], q.group[next])
        \/ q.timestamp[f] = q.timestamp[next] /\ q.group[f] = q.group[next]
    BY <1>6 DEF Before
  <2>3. \/ KeyBefore(q.timestamp[next], q.group[next], q.timestamp[f], q.group[f])
        \/ q.timestamp[f] = q.timestamp[next] /\ q.group[f] = q.group[next]
    BY <1>4, <1>7 DEF Before
  <2> QED
    BY SMTT(30), <2>1, <2>2, <2>3 DEF KeyBefore
<1>9. next # NULL
  BY <1>6 DEF NULL
<1> QED
  BY <1>5, <1>8, <1>9 DEF More, f
=============================================================================
