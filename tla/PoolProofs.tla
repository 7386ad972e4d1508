---------------------------- MODULE PoolProofs ----------------------------
(* Proofs about the receive pool, for any number of messages, any payload    *)
(* lengths and any pool size: the slices always tile the pool, reference     *)
(* counts are exact, no WARN_ON fires and a flush leaves nothing published.  *)
EXTENDS Pool, Sums, SequenceTheorems

USE ZenonT(30)

---------------------------------------------------------------------------
(* The list *)

\* r is s with e put in front of its entry i.
Inserted(s, r, i, e) ==
  /\ Len(r) = Len(s) + 1
  /\ \A j \in 1 .. Len(s) + 1 :
       r[j] = IF j < i THEN s[j] ELSE IF j = i THEN e ELSE s[j - 1]

\* r is s without its entry i.
Removed(s, r, i) ==
  /\ Len(r) = Len(s) - 1
  /\ \A j \in 1 .. Len(s) - 1 : r[j] = IF j < i THEN s[j] ELSE s[j + 1]

(* list_add() behind an entry shifts the entries after it.                   *)
LEMMA InsertList ==
  ASSUME NEW S, NEW s \in Seq(S), NEW i \in 1 .. Len(s) + 1, NEW e \in S
  PROVE  InsertAt(s, i, e) \in Seq(S) /\ Inserted(s, InsertAt(s, i, e), i, e)
<1> DEFINE a == SubSeq(s, 1, i - 1)
           b == SubSeq(s, i, Len(s))
           c == a \o <<e>>
           d == c \o b
<1>1. Len(s) \in Nat /\ i \in Nat
  BY SMTT(30)
<1>2. /\ a \in Seq(S) /\ Len(a) = i - 1
      /\ \A j \in 1 .. i - 1 : a[j] = s[j]
  <2>1. \A j \in 1 .. i - 1 : j \in 1 .. Len(s)
    BY SMTT(30), <1>1
  <2> QED
    BY SMTT(30), <1>1, <2>1
<1>3. /\ b \in Seq(S) /\ Len(b) = Len(s) - i + 1
      /\ \A j \in 1 .. Len(s) - i + 1 : b[j] = s[i + j - 1]
  BY SMTT(30), <1>1
<1> HIDE DEF a, b
<1>4. /\ c \in Seq(S) /\ Len(c) = i
      /\ \A j \in 1 .. i : c[j] = IF j < i THEN s[j] ELSE e
  BY SMTT(30), <1>1, <1>2
<1> HIDE DEF c
<1>5. /\ d \in Seq(S) /\ Len(d) = Len(s) + 1
      /\ \A j \in 1 .. Len(s) + 1 : d[j] = IF j <= i THEN c[j] ELSE b[j - i]
  <2>1. Len(c) + Len(b) = Len(s) + 1
    BY SMTT(30), <1>1, <1>3, <1>4
  <2>2. /\ d \in Seq(S) /\ Len(d) = Len(c) + Len(b)
        /\ \A j \in 1 .. Len(c) + Len(b) :
             d[j] = IF j <= Len(c) THEN c[j] ELSE b[j - Len(c)]
    BY <1>3, <1>4, ConcatProperties
  <2> HIDE DEF d
  <2> QED
    BY <1>4, <2>1, <2>2
<1>6. InsertAt(s, i, e) = d
  BY DEF InsertAt, a, b, c
<1> HIDE DEF d
<1>7. ASSUME NEW j \in 1 .. Len(s) + 1
      PROVE  d[j] = IF j < i THEN s[j] ELSE IF j = i THEN e ELSE s[j - 1]
  <2>1. CASE j <= i
    BY SMTT(30), <1>1, <1>4, <1>5, <2>1
  <2>2. CASE j > i
    <3>1. j - i \in 1 .. Len(s) - i + 1 /\ i + (j - i) - 1 = j - 1
      BY SMTT(30), <1>1, <2>2
    <3>2. d[j] = b[j - i] /\ ~(j < i) /\ j # i
      BY SMTT(30), <1>1, <1>5, <2>2
    <3> QED
      BY <1>3, <3>1, <3>2
  <2> QED
    BY SMTT(30), <2>1, <2>2, <1>1
<1> QED
  BY <1>5, <1>6, <1>7 DEF Inserted

(* list_del() closes the gap.                                                *)
LEMMA RemoveList ==
  ASSUME NEW S, NEW s \in Seq(S), NEW i \in 1 .. Len(s)
  PROVE  RemoveAt(s, i) \in Seq(S) /\ Removed(s, RemoveAt(s, i), i)
<1> DEFINE a == SubSeq(s, 1, i - 1)
           b == SubSeq(s, i + 1, Len(s))
           c == a \o b
<1>1. Len(s) \in Nat /\ i \in Nat
  BY SMTT(30)
<1>2. /\ a \in Seq(S) /\ Len(a) = i - 1
      /\ \A j \in 1 .. i - 1 : a[j] = s[j]
  <2>1. \A j \in 1 .. i - 1 : j \in 1 .. Len(s)
    BY SMTT(30), <1>1
  <2> QED
    BY SMTT(30), <1>1, <2>1
<1>3. /\ b \in Seq(S) /\ Len(b) = Len(s) - i
      /\ \A j \in 1 .. Len(s) - i : b[j] = s[i + j]
  BY SMTT(30), <1>1
<1> HIDE DEF a, b
<1>5. /\ c \in Seq(S) /\ Len(c) = Len(s) - 1
      /\ \A j \in 1 .. Len(s) - 1 : c[j] = IF j < i THEN a[j] ELSE b[j - i + 1]
  <2>1. Len(a) + Len(b) = Len(s) - 1
    BY SMTT(30), <1>1, <1>2, <1>3
  <2>2. /\ c \in Seq(S) /\ Len(c) = Len(s) - 1
        /\ \A j \in 1 .. Len(s) - 1 : c[j] = IF j <= i - 1 THEN a[j] ELSE b[j - (i - 1)]
    <3>1. /\ c \in Seq(S) /\ Len(c) = Len(a) + Len(b)
          /\ \A j \in 1 .. Len(a) + Len(b) :
               c[j] = IF j <= Len(a) THEN a[j] ELSE b[j - Len(a)]
      BY <1>2, <1>3, ConcatProperties
    <3> HIDE DEF c
    <3> QED
      BY <1>2, <2>1, <3>1
  <2> HIDE DEF c
  <2>3. \A j \in 1 .. Len(s) - 1 : (j <= i - 1 <=> j < i) /\ j - (i - 1) = j - i + 1
    BY SMTT(30), <1>1
  <2> QED
    BY <2>2, <2>3
<1>6. RemoveAt(s, i) = c
  BY DEF RemoveAt, a, b
<1> HIDE DEF c
<1>7. ASSUME NEW j \in 1 .. Len(s) - 1
      PROVE  c[j] = IF j < i THEN s[j] ELSE s[j + 1]
  <2>1. CASE j < i
    BY SMTT(30), <1>1, <1>2, <1>5, <2>1
  <2>2. CASE j >= i
    <3>1. j - i + 1 \in 1 .. Len(s) - i /\ i + (j - i + 1) = j + 1
      BY SMTT(30), <1>1, <2>2
    <3> QED
      BY SMTT(30), <1>1, <1>3, <1>5, <2>2, <3>1
  <2> QED
    BY SMTT(30), <1>1, <2>1, <2>2
<1> QED
  BY <1>5, <1>6, <1>7 DEF Removed
---------------------------------------------------------------------------
(* The layout *)

Fields == [offset : Nat, size : Nat, free : Nat]

\* Where the free space behind x ends.
EndOf(x) == x.offset + x.size + x.free

\* x starts where the free space of w ends, aligned, and is not empty.
Follows(w, x) ==
  /\ x.offset = EndOf(w) /\ x.offset % 8 = 0
  /\ x.size % 8 = 0 /\ x.size > 0

\* What SlicesTile says of the list s whose slices are a.
Layout(s, a) ==
  /\ s[1] = root_slice /\ a[root_slice].offset = 0 /\ a[root_slice].size = 0
  /\ \A i \in 2 .. Len(s) : Follows(a[s[i - 1]], a[s[i]])
  /\ EndOf(a[s[Len(s)]]) = SLICE_SIZE_MAX

\* A list of slices without duplicates.
Listed(s) ==
  /\ s \in Seq(Slice) /\ Len(s) > 0
  /\ \A i, j \in 1 .. Len(s) : s[i] = s[j] => i = j

\* SlicesTile in these terms
LEMMA TileParts ==
  ASSUME TypeOK
  PROVE  SlicesTile <=>
           /\ Layout(slices, at)
           /\ ToSet(slices) = allocated \cup {root_slice}
           /\ slices_offset = allocated
           /\ slices_free = {s \in ToSet(slices) : at[s].free > 0}
           /\ allocated_size = SumFunctionOnSet([m \in Message |-> at[m].size], allocated)
BY DEF SlicesTile, Layout, Follows, EndOf

(* The end of a slice without its free space is aligned, too.                *)
LEMMA Aligned ==
  ASSUME NEW s, Listed(s), NEW a \in [Slice -> Fields], Layout(s, a),
         NEW k \in 1 .. Len(s)
  PROVE  (a[s[k]].offset + a[s[k]].size) % 8 = 0
<1>1. s[k] \in Slice
  BY SMTT(30) DEF Listed
<1>2. a[s[k]].offset \in Nat /\ a[s[k]].size \in Nat
  BY <1>1 DEF Fields
<1>3. a[s[k]].offset % 8 = 0 /\ a[s[k]].size % 8 = 0
  <2>1. CASE k = 1
    BY SMTT(30), <2>1 DEF Layout
  <2>2. CASE k # 1
    <3>1. k \in 2 .. Len(s)
      BY SMTT(30), <2>2 DEF Listed
    <3> QED
      BY <3>1 DEF Layout, Follows
  <2> QED
    BY <2>1, <2>2
<1> QED
  BY SMTT(30), <1>2, <1>3

(* What bus1_pool_slice_link() does to the slices.                           *)
Linked(a, b, m, ps, z) ==
  b = [a EXCEPT ![m] = [offset |-> a[ps].offset + a[ps].size, size |-> z,
                        free |-> a[ps].free - z],
                ![ps].free = 0]

\* The fields of the slices around a new one
LEMMA LinkedFields ==
  ASSUME NEW a \in [Slice -> Fields], NEW m \in Slice, NEW ps \in Slice, m # ps,
         NEW z \in Nat, z <= a[ps].free, NEW b, Linked(a, b, m, ps, z)
  PROVE  /\ b \in [Slice -> Fields]
         /\ b[m].offset = a[ps].offset + a[ps].size /\ b[m].size = z
         /\ b[m].free = a[ps].free - z
         /\ b[ps].offset = a[ps].offset /\ b[ps].size = a[ps].size /\ b[ps].free = 0
         /\ \A x \in Slice \ {m, ps} : b[x] = a[x]
<1>1. a[ps] \in Fields /\ a[ps].offset \in Nat /\ a[ps].size \in Nat /\ a[ps].free \in Nat
  BY DEF Fields
<1>2. /\ a[ps].offset + a[ps].size \in Nat /\ a[ps].free - z \in Nat
  BY SMTT(30), <1>1
<1> QED
  BY <1>1, <1>2 DEF Linked, Fields

\* bus1_pool_alloc() of m with z bytes behind entry k of the list
Linking(s, a, r, b, k, m, z) ==
  /\ Listed(s) /\ a \in [Slice -> Fields] /\ Layout(s, a)
  /\ k \in 1 .. Len(s) /\ m \in Slice /\ \A i \in 1 .. Len(s) : s[i] # m
  /\ z \in Nat /\ z > 0 /\ z % 8 = 0 /\ z <= a[s[k]].free
  /\ Linked(a, b, m, s[k], z)
  /\ r \in Seq(Slice) /\ Inserted(s, r, k + 1, m)

(* It keeps the layout: the new slice takes the front of the free space of   *)
(* entry k, and what followed entry k follows the new slice.                 *)
LEMMA LayoutInsert ==
  ASSUME NEW s, NEW a, NEW r, NEW b, NEW k, NEW m, NEW z,
         Linking(s, a, r, b, k, m, z)
  PROVE  Listed(r) /\ Layout(r, b)
<1>a. Listed(s) /\ s \in Seq(Slice) /\ a \in [Slice -> Fields] /\ Layout(s, a)
  BY DEF Linking, Listed
<1>b. k \in 1 .. Len(s) /\ m \in Slice /\ \A i \in 1 .. Len(s) : s[i] # m
  BY DEF Linking
<1>c. /\ z \in Nat /\ z > 0 /\ z % 8 = 0 /\ z <= a[s[k]].free
      /\ Linked(a, b, m, s[k], z)
  BY DEF Linking
<1>d. r \in Seq(Slice) /\ Inserted(s, r, k + 1, m)
  BY DEF Linking
<1>1. /\ Len(s) \in Nat /\ k \in Nat /\ 1 <= k /\ k <= Len(s) /\ Len(r) = Len(s) + 1
      /\ \A i \in 1 .. Len(s) : s[i] \in Slice
  BY SMTT(30), <1>a, <1>b, <1>d DEF Inserted
<1>2. /\ \A i \in 1 .. k : r[i] = s[i]
      /\ r[k + 1] = m
      /\ \A i \in k + 2 .. Len(r) : r[i] = s[i - 1] /\ i - 1 \in k + 1 .. Len(s)
  BY SMTT(30), <1>1, <1>d DEF Inserted
<1>3. s[k] \in Slice /\ m # s[k]
  BY <1>1, <1>b
<1>4. /\ b \in [Slice -> Fields]
      /\ b[m].offset = a[s[k]].offset + a[s[k]].size /\ b[m].size = z
      /\ b[m].free = a[s[k]].free - z
      /\ b[s[k]].offset = a[s[k]].offset /\ b[s[k]].size = a[s[k]].size
      /\ b[s[k]].free = 0
      /\ \A x \in Slice \ {m, s[k]} : b[x] = a[x]
  BY SMTT(30), <1>3, <1>a, <1>b, <1>c, LinkedFields
<1>5. \A i \in 1 .. Len(s) : i # k => b[s[i]] = a[s[i]]
  BY <1>1, <1>4, <1>a, <1>b DEF Listed
<1>6. /\ a[s[k]].offset \in Nat /\ a[s[k]].size \in Nat /\ a[s[k]].free \in Nat
      /\ EndOf(b[m]) = EndOf(a[s[k]]) /\ EndOf(b[s[k]]) = b[m].offset
  <2>1. a[s[k]] \in Fields
    BY <1>3, <1>a
  <2>2. /\ a[s[k]].offset \in Nat /\ a[s[k]].size \in Nat /\ a[s[k]].free \in Nat
    BY <2>1 DEF Fields
  <2> QED
    BY SMTT(30), <1>4, <1>c, <2>2 DEF EndOf
<1>7. Listed(r)
  <2> SUFFICES ASSUME NEW i \in 1 .. Len(r), NEW j \in 1 .. Len(r), r[i] = r[j]
               PROVE  i = j
    BY SMTT(30), <1>1, <1>d DEF Listed
  <2>1. CASE i = k + 1 \/ j = k + 1
    <3>1. ASSUME NEW h \in 1 .. Len(r), h # k + 1
          PROVE  r[h] # m
      <4>1. CASE h <= k
        BY SMTT(30), <1>1, <1>2, <1>b, <4>1
      <4>2. CASE h > k
        <5>1. h \in k + 2 .. Len(r) /\ h - 1 \in 1 .. Len(s)
          BY SMTT(30), <1>1, <3>1, <4>2
        <5> QED
          BY <1>2, <1>b, <5>1
      <4> QED
        BY SMTT(30), <1>1, <4>1, <4>2
    <3> QED
      BY <1>2, <2>1, <3>1
  <2>2. CASE i # k + 1 /\ j # k + 1
    <3> DEFINE Old(h) == IF h <= k THEN h ELSE h - 1
    <3>1. ASSUME NEW h \in 1 .. Len(r), h # k + 1
          PROVE  Old(h) \in 1 .. Len(s) /\ r[h] = s[Old(h)]
      <4>1. CASE h <= k
        BY SMTT(30), <1>1, <1>2, <4>1
      <4>2. CASE h > k
        BY SMTT(30), <1>1, <1>2, <3>1, <4>2
      <4> QED
        BY SMTT(30), <1>1, <4>1, <4>2
    <3> HIDE DEF Old
    <3>2. Old(i) = Old(j)
      BY <1>a, <2>2, <3>1 DEF Listed
    <3> QED
      BY SMTT(30), <1>1, <2>2, <3>2 DEF Old
  <2> QED
    BY <2>1, <2>2
<1>8. ASSUME NEW i \in 2 .. Len(r)
      PROVE  Follows(b[r[i - 1]], b[r[i]])
  <2>1. CASE i <= k
    <3>1. i \in 2 .. Len(s) /\ r[i] = s[i] /\ r[i - 1] = s[i - 1] /\ i - 1 # k
      <4>1. /\ i \in 2 .. Len(s) /\ i - 1 # k
            /\ i \in 1 .. k /\ i - 1 \in 1 .. k
        BY SMTT(30), <1>1, <2>1
      <4> QED
        BY <1>2, <4>1
    <3>2. /\ b[r[i - 1]] = a[s[i - 1]]
          /\ b[r[i]].offset = a[s[i]].offset /\ b[r[i]].size = a[s[i]].size
      BY SMTT(30), <1>1, <1>4, <1>5, <3>1
    <3>3. Follows(a[s[i - 1]], a[s[i]])
      BY <1>a, <3>1 DEF Layout
    <3> QED
      BY <3>2, <3>3 DEF Follows, EndOf
  <2>2. CASE i = k + 1
    <3>1. r[i] = m /\ r[i - 1] = s[k]
      BY SMTT(30), <1>1, <1>2, <2>2
    <3>2. b[m].offset % 8 = 0
      BY SMTT(30), <1>4, <1>a, <1>b, Aligned
    <3> QED
      BY <1>4, <1>6, <1>c, <3>1, <3>2 DEF Follows
  <2>3. CASE i = k + 2
    <3>1. r[i] = s[k + 1] /\ r[i - 1] = m /\ k + 1 \in 2 .. Len(s) /\ k + 1 # k
      BY SMTT(30), <1>1, <1>2, <2>3
    <3>2. b[s[k + 1]] = a[s[k + 1]]
      BY SMTT(30), <1>1, <1>5, <3>1
    <3>3. Follows(a[s[k]], a[s[k + 1]])
      BY SMTT(30), <1>1, <1>a, <3>1 DEF Layout
    <3> QED
      BY <1>6, <3>1, <3>2, <3>3 DEF Follows
  <2>4. CASE i > k + 2
    <3>1. /\ r[i] = s[i - 1] /\ r[i - 1] = s[i - 2] /\ i - 1 \in 2 .. Len(s)
          /\ i - 1 # k /\ i - 2 # k /\ i - 2 \in 1 .. Len(s) /\ (i - 1) - 1 = i - 2
      <4>1. /\ i \in k + 2 .. Len(r) /\ i - 1 \in k + 2 .. Len(r) /\ (i - 1) - 1 = i - 2
            /\ i - 1 \in 2 .. Len(s) /\ i - 1 # k /\ i - 2 # k /\ i - 2 \in 1 .. Len(s)
        BY SMTT(30), <1>1, <2>4
      <4> QED
        BY <1>2, <4>1
    <3>2. b[s[i - 1]] = a[s[i - 1]] /\ b[s[i - 2]] = a[s[i - 2]]
      BY SMTT(30), <1>1, <1>5, <3>1
    <3>3. Follows(a[s[i - 2]], a[s[i - 1]])
      BY <1>a, <3>1 DEF Layout
    <3> QED
      BY <3>1, <3>2, <3>3
  <2> QED
    BY SMTT(30), <1>1, <2>1, <2>2, <2>3, <2>4
<1>9. EndOf(b[r[Len(r)]]) = SLICE_SIZE_MAX
  <2>1. CASE k = Len(s)
    BY <1>1, <1>2, <1>6, <1>a, <2>1 DEF Layout
  <2>2. CASE k # Len(s)
    <3>1. Len(r) \in k + 2 .. Len(r) /\ Len(r) - 1 = Len(s) /\ Len(s) \in 1 .. Len(s)
      BY SMTT(30), <1>1, <2>2
    <3>2. r[Len(r)] = s[Len(s)] /\ b[s[Len(s)]] = a[s[Len(s)]]
      BY <1>2, <1>5, <2>2, <3>1
    <3> QED
      BY <1>a, <3>2 DEF Layout
  <2> QED
    BY <2>1, <2>2
<1>10. /\ r[1] = root_slice
       /\ b[root_slice].offset = 0 /\ b[root_slice].size = 0
  <2>1. r[1] = s[1] /\ s[1] = root_slice /\ 1 \in 1 .. Len(s)
    BY SMTT(30), <1>1, <1>2, <1>a DEF Layout
  <2>2. b[s[1]].offset = a[s[1]].offset /\ b[s[1]].size = a[s[1]].size
    BY <1>4, <1>5, <2>1
  <2> QED
    BY <1>a, <2>1, <2>2 DEF Layout
<1> QED
  BY <1>7, <1>8, <1>9, <1>10 DEF Layout

(* What bus1_pool_dealloc() does to the slices.                              *)
Merged(a, b, m, ps) == b = [a EXCEPT ![ps].free = @ + a[m].size + a[m].free]

\* The fields of the slices around one that is given back
LEMMA MergedFields ==
  ASSUME NEW a \in [Slice -> Fields], NEW m \in Slice, NEW ps \in Slice, m # ps,
         NEW b, Merged(a, b, m, ps)
  PROVE  /\ b \in [Slice -> Fields]
         /\ b[ps].offset = a[ps].offset /\ b[ps].size = a[ps].size
         /\ b[ps].free = a[ps].free + a[m].size + a[m].free
         /\ \A x \in Slice \ {ps} : b[x] = a[x]
<1>1. /\ a[ps] \in Fields /\ a[ps].free \in Nat
      /\ a[m].size \in Nat /\ a[m].free \in Nat
  BY DEF Fields
<1>2. a[ps].free + a[m].size + a[m].free \in Nat
  BY SMTT(30), <1>1
<1> QED
  BY <1>1, <1>2 DEF Merged, Fields

\* bus1_pool_dealloc() of entry k of the list
Unlinking(s, a, r, b, k) ==
  /\ Listed(s) /\ a \in [Slice -> Fields] /\ Layout(s, a)
  /\ k \in 2 .. Len(s) /\ Merged(a, b, s[k], s[k - 1])
  /\ r \in Seq(Slice) /\ Removed(s, r, k)

(* It keeps the layout: the space of the slice and what is free behind it    *)
(* become free space of the slice before it.                                 *)
LEMMA LayoutRemove ==
  ASSUME NEW s, NEW a, NEW r, NEW b, NEW k, Unlinking(s, a, r, b, k)
  PROVE  Listed(r) /\ Layout(r, b)
<1>a. Listed(s) /\ s \in Seq(Slice) /\ a \in [Slice -> Fields] /\ Layout(s, a)
  BY DEF Unlinking, Listed
<1>b. k \in 2 .. Len(s) /\ Merged(a, b, s[k], s[k - 1])
  BY DEF Unlinking
<1>d. r \in Seq(Slice) /\ Removed(s, r, k)
  BY DEF Unlinking
<1>1. /\ Len(s) \in Nat /\ k \in Nat /\ 2 <= k /\ k <= Len(s) /\ Len(r) = Len(s) - 1
      /\ k - 1 \in 1 .. Len(s) /\ k \in 1 .. Len(s) /\ k # k - 1
      /\ \A i \in 1 .. Len(s) : s[i] \in Slice
  BY SMTT(30), <1>a, <1>b, <1>d DEF Removed
<1>2. /\ \A i \in 1 .. k - 1 : r[i] = s[i]
      /\ \A i \in k .. Len(r) : r[i] = s[i + 1] /\ i + 1 \in k + 1 .. Len(s)
  BY SMTT(30), <1>1, <1>d DEF Removed
<1>3. PICK ps, m : ps = s[k - 1] /\ m = s[k]
  OBVIOUS
<1>4. ps \in Slice /\ m \in Slice /\ m # ps
  BY <1>1, <1>3, <1>a DEF Listed
<1>5. /\ b \in [Slice -> Fields]
      /\ b[ps].offset = a[ps].offset /\ b[ps].size = a[ps].size
      /\ b[ps].free = a[ps].free + a[m].size + a[m].free
      /\ \A x \in Slice \ {ps} : b[x] = a[x]
  BY SMTT(30), <1>3, <1>4, <1>a, <1>b, MergedFields
<1>6. \A i \in 1 .. Len(s) : i # k - 1 => b[s[i]] = a[s[i]]
  BY <1>1, <1>3, <1>5, <1>a DEF Listed
<1>7. /\ a[ps].offset \in Nat /\ a[ps].size \in Nat /\ a[ps].free \in Nat
      /\ a[m].offset \in Nat /\ a[m].size \in Nat /\ a[m].free \in Nat
      /\ Follows(a[ps], a[m])
  <2>1. a[ps] \in Fields /\ a[m] \in Fields
    BY <1>4, <1>a
  <2> QED
    BY <1>3, <1>a, <1>b, <2>1 DEF Fields, Layout
<1>8. EndOf(b[ps]) = EndOf(a[m])
  <2>1. a[m].offset = a[ps].offset + a[ps].size + a[ps].free
    BY <1>7 DEF EndOf, Follows
  <2>2. /\ b[ps].offset = a[ps].offset /\ b[ps].size = a[ps].size
        /\ b[ps].free = a[ps].free + a[m].size + a[m].free
    BY <1>5
  <2>3. /\ a[ps].offset \in Nat /\ a[ps].size \in Nat /\ a[ps].free \in Nat
        /\ a[m].size \in Nat /\ a[m].free \in Nat
    BY <1>7
  <2> QED
    BY SMTT(30), <2>1, <2>2, <2>3 DEF EndOf
<1>9. Listed(r)
  <2> SUFFICES ASSUME NEW i \in 1 .. Len(r), NEW j \in 1 .. Len(r), r[i] = r[j]
               PROVE  i = j
    BY SMTT(30), <1>1, <1>d DEF Listed
  <2> DEFINE Old(h) == IF h < k THEN h ELSE h + 1
  <2>1. ASSUME NEW h \in 1 .. Len(r)
        PROVE  Old(h) \in 1 .. Len(s) /\ r[h] = s[Old(h)]
    <3>1. CASE h < k
      <4>1. h \in 1 .. k - 1 /\ h \in 1 .. Len(s)
        BY SMTT(30), <1>1, <3>1
      <4> QED
        BY <1>2, <3>1, <4>1
    <3>2. CASE h >= k
      BY SMTT(30), <1>1, <1>2, <3>2
    <3> QED
      BY SMTT(30), <1>1, <3>1, <3>2
  <2> HIDE DEF Old
  <2>2. Old(i) = Old(j)
    BY <1>a, <2>1 DEF Listed
  <2> QED
    BY SMTT(30), <1>1, <2>2 DEF Old
<1>10. ASSUME NEW i \in 2 .. Len(r)
       PROVE  Follows(b[r[i - 1]], b[r[i]])
  <2>1. CASE i < k
    <3>1. i \in 2 .. Len(s) /\ r[i] = s[i] /\ r[i - 1] = s[i - 1] /\ i - 1 # k - 1
      BY SMTT(30), <1>1, <1>2, <2>1
    <3>2. /\ b[r[i - 1]] = a[s[i - 1]]
          /\ b[r[i]].offset = a[s[i]].offset /\ b[r[i]].size = a[s[i]].size
      BY SMTT(30), <1>1, <1>3, <1>5, <1>6, <3>1
    <3>3. Follows(a[s[i - 1]], a[s[i]])
      BY <1>a, <3>1 DEF Layout
    <3> QED
      BY <3>2, <3>3 DEF Follows, EndOf
  <2>2. CASE i = k
    <3>1. r[i] = s[k + 1] /\ r[i - 1] = ps /\ k + 1 \in 2 .. Len(s) /\ k + 1 # k - 1
      BY SMTT(30), <1>1, <1>2, <1>3, <2>2
    <3>2. b[s[k + 1]] = a[s[k + 1]]
      BY SMTT(30), <1>1, <1>6, <3>1
    <3>3. Follows(a[m], a[s[k + 1]])
      BY SMTT(30), <1>1, <1>3, <1>a, <3>1 DEF Layout
    <3> QED
      BY <1>8, <3>1, <3>2, <3>3 DEF Follows
  <2>3. CASE i > k
    <3>1. /\ r[i] = s[i + 1] /\ r[i - 1] = s[i] /\ i + 1 \in 2 .. Len(s)
          /\ i # k - 1 /\ i + 1 # k - 1 /\ i \in 1 .. Len(s) /\ (i + 1) - 1 = i
      <4>1. /\ i \in k .. Len(r) /\ i - 1 \in k .. Len(r) /\ (i - 1) + 1 = i
            /\ i + 1 \in 2 .. Len(s) /\ i # k - 1 /\ i + 1 # k - 1
            /\ i \in 1 .. Len(s) /\ (i + 1) - 1 = i
        BY SMTT(30), <1>1, <2>3
      <4> QED
        BY <1>2, <4>1
    <3>2. b[s[i]] = a[s[i]] /\ b[s[i + 1]] = a[s[i + 1]]
      BY SMTT(30), <1>1, <1>6, <3>1
    <3>3. Follows(a[s[i]], a[s[i + 1]])
      BY <1>a, <3>1 DEF Layout
    <3> QED
      BY <3>1, <3>2, <3>3
  <2> QED
    BY SMTT(30), <1>1, <2>1, <2>2, <2>3
<1>11. EndOf(b[r[Len(r)]]) = SLICE_SIZE_MAX
  <2>1. CASE k = Len(s)
    BY SMTT(30), <1>1, <1>2, <1>3, <1>8, <1>a, <2>1 DEF Layout
  <2>2. CASE k # Len(s)
    <3>1. Len(r) \in k .. Len(r) /\ Len(r) + 1 = Len(s) /\ Len(s) \in 1 .. Len(s)
          /\ Len(s) # k - 1
      BY SMTT(30), <1>1, <2>2
    <3>2. r[Len(r)] = s[Len(s)] /\ b[s[Len(s)]] = a[s[Len(s)]]
      BY <1>2, <1>6, <3>1
    <3> QED
      BY <1>a, <3>2 DEF Layout
  <2> QED
    BY <2>1, <2>2
<1>12. /\ r[1] = root_slice
       /\ b[root_slice].offset = 0 /\ b[root_slice].size = 0
  <2>1. r[1] = s[1] /\ s[1] = root_slice /\ 1 \in 1 .. Len(s)
    BY SMTT(30), <1>1, <1>2, <1>a DEF Layout
  <2>2. b[s[1]].offset = a[s[1]].offset /\ b[s[1]].size = a[s[1]].size
    BY <1>3, <1>5, <1>6, <2>1
  <2> QED
    BY <1>a, <2>1, <2>2 DEF Layout
<1> QED
  BY <1>9, <1>10, <1>11, <1>12 DEF Layout

---------------------------------------------------------------------------
(* bus1_pool_alloc() and bus1_pool_dealloc() *)

Sizes == [m \in Message |-> at[m].size]

\* What IInv says of the pool.
PoolOK ==
  /\ Listed(slices) /\ at \in [Slice -> Fields]
  /\ allocated \subseteq Message /\ IsFiniteSet(allocated)
  /\ Layout(slices, at)
  /\ ToSet(slices) = allocated \cup {root_slice}
  /\ slices_offset = allocated
  /\ slices_free = {s \in ToSet(slices) : at[s].free > 0}
  /\ allocated_size = SumFunctionOnSet(Sizes, allocated)

\* The entries of r other than m are in s, in the same order.
SameOrder(s, r, m) ==
  \A i, j \in 1 .. Len(r) :
    r[i] # m /\ r[j] # m =>
      \E u, v \in 1 .. Len(s) : s[u] = r[i] /\ s[v] = r[j] /\ (u <= v => i <= j)

\* No slice but m moves or is resized.
OthersStay(m) ==
  \A x \in Slice \ {m} : at'[x].offset = at[x].offset /\ at'[x].size = at[x].size

\* The elements of a list
LEMMA Elements ==
  ASSUME NEW s \in Seq(Slice)
  PROVE  \A x : x \in ToSet(s) <=> \E i \in 1 .. Len(s) : s[i] = x
BY SMTT(30) DEF ToSet

\* The place of a listed slice
LEMMA PositionOf ==
  ASSUME PoolOK, NEW x \in ToSet(slices)
  PROVE  Position(x) \in 1 .. Len(slices) /\ slices[Position(x)] = x
<1>1. slices \in Seq(Slice) /\ DOMAIN slices = 1 .. Len(slices)
  BY SMTT(30) DEF PoolOK, Listed
<1>2. \E i \in DOMAIN slices : slices[i] = x
  BY <1>1, Elements
<1> QED
  BY <1>1, <1>2 DEF Position

\* An insertion keeps the order of the other slices.
LEMMA InsertOrder ==
  ASSUME NEW s, Listed(s), NEW r \in Seq(Slice), NEW m, NEW k \in 1 .. Len(s),
         Inserted(s, r, k + 1, m)
  PROVE  SameOrder(s, r, m) /\ ToSet(r) = ToSet(s) \cup {m}
<1>1. Len(s) \in Nat /\ k \in Nat /\ Len(r) = Len(s) + 1 /\ s \in Seq(Slice)
  BY SMTT(30) DEF Listed, Inserted
<1> DEFINE Old(h) == IF h <= k THEN h ELSE h - 1
           New(h) == IF h <= k THEN h ELSE h + 1
<1>2. ASSUME NEW h \in 1 .. Len(r), h # k + 1
      PROVE  Old(h) \in 1 .. Len(s) /\ r[h] = s[Old(h)]
  <2>1. CASE h <= k
    BY SMTT(30), <1>1, <2>1 DEF Inserted
  <2>2. CASE h > k
    BY SMTT(30), <1>1, <1>2, <2>2 DEF Inserted
  <2> QED
    BY SMTT(30), <1>1, <2>1, <2>2
<1>3. k + 1 \in 1 .. Len(r) /\ r[k + 1] = m
  BY SMTT(30), <1>1 DEF Inserted
<1>4. ASSUME NEW i \in 1 .. Len(r), NEW j \in 1 .. Len(r), r[i] # m, r[j] # m
      PROVE  \E u, v \in 1 .. Len(s) : s[u] = r[i] /\ s[v] = r[j] /\ (u <= v => i <= j)
  <2>1. i # k + 1 /\ j # k + 1
    BY <1>3, <1>4
  <2>2. Old(i) \in 1 .. Len(s) /\ r[i] = s[Old(i)] /\ Old(j) \in 1 .. Len(s) /\ r[j] = s[Old(j)]
    BY <1>2, <2>1
  <2>3. Old(i) <= Old(j) => i <= j
    BY SMTT(30), <1>1, <2>1
  <2> HIDE DEF Old
  <2> QED
    BY <2>2, <2>3
<1>5. ASSUME NEW h \in 1 .. Len(s)
      PROVE  New(h) \in 1 .. Len(r) /\ r[New(h)] = s[h]
  <2>1. CASE h <= k
    BY SMTT(30), <1>1, <2>1 DEF Inserted
  <2>2. CASE h > k
    BY SMTT(30), <1>1, <2>2 DEF Inserted
  <2> QED
    BY SMTT(30), <1>1, <2>1, <2>2
<1> HIDE DEF Old, New
<1>6. ASSUME NEW x
      PROVE  x \in ToSet(r) <=> x \in ToSet(s) \/ x = m
  <2>1. ASSUME x \in ToSet(r), x # m PROVE x \in ToSet(s)
    <3>1. PICK h \in 1 .. Len(r) : r[h] = x
      BY <2>1, Elements
    <3> QED
      BY <1>1, <1>2, <1>3, <2>1, <3>1, Elements
  <2>2. ASSUME x \in ToSet(s) PROVE x \in ToSet(r)
    <3>1. PICK h \in 1 .. Len(s) : s[h] = x
      BY <1>1, <2>2, Elements
    <3> QED
      BY <1>1, <1>5, <3>1, Elements
  <2>3. m \in ToSet(r)
    BY <1>1, <1>3, Elements
  <2> QED
    BY <2>1, <2>2, <2>3
<1> QED
  BY <1>4, <1>6 DEF SameOrder

\* A removal keeps the order of the other slices.
LEMMA RemoveOrder ==
  ASSUME NEW s, Listed(s), NEW r \in Seq(Slice), NEW k \in 1 .. Len(s),
         Removed(s, r, k)
  PROVE  SameOrder(s, r, s[k]) /\ ToSet(r) = ToSet(s) \ {s[k]}
<1>1. Len(s) \in Nat /\ k \in Nat /\ Len(r) = Len(s) - 1 /\ s \in Seq(Slice)
  BY SMTT(30) DEF Listed, Removed
<1> DEFINE Old(h) == IF h < k THEN h ELSE h + 1
           New(h) == IF h < k THEN h ELSE h - 1
<1>2. ASSUME NEW h \in 1 .. Len(r)
      PROVE  Old(h) \in 1 .. Len(s) /\ Old(h) # k /\ r[h] = s[Old(h)]
  <2>1. CASE h < k
    BY SMTT(30), <1>1, <2>1 DEF Removed
  <2>2. CASE h >= k
    BY SMTT(30), <1>1, <2>2 DEF Removed
  <2> QED
    BY SMTT(30), <1>1, <2>1, <2>2
<1>4. ASSUME NEW i \in 1 .. Len(r), NEW j \in 1 .. Len(r)
      PROVE  \E u, v \in 1 .. Len(s) : s[u] = r[i] /\ s[v] = r[j] /\ (u <= v => i <= j)
  <2>2. Old(i) \in 1 .. Len(s) /\ r[i] = s[Old(i)] /\ Old(j) \in 1 .. Len(s) /\ r[j] = s[Old(j)]
    BY <1>2
  <2>3. Old(i) <= Old(j) => i <= j
    BY SMTT(30), <1>1
  <2> HIDE DEF Old
  <2> QED
    BY <2>2, <2>3
<1>5. ASSUME NEW h \in 1 .. Len(s), h # k
      PROVE  New(h) \in 1 .. Len(r) /\ r[New(h)] = s[h]
  <2>1. CASE h < k
    BY SMTT(30), <1>1, <2>1 DEF Removed
  <2>2. CASE h > k
    <3>1. h - 1 \in 1 .. Len(s) - 1 /\ ~(h - 1 < k) /\ (h - 1) + 1 = h
      BY SMTT(30), <1>1, <2>2
    <3> QED
      BY SMTT(30), <1>1, <2>2, <3>1 DEF Removed
  <2> QED
    BY SMTT(30), <1>1, <1>5, <2>1, <2>2
<1> HIDE DEF Old, New
<1>6. ASSUME NEW x
      PROVE  x \in ToSet(r) <=> x \in ToSet(s) /\ x # s[k]
  <2>1. ASSUME x \in ToSet(r) PROVE x \in ToSet(s) /\ x # s[k]
    <3>1. PICK h \in 1 .. Len(r) : r[h] = x
      BY <2>1, Elements
    <3>2. Old(h) \in 1 .. Len(s) /\ Old(h) # k /\ x = s[Old(h)]
      BY <1>2, <3>1
    <3>3. x # s[k]
      BY <3>2 DEF Listed
    <3> QED
      BY <1>1, <3>2, <3>3, Elements
  <2>2. ASSUME x \in ToSet(s), x # s[k] PROVE x \in ToSet(r)
    <3>1. PICK h \in 1 .. Len(s) : s[h] = x
      BY <1>1, <2>2, Elements
    <3> QED
      BY <1>1, <1>5, <2>2, <3>1, Elements
  <2> QED
    BY <2>1, <2>2
<1> QED
  BY <1>4, <1>6 DEF SameOrder

(* The sizes and their sum when a slice is added,                            *)
LEMMA SumAlloc ==
  ASSUME NEW f \in [Message -> Nat], NEW g \in [Message -> Nat], NEW A \in SUBSET Message,
         IsFiniteSet(A), NEW m \in Message, m \notin A,
         \A x \in Message \ {m} : g[x] = f[x]
  PROVE  SumFunctionOnSet(g, A \cup {m}) = SumFunctionOnSet(f, A) + g[m]
<1>1. SumFunctionOnSet(f, A) = SumFunctionOnSet(g, A)
  BY SMTT(30), SumSame
<1>2. \A x \in A \cup {m} : g[x] \in Int
  BY SMTT(30)
<1> QED
  BY SMTT(30), <1>1, <1>2, SumAdd

(* and when one is removed.                                                  *)
LEMMA SumDealloc ==
  ASSUME NEW f \in [Message -> Nat], NEW g \in [Message -> Nat], NEW A \in SUBSET Message,
         IsFiniteSet(A), NEW m \in A, \A x \in Message \ {m} : g[x] = f[x]
  PROVE  /\ f[m] <= SumFunctionOnSet(f, A)
         /\ SumFunctionOnSet(f, A) \in Nat
         /\ SumFunctionOnSet(g, A \ {m}) = SumFunctionOnSet(f, A) - f[m]
<1>1. /\ SumFunctionOnSet(f, A) \in Nat
      /\ f[m] <= SumFunctionOnSet(f, A)
  BY SumNat
<1>2. IsFiniteSet(A \ {m})
  BY FS_RemoveElement
<1>3. SumFunctionOnSet(f, A \ {m}) = SumFunctionOnSet(g, A \ {m})
  BY SMTT(30), <1>2, SumSame
<1>4. SumFunctionOnSet(f, A) = SumFunctionOnSet(f, A \ {m}) + f[m]
  <2>1. \A x \in A : f[x] \in Int
    BY SMTT(30)
  <2> QED
    BY <2>1, SumRemove
<1>5. SumFunctionOnSet(f, A \ {m}) \in Nat /\ f[m] \in Nat
  BY <1>2, SumNat
<1> QED
  BY SMTT(30), <1>1, <1>3, <1>4, <1>5

(* bus1_pool_alloc() of a slice that is not allocated, in free space that is *)
(* large enough                                                              *)
LEMMA AllocPool ==
  ASSUME PoolOK, NEW m \in Message, m \notin allocated, NEW z \in Nat, z > 0,
         z % 8 = 0, NEW ps \in FindFree(z), Alloc(m, z, ps)
  PROVE  /\ PoolOK' /\ allocated' = allocated \cup {m}
         /\ SameOrder(slices, slices', m) /\ OthersStay(m)
<1>1. /\ ps \in ToSet(slices) /\ z <= at[ps].free
      /\ slices_free = {s \in ToSet(slices) : at[s].free > 0}
  BY DEF FindFree, PoolOK
<1>2. PICK k \in 1 .. Len(slices) : k = Position(ps) /\ slices[k] = ps
  BY <1>1, PositionOf
<1>3. /\ slices \in Seq(Slice) /\ m \in Slice /\ ps \in Slice /\ m # ps
      /\ m \notin ToSet(slices) /\ root_slice # m
      /\ at \in [Slice -> Fields] /\ Listed(slices) /\ Layout(slices, at)
  BY <1>1, PoolAssumption DEF PoolOK, Listed, Slice
<1>4. /\ slices' = InsertAt(slices, k + 1, m) /\ Linked(at, at', m, ps, z)
      /\ slices_free' = LinkFree(slices_free \ {ps}, m, at[ps].free - z)
      /\ slices_offset' = slices_offset \cup {m}
      /\ allocated_size' = allocated_size + z
      /\ allocated' = allocated \cup {m}
  BY <1>2 DEF Alloc, SliceLink, LinkOffset, Linked
<1>5. slices' \in Seq(Slice) /\ Inserted(slices, slices', k + 1, m)
  <2>1. k + 1 \in 1 .. Len(slices) + 1
    BY SMTT(30), <1>3
  <2> QED
    BY <1>3, <1>4, <2>1, InsertList
<1>6. \A i \in 1 .. Len(slices) : slices[i] # m
  BY <1>3, Elements
<1>7. Listed(slices') /\ Layout(slices', at')
  <2>1. z <= at[slices[k]].free /\ Linked(at, at', m, slices[k], z)
    BY <1>1, <1>2, <1>4
  <2> QED
    BY <1>3, <1>5, <1>6, <2>1, LayoutInsert DEF Linking
<1>8. SameOrder(slices, slices', m) /\ ToSet(slices') = ToSet(slices) \cup {m}
  BY <1>3, <1>5, InsertOrder
<1>9. /\ at' \in [Slice -> Fields] /\ at'[m].size = z
      /\ at'[m].free = at[ps].free - z
      /\ at'[ps].offset = at[ps].offset /\ at'[ps].size = at[ps].size
      /\ at'[ps].free = 0
      /\ \A x \in Slice \ {m, ps} : at'[x] = at[x]
  BY SMTT(30), <1>1, <1>3, <1>4, LinkedFields
<1>10. OthersStay(m)
  BY <1>9 DEF OthersStay
<1>11. slices_free' = {s \in ToSet(slices') : at'[s].free > 0}
  <2>1. ToSet(slices) \subseteq Slice
    BY SMTT(30), <1>3, Elements
  <2>2. at[ps].free - z \in Int /\ at'[m].free = at[ps].free - z
    BY SMTT(30), <1>3, <1>9 DEF Fields
  <2>3. ASSUME NEW x
        PROVE  x \in slices_free' <=> x \in ToSet(slices') /\ at'[x].free > 0
    <3>1. CASE x = m
      BY <1>1, <1>3, <1>4, <1>8, <2>2, <3>1 DEF LinkFree
    <3>2. CASE x = ps
      BY SMTT(30), <1>3, <1>4, <1>9, <3>2 DEF LinkFree
    <3>3. CASE x # m /\ x # ps
      <4>1. x \in slices_free' <=> x \in ToSet(slices) /\ at[x].free > 0
        BY <1>1, <1>4, <3>3 DEF LinkFree
      <4>2. x \in ToSet(slices) => at'[x] = at[x]
        BY <1>9, <2>1, <3>3
      <4> QED
        BY <1>8, <3>3, <4>1, <4>2
    <3> QED
      BY <3>1, <3>2, <3>3
  <2> QED
    BY <2>3
<1>12. allocated_size' = SumFunctionOnSet(Sizes', allocated')
  <2>1. Sizes \in [Message -> Nat] /\ Sizes' \in [Message -> Nat] /\ Sizes'[m] = z
    BY <1>3, <1>9 DEF Sizes, Fields, Slice
  <2>2. \A x \in Message \ {m} : Sizes'[x] = Sizes[x]
    BY <1>10 DEF Sizes, OthersStay, Slice
  <2>3. SumFunctionOnSet(Sizes', allocated \cup {m}) = SumFunctionOnSet(Sizes, allocated) + Sizes'[m]
    <3>1. PICK f, g : f = Sizes /\ g = Sizes'
      OBVIOUS
    <3>2. /\ f \in [Message -> Nat] /\ g \in [Message -> Nat]
          /\ allocated \in SUBSET Message /\ IsFiniteSet(allocated)
          /\ \A x \in Message \ {m} : g[x] = f[x]
      BY <2>1, <2>2, <3>1 DEF PoolOK
    <3>3. SumFunctionOnSet(g, allocated \cup {m}) = SumFunctionOnSet(f, allocated) + g[m]
      BY <3>2, SumAlloc
    <3> QED
      BY <3>1, <3>3
  <2> QED
    BY <1>4, <2>1, <2>3 DEF PoolOK
<1>13. /\ allocated' \subseteq Message /\ IsFiniteSet(allocated')
       /\ ToSet(slices') = allocated' \cup {root_slice}
       /\ slices_offset' = allocated'
  <2>1. IsFiniteSet(allocated')
    BY <1>4, FS_AddElement DEF PoolOK
  <2> QED
    BY <1>4, <1>8, <2>1 DEF PoolOK
<1> QED
  BY <1>4, <1>7, <1>8, <1>9, <1>10, <1>11, <1>12, <1>13 DEF PoolOK

(* bus1_pool_dealloc() of an allocated slice; its size is not larger than    *)
(* the total                                                                 *)
LEMMA DeallocPool ==
  ASSUME PoolOK, NEW m \in allocated, Dealloc(m)
  PROVE  /\ PoolOK' /\ allocated' = allocated \ {m}
         /\ SameOrder(slices, slices', m) /\ OthersStay(m)
         /\ ~(at[m].size > allocated_size)
<1>1. /\ m \in ToSet(slices) /\ m \in Message /\ m # root_slice /\ m \in Slice
      /\ at \in [Slice -> Fields] /\ Listed(slices) /\ Layout(slices, at)
      /\ slices \in Seq(Slice)
  BY PoolAssumption DEF PoolOK, Listed, Slice
<1>2. PICK k \in 1 .. Len(slices) : k = Position(m) /\ slices[k] = m
  BY <1>1, PositionOf
<1>3. k \in 2 .. Len(slices) /\ k - 1 \in 1 .. Len(slices) /\ Len(slices) \in Nat
  <2>1. k # 1
    BY <1>1, <1>2 DEF Layout
  <2> QED
    BY SMTT(30), <1>1, <2>1
<1>4. PICK ps : ps = slices[k - 1]
  OBVIOUS
<1>5. ps \in Slice /\ ps \in ToSet(slices) /\ m # ps
  <2>1. ps \in Slice
    BY SMTT(30), <1>1, <1>3, <1>4
  <2>2. ps \in ToSet(slices)
    BY <1>1, <1>3, <1>4, Elements
  <2>3. k - 1 # k
    BY SMTT(30), <1>3
  <2> QED
    BY <1>1, <1>2, <1>3, <1>4, <2>1, <2>2, <2>3 DEF Listed
<1>6. /\ slices' = RemoveAt(slices, k) /\ Merged(at, at', m, ps)
      /\ slices_free' = LinkFree(slices_free \ {m}, ps, at'[ps].free)
      /\ slices_offset' = slices_offset \ {m}
      /\ allocated_size' = allocated_size - (IF at[m].size > allocated_size
                                             THEN 0 ELSE at[m].size)
      /\ allocated' = allocated \ {m}
  BY <1>2, <1>4 DEF Dealloc, Previous, Merged
<1>7. slices' \in Seq(Slice) /\ Removed(slices, slices', k)
  BY <1>1, <1>2, <1>6, RemoveList
<1>8. Listed(slices') /\ Layout(slices', at')
  <2>1. Merged(at, at', slices[k], slices[k - 1])
    BY <1>2, <1>4, <1>6
  <2>2. Unlinking(slices, at, slices', at', k)
    BY <1>1, <1>3, <1>7, <2>1 DEF Unlinking
  <2> QED
    BY <2>2, LayoutRemove
<1>9. SameOrder(slices, slices', m) /\ ToSet(slices') = ToSet(slices) \ {m}
  <2>1. /\ SameOrder(slices, slices', slices[k])
        /\ ToSet(slices') = ToSet(slices) \ {slices[k]}
    BY <1>1, <1>7, RemoveOrder
  <2> QED
    BY <1>2, <2>1
<1>10. /\ at' \in [Slice -> Fields]
       /\ at'[ps].offset = at[ps].offset /\ at'[ps].size = at[ps].size
       /\ at'[ps].free = at[ps].free + at[m].size + at[m].free
       /\ \A x \in Slice \ {ps} : at'[x] = at[x]
  BY SMTT(30), <1>1, <1>5, <1>6, MergedFields
<1>11. OthersStay(m)
  BY <1>10 DEF OthersStay
<1>12. at'[ps].free > 0
  <2>1. at[m].size > 0
    BY <1>1, <1>2, <1>3 DEF Layout, Follows
  <2>2. at[ps].free \in Nat /\ at[m].size \in Nat /\ at[m].free \in Nat
    BY <1>1, <1>5 DEF Fields
  <2> QED
    BY SMTT(30), <1>10, <2>1, <2>2
<1>13. slices_free' = {s \in ToSet(slices') : at'[s].free > 0}
  <2>1. ToSet(slices) \subseteq Slice
    BY SMTT(30), <1>1, Elements
  <2>2. slices_free' = (slices_free \ {m}) \cup {ps}
    BY <1>6, <1>12 DEF LinkFree
  <2>3. ASSUME NEW x
        PROVE  x \in slices_free' <=> x \in ToSet(slices') /\ at'[x].free > 0
    <3>1. CASE x = ps
      BY <1>5, <1>9, <1>12, <2>2, <3>1
    <3>2. CASE x # ps
      <4>1. x \in slices_free' <=> x # m /\ x \in ToSet(slices) /\ at[x].free > 0
        BY <2>2, <3>2 DEF PoolOK
      <4>2. x \in ToSet(slices) => at'[x] = at[x]
        BY <1>10, <2>1, <3>2
      <4> QED
        BY <1>9, <3>2, <4>1, <4>2
    <3> QED
      BY <3>1, <3>2
  <2> QED
    BY <2>3
<1>14. /\ ~(at[m].size > allocated_size)
       /\ allocated_size' = SumFunctionOnSet(Sizes', allocated')
  <2>1. PICK f, g : f = Sizes /\ g = Sizes'
    OBVIOUS
  <2>2. f \in [Message -> Nat] /\ g \in [Message -> Nat] /\ f[m] = at[m].size
    BY <1>1, <1>10, <2>1 DEF Sizes, Fields, Slice
  <2>3. /\ \A x \in Message \ {m} : g[x] = f[x]
        /\ allocated \in SUBSET Message /\ IsFiniteSet(allocated)
        /\ allocated_size = SumFunctionOnSet(f, allocated)
    BY <1>11, <2>1 DEF Sizes, OthersStay, Slice, PoolOK
  <2>4. /\ f[m] <= allocated_size /\ allocated_size \in Nat
        /\ SumFunctionOnSet(g, allocated \ {m}) = allocated_size - f[m]
    BY <2>2, <2>3, SumDealloc
  <2>5. f[m] \in Nat
    BY <1>1, <2>2
  <2>6. ~(at[m].size > allocated_size)
    BY SMTT(30), <2>2, <2>4, <2>5
  <2> QED
    BY <1>6, <2>1, <2>2, <2>4, <2>6
<1>15. /\ allocated' \subseteq Message /\ IsFiniteSet(allocated')
       /\ ToSet(slices') = allocated' \cup {root_slice}
       /\ slices_offset' = allocated'
  <2>1. IsFiniteSet(allocated')
    BY <1>6, FS_RemoveElement DEF PoolOK
  <2> QED
    BY <1>1, <1>6, <1>9, <2>1 DEF PoolOK
<1> QED
  BY <1>6, <1>8, <1>9, <1>10, <1>11, <1>13, <1>14, <1>15 DEF PoolOK

---------------------------------------------------------------------------
(* References *)

\* How many of its five kinds of owner a message has
Bit(S, m) == IF m \in S THEN 1 ELSE 0
Owners(m) == Bit(sending, m) + Bit(queued, m) + Bit(published, m)
             + Bit(releasing, m) + Bit(flushed, m)

\* The types of what is not the pool
RestOK ==
  /\ ref \in [Message -> Nat]
  /\ published \cup sending \cup queued \cup releasing \cup flushed \subseteq Message
  /\ call \in {"none", "recv", "flush_queue", "walk", "flush_slices", "dead"}
  /\ cursor \in Slice \cup {NULL} /\ warned \in BOOLEAN

OwnersOK ==
  \A m \in Message : ref[m] = Owners(m) /\ (Owners(m) > 0 <=> m \in allocated)

\* The invariant in the terms of these proofs
PoolInv ==
  /\ PoolOK /\ RestOK /\ OwnersOK /\ OneOwner /\ WalkAhead /\ NoWarn
  /\ FlushUnpublishesAll

\* It is IInv.
LEMMA PoolInvIInv ==
  PoolInv <=> IInv
<1>1. PoolOK => TypeOK \/ ~RestOK
  BY DEF PoolOK, RestOK, TypeOK, Listed, Fields
<1>2. OwnersOK <=> OwnersPinSlices
  BY DEF OwnersOK, OwnersPinSlices, Owners, Bit
<1>3. ASSUME PoolInv PROVE IInv
  <2>1. TypeOK /\ ListedOnce
    BY <1>1, <1>3 DEF PoolInv, PoolOK, Listed, ListedOnce
  <2>2. SlicesTile
    BY <1>3, <2>1, TileParts DEF PoolInv, PoolOK, Sizes
  <2> QED
    BY <1>2, <1>3, <2>1, <2>2 DEF PoolInv, IInv
<1>4. ASSUME IInv PROVE PoolInv
  <2>1. RestOK
    BY <1>4 DEF IInv, TypeOK, RestOK
  <2>2. PoolOK
    BY <1>4, TileParts DEF IInv, TypeOK, PoolOK, Listed, ListedOnce, Sizes, Fields
  <2> QED
    BY <1>2, <1>4, <2>1, <2>2 DEF PoolInv, IInv
<1> QED
  BY <1>3, <1>4

\* The part of PublishedStaysPut that speaks of one step
Stays ==
  \A m \in published :
    /\ m \in slices_offset'
    /\ at'[m].offset = at[m].offset /\ at'[m].size = at[m].size

\* The published entries of the list are where they were, as seen from cursor.
Reorders ==
  \A i, j \in 1 .. Len(slices') :
    slices'[i] = cursor /\ slices'[j] \in published =>
      \E u, v \in 1 .. Len(slices) :
        slices[u] = slices'[i] /\ slices[v] = slices'[j] /\ (u <= v => i <= j)

\* What every published slice is
LEMMA PublishedAllocated ==
  ASSUME PoolInv, NEW m \in published
  PROVE  m \in Message /\ m \in allocated /\ m \in Slice /\ ref[m] >= 1
<1>1. m \in Message /\ m \in Slice
  BY DEF PoolInv, RestOK, Slice
<1>2. ref[m] = Owners(m) /\ (Owners(m) > 0 <=> m \in allocated)
  BY <1>1 DEF PoolInv, OwnersOK
<1>3. Owners(m) \in Nat /\ Owners(m) >= 1 /\ Owners(m) > 0
  BY SMTT(30) DEF Owners, Bit
<1> QED
  BY <1>1, <1>2, <1>3

\* Steps that do not touch the pool
LEMMA SamePool ==
  ASSUME PoolInv, UNCHANGED pool
  PROVE  PoolOK' /\ Stays /\ Reorders
<1>1. /\ slices' = slices /\ at' = at /\ slices_free' = slices_free
      /\ slices_offset' = slices_offset /\ allocated_size' = allocated_size
      /\ allocated' = allocated
  BY DEF pool
<1>2. PoolOK'
  BY <1>1 DEF PoolInv, PoolOK, Sizes
<1>3. Stays
  BY <1>1, PublishedAllocated DEF Stays, PoolInv, PoolOK
<1>4. Reorders
  BY <1>1 DEF Reorders
<1> QED
  BY <1>2, <1>3, <1>4

\* A message that is allocated in a step: it was nowhere in the list.
LEMMA AllocStays ==
  ASSUME PoolInv, NEW m \in Message, m \notin allocated, m # cursor, PoolOK',
         allocated' = allocated \cup {m}, SameOrder(slices, slices', m), OthersStay(m)
  PROVE  Stays /\ Reorders
<1>1. \A x \in published : x \in allocated /\ x \in Slice /\ x # m
  BY PublishedAllocated
<1>2. slices_offset' = allocated'
  BY DEF PoolOK
<1>3. Stays
  BY <1>1, <1>2 DEF Stays, OthersStay
<1>4. Reorders
  BY <1>1 DEF Reorders, SameOrder
<1> QED
  BY <1>3, <1>4

\* A message that is deallocated in a step
LEMMA DeallocStays ==
  ASSUME PoolInv, NEW m \in allocated, m \notin published, PoolOK',
         allocated' = allocated \ {m}, SameOrder(slices, slices', m), OthersStay(m)
  PROVE  Stays /\ Reorders
<1>1. \A x \in published : x \in allocated /\ x \in Slice /\ x # m
  BY PublishedAllocated
<1>2. slices_offset' = allocated' /\ slices' \in Seq(Slice) /\ m # root_slice
      /\ ToSet(slices') = allocated' \cup {root_slice}
  BY PoolAssumption DEF PoolInv, PoolOK, Listed
<1>3. Stays
  BY <1>1, <1>2 DEF Stays, OthersStay
<1>4. \A i \in 1 .. Len(slices') : slices'[i] # m
  <2>1. m \notin ToSet(slices')
    BY <1>2
  <2> QED
    BY <1>2, <2>1, Elements
<1>5. Reorders
  BY <1>4 DEF Reorders, SameOrder
<1> QED
  BY <1>3, <1>5

\* bus1_message_unref() of a message with a reference: the last one
\* deallocates the slice.
UnrefOutcome(m) ==
  /\ PoolOK' /\ Stays /\ Reorders /\ ~warned' /\ warned' \in BOOLEAN
  /\ ref' = [ref EXCEPT ![m] = @ - 1]
  /\ allocated' = IF ref[m] = 1 THEN allocated \ {m} ELSE allocated

\* bus1_message_unref(): the last reference of a published message is never dropped so.
LEMMA UnrefPool ==
  ASSUME PoolInv, NEW m \in Message, m \in allocated, Unref(m),
         ref[m] = 1 => m \notin published
  PROVE  UnrefOutcome(m)
<1>1. CASE ref[m] # 1
  <2>1. UNCHANGED pool /\ UNCHANGED warned /\ ref' = [ref EXCEPT ![m] = @ - 1]
    BY <1>1 DEF Unref
  <2>2. allocated' = allocated
    BY <2>1 DEF pool
  <2> QED
    BY <1>1, <2>1, <2>2, SamePool
       DEF UnrefOutcome, PoolInv, NoWarn, RestOK
<1>2. CASE ref[m] = 1
  <2>1. /\ Dealloc(m) /\ ref' = [ref EXCEPT ![m] = @ - 1]
        /\ warned' = (warned \/ DeallocWarns(m))
    BY <1>2 DEF Unref
  <2>2. /\ PoolOK' /\ allocated' = allocated \ {m}
        /\ SameOrder(slices, slices', m) /\ OthersStay(m)
        /\ ~(at[m].size > allocated_size)
    BY <2>1, DeallocPool DEF PoolInv
  <2>3. Stays /\ Reorders
    BY <1>2, <2>2, DeallocStays
  <2>4. ~warned' /\ warned' \in BOOLEAN
    BY <1>2, <2>1, <2>2 DEF DeallocWarns, PoolInv, NoWarn
  <2> QED
    BY <1>2, <2>1, <2>2, <2>3, <2>4 DEF UnrefOutcome
<1> QED
  BY <1>1, <1>2

\* One owner gives up its reference.
LEMMA UnrefOwners ==
  ASSUME PoolInv, NEW m \in Message, UnrefOutcome(m), Owners(m)' = Owners(m) - 1,
         \A x \in Message \ {m} : Owners(x)' = Owners(x)
  PROVE  OwnersOK' /\ ref' \in [Message -> Nat]
<1>1. /\ ref \in [Message -> Nat] /\ ref' = [ref EXCEPT ![m] = @ - 1]
      /\ allocated' = IF ref[m] = 1 THEN allocated \ {m} ELSE allocated
      /\ \A x \in Message : ref[x] = Owners(x) /\ (Owners(x) > 0 <=> x \in allocated)
  BY DEF PoolInv, RestOK, OwnersOK, UnrefOutcome
<1>2. Owners(m)' \in Nat
  BY SMTT(30) DEF Owners, Bit
<1>3. ref' \in [Message -> Nat] /\ ref'[m] = Owners(m)'
  BY <1>1, <1>2
<1>4. Owners(m)' > 0 <=> m \in allocated'
  BY SMTT(30), <1>1, <1>2, <1>3
<1>5. ASSUME NEW x \in Message, x # m
      PROVE  ref'[x] = Owners(x)' /\ (Owners(x)' > 0 <=> x \in allocated')
  BY <1>1, <1>5
<1> QED
  BY <1>3, <1>4, <1>5 DEF OwnersOK

\* The walk of a flush when senders and others change the list
LEMMA WalkKept ==
  ASSUME WalkAhead, Reorders, call' = call, cursor' = cursor, PoolOK', PoolOK,
         published' \subseteq published
  PROVE  WalkAhead'
<1> SUFFICES ASSUME call = "walk", NEW i \in 1 .. Len(slices'), NEW j \in 1 .. Len(slices'),
                    slices'[i] = cursor, slices'[j] \in published
             PROVE  i <= j
  BY DEF WalkAhead
<1>1. PICK u \in 1 .. Len(slices), v \in 1 .. Len(slices) :
        slices[u] = slices'[i] /\ slices[v] = slices'[j] /\ (u <= v => i <= j)
  BY DEF Reorders
<1> QED
  BY <1>1 DEF WalkAhead

---------------------------------------------------------------------------
(* The steps.  Each keeps the invariant and the published slices. *)

\* The sets of the owners
OwnerSets == published \cup sending \cup queued \cup releasing \cup flushed

\* A step that takes m from one of its owners and unrefs it
LEMMA UnrefStep ==
  ASSUME PoolInv, NEW m \in OwnerSets, Unref(m), Owners(m)' = Owners(m) - 1,
         \A x \in Message \ {m} : Owners(x)' = Owners(x),
         ref[m] = 1 => m \notin published,
         OwnerSets' \subseteq OwnerSets, OneOwner',
         \/ call' = call /\ cursor' = cursor
         \/ call' = "none" /\ cursor' = NULL,
         published' = published
  PROVE  PoolInv' /\ Stays
<1>1. m \in Message /\ OwnerSets \subseteq Message
  BY DEF PoolInv, RestOK, OwnerSets
<1>2. m \in allocated
  <2>1. Owners(m) > 0
    BY SMTT(30), <1>1 DEF Owners, Bit, OwnerSets
  <2> QED
    BY <1>1, <2>1 DEF PoolInv, OwnersOK
<1>3. UnrefOutcome(m)
  BY <1>1, <1>2, UnrefPool
<1>4. OwnersOK' /\ ref' \in [Message -> Nat]
  BY <1>1, <1>3, UnrefOwners
<1>5. PoolOK' /\ Stays /\ Reorders /\ ~warned' /\ warned' \in BOOLEAN
  BY <1>3 DEF UnrefOutcome
<1>6. RestOK' /\ WalkAhead' /\ FlushUnpublishesAll'
  <2>1. OwnerSets' \subseteq Message /\ warned' \in BOOLEAN
    BY <1>1, <1>5
  <2>2. CASE call' = call /\ cursor' = cursor
    <3>1. RestOK' /\ FlushUnpublishesAll'
      BY <1>4, <2>1, <2>2
         DEF PoolInv, RestOK, FlushUnpublishesAll, OwnerSets
    <3>2. WalkAhead'
      BY <1>5, <2>2, WalkKept DEF PoolInv
    <3> QED
      BY <3>1, <3>2
  <2>3. CASE call' = "none" /\ cursor' = NULL
    <3>1. RestOK'
      BY <1>4, <2>1, <2>3 DEF RestOK, OwnerSets
    <3>2. WalkAhead' /\ FlushUnpublishesAll'
      BY <2>3 DEF WalkAhead, FlushUnpublishesAll
    <3> QED
      BY <3>1, <3>2
  <2> QED
    BY <2>2, <2>3
<1> QED
  BY <1>4, <1>5, <1>6 DEF PoolInv, NoWarn

\* A failing SEND
LEMMA AbortStep ==
  ASSUME PoolInv, NEW m \in Message, Abort(m)
  PROVE  PoolInv' /\ Stays
<1>1. /\ m \in sending /\ sending' = sending \ {m} /\ Unref(m)
      /\ UNCHANGED <<published, queued, releasing, flushed, call, cursor>>
  BY DEF Abort
<1>2. m \notin published /\ m \in OwnerSets
  BY <1>1 DEF PoolInv, OneOwner, OwnerSets
<1>3. OneOwner' /\ OwnerSets' \subseteq OwnerSets
  BY <1>1 DEF PoolInv, OneOwner, OwnerSets
<1>4. Owners(m)' = Owners(m) - 1 /\ \A x \in Message \ {m} : Owners(x)' = Owners(x)
  BY SMTT(30), <1>1 DEF Owners, Bit
<1> QED
  BY <1>1, <1>2, <1>3, <1>4, UnrefStep

\* A queued message that is no longer valid
LEMMA DropStep ==
  ASSUME PoolInv, NEW m \in Message, Drop(m)
  PROVE  PoolInv' /\ Stays
<1>1. /\ call = "none" /\ m \in queued /\ queued' = queued \ {m} /\ Unref(m)
      /\ UNCHANGED <<published, sending, releasing, flushed, call, cursor>>
  BY DEF Drop
<1>2. m \notin published /\ m \in OwnerSets
  BY <1>1 DEF PoolInv, OneOwner, OwnerSets
<1>3. OneOwner' /\ OwnerSets' \subseteq OwnerSets
  BY <1>1 DEF PoolInv, OneOwner, OwnerSets
<1>4. Owners(m)' = Owners(m) - 1 /\ \A x \in Message \ {m} : Owners(x)' = Owners(x)
  BY SMTT(30), <1>1 DEF Owners, Bit
<1> QED
  BY <1>1, <1>2, <1>3, <1>4, UnrefStep

\* The end of a RECV: the slice is published, so this is not the last reference.
LEMMA RecvDoneStep ==
  ASSUME PoolInv, RecvDone
  PROVE  PoolInv' /\ Stays
<1>1. /\ call = "recv" /\ queued' = queued \ {cursor} /\ Unref(cursor)
      /\ call' = "none" /\ cursor' = NULL
      /\ UNCHANGED <<published, sending, releasing, flushed>>
  BY DEF RecvDone
<1>2. published \cap queued = {cursor}
  BY <1>1 DEF PoolInv, OneOwner
<1>3. cursor \in queued /\ cursor \in published /\ cursor \in Message /\ cursor \in OwnerSets
  BY <1>2 DEF PoolInv, RestOK, OwnerSets
<1>4. ref[cursor] # 1
  <2>1. Owners(cursor) \in Nat /\ Owners(cursor) >= 2
    BY SMTT(30), <1>3 DEF Owners, Bit
  <2>2. ref[cursor] = Owners(cursor)
    BY <1>3 DEF PoolInv, OwnersOK
  <2> QED
    BY SMTT(30), <2>1, <2>2
<1>5. OneOwner' /\ OwnerSets' \subseteq OwnerSets
  BY <1>1, <1>2 DEF PoolInv, OneOwner, OwnerSets
<1>6. PICK m : m = cursor
  OBVIOUS
<1>7. Owners(m)' = Owners(m) - 1 /\ \A x \in Message \ {m} : Owners(x)' = Owners(x)
  BY SMTT(30), <1>1, <1>3, <1>6 DEF Owners, Bit
<1> QED
  BY <1>1, <1>3, <1>4, <1>5, <1>6, <1>7, UnrefStep

\* SLICE_RELEASE behind its unlock
LEMMA SliceReleaseUnrefStep ==
  ASSUME PoolInv, NEW m \in Message, SliceReleaseUnref(m)
  PROVE  PoolInv' /\ Stays
<1>1. /\ m \in releasing /\ releasing' = releasing \ {m} /\ Unref(m)
      /\ UNCHANGED <<published, sending, queued, flushed, call, cursor>>
  BY DEF SliceReleaseUnref
<1>2. m \notin published /\ m \in OwnerSets
  BY <1>1 DEF PoolInv, OneOwner, OwnerSets
<1>3. OneOwner' /\ OwnerSets' \subseteq OwnerSets
  BY <1>1 DEF PoolInv, OneOwner, OwnerSets
<1>4. Owners(m)' = Owners(m) - 1 /\ \A x \in Message \ {m} : Owners(x)' = Owners(x)
  BY SMTT(30), <1>1 DEF Owners, Bit
<1> QED
  BY <1>1, <1>2, <1>3, <1>4, UnrefStep

\* A RESET drops what it took from the queue or unpublished.
LEMMA FlushUnrefStep ==
  ASSUME PoolInv, NEW m \in Message, FlushUnref(m)
  PROVE  PoolInv' /\ Stays
<1>1. /\ m \in flushed /\ flushed' = flushed \ {m} /\ Unref(m)
      /\ call \in {"flush_queue", "flush_slices"}
      /\ UNCHANGED <<published, sending, queued, releasing, call, cursor>>
  BY DEF FlushUnref
<1>2. m \notin published /\ m \in OwnerSets
  BY <1>1 DEF PoolInv, OneOwner, OwnerSets
<1>3. OneOwner' /\ OwnerSets' \subseteq OwnerSets
  BY <1>1 DEF PoolInv, OneOwner, OwnerSets
<1>4. Owners(m)' = Owners(m) - 1 /\ \A x \in Message \ {m} : Owners(x)' = Owners(x)
  BY SMTT(30), <1>1 DEF Owners, Bit
<1> QED
  BY <1>1, <1>2, <1>3, <1>4, UnrefStep

\* A step in which messages change owners and the pool stays as it is
LEMMA MoveStep ==
  ASSUME PoolInv, UNCHANGED <<pool, ref>>, warned' = warned,
         \A x \in Message : Owners(x)' = Owners(x),
         OwnerSets' \subseteq OwnerSets,
         call' \in {"none", "recv", "flush_queue", "walk", "flush_slices", "dead"},
         cursor' \in Slice \cup {NULL}, OneOwner', WalkAhead', FlushUnpublishesAll'
  PROVE  PoolInv' /\ Stays
<1>1. PoolOK' /\ Stays
  BY SamePool
<1>2. RestOK'
  BY DEF PoolInv, RestOK, OwnerSets
<1>3. OwnersOK'
  BY DEF PoolInv, OwnersOK, pool
<1> QED
  BY <1>1, <1>2, <1>3 DEF PoolInv, NoWarn

\* bus1_message_stage()
LEMMA StageStep ==
  ASSUME PoolInv, NEW m \in Message, Stage(m)
  PROVE  PoolInv' /\ Stays
<1>1. /\ m \in sending /\ sending' = sending \ {m} /\ queued' = queued \cup {m}
      /\ UNCHANGED <<pool, published, ref, releasing, flushed, call, cursor, warned>>
  BY DEF Stage
<1>2. OneOwner'
  BY <1>1 DEF PoolInv, OneOwner
<1>3. OwnerSets' \subseteq OwnerSets
  BY <1>1 DEF OwnerSets
<1>4. m \notin queued
  BY <1>1 DEF PoolInv, OneOwner
<1>5. ASSUME NEW x \in Message PROVE Owners(x)' = Owners(x)
  <2>1. Bit(sending, x)' + Bit(queued, x)' = Bit(sending, x) + Bit(queued, x)
    BY SMTT(30), <1>1, <1>4 DEF Bit
  <2>2. /\ Bit(published, x)' = Bit(published, x) /\ Bit(releasing, x)' = Bit(releasing, x)
        /\ Bit(flushed, x)' = Bit(flushed, x)
    BY <1>1 DEF Bit
  <2> QED
    BY <2>1, <2>2 DEF Owners
<1>6. WalkAhead' /\ FlushUnpublishesAll'
  <2>1. PoolOK' /\ Reorders
    BY <1>1, SamePool
  <2>2. WalkAhead'
    BY <1>1, <2>1, WalkKept DEF PoolInv
  <2> QED
    BY <1>1, <2>2 DEF PoolInv, FlushUnpublishesAll
<1> QED
  BY <1>1, <1>2, <1>3, <1>5, <1>6, MoveStep DEF PoolInv, RestOK

\* SLICE_RELEASE moves the reference of user space to the call.
LEMMA SliceReleaseStep ==
  ASSUME PoolInv, NEW o, SliceRelease(o)
  PROVE  PoolInv' /\ Stays
<1>1. PICK m \in published :
        /\ warned' = (warned \/ m \notin published)
        /\ published' = published \ {m} /\ releasing' = releasing \cup {m}
  BY DEF SliceRelease, FindPublished
<1>2. /\ call = "none"
      /\ UNCHANGED <<pool, ref, sending, queued, flushed, call, cursor>>
  BY DEF SliceRelease
<1>3. warned' = warned
  BY <1>1 DEF PoolInv, RestOK
<1>4. OneOwner'
  BY <1>1, <1>2 DEF PoolInv, OneOwner
<1>5. OwnerSets' \subseteq OwnerSets
  BY <1>1, <1>2 DEF OwnerSets
<1>6. m \notin releasing
  BY <1>1 DEF PoolInv, OneOwner
<1>7. ASSUME NEW x \in Message PROVE Owners(x)' = Owners(x)
  BY SMTT(30), <1>1, <1>2, <1>6 DEF Owners, Bit
<1>8. WalkAhead' /\ FlushUnpublishesAll'
  BY <1>2 DEF WalkAhead, FlushUnpublishesAll
<1> QED
  BY <1>2, <1>3, <1>4, <1>5, <1>7, <1>8, MoveStep DEF PoolInv, RestOK

\* bus1_queue_flush()
LEMMA FlushQueueStep ==
  ASSUME PoolInv, FlushQueue
  PROVE  PoolInv' /\ Stays
<1>1. PICK S \in SUBSET queued : flushed' = S /\ queued' = queued \ S
  BY DEF FlushQueue
<1>2. /\ call = "none" /\ call' = "flush_queue"
      /\ UNCHANGED <<pool, published, ref, sending, releasing, cursor, warned>>
  BY DEF FlushQueue
<1>3. flushed = {} /\ published \cap queued = {}
  BY <1>2 DEF PoolInv, OneOwner
<1>4. OneOwner'
  BY <1>1, <1>2, <1>3 DEF PoolInv, OneOwner
<1>5. OwnerSets' \subseteq OwnerSets
  BY <1>1, <1>2 DEF OwnerSets
<1>6. ASSUME NEW x \in Message PROVE Owners(x)' = Owners(x)
  <2>1. Bit(queued, x)' + Bit(flushed, x)' = Bit(queued, x) + Bit(flushed, x)
    BY SMTT(30), <1>1, <1>3 DEF Bit
  <2> QED
    BY SMTT(30), <1>1, <1>2, <1>3 DEF Owners, Bit
<1>7. WalkAhead' /\ FlushUnpublishesAll'
  BY <1>2 DEF WalkAhead, FlushUnpublishesAll
<1> QED
  BY <1>2, <1>4, <1>5, <1>6, <1>7, MoveStep DEF PoolInv, RestOK

\* The walk starts at the root slice, before all published ones.
LEMMA FlushPoolStep ==
  ASSUME PoolInv, FlushPool
  PROVE  PoolInv' /\ Stays
<1>1. /\ call = "flush_queue" /\ call' = "walk" /\ cursor' = Head(slices)
      /\ UNCHANGED <<pool, published, ref, sending, queued, releasing, flushed, warned>>
  BY DEF FlushPool
<1>2. slices' = slices
  BY <1>1 DEF pool
<1>3. /\ slices \in Seq(Slice) /\ Len(slices) > 0
      /\ \A i, j \in 1 .. Len(slices) : slices[i] = slices[j] => i = j
  BY DEF PoolInv, PoolOK, Listed
<1>4. cursor' = slices[1] /\ cursor' \in Slice
  BY SMTT(30), <1>1, <1>3
<1>5. OneOwner' /\ FlushUnpublishesAll' /\ OwnerSets' = OwnerSets
  BY <1>1 DEF PoolInv, OneOwner, FlushUnpublishesAll, OwnerSets
<1>6. WalkAhead'
  <2>1. \A i \in 1 .. Len(slices) : slices[i] = slices[1] => i = 1
    BY SMTT(30), <1>3
  <2> QED
    BY SMTT(30), <1>2, <1>3, <1>4, <2>1 DEF WalkAhead
<1>7. \A x \in Message : Owners(x)' = Owners(x)
  BY <1>1 DEF Owners, Bit
<1> QED
  BY <1>1, <1>4, <1>5, <1>6, <1>7, MoveStep

\* The walk takes its entry and goes on, so that what is published stays ahead.
LEMMA WalkStep ==
  ASSUME PoolInv, Walk
  PROVE  PoolInv' /\ Stays
<1>1. /\ call = "walk" /\ cursor \in ToSet(slices)
      /\ published' = published \ {cursor}
      /\ flushed' = flushed \cup (published \cap {cursor})
      /\ cursor' = EntryAfter(cursor)
      /\ call' = IF cursor' = NULL THEN "flush_slices" ELSE "walk"
      /\ UNCHANGED <<pool, ref, sending, queued, releasing, warned>>
  BY DEF Walk
<1>2. slices' = slices
  BY <1>1 DEF pool
<1>3. /\ slices \in Seq(Slice) /\ Len(slices) \in Nat
      /\ \A i, j \in 1 .. Len(slices) : slices[i] = slices[j] => i = j
  BY SMTT(30) DEF PoolInv, PoolOK, Listed
<1>4. PICK k \in 1 .. Len(slices) : k = Position(cursor) /\ slices[k] = cursor
  BY <1>1, PositionOf DEF PoolInv
<1>5. \A j \in 1 .. Len(slices) : slices[j] \in published' => j > k
  <2> SUFFICES ASSUME NEW j \in 1 .. Len(slices), slices[j] \in published'
               PROVE  j > k
    OBVIOUS
  <2>1. k <= j
    BY <1>1, <1>4 DEF PoolInv, WalkAhead
  <2>2. j # k
    BY <1>1, <1>4
  <2> QED
    BY SMTT(30), <2>1, <2>2
<1>6. cursor' \in Slice \cup {NULL} /\ WalkAhead' /\ FlushUnpublishesAll'
  <2>1. CASE k = Len(slices)
    <3>1. cursor' = NULL /\ call' = "flush_slices"
      BY <1>1, <1>4, <2>1 DEF EntryAfter
    <3>2. published' = {}
      <4> SUFFICES ASSUME NEW m \in published' PROVE FALSE
        OBVIOUS
      <4>1. m \in published
        BY <1>1
      <4>2. m \in ToSet(slices)
        BY <4>1, PublishedAllocated DEF PoolInv, PoolOK
      <4>3. PICK j \in 1 .. Len(slices) : slices[j] = m
        BY <1>3, <4>2, Elements
      <4> QED
        BY SMTT(30), <1>3, <1>5, <2>1, <4>3
    <3> QED
      BY <3>1, <3>2 DEF WalkAhead, FlushUnpublishesAll
  <2>2. CASE k # Len(slices)
    <3>1. k + 1 \in 1 .. Len(slices)
      BY SMTT(30), <1>3, <2>2
    <3>2. cursor' = slices[k + 1]
      BY <1>1, <1>4, <2>2 DEF EntryAfter
    <3>3. cursor' \in Slice /\ cursor' # NULL
      BY SMTT(30), <1>3, <3>1, <3>2, PoolAssumption DEF Slice
    <3>4. ASSUME NEW i \in 1 .. Len(slices), NEW j \in 1 .. Len(slices),
                 slices[i] = cursor', slices[j] \in published'
          PROVE  i <= j
      <4>1. i = k + 1
        BY <1>3, <3>1, <3>2, <3>4
      <4> QED
        BY SMTT(30), <1>3, <1>5, <3>4, <4>1
    <3>5. WalkAhead'
      BY <1>2, <3>4 DEF WalkAhead
    <3> QED
      BY <1>1, <3>3, <3>5 DEF FlushUnpublishesAll
  <2> QED
    BY <2>1, <2>2
<1>7. call' \in {"walk", "flush_slices"}
  BY <1>1
<1>8. OneOwner'
  BY <1>1, <1>7 DEF PoolInv, OneOwner
<1>9. OwnerSets' \subseteq OwnerSets
  BY <1>1 DEF OwnerSets
<1>10. ASSUME NEW x \in Message PROVE Owners(x)' = Owners(x)
  <2>1. published \cap flushed = {}
    BY DEF PoolInv, OneOwner
  <2>2. Bit(published, x)' + Bit(flushed, x)' = Bit(published, x) + Bit(flushed, x)
    BY SMTT(30), <1>1, <2>1 DEF Bit
  <2>3. /\ Bit(sending, x)' = Bit(sending, x) /\ Bit(queued, x)' = Bit(queued, x)
        /\ Bit(releasing, x)' = Bit(releasing, x)
    BY <1>1 DEF Bit
  <2>4. /\ \A S : Bit(S, x) \in Nat
        /\ Bit(published, x)' \in Nat /\ Bit(flushed, x)' \in Nat
    BY DEF Bit
  <2> QED
    BY SMTT(30), <2>2, <2>3, <2>4 DEF Owners
<1> QED
  BY <1>1, <1>6, <1>7, <1>8, <1>9, <1>10, MoveStep

\* The walk meets a removed entry.
LEMMA WalkFaultsStep ==
  ASSUME PoolInv, WalkFaults
  PROVE  PoolInv' /\ Stays
<1>1. /\ call = "walk" /\ call' = "dead"
      /\ UNCHANGED <<pool, published, ref, sending, queued, releasing, flushed,
                     cursor, warned>>
  BY DEF WalkFaults
<1>2. OneOwner' /\ OwnerSets' = OwnerSets /\ WalkAhead' /\ FlushUnpublishesAll'
  BY <1>1 DEF PoolInv, OneOwner, OwnerSets, WalkAhead, FlushUnpublishesAll
<1>3. \A x \in Message : Owners(x)' = Owners(x)
  BY <1>1 DEF Owners, Bit
<1> QED
  BY <1>1, <1>2, <1>3, MoveStep DEF PoolInv, RestOK

\* The end of a RESET
LEMMA FlushDoneStep ==
  ASSUME PoolInv, FlushDone
  PROVE  PoolInv' /\ Stays
<1>1. /\ call = "flush_slices" /\ flushed = {} /\ call' = "none"
      /\ UNCHANGED <<pool, published, ref, sending, queued, releasing, flushed,
                     cursor, warned>>
  BY DEF FlushDone
<1>2. OneOwner' /\ OwnerSets' = OwnerSets /\ WalkAhead' /\ FlushUnpublishesAll'
  BY <1>1 DEF PoolInv, OneOwner, OwnerSets, WalkAhead, FlushUnpublishesAll
<1>3. \A x \in Message : Owners(x)' = Owners(x)
  BY <1>1 DEF Owners, Bit
<1> QED
  BY <1>1, <1>2, <1>3, MoveStep DEF PoolInv, RestOK

\* bus1_message_install()
LEMMA InstallStep ==
  ASSUME PoolInv, NEW m \in Message, Install(m)
  PROVE  PoolInv' /\ Stays
<1>1. /\ call = "none" /\ m \in queued /\ ref' = [ref EXCEPT ![m] = @ + 1]
      /\ published' = published \cup {m} /\ call' = "recv" /\ cursor' = m
      /\ warned' = (warned \/ m \in published)
      /\ UNCHANGED <<pool, sending, queued, releasing, flushed>>
  BY DEF Install
<1>2. PoolOK' /\ Stays
  BY <1>1, SamePool
<1>3. m \notin published /\ OneOwner'
  BY <1>1 DEF PoolInv, OneOwner
<1>4. ref \in [Message -> Nat]
  BY DEF PoolInv, RestOK
<1>5. RestOK'
  <2>1. ref' \in [Message -> Nat]
    BY SMTT(30), <1>1, <1>4
  <2>2. (published \cup sending \cup queued \cup releasing \cup flushed)' \subseteq Message
    BY SMTT(30), <1>1 DEF PoolInv, RestOK
  <2>3. warned' \in BOOLEAN /\ cursor' \in Slice
    BY <1>1 DEF PoolInv, RestOK, NoWarn, Slice
  <2> QED
    BY <1>1, <2>1, <2>2, <2>3 DEF RestOK
<1>6. OwnersOK'
  <2> SUFFICES ASSUME NEW x \in Message
               PROVE  ref'[x] = Owners(x)' /\ (Owners(x)' > 0 <=> x \in allocated')
    BY DEF OwnersOK
  <2>1. ref[x] = Owners(x) /\ (Owners(x) > 0 <=> x \in allocated)
    BY DEF PoolInv, OwnersOK
  <2>2. allocated' = allocated
    BY <1>1 DEF pool
  <2>3. CASE x = m
    <3>1. Owners(m)' = Owners(m) + 1 /\ Owners(m) > 0 /\ Owners(m) \in Nat
      BY SMTT(30), <1>1, <1>3 DEF Owners, Bit
    <3>2. ref'[m] = ref[m] + 1
      BY <1>1, <1>4
    <3> QED
      BY SMTT(30), <2>1, <2>2, <2>3, <3>1, <3>2
  <2>4. CASE x # m
    <3>1. Owners(x)' = Owners(x)
      BY <1>1, <2>4 DEF Owners, Bit
    <3>2. ref'[x] = ref[x]
      BY <1>1, <1>4, <2>4
    <3> QED
      BY <2>1, <2>2, <3>1, <3>2
  <2> QED
    BY <2>3, <2>4
<1>7. WalkAhead' /\ FlushUnpublishesAll'
  BY <1>1 DEF WalkAhead, FlushUnpublishesAll
<1>8. NoWarn'
  BY <1>1, <1>3 DEF PoolInv, NoWarn
<1> QED
  BY <1>2, <1>3, <1>5, <1>6, <1>7, <1>8 DEF PoolInv

\* The size of a slice is a positive multiple of 8.
LEMMA MessageSizes ==
  ASSUME NEW n \in Nat
  PROVE  /\ MessageSize(n) \in Nat /\ MessageSize(n) > 0
         /\ MessageSize(n) % 8 = 0
<1>1. PICK k : k = (n + 7) \div 8
  OBVIOUS
<1>2. k \in Nat
  BY SMTT(30), <1>1
<1>3. (k * 8) \in Nat /\ (k * 8) % 8 = 0
  BY SMTT(30), <1>2
<1>4. MessageSize(n) = IF k * 8 > 8 THEN k * 8 ELSE 8
  BY <1>1 DEF MessageSize, Align
<1> QED
  BY SMTT(30), <1>3, <1>4

\* bus1_factory_instantiate(): the message had no owner, so its slice is new.
LEMMA InstantiateStep ==
  ASSUME PoolInv, NEW m \in Message, NEW n \in Length, Instantiate(m, n)
  PROVE  PoolInv' /\ Stays
<1>1. /\ ref[m] = 0 /\ m # cursor /\ ref' = [ref EXCEPT ![m] = 1]
      /\ sending' = sending \cup {m} /\ warned' = (warned \/ m \in allocated)
      /\ UNCHANGED <<published, queued, releasing, flushed, call, cursor>>
  BY DEF Instantiate
<1>2. PICK ps \in FindFree(MessageSize(n)) : Alloc(m, MessageSize(n), ps)
  BY DEF Instantiate
<1>3. /\ MessageSize(n) \in Nat /\ MessageSize(n) > 0
      /\ MessageSize(n) % 8 = 0
  BY PoolAssumption, MessageSizes
<1>4. Owners(m) = 0 /\ m \notin allocated
  <2>1. ref[m] = Owners(m) /\ (Owners(m) > 0 <=> m \in allocated)
    BY DEF PoolInv, OwnersOK
  <2> QED
    BY SMTT(30), <1>1, <2>1
<1>5. m \notin OwnerSets
  BY SMTT(30), <1>4 DEF Owners, Bit, OwnerSets
<1>6. /\ PoolOK' /\ allocated' = allocated \cup {m}
      /\ SameOrder(slices, slices', m) /\ OthersStay(m)
  BY <1>2, <1>3, <1>4, AllocPool DEF PoolInv
<1>7. Stays /\ Reorders
  BY <1>1, <1>4, <1>6, AllocStays
<1>8. ref \in [Message -> Nat]
  BY DEF PoolInv, RestOK
<1>9. RestOK'
  <2>1. ref' \in [Message -> Nat]
    BY <1>1, <1>8
  <2>2. (published \cup sending \cup queued \cup releasing \cup flushed)' \subseteq Message
    BY <1>1 DEF PoolInv, RestOK
  <2>3. warned' \in BOOLEAN
    BY <1>1, <1>4 DEF PoolInv, RestOK
  <2> QED
    BY <1>1, <2>1, <2>2, <2>3 DEF PoolInv, RestOK
<1>10. OwnersOK'
  <2> SUFFICES ASSUME NEW x \in Message
               PROVE  ref'[x] = Owners(x)' /\ (Owners(x)' > 0 <=> x \in allocated')
    BY DEF OwnersOK
  <2>1. ref[x] = Owners(x) /\ (Owners(x) > 0 <=> x \in allocated)
    BY DEF PoolInv, OwnersOK
  <2>2. CASE x = m
    <3>1. Owners(m)' = 1
      BY SMTT(30), <1>1, <1>5 DEF Owners, Bit, OwnerSets
    <3>2. ref'[m] = 1
      BY <1>1, <1>8
    <3> QED
      BY SMTT(30), <1>6, <2>2, <3>1, <3>2
  <2>3. CASE x # m
    <3>1. Owners(x)' = Owners(x)
      BY <1>1, <2>3 DEF Owners, Bit
    <3>2. ref'[x] = ref[x]
      BY <1>1, <1>8, <2>3
    <3>3. x \in allocated' <=> x \in allocated
      BY <1>6, <2>3
    <3> QED
      BY <2>1, <3>1, <3>2, <3>3
  <2> QED
    BY <2>2, <2>3
<1>11. OneOwner'
  BY <1>1, <1>5 DEF PoolInv, OneOwner, OwnerSets
<1>12. WalkAhead'
  BY <1>1, <1>6, <1>7, WalkKept DEF PoolInv
<1>13. FlushUnpublishesAll' /\ NoWarn'
  BY <1>1, <1>4 DEF PoolInv, FlushUnpublishesAll, NoWarn
<1> QED
  BY <1>6, <1>7, <1>9, <1>10, <1>11, <1>12, <1>13 DEF PoolInv

---------------------------------------------------------------------------
(* The theorems *)

\* bus1_pool_create(): all space is free space of the root slice.
LEMMA InitPool ==
  ASSUME Init
  PROVE  PoolInv
<1>1. /\ slices = <<root_slice>>
      /\ at = [s \in Slice |->
                 [offset |-> 0, size |-> 0,
                  free |-> IF s = root_slice THEN SLICE_SIZE_MAX ELSE 0]]
      /\ slices_free = {root_slice} /\ slices_offset = {}
      /\ allocated_size = 0 /\ allocated = {} /\ published = {}
      /\ ref = [m \in Message |-> 0]
      /\ sending = {} /\ queued = {} /\ releasing = {} /\ flushed = {}
      /\ call = "none" /\ cursor = NULL /\ warned = FALSE
  BY DEF Init
<1>2. root_slice \in Slice /\ Len(slices) = 1 /\ slices[1] = root_slice
  BY <1>1 DEF Slice
<1>3. Listed(slices)
  BY SMTT(30), <1>1, <1>2 DEF Listed
<1>4. ToSet(slices) = {root_slice}
  BY SMTT(30), <1>1, <1>2 DEF ToSet
<1>5. at \in [Slice -> Fields] /\ Layout(slices, at)
  <2>1. at \in [Slice -> Fields]
    BY <1>1, PoolAssumption DEF Fields
  <2>2. at[root_slice].offset = 0 /\ at[root_slice].size = 0
        /\ at[root_slice].free = SLICE_SIZE_MAX
    BY <1>1, <1>2
  <2>3. EndOf(at[root_slice]) = SLICE_SIZE_MAX
    BY SMTT(30), <2>2, PoolAssumption DEF EndOf
  <2>4. \A i : i \notin 2 .. Len(slices)
    BY SMTT(30), <1>2
  <2> QED
    BY <1>2, <2>1, <2>2, <2>3, <2>4 DEF Layout
<1>6. slices_free = {s \in ToSet(slices) : at[s].free > 0}
  <2>1. at[root_slice].free > 0
    BY SMTT(30), <1>1, <1>2, PoolAssumption
  <2> QED
    BY <1>1, <1>4, <2>1
<1>7. PoolOK
  <2>1. IsFiniteSet(allocated) /\ allocated \subseteq Message
    BY <1>1, FS_EmptySet
  <2>2. allocated_size = SumFunctionOnSet(Sizes, allocated)
    BY <1>1, SumEmpty
  <2>3. ToSet(slices) = allocated \cup {root_slice} /\ slices_offset = allocated
    BY <1>1, <1>4
  <2> QED
    BY <1>3, <1>5, <1>6, <2>1, <2>2, <2>3 DEF PoolOK
<1>8. RestOK
  <2>1. ref \in [Message -> Nat]
    BY <1>1
  <2> QED
    BY <1>1, <2>1 DEF RestOK
<1>9. OwnersOK
  <2> SUFFICES ASSUME NEW m \in Message
               PROVE  ref[m] = Owners(m) /\ (Owners(m) > 0 <=> m \in allocated)
    BY DEF OwnersOK
  <2>1. Owners(m) = 0 /\ ref[m] = 0
    BY SMTT(30), <1>1 DEF Owners, Bit
  <2> QED
    BY SMTT(30), <1>1, <2>1
<1>10. OneOwner /\ WalkAhead /\ NoWarn /\ FlushUnpublishesAll
  BY <1>1 DEF OneOwner, WalkAhead, NoWarn, FlushUnpublishesAll
<1> QED
  BY <1>7, <1>8, <1>9, <1>10 DEF PoolInv

\* Every step keeps the invariant, and the published slices where they are.
LEMMA NextPool ==
  ASSUME PoolInv, Next
  PROVE  PoolInv' /\ Stays
<1>1. ASSUME NEW m \in Message, NEW n \in Length, Instantiate(m, n)
      PROVE  PoolInv' /\ Stays
  BY <1>1, InstantiateStep
<1>2. ASSUME NEW m \in Message,
             Abort(m) \/ Stage(m) \/ Install(m) \/ Drop(m)
             \/ SliceReleaseUnref(m) \/ FlushUnref(m)
      PROVE  PoolInv' /\ Stays
  BY <1>2, AbortStep, StageStep, InstallStep, DropStep,
     SliceReleaseUnrefStep, FlushUnrefStep
<1>3. ASSUME NEW o \in 0 .. SLICE_SIZE_MAX, SliceRelease(o)
      PROVE  PoolInv' /\ Stays
  BY <1>3, SliceReleaseStep
<1>4. CASE RecvDone \/ FlushQueue \/ FlushPool \/ Walk \/ WalkFaults \/ FlushDone
  BY <1>4, RecvDoneStep, FlushQueueStep, FlushPoolStep, WalkStep,
     WalkFaultsStep, FlushDoneStep
<1> QED
  BY <1>1, <1>2, <1>3, <1>4 DEF Next

\* A stuttering step changes nothing the invariant speaks of.
LEMMA IdlePool ==
  ASSUME PoolInv, UNCHANGED vars
  PROVE  PoolInv'
<1>1. UNCHANGED pool /\ UNCHANGED <<ref, warned, cursor, call, published>>
      /\ UNCHANGED <<sending, queued, releasing, flushed>>
  BY DEF vars
<1>2. PoolOK'
  BY <1>1, SamePool
<1>3. RestOK' /\ OneOwner' /\ NoWarn' /\ FlushUnpublishesAll'
  BY <1>1 DEF PoolInv, RestOK, OneOwner, NoWarn, FlushUnpublishesAll
<1>4. OwnersOK'
  BY <1>1 DEF PoolInv, OwnersOK, Owners, Bit, pool
<1>5. WalkAhead'
  BY <1>1 DEF PoolInv, WalkAhead, pool
<1> QED
  BY <1>2, <1>3, <1>4, <1>5 DEF PoolInv

\* PoolInv is an invariant of the pool.
LEMMA PoolAlways == Spec => []PoolInv
<1>1. Init => PoolInv
  BY InitPool
<1>2. PoolInv /\ [Next]_vars => PoolInv'
  BY NextPool, IdlePool
<1> QED
  BY <1>1, <1>2, PTL DEF Spec

\* The inductive invariant holds for any set of messages, any size of the
\* pool and any payload lengths.
THEOREM Inductive == Spec => []IInv
<1>1. PoolInv => IInv
  BY PoolInvIInv
<1> QED
  BY <1>1, PoolAlways, PTL

\* bus1_pool_alloc() and bus1_pool_dealloc() keep the list a tiling of the
\* pool and both trees and allocated_size in step with it.
THEOREM Tiling == Spec => []SlicesTile
<1>1. IInv => SlicesTile
  BY DEF IInv
<1> QED
  BY <1>1, Inductive, PTL

\* The reference count of a message is the number of its owners, and its
\* slice is allocated exactly while there is one.
THEOREM ReferencesExact == Spec => []OwnersPinSlices
<1>1. IInv => OwnersPinSlices
  BY DEF IInv
<1> QED
  BY <1>1, Inductive, PTL

\* No WARN_ON of the pool fires.
THEOREM NoWarnings == Spec => []NoWarn
<1>1. IInv => NoWarn
  BY DEF IInv
<1> QED
  BY <1>1, Inductive, PTL

\* bus1_pool_flush() leaves no slice published, though it walks the list
\* without data.lock while senders change it.
THEOREM FlushComplete == Spec => []FlushUnpublishesAll
<1>1. IInv => FlushUnpublishesAll
  BY DEF IInv
<1> QED
  BY <1>1, Inductive, PTL

\* No step moves, resizes or frees a slice that user space holds.
THEOREM PublishedFixed == Spec => PublishedStaysPut
<1>1. PoolInv /\ [Next]_vars =>
        [\A m \in published :
           /\ m \in slices_offset'
           /\ at'[m].offset = at[m].offset /\ at'[m].size = at[m].size]_vars
  BY NextPool DEF Stays
<1> QED
  BY <1>1, PoolAlways, PTL DEF Spec, PublishedStaysPut
=============================================================================
