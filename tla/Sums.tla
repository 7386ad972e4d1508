------------------------------- MODULE Sums -------------------------------
(* Facts about SumFunctionOnSet(f, S), the sum of f[x] for all x in a finite *)
(* set S, with which the models state what counters and sizes add up to.     *)
(* The fold that defines it is a recursive function on the subsets of S; the *)
(* proofs pick a smallest subset at which a fact fails, which exists because *)
(* strict inclusion is well-founded on the subsets of a finite set.          *)
EXTENDS Integers, FiniteSets, Functions, FiniteSetTheorems,
        WellFoundedInduction, TLAPS

USE ZenonT(30)

\* One unfolding of the fold: an element of s is picked and summed last.
Some(s) == CHOOSE x \in s : TRUE
Unfold(f, g, s) == IF s = {} THEN 0 ELSE f[Some(s)] + g[s \ {Some(s)}]

\* g holds the sum of f over every subset of S.
IsSum(f, g, S) == g = [s \in SUBSET S |-> Unfold(f, g, s)]

(* A set of subsets of a finite set that is not empty has an element none of *)
(* whose strict subsets it has.                                              *)
LEMMA Smallest ==
  ASSUME NEW S, IsFiniteSet(S), NEW T, T \subseteq SUBSET S, T # {}
  PROVE  \E s \in T : \A r \in T : r \subseteq s => r = s
<1> DEFINE R == StrictSubsetOrdering(S)
<1>1. IsWellFoundedOn(R, SUBSET S)
  BY FS_FiniteSubsetsOfFinite, FS_StrictSubsetOrderingWellFounded
<1>2. PICK s \in T : \A r \in T : ~(<<r, s>> \in R)
  <2> HIDE DEF R
  <2> QED
    BY <1>1, WFMin
<1>3. ASSUME NEW r \in T, r \subseteq s, r # s
      PROVE  FALSE
  <2>1. <<r, s>> \in R
    BY <1>3 DEF StrictSubsetOrdering
  <2> QED
    BY <2>1, <1>2
<1> QED
  BY <1>3

LEMMA SomeIn ==
  ASSUME NEW s, s # {}
  PROVE  Some(s) \in s
BY DEF Some

LEMMA SumIsFold ==
  ASSUME NEW f, NEW S
  PROVE  SumFunctionOnSet(f, S) = (CHOOSE g : IsSum(f, g, S))[S]
BY DEF SumFunctionOnSet, FoldFunctionOnSet, MapThenFoldSet, IsSum, Unfold, Some

(* The functions for a set and for a subset of it agree on the subset. *)
LEMMA SumAgree ==
  ASSUME NEW f, NEW U, IsFiniteSet(U), NEW V \in SUBSET U, NEW g, NEW h,
         IsSum(f, g, U), IsSum(f, h, V)
  PROVE  g[V] = h[V]
<1> DEFINE T == {s \in SUBSET V : g[s] # h[s]}
<1> SUFFICES ASSUME T # {} PROVE FALSE
  OBVIOUS
<1>1. PICK s \in T : \A r \in T : r \subseteq s => r = s
  <2>1. T \subseteq SUBSET U
    OBVIOUS
  <2> HIDE DEF T
  <2> QED
    BY SMTT(30), <2>1, Smallest
<1>2. s \in SUBSET U /\ s \in SUBSET V /\ g[s] # h[s]
  OBVIOUS
<1>3. g[s] = Unfold(f, g, s) /\ h[s] = Unfold(f, h, s)
  BY <1>2 DEF IsSum
<1>4. s # {}
  BY <1>2, <1>3 DEF Unfold
<1>5. s \ {Some(s)} \notin T
  BY <1>1, <1>4, SomeIn
<1>6. g[s \ {Some(s)}] = h[s \ {Some(s)}]
  BY <1>5, <1>2
<1> QED
  BY <1>2, <1>3, <1>4, <1>6 DEF Unfold

(* Such a function exists for every finite set. *)
LEMMA SumExists ==
  ASSUME NEW f, NEW S, IsFiniteSet(S)
  PROVE  \E g : IsSum(f, g, S)
<1> DEFINE T == {t \in SUBSET S : ~\E g : IsSum(f, g, t)}
<1> SUFFICES ASSUME T # {} PROVE FALSE
  <2>1. S \in SUBSET S
    OBVIOUS
  <2> QED
    BY <2>1
<1>1. PICK t \in T : \A r \in T : r \subseteq t => r = t
  <2>1. T \subseteq SUBSET S
    OBVIOUS
  <2> HIDE DEF T
  <2> QED
    BY SMTT(30), <2>1, Smallest
<1>2. t \subseteq S /\ ~\E g : IsSum(f, g, t)
  OBVIOUS
<1> DEFINE G(u) == CHOOSE g : IsSum(f, g, u)
           h == [s \in SUBSET t |-> IF s = {} THEN 0 ELSE
                   f[Some(s)] + G(s \ {Some(s)})[s \ {Some(s)}]]
<1>3. ASSUME NEW u, u \subseteq t, u # t
      PROVE  IsSum(f, G(u), u)
  <2>1. u \in SUBSET S /\ u \notin T
    BY <1>1, <1>2, <1>3
  <2>2. \E g : IsSum(f, g, u)
    BY <2>1
  <2> QED
    BY <2>2
<1>4. ASSUME NEW u, u \subseteq t, u # t
      PROVE  G(u)[u] = h[u]
  <2>1. IsSum(f, G(u), u)
    BY <1>3, <1>4
  <2>2. G(u)[u] = Unfold(f, G(u), u)
    <3> HIDE DEF G
    <3>1. u \in SUBSET u
      OBVIOUS
    <3> QED
      BY <2>1, <3>1 DEF IsSum
  <2>3. CASE u = {}
    <3> HIDE DEF G
    <3> QED
      BY <2>2, <2>3 DEF Unfold
  <2>4. CASE u # {}
    <3> DEFINE v == u \ {Some(u)}
    <3>1. v \in SUBSET u /\ v \subseteq t /\ v # t /\ IsFiniteSet(u)
      BY <1>2, <1>4, <2>4, SomeIn, FS_Subset
    <3>2. IsSum(f, G(v), v)
      BY <3>1, <1>3
    <3>3. G(u)[v] = G(v)[v]
      <4> HIDE DEF G, v
      <4> QED
        BY SMTT(30), <2>1, <3>1, <3>2, SumAgree
    <3> QED
      <4> HIDE DEF G
      <4> QED
        BY <2>2, <2>4, <3>3, <1>4 DEF Unfold
  <2> QED
    BY <2>3, <2>4
<1>5. ASSUME NEW s \in SUBSET t
      PROVE  h[s] = Unfold(f, h, s)
  <2>1. CASE s = {}
    <3> HIDE DEF G
    <3> QED
      BY <2>1 DEF Unfold
  <2>2. CASE s # {}
    <3> DEFINE v == s \ {Some(s)}
    <3>1. v \subseteq t /\ v # t
      BY <2>2, SomeIn
    <3>2. G(v)[v] = h[v]
      BY <3>1, <1>4
    <3>3. h[s] = f[Some(s)] + G(v)[v]
      <4> HIDE DEF G
      <4> QED
        BY <2>2
    <3> QED
      <4> HIDE DEF G, h
      <4> QED
        BY <3>2, <3>3, <2>2 DEF Unfold
  <2> QED
    BY <2>1, <2>2
<1>6. h = [s \in SUBSET t |-> h[s]]
  <2> HIDE DEF G
  <2> QED
    OBVIOUS
<1>7. IsSum(f, h, t)
  <2> HIDE DEF h
  <2> QED
    BY <1>5, <1>6 DEF IsSum
<1> QED
  <2> HIDE DEF h
  <2> QED
    BY <1>7, <1>2

(* The sum satisfies the equation of the fold. *)
LEMMA SumUnfold ==
  ASSUME NEW f, NEW S, IsFiniteSet(S)
  PROVE  SumFunctionOnSet(f, S) =
           IF S = {} THEN 0
           ELSE f[Some(S)] + SumFunctionOnSet(f, S \ {Some(S)})
<1> DEFINE r == S \ {Some(S)}
           g == CHOOSE k : IsSum(f, k, S)
           h == CHOOSE k : IsSum(f, k, r)
<1>1. IsFiniteSet(r) /\ r \in SUBSET S
  BY FS_Subset
<1>2. IsSum(f, g, S) /\ IsSum(f, h, r)
  BY <1>1, SumExists
<1>3. SumFunctionOnSet(f, S) = g[S] /\ SumFunctionOnSet(f, r) = h[r]
  BY SumIsFold
<1> HIDE DEF g, h, r
<1>4. g[r] = h[r]
  BY SMTT(30), <1>1, <1>2, SumAgree
<1>5. g[S] = Unfold(f, g, S)
  <2>1. S \in SUBSET S
    OBVIOUS
  <2> QED
    BY <1>2, <2>1 DEF IsSum
<1> QED
  BY <1>3, <1>4, <1>5 DEF Unfold, r
---------------------------------------------------------------------------
(* The facts the models use. *)

LEMMA SumEmpty ==
  ASSUME NEW f
  PROVE  SumFunctionOnSet(f, {}) = 0
BY SumUnfold, FS_EmptySet

LEMMA SumInt ==
  ASSUME NEW f, NEW S, IsFiniteSet(S), \A x \in S : f[x] \in Int
  PROVE  SumFunctionOnSet(f, S) \in Int
<1> DEFINE T == {s \in SUBSET S : SumFunctionOnSet(f, s) \notin Int}
<1> SUFFICES ASSUME T # {} PROVE FALSE
  OBVIOUS
<1>1. PICK s \in T : \A r \in T : r \subseteq s => r = s
  <2>1. T \subseteq SUBSET S
    OBVIOUS
  <2> HIDE DEF T
  <2> QED
    BY SMTT(30), <2>1, Smallest
<1>2. IsFiniteSet(s) /\ s \subseteq S /\ SumFunctionOnSet(f, s) \notin Int
  BY FS_Subset
<1>3. s # {}
  BY SMTT(30), <1>2, SumEmpty
<1>4. s \ {Some(s)} \notin T
  BY <1>1, <1>3, SomeIn
<1> QED
  BY SMTT(30), <1>2, <1>3, <1>4, SumUnfold, SomeIn

(* Any element may be summed last. *)
LEMMA SumRemove ==
  ASSUME NEW f, NEW S, IsFiniteSet(S), \A x \in S : f[x] \in Int, NEW y \in S
  PROVE  SumFunctionOnSet(f, S) = SumFunctionOnSet(f, S \ {y}) + f[y]
<1> DEFINE T == {s \in SUBSET S : \E x \in s :
                   SumFunctionOnSet(f, s) # SumFunctionOnSet(f, s \ {x}) + f[x]}
<1> SUFFICES ASSUME T # {} PROVE FALSE
  <2>1. S \in SUBSET S
    OBVIOUS
  <2> QED
    BY <2>1
<1>1. \A s : s \in T <=> s \in SUBSET S /\ \E x \in s :
        SumFunctionOnSet(f, s) # SumFunctionOnSet(f, s \ {x}) + f[x]
  OBVIOUS
<1> HIDE DEF T
<1>2. PICK s \in T : \A r \in T : r \subseteq s => r = s
  BY SMTT(30), <1>1, Smallest
<1>3. PICK x \in s :
        SumFunctionOnSet(f, s) # SumFunctionOnSet(f, s \ {x}) + f[x]
  BY <1>1
<1> DEFINE z == Some(s)
<1>4. /\ IsFiniteSet(s) /\ s \subseteq S /\ z \in s
      /\ f[x] \in Int /\ f[z] \in Int
      /\ SumFunctionOnSet(f, s) = f[z] + SumFunctionOnSet(f, s \ {z})
  BY <1>1, FS_Subset, SomeIn, SumUnfold
<1> HIDE DEF z
<1>5. \A r \in SUBSET s : SumFunctionOnSet(f, r) \in Int
  <2> TAKE r \in SUBSET s
  <2>1. IsFiniteSet(r) /\ \A e \in r : f[e] \in Int
    BY <1>4, FS_Subset
  <2> QED
    BY <2>1, SumInt
<1>6. x # z
  <2> DEFINE b == SumFunctionOnSet(f, s \ {z})
             c == f[z]
  <2>1. SumFunctionOnSet(f, s) = c + b /\ b \in Int /\ c \in Int
    BY <1>4, <1>5
  <2>2. x = z => SumFunctionOnSet(f, s) # b + c
    BY <1>3
  <2> HIDE DEF b, c
  <2> QED
    BY SMTT(30), <2>1, <2>2
<1>7. s \ {z} \notin T /\ s \ {x} \notin T
  BY <1>2, <1>3, <1>4
<1>8. /\ s \ {z} \in SUBSET S /\ s \ {x} \in SUBSET S
      /\ x \in s \ {z} /\ z \in s \ {x}
  BY <1>3, <1>4, <1>6
<1>9. /\ SumFunctionOnSet(f, s \ {z}) =
           SumFunctionOnSet(f, (s \ {z}) \ {x}) + f[x]
      /\ SumFunctionOnSet(f, s \ {x}) =
           SumFunctionOnSet(f, (s \ {x}) \ {z}) + f[z]
  BY <1>7, <1>8, <1>1
<1>10. (s \ {z}) \ {x} = (s \ {x}) \ {z} /\ (s \ {z}) \ {x} \in SUBSET s
  OBVIOUS
<1> DEFINE a == SumFunctionOnSet(f, (s \ {z}) \ {x})
<1>11. a \in Int
  BY <1>5, <1>10
<1>12. /\ SumFunctionOnSet(f, s) = f[z] + (a + f[x])
       /\ SumFunctionOnSet(f, s \ {x}) = a + f[z]
  BY <1>4, <1>9, <1>10
<1> HIDE DEF a
<1> QED
  BY SMTT(30), <1>3, <1>4, <1>11, <1>12

(* An element that is new adds its value. *)
LEMMA SumAdd ==
  ASSUME NEW f, NEW S, IsFiniteSet(S), NEW y, y \notin S,
         \A x \in S \cup {y} : f[x] \in Int
  PROVE  SumFunctionOnSet(f, S \cup {y}) = SumFunctionOnSet(f, S) + f[y]
<1>1. IsFiniteSet(S \cup {y}) /\ (S \cup {y}) \ {y} = S
  BY FS_AddElement
<1> QED
  BY <1>1, SumRemove

(* The sum depends on the values of f in S alone. *)
LEMMA SumSame ==
  ASSUME NEW f, NEW g, NEW S, IsFiniteSet(S), \A x \in S : f[x] = g[x]
  PROVE  SumFunctionOnSet(f, S) = SumFunctionOnSet(g, S)
<1> DEFINE T == {s \in SUBSET S : SumFunctionOnSet(f, s) # SumFunctionOnSet(g, s)}
<1> SUFFICES ASSUME T # {} PROVE FALSE
  OBVIOUS
<1>1. \A s : s \in T <=> s \in SUBSET S
                         /\ SumFunctionOnSet(f, s) # SumFunctionOnSet(g, s)
  OBVIOUS
<1> HIDE DEF T
<1>2. PICK s \in T : \A r \in T : r \subseteq s => r = s
  BY SMTT(30), <1>1, Smallest
<1>3. IsFiniteSet(s) /\ s \in SUBSET S
  BY <1>1, FS_Subset
<1>4. s # {}
  BY <1>1, SumEmpty
<1>5. Some(s) \in s /\ f[Some(s)] = g[Some(s)]
  BY <1>3, <1>4, SomeIn
<1>6. s \ {Some(s)} \notin T
  BY <1>2, <1>5
<1>7. SumFunctionOnSet(f, s \ {Some(s)}) = SumFunctionOnSet(g, s \ {Some(s)})
  BY <1>1, <1>3, <1>6
<1>8. /\ SumFunctionOnSet(f, s) = f[Some(s)] + SumFunctionOnSet(f, s \ {Some(s)})
      /\ SumFunctionOnSet(g, s) = g[Some(s)] + SumFunctionOnSet(g, s \ {Some(s)})
  BY <1>3, <1>4, SumUnfold
<1> QED
  BY <1>1, <1>5, <1>7, <1>8

(* One value changes: the sum changes by as much. *)
LEMMA SumChange ==
  ASSUME NEW f, NEW g, NEW S, IsFiniteSet(S), NEW y \in S,
         \A x \in S : f[x] \in Int /\ g[x] \in Int,
         \A x \in S \ {y} : f[x] = g[x]
  PROVE  SumFunctionOnSet(g, S) = SumFunctionOnSet(f, S) + (g[y] - f[y])
<1> DEFINE b == SumFunctionOnSet(f, S \ {y})
           c == f[y]
           d == g[y]
<1>1. IsFiniteSet(S \ {y})
  BY FS_Subset
<1>2. b \in Int /\ c \in Int /\ d \in Int
  BY <1>1, SumInt
<1>3. SumFunctionOnSet(f, S) = b + c
  BY SumRemove
<1>4. SumFunctionOnSet(g, S) = SumFunctionOnSet(g, S \ {y}) + d
  BY SumRemove
<1>5. SumFunctionOnSet(g, S \ {y}) = b
  BY SMTT(30), <1>1, SumSame
<1> HIDE DEF b, c, d
<1>6. SumFunctionOnSet(f, S) + (d - c) = b + d
  BY SMTT(30), <1>2, <1>3
<1> QED
  BY <1>4, <1>5, <1>6 DEF c, d

(* Values that are not negative: neither is the sum, and no value exceeds it. *)
LEMMA SumNat ==
  ASSUME NEW f, NEW S, IsFiniteSet(S), \A x \in S : f[x] \in Nat
  PROVE  /\ SumFunctionOnSet(f, S) \in Nat
         /\ \A y \in S : f[y] <= SumFunctionOnSet(f, S)
<1>1. ASSUME NEW U \in SUBSET S
      PROVE  SumFunctionOnSet(f, U) \in Nat
  <2> DEFINE T == {s \in SUBSET U : SumFunctionOnSet(f, s) \notin Nat}
  <2> SUFFICES ASSUME T # {} PROVE FALSE
    OBVIOUS
  <2>1. IsFiniteSet(U)
    BY FS_Subset
  <2>2. \A s : s \in T <=> s \in SUBSET U /\ SumFunctionOnSet(f, s) \notin Nat
    OBVIOUS
  <2> HIDE DEF T
  <2>3. PICK s \in T : \A r \in T : r \subseteq s => r = s
    BY SMTT(30), <2>1, <2>2, Smallest
  <2>4. IsFiniteSet(s) /\ s \in SUBSET U
    BY <2>1, <2>2, FS_Subset
  <2>5. s # {}
    <3>1. SumFunctionOnSet(f, s) \notin Nat /\ SumFunctionOnSet(f, {}) \in Nat
      BY SMTT(30), <2>2, SumEmpty
    <3> QED
      BY <3>1
  <2>6. Some(s) \in s /\ f[Some(s)] \in Nat
    BY <2>4, <2>5, SomeIn
  <2>7. s \ {Some(s)} \notin T
    BY <2>3, <2>6
  <2>8. SumFunctionOnSet(f, s \ {Some(s)}) \in Nat
    BY <2>2, <2>4, <2>7
  <2>9. SumFunctionOnSet(f, s) = f[Some(s)] + SumFunctionOnSet(f, s \ {Some(s)})
    BY <2>4, <2>5, SumUnfold
  <2> QED
    BY SMTT(30), <2>2, <2>6, <2>8, <2>9
<1>2. ASSUME NEW y \in S
      PROVE  f[y] <= SumFunctionOnSet(f, S)
  <2>1. SumFunctionOnSet(f, S) = SumFunctionOnSet(f, S \ {y}) + f[y]
    BY SMTT(30), SumRemove
  <2>2. SumFunctionOnSet(f, S \ {y}) \in Nat
    BY <1>1
  <2> DEFINE b == SumFunctionOnSet(f, S \ {y})
             c == f[y]
  <2>3. b \in Nat /\ c \in Nat /\ SumFunctionOnSet(f, S) = b + c
    BY <2>1, <2>2
  <2> HIDE DEF b, c
  <2>4. c <= SumFunctionOnSet(f, S)
    BY SMTT(30), <2>3
  <2> QED
    BY <2>4 DEF c
<1> QED
  BY <1>1, <1>2

(* Nothing but zeroes sums up to zero. *)
LEMMA SumZero ==
  ASSUME NEW f, NEW S, IsFiniteSet(S), \A x \in S : f[x] = 0
  PROVE  SumFunctionOnSet(f, S) = 0
<1> DEFINE T == {s \in SUBSET S : SumFunctionOnSet(f, s) # 0}
<1> SUFFICES ASSUME T # {} PROVE FALSE
  OBVIOUS
<1>1. \A s : s \in T <=> s \in SUBSET S /\ SumFunctionOnSet(f, s) # 0
  OBVIOUS
<1> HIDE DEF T
<1>2. PICK s \in T : \A r \in T : r \subseteq s => r = s
  BY SMTT(30), <1>1, Smallest
<1>3. IsFiniteSet(s) /\ s \in SUBSET S
  BY <1>1, FS_Subset
<1>4. s # {}
  BY <1>1, SumEmpty
<1>5. Some(s) \in s /\ f[Some(s)] = 0
  BY <1>3, <1>4, SomeIn
<1>6. s \ {Some(s)} \notin T
  BY <1>2, <1>5
<1>7. SumFunctionOnSet(f, s \ {Some(s)}) = 0
  BY <1>1, <1>3, <1>6
<1>8. SumFunctionOnSet(f, s) = f[Some(s)] + SumFunctionOnSet(f, s \ {Some(s)})
  BY <1>3, <1>4, SumUnfold
<1> QED
  BY SMTT(30), <1>1, <1>5, <1>7, <1>8

(* Larger summands give a larger sum. *)
LEMMA SumMonotone ==
  ASSUME NEW f, NEW g, NEW S, IsFiniteSet(S),
         \A x \in S : f[x] \in Int /\ g[x] \in Int /\ f[x] <= g[x]
  PROVE  SumFunctionOnSet(f, S) <= SumFunctionOnSet(g, S)
<1> DEFINE T == {s \in SUBSET S : ~(SumFunctionOnSet(f, s) <= SumFunctionOnSet(g, s))}
<1> SUFFICES ASSUME T # {} PROVE FALSE
  OBVIOUS
<1>1. \A s : s \in T <=>
        s \in SUBSET S /\ ~(SumFunctionOnSet(f, s) <= SumFunctionOnSet(g, s))
  OBVIOUS
<1> HIDE DEF T
<1>2. PICK s \in T : \A r \in T : r \subseteq s => r = s
  BY SMTT(30), <1>1, Smallest
<1>3. IsFiniteSet(s) /\ s \in SUBSET S
  BY <1>1, FS_Subset
<1>4. s # {}
  <2>1. SumFunctionOnSet(f, {}) <= SumFunctionOnSet(g, {})
    <3>1. SumFunctionOnSet(f, {}) = 0 /\ SumFunctionOnSet(g, {}) = 0
      BY SumEmpty
    <3> QED
      BY SMTT(30), <3>1
  <2> QED
    BY <1>1, <2>1
<1>5. Some(s) \in s /\ f[Some(s)] \in Int /\ g[Some(s)] \in Int /\ f[Some(s)] <= g[Some(s)]
  BY <1>3, <1>4, SomeIn
<1>6. s \ {Some(s)} \notin T
  BY <1>2, <1>5
<1>7. SumFunctionOnSet(f, s \ {Some(s)}) <= SumFunctionOnSet(g, s \ {Some(s)})
  BY <1>1, <1>3, <1>6
<1>8. /\ SumFunctionOnSet(f, s) = f[Some(s)] + SumFunctionOnSet(f, s \ {Some(s)})
      /\ SumFunctionOnSet(g, s) = g[Some(s)] + SumFunctionOnSet(g, s \ {Some(s)})
  BY <1>3, <1>4, SumUnfold
<1>9. /\ SumFunctionOnSet(f, s \ {Some(s)}) \in Int
      /\ SumFunctionOnSet(g, s \ {Some(s)}) \in Int
  <2>1. IsFiniteSet(s \ {Some(s)}) /\ s \ {Some(s)} \subseteq S
    BY <1>3, FS_Subset
  <2> QED
    BY <2>1, SumInt
<1> DEFINE a == f[Some(s)]
           b == g[Some(s)]
           m == SumFunctionOnSet(f, s \ {Some(s)})
           n == SumFunctionOnSet(g, s \ {Some(s)})
<1>10. /\ a \in Int /\ b \in Int /\ m \in Int /\ n \in Int /\ a <= b /\ m <= n
       /\ SumFunctionOnSet(f, s) = a + m /\ SumFunctionOnSet(g, s) = b + n
  BY <1>5, <1>7, <1>8, <1>9
<1> HIDE DEF a, b, m, n
<1>11. a + m <= b + n
  BY SMTT(30), <1>10
<1> QED
  BY <1>1, <1>2, <1>10, <1>11
=============================================================================
