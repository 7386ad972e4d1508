---------------------------- MODULE ActiveProofs ----------------------------
(***************************************************************************)
(* Proofs about Active, for any number of users and destroyers and any     *)
(* BIAS that exceeds the number of users.                                  *)
(***************************************************************************)
EXTENDS Active, FiniteSetTheorems, TLAPS

USE ZenonT(30)

(* The holders are finitely many, fewer than -BIAS, so that a deactivated  *)
(* counter cannot reach zero (BUS1_ACTIVE_BIAS).                           *)
LEMMA HoldersBounded ==
  /\ IsFiniteSet(Holders)
  /\ Cardinality(Holders) \in Nat
  /\ Cardinality(Holders) < -BIAS
  /\ Cardinality(Holders) = 0 <=> Holders = {}
<1>1. Holders \subseteq User
  BY DEF Holders
<1>2. IsFiniteSet(Holders) /\ Cardinality(Holders) <= Cardinality(User)
  BY <1>1, FS_Subset, ActiveAssumption
<1>3. Cardinality(Holders) \in Nat /\ Cardinality(User) \in Nat
  BY <1>2, FS_CardinalityType, ActiveAssumption
<1>4. Cardinality(Holders) = 0 <=> Holders = {}
  BY <1>2, FS_EmptySet
<1> QED
  BY SMTT(30), <1>2, <1>3, <1>4, ActiveAssumption

(* A step that moves no user to or from "held" leaves the holders alone.   *)
LEMMA HoldersKept ==
  ASSUME TypeOK, NEW t \in Thread, NEW w,
         pc' = [pc EXCEPT ![t] = w],
         t \in User => pc[t] # "held" /\ w # "held"
  PROVE  Holders' = Holders
BY DEF Holders, TypeOK, Thread

(* bus1_active_acquire() adds one to the number of holders.                *)
LEMMA HoldersGrow ==
  ASSUME TypeOK, NEW u \in User, acquire(u)
  PROVE  /\ Holders' = Holders \cup {u} /\ u \notin Holders
         /\ Cardinality(Holders') = Cardinality(Holders) + 1
<1>1. Holders' = Holders \cup {u} /\ u \notin Holders
  BY DEF Holders, TypeOK, Thread, acquire, Goto
<1> QED
  BY <1>1, FS_AddElement, HoldersBounded

(* bus1_active_release() takes one from the number of holders.             *)
LEMMA HoldersShrink ==
  ASSUME TypeOK, NEW u \in User, release(u)
  PROVE  /\ Holders' = Holders \ {u} /\ u \in Holders
         /\ Cardinality(Holders') = Cardinality(Holders) - 1
<1>1. Holders' = Holders \ {u} /\ u \in Holders
  BY DEF Holders, TypeOK, Thread, release, Goto
<1> QED
  BY <1>1, FS_RemoveElement, HoldersBounded

(* The initial state satisfies the inductive invariant.                    *)
LEMMA InitIInv == Init => IInv
<1> SUFFICES ASSUME Init PROVE IInv
  OBVIOUS
<1>1. Holders = {}
  BY DEF Init, Holders, Thread
<1>2. warned \in BOOLEAN /\ ~warned
  BY DEF Init
<1>3. TypeOK
  BY SMTT(30), <1>2, ActiveAssumption DEF Init, TypeOK, Thread, ACTIVE_NEW
<1>4. CountOK
  BY SMTT(30), <1>1, ActiveAssumption DEF Init, CountOK, ACTIVE_NEW
<1>5. \A t \in Thread : pc[t] = "idle"
  BY DEF Init
<1>6. OneWinner /\ \A d \in Destroyer : PlaceOK(d)
  BY <1>5 DEF OneWinner, PlaceOK, Thread
<1> QED
  BY SMTT(30), <1>2, <1>3, <1>4, <1>5, <1>6, ActiveAssumption
  DEF Init, IInv, Thread, ACTIVE_NEW, ACTIVE_RELEASE, ACTIVE_DONE

(* Activation preserves it (bus1_active_activate()).                       *)
LEMMA ActivateIInv ==
  ASSUME IInv, activate
  PROVE  IInv'
<1>1. Holders' = Holders
  BY DEF activate, Holders
<1> QED
  BY SMTT(30), <1>1, ActiveAssumption, HoldersBounded
  DEF IInv, TypeOK, CountOK, PlaceOK, OneWinner, activate, is_deactivated,
      is_drained, ACTIVE_NEW, ACTIVE_RELEASE_DIRECT, ACTIVE_RELEASE, ACTIVE_DONE

(* Taking, dropping and the wake-up after dropping a reference preserve it *)
(* (bus1_active_acquire(), bus1_active_release()).                         *)
LEMMA UserIInv ==
  ASSUME IInv, NEW u \in User, UserStep(u)
  PROVE  IInv'
<1>1. TypeOK /\ CountOK /\ OneWinner /\ \A d \in Destroyer : PlaceOK(d)
  BY DEF IInv
<1>2. /\ u \in Thread /\ u \notin Destroyer
      /\ TypeOK' /\ ~warned' /\ cleanups' = cleanups /\ seen' = seen
      /\ \A d \in Destroyer : pc'[d] = pc[d]
      /\ \A v \in User : pc'[v] \in {"idle", "held", "wake"}
  BY SMTT(30), ActiveAssumption
  DEF IInv, TypeOK, UserStep, acquire, release, wake, Goto, Thread
<1>3. OneWinner'
  BY <1>1, <1>2 DEF OneWinner
<1>4. CASE acquire(u)
  <2>1. Cardinality(Holders') = Cardinality(Holders) + 1
    BY <1>1, <1>4, HoldersGrow
  <2>2. count \in Int /\ count >= 0 /\ count' = count + 1
    BY <1>1, <1>4 DEF acquire, TypeOK
  <2>3. CountOK'
    BY SMTT(30), <1>1, <2>1, <2>2, ActiveAssumption DEF CountOK
  <2>4. \A d \in Destroyer : PlaceOK(d)'
    BY SMTT(30), <1>1, <1>2, <2>2, ActiveAssumption
    DEF PlaceOK, is_deactivated, is_drained, ACTIVE_NEW,
        ACTIVE_RELEASE_DIRECT, ACTIVE_RELEASE, ACTIVE_DONE
  <2> QED
    BY SMTT(30), <1>2, <1>3, <2>2, <2>3, <2>4, ActiveAssumption
    DEF IInv, ACTIVE_RELEASE, ACTIVE_DONE
<1>5. CASE release(u)
  <2>1. /\ Cardinality(Holders') = Cardinality(Holders) - 1
        /\ Holders # {}
    BY <1>1, <1>5, HoldersShrink
  <2>2. count \in Int /\ count' = count - 1
    BY <1>1, <1>5 DEF release, TypeOK
  <2>3. /\ count >= BIAS + 1
        /\ count >= 0 => count = Cardinality(Holders)
        /\ count < 0 => count = BIAS + Cardinality(Holders)
        /\ Cardinality(Holders) \in Nat \ {0}
        /\ Cardinality(Holders) < -BIAS
    BY SMTT(30), <1>1, <2>1, <2>2, HoldersBounded, ActiveAssumption DEF CountOK
  <2>4. CountOK'
    BY SMTT(30), <2>1, <2>2, <2>3, ActiveAssumption DEF CountOK
  <2>5. \A d \in Destroyer : PlaceOK(d)'
    BY SMTT(30), <1>1, <1>2, <2>2, <2>3, ActiveAssumption
    DEF PlaceOK, is_deactivated, is_drained, ACTIVE_NEW,
        ACTIVE_RELEASE_DIRECT, ACTIVE_RELEASE, ACTIVE_DONE
  <2> QED
    BY SMTT(30), <1>2, <1>3, <2>2, <2>3, <2>4, <2>5, ActiveAssumption
    DEF IInv, ACTIVE_RELEASE, ACTIVE_DONE
<1>6. CASE wake(u)
  <2>1. Holders' = Holders
    BY <1>1, <1>2, <1>6, HoldersKept DEF wake, Goto
  <2>2. count' = count
    BY <1>6 DEF wake
  <2>3. CountOK' /\ \A d \in Destroyer : PlaceOK(d)'
    BY <1>1, <1>2, <2>1, <2>2 DEF CountOK, PlaceOK
  <2> QED
    BY <1>2, <1>3, <2>2, <2>3 DEF IInv
<1> QED
  BY <1>4, <1>5, <1>6 DEF UserStep

(* What every step of a destroyer leaves alone: the holders, the places of *)
(* all other threads, and the type of the state.                           *)
LEMMA DestroyerFrame ==
  ASSUME IInv, NEW d \in Destroyer, DestroyerStep(d)
  PROVE  /\ Holders' = Holders
         /\ \A e \in Thread : e # d => pc'[e] = pc[e]
         /\ \A e \in Destroyer : e # d => seen'[e] = seen[e]
         /\ TypeOK'
         /\ pc'[d] \notin {"held", "wake"}
<1>1. TypeOK /\ d \in Thread /\ d \notin User
  BY ActiveAssumption DEF IInv, Thread
<1>2. PICK w \in {"idle", "load", "cas", "drain", "check", "direct", "bias",
                  "callback", "set", "wake_all", "wait", "won", "lost"} :
        pc' = [pc EXCEPT ![d] = w]
  <2>1. pc = [pc EXCEPT ![d] = pc[d]] /\ pc[d] \notin {"held", "wake"}
    BY <1>1 DEF IInv, TypeOK
  <2>2. pc[d] \in {"idle", "load", "cas", "drain", "check", "direct", "bias",
                   "callback", "set", "wake_all", "wait", "won", "lost"}
    BY <1>1, <2>1 DEF TypeOK
  <2> QED
    BY <2>1, <2>2
    DEF DestroyerStep, Goto, WaitEvent, deactivate_new, deactivate_load,
        deactivate_cas, drain, cleanup_check, cleanup_direct, cleanup_bias,
        cleanup_callback, cleanup_set, cleanup_wake, cleanup_wait
<1>3. Holders' = Holders
  BY <1>1, <1>2, HoldersKept
<1>4. warned' \in BOOLEAN
  BY <1>1
    DEF TypeOK, DestroyerStep, deactivate_new, deactivate_load,
        deactivate_cas, drain, cleanup_check, cleanup_direct, cleanup_bias,
        cleanup_callback, cleanup_set, cleanup_wake, cleanup_wait
<1>5. waitq' \subseteq Destroyer /\ cleanups' \in Nat
  BY SMTT(30), <1>1
    DEF TypeOK, DestroyerStep, WaitEvent, deactivate_new, deactivate_load,
        deactivate_cas, drain, cleanup_check, cleanup_direct, cleanup_bias,
        cleanup_callback, cleanup_set, cleanup_wake, cleanup_wait
<1>6. /\ count' \in Int /\ seen' \in [Destroyer -> Int]
      /\ \A e \in Destroyer : e # d => seen'[e] = seen[e]
  BY SMTT(30), <1>1, ActiveAssumption
    DEF TypeOK, DestroyerStep, deactivate_new, deactivate_load,
        deactivate_cas, drain, cleanup_check, cleanup_direct, cleanup_bias,
        cleanup_callback, cleanup_set, cleanup_wake, cleanup_wait,
        ACTIVE_RELEASE, ACTIVE_RELEASE_DIRECT, ACTIVE_DONE
<1> QED
  BY <1>1, <1>2, <1>3, <1>4, <1>5, <1>6 DEF TypeOK

(* Deactivating, draining and cleaning up preserve it.                     *)
LEMMA DestroyerIInv ==
  ASSUME IInv, NEW d \in Destroyer, DestroyerStep(d)
  PROVE  IInv'
<1>1. /\ TypeOK /\ CountOK /\ OneWinner /\ PlaceOK(d) /\ ~warned
      /\ \A e \in Destroyer : PlaceOK(e)
      /\ d \in Thread /\ d \notin User
      /\ \A e \in Destroyer : e \in Thread
  BY ActiveAssumption DEF IInv, Thread
<1>2. /\ Holders' = Holders
      /\ \A e \in Thread : e # d => pc'[e] = pc[e]
      /\ \A e \in Destroyer : e # d => seen'[e] = seen[e]
      /\ TypeOK'
      /\ pc'[d] \notin {"held", "wake"}
  BY DestroyerFrame
<1>3. /\ \A u \in User : pc'[u] \in {"idle", "held", "wake"}
      /\ \A e \in Destroyer : pc'[e] \notin {"held", "wake"}
  BY <1>1, <1>2 DEF IInv, Thread
<1>4. SUFFICES /\ CountOK'
               /\ OneWinner'
               /\ \A e \in Destroyer : PlaceOK(e)'
               /\ count' \notin {ACTIVE_RELEASE, ACTIVE_DONE} => cleanups' = 0
               /\ count' = ACTIVE_DONE => cleanups' = 1
               /\ cleanups' <= 1
               /\ ~warned'
  BY <1>2, <1>3 DEF IInv
<1> USE ActiveAssumption, HoldersBounded, <1>1, <1>2
    DEF IInv, CountOK, PlaceOK, OneWinner, is_deactivated, is_drained,
        ACTIVE_NEW, ACTIVE_RELEASE_DIRECT, ACTIVE_RELEASE, ACTIVE_DONE,
        TypeOK, Goto
<1>5. CASE deactivate_new(d)
  BY SMTT(30), <1>5 DEF deactivate_new
<1>6. CASE deactivate_load(d)
  BY SMTT(30), <1>6 DEF deactivate_load
<1>7. CASE deactivate_cas(d)
  BY SMTT(30), <1>7 DEF deactivate_cas
<1>8. CASE drain(d)
  BY SMTT(30), <1>8 DEF drain, WaitEvent
<1>9. CASE cleanup_check(d)
  BY SMTT(30), <1>9 DEF cleanup_check
<1>10. CASE cleanup_direct(d)
  BY SMTT(30), <1>10 DEF cleanup_direct
<1>11. CASE cleanup_bias(d)
  BY SMTT(30), <1>11 DEF cleanup_bias
<1>12. CASE cleanup_callback(d)
  BY SMTT(30), <1>12 DEF cleanup_callback
<1>13. CASE cleanup_set(d)
  BY SMTT(30), <1>13 DEF cleanup_set
<1>14. CASE cleanup_wake(d)
  BY SMTT(30), <1>14 DEF cleanup_wake
<1>15. CASE cleanup_wait(d)
  BY SMTT(30), <1>15 DEF cleanup_wait, WaitEvent
<1> QED
  BY <1>5, <1>6, <1>7, <1>8, <1>9, <1>10, <1>11, <1>12, <1>13, <1>14, <1>15
  DEF DestroyerStep

(* IInv is inductive: it holds initially and every step preserves it.      *)
THEOREM Inductive == Spec => []IInv
<1>1. IInv /\ [Next]_vars => IInv'
  <2> SUFFICES ASSUME IInv, [Next]_vars PROVE IInv'
    OBVIOUS
  <2>1. CASE UNCHANGED vars
    BY <2>1
    DEF vars, IInv, TypeOK, CountOK, PlaceOK, OneWinner, Holders
  <2>2. CASE Next
    BY <2>2, ActivateIInv, UserIInv, DestroyerIInv DEF Next
  <2> QED
    BY <2>1, <2>2
<1> QED
  BY <1>1, InitIInv, PTL DEF Spec

(* The cleanup callback runs only when no thread owns an active reference, *)
(* and no reference is taken afterwards.                                   *)
THEOREM CleanupIsAlone == Spec => []CleanupAlone
<1>1. IInv => CleanupAlone
  <2> SUFFICES ASSUME IInv,
                      (\E d \in Destroyer : pc[d] \in {"callback", "set"})
                        \/ cleanups > 0
               PROVE  Holders = {}
    BY DEF CleanupAlone
  <2>1. count \in {ACTIVE_RELEASE, ACTIVE_DONE}
    BY SMTT(30) DEF IInv, TypeOK, PlaceOK
  <2> QED
    BY SMTT(30), <2>1, ActiveAssumption
    DEF IInv, TypeOK, CountOK, ACTIVE_RELEASE, ACTIVE_DONE
<1> QED
  BY <1>1, Inductive, PTL

(* The callback runs once, and every disconnect returns after it ended.    *)
THEOREM CleanupOnce == Spec => []ExactlyOnce
<1>1. IInv => ExactlyOnce
  BY DEF IInv, PlaceOK, ExactlyOnce, Returned
<1> QED
  BY <1>1, Inductive, PTL

(* One of the racing disconnects at most reports that it did the work.     *)
THEOREM Winner == Spec => []OneWinner
<1>1. IInv => OneWinner
  BY DEF IInv
<1> QED
  BY <1>1, Inductive, PTL

(* No WARN_ON() of active.c fires.                                         *)
THEOREM NoWarnings == Spec => []NoWarn
<1>1. IInv => NoWarn
  BY DEF IInv, NoWarn
<1> QED
  BY <1>1, Inductive, PTL

(* A deactivated object stays deactivated and gets no new reference.       *)
THEOREM StaysDeactivated == Spec => DeactivationIsFinal
<1>1. IInv /\ IInv' /\ [Next]_vars =>
        [is_deactivated(count) =>
           is_deactivated(count') /\ Holders' \subseteq Holders]_vars
  <2> SUFFICES ASSUME IInv, IInv', Next, is_deactivated(count)
               PROVE  is_deactivated(count') /\ Holders' \subseteq Holders
    BY DEF vars
  <2>1. TypeOK /\ CountOK /\ count \in Int
    BY DEF IInv, TypeOK
  <2>2. CASE activate
    BY SMTT(30), <2>1, <2>2, ActiveAssumption DEF activate, is_deactivated, ACTIVE_NEW
  <2>3. ASSUME NEW u \in User, UserStep(u)
        PROVE  is_deactivated(count') /\ Holders' \subseteq Holders
    <3>1. CASE acquire(u)
      BY SMTT(30), <3>1, <2>1 DEF acquire, is_deactivated
    <3>2. CASE release(u)
      <4>1. Holders # {} /\ Holders' \subseteq Holders
        BY <3>2, <2>1, HoldersShrink
      <4>2. count >= BIAS
        BY SMTT(30), <4>1, <2>1, ActiveAssumption DEF CountOK
      <4> QED
        BY SMTT(30), <4>1, <4>2, <3>2, <2>1, ActiveAssumption
        DEF release, is_deactivated, ACTIVE_NEW
    <3>3. CASE wake(u)
      BY <3>3, <2>1, HoldersKept DEF wake, Goto, is_deactivated, Thread
    <3> QED
      BY <2>3, <3>1, <3>2, <3>3 DEF UserStep
  <2>4. ASSUME NEW d \in Destroyer, DestroyerStep(d)
        PROVE  is_deactivated(count') /\ Holders' \subseteq Holders
    <3>1. Holders' = Holders
      BY <2>4, DestroyerFrame
    <3>2. PlaceOK(d)
      BY DEF IInv
    <3>3. is_deactivated(count')
      BY SMTT(30), <2>1, <2>4, <3>2, ActiveAssumption
      DEF DestroyerStep, deactivate_new, deactivate_load, deactivate_cas,
          drain, cleanup_check, cleanup_direct, cleanup_bias,
          cleanup_callback, cleanup_set, cleanup_wake, cleanup_wait,
          is_deactivated, PlaceOK, ACTIVE_NEW, ACTIVE_RELEASE_DIRECT,
          ACTIVE_RELEASE, ACTIVE_DONE
    <3> QED
      BY <3>1, <3>3
  <2> QED
    BY <2>2, <2>3, <2>4 DEF Next
<1> QED
  BY <1>1, Inductive, PTL DEF Spec, DeactivationIsFinal

-----------------------------------------------------------------------------
(* The values a counter takes                                              *)
Counts ==
  {c \in Int : c >= BIAS} \cup
  {ACTIVE_NEW, ACTIVE_RELEASE_DIRECT, ACTIVE_RELEASE, ACTIVE_DONE}

(* The ranges of the counter, as the states of the life cycle.             *)
LEMMA PhaseOf ==
  ASSUME NEW c \in Counts
  PROVE  /\ Phase(c) = "NEW" <=> c = ACTIVE_NEW
         /\ Phase(c) = "ACTIVE" <=> c >= 0
         /\ Phase(c) = "DRAINING" <=> c > BIAS /\ c < 0
         /\ Phase(c) = "RELEASED" <=> c = ACTIVE_DONE
         /\ Phase(c) = "DRAINED" <=>
              c \in {BIAS, ACTIVE_RELEASE_DIRECT, ACTIVE_RELEASE}
         /\ Phase(c) \in {"NEW", "ACTIVE", "DRAINING", "DRAINED", "RELEASED"}
<1> USE ActiveAssumption
    DEF Phase, Counts, ACTIVE_NEW, ACTIVE_RELEASE_DIRECT, ACTIVE_RELEASE, ACTIVE_DONE
<1>1. CASE c = ACTIVE_NEW
  BY SMTT(30), <1>1
<1>2. CASE c >= 0
  BY SMTT(30), <1>2
<1>3. CASE c > BIAS /\ c < 0
  BY SMTT(30), <1>3
<1>4. CASE c = ACTIVE_DONE
  BY SMTT(30), <1>4
<1>5. CASE c \in {BIAS, ACTIVE_RELEASE_DIRECT, ACTIVE_RELEASE}
  BY SMTT(30), <1>5
<1> QED
  BY SMTT(30), <1>1, <1>2, <1>3, <1>4, <1>5

(* A step of a destroyer is a deactivation, the release, or no step of the *)
(* life cycle at all.                                                      *)
LEMMA DestroyerRefines ==
  ASSUME IInv, IInv', NEW d \in Destroyer, DestroyerStep(d)
  PROVE  Abstract!Deactivate \/ Abstract!Cleanup \/ UNCHANGED Abstract!vars
<1>1. /\ TypeOK /\ CountOK /\ PlaceOK(d) /\ count \in Int /\ count' \in Int
      /\ count \in Counts /\ count' \in Counts
  BY SMTT(30), ActiveAssumption DEF IInv, TypeOK, CountOK, Counts
<1>2. Holders' = Holders
  BY DestroyerFrame
<1>3. \/ count' = count
      \/ count = ACTIVE_NEW /\ count' = ACTIVE_RELEASE_DIRECT
      \/ count >= 0 /\ count' = count + BIAS
      \/ count \in {ACTIVE_RELEASE_DIRECT, BIAS} /\ count' = ACTIVE_RELEASE
      \/ count = ACTIVE_RELEASE /\ count' = ACTIVE_DONE
  BY <1>1
  DEF DestroyerStep, deactivate_new, deactivate_load, deactivate_cas, drain,
      cleanup_check, cleanup_direct, cleanup_bias, cleanup_callback,
      cleanup_set, cleanup_wake, cleanup_wait, PlaceOK
<1>4. CASE count' = count
  BY <1>2, <1>4 DEF Abstract!vars
<1>5. CASE count = ACTIVE_NEW /\ count' = ACTIVE_RELEASE_DIRECT
  <2>1. Holders = {}
    BY SMTT(30), <1>1, <1>5, ActiveAssumption DEF CountOK, ACTIVE_NEW
  <2>2. Phase(count) = "NEW" /\ Phase(count') = "DRAINED"
    BY <1>5, <1>1, PhaseOf
  <2> QED
    BY <1>2, <2>1, <2>2 DEF Abstract!Deactivate
<1>6. CASE count >= 0 /\ count' = count + BIAS
  <2>1. count = Cardinality(Holders) /\ count' < 0
    BY SMTT(30), <1>1, <1>6, HoldersBounded, ActiveAssumption DEF CountOK
  <2>2. Phase(count) = "ACTIVE"
    BY <1>6, <1>1, PhaseOf
  <2>3. Phase(count') = IF Holders = {} THEN "DRAINED" ELSE "DRAINING"
    <3>1. CASE Holders = {}
      <4>1. count' = BIAS
        BY SMTT(30), <1>1, <1>6, <2>1, <3>1, HoldersBounded, ActiveAssumption
      <4> QED
        BY <3>1, <4>1, <1>1, PhaseOf
    <3>2. CASE Holders # {}
      <4>1. count' > BIAS
        BY SMTT(30), <1>1, <1>6, <2>1, <3>2, HoldersBounded, ActiveAssumption
      <4> QED
        BY <2>1, <3>2, <4>1, <1>1, PhaseOf
    <3> QED
      BY <3>1, <3>2
  <2> QED
    BY <1>2, <2>2, <2>3 DEF Abstract!Deactivate
<1>7. CASE count \in {ACTIVE_RELEASE_DIRECT, BIAS} /\ count' = ACTIVE_RELEASE
  <2>1. Phase(count) = "DRAINED" /\ Phase(count') = "DRAINED"
    BY <1>7, <1>1, PhaseOf
  <2> QED
    BY <1>2, <2>1 DEF Abstract!vars
<1>8. CASE count = ACTIVE_RELEASE /\ count' = ACTIVE_DONE
  <2>1. Phase(count) = "DRAINED" /\ Phase(count') = "RELEASED"
    BY <1>8, <1>1, PhaseOf
  <2> QED
    BY <1>2, <2>1 DEF Abstract!Cleanup
<1> QED
  BY <1>3, <1>4, <1>5, <1>6, <1>7, <1>8

(* A step of a user is the acquire or release of the life cycle, or none.  *)
LEMMA UserRefines ==
  ASSUME IInv, IInv', NEW u \in User, UserStep(u)
  PROVE  Abstract!Acquire(u) \/ Abstract!Release(u) \/ UNCHANGED Abstract!vars
<1>1. /\ TypeOK /\ CountOK /\ CountOK' /\ count \in Int /\ count' \in Int
      /\ count \in Counts /\ count' \in Counts
  BY SMTT(30), ActiveAssumption DEF IInv, TypeOK, CountOK, Counts
<1>2. CASE acquire(u)
  <2>1. Holders' = Holders \cup {u} /\ u \notin Holders
    BY <1>1, <1>2, HoldersGrow
  <2>2. Phase(count) = "ACTIVE" /\ Phase(count') = "ACTIVE"
    BY SMTT(30), <1>1, <1>2, PhaseOf DEF acquire
  <2> QED
    BY <2>1, <2>2 DEF Abstract!Acquire
<1>3. CASE release(u)
  <2>1. /\ Holders' = Holders \ {u} /\ u \in Holders
        /\ Cardinality(Holders') = Cardinality(Holders) - 1
    BY <1>1, <1>3, HoldersShrink
  <2>2. /\ count' = count - 1
        /\ Cardinality(Holders) \in Nat \ {0}
        /\ count >= 0 => count = Cardinality(Holders)
        /\ count < 0 => count = BIAS + Cardinality(Holders)
    BY SMTT(30), <1>1, <1>3, <2>1, HoldersBounded, ActiveAssumption DEF release, CountOK
  <2>3. Holders = {u} <=> Cardinality(Holders) = 1
    <3>1. Holders = {u} => Cardinality(Holders) = 1
      BY FS_Singleton
    <3>2. Cardinality(Holders) = 1 => \E v : Holders = {v}
      BY HoldersBounded, FS_Singleton
    <3> QED
      BY <2>1, <3>1, <3>2
  <2>4. Phase(count') = IF Phase(count) = "DRAINING" /\ Holders = {u}
                        THEN "DRAINED" ELSE Phase(count)
    <3>1. CASE count >= 0
      <4>1. count' >= 0
        BY SMTT(30), <1>1, <2>2, <3>1
      <4> QED
        BY <1>1, <3>1, <4>1, PhaseOf
    <3>2. CASE count < 0 /\ Holders = {u}
      <4>1. count = BIAS + 1 /\ count' = BIAS
        BY SMTT(30), <1>1, <2>2, <2>3, <3>2, ActiveAssumption
      <4>2. Phase(count) = "DRAINING"
        BY SMTT(30), <1>1, <3>2, <4>1, PhaseOf, ActiveAssumption
      <4>3. Phase(count') = "DRAINED"
        BY <1>1, <4>1, PhaseOf
      <4> QED
        BY <3>2, <4>2, <4>3
    <3>3. CASE count < 0 /\ Holders # {u}
      <4>1. count > BIAS /\ count' > BIAS /\ count' < 0
        BY SMTT(30), <1>1, <2>2, <2>3, <3>3, ActiveAssumption
      <4> QED
        BY <1>1, <3>3, <4>1, PhaseOf
    <3> QED
      BY SMTT(30), <1>1, <3>1, <3>2, <3>3
  <2> QED
    BY <2>1, <2>4 DEF Abstract!Release
<1>4. CASE wake(u)
  <2>1. Holders' = Holders /\ count' = count
    BY <1>1, <1>4, HoldersKept DEF wake, Goto, Thread
  <2> QED
    BY <2>1 DEF Abstract!vars
<1> QED
  BY <1>2, <1>3, <1>4 DEF UserStep

(* The counter implements the documented life cycle (active.h), for any    *)
(* number of users and destroyers.                                         *)
THEOREM Refinement == Spec => ImplementsLifecycle
<1>1. Init => Abstract!Init
  <2> SUFFICES ASSUME Init PROVE Phase(count) = "NEW" /\ Holders = {}
    BY DEF Abstract!Init
  <2>1. count \in Counts /\ count = ACTIVE_NEW
    BY DEF Init, Counts
  <2> QED
    BY <2>1, PhaseOf DEF Init, Holders, Thread
<1>2. IInv /\ IInv' /\ [Next]_vars => [Abstract!Next]_(Abstract!vars)
  <2> SUFFICES ASSUME IInv, IInv', [Next]_vars
               PROVE  Abstract!Next \/ UNCHANGED Abstract!vars
    OBVIOUS
  <2>1. CASE UNCHANGED vars
    BY <2>1 DEF vars, Abstract!vars, Holders
  <2>2. CASE activate
    <3>1. count \in Counts /\ count' \in Counts
      BY SMTT(30), ActiveAssumption DEF IInv, TypeOK, CountOK, Counts
    <3>2. Holders' = Holders /\ count = ACTIVE_NEW /\ count' = 0
      BY <2>2 DEF activate, Holders
    <3>3. Phase(count) = "NEW" /\ Phase(count') = "ACTIVE"
      BY SMTT(30), <3>1, <3>2, PhaseOf
    <3> QED
      BY <3>2, <3>3 DEF Abstract!Next, Abstract!Activate
  <2>3. CASE \E u \in User : UserStep(u)
    BY <2>3, UserRefines DEF Abstract!Next
  <2>4. CASE \E d \in Destroyer : DestroyerStep(d)
    BY <2>4, DestroyerRefines DEF Abstract!Next
  <2> QED
    BY <2>1, <2>2, <2>3, <2>4 DEF Next
<1> QED
  BY <1>1, <1>2, Inductive, PTL DEF Spec, ImplementsLifecycle, Abstract!Spec

=============================================================================
