------------------------------- MODULE Active -------------------------------
(***************************************************************************)
(* Active references (ipc/bus1/util/active.[ch]).                          *)
(*                                                                         *)
(* A single signed counter carries the whole life cycle of an object:      *)
(* NEW, then a non-negative number of active references, then BIAS plus    *)
(* the references still held, then RELEASE while one thread runs the       *)
(* cleanup callback, then DONE.  Users acquire and release references;     *)
(* destroyers run deactivate, drain and cleanup one after the other, as    *)
(* bus1_peer_disconnect() does.  Every atomic operation of the code is one *)
(* step, so that any interleaving between two of them is explored.         *)
(***************************************************************************)
EXTENDS Integers, FiniteSets

CONSTANTS User,       \* threads that take active references, one at a time
          Destroyer,  \* threads that disconnect the object
          BIAS        \* BUS1_ACTIVE_BIAS, a negative number (INT_MIN + 5)

(* The counter of the code is an int: with BIAS = INT_MIN + 5 fewer than   *)
(* -BIAS references ever exist, so a deactivated counter stays negative.   *)
ASSUME ActiveAssumption ==
  /\ BIAS \in Int /\ BIAS < 0
  /\ IsFiniteSet(User)
  /\ Cardinality(User) < -BIAS
  /\ User \cap Destroyer = {}

ACTIVE_RELEASE_DIRECT == BIAS - 1
ACTIVE_RELEASE == BIAS - 2
ACTIVE_DONE == BIAS - 3
ACTIVE_NEW == BIAS - 4

VARIABLES count,     \* active->count
          pc,        \* where each thread is
          seen,      \* the counter value a destroyer read last (v in the code)
          waitq,     \* the threads asleep on the wait-queue of the object
          cleanups,  \* how often the cleanup callback ran
          warned     \* whether a WARN_ON() of active.c fired

vars == <<count, pc, seen, waitq, cleanups, warned>>

Thread == User \cup Destroyer

Init ==
  /\ count = ACTIVE_NEW
  /\ pc = [t \in Thread |-> "idle"]
  /\ seen = [d \in Destroyer |-> 0]
  /\ waitq = {}
  /\ cleanups = 0
  /\ warned = FALSE

is_deactivated(v) == v > ACTIVE_NEW /\ v < 0
is_drained(v) == v > ACTIVE_NEW /\ v <= BIAS

Goto(t, where) == pc' = [pc EXCEPT ![t] = where]

-----------------------------------------------------------------------------
(* Faulty variants of the steps below, one mistake each: the properties    *)
(* are checked to notice them.                                             *)

AcquireUnlessNew(u) ==
  /\ pc[u] = "idle"
  /\ count # ACTIVE_NEW
  /\ count' = count + 1
  /\ Goto(u, "held")
  /\ UNCHANGED <<seen, waitq, cleanups, warned>>

ActivateUnlessActive ==
  /\ count < 0
  /\ count' = 0
  /\ UNCHANGED <<pc, seen, waitq, cleanups, warned>>

WakeNobody(u) ==
  /\ pc[u] = "wake"
  /\ Goto(u, "idle")
  /\ UNCHANGED <<count, seen, waitq, cleanups, warned>>

DeactivateStale(d) ==
  /\ pc[d] = "cas"
  /\ count' = seen[d] + BIAS
  /\ Goto(d, "drain")
  /\ UNCHANGED <<seen, waitq, cleanups, warned>>

DrainWithoutWaiting(d) ==
  /\ pc[d] = "drain"
  /\ Goto(d, "check")
  /\ UNCHANGED <<count, seen, waitq, cleanups, warned>>

ReleaseBlindly(d) ==
  /\ pc[d] = "bias"
  /\ count' = ACTIVE_RELEASE /\ Goto(d, "callback")
  /\ UNCHANGED <<seen, waitq, cleanups, warned>>

ReleaseDirectBlindly(d) ==
  /\ pc[d] = "direct"
  /\ count' = ACTIVE_RELEASE /\ Goto(d, "callback")
  /\ UNCHANGED <<seen, waitq, cleanups, warned>>

NeverDone(d) ==
  /\ pc[d] = "set"
  /\ Goto(d, "wake_all")
  /\ UNCHANGED <<count, seen, waitq, cleanups, warned>>

-----------------------------------------------------------------------------
(* References *)

activate ==
  /\ count = ACTIVE_NEW
  /\ count' = 0
  /\ UNCHANGED <<pc, seen, waitq, cleanups, warned>>

(* A negative counter fails the call and changes nothing. *)
acquire(u) ==
  /\ pc[u] = "idle"
  /\ count >= 0
  /\ count' = count + 1
  /\ Goto(u, "held")
  /\ UNCHANGED <<seen, waitq, cleanups, warned>>

release(u) ==
  /\ pc[u] = "held"
  /\ count' = count - 1
  /\ Goto(u, IF count - 1 = BIAS THEN "wake" ELSE "idle")
  /\ UNCHANGED <<seen, waitq, cleanups, warned>>

(* The wake_up() that follows the decrement, in a step of its own. *)
wake(u) ==
  /\ pc[u] = "wake"
  /\ waitq' = {}
  /\ Goto(u, "idle")
  /\ UNCHANGED <<count, seen, cleanups, warned>>

-----------------------------------------------------------------------------
(* Deactivation: the first cmpxchg, the read, and the cmpxchg loop *)

deactivate_new(d) ==
  /\ pc[d] = "idle"
  /\ IF count = ACTIVE_NEW
     THEN count' = ACTIVE_RELEASE_DIRECT /\ Goto(d, "drain")
     ELSE UNCHANGED count /\ Goto(d, "load")
  /\ UNCHANGED <<seen, waitq, cleanups, warned>>

deactivate_load(d) ==
  /\ pc[d] = "load"
  /\ seen' = [seen EXCEPT ![d] = count]
  /\ Goto(d, IF count >= 0 THEN "cas" ELSE "drain")
  /\ UNCHANGED <<count, waitq, cleanups, warned>>

deactivate_cas(d) ==
  /\ pc[d] = "cas"
  /\ \/ /\ count = seen[d]
        /\ count' = seen[d] + BIAS
        /\ Goto(d, "drain")
        /\ UNCHANGED seen
     \/ /\ count # seen[d]
        /\ seen' = [seen EXCEPT ![d] = count]
        /\ Goto(d, IF count >= 0 THEN "cas" ELSE "drain")
        /\ UNCHANGED count
  /\ UNCHANGED <<waitq, cleanups, warned>>

-----------------------------------------------------------------------------
(* Waiting: a thread that finds its condition false sleeps on waitq *)

WaitEvent(t, cond, next) ==
  /\ t \notin waitq
  /\ \/ cond /\ Goto(t, next) /\ UNCHANGED waitq
     \/ ~cond /\ waitq' = waitq \cup {t} /\ UNCHANGED pc

drain(d) ==
  /\ pc[d] = "drain"
  /\ \/ /\ is_deactivated(count)
        /\ WaitEvent(d, count <= BIAS, "check")
        /\ UNCHANGED warned
     \/ /\ ~is_deactivated(count)
        /\ warned' = TRUE
        /\ Goto(d, "check")
        /\ UNCHANGED waitq
  /\ UNCHANGED <<count, seen, cleanups>>

-----------------------------------------------------------------------------
(* Cleanup: one thread moves the counter to RELEASE and runs the callback *)

cleanup_check(d) ==
  /\ pc[d] = "check"
  /\ Goto(d, IF is_drained(count) THEN "direct" ELSE "lost")
  /\ warned' = (warned \/ ~is_drained(count))
  /\ UNCHANGED <<count, seen, waitq, cleanups>>

cleanup_direct(d) ==
  /\ pc[d] = "direct"
  /\ IF count = ACTIVE_RELEASE_DIRECT
     THEN count' = ACTIVE_RELEASE /\ Goto(d, "callback")
     ELSE UNCHANGED count /\ Goto(d, "bias")
  /\ UNCHANGED <<seen, waitq, cleanups, warned>>

cleanup_bias(d) ==
  /\ pc[d] = "bias"
  /\ IF count = BIAS
     THEN count' = ACTIVE_RELEASE /\ Goto(d, "callback")
     ELSE UNCHANGED count /\ Goto(d, "wait")
  /\ UNCHANGED <<seen, waitq, cleanups, warned>>

(* bus1_peer_cleanup(), the callback bus1_peer_disconnect() passes *)
cleanup_callback(d) ==
  /\ pc[d] = "callback"
  /\ cleanups' = cleanups + 1
  /\ Goto(d, "set")
  /\ UNCHANGED <<count, seen, waitq, warned>>

cleanup_set(d) ==
  /\ pc[d] = "set"
  /\ count' = ACTIVE_DONE
  /\ Goto(d, "wake_all")
  /\ UNCHANGED <<seen, waitq, cleanups, warned>>

cleanup_wake(d) ==
  /\ pc[d] = "wake_all"
  /\ waitq' = {}
  /\ Goto(d, "won")
  /\ UNCHANGED <<count, seen, cleanups, warned>>

cleanup_wait(d) ==
  /\ pc[d] = "wait"
  /\ WaitEvent(d, count = ACTIVE_DONE, "lost")
  /\ UNCHANGED <<count, seen, cleanups, warned>>

-----------------------------------------------------------------------------
UserStep(u) == acquire(u) \/ release(u) \/ wake(u)

DestroyerStep(d) ==
  \/ deactivate_new(d) \/ deactivate_load(d) \/ deactivate_cas(d)
  \/ drain(d)
  \/ cleanup_check(d) \/ cleanup_direct(d) \/ cleanup_bias(d)
  \/ cleanup_callback(d) \/ cleanup_set(d) \/ cleanup_wake(d)
  \/ cleanup_wait(d)

Returned(d) == pc[d] \in {"won", "lost"}

Next ==
  \/ activate
  \/ \E u \in User : UserStep(u)
  \/ \E d \in Destroyer : DestroyerStep(d)

Spec == Init /\ [][Next]_vars

(* Every thread inside a call keeps running: a reference is held for the   *)
(* duration of an ioctl, and a disconnect that began runs to its end.      *)
(* Nobody is obliged to acquire, to activate or to begin a disconnect.     *)
Fairness ==
  /\ \A u \in User : WF_vars(release(u)) /\ WF_vars(wake(u))
  /\ \A d \in Destroyer : WF_vars(pc[d] # "idle" /\ DestroyerStep(d))

FairSpec == Spec /\ Fairness

-----------------------------------------------------------------------------
Holders == {u \in User : pc[u] = "held"}

TypeOK ==
  /\ count \in Int
  /\ pc \in [Thread -> {"idle", "held", "wake", "load", "cas", "drain",
                        "check", "direct", "bias", "callback", "set",
                        "wake_all", "wait", "won", "lost"}]
  /\ seen \in [Destroyer -> Int]
  /\ waitq \subseteq Destroyer
  /\ cleanups \in Nat
  /\ warned \in BOOLEAN

(* While the cleanup callback of the object runs, and ever after, no       *)
(* thread owns an active reference: draining really waited for all of them *)
(* (bus1_active_drain(), bus1_active_cleanup()).                           *)
CleanupAlone ==
  (\E d \in Destroyer : pc[d] \in {"callback", "set"}) \/ cleanups > 0
    => Holders = {}

(* bus1_active_cleanup() runs the callback at most once however many       *)
(* threads disconnect, and each of them returns only after it ran to its   *)
(* end, also those that lost the race for RELEASE.                         *)
ExactlyOnce ==
  /\ cleanups <= 1
  /\ \A d \in Destroyer : Returned(d) => cleanups = 1 /\ count = ACTIVE_DONE

(* At most one of the racing disconnects reports that it did the work; the *)
(* others return -ESHUTDOWN (bus1_peer_disconnect()).                      *)
OneWinner ==
  \A d, e \in Destroyer :
    pc[d] \in {"callback", "set", "wake_all", "won"} /\
    pc[e] \in {"callback", "set", "wake_all", "won"} => d = e

(* No WARN_ON() of drain() and cleanup() fires when they are called in the *)
(* documented order: a deactivated object never becomes active again and a *)
(* drained one never gets a reference.                                     *)
NoWarn == ~warned

(* Once the object is deactivated, no step adds a reference and no step    *)
(* makes it active again (bus1_active_is_deactivated(): "cannot change     *)
(* again on this object").                                                 *)
DeactivationIsFinal ==
  [][is_deactivated(count) =>
       is_deactivated(count') /\ Holders' \subseteq Holders]_vars

(* From the moment some thread deactivated the object, every disconnect    *)
(* that began returns: no wake-up is lost between the last release, the    *)
(* sleeping drainers and the threads waiting for DONE.  (Before that, the  *)
(* cmpxchg loop of deactivate() is lock-free and not wait-free: users that *)
(* acquire and release for ever may fail it for ever.)                     *)
DisconnectReturns ==
  \A d \in Destroyer :
    is_deactivated(count) /\ pc[d] # "idle" ~> Returned(d)

-----------------------------------------------------------------------------
(* The counter encodes the documented life cycle: its ranges are the       *)
(* states, and the references are the users between acquire and release.   *)
Phase(c) ==
  CASE c = ACTIVE_NEW -> "NEW"
    [] c >= 0 -> "ACTIVE"
    [] c > BIAS /\ c < 0 -> "DRAINING"
    [] c = ACTIVE_DONE -> "RELEASED"
    [] OTHER -> "DRAINED"

Abstract == INSTANCE Lifecycle WITH state <- Phase(count), refs <- Holders

(* The counter implements the life cycle documented in active.h: every     *)
(* atomic operation on it is a documented transition or changes nothing.   *)
ImplementsLifecycle == Abstract!Spec

(* Why the invariants hold: below BIAS the counter is one of four marks    *)
(* and no reference is left, and the place a destroyer reached bounds the  *)
(* values the counter can still have.                                      *)
CountOK ==
  /\ count >= 0 => count = Cardinality(Holders)
  /\ count < 0 /\ count >= BIAS => count = BIAS + Cardinality(Holders)
  /\ count < BIAS =>
       /\ count \in {ACTIVE_NEW, ACTIVE_RELEASE_DIRECT, ACTIVE_RELEASE, ACTIVE_DONE}
       /\ Holders = {}

PlaceOK(d) ==
  /\ pc[d] \in {"load", "cas"} => count # ACTIVE_NEW
  /\ pc[d] = "cas" => seen[d] >= 0
  /\ pc[d] = "drain" => is_deactivated(count)
  /\ pc[d] \in {"check", "direct"} => is_drained(count)
  /\ pc[d] = "bias" => is_drained(count) /\ count # ACTIVE_RELEASE_DIRECT
  /\ pc[d] = "wait" => count \in {ACTIVE_RELEASE, ACTIVE_DONE}
  /\ pc[d] = "callback" => count = ACTIVE_RELEASE /\ cleanups = 0
  /\ pc[d] = "set" => count = ACTIVE_RELEASE /\ cleanups = 1
  /\ pc[d] \in {"wake_all", "won", "lost"} => count = ACTIVE_DONE

(* The inductive invariant of the proofs.                                  *)
IInv ==
  /\ TypeOK
  /\ \A u \in User : pc[u] \in {"idle", "held", "wake"}
  /\ \A d \in Destroyer : pc[d] \notin {"held", "wake"}
  /\ CountOK
  /\ \A d \in Destroyer : PlaceOK(d)
  /\ OneWinner
  /\ count \notin {ACTIVE_RELEASE, ACTIVE_DONE} => cleanups = 0
  /\ count = ACTIVE_DONE => cleanups = 1
  /\ cleanups <= 1
  /\ ~warned

=============================================================================
