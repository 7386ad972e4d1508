----------------------------- MODULE Lifecycle -----------------------------
(***************************************************************************)
(* What an active reference promises (the DOC comment of util/active.h):   *)
(* an object goes through NEW, ACTIVE, DRAINING, DRAINED and RELEASED,     *)
(* references can be taken in ACTIVE only, and the object is released a    *)
(* single time, when nobody owns a reference any more.                     *)
(***************************************************************************)
CONSTANT User

VARIABLES state,  \* the state of the object
          refs    \* the users that own an active reference

vars == <<state, refs>>

Init == state = "NEW" /\ refs = {}

Activate ==
  /\ state = "NEW"
  /\ state' = "ACTIVE"
  /\ UNCHANGED refs

Acquire(u) ==
  /\ state = "ACTIVE" /\ u \notin refs
  /\ refs' = refs \cup {u}
  /\ UNCHANGED state

Release(u) ==
  /\ u \in refs
  /\ refs' = refs \ {u}
  /\ state' = IF state = "DRAINING" /\ refs = {u} THEN "DRAINED" ELSE state

Deactivate ==
  /\ state \in {"NEW", "ACTIVE"}
  /\ state' = IF refs = {} THEN "DRAINED" ELSE "DRAINING"
  /\ UNCHANGED refs

Cleanup ==
  /\ state = "DRAINED"
  /\ state' = "RELEASED"
  /\ UNCHANGED refs

Next ==
  \/ Activate \/ Deactivate \/ Cleanup
  \/ \E u \in User : Acquire(u) \/ Release(u)

Spec == Init /\ [][Next]_vars
=============================================================================
