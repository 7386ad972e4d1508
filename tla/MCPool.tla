------------------------------- MODULE MCPool -------------------------------
(* A pool of 31 bytes (like U32_MAX, one short of a multiple of 8) and three *)
(* messages: room for three slices of 8 bytes, or for fewer larger ones.     *)
EXTENDS Pool

\* An empty payload, one that needs exactly and one more than a unit, and
\* one that no pool of this size can hold.
MCLength == {0, 8, 9, 32}
=============================================================================
