------------------------------ MODULE MCHandle ------------------------------
(***************************************************************************)
(* Instances of Handle for TLC.                                            *)
(***************************************************************************)
EXTENDS Handle, TLC

CONSTANTS o, p, q, r1, r2, r3, m1, m2

(* The owner and q both send a handle to p: with q's own, three remotes.   *)
MCSrc == (m1 :> o) @@ (m2 :> q)
MCDst == (m1 :> p) @@ (m2 :> p)
=============================================================================
