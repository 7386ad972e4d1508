------------------------------ MODULE MCActive ------------------------------
(* Model values for Active: BIAS is as close to zero as the assumption on  *)
(* the number of references allows, so that the counter is tried at every  *)
(* boundary between its ranges.                                            *)
EXTENDS Active

MCBias == -3
=============================================================================
