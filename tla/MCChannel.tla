------------------------------- MODULE MCChannel -------------------------------
(* Small instances of Channel: threads as model values. *)
EXTENDS Channel

CONSTANTS r1, r2, w1, w2
===============================================================================
