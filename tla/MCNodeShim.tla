----------------------------- MODULE MCNodeShim -----------------------------
(* Instance of NodeShim for TLC: the requests are model values.            *)
EXTENDS NodeShim

CONSTANTS r1, r2
=============================================================================
