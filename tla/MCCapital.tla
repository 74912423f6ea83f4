----------------------------- MODULE MCCapital -----------------------------
(* Small instances of the capital service.                                 *)
EXTENDS Capital

CONSTANTS i1, i2, i3, c1, c2, k1, k2, k3
=============================================================================
