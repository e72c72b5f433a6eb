--------------------------- MODULE MCPlainSweep ---------------------------
(* Instances of PlainSweep for TLC. *)
EXTENDS PlainSweep, TLC

CONSTANTS d1, d2, d3, t, b

MCHome == (d1 :> t) @@ (d2 :> t) @@ (d3 :> b)
MCAmount == (d1 :> 1) @@ (d2 :> 1) @@ (d3 :> 1)
=============================================================================
