-------------------------- MODULE MCGasFreeSweep --------------------------
(* Instances of GasFreeSweep for TLC. *)
EXTENDS GasFreeSweep, TLC

CONSTANTS d1, d2

MCArrives == (d1 :> 4) @@ (d2 :> 3)
MCArrivesAlike == (d1 :> 4) @@ (d2 :> 4)
MCProposed == (d1 :> 1) @@ (d2 :> 3)
=============================================================================
