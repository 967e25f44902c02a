------------------------------- MODULE MCHalo -------------------------------
(* Instance of HaloExchange for TLC: three ranks. *)
EXTENDS HaloExchange

CONSTANTS r1, r2, r3

Ranks == {r1, r2, r3}
=============================================================================
