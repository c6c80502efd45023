----------------------------- MODULE MCBarHelper -----------------------------
(***************************************************************************)
(* Small instances of BarHelper.                                           *)
(***************************************************************************)
EXTENDS BarHelper, TLC

CONSTANTS k1, k2

TwoMonitors == (k1 :> 1) @@ (k2 :> 2)
=============================================================================
