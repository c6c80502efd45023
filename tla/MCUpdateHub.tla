---------------------------- MODULE MCUpdateHub ----------------------------
(***************************************************************************)
(* Small instances of UpdateHub.                                           *)
(***************************************************************************)
EXTENDS UpdateHub, TLC

CONSTANTS w1, w2, k1, k2

Symmetry == Permutations({w1, w2})
=============================================================================
