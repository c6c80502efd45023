--------------------------- MODULE MCPourTracker ---------------------------
(***************************************************************************)
(* A small instance of PourTracker: one scale in two units, and what it    *)
(* may say in a packet.                                                    *)
(***************************************************************************)
EXTENDS PourTracker, TLC

CONSTANTS k1

Bases == ("litre" :> 1) @@ ("gal" :> 2)

Says(amount, pouring, unit, co2) ==
    [amount |-> amount, pouring |-> pouring, unit |-> unit, co2 |-> co2]

(* Readings and the flag, together and apart; a change of unit or mode, alone *)
(* or with the end of a pour.                                                *)
ScalePackets ==
    {Says(a, p, None, None) : a \in Amounts \cup {None}, p \in BOOLEAN \cup {None}}
    \cup {Says(None, p, "gal", None) : p \in {None, FALSE}}
    \cup {Says(None, None, None, c) : c \in BOOLEAN}

(* Either minimum turned off. *)
TwoMinimums == {[amount |-> 2, seconds |-> 0], [amount |-> 0, seconds |-> 1]}
=============================================================================
