----------------------------- MODULE MCCatalog -----------------------------
(***************************************************************************)
(* A small instance of Catalog: two taps, two kegs and two browsers that   *)
(* make three requests between them.  The conversions have the ratios of   *)
(* small whole numbers, so that the amounts used stay whole.               *)
(***************************************************************************)
EXTENDS Catalog, TLC

CONSTANTS t1, t2, k1, k2, b1, b2

Scale == [label \in Labels |->
    CASE label \in {"litre", "kg", "kg CO2"} -> 2
      [] label = "gal" -> 8
      [] OTHER -> 1]

SubUnits == [label \in Labels |->
    CASE label \in {"litre", "kg", "kg CO2"} -> 4
      [] label = "gal" -> 8
      [] OTHER -> 2]

(* A keg that weighs in lbs, one that has only named a unit nobody knows. *)
SomeDevices == {[unit |-> 2, measure |-> 1, mode |-> 1, named |-> "odd"],
                [unit |-> None, measure |-> 2, mode |-> None, named |-> "odd"]}

(* Nothing stored yet; and a table with a value that no version knows. *)
SomeTables == {<<>>, [display_unit_system |-> "imperial", display_unit_measure |-> "volume",
                      min_pour_value |-> None, min_pour_unit |-> "ml"]}

(* One tap, with a keg; and an old database with one keg on both. *)
SomeLayouts == {(t1 :> [number |-> 1, keg |-> k1]) @@ (t2 :> None),
                (t1 :> [number |-> 1, keg |-> k1]) @@ (t2 :> [number |-> 2, keg |-> k1])}

SomePatches == {[display_units |-> [system |-> "us", measure |-> "device"]],
                [min_pour |-> [value |-> -1, unit |-> "oz"]]}

SomeForms == {[number |-> 1, keg |-> k1]}

(* A swap or a move, and one keg on two taps. *)
SomeLinks == {<<[tap |-> t1, keg |-> k2], [tap |-> t2, keg |-> k1]>>,
              <<[tap |-> t1, keg |-> k2], [tap |-> t2, keg |-> k2]>>}

TwoTaps == {<<t2, t1>>}
TwoKegs == {<<k1, k2>>, <<k2, k1>>}
Scalars == {32}
OneOunce == [value |-> 1, unit |-> "oz"]

Symmetry == Permutations({b1, b2})
=============================================================================
